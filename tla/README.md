# Verification of rk_image_processor

`rk_image_processor` captures frames from a V4L2 camera, turns each of them into
a JPEG with the hardware of the RK3588 (RGA for the colour conversion, MPP for
the encoder) and writes `frame_0.jpg`, `frame_1.jpg`, ... This directory holds
TLA+ models of it, the TLC configurations that check them, and TLAPS proofs.
The definitions are translated from `src/src/main.cpp`, `src/hw_shim.c` and
`src/src/hw/`.

## The system

| Part | State it keeps | Operations | Meets |
|---|---|---|---|
| Bounded slot (`main.cpp:273-313`) | `item`, `closed`, a mutex, a condition variable | `push`, `pop`, `close` | capture and process thread |
| Camera streaming (`main.cpp:185-258`, `64-72`) | the buffers `bufs`, the driver's incoming and outgoing queues | `camera_start`, `camera_dequeue`, `camera_requeue`, `camera_stop`, `camera_close` | V4L2 driver, main, capture thread |
| Pipeline threads (`main.cpp:486-573`) | loop counter, the frame in hand, `stats`, the files | main; capture lambda; process lambda | slot, camera, `process_frame` |
| Camera set-up (`main.cpp:90-183`) | `fd`, `pixfmt`, size, mappings | `camera_open`, `camera_alloc_bufs` | driver, main |
| Frame processing (`main.cpp:75-88`, `329-389`, `hw/rga.*`) | none between frames | `process_frame`, `v4l2_to_rga_fmt`, `rga_cvt_resize` | RGA, encoder, file system |
| MPP JPEG encoder (`hw_shim.c:253-392`, `hw/mpp_jpeg.*`) | MPP context, buffer group, input buffer | `create`, `encode`, `destroy` | librockchip_mpp |
| Dynamic loading (`hw_shim.c:24-209`) | `attempted`, `ready`, function table | `ensure_rga_api`, `ensure_mpp_api` | dlopen, both users |
| Latency statistics (`main.cpp:393-436`) | none | `to_ms`, `FrameTiming`, `print_stats` | `stats` of the process thread |
| Command line (`main.cpp:440-466`) | none | `print_usage`, `atoi` | main |

Build files and the vendored `aarch64_sysroot` headers have no behaviour of
their own here.

How they interact: main opens the camera, creates the encoder, starts
streaming and creates two threads. The capture thread takes a filled buffer
from the driver, copies it, gives the buffer back at once and pushes the copy
into the slot; when the slot is full it blocks (back-pressure). The process
thread pops, runs `process_frame` and appends to `stats`. The capture thread
closes the slot when it leaves its loop; the process thread ends when the slot
is closed and empty; main joins both, stops and closes the camera and prints.

What is hard, and makes each part correct:

- Slot: one condition variable for three methods, predicates tested between
  wake-ups; `close` comes from the thread that pushes, after its last push, and
  so while the other side sleeps or takes the last frame. Correct when no wake-up is lost, no frame
  is overwritten, duplicated or dropped, nothing enters after `close`, and
  `pop` reports the end only when the slot is drained.
- Camera streaming: every buffer has one owner; a failed requeue is ignored and
  starves the driver; poll may time out or be interrupted.
- Pipeline: the copy keeps its identity after the kernel buffer is refilled;
  every way out of the capture loop ends all three threads; tear-down comes
  after the joins; a negative frame count aborts, and no other may.
- Camera set-up: `VIDIOC_S_FMT` may substitute a format; failures part-way
  through mapping.
- Frame processing: short frames, result codes of RGA, a length computed in
  `int` in one place and in `size_t` in the others, unchecked writes.
- Encoder: seven acquisitions that may fail one by one; a packet that arrives
  late; sharing one instance between threads.
- Loading: `attempted`/`ready` without a lock; an incomplete library must be
  closed, forgotten and not tried again. Correct when the answer never changes,
  when no two threads ask at a time, and when nothing is called that is not set.
- Statistics: a failed frame has stages that were not reached; correct when the
  stages of a frame fit into its latency and the columns are about these frames.
- main as a whole: five exits, each of which must release what was acquired, and
  an encoder that must outlive the thread that uses it.

Each of these is a hazard in `PROJECT.json`, at its line.

## Modules

### `Recorder` — what the program promises

No more images are taken than were wanted, each is worked on once, in order, and
saved under its own number or passed over, and the program ends only when none
is left. At most `InFlight` frames are under way. There are no threads, slot,
buffers or driver in it. `Pipeline` implements it, and so does `Session` with
the images and the files left out.

### `SyncChannel` — what the slot promises

An atomic, closable FIFO of capacity `Capacity`, the "sync_channel(1)" of the
comment at `main.cpp:272`. A call is invoked, takes effect in one step
(`Send`, `SendRefused`, `Receive`, `ReceiveEnd`, `Shut`) and returns. A call
that cannot take effect stays pending; there is no mutex and no waiting.

### `BoundedSlot` — how it keeps the promise

| Code | Model |
|---|---|
| `std::unique_lock lk(mtx)` (also inside `cv.wait`) | `Lock` |
| the predicates of lines 285 and 298 | `Ready` |
| `cv.wait` with a false predicate: release and sleep | `Block` |
| a wake-up without notification | `SpuriousWake` |
| `push`: `return false`, or store | `PushRefused`, `PushStore` |
| `pop`: `return false`, or take | `PopEmpty`, `PopTake` |
| `close` | `CloseSet` |
| `cv.notify_all()` | `NotifyAll` |
| `lk` leaves its scope, the method returns | `Unlock` |

`pc[t]` says where thread `t` is: outside (`idle`), waiting for the mutex
(`lock`), at the predicate with the mutex (`test`), asleep (`blocked`), before
`notify_all`, or before the return. `fb[t]` is the `FrameBuffer` the thread
passes by reference: `PushStore` moves out of it, `PopTake` into it. A moved-from
`FrameBuffer` is `NoFrame`. The client is the most general one: any thread may
call any method with any frame at any time.

`Channel` is the refinement mapping to `SyncChannel`: a call is `pending` until
its critical section decides, and `done` from then to its return.

### `V4l2Queue` — buffers between driver and program

Operators, one per function of the camera, over the driver's queues
`incoming` (queued, may be written) and `outgoing` (filled, waiting for DQBUF).
`content[b]` is the number of the image in buffer `b`; the pixels are not
modelled. The driver is external: `DriverFill` writes the next image to the
oldest incoming buffer, `DriverFillEmpty` returns that buffer with `bytesused` 0
and with whatever it held before, `DriverDrop` loses the image when there is no
buffer.
`CameraRequeue` has two outcomes, since the result of `VIDIOC_QBUF` is ignored;
`lost` records the buffers whose requeue failed. A read of `content` is one
step: what stands for the absence of a torn read is `BufferAccounting`, which
says the driver may not write the buffer the program is copying.

### `Pipeline` — main and the two threads

Composes `BoundedSlot` (by `INSTANCE`, with its full interleaving) and
`V4l2Queue` (by `EXTENDS`). `mainAt`, `captureAt` and `processAt` are the
program counters. `captured` is a history variable, `stats` keeps the indices
of the entries, `files[n]` the image in `frame_n.jpg`. `ProcessFrame` stands
for the whole of `process_frame` and the `push_back`: it may write the file or
fail, and the entry in `stats` comes in both cases. `camera_start` may fail
after any number of `VIDIOC_QBUF`. A frame with `bytesused` 0 counts as a full
one (`main.cpp:520`), so that an image can be saved again; the history variable
`blank` keeps which frames were of that kind, and `FramesAreNew` says that there
is no other way to save an image twice.

A negative frame count reaches `stats.reserve` as a huge `size_t`; the
exception is not caught and the program aborts (`MainAborts`).

`Rec` is the refinement mapping to `Recorder`: taken is what was dequeued,
finished is what has an entry in `stats`, and the program has ended when main
comes to `camera_stop`.

### `CameraSetup` — from `camera_open` to `camera_close`

One action per call of `camera_open` and `camera_alloc_bufs`, each of which may
fail: `OpenDevice`, `QueryCap`, `SetFormat` / `FormatRefused` /
`FormatsExhausted` (the loop over `fmt_prefs`), `RequestBufs`, `MapBuf` /
`MapFails`. `CameraClose` is what main calls after a failure and at its end.
`ptrs` is `cam.bufs[i].ptr`, `mappings` what the process really has mapped, so
that the two can disagree (`MAP_FAILED` is a pointer that is not null and maps
nothing). `VIDIOC_REQBUFS` may grant no buffer at all: the code does not look at
the count, the loop has no round and the set-up succeeds; a camera of that kind
never delivers a frame. The driver is chosen in `Init`: the formats it knows, and whether it
refuses an unknown one or substitutes one it knows, as V4L2 permits.

### `FrameSaver` — what `process_frame` promises

Called with an image and the path of a file that is not there, it returns true
with that image in the file, or false without a file. Only of a frame that is not
`sound` may the file show something `Wrong` instead. A frame can be unsound from
the call on, or become so while the call is under way (`Spoil`). Whether the file
is whole is not promised, since the code does not look. `Save` and `GiveUp` are
the two outcomes that `ProcessFrame` of `Pipeline` has, where frames are sound
and a file that is written is whole.

### `JpegEncoder` — what the encoder promises

`encode` takes an image and returns the JPEG of that image, or nothing. A call
is invisible between its beginning and its return.

### `MppJpeg` — how the encoder works

`at` walks through the calls of `rk_mpp_jpeg_create`, `held` is the set of
handles; `Acquire` and `Check` are its two kinds of call, `CreateFails` the
label `fail:`. `Destroy(loaded)` is `rk_mpp_jpeg_destroy` as it is written: it does
not look whether anybody is inside `encode`, and without the library it frees only
its own memory. That neither happens is up to the owner of the encoder, and is
`OwnerDestroys` here; `EncoderContract` shows that main keeps to it. `pc[c]` walks each caller through
`rk_mpp_jpeg_encode`:

| Code (`hw_shim.c`, `mpp_jpeg.cpp`) | Model |
|---|---|
| size test | `TooShort` |
| `memcpy` into `in_ptr` | `CopyFirst`, `CopyRest` |
| `mpp_frame_init` and setters | `FrameInit` |
| `encode_put_frame` | `PutFrame`, `PutFails` |
| `encode_get_packet` | `GetPacket`, `GetFails` |
| copy to `out_buf`, `mpp_packet_deinit` | `TakePacket` |
| `mpp_frame_deinit`, return | `FrameDeinit` |

librockchip_mpp is external: `pending` frames refer to the one input buffer,
`Hardware` reads that buffer when it comes to a frame, `results` are the packets
not fetched yet. An image has two halves so that a copy can be met half-way. An
encoder whose `encode_get_packet` can fail before the result is there is the
constant `GetMayGiveUp`.

`Encoder` is the refinement mapping: a caller is busy when it is not `idle`, and
what it returns becomes visible when it returns.

### `FrameProcessing` — `process_frame`

The stages `convert`, `encode`, `open`, `write` of one frame, each with its
early return. `picture` is what the buffer handed to the next stage shows: the
camera image, the zeros of a fresh `std::vector`, or what lies behind a frame
that is too short. `handed` is the length of that buffer. Three files compute
the length of an image on their own: `required_len` and `in_size` in `size_t`,
which is wide enough, and `Nv12Lens` in `int` (`main.cpp:356`). When `w * h * 3`
is above `IntMax` that is undefined; the model lets it wrap or be exact
(`AsInt`), divides as C does (`Cut`), and so has a set of lengths. A negative one
makes `std::vector` throw, which nobody catches, and one that is too short makes
RGA write behind the vector: `Aborts` is the end of the program in both cases,
and in the second the call may also go on, with a buffer that `encode` refuses.
`status` is the number `rk_rga_cvt_resize` returned;
whether it means success is asked twice, once as the code does (`status >= 0`)
and once as the header of librga defines it (`Succeeded`). `IM_STATUS` has all the
values of that header, the failure that is 0 among them. A file exists from
the `ofstream` on (`Truncated`) and shows `picture` when the write is complete.
In `Pipeline` the same function is one step, `ProcessFrame`.

`Saver` is the refinement mapping to `FrameSaver`: a file that is open counts
only when the call returns, and `Sound` says which frames are: those that are
complete or not converted, and whose status was not `IM_STATUS_FAILED`.

### `LatencyStats` — what is measured, and `print_stats`

Extends `FrameProcessing`: each of its steps takes some milliseconds before it
reads the clock and some after. Only differences of readings matter, so `total`
and `since` hold the time since `captured_at` and since the last mark (`t0`,
`t1`, `t_write`), and there is no clock. `timing` is the `FrameTiming` of the
frame, which only the stages that are reached write; every return appends an
`Entry` to `stats`. `Gather` and `Col` are the two halves of the lambda in
`print_stats`. The loop over the entries is a recursive function in `AddAll`:
`ran[k]` is the struct `Col` after the first `k` durations.

### `DynLoader` — loading a library once

`ensure_rga_api` and `ensure_mpp_api` are the same code over two structs, so
`Ensure(lib)` has one action per step of it: the two tests (`AlreadyReady`,
`AlreadyAttempted`), `FirstCall`, `dlopen` of one candidate after the other
(`OpenNext`, `NoCandidate`), `dlsym` of all symbols (`LoadSymbols`, which finds
any subset), and the test that they are complete (`SymbolsComplete`,
`SymbolsMissing`). `open` is what the process really has open. The module does
not say who calls.

### `Session` — the whole of main

From `argc` to the exit code, composed of `CameraSetup` and `MppJpeg` (by
`INSTANCE`) and `DynLoader` (by `EXTENDS`). The process thread is the one caller
of the encoder. `MainLoadsMpp` and `MainAsksMpp` are the calls of
`ensure_mpp_api` in `create` and `destroy`, `ProcessInEncoder` contains the one
in `encode`, and `ProcessLoadsRga` is the call of `ensure_rga_api`. What
`MppJpeg` leaves open, whether the library is there, is answered by the loader
here. The slot is the atomic channel that `BoundedSlot` was shown to implement,
and a frame is counted only (`taken`, `handled`): its identity and its buffer
are in `Pipeline`; `Rec` maps both modules to the same `Recorder`.
`EncoderContract` says that a session is a behaviour of `MppJpeg`, so that the
theorems about it hold here.

Each `MC` module instantiates the module of its name for TLC. An operator whose
comment begins with "A mistake to be caught" is no part of the model: it is a
mutated form of the definition after it, for which the property named in
`PROJECT.json` must fail.

## Runs

| Run | Instance | States | Shows |
|---|---|---|---|
| `slot` | 3 threads, 2 frames | 197 thousand | `TypeOK`, `MutualExclusion`, `NoLostWakeup`, `EndIsFinal`, and the refinement `IsSyncChannel` |
| `pipeline` | 2 buffers, 4 images, frame counts -1, 0, 1, 4 | 403 thousand | `FilesMatchCapture`, `FramesAreNew`, `StatsInOrder`, `NothingLost`, `BufferAccounting`, `TeardownAfterThreads`, that the threads use the slot as it allows (`SlotContract`), the refinement `IsRecorder`, and `Termination` under `FairSpec` |
| `camera_setup` | 4 formats, 3 of them preferred, 0 to 4 buffers, every driver | 3500 | `TypeOK`, `NothingLeaks`, `ReadyIsUsable`, whichever call fails |
| `encoder` | 1 caller, 2 images, `GetMayGiveUp = FALSE` | 164 | `TypeOK`, `NothingLeaks`, `HandlesLive`, `QuietBetweenCalls`, `InputStable`, the refinement `IsJpegEncoder`, and `EncodeReturns` under `FairSpec` |
| `frames` | 2 paths, 2 images, 5, 6 or 12 pixels with ints up to 15, every kind of status, short frames, 2 entries, at most 2 ms | 2.3 million | `TimedTypeOK`, `ShortOrHuge`, `StagesWithinTotal`, `SummaryOfFrames`, and the refinement `IsFrameSaver` |
| `session` | 2 libraries of 2 symbols and 2 candidates, 3 formats, up to 2 buffers, frame counts -1, 0, 2, `GetMayGiveUp = TRUE` | 183 thousand | `ExitReleasesAll`, `ExitCodeMeansFrames`, `LoadsDoNotOverlap`, `CallsAreBound`, `LibrariesAccounted`, `AnswerIsFinal`, the refinements `EncoderContract` and `IsRecorder`, and `Termination` under `FairSpec` |

Six runs end in a counterexample; see Findings.

Bounds, and why they are enough:

- `Threads`: three threads allow two sleepers on the same condition variable
  with a third that wakes them, in every mix of push and pop. `notify_one`
  instead of `notify_all` already goes wrong there. The pipeline has exactly two.
- `Frames`: two, so that one frame can be taken for another.
- `NBufs`: two buffers (the code asks for four) let the driver refill one while
  the capture thread copies the other, let four frames use each buffer again,
  without which no image could be saved twice, and can both be lost by failed
  requeues.
- `MaxImages`: caps how many images the sensor delivers. When it is reached the
  driver is silent, which the program sees as a poll that times out.
- `FrameCounts`: negative, zero, one, and four, which fills the capture
  thread, the slot and the process thread at once and leaves one more to come.
  In `session`, where frames are only counted, two: one in the encoder and one
  in the slot.
- `Formats`, `fmt_prefs`: the three formats of the code in its order, and YUYV
  for all those it does not ask for.
- `MaxBufs`: the four buffers the code asks for; the driver may grant fewer, or
  none.
  Two in `session`, so that a set-up can fail with one buffer mapped.
- `Callers`: one, as in this program, or two, as the header of the encoder
  allows (`encoder_shared`). The theorems cover any number.
- `Images`: two in `encoder` and `frames`, so that one can be taken for the
  other. In `session` it is one, since a frame is only counted there.
- `InFlight` (of `Recorder`): three, one frame in the capture thread, one in the
  slot and one in the process thread. The mapping fixes it; two would be wrong.
- `Sizes`, `IntMax`: of 5, 6 and 12 pixels with ints up to 15. 5 is the largest
  that does not overflow, and odd, so that the halving of `w * h * 3 / 2` rounds;
  6 comes out negative and 12 too short. The two runs that end in a
  counterexample take sizes without overflow.
- `n_frames`, `MaxTotal`, `Infinity` (frames): two entries, so that a minimum, a
  maximum and an average can differ and a frame can leave a time behind for the
  next; up to 2 ms per frame, which can fall to its dequeue and to a stage or to
  two stages; and a number above all durations.
- `Libs`, `Symbols`, `Candidates`: the two libraries, each with two functions of
  which one can be missing, and two file names of which the second can be the
  one that exists.
- `Depth`: how many frames MPP holds, here two: one left over from an earlier
  call and the one of this call.
- `RgaStatuses`: the statuses of the vendored header, all of them in
  `frames_status`; in `frames` one of each kind, a success, a failure that is
  negative and the one that is 0. `ShortFrames`: whether a frame may be shorter
  than its format requires, by one byte.
- `Paths`: two files, so that one frame can follow another. The runs `frames*`
  allow deadlock because they end when both are used.

Deadlock is checked in the runs `pipeline` and `session`: a state without a step
is one where main cannot finish, since `Ended` steps only from the program's end.
`slot` allows deadlock because its client may: every thread can choose to pop
and nobody to push.

### Fairness

`FairSpec` asks weak fairness of main, of the capture thread, of the process
thread, and of each thread inside the slot: the operating system runs a thread
that can run; `poll` returns within `POLL_TIMEOUT_MS`, so a dequeue always
succeeds or fails; `process_frame` returns. No fairness is asked of the driver,
of the success of any call, or between threads that compete for the mutex
beyond that: with two threads, one that keeps the mutex long enough goes to
sleep or leaves. Spurious wake-ups are finitely many: the standard permits
them, no implementation produces them forever.

In `MppJpeg`, `FairSpec` asks weak fairness of each caller inside `encode` and of
`Hardware`: MPP comes to a result, good or bad, for every frame it accepted. It
asks nothing of `Call`, `create` or `OwnerDestroys`, nor that any call succeed.

In `Session`, `FairSpec` asks weak fairness of main, of each of the two threads
and of `Hardware`, for the same reasons. A step of main or of a thread is always
enabled until it has ended or waits for the other, so this is no more than that
each of them is scheduled and no call blocks for ever.

## Findings

Each of these is a run that ends in a counterexample; `PROJECT.json` quotes the
documents.

| Run | Property violated | What the code does |
|---|---|---|
| `camera_format` | `FormatIsPreferred` | `camera_open` takes whatever format `VIDIOC_S_FMT` substituted; the README promises an error exit |
| `encoder_shared` | `IsJpegEncoder` | `encode` has no lock around the input buffer and the put/get pair; `mpp_jpeg.hpp:30` says an instance may be shared |
| `encoder_late` | `IsJpegEncoder` | after an `encode_get_packet` that failed early, the next call returns the JPEG of the earlier frame |
| `encoder_config` | `ReadyIsConfigured` | the result of `MPP_ENC_SET_CFG` is ignored, `create` returns an encoder all the same |
| `frames_status` | `RgaFailureIsReported` | `IM_STATUS_FAILED` is 0 and passes the test `ret >= 0` |
| `frames_short` | `FilesShowImages` | the length of an NV16 or BGR24 frame is never compared with what RGA will read |

`camera_format` needs a driver that substitutes, `encoder_shared` a client this
program does not have, `frames_short` a camera that delivers a short frame, and
the other three a library that fails in the way named.

## Proofs

`BoundedSlotProofs` proves about `BoundedSlot`, for every set of threads and
frames, from `SlotAssumption` only (`NoFrame` is no frame, `Nobody` no thread):

- `TypeCorrect`, `MutexCorrect`, `WakeupCorrect`, `EndCorrect`: the properties
  of the run `slot`;
- `SlotInvariant`: the inductive invariant `IndInv` behind them;
- `SlotImplementsChannel`: `Spec => IsSyncChannel`.

The argument. `MutualExclusion` is inductive with the types. `NoLostWakeup` is
not inductive without it: a step of a thread that leaves the critical section
must not be the one that had to notify, which needs that the owner of the mutex
is the only thread in a critical section. Then a step that makes a predicate
true (`PushStore`, `PopTake`, `CloseSet`) leaves its thread as owner at
`notify`, and only `NotifyAll` leaves that point, with nobody blocked
(`QuietOwner` is the case of all other steps). For the refinement,
`PusherHoldsFrame` is added: the item that `PushStore` puts into the empty slot
is a frame, so that the channel's queue grows. Every step then is the step of
the channel with the matching name, or a stutter (`Lock`, `Block`,
`NotifyAll`, `SpuriousWake`).

`MppJpegProofs` proves about `MppJpeg`, for every set of callers and images and
every `Depth`, from `EncoderAssumption`:

- `TypeCorrect`, `NothingLeaksCorrect`, `HandlesLiveCorrect`, with any number of
  callers and any behaviour of MPP, from `LedgerCorrect`;
- `QuietCorrect`, `StableCorrect` and `SoleCallerGetsOwnJpeg`
  (`Spec => IsJpegEncoder`) under the two conditions that the runs
  `encoder_shared` and `encoder_late` show to be needed: there is at most one
  caller (`SoleCaller`), and `encode_get_packet` waits for its result
  (`GetMayGiveUp = FALSE`).

The argument. `NothingLeaks` says nothing of the stages between the first
acquisition and the label `fail:`, so `Ledger` adds which handles exist at every
stage of create (`HeldByStage`) and what a caller owns at every place in encode
(`OwnedByPlace`); both are inductive together with the types. For the packet
returned, `OwnOnly` follows the image of the call in progress from the input
buffer through MPP to `out`: with one caller all three hold nothing else. It
needs the length of `results`, hence `OneResult`. `FrameDeinit` and `TooShort`
are then the abstract `Return`, `Call` is `Call`, all other steps stutter.

`DynLoaderProofs` proves about `DynLoader`, for any libraries, symbols and
numbers of candidates, from `LoaderAssumption`: `LoaderTypeCorrect`,
`LibrariesCorrect` (`LibrariesAccounted`) and `AnswerCorrect` (`AnswerIsFinal`).
The argument. Both speak of a library that nobody is loading, and are silent of
the time between; `LoaderInv` adds that a call that loads is the first one, so
that no answer has been given yet (`InFirstCall`), and that the answer given is
what the two flags will answer (`AtRest`). A step for one library leaves the
others alone (`OthersUntouched`), so that it is enough to look at one.

`PipelineProofs` proves about `Pipeline`, for any number of buffers and images
and any frame counts, from `PipelineAssumption`, every safety property of the
run `pipeline`: `FilesCorrect`, `NoneIsLost`, `StatsCorrect`, `OrderOfImages`,
`TeardownLast`, `BuffersAccounted`, `PipelineTypes`,
`SlotIsUsedRight` (`Spec => SlotContract`) and `PipelineImplementsRecorder`
(`Spec => IsRecorder`). `AllProcessed` is a corollary that no run checks: at the
end every captured frame has its entry. With the last, the theorems of
`BoundedSlotProofs` hold in the program (`SlotInvariantHolds`); the module is
instantiated there as `SlotProofs`, and `SameSlot` says that the two instances of
the slot have the same definitions.
The argument. None of the properties is inductive alone. `PipelineInv` adds:

- where each thread is against the others and against the method of the slot it
  is in (`Places`, `Calling`), and that a slot which is closed has no push to
  come (`Closing`), without which a push could be refused and its frame lost;
- one owner for every buffer (`Owners`): the driver must not get a buffer twice,
  or it could refill the one that is being copied;
- which frame is where (`Tokens`): the entries, the frame in the process thread,
  the one in the slot and the one in the capture thread follow each other
  without a gap, each with the image that was dequeued under its number;
- how old the images are (`Ages`): a buffer the driver has filled is newer than
  everything dequeued, and than the buffers before it; its image has a
  number above 0 (0 stands for a buffer never filled). `FramesAreNew` speaks of
  what was dequeued only, and says nothing of the buffers it comes from.

For the refinement, a dequeue that succeeds is `Take`, which `Tokens` allows: the
frames under way have their places in the two threads and the slot, and there
are three. `ProcessFrame` is `Save` or `Skip`, because the file it writes has the
number of the next entry and the image that was dequeued under it. main reaches
`camera_stop` when both threads have returned (`BothExited`), and then the slot
is empty and nothing was lost, which is what `End` asks. All other steps stutter.

`CameraSetupProofs` proves about `CameraSetup`, for any formats, preferences and
number of buffers: `SetupTypes`, `CloseUndoesAll` (`NothingLeaks`) and
`SetupSucceeds` (`ReadyIsUsable`). `SetupInv` adds that the mappings are those
of the pointers that were mapped, and that the loop over the buffers has mapped
a prefix of them, so that the last one completes them (`LoopPosition`).

`FrameProcessingProofs` proves about `FrameProcessing`, from
`ProcessingAssumption` only, that is for any paths, images, numbers of pixels and
width of `int`, any subset of the statuses of `im2d_type.h`, and frames that may
be short:

- `ProcessingTypes`, and `FailureClean`: a call that gives up leaves no file.
- `LengthsCorrect` (`ShortOrHuge`): a frame is refused for its length only if it
  came short, or was converted and has a size that overflows; the program ends
  only in the latter case. Without an overflow `Nv12Lens` has one member, and that
  is `required_len` for odd sizes too (`SmallLength`).
- `FailureReported` (`OnlyFailedPasses`): of the failures of librga at most
  `IM_STATUS_FAILED` passes for a success. That it does is the run
  `frames_status`.
- `FilesAreImages` (`FilesExplained`): a file shows an image of the camera, or the
  frame was converted and one of the two known causes was there, `IM_STATUS_FAILED`
  for zeros and a short frame for the memory behind it. It follows for a camera
  with NV12 that every file shows an image (`Nv12FilesAreImages`). That both causes
  do occur are the runs `frames_status` and `frames_short`.
- `ProcessFrameSaves` (`Spec => IsFrameSaver`). The step that returns is `Save`
  or `GiveUp`, the one that begins is `Call`, a conversion whose failure passes is
  `Spoil`, and the other stages stutter, the abort with them.

The argument. `StatusPassed` says which statuses there are before and after the
conversion, and `PictureExplained` that a picture long enough for the encoder is
the image the call was given, or that there is a reason (`Instead`). The second
needs the comparison in `encode`: the picture of a buffer that came out too
short, or of a short NV12 frame, is not the image, and is refused there.

`LatencyStatsProofs` shows that the clock is superposed: with the times left out
every behaviour is one of `FrameProcessing` (`TimedIsProcessing`), so that its
theorems hold with the clock (`TimedProcessFrameSaves`, `TimedLengthsCorrect`,
`TimedFailureClean`). `StagesFit` (`StagesWithinTotal`) and `TimedTypes`
follow from `Accounted`: the time in the stages so far, in the dequeue and since
the last mark are together no more than the time there was, for any durations
and any number of frames.

`SummaryIsOfFrames` (`SummaryOfFrames`) is about the loop of `print_stats`: for
any number of entries the minimum and the maximum of a column are durations
that were measured, and enclose all the others and the average. It takes
induction over the loop, and the library's induction theorems cannot be used
here, since they take an operator as parameter. The way round: a nonempty set
of naturals has a least element (`LeastNat`, from well-foundedness, which the
library states of sets), hence induction can be stated about a set of naturals
(`InductionOverSet`). Applied to the set of the `k` up to which `AddAll` is
what its equation says, it shows that the recursion is well defined
(`LoopRuns`, `AddAllRuns`); applied to the set of the `k` at which `Summary`
holds, the loop invariant, it shows the invariant at the end (`LoopSummary`).
`Summary` relates minimum, maximum, sum and count to the entries so far, and
the average follows from `count * min <= sum <= count * max`. The proof needs
that every duration is below the number the minimum starts from (`MaxTotal <
Infinity`, in `LatencyAssumption`; the code starts from the largest `double`).

`SessionProofs` proves about `Session`, from `SessionAssumption` (the two
libraries are among `Libs`, and the constants are as the parts assume), for any
camera, encoder and frame counts, first that main uses its parts as their
modules allow: `SessionIsLoader`, `SessionIsCamera`, and `EncoderUsedRight`
(`EncoderContract`). The proofs about the parts are instantiated as `CamProofs`
and `EncProofs`, so that what they show holds here too, for example
`SessionGetsOwnJpeg`. Then, about main as a whole: `ExitCorrect`
(`ExitReleasesAll`), `ExitCodeCorrect` (`ExitCodeMeansFrames`), `NoTwoLoads`
(`LoadsDoNotOverlap`), `CallsCorrect` (`CallsAreBound`), `SessionTypes`, and
`SessionImplementsRecorder` (`IsRecorder`).
The argument. All of these speak of one place of main and follow from what
`MainInv` knows at every other: the exit code against the way main is on
(`Exits`); the life of the threads, and a balance of the frames taken over the
places where one can be (`ThreadLives`); that the camera is ready while main
works (`CameraUse`); that the process thread is inside the encoder only while
main waits for it, and that an encoder which exists has its library
(`EncoderUse`). That the library of the encoder is still there when it is
destroyed is `AnswerStep` of the loader. That a session implements `Recorder`
needs no more than the balance of `ThreadLives`: what is taken and not handled is
in one of three places, and main stops the camera when all three are empty.

`PipelineInv`, `SetupInv` and `MainInv` were also checked by TLC, on the instances
of the runs `pipeline` (403 thousand states), `camera_setup` and `session`.

Every safety property of the passing runs is a theorem, as are the refinements.
Only model-checked are `Termination` (of `Pipeline` and of `Session`) and
`EncodeReturns`: liveness under fairness is outside the prover. No module
declares a recursive operator; `AddAll` is a recursive function.

## Plan

Done: the slot with its refinement; the pipeline and the camera queues, with
failed transfers; the encoder with its refinement; camera set-up; frame
processing with its lengths; the latency statistics; the loader; the whole of
main as a session; and the promise of the program, which the pipeline and the
session both implement. All of it is proved but for liveness.

Two models of one thing are connected through what they both implement, not one
by the other: the threads in `Pipeline` and in `Session` through `Recorder`,
and `process_frame` in `FrameProcessing` and in `Pipeline` through the two
outcomes of `FrameSaver`. The second connection is by reading only, since
`Pipeline` keeps no result of `process_frame`. A refinement of the one by the
other would be the next step.

## Not modelled

- Pixel data, formatting and log output, and the size of the image beyond the
  number of its pixels.
- In `Pipeline` and `Session`, where `process_frame` is one step or a few: the
  sizes at which `w * h * 3` overflows (from 715 million pixels on), and frames
  that are not sound. `FrameProcessing` has both.
- What RGA overwrites behind an `nv12` that is too short, other than that the
  program may end for it.
- A buffer with `V4L2_BUF_FLAG_ERROR` and a `bytesused` that is not 0: the code
  treats it as any other frame, and what it shows is data.
- The order in which `fail:` and `rk_mpp_jpeg_destroy` release the handles: `held`
  is a set.
- What the process leaves behind when it aborts. `Termination` accepts an abort
  as an end: in `Pipeline` for a negative frame count only; in `Session` also
  because `std::thread` may throw.
- Two calls of `ensure` for one library at a time: the code has no lock there,
  and `LoadsDoNotOverlap` shows that this program needs none.
- What a truncated write leaves behind: `Write` may leave a truncated file and
  return true, as the code does, and no document of the program denies it.
- Exceptions other than the `length_error` of `stats.reserve` and of `nv12`, and
  the one of `std::thread` (`std::bad_alloc`).
- The inside of the kernel, librga and librockchip_mpp, which are modelled from
  how the code uses them.
- The vendored headers under `aarch64_sysroot` are declarations only, and by far
  the most lines of the repository. The program uses one of their definitions in
  a test, the status codes of `im2d_type.h`, and that one is modelled.
