\* Three threads, so that several of them can sleep at once; two frames, so
\* that a frame can be mistaken for another.  Any thread may call any method.
CONSTANTS
  Threads = {t1, t2, t3}
  Frames = {f1, f2}
  NoFrame = NoFrame
  Nobody = Nobody

SPECIFICATION Spec

INVARIANTS
  TypeOK
  MutualExclusion
  NoLostWakeup

PROPERTIES
  EndIsFinal
  IsSyncChannel

\* The most general client may stop for good: every thread can be asleep in
\* pop with nobody left to push or close.
CHECK_DEADLOCK FALSE
