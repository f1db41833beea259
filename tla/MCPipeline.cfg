CONSTANTS
  NBufs = 2
  MaxImages = 4
  FrameCounts <- MCFrameCounts
  NoFrame = NoFrame
  Nobody = Nobody

SPECIFICATION FairSpec

INVARIANTS
  TypeOK
  FilesMatchCapture
  FramesAreNew
  StatsInOrder
  NothingLost
  BufferAccounting
  

PROPERTIES
  SlotContract
  IsRecorder
  Termination
