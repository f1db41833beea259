\* A camera that may deliver a frame shorter than its format requires.
CONSTANTS
  Paths = {p0, p1}
  Images = {i1, i2}
  Sizes = {3, 4}
  IntMax = 15
  Zeros = Zeros
  Garbage = Garbage
  Absent = Absent
  Truncated = Truncated
  RgaStatuses <- NegativeFailures
  ShortFrames = TRUE

SPECIFICATION Spec

INVARIANT
  FilesShowImages

\* No path is left to write to.
CHECK_DEADLOCK FALSE
