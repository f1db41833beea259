\* Every status the header of librga lists.
CONSTANTS
  Paths = {p0, p1}
  Images = {i1, i2}
  Sizes = {3, 4}
  IntMax = 15
  Zeros = Zeros
  Garbage = Garbage
  Absent = Absent
  Truncated = Truncated
  RgaStatuses <- IM_STATUS
  ShortFrames = FALSE

SPECIFICATION Spec

INVARIANT
  RgaFailureIsReported

\* No path is left to write to.
CHECK_DEADLOCK FALSE
