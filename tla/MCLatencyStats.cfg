\* Any frames and statuses.  With ints up to 15, 5 is the largest size that does
\* not overflow; nv12 becomes a negative length for 6 and a short one for 12.
CONSTANTS
  Paths = {p0, p1}
  Images = {i1, i2}
  Sizes = {5, 6, 12}
  IntMax = 15
  Zeros = Zeros
  Garbage = Garbage
  Absent = Absent
  Truncated = Truncated
  RgaStatuses <- MCStatuses
  ShortFrames = TRUE
  n_frames = 2
  MaxTotal = 2
  Infinity = 99

SPECIFICATION TimedSpec

INVARIANTS
  TimedTypeOK
  ShortOrHuge
  StagesWithinTotal
  SummaryOfFrames

PROPERTY
  IsFrameSaver

\* No path is left to write to.
CHECK_DEADLOCK FALSE
