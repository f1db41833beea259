\* One caller, as in this program: the process thread.  Two images, so that
\* the JPEG of one can be taken for that of the other.
CONSTANTS
  Callers = {c1}
  Images = {i1, i2}
  Nothing = Nothing
  Depth = 2
  GetMayGiveUp = FALSE

SPECIFICATION FairSpec

INVARIANTS
  TypeOK
  NothingLeaks
  HandlesLive
  QuietBetweenCalls
  InputStable

PROPERTIES
  IsJpegEncoder
  EncodeReturns
