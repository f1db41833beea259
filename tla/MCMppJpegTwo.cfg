\* Two callers of one encoder, which the header allows.
CONSTANTS
  Callers = {c1, c2}
  Images = {i1, i2}
  Nothing = Nothing
  Depth = 2
  GetMayGiveUp = FALSE

SPECIFICATION Spec

PROPERTY
  IsJpegEncoder
