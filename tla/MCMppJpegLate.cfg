\* encode_get_packet may fail while the frame is still being encoded.
CONSTANTS
  Callers = {c1}
  Images = {i1, i2}
  Nothing = Nothing
  Depth = 2
  GetMayGiveUp = TRUE

SPECIFICATION Spec

PROPERTY
  IsJpegEncoder
