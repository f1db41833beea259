\* Whether an encoder that create returns has been configured.
CONSTANTS
  Callers = {c1}
  Images = {i1, i2}
  Nothing = Nothing
  Depth = 2
  GetMayGiveUp = FALSE

SPECIFICATION Spec

INVARIANT
  ReadyIsConfigured
