\* Every driver over these formats, and a failure at any call.
CONSTANTS
  Formats <- MCFormats
  fmt_prefs <- MCPrefs
  NoFormat = NoFormat
  MaxBufs = 4

SPECIFICATION Spec

INVARIANTS
  TypeOK
  NothingLeaks
  ReadyIsUsable
