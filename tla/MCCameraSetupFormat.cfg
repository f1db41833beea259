\* Whether the negotiation ends with a format that was asked for.
CONSTANTS
  Formats <- MCFormats
  fmt_prefs <- MCPrefs
  NoFormat = NoFormat
  MaxBufs = 4

SPECIFICATION Spec

INVARIANT
  FormatIsPreferred
