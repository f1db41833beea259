\* Every exit of main, with a failure at any call.
CONSTANTS
  Libs <- MCLibs
  Symbols <- MCSymbols
  Candidates = 2
  Formats <- MCFormats
  fmt_prefs <- MCPrefs
  NoFormat = NoFormat
  MaxBufs = 2
  Images = {i1}
  Nothing = Nothing
  Depth = 2
  GetMayGiveUp = TRUE
  FrameCounts <- MCFrameCounts

SPECIFICATION FairSpec

INVARIANTS
  TypeOK
  ExitReleasesAll
  ExitCodeMeansFrames
  LoadsDoNotOverlap
  CallsAreBound
  LibrariesAccounted

PROPERTIES
  AnswerIsFinal
  EncoderContract
  IsRecorder
  Termination
