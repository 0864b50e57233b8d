SPECIFICATION Spec
CONSTANTS
  Names = {p}
  NoName = NoName
  Alphabet <- CopyAlphabet
  Rows = 1
  MaxSent = 4
  MaxCancels = 1
  WholeMessages = FALSE
  CancelStray = FALSE
  SyncEarly = FALSE
PROPERTIES EventuallyReady
CHECK_DEADLOCK FALSE
INVARIANT InStep
