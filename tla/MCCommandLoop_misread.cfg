SPECIFICATION Spec
CONSTANTS
  Names = {p}
  NoName = NoName
  Alphabet <- CopyAlphabet
  Rows = 1
  MaxSent = 3
  MaxCancels = 1
  WholeMessages = FALSE
  CancelStray = FALSE
  SyncEarly = FALSE
INVARIANTS NeverMisread
CHECK_DEADLOCK FALSE
