SPECIFICATION Spec
CONSTANTS
  Names = {p}
  NoName = NoName
  Alphabet <- ExtendedAlphabet
  Rows = 2
  MaxSent = 5
  MaxCancels = 1
  WholeMessages = TRUE
  CancelStray = FALSE
  SyncEarly = TRUE
INVARIANTS TypeOK CopyAnsweredFirst
PROPERTIES SkipsToSync FetchesAreExact
CHECK_DEADLOCK FALSE
