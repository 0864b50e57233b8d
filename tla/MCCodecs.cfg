SPECIFICATION CodecsSpec
CONSTANTS
  Null = Null
  NoSample = NoSample
  NoWindow = NoWindow
  All = All
  TextLength = 3
  CsvLength = 4
  Statements <- MCStatements
  Streamed <- MCStreamed
  Hooks <- MCHooks
  Inputs <- MCInputs
  Tables <- MCTables
  Declared <- MCDeclared
CHECK_DEADLOCK FALSE
INVARIANTS
  ChunksDoNotMatter
  RoundTrip
  QueryTextIsOpaque
  OptionsAreHeard
  ValuesSurviveTheWire
  IntrospectionIsSound
  TableAnswersAreRight
  ShownCanBeSet
