SPECIFICATION FairSpec
CONSTANTS
  Conns = {c1}
  Settings = {}
  Reported = {}
  Values = {}
  Unset = Unset
  Nothing = Nothing
  Channels = {a}
  Payloads = {p, q}
  Names = {s}
  MaxEvents = 3
  MaxStatements = 1
  MaxSavepoints = 1
CHECK_DEADLOCK FALSE
PROPERTIES ImplementsPubSub QueuedIsWritten
