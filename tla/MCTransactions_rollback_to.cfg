SPECIFICATION Spec
CONSTANTS
  Settings = {x}
  Reported = {x}
  Values = {v}
  Channels = {a}
  Payloads = {p}
  Names = {s}
  Unset = Unset
  Nothing = Nothing
  MaxWrites = 2
  MaxSavepoints = 2
  PairedRollback = FALSE
PROPERTIES SavepointRestores
