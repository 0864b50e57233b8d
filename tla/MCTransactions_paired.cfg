SPECIFICATION Spec
CONSTANTS
  Settings = {x, y}
  Reported = {x}
  Values = {v}
  Channels = {a}
  Payloads = {p, q}
  Names = {s}
  Unset = Unset
  Nothing = Nothing
  MaxWrites = 2
  MaxSavepoints = 2
  PairedRollback = TRUE
SYMMETRY Symmetry
INVARIANTS TypeOK Settled BaseFrame ClientInSync ReplayMatches
PROPERTIES AllOrNothing CommitSendsTheLog
