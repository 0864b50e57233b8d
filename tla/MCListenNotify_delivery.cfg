SPECIFICATION Spec
CONSTANTS
  Conns = {c1, c2}
  Settings = {}
  Reported = {}
  Values = {}
  Unset = Unset
  Nothing = Nothing
  Channels = {a}
  Payloads = {p}
  Names = {}
  MaxEvents = 2
  MaxStatements = 2
  MaxSavepoints = 0
CHECK_DEADLOCK FALSE
SYMMETRY Symmetry
INVARIANTS NeverInsideAResponse RegistryAgrees
PROPERTY ImplementsPubSub
