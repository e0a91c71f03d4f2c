SPECIFICATION Spec
CONSTANTS
  Nodes = {n1, n2}
  Slots = {s1}
  NoNode = NoNode
  Birthplace = n1
  Moves = {m1, m2}
  MaxStalls = 1
  MaxMail = 0
  Suspends = FALSE
  PortsChange = TRUE
  LocalStorage = FALSE
  KeepBackup = TRUE
SYMMETRY Symmetry
CHECK_DEADLOCK FALSE
CONSTRAINT Seen
INVARIANT SourceKept
INVARIANT HomeComplete
INVARIANT NothingStranded
PROPERTY OthersKeepPorts
