SPECIFICATION Spec
CONSTANTS
  Nodes = {n1, n2}
  Slots = {s1}
  NoNode = NoNode
  Birthplace = n1
  Moves = {m1}
  MaxStalls = 0
  MaxMail = 0
  Suspends = FALSE
  PortsChange = FALSE
  LocalStorage = FALSE
  KeepBackup = FALSE
INVARIANT SourceStillWhole
CHECK_DEADLOCK FALSE
