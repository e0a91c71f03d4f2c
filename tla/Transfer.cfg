SPECIFICATION FairSpec
CONSTANTS
  Nodes = {n1, n2}
  Slots = {s1}
  NoNode = NoNode
  Birthplace = n1
  Moves = {m1}
  MaxStalls = 0
  MaxMail = 1
  Suspends = TRUE
  PortsChange = FALSE
  LocalStorage = FALSE
  KeepBackup = FALSE
INVARIANT TypeOK
PROPERTY TransferringEnds
