CONSTANTS
  User = {o, p, c}
  Holder = o
  NoUser = NoUser
  Edit = {e1, e2}
  Relay = {x1, x2}
  MaxEdits = 2
  MaxSent = 2
  Replica = {a1, a2}
  Tab = {t1}
  Clerk = {k1}
  MaxWrites = 2
  Note = {i1}
  Untold = Untold
  MaxMoves = 1
  MaxDrops = 1
  Template = {g1, g2}
  Node = {d1}
  Variable = {v1}
  Nowhere = Nowhere
  MaxTyped = 5
  MaxMade = 2
  Folder = {top, sub}
  Root = top
  Name = {n1, n2}
  BatchSize = 2
  MaxClicks = 3
  Permission = {q1, q2}
  Asking = {j1}
  NoAsk = NoAsk
  Device = {v1}
  MaxSecrets = 2
  MaxTurns = 2
  Slot = {r1, r2}
  Address = {w1, w2}
  Host = {h1}
  NoAlias = NoAlias
  Newest = 2
  MaxActs = 3
SPECIFICATION Spec
INVARIANTS PagesSendWhatTheyShow ConsoleObeys
PROPERTY BrowsersFollow
CHECK_DEADLOCK FALSE
