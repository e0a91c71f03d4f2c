CONSTANTS
  Beat = {b1, b2}
  Sweep = {w1, w2}
  MaxEdits = 2
  Report = {r1, r2}
  MaxRestartAttempts = 1
  Opening = {o1, o2}
  NoOpening = NoOpening
  Socket = {k1, k2, k3}
  NoSocket = NoSocket
  MaxUpstreamAttempts = 1
  MaxFaults = 2
  Editor = {e1}
  Press = {p1, p2}
  Owner = p1
  MaxChanges = 1
  MaxPresses = 1
  MaxBroken = 1
  Delivery = {d1, d2}
  MaxAttempts = 2
  Limit = 2
  MaxTroubles = 2
SPECIFICATION Spec
INVARIANT OneOfEach
PROPERTIES GivesUp ComesBack ComesUp
CHECK_DEADLOCK FALSE
