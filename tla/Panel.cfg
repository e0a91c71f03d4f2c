SPECIFICATION PanelSpec
CONSTANTS
  Ports = {p1, p2}
  Servers = {s1, s2}
  Nobody = Nobody
  Absent = Absent
  Requests = {r1, r2}
  Limit = 2
  Link = {c1}
  NoClaim = NoClaim
  Installer = {i1, i2}
  MaxTokens = 3
  Storage = {st1, st2}
  Host = {h1}
  Template = {t1, t2}
  Node = {n1}
  Use = {u1}
  NoThing = NoThing
  Clerk = {k1, k2}
  Capacity = 1
  MaxChanges = 2
  Name = {"a", "b", "jar"}
  Jar = {"jar"}
  Fetch = {f1, f2}
  Renaming = {m1}
  Handle = {d1}
  Batch = 1
  MaxOps = 4
  Disk = 4
  Adding = {a1}
  Visitor = {v1}
  MaxFiles = 2
  MaxTurns = 2
  List = {l1}
  Player = {q1}
  Call = {e1, e2}
  Unread = Unread
  MaxCalls = 2
  MaxPlays = 4
  Section = {x1}
  Field = {x1}
  Worth = {w1, w2}
  Sectionless = bare
  MaxLines = 2
  MaxEdits = 2
  MaxPattern = 3
  Longest = 1
  Unset = Unset
  Tick = {g1, g2}
  Metered = {"memory", "disk"}
  Window = 3
  MinSamples = 2
  Unknown = Unknown
  MaxMoves = 3
  MaxDeaths = 1
  Admin = {o1}
  Updater = Updater
  ByHand = ByHand
  MaxCommits = 2
  MaxFaults = 2
INVARIANTS ReadWhole NoMoreThanGranted NothingLost TextsKept
PROPERTIES Exclusive BornWhole InServiceStays Findable
CHECK_DEADLOCK FALSE
