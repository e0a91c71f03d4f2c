SPECIFICATION FairSpec
CONSTANTS
  Ticks = {t1}
  Requests = {q1}
  Runs = {r1, r2}
  Tasks = 1
  MaxStalls = 1
  MaxAborts = 1
  MaxEdits = 1
  MaxLates = 1
INVARIANT TypeOK
INVARIANT OneRun
PROPERTY LostSparesLive
PROPERTY ClaimsComeBack
PROPERTY DueGetsRun
