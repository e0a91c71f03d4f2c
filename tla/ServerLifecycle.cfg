SPECIFICATION FairSpec
CONSTANTS
  Requests = {r1}
  Jobs = {j1}
  NoJob = NoJob
  MaxStalls = 1
  MaxMail = 1
INVARIANT TypeOK
INVARIANT NeverRunsUninstalled
PROPERTY HousekeepingSparesLive
PROPERTY InstallsSettle
PROPERTY GuessesResolve
