SPECIFICATION SceneSpec
CONSTANTS
  Backup = {b1, b2}
  Remote = {b1}
  MaxJobs = 2
  NoBackup = NoBackup
  Host = {h1, h2}
  Postgres = {h1}
  Name = {n1, n2}
  Account = {u}
  Cut <- OneAccount
  Request = {1, 2, 3, 4}
  NoName = NoName
  NoHost = NoHost
  MaxDeletions = 2
CHECK_DEADLOCK FALSE
INVARIANT RowsSound
INVARIANT GoneMeansGone
PROPERTY RefusalSpares
PROPERTY BackupSettles
