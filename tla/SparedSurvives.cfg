SPECIFICATION Spec
CONSTANTS
  Session = {s1, s2}
  NoSession = NoSession
  j1 = j1
  j2 = j2
  t1 = t1
  t2 = t2
  t3 = t3
  Jar <- MCJar
  Tab <- MCTab
  JarOf <- MCJarOf
  Renewal = {r1, r2}
  MaxTokens = 3
  MaxActs = 1
  Request = {q1, q2}
  Link = {l1}
  BackupCode = {c1}
  MaxAttempts = 1
  MaxSets = 3
  MaxRequests = 3
  Name = {n1, n2}
  Maker = {m1, m2}
  Letter = {b1}
  MaxChanges = 2
CHECK_DEADLOCK FALSE
INVARIANT SparedSurvives
