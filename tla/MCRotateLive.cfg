SPECIFICATION FairPoolSpec
CONSTANTS
  NULL = NULL
  Logins = {alice}
  Admins = {}
  Requests = {}
  Terms = {3}
  RotationDays = {0, 3}
  Zone = 1
  Existing = 2
  MaxTokens = 2
  MaxSecrets = 14
  MaxDay = 1
  MaxFaults = 1
  Instances = {i1, i2}
  Conns = {c1, c2}
  c1 = c1
  c2 = c2
  LeadDays = 1
  BatchLimit = 1
  Smtp = FALSE
  HasEmail = {}
  MaxDepth = 1
  FirstSessions <- OneSession
  MaxLent = 1
INVARIANTS
  PoolTypeOK
PROPERTIES
  DueIsServed
CHECK_DEADLOCK FALSE
