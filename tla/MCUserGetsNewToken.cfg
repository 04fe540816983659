SPECIFICATION Spec
CONSTANTS
  NULL = NULL
  Logins = {alice}
  Admins = {a1}
  Requests = {}
  Terms = {1}
  RotationDays = {3}
  Zone = 0
  Existing = 1
  MaxTokens = 1
  MaxSecrets = 2
  MaxDay = 1
  MaxFaults = 0
  Instances = {i1, i2}
  Conns = {c1, c2}
  LeadDays = 1
  BatchLimit = 1
  Smtp = TRUE
  HasEmail = {alice}
  MaxDepth = 1
  MaxEntries = 0
INVARIANT
  UserGetsNewToken
CHECK_DEADLOCK FALSE
