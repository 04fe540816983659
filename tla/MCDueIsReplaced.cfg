SPECIFICATION FairPoolSpec
CONSTANTS
  NULL = NULL
  Logins = {alice}
  Admins = {}
  Requests = {}
  Terms = {1}
  RotationDays = {3}
  Zone = 0
  Existing = 2
  MaxTokens = 2
  MaxSecrets = 14
  MaxDay = 0
  MaxFaults = 0
  Instances = {i1}
  Conns = {c1, c2}
  c1 = c1
  c2 = c2
  LeadDays = 1
  BatchLimit = 1
  Smtp = FALSE
  HasEmail = {}
  MaxDepth = 1
  FirstSessions <- TwoSessions
  MaxLent = 1
PROPERTIES
  DueIsReplaced
CHECK_DEADLOCK FALSE
