SPECIFICATION Spec
CONSTANTS
  NULL = NULL
  Logins = {alice, bob}
  Admins = {a1}
  Requests = {}
  Terms = {1}
  RotationDays = {0, 2}
  Zone = 0
  Existing = 2
  MaxTokens = 2
  MaxSecrets = 4
  MaxDay = 1
  MaxFaults = 1
  Instances = {i1, i2}
  Conns = {c1, c2}
  LeadDays = 1
  BatchLimit = 1
  Smtp = TRUE
  HasEmail = {}
  MaxDepth = 1
  MaxEntries = 4
SYMMETRY RotateSymmetry
CONSTRAINT FewEntries
INVARIANTS
  RotateTypeOK
  RotateIdentity
  OneRotator
  AuditTruthful
PROPERTIES
  RotationWhenDue
  RevokedIsFinal
  RotateKeepsCredentials
CHECK_DEADLOCK FALSE
