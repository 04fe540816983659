SPECIFICATION StoreSpec
CONSTANTS
  NULL = NULL
  Logins = {alice, bob}
  Admins = {a1, a2}
  Requests = {r1}
  Terms = {1, NULL}
  RotationDays = {1}
  Zone = 0
  Existing = 1
  MaxTokens = 2
  MaxSecrets = 2
  MaxDay = 1
  MaxFaults = 1
  MaxEntries = 6
SYMMETRY StoreSymmetry
CONSTRAINT FewEntries
INVARIANTS
  StoreTypeOK
  IdentityCorrect
  RowsHaveUser
  AuditOnce
  AuditTruthful
  AuditComplete
PROPERTIES
  StoreKeepsCredentials
CHECK_DEADLOCK FALSE
