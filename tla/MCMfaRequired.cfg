SPECIFICATION Spec
CONSTANTS
  NULL = NULL
  Logins = {alice}
  Callers = {c1, c2}
  BACKUP_CODE_COUNT = 2
  MFA_SETUP_MINUTES = 1
  MaxSecrets = 2
  MaxBatches = 2
  MaxTime = 2
PROPERTIES
  RequiredStaysEnabled
CHECK_DEADLOCK FALSE
