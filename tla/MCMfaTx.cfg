SPECIFICATION FairTxSpec
CONSTANTS
  NULL = NULL
  Logins = {alice}
  Callers = {c1, c2}
  BACKUP_CODE_COUNT = 1
  MFA_SETUP_MINUTES = 0
  MaxSecrets = 1
  MaxBatches = 2
  MaxTime = 0
INVARIANTS
  TxTypeOK
  FoundIsCurrent
  DeadlockNeedsRegenerate
PROPERTIES
  AtomicSpec
  TxEnds
CHECK_DEADLOCK FALSE
