SPECIFICATION ServerSpec
CONSTANTS
  NULL = NULL
  Asleep = Asleep
  alice = alice
  bob = bob
  s1 = s1
  s2 = s2
  Logins = {alice, bob}
  GitHubLogins = {alice, bob}
  Scopes <- MCScopes
  ParentScope <- MCParentScope
  Servers = {s1, s2}
  Keys = {k}
  MaxAge = 0
  Zone = 0
  MaxTime = 1
  MaxOps = 1
  MaxFaults = 1
  Deployments <- MCDeployments
  InitialTables <- MCInitialTables
INVARIANTS
  ServerTypeOK
  ServingIsReady
  TasksHavePool
  ParentsComeFirst
  FirstAdmin
  ModesEnforced
  ModesUsable
  ScopesMapped
PROPERTIES
  ServerComesUp
  StaleIsRemoved
  FreshIsKept
CHECK_DEADLOCK FALSE
