SPECIFICATION ServerSpec
CONSTANTS
  NULL = NULL
  Asleep = Asleep
  alice = alice
  bob = bob
  s1 = s1
  s2 = s2
  Logins = {alice, bob}
  GitHubLogins = {alice, bob}
  Scopes <- MCScopes
  ParentScope <- MCParentScope
  Servers = {s1, s2}
  Keys = {k}
  MaxAge = 1
  Zone <- Behind
  MaxTime = 1
  MaxOps = 0
  MaxFaults = 1
  Deployments <- MCDeployments
  InitialTables <- MCInitialTables
PROPERTIES
  FreshIsKept
CHECK_DEADLOCK FALSE
