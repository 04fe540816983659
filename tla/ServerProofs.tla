---------------------------- MODULE ServerProofs ----------------------------
(***************************************************************************)
(* Proofs about Server: the type invariant, what a server that is up has   *)
(* (tables, a pool, a seeded administrator), whom it lets in, and that the *)
(* clean-up keeps what is fresh.                                           *)
(***************************************************************************)
EXTENDS Server, ScopeProofs

BeforePool == {"down", "pool", "stopped"}
Seeding == {"count", "insert"}
Prepared == {"wire"} \cup Seeding       \* all tables are there
Starting == {"list", "create", "kv"} \cup Prepared

\* The server runs with a database, and start-up is over.
UpOnDb(s) == Up(s) /\ EnvOf(s).policyDb

\* How far a server's start-up is says what it has done.
Started(s) ==
  /\ at[s] # "down" => Starts(EnvOf(s))
  /\ at[s] \in {"pool"} \cup Starting => EnvOf(s).policyDb
  /\ at[s] \in Starting \/ UpOnDb(s) => pool[s]
  /\ at[s] \in Seeding => Seed(s) # NULL
  /\ UpOnDb(s) => getter[s]

\* No table goes, so what a server has found or created stays.
TablesOf(s) ==
  /\ at[s] = "create" => ToSet(PolicyTables) \ tables \subseteq missing[s]
  /\ at[s] \in {"kv"} \cup Prepared \/ UpOnDb(s) => ToSet(PolicyTables) \subseteq tables
  /\ at[s] \in Prepared \/ UpOnDb(s) => "oauth_kv" \in tables

TasksOf(s) == rotating[s] \/ cleanup[s] # NULL => pool[s]

\* Seeds are the only users until somebody changes them.
Seeded ==
  ops = 0 =>
    /\ \A l \in Logins : Has(l) => roles[l] = "admin"
    /\ \A s \in Servers : (at[s] = "wire" \/ UpOnDb(s)) /\ Seed(s) # NULL
         => \E l \in Logins : roles[l] = "admin"

\* An entry's time is that of its last set, and no cutoff is in the future.
KvTimes ==
  /\ \A k \in Keys : kv[k] # NULL => kv[k] = lastSet[k] + Zone
  /\ \A s \in Servers : Sweeping(s) => cleanup[s] <= now

ServerInv ==
  /\ ServerTypeOK
  /\ \A s \in Servers : Started(s) /\ TablesOf(s) /\ TasksOf(s)
  /\ Seeded
  /\ KvTimes

-----------------------------------------------------------------------------
(***************************************************************************)
(* Type correctness.                                                       *)
(***************************************************************************)

LEMMA ServerInitType == ServerInit => ServerTypeOK
BY AuthAssumption, UsersAssumption, KvAssumption, ServerAssumption
DEF ServerInit, UsersInit, KvInit, ServerTypeOK, UsersTypeOK, KvTypeOK

LEMMA UseType == ServerTypeOK /\ Use => ServerTypeOK'
<1> SUFFICES ASSUME ServerTypeOK, Use PROVE ServerTypeOK'
  OBVIOUS
<1> USE DEF ServerTypeOK, UsersTypeOK, KvTypeOK
<1>1. CASE AdminCall /\ UNCHANGED kvVars
  BY <1>1 DEF Use, AdminCall, RemoveUser, AddUser, UpdateRole, UpsertUser, SetRole, ROLES, kvVars
<1>2. CASE (\E k \in Keys : SetKey(k) \/ DeleteKey(k)) /\ UNCHANGED userVars
  BY <1>2, KvAssumption DEF Use, SetKey, DeleteKey, userVars
<1>3. QED BY <1>1, <1>2 DEF Use

LEMMA StartUpType ==
  ASSUME ServerTypeOK, ServerInv, NEW s \in Servers, StartUp(s) PROVE ServerTypeOK'
<1> USE DEF ServerTypeOK, UsersTypeOK, KvTypeOK, Goto, local, kvData, kvVars, userVars
<1>1. CASE Boot(s) BY <1>1 DEF Boot
<1>2. CASE CreatePool(s) BY <1>2 DEF CreatePool
<1>3. CASE ListTables(s) BY <1>3 DEF ListTables, Tables
<1>4. CASE CreateTable(s) BY <1>4 DEF CreateTable
<1>5. CASE EnsureKvTable(s) BY <1>5 DEF EnsureKvTable, Tables
<1>6. CASE CountUsers(s) BY <1>6 DEF CountUsers
<1>7. CASE SeedAdmin(s)
  <2>1. Seed(s) \in Logins
    BY <1>7 DEF SeedAdmin, ServerInv, Started, Seeding, Seed, Settings
  <2>2. QED BY <1>7, <2>1 DEF SeedAdmin, InsertSeed, AddUser, SetRole, ROLES
<1>8. CASE SeedFails(s) BY <1>8 DEF SeedFails, Exit
<1>9. CASE Wire(s) BY <1>9 DEF Wire
<1>10. QED BY <1>1, <1>2, <1>3, <1>4, <1>5, <1>6, <1>7, <1>8, <1>9 DEF StartUp

LEMMA NextType == ServerInv /\ [ServerNext]_vars => ServerTypeOK'
<1> SUFFICES ASSUME ServerInv, [ServerNext]_vars PROVE ServerTypeOK'
  OBVIOUS
<1>0. ServerTypeOK BY DEF ServerInv
<1> USE DEF ServerTypeOK, UsersTypeOK, KvTypeOK, Goto, local, kvData, kvVars, userVars
<1>1. ASSUME NEW s \in Servers, StartUp(s) PROVE ServerTypeOK'
  BY <1>0, <1>1, StartUpType
<1>2. ASSUME NEW s \in Servers, Stop(s) PROVE ServerTypeOK' BY <1>0, <1>2 DEF Stop
<1>3. ASSUME NEW s \in Servers, ShutDown(s) PROVE ServerTypeOK'
  BY <1>0, <1>3 DEF ShutDown, EndRotation, EndCleanup, ClosePool
<1>4. ASSUME NEW s \in Servers, Crash(s) PROVE ServerTypeOK'
  BY <1>0, <1>4 DEF Crash, Exit
<1>5. ASSUME NEW s \in Servers, Loop(s) PROVE ServerTypeOK'
  BY <1>0, <1>5 DEF Loop, CutOff, Sweep
<1>6. ASSUME NEW s \in Servers, LoopFails(s) PROVE ServerTypeOK'
  BY <1>0, <1>6 DEF LoopFails, SweepFails
<1>7. CASE Use BY <1>0, <1>7, UseType
<1>8. CASE Clock BY <1>0, <1>8 DEF Clock, Tick
<1>9. CASE UNCHANGED vars BY <1>0, <1>9 DEF vars
<1>10. QED BY <1>1, <1>2, <1>3, <1>4, <1>5, <1>6, <1>7, <1>8, <1>9 DEF ServerNext

-----------------------------------------------------------------------------
(***************************************************************************)
(* What start-up has done.                                                 *)
(***************************************************************************)

LEMMA ServerInitInv == ServerInit => ServerInv
<1> SUFFICES ASSUME ServerInit PROVE ServerInv
  OBVIOUS
<1>1. ServerTypeOK BY ServerInitType
<1>2. \A s \in Servers : Started(s) /\ TablesOf(s) /\ TasksOf(s)
  BY DEF ServerInit, KvInit, Started, TablesOf, TasksOf, Starting, Prepared, Seeding, UpOnDb, Up
<1>3. Seeded
  BY <1>1 DEF ServerInit, UsersInit, Seeded, Has, UpOnDb, Up
<1>4. KvTimes
  BY DEF ServerInit, KvInit, KvTimes, Sweeping
<1>5. QED BY <1>1, <1>2, <1>3, <1>4 DEF ServerInv

LEMMA NextStarted ==
  ASSUME ServerInv, [ServerNext]_vars, NEW t \in Servers PROVE Started(t)'
<1>0. ServerTypeOK /\ Started(t) BY DEF ServerInv
<1> USE DEF Started, Starting, Prepared, Seeding, UpOnDb, Up, EnvOf, Seed, ServerTypeOK,
             Goto, local, kvData, kvVars
<1>1. ASSUME NEW s \in Servers, StartUp(s) PROVE Started(t)'
  <2>1. CASE Boot(s) BY <1>0, <2>1 DEF Boot
  <2>2. CASE CreatePool(s) BY <1>0, <2>2 DEF CreatePool
  <2>3. CASE ListTables(s) BY <1>0, <2>3 DEF ListTables
  <2>4. CASE CreateTable(s) BY <1>0, <2>4 DEF CreateTable
  <2>5. CASE EnsureKvTable(s) BY <1>0, <2>5 DEF EnsureKvTable
  <2>6. CASE CountUsers(s) BY <1>0, <2>6 DEF CountUsers
  <2>7. CASE SeedAdmin(s) BY <1>0, <2>7 DEF SeedAdmin
  <2>8. CASE SeedFails(s) BY <1>0, <2>8 DEF SeedFails, Exit
  <2>9. CASE Wire(s) BY <1>0, <2>9 DEF Wire
  <2>10. QED BY <1>1, <2>1, <2>2, <2>3, <2>4, <2>5, <2>6, <2>7, <2>8, <2>9 DEF StartUp
<1>2. ASSUME NEW s \in Servers, Stop(s) PROVE Started(t)' BY <1>0, <1>2 DEF Stop
<1>3. ASSUME NEW s \in Servers, ShutDown(s) PROVE Started(t)'
  BY <1>0, <1>3 DEF ShutDown, EndRotation, EndCleanup, ClosePool
<1>4. ASSUME NEW s \in Servers, Crash(s) PROVE Started(t)' BY <1>0, <1>4 DEF Crash, Exit
<1>5. ASSUME NEW s \in Servers, Loop(s) \/ LoopFails(s) PROVE Started(t)'
  BY <1>0, <1>5 DEF Loop, LoopFails
<1>6. CASE Use \/ Clock BY <1>0, <1>6 DEF Use, Clock
<1>7. CASE UNCHANGED vars BY <1>0, <1>7 DEF vars
<1>8. QED BY <1>1, <1>2, <1>3, <1>4, <1>5, <1>6, <1>7 DEF ServerNext

LEMMA NextTables ==
  ASSUME ServerInv, [ServerNext]_vars, NEW t \in Servers PROVE TablesOf(t)'
<1>0. ServerTypeOK /\ Started(t) /\ TablesOf(t) BY DEF ServerInv
<1> USE DEF TablesOf, Started, Starting, Prepared, Seeding, UpOnDb, Up, EnvOf, ServerTypeOK,
             Tables, Goto, local, kvData, kvVars
<1>1. ASSUME NEW s \in Servers, StartUp(s) PROVE TablesOf(t)'
  <2>1. CASE Boot(s) BY <1>0, <2>1 DEF Boot
  <2>2. CASE CreatePool(s) BY <1>0, <2>2 DEF CreatePool
  <2>3. CASE ListTables(s) BY <1>0, <2>3 DEF ListTables
  <2>4. CASE CreateTable(s) BY <1>0, <2>4 DEF CreateTable
  <2>5. CASE EnsureKvTable(s) BY <1>0, <2>5 DEF EnsureKvTable
  <2>6. CASE CountUsers(s) BY <1>0, <2>6 DEF CountUsers
  <2>7. CASE SeedAdmin(s) BY <1>0, <2>7 DEF SeedAdmin
  <2>8. CASE SeedFails(s) BY <1>0, <2>8 DEF SeedFails, Exit
  <2>9. CASE Wire(s) BY <1>0, <2>9 DEF Wire
  <2>10. QED BY <1>1, <2>1, <2>2, <2>3, <2>4, <2>5, <2>6, <2>7, <2>8, <2>9 DEF StartUp
<1>2. ASSUME NEW s \in Servers, Stop(s) PROVE TablesOf(t)' BY <1>0, <1>2 DEF Stop
<1>3. ASSUME NEW s \in Servers, ShutDown(s) PROVE TablesOf(t)'
  BY <1>0, <1>3 DEF ShutDown, EndRotation, EndCleanup, ClosePool
<1>4. ASSUME NEW s \in Servers, Crash(s) PROVE TablesOf(t)' BY <1>0, <1>4 DEF Crash, Exit
<1>5. ASSUME NEW s \in Servers, Loop(s) \/ LoopFails(s) PROVE TablesOf(t)'
  BY <1>0, <1>5 DEF Loop, LoopFails
<1>6. CASE Use \/ Clock BY <1>0, <1>6 DEF Use, Clock
<1>7. CASE UNCHANGED vars BY <1>0, <1>7 DEF vars
<1>8. QED BY <1>1, <1>2, <1>3, <1>4, <1>5, <1>6, <1>7 DEF ServerNext

LEMMA NextTasks ==
  ASSUME ServerInv, [ServerNext]_vars, NEW t \in Servers PROVE TasksOf(t)'
<1>0. ServerTypeOK /\ Started(t) /\ TasksOf(t) BY DEF ServerInv
<1> USE DEF TasksOf, Started, Starting, Prepared, Goto, local, kvData, kvVars,
             ServerTypeOK, KvTypeOK
<1>1. ASSUME NEW s \in Servers, StartUp(s) PROVE TasksOf(t)'
  BY <1>0, <1>1 DEF StartUp, Boot, CreatePool, ListTables, CreateTable, EnsureKvTable,
                    CountUsers, SeedAdmin, SeedFails, Exit, Wire
<1>2. ASSUME NEW s \in Servers, Stop(s) PROVE TasksOf(t)' BY <1>0, <1>2 DEF Stop
<1>3. ASSUME NEW s \in Servers, ShutDown(s) PROVE TasksOf(t)'
  BY <1>0, <1>3 DEF ShutDown, EndRotation, EndCleanup, ClosePool
<1>4. ASSUME NEW s \in Servers, Crash(s) PROVE TasksOf(t)' BY <1>0, <1>4 DEF Crash, Exit
<1>5. ASSUME NEW s \in Servers, Loop(s) \/ LoopFails(s) PROVE TasksOf(t)'
  BY <1>0, <1>5, KvAssumption DEF Loop, LoopFails, CutOff, Sweep, SweepFails, Sweeping
<1>6. CASE Use \/ Clock
  BY <1>0, <1>6 DEF Use, Clock, Tick, SetKey, DeleteKey
<1>7. CASE UNCHANGED vars BY <1>0, <1>7 DEF vars
<1>8. QED BY <1>1, <1>2, <1>3, <1>4, <1>5, <1>6, <1>7 DEF ServerNext

LEMMA NextTimes == ServerInv /\ [ServerNext]_vars => KvTimes'
<1> SUFFICES ASSUME ServerInv, [ServerNext]_vars PROVE KvTimes'
  OBVIOUS
<1>0. KvTypeOK /\ KvTimes BY DEF ServerInv, ServerTypeOK
<1> USE KvAssumption DEF KvTimes, KvTypeOK, Sweeping, local, kvData, kvVars
<1>1. ASSUME NEW s \in Servers, StartUp(s) PROVE KvTimes'
  BY <1>0, <1>1 DEF StartUp, Boot, CreatePool, ListTables, CreateTable, EnsureKvTable,
                    CountUsers, SeedAdmin, SeedFails, Exit, Wire
<1>2. ASSUME NEW s \in Servers, Stop(s) \/ ShutDown(s) \/ Crash(s) PROVE KvTimes'
  BY <1>0, <1>2 DEF Stop, ShutDown, EndRotation, EndCleanup, ClosePool, Crash, Exit
<1>3. ASSUME NEW s \in Servers, Loop(s) \/ LoopFails(s) PROVE KvTimes'
  BY <1>0, <1>3 DEF Loop, LoopFails, CutOff, Sweep, SweepFails
<1>4. CASE Use BY <1>0, <1>4 DEF Use, SetKey, DeleteKey
<1>5. CASE Clock BY <1>0, <1>5 DEF Clock, Tick
<1>6. CASE UNCHANGED vars BY <1>0, <1>6 DEF vars
<1>7. QED BY <1>1, <1>2, <1>3, <1>4, <1>5, <1>6 DEF ServerNext

LEMMA NextSeeded == ServerInv /\ [ServerNext]_vars => Seeded'
<1> SUFFICES ASSUME ServerInv, [ServerNext]_vars, ops' = 0 PROVE Seeded'
  BY DEF Seeded
<1>0. ServerTypeOK /\ Seeded /\ \A s \in Servers : Started(s) BY DEF ServerInv
<1> USE UsersAssumption
    DEF Seeded, Has, UpOnDb, Up, EnvOf, Seed, ServerTypeOK, UsersTypeOK, Goto, local, kvData,
        userVars
<1>1. ASSUME NEW s \in Servers, StartUp(s) PROVE Seeded'
  <2>1. CASE Boot(s) BY <1>0, <2>1 DEF Boot, Started
  <2>2. CASE CreatePool(s) BY <1>0, <2>2 DEF CreatePool
  <2>3. CASE ListTables(s) BY <1>0, <2>3 DEF ListTables
  <2>4. CASE CreateTable(s) BY <1>0, <2>4 DEF CreateTable
  <2>5. CASE EnsureKvTable(s) BY <1>0, <2>5 DEF EnsureKvTable
  <2>6. CASE CountUsers(s) BY <1>0, <2>6 DEF CountUsers, NoUsers
  <2>7. CASE SeedAdmin(s)
    <3>1. Seed(s) \in Logins
      BY <1>0, <2>7 DEF SeedAdmin, Started, Seeding, Settings
    <3>2. ops = 0 /\ roles' = [roles EXCEPT ![Seed(s)] = "admin"]
      BY <1>0, <2>7 DEF SeedAdmin, InsertSeed, AddUser, SetRole
    <3>3. \A l \in Logins : roles[l] = "admin" => roles'[l] = "admin"
      BY <1>0, <3>1, <3>2
    <3>4. QED BY <1>0, <2>7, <3>1, <3>2, <3>3 DEF SeedAdmin
  <2>8. CASE SeedFails(s) BY <1>0, <2>8 DEF SeedFails, Exit
  <2>9. CASE Wire(s) BY <1>0, <2>9 DEF Wire
  <2>10. QED BY <1>1, <2>1, <2>2, <2>3, <2>4, <2>5, <2>6, <2>7, <2>8, <2>9 DEF StartUp
<1>2. ASSUME NEW s \in Servers, Stop(s) PROVE Seeded' BY <1>0, <1>2 DEF Stop
<1>3. ASSUME NEW s \in Servers, ShutDown(s) PROVE Seeded'
  BY <1>0, <1>3 DEF ShutDown, EndRotation, EndCleanup, ClosePool
<1>4. ASSUME NEW s \in Servers, Crash(s) PROVE Seeded' BY <1>0, <1>4 DEF Crash, Exit
<1>5. ASSUME NEW s \in Servers, Loop(s) \/ LoopFails(s) PROVE Seeded'
  BY <1>0, <1>5 DEF Loop, LoopFails
<1>6. CASE Use BY <1>0, <1>6 DEF Use, AdminCall
<1>7. CASE Clock BY <1>0, <1>7 DEF Clock
<1>8. CASE UNCHANGED vars BY <1>0, <1>8 DEF vars
<1>9. QED BY <1>1, <1>2, <1>3, <1>4, <1>5, <1>6, <1>7, <1>8 DEF ServerNext

LEMMA ServerInvInductive == ServerSpec => []ServerInv
<1>1. ServerInv /\ [ServerNext]_vars => ServerInv'
  <2> SUFFICES ASSUME ServerInv, [ServerNext]_vars PROVE ServerInv'
    OBVIOUS
  <2>1. \A s \in Servers : Started(s)' BY NextStarted
  <2>2. \A s \in Servers : TablesOf(s)' BY NextTables
  <2>3. \A s \in Servers : TasksOf(s)' BY NextTasks
  <2>4. QED BY <2>1, <2>2, <2>3, NextType, NextSeeded, NextTimes DEF ServerInv
<1>2. QED BY <1>1, ServerInitInv, PTL DEF ServerSpec
-----------------------------------------------------------------------------
(***************************************************************************)
(* The theorems.                                                           *)
(***************************************************************************)

\* The servers' variables keep the types of ServerTypeOK.
THEOREM ServerTypeCorrect == ServerSpec => []ServerTypeOK
BY ServerInvInductive, PTL DEF ServerInv

\* However many servers start at once, on whatever part of the schema, and wherever
\* one of them dies, none is up before all tables are there (policy.py:115-142).
THEOREM ServingHasTables == ServerSpec => []ServingIsReady
<1>1. ServerInv => ServingIsReady
  BY DEF ServerInv, ServingIsReady, Started, TablesOf, UpOnDb, ServerTypeOK, Tables
<1>2. QED BY <1>1, ServerInvInductive, PTL

\* Servers that create tables beside each other do so in an order that the foreign
\* keys allow (policy.py:48-52, 115-142).
THEOREM NoOrphanTable == ServerSpec => []ParentsComeFirst
<1>1. ServerInv => ParentsComeFirst
  <2> SUFFICES ASSUME ServerInv, NEW s \in Servers, at[s] = "create",
                      NEW t \in missing[s] \cap NeedsUsers, First(t, missing[s]),
                      "users" \notin tables
               PROVE  FALSE
    BY DEF ParentsComeFirst
  <2>1. DOMAIN PolicyTables = 1 .. 5 /\ PolicyTables[1] = "users"
    BY DEF PolicyTables
  <2>2. "users" \in missing[s]
    <3>1. "users" \in ToSet(PolicyTables)
      BY <2>1 DEF ToSet
    <3>2. QED BY <3>1 DEF ServerInv, TablesOf
  <2>3. t = "users"
    BY <2>1, <2>2 DEF First
  <2>4. QED BY <2>3 DEF NeedsUsers
<1>2. QED BY <1>1, ServerInvInductive, PTL

\* Shutdown waits for the tasks before it closes the pool (server.py:148-156).
THEOREM PoolOutlivesTasks == ServerSpec => []TasksHavePool
<1>1. ServerInv => TasksHavePool
  BY DEF ServerInv, TasksHavePool, TasksOf
<1>2. QED BY <1>1, ServerInvInductive, PTL

\* Where servers seed, the first that is up finds an administrator, whichever of
\* them inserted it (policy.py:144-156).
THEOREM SeedGivesAdmin == ServerSpec => []FirstAdmin
<1>1. ServerInv => FirstAdmin
  BY DEF ServerInv, FirstAdmin, Seeded, UpOnDb, Up
<1>2. QED BY <1>1, ServerInvInductive, PTL

\* A server lets in those its mode and its allowlist name (provider.py:43-189).
THEOREM OnlyNamedGetIn == ServerSpec => []ModesEnforced
<1>1. ServerInv => ModesEnforced
  <2> SUFFICES ASSUME ServerInv, NEW s \in Servers, Up(s), NEW cred \in Credential,
                      Accepts(EnvOf(s), getter[s], cred)
               PROVE /\ cred.kind \in {"static", "db"} => NeedToken(EnvOf(s))
                     /\ cred.kind = "static" => /\ EnvOf(s).apiToken
                                                /\ EnvOf(s).policyDb => NeedOAuth(EnvOf(s))
                     /\ cred.kind = "db" => EnvOf(s).policyDb
                     /\ cred.kind \in {"proxy", "raw"} =>
                          /\ NeedOAuth(EnvOf(s))
                          /\ EnvOf(s).allowed # {} => cred.login \in EnvOf(s).allowed
    BY DEF ModesEnforced, ModeEnforced
  <2>1. Starts(EnvOf(s)) /\ EnvOf(s) \in Env(Seq(Scopes))
    BY DEF ServerInv, Started, Up, ServerTypeOK, Settings, EnvOf
  <2>2. EnvOf(s).mode \in {"token", "oauth", "both"}
    BY <2>1 DEF Starts, Env
  <2>3. PICK v \in Verifiers(EnvOf(s)) : Verifies(EnvOf(s), getter[s], v, cred)
    BY DEF Accepts
  <2>4. cred.kind = v /\ (v \in {"proxy", "raw"} => LoginAllowed(EnvOf(s), cred.login))
    BY <2>3 DEF Verifies, GitHubVerifies
  <2>5. QED BY <2>1, <2>2, <2>3, <2>4 DEF Starts, Verifiers, NeedToken, NeedOAuth, LoginAllowed
<1>2. QED BY <1>1, ServerInvInductive, PTL

\* Each kind of credential that setup_auth's docstring gives the mode is accepted: the
\* database's tokens because the getter is set before the server is up, GitHub's because
\* no scope but GitHub's is required (provider.py:51-55, 65-189, server.py:124).
THEOREM EnabledIsUsable == ServerSpec => []ModesUsable
<1>1. ServerInv => ModesUsable
  <2> SUFFICES ASSUME ServerInv, NEW s \in Servers, Up(s)
               PROVE  NobodyLockedOut(EnvOf(s), getter[s])
    BY DEF ModesUsable
  <2> DEFINE env == EnvOf(s)
  <2>1. /\ Starts(env) /\ env \in Env(Seq(Scopes))
        /\ env.policyDb => getter[s]
    BY DEF ServerInv, Started, Up, UpOnDb, ServerTypeOK, Settings, EnvOf
  <2> HIDE DEF env
  <2>2. ASSUME NEW kind \in {"static", "db"}, kind \in Verifiers(env),
               kind = "db" => getter[s]
        PROVE  Usable(env, getter[s], kind)
    <3> DEFINE cred == [kind |-> kind]
    <3>1. cred \in Credential /\ cred.kind = kind
      BY DEF Credential
    <3>2. Verifies(env, getter[s], kind, cred)
      BY <2>2, <3>1 DEF Verifies, DbVerifies
    <3>3. QED BY <2>2, <3>1, <3>2 DEF Usable, Accepts
  <2>3. ASSUME NeedOAuth(env), NEW kind \in {"proxy", "raw"}
        PROVE  Usable(env, getter[s], kind)
    <3>1. PICK login \in GitHubLogins \cup {NULL} : LoginAllowed(env, login)
      BY <2>1 DEF LoginAllowed, Env
    <3> DEFINE cred == [kind |-> kind, login |-> login, scopes |-> Scopes]
    <3>2. cred \in Credential /\ cred.kind = kind
      BY DEF Credential
    <3>3. ToSet(Normalize(env.scopes)) \subseteq Scopes
      <4>1. env.scopes \in Seq(Scopes) BY <2>1 DEF Env
      <4>2. Normalize(env.scopes) \in Seq(Scopes)
        BY <4>1, NormalizeCollects DEF Collected
      <4>3. QED BY <4>2 DEF ToSet
    <3>4. GitHubVerifies(env, cred)
      BY <3>1, <3>3 DEF GitHubVerifies
    <3>5. Verifies(env, getter[s], kind, cred) /\ kind \in Verifiers(env)
      BY <2>3, <3>4 DEF Verifies, Verifiers
    <3>6. QED BY <3>2, <3>5 DEF Usable, Accepts
  <2>4. /\ NeedToken(env) /\ env.policyDb => "db" \in Verifiers(env)
        /\ NeedToken(env) /\ ~env.policyDb => "static" \in Verifiers(env)
        /\ NeedToken(env) /\ NeedOAuth(env) /\ env.apiToken => "static" \in Verifiers(env)
    BY <2>1 DEF Starts, Verifiers
  <2>5. QED BY <2>1, <2>2, <2>3, <2>4 DEF NobodyLockedOut, env
<1>2. QED BY <1>1, ServerInvInductive, PTL

\* A server requires what one step of the table makes of its list, whatever list it was
\* given (oauth.py:36-46).
THEOREM RequiredScopesAreMapped == ServerSpec => []ScopesMapped
<1>1. ServerInv => ScopesMapped
  <2> SUFFICES ASSUME ServerInv, NEW s \in Servers PROVE ScopesMappedOnce(EnvOf(s).scopes)
    BY DEF ScopesMapped
  <2>1. EnvOf(s).scopes \in Seq(Scopes)
    BY DEF ServerInv, ServerTypeOK, EnvOf, Settings, Env
  <2>2. QED BY <2>1, ScopesAreMappedOnce
<1>2. QED BY <1>1, ServerInvInductive, PTL

\* No scope a server requires is a child, which a token may lack although it has the
\* parent ("so the token check always uses the scope GitHub actually reports",
\* oauth.py:17-18).
ScopesReported ==
  \A s \in Servers : Up(s) /\ NeedOAuth(EnvOf(s)) =>
    ToSet(Normalize(EnvOf(s).scopes)) \cap DOMAIN ParentScope = {}

\* The comment at oauth.py:15-18 would hold of a table in which no parent is a child.
THEOREM ReportedWithoutChains ==
  ASSUME NoChains
  PROVE  ServerSpec => []ScopesReported
<1>1. ServerInv => ScopesReported
  <2> SUFFICES ASSUME ServerInv, NEW s \in Servers
               PROVE  ToSet(Normalize(EnvOf(s).scopes)) \cap DOMAIN ParentScope = {}
    BY DEF ScopesReported
  <2>1. EnvOf(s).scopes \in Seq(Scopes)
    BY DEF ServerInv, ServerTypeOK, EnvOf, Settings, Env
  <2>2. QED BY <2>1, NoChildIsLeft
<1>2. QED BY <1>1, ServerInvInductive, PTL

\* A sweep deletes what is older than a day, although entries are set between the cutoff
\* and the DELETE (oauth_store.py:66-75), where the database's session is not behind UTC.
THEOREM SweepKeepsFresh ==
  ASSUME Zone >= 0
  PROVE  ServerSpec => FreshIsKept
<1> DEFINE Kept == \A s \in Servers, k \in Keys :
             Sweep(s) /\ kv[k] # NULL /\ kv'[k] = NULL => now - lastSet[k] > MaxAge
<1>1. ServerInv => [Kept]_kvVars
  <2> SUFFICES ASSUME ServerInv, NEW s \in Servers, NEW k \in Keys, Sweep(s),
                      kv[k] # NULL, kv'[k] = NULL
               PROVE  now - lastSet[k] > MaxAge
    OBVIOUS
  <2>1. Older(k, cleanup[s])
    BY DEF Sweep
  <2>2. kv[k] = lastSet[k] + Zone /\ cleanup[s] <= now
    BY DEF ServerInv, KvTimes, Sweep
  <2>3. /\ cleanup[s] \in Int /\ now \in Nat /\ lastSet[k] \in Nat
    BY DEF Sweep, Sweeping, ServerInv, ServerTypeOK, KvTypeOK
  <2>4. QED BY <2>1, <2>2, <2>3, KvAssumption DEF Older
<1>2. QED BY <1>1, ServerInvInductive, PTL DEF FreshIsKept
=============================================================================
