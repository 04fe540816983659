------------------------------- MODULE Server -------------------------------
(***************************************************************************)
(* Servers on one database, from start-up to shutdown: server.py's         *)
(* lifespan with ensure_tables and seed_admin (src/auth/policy.py) and the *)
(* lazy getter of src/auth/token.py, over AuthProvider, PolicyUsers and    *)
(* OAuthStore.                                                             *)
(*                                                                         *)
(* Each statement that start-up awaits is a step.  One that raises ends    *)
(* the process, as any exit does, and it is started again unless it was    *)
(* stopped (docker-compose.yml: unless-stopped).  What the rotation task   *)
(* does is TokenRotate's.                                                  *)
(***************************************************************************)
EXTENDS AuthProvider, PolicyUsers, OAuthStore

CONSTANTS
  Deployments,    \* functions from Servers to their settings: [env, seed]
  InitialTables,  \* sets of tables a database may start with
  MaxFaults       \* bound: crashes and statements that fail

VARIABLES
  config,   \* the settings of each server
  tables,   \* the tables of the database
  at,       \* what each server does next
  missing,  \* the tables it has found missing
  pool,     \* whether it has an open pool
  getter,   \* whether the token store getter is set
  rotating, \* whether its rotation task runs
  faults    \* crashes and failures so far

local == <<missing, pool, getter, rotating, cleanup>>  \* ends with a process
kvData == <<kv, now, lastSet>>
vars  == <<config, tables, at, missing, pool, getter, rotating, faults, kvVars, userVars>>

\* ensure_tables with users after a table that refers to it.
PolicyTablesMutant ==
  <<"audit_log", "api_tokens", "users", "user_backup_codes", "policy_settings">>

\* ensure_tables' order, and the table a foreign key of it needs.
PolicyTables == <<"users", "audit_log", "api_tokens", "user_backup_codes", "policy_settings">>
NeedsUsers == {"api_tokens", "user_backup_codes"}
Tables == ToSet(PolicyTables) \cup {"oauth_kv"}

\* t comes first, in that order, of the tables T.
First(t, T) ==
  \E i \in DOMAIN PolicyTables :
    PolicyTables[i] = t /\ \A j \in 1..(i - 1) : PolicyTables[j] \notin T

Settings == [env : Env(Seq(Scopes)), seed : Logins \cup {NULL}]

ASSUME ServerAssumption ==
  /\ Deployments \subseteq [Servers -> Settings]
  /\ \A T \in InitialTables : T \subseteq Tables /\ (T \cap NeedsUsers # {} => "users" \in T)
  /\ MaxFaults \in Nat

EnvOf(s) == config[s].env
Seed(s) == config[s].seed

ServerInit ==
  /\ UsersInit /\ KvInit
  /\ config \in Deployments
  /\ tables \in InitialTables
  /\ at = [s \in Servers |-> "down"]
  /\ missing = [s \in Servers |-> {}]
  /\ pool = [s \in Servers |-> FALSE]
  /\ getter = [s \in Servers |-> FALSE]
  /\ rotating = [s \in Servers |-> FALSE]
  /\ faults = 0

Goto(s, step) == at' = [at EXCEPT ![s] = step]

-----------------------------------------------------------------------------
(***************************************************************************)
(* Start-up.                                                               *)
(***************************************************************************)

\* create_server: setup_auth exits, or the lifespan begins.
Boot(s) ==
  /\ at[s] = "down"
  /\ Starts(EnvOf(s))
  /\ Goto(s, IF EnvOf(s).policyDb THEN "pool" ELSE "up")
  /\ UNCHANGED <<config, tables, local, faults, kvData, userVars>>

CreatePool(s) ==
  /\ at[s] = "pool"
  /\ pool' = [pool EXCEPT ![s] = TRUE]
  /\ Goto(s, "list")
  /\ UNCHANGED <<config, tables, missing, getter, rotating, faults, kvVars, userVars>>

\* ensure_tables that takes some tables for all of them.
ListTablesMutant(s) ==
  /\ at[s] = "list"
  /\ missing' = [missing EXCEPT ![s] = IF tables = {} THEN ToSet(PolicyTables) ELSE {}]
  /\ Goto(s, "create")
  /\ UNCHANGED <<config, tables, pool, getter, rotating, faults, kvVars, userVars>>

\* ensure_tables: SELECT TABLE_NAME.
ListTables(s) ==
  /\ at[s] = "list"
  /\ missing' = [missing EXCEPT ![s] = ToSet(PolicyTables) \ tables]
  /\ Goto(s, "create")
  /\ UNCHANGED <<config, tables, pool, getter, rotating, faults, kvVars, userVars>>

\* CREATE TABLE IF NOT EXISTS of the next missing table; without the parent of its
\* foreign key it would raise.
CreateTable(s) ==
  /\ at[s] = "create"
  /\ \/ missing[s] = {} /\ Goto(s, "kv") /\ UNCHANGED <<tables, missing>>
     \/ \E t \in missing[s] :
          /\ First(t, missing[s])
          /\ t \in NeedsUsers => "users" \in tables
          /\ tables' = tables \cup {t}
          /\ missing' = [missing EXCEPT ![s] = @ \ {t}]
          /\ UNCHANGED at
  /\ UNCHANGED <<config, pool, getter, rotating, faults, kvVars, userVars>>

\* ensure_table that creates a table under another name.
EnsureKvTableMutant(s) ==
  /\ at[s] = "kv"
  /\ tables' = tables \cup {"oauth_store"}
  /\ Goto(s, IF Seed(s) = NULL THEN "wire" ELSE "count")
  /\ UNCHANGED <<config, local, faults, kvData, userVars>>

\* oauth_store.ensure_table
EnsureKvTable(s) ==
  /\ at[s] = "kv"
  /\ tables' = tables \cup {"oauth_kv"}
  /\ Goto(s, IF Seed(s) = NULL THEN "wire" ELSE "count")
  /\ UNCHANGED <<config, local, faults, kvData, userVars>>

\* seed_admin: SELECT COUNT(*).
CountUsers(s) ==
  /\ at[s] = "count"
  /\ Goto(s, IF NoUsers THEN "insert" ELSE "wire")
  /\ UNCHANGED <<config, tables, local, faults, kvData, userVars>>

SeedAdmin(s) ==
  /\ at[s] = "insert"
  /\ InsertSeed(Seed(s))
  /\ Goto(s, "wire")
  /\ UNCHANGED <<config, tables, local, faults, kvData>>

\* set_token_store_getter, the two tasks, and yield: no await between them.
Wire(s) ==
  /\ at[s] = "wire"
  /\ getter' = [getter EXCEPT ![s] = TRUE]
  /\ rotating' = [rotating EXCEPT ![s] = TRUE]
  /\ cleanup' = [cleanup EXCEPT ![s] = Asleep]
  /\ Goto(s, "up")
  /\ UNCHANGED <<config, tables, missing, pool, faults, kvData, userVars>>

-----------------------------------------------------------------------------
(***************************************************************************)
(* Shutdown and exits.                                                     *)
(***************************************************************************)

Up(s) == at[s] = "up"

\* The server is told to stop: task.cancel() of each.
Stop(s) ==
  /\ Up(s)
  /\ Goto(s, "stopping")
  /\ UNCHANGED <<config, tables, local, faults, kvData, userVars>>

\* A cancelled task ends.
EndRotation(s) ==
  /\ at[s] = "stopping" /\ rotating[s]
  /\ rotating' = [rotating EXCEPT ![s] = FALSE]
  /\ UNCHANGED <<config, tables, at, missing, pool, getter, faults, kvVars, userVars>>

EndCleanup(s) ==
  /\ at[s] = "stopping" /\ cleanup[s] # NULL
  /\ cleanup' = [cleanup EXCEPT ![s] = NULL]
  /\ UNCHANGED <<config, tables, at, missing, pool, getter, rotating, faults, kvData, userVars>>

\* A shutdown that does not wait for the tasks.
ClosePoolMutant(s) ==
  /\ at[s] = "stopping"
  /\ pool' = [pool EXCEPT ![s] = FALSE]
  /\ Goto(s, "stopped")
  /\ UNCHANGED <<config, tables, missing, getter, rotating, faults, kvVars, userVars>>

\* After asyncio.gather: pool.close() and wait_closed().
ClosePool(s) ==
  /\ at[s] = "stopping" /\ ~rotating[s] /\ cleanup[s] = NULL
  /\ pool' = [pool EXCEPT ![s] = FALSE]
  /\ Goto(s, "stopped")
  /\ UNCHANGED <<config, tables, missing, getter, rotating, faults, kvVars, userVars>>

\* The process ends, nothing of it stays, and it is started again if it was not
\* being stopped.
Exit(s) ==
  /\ Goto(s, IF at[s] = "stopping" THEN "stopped" ELSE "down")
  /\ missing' = [missing EXCEPT ![s] = {}]
  /\ pool' = [pool EXCEPT ![s] = FALSE]
  /\ getter' = [getter EXCEPT ![s] = FALSE]
  /\ rotating' = [rotating EXCEPT ![s] = FALSE]
  /\ cleanup' = [cleanup EXCEPT ![s] = NULL]
  /\ UNCHANGED <<config, tables, kvData, userVars>>

\* A lost race of two seeds: the INSERT meets a login that is there and raises.
SeedFails(s) ==
  /\ at[s] = "insert" /\ Has(Seed(s))
  /\ Exit(s)
  /\ UNCHANGED faults

\* The process is killed, or the database fails a statement of start-up.
Crash(s) ==
  /\ at[s] \notin {"down", "stopped"}
  /\ faults < MaxFaults
  /\ faults' = faults + 1
  /\ Exit(s)

-----------------------------------------------------------------------------
Serving == \E s \in Servers : Up(s) /\ EnvOf(s).policyDb

\* The stores are used by servers that are up.
Use ==
  /\ Serving
  /\ \/ AdminCall /\ UNCHANGED kvVars
     \/ (\E k \in Keys : SetKey(k) \/ DeleteKey(k)) /\ UNCHANGED userVars
  /\ UNCHANGED <<config, tables, at, missing, pool, getter, rotating, faults>>

\* The loop of a server; a failure is a fault.
Loop(s) ==
  /\ CutOff(s) \/ Sweep(s)
  /\ UNCHANGED <<config, tables, at, missing, pool, getter, rotating, faults, userVars>>

LoopFails(s) ==
  /\ SweepFails(s)
  /\ faults < MaxFaults /\ faults' = faults + 1
  /\ UNCHANGED <<config, tables, at, missing, pool, getter, rotating, userVars>>

Clock ==
  /\ Tick
  /\ UNCHANGED <<config, tables, at, missing, pool, getter, rotating, faults, userVars>>

\* What a process does by itself.
StartUp(s) ==
  \/ Boot(s) \/ CreatePool(s) \/ ListTables(s) \/ CreateTable(s) \/ EnsureKvTable(s)
  \/ CountUsers(s) \/ SeedAdmin(s) \/ SeedFails(s) \/ Wire(s)

ShutDown(s) == EndRotation(s) \/ EndCleanup(s) \/ ClosePool(s)

ServerNext ==
  \/ \E s \in Servers : StartUp(s) \/ Stop(s) \/ ShutDown(s) \/ Crash(s) \/ Loop(s) \/ LoopFails(s)
  \/ Use
  \/ Clock

\* Docker starts a process that has ended, and a running one goes on.
ServerFairness ==
  \A s \in Servers : WF_vars(StartUp(s)) /\ WF_vars(ShutDown(s)) /\ WF_vars(Loop(s))

ServerSpec == ServerInit /\ [][ServerNext]_vars /\ ServerFairness

-----------------------------------------------------------------------------
(***************************************************************************)
(* Properties.                                                             *)
(***************************************************************************)

\* The servers' state has the values the code gives it.
ServerTypeOK ==
  /\ UsersTypeOK /\ KvTypeOK
  /\ config \in [Servers -> Settings]
  /\ tables \in SUBSET Tables
  /\ at \in [Servers -> {"down", "pool", "list", "create", "kv", "count", "insert", "wire",
                         "up", "stopping", "stopped"}]
  /\ missing \in [Servers -> SUBSET Tables]
  /\ pool \in [Servers -> BOOLEAN] /\ getter \in [Servers -> BOOLEAN]
  /\ rotating \in [Servers -> BOOLEAN]
  /\ faults \in Nat

\* A server that lets users in has every table its stores use, whichever servers
\* created them and wherever one of them died on the way.
ServingIsReady ==
  \A s \in Servers : Up(s) /\ EnvOf(s).policyDb => tables = Tables /\ pool[s]

\* No CREATE TABLE names in its foreign key a table that is not there: whatever part
\* of the schema a server finds and others create meanwhile, users comes first.
ParentsComeFirst ==
  \A s \in Servers : at[s] = "create" =>
    \A t \in missing[s] \cap NeedsUsers : First(t, missing[s]) => "users" \in tables

\* A server that is up lets in only what its settings name, each token by what is
\* set up for it.
ModesEnforced == \A s \in Servers : Up(s) => ModeEnforced(EnvOf(s), getter[s])

\* No method its settings enable is without a use: each kind of credential that
\* setup_auth's docstring gives the mode (provider.py:51-55) is accepted, one with
\* GitHub's scopes and one of the database with the store there is.
ModesUsable == \A s \in Servers : Up(s) => NobodyLockedOut(EnvOf(s), getter[s])

\* The scopes it requires of a GitHub token are the parents of those it was asked for,
\* each once ("Map child scopes to their GitHub parent scope, removing duplicates",
\* oauth.py:37).  It is one step of the table, so that a parent that is a child itself
\* is left: read:repo_hook is required as write:repo_hook (oauth.py:31-32), although the
\* comment at oauth.py:15-18 has any child become what GitHub reports.
ScopesMapped ==
  \A s \in Servers : Up(s) /\ NeedOAuth(EnvOf(s)) => ScopesMappedOnce(EnvOf(s).scopes)

\* No background task works on a pool that is closed.
TasksHavePool ==
  \A s \in Servers : rotating[s] \/ cleanup[s] # NULL => pool[s]

\* seed_admin's purpose: when servers with a seed are up, somebody can administer,
\* however their start-ups raced, unless administrators changed that.
FirstAdmin ==
  (\E s \in Servers : Up(s) /\ EnvOf(s).policyDb /\ Seed(s) # NULL) /\ ops = 0
    => \E l \in Logins : roles[l] = "admin"

\* A server whose settings are right comes up, however often start-up fails or a
\* race of seeds is lost.
ServerComesUp ==
  \A s \in Servers : Starts(EnvOf(s)) => (at[s] = "down" ~> Up(s))

\* An entry that is stale is deleted, or set again, while a server's loop runs.
StaleIsRemoved ==
  \A k \in Keys : Stale(k) ~> ~Stale(k) \/ ~Serving

\* "Insert seed admin user only if users table is empty" (policy.py:145).
SeedOnlyWhenEmpty ==
  [][(\E s \in Servers : SeedAdmin(s)) => NoUsers]_vars
=============================================================================
