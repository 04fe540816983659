---------------------------- MODULE PolicyUsers ----------------------------
(***************************************************************************)
(* The users and their roles, src/auth/policy.py, and the administrator    *)
(* that servers seed.  Each operation is one statement; e-mail addresses   *)
(* and passwords are columns of their own and left out.                    *)
(***************************************************************************)
EXTENDS SqlNull, Naturals

CONSTANTS
  Logins,  \* GitHub logins, in lower case
  MaxOps   \* bound: calls that administrators make

VARIABLES
  roles,  \* users: the role of each login, or NULL
  ops     \* how many calls administrators have made

userVars == <<roles, ops>>

ROLES == {"admin", "useradmin", "user"}

ASSUME UsersAssumption == MaxOps \in Nat /\ NULL \notin ROLES

UsersTypeOK == roles \in [Logins -> ROLES \cup {NULL}] /\ ops \in Nat

UsersInit == roles = [l \in Logins |-> NULL] /\ ops = 0

Has(l) == roles[l] # NULL

\* SELECT COUNT(*) FROM users finds none.
NoUsers == \A l \in Logins : ~Has(l)

SetRole(l, role) == roles' = [roles EXCEPT ![l] = role]

\* add_user: a login that is there makes the INSERT raise.
AddUser(l, role) == ~Has(l) /\ SetRole(l, role)

UpdateRole(l, role) == Has(l) /\ SetRole(l, role)

\* upsert_user, of the CSV import, also changes the role of those who are there.
UpsertUser(l, role) == SetRole(l, role)

RemoveUser(l) == SetRole(l, NULL)

AdminCall ==
  /\ ops < MaxOps
  /\ ops' = ops + 1
  /\ \E l \in Logins :
       \/ RemoveUser(l)
       \/ \E role \in ROLES : AddUser(l, role) \/ UpdateRole(l, role) \/ UpsertUser(l, role)

\* An INSERT that leaves the role to the column's default.
InsertSeedMutant(l) == AddUser(l, "user") /\ UNCHANGED ops

\* seed_admin's INSERT: a login that is there makes it raise.
InsertSeed(l) == AddUser(l, "admin") /\ UNCHANGED ops
=============================================================================
