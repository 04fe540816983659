--------------------------- MODULE AdminMfaProofs ---------------------------
(***************************************************************************)
(* Proofs about AdminMfa for every value of its constants: the types, what *)
(* is true of a login whose MFA is on, and that backup codes are whole     *)
(* batches of which each code works once.                                  *)
(***************************************************************************)
EXTENDS AdminMfa, FiniteSetTheorems, TLAPS

\* A code is in one row only, and codes come from batches that were stored.
CodesAreOld ==
  /\ IsFiniteSet(spent)
  /\ \A code \in spent : code[1] <= batches
  /\ \A r \in codes : r.code[1] <= batches
  /\ \A r, s \in codes : r.code = s.code => r = s

\* What the proofs need of the codes alone.
CodesInv == CodesAreOld /\ OneBatch /\ NoCodeTwice

\* The inductive invariant.
MfaInv == MfaTypeOK /\ EnabledIsSettled /\ CodesInv /\ GeneratedIffCodes

-----------------------------------------------------------------------------
(***************************************************************************)
(* Types.                                                                  *)
(***************************************************************************)

LEMMA NewUserType == \A role \in ROLES : NewUser(role) \in User
BY DEF NewUser, User

\* The statements that keep the row of a login but change columns of it.
LEMMA StepType == ASSUME NEW c \in Callers, NEW l \in Logins, MfaTypeOK
  PROVE /\ \A at \in {"reuse", "store", "confirm", "policy", "clear", "regenerate"} :
             /\ Begin(c, at, l) => call' \in [Callers -> Step \cup {NULL}]
             /\ Continue(c, at) /\ call[c] # NULL => call' \in [Callers -> Step \cup {NULL}]
        /\ Return(c) => call' \in [Callers -> Step \cup {NULL}]
        /\ call[c] # NULL => call[c].login \in Logins
BY SMT DEF MfaTypeOK, Begin, Continue, Return, Step

\* ReplaceCodes inserts rows of the right type.
LEMMA ReplaceType ==
  ASSUME NEW l \in Logins, MfaTypeOK, ReplaceCodes(l)
  PROVE  codes' \in SUBSET CodeRow /\ batches' \in Nat /\ batches' = batches + 1
         /\ codes' = (codes \ CodesOf(l)) \cup NewBatch(l)
<1>1. batches' = batches + 1 /\ batches \in Nat
  BY DEF ReplaceCodes, MfaTypeOK
<1>2. codes' = (codes \ CodesOf(l)) \cup NewBatch(l)
  BY DEF ReplaceCodes
<1>3. NewBatch(l) \subseteq CodeRow
  <2>1. batches + 1 \in Nat \ {0}
    BY <1>1
  <2>2. {batches + 1} \X (1 .. BACKUP_CODE_COUNT) \subseteq Code
    BY <2>1 DEF Code
  <2>3. ASSUME NEW code \in Code
        PROVE  [login |-> l, code |-> code, used |-> FALSE] \in CodeRow
    BY DEF CodeRow
  <2>. QED  BY <2>2, <2>3 DEF NewBatch
<1>. QED  BY <1>1, <1>2, <1>3 DEF MfaTypeOK

\* Every step keeps the types.
LEMMA NextType == MfaTypeOK /\ [Next]_vars => MfaTypeOK'
<1>. SUFFICES ASSUME MfaTypeOK, [Next]_vars PROVE MfaTypeOK'
  OBVIOUS
<1>. USE DEF tables, minted, history
<1>1. CASE UNCHANGED vars
  BY <1>1 DEF MfaTypeOK, vars
<1>2. ASSUME NEW c \in Callers, NEW l \in Logins, SetupStart(c, l) PROVE MfaTypeOK'
  BY <1>2, StepType DEF SetupStart, MfaTypeOK
<1>3. ASSUME NEW c \in Callers, NEW l \in Logins, ConfirmRead(c, l) PROVE MfaTypeOK'
  <2>1. call' \in [Callers -> Step \cup {NULL}]
    BY <1>3, StepType DEF ConfirmRead
  <2>2. users[l].secret \in Nat
    BY <1>3 DEF ConfirmRead, SetupValid, Has, MfaTypeOK, User
  <2>. QED  BY <1>3, <2>1, <2>2 DEF ConfirmRead, MfaTypeOK
<1>4. ASSUME NEW c \in Callers, NEW l \in Logins, RegenerateRead(c, l) PROVE MfaTypeOK'
  BY <1>4, StepType DEF RegenerateRead, MfaTypeOK
<1>5. ASSUME NEW c \in Callers, NEW l \in Logins, DisableRole(c, l) PROVE MfaTypeOK'
  BY <1>5, StepType DEF DisableRole, MfaTypeOK
<1>6. ASSUME NEW c \in Callers, SetupReuse(c) PROVE MfaTypeOK'
  <2>1. call[c] # NULL /\ call[c].login \in Logins
    BY <1>6 DEF SetupReuse, At, MfaTypeOK, Step
  <2>2. call' \in [Callers -> Step \cup {NULL}]
    BY <1>6, <2>1, StepType DEF SetupReuse
  <2>. QED  BY <1>6, <2>2 DEF SetupReuse, MfaTypeOK
<1>7. ASSUME NEW c \in Callers, SetupStore(c) PROVE MfaTypeOK'
  <2>. DEFINE l == call[c].login
  <2>1. call[c] # NULL /\ l \in Logins
    BY <1>7 DEF SetupStore, At, MfaTypeOK, Step
  <2>2. SetupExpiry \in Nat /\ secrets + 1 \in Nat
    BY MfaAssumption DEF SetupExpiry, MfaTypeOK
  <2>3. users' \in [Logins -> User \cup {NULL}]
    <3>1. CASE ~Has(l)
      BY <1>7, <3>1 DEF SetupStore, MfaTypeOK
    <3>2. CASE Has(l)
      <4>1. users[l] \in User
        BY <2>1, <3>2 DEF Has, MfaTypeOK
      <4>2. users' = [users EXCEPT ![l] =
                        [@ EXCEPT !.secret = secrets + 1, !.enabled = FALSE,
                                  !.expires = SetupExpiry]]
        BY <1>7, <3>2 DEF SetupStore
      <4>. DEFINE new == [users[l] EXCEPT !.secret = secrets + 1, !.enabled = FALSE,
                                          !.expires = SetupExpiry]
      <4>3. new \in User
        BY <2>2, <4>1 DEF User
      <4>4. users' = [users EXCEPT ![l] = new]
        BY <4>2
      <4>. HIDE DEF new
      <4>. QED  BY <4>3, <4>4, <2>1 DEF MfaTypeOK
    <3>. QED  BY <3>1, <3>2
  <2>4. call' \in [Callers -> Step \cup {NULL}]
    BY <1>7, <2>1, StepType DEF SetupStore
  <2>. QED  BY <1>7, <2>2, <2>3, <2>4 DEF SetupStore, MfaTypeOK
<1>8. ASSUME NEW c \in Callers, ConfirmCommit(c) PROVE MfaTypeOK'
  <2>. DEFINE l == call[c].login
  <2>1. call[c] # NULL /\ l \in Logins
    BY <1>8 DEF ConfirmCommit, At, MfaTypeOK, Step
  <2>2. CASE RolledBack(c)
    BY <1>8, <2>1, <2>2, StepType DEF ConfirmCommit, RolledBack, MfaTypeOK
  <2>3. CASE ~RolledBack(c)
    <3>1. /\ Has(l) /\ ReplaceCodes(l) /\ Return(c)
          /\ users' = [users EXCEPT ![l].enabled = TRUE, ![l].expires = NULL,
                                    ![l].generated = TRUE]
          /\ logged' = [logged EXCEPT ![l] = "mfa_enable"]
          /\ UNCHANGED <<required, secrets, history, now>>
      BY <1>8, <2>3 DEF ConfirmCommit
    <3>2. users[l] \in User
      BY <2>1, <3>1 DEF Has, MfaTypeOK
    <3>. DEFINE new == [users[l] EXCEPT !.enabled = TRUE, !.expires = NULL, !.generated = TRUE]
    <3>3. new \in User
      BY <3>2 DEF User
    <3>4. users' = [users EXCEPT ![l] = new]
      BY <3>1
    <3>. HIDE DEF new
    <3>5. users' \in [Logins -> User \cup {NULL}]
      BY <2>1, <3>3, <3>4 DEF MfaTypeOK
    <3>6. codes' \in SUBSET CodeRow /\ batches' \in Nat
      BY <2>1, <3>1, ReplaceType
    <3>7. call' \in [Callers -> Step \cup {NULL}]
      BY <2>1, <3>1, StepType
    <3>. QED  BY <2>1, <3>1, <3>5, <3>6, <3>7 DEF MfaTypeOK
  <2>. QED  BY <2>2, <2>3
<1>9. ASSUME NEW c \in Callers, RegenerateCommit(c) PROVE MfaTypeOK'
  <2>. DEFINE l == call[c].login
  <2>1. call[c] # NULL /\ l \in Logins
    BY <1>9 DEF RegenerateCommit, At, MfaTypeOK, Step
  <2>2. CASE RolledBack(c)
    BY <1>9, <2>1, <2>2, StepType DEF RegenerateCommit, RolledBack, MfaTypeOK
  <2>3. CASE ~RolledBack(c)
    <3>1. /\ Has(l) /\ ReplaceCodes(l) /\ Return(c)
          /\ users' = [users EXCEPT ![l].generated = TRUE]
          /\ UNCHANGED <<required, logged, secrets, history, now>>
      BY <1>9, <2>3 DEF RegenerateCommit
    <3>2. users[l] \in User
      BY <2>1, <3>1 DEF Has, MfaTypeOK
    <3>. DEFINE new == [users[l] EXCEPT !.generated = TRUE]
    <3>3. new \in User
      BY <3>2 DEF User
    <3>4. users' = [users EXCEPT ![l] = new]
      BY <3>1
    <3>. HIDE DEF new
    <3>5. users' \in [Logins -> User \cup {NULL}]
      BY <2>1, <3>3, <3>4 DEF MfaTypeOK
    <3>6. codes' \in SUBSET CodeRow /\ batches' \in Nat
      BY <2>1, <3>1, ReplaceType
    <3>7. call' \in [Callers -> Step \cup {NULL}]
      BY <2>1, <3>1, StepType
    <3>. QED  BY <2>1, <3>1, <3>5, <3>6, <3>7 DEF MfaTypeOK
  <2>. QED  BY <2>2, <2>3
<1>10. ASSUME NEW c \in Callers, DisablePolicy(c) PROVE MfaTypeOK'
  <2>1. call[c] # NULL /\ call[c].login \in Logins
    BY <1>10 DEF DisablePolicy, At, MfaTypeOK, Step
  <2>2. call' \in [Callers -> Step \cup {NULL}]
    BY <1>10, <2>1, StepType DEF DisablePolicy
  <2>. QED  BY <1>10, <2>2 DEF DisablePolicy, MfaTypeOK
<1>11. ASSUME NEW l \in Logins, NEW action \in {"mfa_disable", "mfa_admin_clear"},
              ClearState(l, action)
       PROVE  /\ users' \in [Logins -> User \cup {NULL}]
              /\ codes' \in SUBSET CodeRow
              /\ logged' \in [Logins -> {NULL, "mfa_enable", "mfa_disable", "mfa_admin_clear"}]
              /\ required' \in BOOLEAN
  <2>1. Has(l) => NewUser(users[l].role) \in User
    BY NewUserType DEF Has, MfaTypeOK, User
  <2>. QED  BY <1>11, <2>1 DEF ClearState, MfaTypeOK
<1>12. ASSUME NEW c \in Callers, DisableCommit(c) PROVE MfaTypeOK'
  <2>1. call[c] # NULL /\ call[c].login \in Logins
    BY <1>12 DEF DisableCommit, At, MfaTypeOK, Step
  <2>2. call' \in [Callers -> Step \cup {NULL}]
    BY <1>12, <2>1, StepType DEF DisableCommit
  <2>. QED  BY <1>11, <1>12, <2>1, <2>2 DEF DisableCommit, MfaTypeOK
<1>13. ASSUME NEW c \in Callers, Abort(c) PROVE MfaTypeOK'
  <2>1. call' \in [Callers -> Step \cup {NULL}]
    BY <1>13 DEF Abort, Return, MfaTypeOK
  <2>. QED  BY <1>13, <2>1 DEF Abort, MfaTypeOK
<1>14. ASSUME NEW l \in Logins, NEW code \in {r.code : r \in CodesOf(l)},
              UseBackupCode(l, code)
       PROVE  MfaTypeOK'
  <2>1. code \in Code
    BY DEF CodesOf, MfaTypeOK, CodeRow
  <2>2. codes' \in SUBSET CodeRow
    <3>1. [login |-> l, code |-> code, used |-> TRUE] \in CodeRow
      BY <2>1 DEF CodeRow
    <3>. QED  BY <1>14, <3>1 DEF UseBackupCode, MfaTypeOK
  <2>3. spent' \in SUBSET Code /\ accepts' \in Nat
    BY <1>14, <2>1 DEF UseBackupCode, MfaTypeOK
  <2>4. UNCHANGED <<users, required, logged, call, secrets, batches, proved, now>>
    BY <1>14 DEF UseBackupCode
  <2>. QED  BY <2>2, <2>3, <2>4 DEF MfaTypeOK
<1>15. ASSUME NEW l \in Logins, ClearForUser(l) PROVE MfaTypeOK'
  BY <1>11, <1>15 DEF ClearForUser, MfaTypeOK
<1>16. ASSUME NEW l \in Logins, NEW role \in ROLES, UpdateRole(l, role) PROVE MfaTypeOK'
  <2>1. users[l] \in User
    BY <1>16 DEF UpdateRole, Has, MfaTypeOK
  <2>. DEFINE new == [users[l] EXCEPT !.role = role]
  <2>2. new \in User
    BY <2>1 DEF User
  <2>3. users' = [users EXCEPT ![l] = new]
    BY <1>16 DEF UpdateRole
  <2>. HIDE DEF new
  <2>4. users' \in [Logins -> User \cup {NULL}]
    BY <2>2, <2>3 DEF MfaTypeOK
  <2>. QED  BY <1>16, <2>4 DEF UpdateRole, MfaTypeOK
<1>17. ASSUME NEW l \in Logins, NEW role \in ROLES, AddUser(l, role) PROVE MfaTypeOK'
  BY <1>17, NewUserType DEF AddUser, MfaTypeOK
<1>18. ASSUME NEW l \in Logins, RemoveUser(l) PROVE MfaTypeOK'
  BY <1>18 DEF RemoveUser, MfaTypeOK
<1>19. CASE SetRequire
  BY <1>19 DEF SetRequire, MfaTypeOK
<1>20. CASE Tick
  BY <1>20 DEF Tick, MfaTypeOK
<1>. QED  BY <1>1, <1>2, <1>3, <1>4, <1>5, <1>6, <1>7, <1>8, <1>9, <1>10, <1>12, <1>13,
             <1>14, <1>15, <1>16, <1>17, <1>18, <1>19, <1>20
          DEF Next, CallStep, UserStep

LEMMA InitType == Init => MfaTypeOK
<1>. SUFFICES ASSUME Init PROVE MfaTypeOK
  OBVIOUS
<1>1. users \in [Logins -> User \cup {NULL}]
  BY NewUserType DEF Init
<1>. QED  BY <1>1 DEF Init, MfaTypeOK

-----------------------------------------------------------------------------
(***************************************************************************)
(* What a step may do to the codes: nothing, replace those of one login,   *)
(* drop those of one login, or use one up.                                 *)
(***************************************************************************)

\* mfa_backup_generated_at is set.
Generated(l) == Has(l) /\ users[l].generated

\* The other logins keep their mfa_backup_generated_at.
OthersKeep(l) == \A m \in Logins \ {l} : Generated(m)' <=> Generated(m)

\* The other logins keep their MFA on or off.
OthersOn(l) == \A m \in Logins \ {l} : Enabled(m)' <=> Enabled(m)

OnKept         == \A l \in Logins : Enabled(l)' <=> Enabled(l)
SwitchesOff(l) == ~Enabled(l)' /\ OthersOn(l)

Keeps == /\ UNCHANGED <<codes, batches, spent, accepts>>
         /\ \A l \in Logins : Generated(l)' <=> Generated(l)
         /\ OnKept \/ \E l \in Logins : SwitchesOff(l)

Replaces(l) == /\ ReplaceCodes(l)
               /\ UNCHANGED <<spent, accepts>>
               /\ Generated(l)' /\ OthersKeep(l)
               /\ (Enabled(l) => Enabled(l)') /\ OthersOn(l)

Drops(l) == /\ codes' = codes \ CodesOf(l)
            /\ UNCHANGED <<batches, spent, accepts>>
            /\ ~Generated(l)' /\ OthersKeep(l)
            /\ SwitchesOff(l)

Uses(l) == /\ \E code \in Code : UseBackupCode(l, code)

LEMMA CodeMoves ==
  ASSUME MfaTypeOK, [Next]_vars
  PROVE  Keeps \/ \E l \in Logins : Replaces(l) \/ Drops(l) \/ Uses(l)
<1>. USE DEF tables, minted, history
<1>0. /\ \A l \in Logins : Has(l) => users[l] \in User
      /\ users \in [Logins -> User \cup {NULL}]
      /\ \A u \in User : u # NULL
  BY MfaAssumption DEF Has, MfaTypeOK
<1>1. ASSUME UNCHANGED <<users, codes, batches, spent, accepts>> PROVE Keeps
  BY <1>1 DEF Keeps, Generated, OnKept, Enabled, Has
<1>2. CASE UNCHANGED vars
  BY <1>1, <1>2 DEF vars
<1>3. ASSUME NEW c \in Callers, NEW l \in Logins,
             SetupStart(c, l) \/ ConfirmRead(c, l) \/ RegenerateRead(c, l) \/ DisableRole(c, l)
      PROVE  Keeps
  BY <1>1, <1>3 DEF SetupStart, ConfirmRead, RegenerateRead, DisableRole
<1>4. ASSUME NEW c \in Callers, SetupReuse(c) \/ DisablePolicy(c) \/ Abort(c)
      PROVE  Keeps
  BY <1>1, <1>4 DEF SetupReuse, DisablePolicy, Abort
<1>5. ASSUME NEW c \in Callers, SetupStore(c) PROVE Keeps
  <2>1. UNCHANGED <<codes, batches, spent, accepts>>
    BY <1>5 DEF SetupStore
  <2>. DEFINE l == call[c].login
              new == [users[l] EXCEPT !.secret = secrets + 1, !.enabled = FALSE,
                                      !.expires = SetupExpiry]
  <2>2. CASE ~Has(l)
    BY <1>1, <1>5, <2>1, <2>2 DEF SetupStore
  <2>3. CASE Has(l)
    <3>1. users' = [users EXCEPT ![l] = new] /\ l \in Logins
      BY <1>5, <2>3 DEF SetupStore, At, MfaTypeOK, Step
    <3>2. new \in User
      <4>1. SetupExpiry \in Nat /\ secrets + 1 \in Nat
        BY MfaAssumption DEF SetupExpiry, MfaTypeOK
      <4>. QED  BY <1>0, <2>3, <3>1, <4>1 DEF User
    <3>3. new.generated = users[l].generated /\ ~new.enabled
      BY <1>0, <2>3, <3>1 DEF User
    <3>. HIDE DEF new
    <3>. QED  BY <1>0, <2>1, <2>3, <3>1, <3>2, <3>3 DEF Keeps, Generated, SwitchesOff, OthersOn, Enabled, Has
  <2>. QED  BY <2>2, <2>3
<1>6. ASSUME NEW c \in Callers, ConfirmCommit(c)
      PROVE  Keeps \/ \E l \in Logins : Replaces(l)
  <2>. DEFINE l == call[c].login
              new == [users[l] EXCEPT !.enabled = TRUE, !.expires = NULL, !.generated = TRUE]
  <2>1. CASE RolledBack(c)
    BY <1>1, <1>6, <2>1 DEF RolledBack, ConfirmCommit
  <2>2. CASE ~RolledBack(c)
    <3>1. /\ Has(l) /\ ReplaceCodes(l) /\ l \in Logins
          /\ users' = [users EXCEPT ![l] = new]
          /\ UNCHANGED <<spent, accepts>>
      BY <1>6, <2>2 DEF ConfirmCommit, At, MfaTypeOK, Step
    <3>2. new \in User /\ new.generated /\ new.enabled
      BY <1>0, <3>1 DEF User
    <3>. HIDE DEF new
    <3>. QED
      BY <1>0, <3>1, <3>2 DEF Replaces, OthersKeep, OthersOn, Generated, Enabled, Has
  <2>. QED  BY <2>1, <2>2
<1>7. ASSUME NEW c \in Callers, RegenerateCommit(c)
      PROVE  Keeps \/ \E l \in Logins : Replaces(l)
  <2>. DEFINE l == call[c].login
              new == [users[l] EXCEPT !.generated = TRUE]
  <2>1. CASE RolledBack(c)
    BY <1>1, <1>7, <2>1 DEF RolledBack, RegenerateCommit
  <2>2. CASE ~RolledBack(c)
    <3>1. /\ Has(l) /\ ReplaceCodes(l) /\ l \in Logins
          /\ users' = [users EXCEPT ![l] = new]
          /\ UNCHANGED <<spent, accepts>>
      BY <1>7, <2>2 DEF RegenerateCommit, At, MfaTypeOK, Step
    <3>2. new \in User /\ new.generated /\ new.enabled = users[l].enabled
      BY <1>0, <3>1 DEF User
    <3>. HIDE DEF new
    <3>. QED
      BY <1>0, <3>1, <3>2 DEF Replaces, OthersKeep, OthersOn, Generated, Enabled, Has
  <2>. QED  BY <2>1, <2>2
<1>8. ASSUME NEW l \in Logins, NEW action, ClearState(l, action),
             UNCHANGED <<batches, spent, accepts>>
      PROVE  Drops(l)
  <2>1. codes' = codes \ CodesOf(l)
    BY <1>8 DEF ClearState
  <2>2. CASE Has(l)
    <3>1. NewUser(users[l].role) \in User /\ ~NewUser(users[l].role).generated
          /\ ~NewUser(users[l].role).enabled
      BY <1>0, <2>2, NewUserType DEF User, NewUser
    <3>2. users' = [users EXCEPT ![l] = NewUser(users[l].role)]
      BY <1>8, <2>2 DEF ClearState
    <3>. QED  BY <1>0, <1>8, <2>1, <3>1, <3>2 DEF Drops, OthersKeep, SwitchesOff, OthersOn, Generated, Enabled, Has
  <2>3. CASE ~Has(l)
    BY <1>8, <2>1, <2>3
    DEF ClearState, Drops, OthersKeep, SwitchesOff, OthersOn, Generated, Enabled, Has
  <2>. QED  BY <2>2, <2>3
<1>9. ASSUME NEW c \in Callers, DisableCommit(c) PROVE \E l \in Logins : Drops(l)
  <2>1. call[c].login \in Logins
    BY <1>9 DEF DisableCommit, At, MfaTypeOK, Step
  <2>. QED  BY <1>8, <1>9, <2>1 DEF DisableCommit
<1>10. ASSUME NEW l \in Logins, ClearForUser(l) PROVE Drops(l)
  BY <1>8, <1>10 DEF ClearForUser
<1>11. ASSUME NEW l \in Logins, RemoveUser(l) PROVE Drops(l)
  BY <1>0, <1>11
  DEF RemoveUser, Drops, OthersKeep, SwitchesOff, OthersOn, Generated, Enabled, Has
<1>12. ASSUME NEW l \in Logins, NEW role \in ROLES, UpdateRole(l, role) PROVE Keeps
  <2>. DEFINE new == [users[l] EXCEPT !.role = role]
  <2>1. users' = [users EXCEPT ![l] = new] /\ UNCHANGED <<codes, batches, spent, accepts>>
    BY <1>12 DEF UpdateRole
  <2>2. new \in User /\ new.generated = users[l].generated /\ Has(l)
        /\ new.enabled = users[l].enabled
    BY <1>0, <1>12 DEF UpdateRole, User
  <2>. HIDE DEF new
  <2>. QED  BY <1>0, <2>1, <2>2 DEF Keeps, Generated, OnKept, Enabled, Has
<1>13. ASSUME NEW l \in Logins, NEW role \in ROLES, AddUser(l, role) PROVE Keeps
  <2>1. NewUser(role) \in User /\ ~NewUser(role).generated /\ ~NewUser(role).enabled
    BY NewUserType DEF NewUser
  <2>. QED  BY <1>0, <1>13, <2>1 DEF AddUser, Keeps, Generated, OnKept, Enabled, Has
<1>14. ASSUME NEW l \in Logins, NEW code \in {r.code : r \in CodesOf(l)},
              UseBackupCode(l, code)
       PROVE  Uses(l)
  BY <1>14 DEF Uses, CodesOf, MfaTypeOK, CodeRow
<1>15. ASSUME SetRequire \/ Tick PROVE Keeps
  BY <1>1, <1>15 DEF SetRequire, Tick
<1>. QED  BY <1>2, <1>3, <1>4, <1>5, <1>6, <1>7, <1>9, <1>10, <1>11, <1>12, <1>13, <1>14, <1>15
          DEF Next, CallStep, UserStep

-----------------------------------------------------------------------------
(***************************************************************************)
(* The codes, after each of these.                                         *)
(***************************************************************************)

\* ReplaceCodes gives its login a whole batch that nobody has had before.
LEMMA ReplaceKeepsCodes ==
  ASSUME MfaTypeOK, CodesInv, NEW l \in Logins, Replaces(l)
  PROVE  CodesInv' /\ CodesOf(l)' # {} /\ \A m \in Logins \ {l} : CodesOf(m)' = CodesOf(m)
<1>. DEFINE b == batches + 1
            all == {b} \X (1 .. BACKUP_CODE_COUNT)
<1>1. /\ ReplaceCodes(l) /\ batches' = b /\ batches \in Nat
      /\ codes' = (codes \ CodesOf(l)) \cup NewBatch(l)
      /\ spent' = spent /\ accepts' = accepts
  BY ReplaceType DEF Replaces, MfaTypeOK
<1>2. \A r \in codes : r = [login |-> r.login, code |-> r.code, used |-> r.used]
                        /\ r.login \in Logins /\ r.code \in Code /\ r.code[1] \in Nat
  BY DEF MfaTypeOK, CodeRow, Code
<1>3. /\ \A r \in NewBatch(l) : /\ r.login = l /\ r.code \in all /\ ~r.used
                                /\ r = [login |-> l, code |-> r.code, used |-> FALSE]
      /\ \A code \in all : [login |-> l, code |-> code, used |-> FALSE] \in NewBatch(l)
  <2>1. NewBatch(l) = {[login |-> l, code |-> code, used |-> FALSE] : code \in all}
    BY DEF NewBatch
  <2>. HIDE DEF all
  <2>2. ASSUME NEW r \in NewBatch(l)
        PROVE  /\ r.login = l /\ r.code \in all /\ ~r.used
               /\ r = [login |-> l, code |-> r.code, used |-> FALSE]
    <3>1. PICK code \in all : r = [login |-> l, code |-> code, used |-> FALSE]
      BY <2>1
    <3>. QED  BY <3>1
  <2>. QED  BY <2>1, <2>2
<1>4. \A code \in all : code[1] = b
  OBVIOUS
<1>5. CodesOf(l)' = NewBatch(l)
  BY <1>1, <1>3 DEF CodesOf
<1>6. \A m \in Logins \ {l} : CodesOf(m)' = CodesOf(m)
  BY <1>1, <1>3 DEF CodesOf
<1>7. NewBatch(l) # {}
  <2>1. <<b, 1>> \in all
    BY MfaAssumption
  <2>. QED  BY <1>3, <2>1
<1>8. CodesAreOld'
  <2>1. \A code \in spent : code[1] \in Nat /\ code[1] <= batches
    BY DEF CodesInv, CodesAreOld, MfaTypeOK, Code
  <2>2. \A code \in spent' : code[1] <= batches'
    BY <1>1, <2>1
  <2>3. \A r \in codes' : r.code[1] <= batches'
    BY <1>1, <1>2, <1>3, <1>4 DEF CodesInv, CodesAreOld
  <2>4. ASSUME NEW r \in codes', NEW s \in codes', r.code = s.code PROVE r = s
    <3>1. CASE r \in codes /\ s \in codes
      BY <2>4, <3>1 DEF CodesInv, CodesAreOld
    <3>2. CASE r \in NewBatch(l) /\ s \in NewBatch(l)
      BY <1>3, <2>4, <3>2
    <3>3. \A q \in codes : q.code[1] <= batches /\ q.code[1] # b
      BY <1>1, <1>2 DEF CodesInv, CodesAreOld
    <3>4. \A q \in NewBatch(l) : q.code[1] = b
      BY <1>3, <1>4
    <3>. QED  BY <1>1, <2>4, <3>1, <3>2, <3>3, <3>4
  <2>. QED  BY <1>1, <2>2, <2>3, <2>4 DEF CodesInv, CodesAreOld
<1>9. OneBatch'
  <2>. SUFFICES ASSUME NEW m \in Logins, CodesOf(m)' # {}
       PROVE \E k \in 1 .. batches' :
               /\ {r.code : r \in CodesOf(m)'} = {k} \X (1 .. BACKUP_CODE_COUNT)
               /\ \A r \in codes' : r.code[1] = k => r.login = m
    BY DEF OneBatch
  <2>1. CASE m = l
    <3>1. {r.code : r \in CodesOf(l)'} = all
      <4>1. \A r \in NewBatch(l) : r.code \in all
        BY <1>3
      <4>2. \A code \in all : \E r \in NewBatch(l) : r.code = code
        BY <1>3
      <4>. QED  BY <1>5, <4>1, <4>2
    <3>2. \A r \in codes' : r.code[1] = b => r.login = l
      BY <1>1, <1>2, <1>3 DEF CodesInv, CodesAreOld
    <3>3. b \in 1 .. batches'
      BY <1>1
    <3>. QED  BY <2>1, <3>1, <3>2, <3>3
  <2>2. CASE m # l
    <3>1. CodesOf(m)' = CodesOf(m)
      BY <1>6, <2>2
    <3>2. PICK k \in 1 .. batches :
             /\ {r.code : r \in CodesOf(m)} = {k} \X (1 .. BACKUP_CODE_COUNT)
             /\ \A r \in codes : r.code[1] = k => r.login = m
      BY <3>1 DEF CodesInv, OneBatch
    <3>3. k \in 1 .. batches' /\ k # b
      BY <1>1
    <3>4. \A r \in codes' : r.code[1] = k => r.login = m
      BY <1>1, <1>3, <1>4, <3>2, <3>3
    <3>. QED  BY <3>1, <3>2, <3>3, <3>4
  <2>. QED  BY <2>1, <2>2
<1>10. NoCodeTwice'
  <2>1. \A code \in spent : code[1] # b
    BY <1>1 DEF CodesInv, CodesAreOld, MfaTypeOK, Code
  <2>2. \A r \in codes' : r.used <=> r.code \in spent'
    <3>1. ASSUME NEW r \in codes PROVE r.used <=> r.code \in spent
      BY DEF CodesInv, NoCodeTwice
    <3>2. ASSUME NEW r \in NewBatch(l) PROVE ~r.used /\ r.code \notin spent
      BY <1>3, <1>4, <2>1
    <3>. QED  BY <1>1, <3>1, <3>2
  <2>. QED  BY <1>1, <2>2 DEF CodesInv, NoCodeTwice
<1>. QED  BY <1>5, <1>6, <1>7, <1>8, <1>9, <1>10 DEF CodesInv

\* Dropping the codes of a login leaves the other batches whole.
LEMMA DropKeepsCodes ==
  ASSUME MfaTypeOK, CodesInv, NEW l \in Logins, Drops(l)
  PROVE  CodesInv' /\ CodesOf(l)' = {} /\ \A m \in Logins \ {l} : CodesOf(m)' = CodesOf(m)
<1>1. /\ codes' = codes \ CodesOf(l) /\ batches' = batches
      /\ spent' = spent /\ accepts' = accepts
  BY DEF Drops
<1>2. CodesOf(l)' = {} /\ \A m \in Logins \ {l} : CodesOf(m)' = CodesOf(m)
  BY <1>1 DEF CodesOf
<1>3. CodesAreOld'
  BY <1>1 DEF CodesInv, CodesAreOld
<1>4. NoCodeTwice'
  BY <1>1 DEF CodesInv, NoCodeTwice
<1>5. ASSUME NEW m \in Logins, CodesOf(m)' # {}
      PROVE  \E k \in 1 .. batches' :
               /\ {r.code : r \in CodesOf(m)'} = {k} \X (1 .. BACKUP_CODE_COUNT)
               /\ \A r \in codes' : r.code[1] = k => r.login = m
  <2>1. CodesOf(m)' = CodesOf(m)
    BY <1>2, <1>5
  <2>2. PICK k \in 1 .. batches :
           /\ {r.code : r \in CodesOf(m)} = {k} \X (1 .. BACKUP_CODE_COUNT)
           /\ \A r \in codes : r.code[1] = k => r.login = m
    BY <1>5, <2>1 DEF CodesInv, OneBatch
  <2>. QED  BY <1>1, <2>1, <2>2
<1>6. OneBatch'
  BY <1>5 DEF OneBatch
<1>. QED  BY <1>2, <1>3, <1>4, <1>6 DEF CodesInv

\* The row that the UPDATE affects is the only one with its code.
LEMMA UsableIsOne ==
  ASSUME CodesInv, NEW l \in Logins, NEW code, UseBackupCode(l, code)
  PROVE  \E r \in codes : Usable(l, code) = {r} /\ r.login = l /\ r.code = code /\ ~r.used
<1>1. Usable(l, code) # {}
  <2>1. Cardinality(Usable(l, code)) = 1
    BY DEF UseBackupCode
  <2>. QED  BY <2>1, FS_EmptySet
<1>2. PICK r \in Usable(l, code) : TRUE
  BY <1>1
<1>3. \A s \in Usable(l, code) : s \in codes /\ s.login = l /\ s.code = code /\ ~s.used
  BY DEF Usable, CodesOf
<1>4. \A s \in Usable(l, code) : s = r
  BY <1>2, <1>3 DEF CodesInv, CodesAreOld
<1>. QED  BY <1>2, <1>3, <1>4

\* The UPDATE of a code that is used up affects one row, whose code was not
\* spent before.
LEMMA UseKeepsCodes ==
  ASSUME MfaTypeOK, CodesInv, NEW l \in Logins, Uses(l)
  PROVE  /\ CodesInv'
         /\ \A m \in Logins : CodesOf(m)' # {} <=> CodesOf(m) # {}
         /\ UNCHANGED users
<1>1. PICK code \in Code : UseBackupCode(l, code)
  BY DEF Uses
<1>. DEFINE new == [login |-> l, code |-> code, used |-> TRUE]
<1>2. PICK r \in codes : Usable(l, code) = {r} /\ r.login = l /\ r.code = code /\ ~r.used
  BY <1>1, UsableIsOne
<1>3. codes' = (codes \ {r}) \cup {new}
  BY <1>1, <1>2 DEF UseBackupCode
<1>4. /\ spent' = spent \cup {code} /\ accepts' = accepts + 1
      /\ batches' = batches /\ users' = users
  BY <1>1 DEF UseBackupCode, minted
<1>5. new.login = l /\ new.code = code /\ new.used
  OBVIOUS
<1>. HIDE DEF new
<1>6. code \notin spent
  BY <1>2 DEF CodesInv, NoCodeTwice
<1>7. \A s \in codes : s.code = code => s = r
  BY <1>2 DEF CodesInv, CodesAreOld
<1>8. CodesAreOld'
  <2>1. IsFiniteSet(spent')
    BY <1>4, FS_AddElement DEF CodesInv, CodesAreOld
  <2>2. code[1] <= batches
    BY <1>2 DEF CodesInv, CodesAreOld
  <2>3. \A s, t \in codes' : s.code = t.code => s = t
    BY <1>3, <1>5, <1>7 DEF CodesInv, CodesAreOld
  <2>. QED  BY <1>3, <1>4, <1>5, <2>1, <2>2, <2>3 DEF CodesInv, CodesAreOld
<1>9. NoCodeTwice'
  <2>1. accepts' = Cardinality(spent')
    BY <1>4, <1>6, FS_AddElement DEF CodesInv, CodesAreOld, NoCodeTwice
  <2>2. ASSUME NEW s \in codes' PROVE s.used <=> s.code \in spent'
    <3>1. CASE s = new
      BY <1>4, <1>5, <3>1
    <3>2. CASE s \in codes /\ s # r
      BY <1>4, <1>7, <3>2 DEF CodesInv, NoCodeTwice
    <3>. QED  BY <1>3, <3>1, <3>2
  <2>. QED  BY <2>1, <2>2 DEF NoCodeTwice
<1>10. \A m \in Logins : m # l => CodesOf(m)' = CodesOf(m)
  BY <1>2, <1>3, <1>5 DEF CodesOf
<1>11. CodesOf(l)' = (CodesOf(l) \ {r}) \cup {new} /\ r \in CodesOf(l)
  BY <1>2, <1>3, <1>5 DEF CodesOf
<1>12. \A m \in Logins : {s.code : s \in CodesOf(m)'} = {s.code : s \in CodesOf(m)}
  <2>. SUFFICES ASSUME NEW m \in Logins
       PROVE {s.code : s \in CodesOf(m)'} = {s.code : s \in CodesOf(m)}
    OBVIOUS
  <2>1. CASE m = l
    <3>1. ASSUME NEW s \in CodesOf(l)' PROVE \E t \in CodesOf(l) : t.code = s.code
      BY <1>2, <1>5, <1>11
    <3>2. ASSUME NEW s \in CodesOf(l) PROVE \E t \in CodesOf(l)' : t.code = s.code
      BY <1>2, <1>5, <1>11
    <3>. QED  BY <2>1, <3>1, <3>2
  <2>2. CASE m # l
    BY <1>10, <2>2
  <2>. QED  BY <2>1, <2>2
<1>13. \A m \in Logins : CodesOf(m)' # {} <=> CodesOf(m) # {}
  BY <1>10, <1>11
<1>14. ASSUME NEW m \in Logins, CodesOf(m)' # {}
       PROVE  \E k \in 1 .. batches' :
                /\ {s.code : s \in CodesOf(m)'} = {k} \X (1 .. BACKUP_CODE_COUNT)
                /\ \A s \in codes' : s.code[1] = k => s.login = m
  <2>1. PICK k \in 1 .. batches :
           /\ {s.code : s \in CodesOf(m)} = {k} \X (1 .. BACKUP_CODE_COUNT)
           /\ \A s \in codes : s.code[1] = k => s.login = m
    BY <1>13, <1>14 DEF CodesInv, OneBatch
  <2>2. \A s \in codes' : s.code[1] = k => s.login = m
    BY <1>2, <1>3, <1>5, <2>1
  <2>. QED  BY <1>4, <1>12, <2>1, <2>2
<1>15. OneBatch'
  BY <1>14 DEF OneBatch
<1>. QED  BY <1>4, <1>8, <1>9, <1>13, <1>15 DEF CodesInv

\* Every step keeps the batches whole, the codes single-use, and
\* mfa_backup_generated_at in step with them.
LEMMA NextCodes ==
  ASSUME MfaTypeOK, CodesInv, GeneratedIffCodes, [Next]_vars
  PROVE  CodesInv' /\ GeneratedIffCodes'
<1>1. \A l \in Logins : CodesOf(l) # {} <=> Generated(l)
  BY DEF GeneratedIffCodes, Generated
<1>2. SUFFICES CodesInv' /\ \A l \in Logins : CodesOf(l)' # {} <=> Generated(l)'
  BY DEF GeneratedIffCodes, Generated
<1>3. CASE Keeps
  <2>1. CodesInv'
    BY <1>3 DEF Keeps, CodesInv, CodesAreOld, OneBatch, NoCodeTwice, CodesOf
  <2>2. \A l \in Logins : CodesOf(l)' = CodesOf(l)
    BY <1>3 DEF Keeps, CodesOf
  <2>. QED  BY <1>1, <1>3, <2>1, <2>2 DEF Keeps
<1>4. ASSUME NEW l \in Logins, Replaces(l)
      PROVE  CodesInv' /\ \A m \in Logins : CodesOf(m)' # {} <=> Generated(m)'
  BY <1>1, <1>4, ReplaceKeepsCodes DEF Replaces, OthersKeep
<1>5. ASSUME NEW l \in Logins, Drops(l)
      PROVE  CodesInv' /\ \A m \in Logins : CodesOf(m)' # {} <=> Generated(m)'
  BY <1>1, <1>5, DropKeepsCodes DEF Drops, OthersKeep
<1>6. ASSUME NEW l \in Logins, Uses(l)
      PROVE  CodesInv' /\ \A m \in Logins : CodesOf(m)' # {} <=> Generated(m)'
  <2>1. \A m \in Logins : Generated(m)' <=> Generated(m)
    BY <1>6, UseKeepsCodes DEF Generated, Has
  <2>. QED  BY <1>1, <1>6, <2>1, UseKeepsCodes
<1>. QED  BY <1>3, <1>4, <1>5, <1>6, CodeMoves

-----------------------------------------------------------------------------
(***************************************************************************)
(* A login whose MFA is on.                                                *)
(***************************************************************************)

\* What EnabledIsSettled says of one login.
Settled(l) == Enabled(l) =>
  users[l].expires = NULL /\ users[l].generated /\ logged[l] = "mfa_enable"

\* Every step leaves each login settled: one that switches MFA on sets all three
\* columns and the entry, and any other that touches them switches it off.
LEMMA NextSettled ==
  ASSUME MfaTypeOK, EnabledIsSettled, [Next]_vars
  PROVE  EnabledIsSettled'
<1>. SUFFICES ASSUME NEW m \in Logins PROVE Settled(m)'
  BY DEF EnabledIsSettled, Settled
<1>0. Settled(m)
  BY DEF EnabledIsSettled, Settled
<1>. USE DEF tables, minted, history
<1>1. ASSUME UNCHANGED <<users, logged>> PROVE Settled(m)'
  BY <1>0, <1>1 DEF Settled, Enabled, Has
<1>2. /\ users \in [Logins -> User \cup {NULL}]
      /\ logged \in [Logins -> {NULL, "mfa_enable", "mfa_disable", "mfa_admin_clear"}]
      /\ \A l \in Logins : Has(l) => users[l] \in User
      /\ \A u \in User : u # NULL
  BY MfaAssumption DEF Has, MfaTypeOK
<1>3. ASSUME NEW l \in Logins, NEW new \in User, users' = [users EXCEPT ![l] = new],
             ~new.enabled, \A k \in Logins : k # l => logged'[k] = logged[k]
      PROVE  Settled(m)'
  <2>1. CASE m = l
    BY <1>2, <1>3, <2>1 DEF Settled, Enabled, Has
  <2>2. CASE m # l
    <3>1. users'[m] = users[m] /\ logged'[m] = logged[m]
      BY <1>2, <1>3, <2>2
    <3>. QED  BY <1>0, <3>1 DEF Settled, Enabled, Has
  <2>. QED  BY <2>1, <2>2
<1>4. CASE UNCHANGED vars
  BY <1>1, <1>4 DEF vars
<1>5. ASSUME NEW c \in Callers, NEW l \in Logins,
             SetupStart(c, l) \/ ConfirmRead(c, l) \/ RegenerateRead(c, l) \/ DisableRole(c, l)
      PROVE  Settled(m)'
  BY <1>1, <1>5 DEF SetupStart, ConfirmRead, RegenerateRead, DisableRole
<1>6. ASSUME NEW c \in Callers, SetupReuse(c) \/ DisablePolicy(c) \/ Abort(c)
      PROVE  Settled(m)'
  BY <1>1, <1>6 DEF SetupReuse, DisablePolicy, Abort
<1>7. ASSUME NEW c \in Callers, SetupStore(c) PROVE Settled(m)'
  <2>. DEFINE l == call[c].login
              new == [users[l] EXCEPT !.secret = secrets + 1, !.enabled = FALSE,
                                      !.expires = SetupExpiry]
  <2>1. CASE ~Has(l)
    BY <1>1, <1>7, <2>1 DEF SetupStore
  <2>2. CASE Has(l)
    <3>1. users' = [users EXCEPT ![l] = new] /\ l \in Logins /\ logged' = logged
      BY <1>7, <2>2 DEF SetupStore, At, MfaTypeOK, Step
    <3>2. new \in User /\ ~new.enabled
      <4>1. SetupExpiry \in Nat /\ secrets + 1 \in Nat
        BY MfaAssumption DEF SetupExpiry, MfaTypeOK
      <4>. QED  BY <1>2, <2>2, <3>1, <4>1 DEF User
    <3>. HIDE DEF new, l
    <3>. QED  BY <1>3, <3>1, <3>2
  <2>. QED  BY <2>1, <2>2
<1>8. ASSUME NEW c \in Callers, ConfirmCommit(c) PROVE Settled(m)'
  <2>. DEFINE l == call[c].login
              new == [users[l] EXCEPT !.enabled = TRUE, !.expires = NULL, !.generated = TRUE]
  <2>1. CASE RolledBack(c)
    BY <1>1, <2>1 DEF RolledBack
  <2>2. CASE ~RolledBack(c)
    <3>1. /\ users' = [users EXCEPT ![l] = new] /\ l \in Logins /\ Has(l)
          /\ logged' = [logged EXCEPT ![l] = "mfa_enable"]
      BY <1>8, <2>2 DEF ConfirmCommit, At, MfaTypeOK, Step
    <3>2. new \in User /\ new.expires = NULL /\ new.generated
      BY <1>2, <3>1 DEF User
    <3>. HIDE DEF new, l
    <3>3. CASE m = l
      BY <1>2, <3>1, <3>2, <3>3 DEF Settled
    <3>4. CASE m # l
      <4>1. users'[m] = users[m] /\ logged'[m] = logged[m]
        BY <1>2, <3>1, <3>4
      <4>. QED  BY <1>0, <4>1 DEF Settled, Enabled, Has
    <3>. QED  BY <3>3, <3>4
  <2>. QED  BY <2>1, <2>2
<1>9. ASSUME NEW c \in Callers, RegenerateCommit(c) PROVE Settled(m)'
  <2>. DEFINE l == call[c].login
              new == [users[l] EXCEPT !.generated = TRUE]
  <2>1. CASE RolledBack(c)
    BY <1>1, <2>1 DEF RolledBack
  <2>2. CASE ~RolledBack(c)
    <3>1. /\ users' = [users EXCEPT ![l] = new] /\ l \in Logins /\ Has(l)
          /\ logged' = logged
      BY <1>9, <2>2 DEF RegenerateCommit, At, MfaTypeOK, Step
    <3>2. /\ new.enabled = users[l].enabled /\ new.expires = users[l].expires
          /\ new.generated
      BY <1>2, <3>1 DEF User
    <3>. HIDE DEF new
    <3>3. CASE m = l
      <4>1. users'[m] = new
        BY <1>2, <3>1, <3>3
      <4>. QED  BY <1>0, <3>1, <3>2, <3>3, <4>1 DEF Settled, Enabled, Has
    <3>4. CASE m # l
      <4>1. users'[m] = users[m]
        BY <1>2, <3>1, <3>4
      <4>. QED  BY <1>0, <3>1, <4>1 DEF Settled, Enabled, Has
    <3>. QED  BY <3>3, <3>4
  <2>. QED  BY <2>1, <2>2
<1>10. ASSUME NEW l \in Logins, NEW action, ClearState(l, action) PROVE Settled(m)'
  <2>1. \A k \in Logins : k # l => logged'[k] = logged[k]
    BY <1>2, <1>10 DEF ClearState
  <2>2. CASE Has(l)
    <3>1. NewUser(users[l].role) \in User /\ ~NewUser(users[l].role).enabled
      BY <1>2, <2>2, NewUserType DEF User, NewUser
    <3>2. users' = [users EXCEPT ![l] = NewUser(users[l].role)]
      BY <1>10, <2>2 DEF ClearState
    <3>. QED  BY <1>3, <2>1, <3>1, <3>2
  <2>3. CASE ~Has(l)
    <3>1. users' = users
      BY <1>10, <2>3 DEF ClearState
    <3>. QED  BY <1>0, <2>1, <2>3, <3>1 DEF Settled, Enabled, Has
  <2>. QED  BY <2>2, <2>3
<1>11. ASSUME NEW c \in Callers, DisableCommit(c) PROVE Settled(m)'
  <2>1. call[c].login \in Logins
    BY <1>11 DEF DisableCommit, At, MfaTypeOK, Step
  <2>. QED  BY <1>10, <1>11, <2>1 DEF DisableCommit
<1>12. ASSUME NEW l \in Logins, ClearForUser(l) PROVE Settled(m)'
  BY <1>10, <1>12 DEF ClearForUser
<1>13. ASSUME NEW l \in Logins, RemoveUser(l) PROVE Settled(m)'
  BY <1>0, <1>2, <1>13 DEF RemoveUser, Settled, Enabled, Has
<1>14. ASSUME NEW l \in Logins, NEW role \in ROLES, UpdateRole(l, role) PROVE Settled(m)'
  <2>. DEFINE new == [users[l] EXCEPT !.role = role]
  <2>1. users' = [users EXCEPT ![l] = new] /\ logged' = logged /\ Has(l)
    BY <1>14 DEF UpdateRole
  <2>2. /\ new.enabled = users[l].enabled /\ new.expires = users[l].expires
        /\ new.generated = users[l].generated
    BY <1>2, <2>1 DEF User
  <2>. HIDE DEF new
  <2>3. CASE m = l
    <3>1. users'[m] = new
      BY <1>2, <2>1, <2>3
    <3>. QED  BY <1>0, <2>1, <2>2, <2>3, <3>1 DEF Settled, Enabled, Has
  <2>4. CASE m # l
    <3>1. users'[m] = users[m]
      BY <1>2, <2>1, <2>4
    <3>. QED  BY <1>0, <2>1, <3>1 DEF Settled, Enabled, Has
  <2>. QED  BY <2>3, <2>4
<1>15. ASSUME NEW l \in Logins, NEW role \in ROLES, AddUser(l, role) PROVE Settled(m)'
  <2>1. NewUser(role) \in User /\ ~NewUser(role).enabled
    BY NewUserType DEF NewUser
  <2>. QED  BY <1>3, <1>15, <2>1 DEF AddUser
<1>16. ASSUME NEW l \in Logins, NEW code, UseBackupCode(l, code) PROVE Settled(m)'
  BY <1>1, <1>16 DEF UseBackupCode
<1>17. ASSUME SetRequire \/ Tick PROVE Settled(m)'
  BY <1>1, <1>17 DEF SetRequire, Tick
<1>. QED  BY <1>4, <1>5, <1>6, <1>7, <1>8, <1>9, <1>11, <1>12, <1>13, <1>14, <1>15, <1>16, <1>17
          DEF Next, CallStep, UserStep

-----------------------------------------------------------------------------
(***************************************************************************)
(* The theorems.                                                           *)
(***************************************************************************)

LEMMA MfaInit == Init => MfaInv
<1>. SUFFICES ASSUME Init PROVE MfaInv
  OBVIOUS
<1>1. MfaTypeOK
  BY InitType
<1>2. \A l \in Logins : Has(l) => ~users[l].enabled /\ ~users[l].generated
  BY DEF Init, Has, NewUser
<1>3. EnabledIsSettled
  BY <1>2 DEF EnabledIsSettled, Enabled
<1>4. \A l \in Logins : CodesOf(l) = {}
  BY DEF Init, CodesOf
<1>5. OneBatch /\ GeneratedIffCodes
  BY <1>2, <1>4 DEF OneBatch, GeneratedIffCodes
<1>6. CodesAreOld /\ NoCodeTwice
  BY FS_EmptySet DEF Init, CodesAreOld, NoCodeTwice
<1>. QED  BY <1>1, <1>3, <1>5, <1>6 DEF MfaInv, CodesInv

LEMMA MfaNext == MfaInv /\ [Next]_vars => MfaInv'
BY NextType, NextCodes, NextSettled DEF MfaInv

LEMMA MfaInvariant == Spec => []MfaInv
BY MfaInit, MfaNext, PTL DEF Spec

\* The tables, the calls and the histories keep their types.
THEOREM MfaTypeCorrect == Spec => []MfaTypeOK
<1>1. MfaInv => MfaTypeOK
  BY DEF MfaInv
<1>. QED  BY <1>1, MfaInvariant, PTL

\* For any number of users and callers, the backup codes of a user are one whole
\* batch or none, in step with mfa_backup_generated_at.
THEOREM MfaCodesConsistent == Spec => []CodesConsistent
<1>1. MfaInv => CodesConsistent
  BY DEF MfaInv, CodesInv, CodesConsistent
<1>. QED  BY <1>1, MfaInvariant, PTL

\* No backup code lets anybody in twice.
THEOREM MfaNoCodeTwice == Spec => []NoCodeTwice
<1>1. MfaInv => NoCodeTwice
  BY DEF MfaInv, CodesInv
<1>. QED  BY <1>1, MfaInvariant, PTL

\* Whoever has MFA on has no set-up pending, has codes, and the audit log says so.
THEOREM MfaEnabledIsSettled == Spec => []EnabledIsSettled
<1>1. MfaInv => EnabledIsSettled
  BY DEF MfaInv
<1>. QED  BY <1>1, MfaInvariant, PTL

-----------------------------------------------------------------------------
(***************************************************************************)
(* AdminMfa implements SecondFactor: each move of the codes is one of its  *)
(* actions, or none.                                                       *)
(***************************************************************************)

On   == {l \in Logins : Enabled(l)}
Good == [l \in Logins |-> GoodCodes(l)]
Made == (1 .. batches) \X (1 .. BACKUP_CODE_COUNT)

\* The numbers of the batches stay in their bound.
FactorInv == MfaInv /\ batches <= MaxBatches

LEMMA FactorOn ==
  ASSUME NEW l \in Logins, OthersOn(l)
  PROVE  /\ ~Enabled(l)' => On' = On \ {l}
         /\ (Enabled(l) => Enabled(l)') => On' \in {On, On \cup {l}}
         /\ (Enabled(l)' <=> Enabled(l)) => On' = On
BY DEF OthersOn, On

LEMMA OnIsKept == ASSUME OnKept PROVE On' = On
BY DEF OnKept, On

\* The good codes of a login are those of its rows that are not used.
LEMMA GoodIs == \A l \in Logins : \A code :
  code \in GoodCodes(l) <=> \E r \in codes : r.login = l /\ r.code = code /\ ~r.used
BY DEF GoodCodes, CodesOf

\* The good codes of the logins whose rows are kept.
LEMMA GoodKept == ASSUME NEW l \in Logins, CodesOf(l)' = CodesOf(l)
                  PROVE  GoodCodes(l)' = GoodCodes(l)
BY DEF GoodCodes

LEMMA GoodChange ==
  ASSUME NEW l \in Logins, \A m \in Logins \ {l} : CodesOf(m)' = CodesOf(m)
  PROVE  Good' = [Good EXCEPT ![l] = GoodCodes(l)']
<1>1. \A m \in Logins \ {l} : GoodCodes(m)' = GoodCodes(m)
  BY GoodKept
<1>. QED  BY <1>1 DEF Good

\* ReplaceCodes makes a batch that there has not been, all of it good.
LEMMA FactorIssues ==
  ASSUME FactorInv, NEW l \in Logins, Replaces(l)
  PROVE  Factor!FactorNext /\ batches' <= MaxBatches
<1>. DEFINE batch == {batches + 1} \X (1 .. BACKUP_CODE_COUNT)
<1>0. MfaTypeOK /\ CodesInv /\ batches \in Nat
  BY DEF FactorInv, MfaInv, MfaTypeOK
<1>1. /\ batches' = batches + 1 /\ accepts' = accepts /\ batches < MaxBatches
      /\ codes' = (codes \ CodesOf(l)) \cup NewBatch(l)
  BY <1>0, ReplaceType DEF Replaces, ReplaceCodes
<1>2. Good' = [Good EXCEPT ![l] = GoodCodes(l)']
  BY <1>0, ReplaceKeepsCodes, GoodChange
<1>3. \A r : r \in CodesOf(l)' <=> r \in NewBatch(l)
  <2>1. \A r \in NewBatch(l) : r.login = l
    BY DEF NewBatch
  <2>. QED  BY <1>1, <2>1 DEF CodesOf
<1>4. GoodCodes(l)' = batch
  <2>. HIDE DEF batch
  <2>1. NewBatch(l) = {[login |-> l, code |-> code, used |-> FALSE] : code \in batch}
    BY DEF NewBatch, batch
  <2>2. GoodCodes(l)' = {r.code : r \in {q \in NewBatch(l) : ~q.used}}
    BY <1>3 DEF GoodCodes
  <2>3. ASSUME NEW code \in batch
        PROVE  \E r \in NewBatch(l) : r.code = code /\ ~r.used
    <3>1. [login |-> l, code |-> code, used |-> FALSE] \in NewBatch(l)
      BY <2>1
    <3>. QED  BY <3>1
  <2>4. \A r \in NewBatch(l) : r.code \in batch
    BY <2>1
  <2>. QED  BY <2>2, <2>3, <2>4
<1>5. Made' = Made \cup batch /\ batch \in SUBSET (AllCodes \ Made) /\ batch # {}
  <2>1. 1 .. batches + 1 = (1 .. batches) \cup {batches + 1}
    BY <1>0
  <2>2. batches + 1 \in 1 .. MaxBatches /\ batches + 1 \notin 1 .. batches
    BY <1>0, <1>1, MfaAssumption
  <2>3. <<batches + 1, 1>> \in batch
    BY MfaAssumption
  <2>4. Made' = (1 .. batches + 1) \X (1 .. BACKUP_CODE_COUNT)
    BY <1>1 DEF Made
  <2>. QED  BY <2>1, <2>2, <2>3, <2>4 DEF Made, AllCodes
<1>. HIDE DEF batch
<1>6. On' \in {On, On \cup {l}}
  BY FactorOn DEF Replaces
<1>7. Factor!Issue(l, batch)
  BY <1>1, <1>2, <1>4, <1>5, <1>6 DEF Factor!Issue, On, Good, Made
<1>8. batches' <= MaxBatches
  BY <1>0, <1>1, MfaAssumption
<1>. QED  BY <1>5, <1>7, <1>8 DEF Factor!FactorNext, Made

\* The transactions that drop a login's codes switch its MFA off.
LEMMA FactorWithdraws ==
  ASSUME FactorInv, NEW l \in Logins, Drops(l)
  PROVE  Factor!FactorNext /\ batches' <= MaxBatches
<1>1. CodesOf(l)' = {} /\ \A m \in Logins \ {l} : CodesOf(m)' = CodesOf(m)
  BY DropKeepsCodes DEF FactorInv, MfaInv
<1>2. Good' = [Good EXCEPT ![l] = {}]
  <2>1. GoodCodes(l)' = {}
    BY <1>1 DEF GoodCodes
  <2>. QED  BY <1>1, <2>1, GoodChange
<1>3. On' = On \ {l}
  BY FactorOn DEF Drops, SwitchesOff
<1>4. batches' = batches /\ accepts' = accepts
  BY DEF Drops
<1>5. Factor!Withdraw(l)
  BY <1>2, <1>3, <1>4 DEF Factor!Withdraw, On, Good
<1>. QED  BY <1>4, <1>5 DEF Factor!FactorNext, FactorInv

\* The UPDATE that uses a code up takes one good code away.
LEMMA FactorSpends ==
  ASSUME FactorInv, NEW l \in Logins, Uses(l)
  PROVE  Factor!FactorNext /\ batches' <= MaxBatches
<1>0. MfaTypeOK /\ CodesInv
  BY DEF FactorInv, MfaInv
<1>1. PICK code \in Code : UseBackupCode(l, code)
  BY DEF Uses
<1>2. PICK r \in codes : Usable(l, code) = {r} /\ r.login = l /\ r.code = code /\ ~r.used
  BY <1>0, <1>1, UsableIsOne
<1>. DEFINE new == [login |-> l, code |-> code, used |-> TRUE]
<1>3. codes' = (codes \ {r}) \cup {new}
  BY <1>1, <1>2 DEF UseBackupCode
<1>4. new.login = l /\ new.code = code /\ new.used
  OBVIOUS
<1>. HIDE DEF new
<1>5. UNCHANGED <<users, batches>> /\ accepts' = accepts + 1
  BY <1>1 DEF UseBackupCode, minted
<1>6. \A m \in Logins \ {l} : CodesOf(m)' = CodesOf(m)
  BY <1>2, <1>3, <1>4 DEF CodesOf
<1>7. GoodCodes(l)' = GoodCodes(l) \ {code}
  <2>1. \A c : c \in GoodCodes(l)' <=> \E q \in codes' : q.login = l /\ q.code = c /\ ~q.used
    BY DEF GoodCodes, CodesOf
  <2>2. \A q \in codes : q.code = code => q = r
    BY <1>0, <1>2 DEF CodesInv, CodesAreOld
  <2>3. \A c : c \in GoodCodes(l)' <=> c \in GoodCodes(l) /\ c # code
    BY <1>2, <1>3, <1>4, <2>1, <2>2, GoodIs
  <2>. QED  BY <2>3
<1>8. Good' = [Good EXCEPT ![l] = GoodCodes(l) \ {code}]
  BY <1>6, <1>7, GoodChange
<1>9. code \in GoodCodes(l)
  BY <1>2, GoodIs
<1>10. On' = On
  BY <1>5 DEF On, Enabled, Has
<1>11. code \in AllCodes
  <2>1. code[1] <= batches /\ code \in Code
    BY <1>0, <1>2 DEF CodesInv, CodesAreOld
  <2>2. batches \in Nat /\ batches <= MaxBatches /\ MaxBatches \in Nat
    BY <1>0, MfaAssumption DEF FactorInv, MfaTypeOK
  <2>. QED  BY <2>1, <2>2 DEF Code, AllCodes
<1>12. Factor!Spend(l, code)
  BY <1>5, <1>8, <1>9, <1>10 DEF Factor!Spend, On, Good
<1>. QED  BY <1>5, <1>11, <1>12 DEF Factor!FactorNext, FactorInv

\* Any other step switches one login's MFA off or changes nothing of this.
LEMMA FactorKeeps ==
  ASSUME FactorInv, Keeps
  PROVE  [Factor!FactorNext]_<<On, Good, Made, accepts>> /\ batches' <= MaxBatches
<1>1. Good' = Good /\ UNCHANGED <<batches, accepts>> /\ Made' = Made
  BY DEF Keeps, Good, GoodCodes, CodesOf, Made
<1>2. CASE OnKept
  BY <1>1, <1>2, OnIsKept DEF FactorInv
<1>3. ASSUME NEW l \in Logins, SwitchesOff(l) PROVE Factor!FactorNext
  <2>1. On' = On \ {l}
    BY <1>3, FactorOn DEF SwitchesOff
  <2>2. Factor!SwitchOff(l)
    BY <1>1, <2>1 DEF Factor!SwitchOff, On, Good
  <2>. QED  BY <2>2 DEF Factor!FactorNext
<1>. QED  BY <1>1, <1>2, <1>3 DEF Keeps, FactorInv

LEMMA FactorStep ==
  FactorInv /\ [Next]_vars => [Factor!FactorNext]_<<On, Good, Made, accepts>> /\ FactorInv'
<1>. SUFFICES ASSUME FactorInv, [Next]_vars
              PROVE  [Factor!FactorNext]_<<On, Good, Made, accepts>> /\ FactorInv'
  OBVIOUS
<1>1. MfaInv'
  BY MfaNext DEF FactorInv
<1>2. Keeps \/ \E l \in Logins : Replaces(l) \/ Drops(l) \/ Uses(l)
  BY CodeMoves DEF FactorInv, MfaInv
<1>. QED  BY <1>1, <1>2, FactorKeeps, FactorIssues, FactorWithdraws, FactorSpends DEF FactorInv

\* The calls on users and user_backup_codes, in any order and number, keep
\* SecondFactor's promise.
THEOREM MfaImplementsSecondFactor == Spec => MfaKeepsSecondFactor
<1>1. Init => FactorInv /\ Factor!FactorInit
  <2>. SUFFICES ASSUME Init PROVE FactorInv /\ Factor!FactorInit
    OBVIOUS
  <2>1. FactorInv
    BY MfaInit, MfaAssumption DEF Init, FactorInv
  <2>2. \A l \in Logins : ~Enabled(l) /\ GoodCodes(l) = {}
    BY DEF Init, Enabled, Has, NewUser, GoodCodes, CodesOf
  <2>3. (1 .. batches) \X (1 .. BACKUP_CODE_COUNT) = {} /\ accepts = 0
    BY DEF Init
  <2>. QED  BY <2>1, <2>2, <2>3 DEF Factor!FactorInit
<1>2. FactorInv /\ [Next]_vars => FactorInv' /\ [Factor!FactorNext]_Factor!factorVars
  BY FactorStep DEF Factor!factorVars, On, Good, Made
<1>. QED  BY <1>1, <1>2, PTL DEF Spec, MfaKeepsSecondFactor, Factor!FactorSpec
=============================================================================
