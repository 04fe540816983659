---------------------------- MODULE MfaTxProofs ----------------------------
(***************************************************************************)
(* Proofs about MfaTx for every value of its constants: what a transaction *)
(* found under its locks is current, so the transactions, statement by     *)
(* statement, implement the single steps of AdminMfa.                      *)
(***************************************************************************)
EXTENDS MfaTx, AdminMfaProofs

\* How far a transaction is tells which locks it has.
ShapeOK(t) ==
  /\ t.at \in {"parent", "insert"} => t.kind \in Minting
  /\ t.kind = "regenerate" =>
       /\ t.at \in {"codes", "parent"} => t.onUser = "none"
       /\ t.at \in {"insert", "user"} => t.onUser = "S"
       /\ t.at = "commit" => t.onUser = "X"
       /\ t.onCodes = "none" <=> t.at = "codes"
       /\ t.at = "user" => t.onCodes = "X"
  /\ t.kind # "regenerate" =>
       /\ t.onUser = "none" <=> t.at = "user"
       /\ t.onUser # "S"
       /\ t.onCodes = "none" <=> t.at \in {"user", "codes"}
       /\ t.onUser = "gap" /\ t.onCodes = "X" => t.old # {}
  /\ t.kind = "confirm" /\ t.at \in {"insert", "commit"} => t.onUser = "X"
  /\ t.kind \in Minting /\ t.at = "commit" => t.onCodes = "X"

\* What the locks of a transaction say of the tables.
FoundOK(c) ==
  Open(c) =>
    /\ tx[c].onUser \in {"S", "X"} => Has(tx[c].login)
    /\ tx[c].onUser = "gap" => ~Has(tx[c].login)
    /\ tx[c].onUser \in {"gap", "X"} => tx[c].row = users[tx[c].login]
    /\ tx[c].onCodes # "none" => tx[c].old = CodesOf(tx[c].login)
    /\ tx[c].onCodes = "gap" => CodesOf(tx[c].login) = {}

\* Conflicting locks are never held together.
Compatible(c, d) ==
  Open(c) /\ Open(d) /\ c # d /\ tx[c].login = tx[d].login =>
    /\ tx[c].onUser = "X" => tx[d].onUser \notin {"S", "X"}
    /\ tx[c].onCodes = "X" => tx[d].onCodes = "none"

LocksOK ==
  /\ \A c \in Callers : Open(c) => ShapeOK(tx[c])
  /\ \A c \in Callers : FoundOK(c)
  /\ \A c, d \in Callers : Compatible(c, d)

BatchesOK == batches + Cardinality(OpenMinting) <= MaxBatches

\* The inductive invariant.
TxInv == MfaTypeOK /\ TxTypeOK /\ LocksOK /\ BatchesOK

\* A step leaves alone what a transaction has locked.
Undisturbed(d) ==
  Open(d) => /\ tx[d].onUser # "none" => users'[tx[d].login] = users[tx[d].login]
             /\ tx[d].onCodes # "none" => {r \in codes' : r.login = tx[d].login} = CodesOf(tx[d].login)

-----------------------------------------------------------------------------
(***************************************************************************)
(* Commits are steps of AdminMfa.                                          *)
(***************************************************************************)

LEMMA OpenFinite == IsFiniteSet(OpenMinting) /\ Cardinality(OpenMinting) \in Nat
<1>1. OpenMinting \subseteq Callers
  BY DEF OpenMinting
<1>. QED  BY <1>1, TxAssumption, FS_Subset, FS_CardinalityType

\* A transaction that will store a batch has room for it.
LEMMA RoomForBatch ==
  ASSUME TxInv, NEW c \in Callers, Open(c), tx[c].kind \in Minting
  PROVE  batches < MaxBatches
<1>1. c \in OpenMinting
  BY DEF OpenMinting
<1>2. Cardinality(OpenMinting) # 0
  BY <1>1, OpenFinite, FS_EmptySet
<1>. QED  BY <1>2, OpenFinite, MfaAssumption DEF TxInv, BatchesOK, MfaTypeOK

\* A transaction about to commit has found the row and the codes as they are.
LEMMA CommitFound ==
  ASSUME TxInv, NEW c \in Callers, Open(c), tx[c].at = "commit"
  PROVE  /\ tx[c] \in Tx /\ tx[c].login \in Logins
         /\ tx[c].row = users[tx[c].login]
         /\ tx[c].old = CodesOf(tx[c].login)
         /\ tx[c].kind \in Minting => Has(tx[c].login) /\ tx[c].onUser = "X"
<1>1. tx[c] \in Tx
  BY DEF TxInv, TxTypeOK, Open
<1>2. ShapeOK(tx[c]) /\ FoundOK(c)
  BY DEF TxInv, LocksOK
<1>. QED  BY <1>1, <1>2 DEF ShapeOK, FoundOK, Tx, Minting, Kinds

LEMMA CommitConfirm ==
  ASSUME TxInv, NEW c \in Callers, Commit(c), tx[c].kind = "confirm"
  PROVE  ConfirmCommit(c)
<1>. DEFINE l == tx[c].login
            new == [users[l] EXCEPT !.enabled = TRUE, !.expires = NULL, !.generated = TRUE]
<1>1. /\ Open(c) /\ tx[c].at = "commit" /\ tx[c].kind \in Minting
  BY DEF Commit, Minting
<1>2. /\ l \in Logins /\ tx[c].row = users[l] /\ tx[c].old = CodesOf(l) /\ Has(l)
  BY <1>1, CommitFound
<1>3. call[c] = [at |-> "confirm", login |-> l]
  BY <1>1 DEF TxInv, TxTypeOK
<1>4. call[c] # NULL
  BY <1>3, <1>2, MfaAssumption DEF Step
<1>5. Written(tx[c]) = new
  BY <1>2 DEF Written, Has
<1>6. users' = [users EXCEPT ![l] = new]
  BY <1>5 DEF Commit
<1>7. users' = [users EXCEPT ![l].enabled = TRUE, ![l].expires = NULL, ![l].generated = TRUE]
  BY <1>6
<1>8. ReplaceCodes(l)
  BY <1>1, <1>2, RoomForBatch DEF Commit, ReplaceCodes
<1>9. logged' = [logged EXCEPT ![l] = "mfa_enable"]
  BY DEF Commit, Logs
<1>10. Return(c) /\ UNCHANGED <<required, secrets, history, now>>
  BY DEF Commit
<1>. HIDE DEF new
<1>. QED  BY <1>2, <1>3, <1>4, <1>7, <1>8, <1>9, <1>10 DEF ConfirmCommit, At

LEMMA CommitRegenerate ==
  ASSUME TxInv, NEW c \in Callers, Commit(c), tx[c].kind = "regenerate"
  PROVE  RegenerateCommit(c)
<1>. DEFINE l == tx[c].login
            new == [users[l] EXCEPT !.generated = TRUE]
<1>1. /\ Open(c) /\ tx[c].at = "commit" /\ tx[c].kind \in Minting
  BY DEF Commit, Minting
<1>2. /\ l \in Logins /\ tx[c].row = users[l] /\ tx[c].old = CodesOf(l) /\ Has(l)
  BY <1>1, CommitFound
<1>3. call[c] = [at |-> "regenerate", login |-> l]
  BY <1>1 DEF TxInv, TxTypeOK
<1>4. call[c] # NULL
  BY <1>3, <1>2, MfaAssumption DEF Step
<1>5. Written(tx[c]) = new
  BY <1>2 DEF Written, Has
<1>6. users' = [users EXCEPT ![l] = new]
  BY <1>5 DEF Commit
<1>7. users' = [users EXCEPT ![l].generated = TRUE]
  BY <1>6
<1>8. ReplaceCodes(l)
  BY <1>1, <1>2, RoomForBatch DEF Commit, ReplaceCodes
<1>9. logged' = logged
  BY DEF Commit, Logs
<1>10. Return(c) /\ UNCHANGED <<required, secrets, history, now>>
  BY DEF Commit
<1>. HIDE DEF new
<1>. QED  BY <1>2, <1>3, <1>4, <1>7, <1>8, <1>9, <1>10 DEF RegenerateCommit, At

LEMMA CommitClear ==
  ASSUME TxInv, NEW c \in Callers, Commit(c), tx[c].kind \in {"disable", "clear"}
  PROVE  /\ tx[c].kind = "disable" => DisableCommit(c)
         /\ tx[c].kind = "clear" => ClearForUser(tx[c].login)
<1>. DEFINE l == tx[c].login
<1>1. /\ Open(c) /\ tx[c].at = "commit" /\ tx[c].kind \notin Minting
  BY DEF Commit, Minting
<1>2. /\ l \in Logins /\ tx[c].row = users[l] /\ tx[c].old = CodesOf(l)
  BY <1>1, CommitFound
<1>3. Written(tx[c]) = IF Has(l) THEN NewUser(users[l].role) ELSE NULL
  <2>1. CASE tx[c].row = NULL
    BY <1>2, <2>1 DEF Written, Has
  <2>2. CASE tx[c].row # NULL /\ tx[c].kind = "disable"
    BY <1>2, <2>2 DEF Written, Has
  <2>3. CASE tx[c].row # NULL /\ tx[c].kind = "clear"
    BY <1>2, <2>3 DEF Written, Has
  <2>. QED  BY <2>1, <2>2, <2>3
<1>4. users' = IF Has(l) THEN [users EXCEPT ![l] = NewUser(users[l].role)] ELSE users
  <2>1. users' = [users EXCEPT ![l] = Written(tx[c])]
    BY DEF Commit
  <2>2. CASE Has(l)
    BY <2>1, <2>2, <1>3
  <2>3. CASE ~Has(l)
    BY <2>1, <2>3, <1>3 DEF Has, TxInv, MfaTypeOK
  <2>. QED  BY <2>2, <2>3
<1>5. codes' = codes \ CodesOf(l)
  BY <1>1, <1>2 DEF Commit
<1>6. UNCHANGED <<required, secrets, batches, history, now>> /\ Return(c)
  BY <1>1 DEF Commit
<1>7. CASE tx[c].kind = "disable"
  <2>1. logged' = [logged EXCEPT ![l] = "mfa_disable"]
    BY <1>7 DEF Commit, Logs
  <2>2. call[c] = [at |-> "clear", login |-> l]
    BY <1>1, <1>7 DEF TxInv, TxTypeOK
  <2>3. call[c] # NULL
    BY <2>2, <1>2, MfaAssumption DEF Step
  <2>. QED  BY <1>4, <1>5, <1>6, <1>7, <2>1, <2>2, <2>3
            DEF DisableCommit, ClearState, At, minted
<1>8. CASE tx[c].kind = "clear"
  <2>1. \E action \in {"mfa_disable", "mfa_admin_clear"} : logged' = [logged EXCEPT ![l] = action]
    BY <1>8 DEF Commit, Logs
  <2>2. call' = call
    BY <1>1, <1>6, <1>8 DEF TxInv, TxTypeOK, MfaTypeOK, Return
  <2>. QED  BY <1>4, <1>5, <1>6, <1>8, <2>1, <2>2 DEF ClearForUser, ClearState, minted
<1>. QED  BY <1>7, <1>8

LEMMA CommitRemove ==
  ASSUME TxInv, NEW c \in Callers, Commit(c), tx[c].kind = "remove"
  PROVE  RemoveUser(tx[c].login)
<1>1. Open(c) /\ tx[c].at = "commit" /\ tx[c].kind \notin Minting
  BY DEF Commit, Minting
<1>2. tx[c].old = CodesOf(tx[c].login)
  BY <1>1, CommitFound
<1>3. Written(tx[c]) = NULL
  BY DEF Written
<1>4. logged' = logged
  BY DEF Commit, Logs
<1>5. call' = call
  BY <1>1 DEF TxInv, TxTypeOK, MfaTypeOK, Commit, Return, Minting
<1>. QED  BY <1>1, <1>2, <1>3, <1>4, <1>5 DEF Commit, RemoveUser, minted

\* A step of MfaTx is a step of AdminMfa or changes nothing of it.
LEMMA TxStepIsStep == TxInv /\ [TxNext]_txVars => [Next]_vars
<1>. SUFFICES ASSUME TxInv, [TxNext]_txVars PROVE [Next]_vars
  OBVIOUS
<1>1. ASSUME NEW c \in Callers, Rollback(c) PROVE [Next]_vars
  <2>1. CASE call[c] = NULL
    BY <1>1, <2>1 DEF Rollback, Return, TxInv, MfaTypeOK, vars
  <2>2. CASE call[c] # NULL
    BY <1>1, <2>2 DEF Rollback, Abort, Next, CallStep
  <2>. QED  BY <2>1, <2>2
<1>2. ASSUME NEW c \in Callers, Commit(c) PROVE Next
  <2>1. tx[c] \in Tx /\ tx[c].login \in Logins
    BY <1>2, CommitFound DEF Commit
  <2>2. CASE tx[c].kind = "confirm"
    BY <1>2, <2>2, CommitConfirm DEF Next, CallStep
  <2>3. CASE tx[c].kind = "regenerate"
    BY <1>2, <2>3, CommitRegenerate DEF Next, CallStep
  <2>4. CASE tx[c].kind = "disable"
    BY <1>2, <2>4, CommitClear DEF Next, CallStep
  <2>5. CASE tx[c].kind = "clear"
    BY <1>2, <2>1, <2>5, CommitClear DEF Next, UserStep
  <2>6. CASE tx[c].kind = "remove"
    BY <1>2, <2>1, <2>6, CommitRemove DEF Next, UserStep
  <2>. QED  BY <2>1, <2>2, <2>3, <2>4, <2>5, <2>6 DEF Tx, Kinds
<1>3. ASSUME NEW c \in Callers, SingleCall(c) PROVE Next
  BY <1>3 DEF SingleCall, Next, CallStep
<1>4. ASSUME NEW l \in Logins, SingleUser(l) PROVE Next
  BY <1>4 DEF SingleUser, Next, UserStep
<1>5. CASE Single
  BY <1>5, <1>3, <1>4 DEF Single, Next
<1>6. CASE Victim
  BY <1>6, <1>1 DEF Victim
<1>7. ASSUME NEW c \in Callers, TxStep(c) PROVE [Next]_vars
  BY <1>7, <1>1, <1>2 DEF TxStep, BeginTx, Statement
<1>8. CASE UNCHANGED txVars
  BY <1>8 DEF txVars
<1>. QED  BY <1>5, <1>6, <1>7, <1>8 DEF TxNext

-----------------------------------------------------------------------------
(***************************************************************************)
(* The invariant: transactions.                                            *)
(***************************************************************************)

\* What a step leaves alone is still as the transaction found it.
LEMMA KeepsFound ==
  ASSUME NEW d \in Callers, FoundOK(d), Undisturbed(d), tx'[d] = tx[d]
  PROVE  FoundOK(d)'
BY DEF FoundOK, Undisturbed, Open, Has, CodesOf

\* When c alone changes its locks, what is left to show is about c.
LEMMA OnlyOne ==
  ASSUME LocksOK, NEW c \in Callers, NEW t,
         tx \in [Callers -> Tx \cup {NULL}], tx' = [tx EXCEPT ![c] = t],
         \A d \in Callers \ {c} : Undisturbed(d),
         Open(c)' => ShapeOK(tx'[c]),
         FoundOK(c)',
         \A d \in Callers : Compatible(c, d)' /\ Compatible(d, c)'
  PROVE  LocksOK'
<1>1. \A d \in Callers : d # c => tx'[d] = tx[d]
  OBVIOUS
<1>2. ASSUME NEW d \in Callers PROVE Open(d)' => ShapeOK(tx'[d])
  BY <1>1 DEF LocksOK, Open
<1>3. ASSUME NEW d \in Callers PROVE FoundOK(d)'
  BY <1>1, KeepsFound DEF LocksOK
<1>4. ASSUME NEW d \in Callers, NEW e \in Callers PROVE Compatible(d, e)'
  BY <1>1 DEF LocksOK, Compatible, Open
<1>. QED  BY <1>2, <1>3, <1>4 DEF LocksOK

\* A transaction that has ended leaves nothing to show about itself.
LEMMA EndKeepsLocks ==
  ASSUME TxInv, NEW c \in Callers, CloseTx(c), \A d \in Callers \ {c} : Undisturbed(d)
  PROVE  LocksOK'
<1>1. tx' = [tx EXCEPT ![c] = NULL] /\ tx \in [Callers -> Tx \cup {NULL}]
  BY DEF CloseTx, TxInv, TxTypeOK
<1>2. ~Open(c)'
  BY <1>1 DEF Open
<1>3. FoundOK(c)' /\ \A d \in Callers : Compatible(c, d)' /\ Compatible(d, c)'
  BY <1>2 DEF FoundOK, Compatible
<1>4. LocksOK
  BY DEF TxInv
<1>. QED  BY <1>1, <1>2, <1>3, <1>4, OnlyOne

LEMMA BeginKeepsLocks ==
  ASSUME TxInv, NEW c \in Callers, NEW kind \in Kinds, NEW l \in Logins, BeginTx(c, kind, l)
  PROVE  LocksOK' /\ TxTypeOK'
<1>. DEFINE t == [kind |-> kind, login |-> l, at |-> First(kind), onUser |-> "none",
                  onCodes |-> "none", row |-> NULL, old |-> {}]
<1>1. tx' = [tx EXCEPT ![c] = t] /\ UNCHANGED vars /\ tx \in [Callers -> Tx \cup {NULL}]
  BY DEF BeginTx, TxInv, TxTypeOK
<1>2. t \in Tx /\ t # NULL
  BY TxAssumption DEF Tx, First
<1>3. tx'[c] = t
  BY <1>1
<1>4. ShapeOK(t)
  BY DEF ShapeOK, First, Kinds, Minting
<1>5. \A d \in Callers : Undisturbed(d)
  BY <1>1 DEF Undisturbed, vars, tables, CodesOf
<1>6. FoundOK(c)'
  BY <1>3 DEF FoundOK
<1>7. \A d \in Callers : Compatible(c, d)' /\ Compatible(d, c)'
  BY <1>3 DEF Compatible
<1>8. LocksOK
  BY DEF TxInv
<1>9. LocksOK'
  <2>. HIDE DEF t
  <2>. QED  BY <1>1, <1>3, <1>4, <1>5, <1>6, <1>7, <1>8, OnlyOne
<1>10. TxTypeOK'
  <2>1. tx' \in [Callers -> Tx \cup {NULL}]
    <3>. HIDE DEF t
    <3>. QED  BY <1>1, <1>2
  <2>2. ASSUME NEW d \in Callers, Open(d)', d # c
        PROVE  Open(d) /\ tx'[d] = tx[d] /\ call'[d] = call[d]
    BY <1>1, <2>2 DEF Open, vars
  <2>3. call'[c] = CASE kind \in Minting  -> [at |-> kind, login |-> l]
                     [] kind = "disable" -> [at |-> "clear", login |-> l]
                     [] OTHER            -> NULL
    <3>1. call' = call
      BY <1>1 DEF vars
    <3>2. CASE kind \in Minting
      BY <3>1, <3>2 DEF BeginTx, Minting
    <3>3. CASE kind = "disable"
      BY <3>1, <3>3 DEF BeginTx, Minting
    <3>4. CASE kind \in {"clear", "remove"}
      BY <3>1, <3>4 DEF BeginTx, Minting
    <3>. QED  BY <3>2, <3>3, <3>4 DEF Kinds, Minting
  <2>4. tx'[c].kind = kind /\ tx'[c].login = l
    BY <1>3
  <2>. QED  BY <2>1, <2>2, <2>3, <2>4 DEF TxTypeOK, TxInv
<1>. QED  BY <1>9, <1>10

\* A statement takes a lock that nobody's conflicts with, and moves on.
LEMMA StatementKeepsLocks ==
  ASSUME TxInv, NEW c \in Callers, Statement(c)
  PROVE  LocksOK' /\ TxTypeOK' /\ OpenMinting' = OpenMinting
<1>. DEFINE t == tx[c]
            l == tx[c].login
<1>1. t \in Tx /\ l \in Logins /\ ShapeOK(t) /\ FoundOK(c) /\ Open(c)
  BY DEF Statement, TxInv, TxTypeOK, LocksOK, Open, Tx
<1>2. users \in [Logins -> User \cup {NULL}] /\ CodesOf(l) \subseteq CodeRow
  BY DEF TxInv, MfaTypeOK, CodesOf
<1>3. UNCHANGED <<vars, users, codes, call>>
  BY DEF Statement, vars, tables
<1>4. \A d \in Callers : Undisturbed(d)
  BY <1>3 DEF Undisturbed, CodesOf
<1>5. ASSUME NEW d \in Callers, d # c, Open(d), tx[d].login = l, Blockers(c) = {}
      PROVE  /\ t.at = "user" /\ Has(l) => tx[d].onUser \notin {"S", "X"}
             /\ t.at = "parent" => tx[d].onUser # "X"
             /\ t.at = "codes" => tx[d].onCodes # "X"
             /\ t.at = "insert" => tx[d].onCodes \notin {"gap", "X"}
    BY <1>5 DEF Blockers, Others
<1>6. \A d \in Callers : /\ Open(d) => tx[d] \in Tx
                         /\ FoundOK(d) /\ Compatible(c, d) /\ Compatible(d, c)
  BY DEF TxInv, TxTypeOK, LocksOK, Open
\* What each of the four statements makes of the record.
<1>7. ASSUME NEW u \in Tx, tx' = [tx EXCEPT ![c] = u], u.kind = t.kind, u.login = l,
             ShapeOK(u), FoundOK(c)', \A d \in Callers : Compatible(c, d)' /\ Compatible(d, c)'
      PROVE  LocksOK' /\ TxTypeOK' /\ OpenMinting' = OpenMinting
  <2>1. LocksOK /\ tx \in [Callers -> Tx \cup {NULL}]
    BY DEF TxInv, TxTypeOK
  <2>2. tx'[c] = u
    BY <1>7, <2>1
  <2>3. LocksOK'
    BY <1>4, <1>7, <2>1, <2>2, OnlyOne
  <2>4. tx' \in [Callers -> Tx \cup {NULL}]
    BY <1>7, <2>1
  <2>5. \A d \in Callers : Open(d)' => /\ Open(d) /\ call'[d] = call[d]
                                       /\ tx'[d].kind = tx[d].kind
                                       /\ tx'[d].login = tx[d].login
    BY <1>1, <1>3, <1>7, <2>1, <2>2 DEF Open
  <2>6. TxTypeOK'
    BY <2>4, <2>5 DEF TxTypeOK, TxInv
  <2>7. \A d \in Callers : Open(d) => Open(d)'
    BY <1>7, <2>1, <2>2, TxAssumption DEF Open
  <2>8. OpenMinting' = OpenMinting
    BY <2>5, <2>7 DEF OpenMinting
  <2>. QED  BY <2>3, <2>6, <2>8
<1>8. CASE UserStatement(c)
  <2>. DEFINE next == IF t.kind = "regenerate" THEN "commit" ELSE "codes"
              u == [t EXCEPT !.at = next, !.onUser = IF Has(l) THEN "X" ELSE "gap",
                             !.row = users[l]]
  <2>1. t.at = "user" /\ Blockers(c) = {}
    BY <1>8 DEF UserStatement
  <2>2. After(t) = next
    BY <2>1 DEF After
  <2>3. tx' = [tx EXCEPT ![c] = u]
    BY <1>8, <2>2 DEF UserStatement
  <2>4. u \in Tx
    BY <1>1, <1>2 DEF Tx
  <2>5. /\ u.kind = t.kind /\ u.login = l /\ u.at = next /\ u.row = users[l]
        /\ u.onUser = IF Has(l) THEN "X" ELSE "gap"
        /\ u.onCodes = t.onCodes /\ u.old = t.old
    BY <1>1 DEF Tx
  <2>. HIDE DEF u
  <2>6. tx'[c] = u /\ \A d \in Callers : d # c => tx'[d] = tx[d]
    BY <2>3 DEF TxInv, TxTypeOK
  <2>7. ShapeOK(u)
    <3>1. t.onUser = "S" => Has(l)
      BY <1>1 DEF FoundOK
    <3>. QED  BY <1>1, <2>1, <2>5, <3>1 DEF ShapeOK, Tx, Kinds, Minting
  <2>8. FoundOK(c)'
    BY <1>1, <1>3, <2>5, <2>6 DEF FoundOK, CodesOf, Has
  <2>9. \A d \in Callers : Compatible(c, d)' /\ Compatible(d, c)'
    BY <1>1, <1>5, <1>6, <2>1, <2>5, <2>6 DEF Compatible, FoundOK, Open, Tx
  <2>. QED  BY <1>7, <2>3, <2>4, <2>5, <2>7, <2>8, <2>9
<1>9. CASE CodesStatement(c)
  <2>. DEFINE next == IF t.kind \in Minting THEN "parent" ELSE "commit"
              u == [t EXCEPT !.at = next, !.onCodes = IF CodesOf(l) = {} THEN "gap" ELSE "X",
                             !.old = CodesOf(l)]
  <2>1. t.at = "codes" /\ Blockers(c) = {}
    BY <1>9 DEF CodesStatement
  <2>2. After(t) = next
    BY <2>1 DEF After
  <2>3. tx' = [tx EXCEPT ![c] = u]
    BY <1>9, <2>2 DEF CodesStatement
  <2>4. u \in Tx
    BY <1>1, <1>2 DEF Tx
  <2>5. /\ u.kind = t.kind /\ u.login = l /\ u.at = next /\ u.old = CodesOf(l)
        /\ u.onCodes = IF CodesOf(l) = {} THEN "gap" ELSE "X"
        /\ u.onUser = t.onUser /\ u.row = t.row
    BY <1>1 DEF Tx
  <2>. HIDE DEF u
  <2>6. tx'[c] = u /\ \A d \in Callers : d # c => tx'[d] = tx[d]
    BY <2>3 DEF TxInv, TxTypeOK
  <2>7. ShapeOK(u)
    BY <1>1, <2>1, <2>5 DEF ShapeOK, Tx, Kinds, Minting
  <2>8. FoundOK(c)'
    BY <1>1, <1>3, <2>5, <2>6 DEF FoundOK, CodesOf, Has
  <2>9. \A d \in Callers : Compatible(c, d)' /\ Compatible(d, c)'
    BY <1>1, <1>5, <1>6, <2>1, <2>5, <2>6 DEF Compatible, FoundOK, Open, Tx
  <2>. QED  BY <1>7, <2>3, <2>4, <2>5, <2>7, <2>8, <2>9
<1>10. CASE ParentCheck(c)
  <2>. DEFINE u == [t EXCEPT !.at = "insert",
                             !.onUser = IF t.onUser = "X" THEN "X" ELSE "S"]
  <2>1. t.at = "parent" /\ Blockers(c) = {} /\ Has(l)
    BY <1>10 DEF ParentCheck
  <2>2. After(t) = "insert"
    BY <2>1 DEF After
  <2>3. tx' = [tx EXCEPT ![c] = u]
    BY <1>10, <2>2 DEF ParentCheck
  <2>4. u \in Tx
    BY <1>1 DEF Tx
  <2>5. /\ u.kind = t.kind /\ u.login = l /\ u.at = "insert" /\ u.old = t.old
        /\ u.onUser = IF t.onUser = "X" THEN "X" ELSE "S"
        /\ u.onCodes = t.onCodes /\ u.row = t.row
    BY <1>1 DEF Tx
  <2>. HIDE DEF u
  <2>6. tx'[c] = u /\ \A d \in Callers : d # c => tx'[d] = tx[d]
    BY <2>3 DEF TxInv, TxTypeOK
  <2>7. t.onUser # "gap"
    BY <1>1, <2>1 DEF FoundOK
  <2>8. ShapeOK(u)
    BY <1>1, <2>1, <2>5, <2>7 DEF ShapeOK, Tx, Kinds, Minting
  <2>9. FoundOK(c)'
    BY <1>1, <1>3, <2>1, <2>5, <2>6 DEF FoundOK, CodesOf, Has
  <2>10. \A d \in Callers : Compatible(c, d)' /\ Compatible(d, c)'
    BY <1>1, <1>5, <1>6, <2>1, <2>5, <2>6 DEF Compatible, FoundOK, Open, Tx
  <2>. QED  BY <1>7, <2>3, <2>4, <2>5, <2>8, <2>9, <2>10
<1>11. CASE InsertCodes(c)
  <2>. DEFINE next == IF t.kind = "regenerate" THEN "user" ELSE "commit"
              u == [t EXCEPT !.at = next, !.onCodes = "X"]
  <2>1. t.at = "insert" /\ Blockers(c) = {}
    BY <1>11 DEF InsertCodes
  <2>2. After(t) = next
    BY <2>1 DEF After
  <2>3. tx' = [tx EXCEPT ![c] = u]
    BY <1>11, <2>2 DEF InsertCodes
  <2>4. u \in Tx
    BY <1>1 DEF Tx
  <2>5. /\ u.kind = t.kind /\ u.login = l /\ u.at = next /\ u.old = t.old
        /\ u.onUser = t.onUser /\ u.onCodes = "X" /\ u.row = t.row
    BY <1>1 DEF Tx
  <2>. HIDE DEF u
  <2>6. tx'[c] = u /\ \A d \in Callers : d # c => tx'[d] = tx[d]
    BY <2>3 DEF TxInv, TxTypeOK
  <2>7. ShapeOK(u)
    BY <1>1, <2>1, <2>5 DEF ShapeOK, Tx, Kinds, Minting
  <2>8. t.onCodes # "none"
    BY <1>1, <2>1 DEF ShapeOK
  <2>9. FoundOK(c)'
    BY <1>1, <1>3, <2>5, <2>6, <2>8 DEF FoundOK, CodesOf, Has
  <2>10. \A d \in Callers : Compatible(c, d)' /\ Compatible(d, c)'
    BY <1>1, <1>5, <1>6, <2>1, <2>5, <2>6 DEF Compatible, FoundOK, Open, Tx
  <2>. QED  BY <1>7, <2>3, <2>4, <2>5, <2>7, <2>9, <2>10
<1>. QED  BY <1>8, <1>9, <1>10, <1>11 DEF Statement

\* A commit changes only what it has locked, so it takes nothing from under the
\* locks of others.
LEMMA CommitLeavesOthers ==
  ASSUME TxInv, NEW c \in Callers, Commit(c)
  PROVE  \A d \in Callers \ {c} : Undisturbed(d)
<1>. DEFINE t == tx[c]
            l == tx[c].login
<1>1. /\ Open(c) /\ t.at = "commit" /\ t \in Tx /\ l \in Logins
      /\ t.row = users[l] /\ t.old = CodesOf(l)
  BY CommitFound DEF Commit
<1>2. ShapeOK(t) /\ FoundOK(c)
  BY <1>1 DEF TxInv, LocksOK
<1>3. users' = [users EXCEPT ![l] = Written(t)] /\ users \in [Logins -> User \cup {NULL}]
  BY DEF Commit, TxInv, MfaTypeOK
<1>4. codes' = (codes \ CodesOf(l)) \cup (IF t.kind \in Minting THEN NewBatch(l) ELSE {})
  BY <1>1 DEF Commit
<1>5. t.onUser = "X" \/ (t.onUser = "gap" /\ Written(t) = users[l])
  BY <1>1, <1>2 DEF ShapeOK, FoundOK, Has, Tx, Written
<1>6. t.onCodes = "X" \/ (t.onCodes = "gap" /\ CodesOf(l) = {} /\ t.kind \notin Minting)
  BY <1>1, <1>2 DEF ShapeOK, FoundOK, Tx, Minting
<1>7. ASSUME NEW d \in Callers, d # c, Open(d) PROVE Undisturbed(d)
  <2>1. FoundOK(d) /\ Compatible(c, d) /\ tx[d] \in Tx
    BY <1>7 DEF TxInv, LocksOK, TxTypeOK, Open
  <2>2. CASE tx[d].login # l
    <3>1. users'[tx[d].login] = users[tx[d].login]
      BY <1>3, <2>2
    <3>2. \A r \in NewBatch(l) : r.login = l
      BY DEF NewBatch
    <3>3. {r \in codes' : r.login = tx[d].login} = CodesOf(tx[d].login)
      BY <1>4, <2>2, <3>2 DEF CodesOf
    <3>. QED  BY <3>1, <3>3 DEF Undisturbed
  <2>3. CASE tx[d].login = l
    <3>1. tx[d].onUser # "none" => users'[l] = users[l]
      <4>1. CASE t.onUser = "X"
        <5>1. tx[d].onUser \notin {"S", "X"}
          BY <1>1, <1>7, <2>1, <2>3, <4>1 DEF Compatible
        <5>2. tx[d].onUser # "gap"
          BY <1>1, <1>2, <1>7, <2>1, <2>3, <4>1 DEF FoundOK
        <5>. QED  BY <2>1, <5>1, <5>2 DEF Tx
      <4>2. CASE t.onUser = "gap" /\ Written(t) = users[l]
        BY <1>1, <1>3, <4>2
      <4>. QED  BY <1>5, <4>1, <4>2
    <3>2. tx[d].onCodes # "none" => {r \in codes' : r.login = l} = CodesOf(l)
      <4>1. CASE t.onCodes = "X"
        BY <1>1, <1>7, <2>1, <2>3, <4>1 DEF Compatible
      <4>2. CASE t.onCodes = "gap" /\ CodesOf(l) = {} /\ t.kind \notin Minting
        BY <1>4, <4>2 DEF CodesOf
      <4>. QED  BY <1>6, <4>1, <4>2
    <3>. QED  BY <2>3, <3>1, <3>2 DEF Undisturbed
  <2>. QED  BY <2>2, <2>3
<1>. QED  BY <1>7 DEF Undisturbed

\* Nor does a single statement, which waits for the lock it needs.
LEMMA SingleLeavesLocked ==
  ASSUME TxInv, Single
  PROVE  \A d \in Callers : Undisturbed(d)
<1>. SUFFICES ASSUME NEW d \in Callers, Open(d) PROVE Undisturbed(d)
  BY DEF Undisturbed
<1>. DEFINE k == tx[d].login
<1>1. FoundOK(d) /\ tx[d] \in Tx /\ k \in Logins
  BY DEF TxInv, LocksOK, TxTypeOK, Open, Tx
<1>2. users \in [Logins -> User \cup {NULL}]
  BY DEF TxInv, MfaTypeOK
<1>3. CASE UNCHANGED <<users, codes>>
  BY <1>3 DEF Undisturbed, CodesOf
<1>4. ASSUME NEW l \in Logins, NEW row, users' = [users EXCEPT ![l] = row],
             codes' = codes, l = k => tx[d].onUser = "none"
      PROVE  Undisturbed(d)
  BY <1>1, <1>2, <1>4 DEF Undisturbed, CodesOf
<1>5. ASSUME NEW c \in Callers, call[c] # NULL, UserFree(call[c].login), SetupStore(c)
      PROVE  Undisturbed(d)
  <2>. DEFINE l == call[c].login
              new == [users[l] EXCEPT !.secret = secrets + 1, !.enabled = FALSE,
                                      !.expires = SetupExpiry]
  <2>1. l \in Logins
    BY <1>5 DEF TxInv, MfaTypeOK, Step
  <2>2. CASE ~Has(l)
    BY <1>3, <1>5, <2>2 DEF SetupStore
  <2>3. CASE Has(l)
    <3>1. users' = [users EXCEPT ![l] = new] /\ codes' = codes
      BY <1>5, <2>3 DEF SetupStore
    <3>2. l = k => tx[d].onUser = "none"
      BY <1>1, <1>5, <2>3 DEF UserFree, FoundOK, Tx
    <3>. HIDE DEF new
    <3>. QED  BY <1>4, <2>1, <3>1, <3>2
  <2>. QED  BY <2>2, <2>3
<1>6. ASSUME NEW l \in Logins, NEW role \in ROLES, UserFree(l), UpdateRole(l, role)
      PROVE  Undisturbed(d)
  <2>. DEFINE new == [users[l] EXCEPT !.role = role]
  <2>1. users' = [users EXCEPT ![l] = new] /\ codes' = codes
    BY <1>6 DEF UpdateRole
  <2>2. l = k => tx[d].onUser = "none"
    BY <1>1, <1>6 DEF UpdateRole, UserFree, FoundOK, Tx
  <2>. HIDE DEF new
  <2>. QED  BY <1>4, <2>1, <2>2
<1>7. ASSUME NEW l \in Logins, NEW role \in ROLES, UserGapFree(l), AddUser(l, role)
      PROVE  Undisturbed(d)
  <2>1. users' = [users EXCEPT ![l] = NewUser(role)] /\ codes' = codes
    BY <1>7 DEF AddUser
  <2>2. l = k => tx[d].onUser = "none"
    BY <1>1, <1>7 DEF AddUser, UserGapFree, FoundOK, Tx
  <2>. QED  BY <1>4, <2>1, <2>2
<1>8. ASSUME NEW l \in Logins, CodesFree(l), NEW code \in {r.code : r \in CodesOf(l)},
             UseBackupCode(l, code)
      PROVE  Undisturbed(d)
  <2>1. CodesOf(l) # {}
    BY <1>8
  <2>2. l = k => tx[d].onCodes = "none"
    BY <1>1, <1>8, <2>1 DEF CodesFree, FoundOK, Tx
  <2>3. users' = users
    BY <1>8 DEF UseBackupCode
  <2>. DEFINE used == [login |-> l, code |-> code, used |-> TRUE]
  <2>4. codes' = (codes \ Usable(l, code)) \cup {used} /\ used.login = l
    BY <1>8 DEF UseBackupCode
  <2>5. \A r \in Usable(l, code) : r.login = l
    BY DEF Usable, CodesOf
  <2>. HIDE DEF used
  <2>6. l # k => {r \in codes' : r.login = k} = CodesOf(k)
    BY <2>4, <2>5 DEF CodesOf
  <2>. QED  BY <2>2, <2>3, <2>6 DEF Undisturbed
<1>9. ASSUME NEW c \in Callers, SingleCall(c) PROVE Undisturbed(d)
  <2>1. CASE call[c] # NULL /\ UserFree(call[c].login) /\ SetupStore(c)
    BY <2>1, <1>5
  <2>2. CASE ~(call[c] # NULL /\ UserFree(call[c].login) /\ SetupStore(c))
    <3>1. UNCHANGED tables
      BY <1>9, <2>2 DEF SingleCall, SetupStart, ConfirmRead, RegenerateRead, DisableRole,
                        SetupReuse, DisablePolicy, Abort
    <3>. QED  BY <1>3, <3>1 DEF tables
  <2>. QED  BY <2>1, <2>2
<1>10. ASSUME NEW l \in Logins, SingleUser(l) PROVE Undisturbed(d)
  BY <1>10, <1>6, <1>7, <1>8 DEF SingleUser
<1>11. CASE SetRequire \/ Tick
  BY <1>11, <1>3 DEF SetRequire, Tick, tables
<1>. QED  BY <1>9, <1>10, <1>11 DEF Single

-----------------------------------------------------------------------------
(***************************************************************************)
(* The invariant: types and batches, and the theorems.                     *)
(***************************************************************************)

\* A transaction that ends takes its call with it.
LEMMA EndKeepsType ==
  ASSUME TxInv, NEW c \in Callers, CloseTx(c), Return(c)
  PROVE  TxTypeOK'
<1>1. tx \in [Callers -> Tx \cup {NULL}] /\ call \in [Callers -> Step \cup {NULL}]
  BY DEF TxInv, TxTypeOK, MfaTypeOK
<1>2. tx' \in [Callers -> Tx \cup {NULL}]
  BY <1>1 DEF CloseTx
<1>3. \A d \in Callers : Open(d)' => Open(d) /\ tx'[d] = tx[d] /\ call'[d] = call[d]
  BY <1>1 DEF CloseTx, Return, Open
<1>. QED  BY <1>2, <1>3 DEF TxTypeOK, TxInv

\* A single statement is of a call without an open transaction.
LEMMA SingleKeepsType == ASSUME TxInv, Single PROVE TxTypeOK'
<1>1. tx' = tx
  BY DEF Single
<1>2. \A d \in Callers : Open(d) => call'[d] = call[d]
  <2>1. ASSUME NEW c \in Callers, SingleCall(c), NEW d \in Callers, Open(d)
        PROVE  call'[d] = call[d]
    <3>1. d # c
      BY <2>1 DEF SingleCall
    <3>. QED
      BY <2>1, <3>1 DEF TxInv, MfaTypeOK, SingleCall, SetupStart, ConfirmRead, RegenerateRead,
           DisableRole, SetupReuse, SetupStore, DisablePolicy, Abort, Begin, Continue, Return
  <2>2. ASSUME NEW l \in Logins, SingleUser(l) PROVE call' = call
    BY <2>2 DEF SingleUser, UseBackupCode, UpdateRole, AddUser
  <2>. QED  BY <2>1, <2>2 DEF Single, SetRequire, Tick
<1>. QED  BY <1>1, <1>2 DEF TxInv, TxTypeOK, Open

LEMMA BatchesKept == TxInv /\ [TxNext]_txVars => BatchesOK'
<1>. SUFFICES ASSUME TxInv, [TxNext]_txVars PROVE BatchesOK'
  OBVIOUS
<1>1. BatchesOK /\ batches \in Nat /\ tx \in [Callers -> Tx \cup {NULL}] /\ MaxBatches \in Nat
  BY MfaAssumption DEF TxInv, MfaTypeOK, TxTypeOK
\* A transaction that is closed no longer counts.
<1>2. ASSUME NEW c \in Callers, CloseTx(c)
      PROVE  OpenMinting' = OpenMinting \ {c}
  BY <1>1, <1>2 DEF CloseTx, OpenMinting, Open
<1>3. ASSUME NEW c \in Callers, Rollback(c) PROVE BatchesOK'
  <2>1. OpenMinting' \subseteq OpenMinting
    BY <1>2, <1>3 DEF Rollback
  <2>2. Cardinality(OpenMinting') <= Cardinality(OpenMinting) /\ Cardinality(OpenMinting') \in Nat
    BY <2>1, OpenFinite, FS_Subset, FS_CardinalityType
  <2>3. batches' = batches
    BY <1>3 DEF Rollback, minted
  <2>. QED  BY <1>1, <2>2, <2>3, OpenFinite DEF BatchesOK
<1>4. ASSUME NEW c \in Callers, Commit(c) PROVE BatchesOK'
  <2>1. OpenMinting' = OpenMinting \ {c}
    BY <1>2, <1>4 DEF Commit
  <2>2. CASE c \in OpenMinting
    <3>1. Cardinality(OpenMinting') = Cardinality(OpenMinting) - 1
      BY <2>1, <2>2, OpenFinite, FS_RemoveElement
    <3>2. batches' = batches + 1
      BY <1>4, <2>2 DEF Commit, OpenMinting
    <3>. QED  BY <1>1, <3>1, <3>2, OpenFinite DEF BatchesOK
  <2>3. CASE c \notin OpenMinting
    <3>1. OpenMinting' = OpenMinting
      BY <2>1, <2>3
    <3>2. batches' = batches
      BY <1>4, <2>3 DEF Commit, OpenMinting
    <3>. QED  BY <1>1, <3>1, <3>2 DEF BatchesOK
  <2>. QED  BY <2>2, <2>3
<1>5. ASSUME NEW c \in Callers, NEW kind \in Kinds, NEW l \in Logins, BeginTx(c, kind, l)
      PROVE  BatchesOK'
  <2>1. batches' = batches
    BY <1>5 DEF BeginTx, vars, minted
  <2>2. tx'[c].kind = kind /\ ~Open(c) /\ \A d \in Callers : d # c => tx'[d] = tx[d]
    BY <1>1, <1>5 DEF BeginTx
  <2>3. c \notin OpenMinting
    BY <2>2 DEF OpenMinting
  <2>4. CASE kind \in Minting
    <3>1. OpenMinting' \subseteq OpenMinting \cup {c}
      BY <2>2 DEF OpenMinting, Open
    <3>2. Cardinality(OpenMinting \cup {c}) = Cardinality(OpenMinting) + 1
      BY <2>3, OpenFinite, FS_AddElement
    <3>3. IsFiniteSet(OpenMinting \cup {c})
      BY OpenFinite, FS_AddElement
    <3>4. Cardinality(OpenMinting') <= Cardinality(OpenMinting) + 1
          /\ Cardinality(OpenMinting') \in Nat
      BY <3>1, <3>2, <3>3, FS_Subset, FS_CardinalityType
    <3>5. batches + Cardinality(OpenMinting) < MaxBatches
      BY <1>5, <2>4 DEF BeginTx
    <3>. QED  BY <1>1, <2>1, <3>4, <3>5, OpenFinite DEF BatchesOK
  <2>5. CASE kind \notin Minting
    <3>1. OpenMinting' = OpenMinting
      BY <2>2, <2>5 DEF OpenMinting, Open
    <3>. QED  BY <1>1, <2>1, <3>1 DEF BatchesOK
  <2>. QED  BY <2>4, <2>5
<1>6. ASSUME OpenMinting' = OpenMinting, batches' = batches PROVE BatchesOK'
  BY <1>1, <1>6 DEF BatchesOK
<1>7. ASSUME NEW c \in Callers, Statement(c) PROVE BatchesOK'
  BY <1>6, <1>7, StatementKeepsLocks DEF Statement, vars, minted
<1>8. CASE Single
  <2>1. batches' = batches
    <3>1. ASSUME NEW c \in Callers, SingleCall(c) PROVE batches' = batches
      BY <3>1 DEF SingleCall, SetupStart, ConfirmRead, RegenerateRead, DisableRole,
                  SetupReuse, SetupStore, DisablePolicy, Abort, minted
    <3>2. ASSUME NEW l \in Logins, SingleUser(l) PROVE batches' = batches
      BY <3>2 DEF SingleUser, UseBackupCode, UpdateRole, AddUser, minted
    <3>. QED  BY <1>8, <3>1, <3>2 DEF Single, SetRequire, Tick, minted
  <2>2. OpenMinting' = OpenMinting
    BY <1>8 DEF Single, OpenMinting, Open
  <2>. QED  BY <1>6, <2>1, <2>2
<1>9. CASE Victim
  BY <1>3, <1>9 DEF Victim
<1>10. CASE UNCHANGED txVars
  BY <1>6, <1>10 DEF txVars, vars, minted, OpenMinting, Open
<1>. QED  BY <1>3, <1>4, <1>5, <1>7, <1>8, <1>9, <1>10 DEF TxNext, TxStep

LEMMA TxInvInit == TxInit => TxInv
<1>. SUFFICES ASSUME TxInit PROVE TxInv
  OBVIOUS
<1>1. MfaTypeOK
  BY InitType DEF TxInit
<1>2. \A c \in Callers : ~Open(c)
  BY DEF TxInit, Open
<1>3. TxTypeOK
  BY <1>2 DEF TxTypeOK, TxInit
<1>4. LocksOK
  BY <1>2 DEF LocksOK, FoundOK, Compatible
<1>5. OpenMinting = {} /\ batches = 0
  BY <1>2 DEF OpenMinting, TxInit, Init
<1>6. BatchesOK
  BY <1>5, FS_EmptySet, MfaAssumption DEF BatchesOK
<1>. QED  BY <1>1, <1>3, <1>4, <1>6 DEF TxInv

LEMMA TxInvNext == TxInv /\ [TxNext]_txVars => TxInv'
<1>. SUFFICES ASSUME TxInv, [TxNext]_txVars PROVE TxInv'
  OBVIOUS
<1>1. MfaTypeOK'
  BY TxStepIsStep, NextType DEF TxInv
<1>2. BatchesOK'
  BY BatchesKept
<1>3. ASSUME NEW c \in Callers, Rollback(c) PROVE LocksOK' /\ TxTypeOK'
  <2>1. \A d \in Callers : Undisturbed(d)
    BY <1>3 DEF Rollback, Undisturbed, tables, CodesOf
  <2>. QED  BY <1>3, <2>1, EndKeepsLocks, EndKeepsType DEF Rollback
<1>4. ASSUME NEW c \in Callers, Commit(c) PROVE LocksOK' /\ TxTypeOK'
  BY <1>4, CommitLeavesOthers, EndKeepsLocks, EndKeepsType DEF Commit
<1>5. ASSUME NEW c \in Callers, TxStep(c) PROVE LocksOK' /\ TxTypeOK'
  BY <1>3, <1>4, <1>5, BeginKeepsLocks, StatementKeepsLocks DEF TxStep
<1>6. ASSUME tx' = tx, \A d \in Callers : Undisturbed(d) PROVE LocksOK'
  <2>1. \A d \in Callers : FoundOK(d)'
    BY <1>6, KeepsFound DEF TxInv, LocksOK
  <2>. QED  BY <1>6, <2>1 DEF TxInv, LocksOK, Compatible, Open
<1>7. ASSUME Single PROVE LocksOK' /\ TxTypeOK'
  BY <1>6, <1>7, SingleLeavesLocked, SingleKeepsType DEF Single
<1>8. ASSUME Victim PROVE LocksOK' /\ TxTypeOK'
  BY <1>3, <1>8 DEF Victim
<1>9. ASSUME UNCHANGED txVars PROVE LocksOK' /\ TxTypeOK'
  <2>1. tx' = tx /\ UNCHANGED <<users, codes, call>>
    BY <1>9 DEF txVars, vars, tables
  <2>2. \A d \in Callers : Undisturbed(d)
    BY <2>1 DEF Undisturbed, CodesOf
  <2>. QED  BY <1>6, <2>1, <2>2 DEF TxInv, TxTypeOK, Open
<1>10. LocksOK' /\ TxTypeOK'
  BY <1>5, <1>7, <1>8, <1>9 DEF TxNext
<1>. QED  BY <1>1, <1>2, <1>10 DEF TxInv

LEMMA TxInvariant == TxSpec => []TxInv
BY TxInvInit, TxInvNext, PTL DEF TxSpec

\* The row and the codes that a transaction of policy.py found under its locks
\* are those in the tables until it ends: no update is lost.
THEOREM TxFoundIsCurrent == TxSpec => []FoundIsCurrent
<1>1. TxInv => FoundIsCurrent
  BY DEF TxInv, LocksOK, FoundOK, FoundIsCurrent
<1>. QED  BY <1>1, TxInvariant, PTL

\* A transaction has the values the code gives it, and its call waits for it.
THEOREM TxTypeCorrect == TxSpec => []TxTypeOK
<1>1. TxInv => TxTypeOK
  BY DEF TxInv
<1>. QED  BY <1>1, TxInvariant, PTL

\* The transactions of policy.py, taken statement by statement with the locks of
\* InnoDB, implement the single steps of AdminMfa.
THEOREM TxImplementsAtomic == TxSpec => AtomicSpec
<1>1. TxInit => Init
  BY DEF TxInit
<1>2. TxInv /\ [TxNext]_txVars => [Next]_vars
  BY TxStepIsStep
<1>. QED  BY <1>1, <1>2, TxInvariant, PTL DEF TxSpec, AtomicSpec, Spec

\* So a login's codes are one whole batch, the one its row says it was given,
\* with transactions taken statement by statement too.
THEOREM TxCodesConsistent == TxSpec => []CodesConsistent
BY TxImplementsAtomic, MfaCodesConsistent, PTL DEF AtomicSpec

\* And with them no backup code works twice (policy.py:607-617).
THEOREM TxNoCodeTwice == TxSpec => []NoCodeTwice
BY TxImplementsAtomic, MfaNoCodeTwice, PTL DEF AtomicSpec

\* Nor does a statement of one transaction come between those of another such that
\* MFA is on with its set-up pending, without codes, or unlogged (policy.py:491-509).
THEOREM TxEnabledIsSettled == TxSpec => []EnabledIsSettled
BY TxImplementsAtomic, MfaEnabledIsSettled, PTL DEF AtomicSpec

\* So, with locks, waits, deadlocks and rollbacks, the backup codes still keep what
\* SecondFactor promises.
THEOREM TxImplementsSecondFactor == TxSpec => MfaKeepsSecondFactor
BY TxImplementsAtomic, MfaImplementsSecondFactor, PTL DEF AtomicSpec

\* Only regenerate_backup_codes, which takes the codes before the user's row
\* (policy.py:542), makes deadlocks possible.
THEOREM TxDeadlockNeedsRegenerate == TxSpec => []DeadlockNeedsRegenerate
<1>1. TxInv /\ CodesConsistent => DeadlockNeedsRegenerate
  <2> SUFFICES ASSUME TxInv, CodesConsistent, NEW D \in SUBSET Callers, Deadlocked(D),
                      \A c \in D : tx[c].kind # "regenerate"
               PROVE  FALSE
    BY DEF DeadlockNeedsRegenerate
  <2>1. \A c \in D : Open(c) /\ tx[c] \in Tx /\ ShapeOK(tx[c]) /\ FoundOK(c)
    BY DEF Deadlocked, TxInv, LocksOK, TxTypeOK, Open
  <2>2. ASSUME NEW c \in D
        PROVE  \E d \in D : d \in Blockers(c)
    BY DEF Deadlocked
  \* Who blocks another has passed its statement on the user's row.
  <2>3. ASSUME NEW c \in D, NEW d \in D, d \in Blockers(c)
        PROVE  /\ d # c /\ tx[d].login = tx[c].login
               /\ tx[d].onUser \in {"gap", "X"} /\ tx[d].at # "user"
    BY <2>1, <2>3 DEF Blockers, Others, ShapeOK, Tx
  <2>4. PICK c \in D, d \in D, e \in D : d \in Blockers(c) /\ e \in Blockers(d)
    BY <2>2 DEF Deadlocked
  <2> DEFINE l == tx[d].login
  <2>5. /\ d # e /\ tx[e].login = l
        /\ tx[d].onUser \in {"gap", "X"} /\ tx[d].at # "user"
        /\ tx[e].onUser \in {"gap", "X"}
    BY <2>3, <2>4
  <2>6. tx[d].onUser = "gap" /\ tx[e].onUser = "gap" /\ ~Has(l)
    <3>1. Compatible(d, e) /\ Compatible(e, d) BY DEF TxInv, LocksOK
    <3>2. QED BY <2>1, <2>5, <3>1 DEF FoundOK, Compatible
  <2>7. tx[d].at = "codes" /\ tx[e].onCodes = "X"
    BY <2>1, <2>4, <2>5, <2>6 DEF Blockers, Others, ShapeOK, Minting, Tx, Kinds
  <2>8. CodesOf(l) # {}
    BY <2>1, <2>5, <2>6, <2>7 DEF FoundOK, ShapeOK
  <2>9. l \in Logins BY <2>1 DEF Tx
  <2>10. QED BY <2>6, <2>8, <2>9 DEF CodesConsistent, GeneratedIffCodes
<1>. QED  BY <1>1, TxInvariant, TxCodesConsistent, PTL
=============================================================================
