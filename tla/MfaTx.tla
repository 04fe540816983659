------------------------------- MODULE MfaTx -------------------------------
(***************************************************************************)
(* The MFA transactions of src/auth/policy.py statement by statement.      *)
(*                                                                         *)
(* AdminMfa takes what a call does between begin() and commit() as one     *)
(* step.  Here each statement that waits for InnoDB's locks (external,     *)
(* REPEATABLE READ) is a step.  A statement locks what it reads: a row it  *)
(* finds (X, or S for the foreign key's parent), or, where it finds none,  *)
(* the gap, which keeps others from inserting and from nothing else.  The  *)
(* locks go at the end, and then the writes are seen by others.            *)
(*                                                                         *)
(* regenerate_backup_codes takes the codes first and the user last, the    *)
(* others the user first: they can deadlock, and InnoDB rolls one back.    *)
(* Locks on neighbouring rows are left out: a wait for them is a delay,    *)
(* and a deadlock over them is an Abort.                                   *)
(***************************************************************************)
EXTENDS AdminMfa

VARIABLE
  tx  \* the open transaction of each caller, or NULL

txVars == <<vars, tx>>

Kinds   == {"confirm", "regenerate", "disable", "clear", "remove"}
Minting == {"confirm", "regenerate"}  \* those that insert a new batch

Tx == [kind: Kinds, login: Logins,
       at: {"user", "codes", "parent", "insert", "commit"},  \* its next statement
       onUser: {"none", "gap", "S", "X"},  \* its lock on the row in users
       onCodes: {"none", "gap", "X"},      \* its lock on the login's codes
       row: User \cup {NULL},              \* the row its UPDATE or DELETE found
       old: SUBSET CodeRow]                \* the codes its DELETE found

ASSUME TxAssumption == IsFiniteSet(Callers) /\ NULL \notin Tx

\* confirm_mfa_enable that replaces the codes before it updates the user.
FirstMutant(kind) == IF kind \in Minting THEN "codes" ELSE "user"

\* The first statement of a transaction.
First(kind) == IF kind = "regenerate" THEN "codes" ELSE "user"

\* The statement after one.  An INSERT first reads the parent row.
After(t) ==
  CASE t.at = "user"   -> IF t.kind = "regenerate" THEN "commit" ELSE "codes"
    [] t.at = "codes"  -> IF t.kind \in Minting THEN "parent" ELSE "commit"
    [] t.at = "parent" -> "insert"
    [] t.at = "insert" -> IF t.kind = "regenerate" THEN "user" ELSE "commit"

Open(c)        == tx[c] # NULL
Others(c, l)   == {d \in Callers \ {c} : Open(d) /\ tx[d].login = l}
UserFree(l)    == \A d \in Callers : Open(d) /\ tx[d].login = l
                                       => tx[d].onUser \notin {"S", "X"}
UserGapFree(l) == \A d \in Callers : Open(d) /\ tx[d].login = l => tx[d].onUser # "gap"
CodesFree(l)   == \A d \in Callers : Open(d) /\ tx[d].login = l => tx[d].onCodes # "X"

\* The open transactions that will store a batch.
OpenMinting == {c \in Callers : Open(c) /\ tx[c].kind \in Minting}

TxInit == Init /\ tx = [c \in Callers |-> NULL]

-----------------------------------------------------------------------------
(***************************************************************************)
(* Whom a transaction waits for.                                           *)
(***************************************************************************)

\* The codes read by a plain SELECT before the DELETE, which waits for nobody.
BlockersMutant(c) ==
  LET t == tx[c] IN
  {d \in Others(c, t.login) :
     \/ t.at = "user"   /\ Has(t.login) /\ tx[d].onUser \in {"S", "X"}
     \/ t.at = "parent" /\ tx[d].onUser = "X"
     \/ t.at = "insert" /\ tx[d].onCodes \in {"gap", "X"}}

\* The transactions with a lock that conflicts with the one c's next statement
\* needs.  An absent row's gap is locked without waiting.
Blockers(c) ==
  LET t == tx[c] IN
  {d \in Others(c, t.login) :
     \/ t.at = "user"   /\ Has(t.login) /\ tx[d].onUser \in {"S", "X"}
     \/ t.at = "parent" /\ tx[d].onUser = "X"
     \/ t.at = "codes"  /\ tx[d].onCodes = "X"
     \/ t.at = "insert" /\ tx[d].onCodes \in {"gap", "X"}}

\* Each caller of the set waits for another one of it.
Deadlocked(D) == D # {} /\ \A c \in D : Open(c) /\ Blockers(c) \cap D # {}

-----------------------------------------------------------------------------
(***************************************************************************)
(* A transaction.                                                          *)
(***************************************************************************)

\* conn.begin(): of a call that has read what it decides by, of
\* clear_mfa_for_user, or of the DELETE of remove_user.
BeginTx(c, kind, l) ==
  /\ ~Open(c)
  /\ \/ kind \in Minting /\ call[c] = [at |-> kind, login |-> l]
     \/ kind = "disable" /\ call[c] = [at |-> "clear", login |-> l]
     \/ kind \in {"clear", "remove"} /\ call[c] = NULL
  /\ kind \in Minting => batches + Cardinality(OpenMinting) < MaxBatches
  /\ tx' = [tx EXCEPT ![c] = [kind |-> kind, login |-> l, at |-> First(kind),
                              onUser |-> "none", onCodes |-> "none",
                              row |-> NULL, old |-> {}]]
  /\ UNCHANGED vars

\* The UPDATE before begin(): its lock goes with the statement.
UserStatementMutant(c) ==
  /\ tx[c].at = "user" /\ Blockers(c) = {}
  /\ tx' = [tx EXCEPT ![c].at = After(tx[c]), ![c].row = users[tx[c].login]]

\* UPDATE users, or the DELETE of the row.
UserStatement(c) ==
  /\ tx[c].at = "user" /\ Blockers(c) = {}
  /\ tx' = [tx EXCEPT ![c].at = After(tx[c]),
                      ![c].onUser = IF Has(tx[c].login) THEN "X" ELSE "gap",
                      ![c].row = users[tx[c].login]]

\* DELETE FROM user_backup_codes, or the cascade.
CodesStatement(c) ==
  LET found == CodesOf(tx[c].login) IN
  /\ tx[c].at = "codes" /\ Blockers(c) = {}
  /\ tx' = [tx EXCEPT ![c].at = After(tx[c]),
                      ![c].onCodes = IF found = {} THEN "gap" ELSE "X",
                      ![c].old = found]

\* INSERT INTO user_backup_codes: the foreign key's check of the parent.
ParentCheck(c) ==
  /\ tx[c].at = "parent" /\ Blockers(c) = {} /\ Has(tx[c].login)
  /\ tx' = [tx EXCEPT ![c].at = After(tx[c]),
                      ![c].onUser = IF @ = "X" THEN "X" ELSE "S"]

\* And the new rows.
InsertCodes(c) ==
  /\ tx[c].at = "insert" /\ Blockers(c) = {}
  /\ tx' = [tx EXCEPT ![c].at = After(tx[c]), ![c].onCodes = "X"]

Statement(c) ==
  /\ Open(c)
  /\ UserStatement(c) \/ CodesStatement(c) \/ ParentCheck(c) \/ InsertCodes(c)
  /\ UNCHANGED vars

\* The row as a transaction leaves it.
Written(t) ==
  IF t.row = NULL THEN NULL
  ELSE CASE t.kind = "confirm"    -> [t.row EXCEPT !.enabled = TRUE, !.expires = NULL,
                                                   !.generated = TRUE]
         [] t.kind = "regenerate" -> [t.row EXCEPT !.generated = TRUE]
         [] t.kind \in {"disable", "clear"} -> NewUser(t.row.role)
         [] t.kind = "remove"     -> NULL

\* The audit_log entries that say MFA went on or off.
Logs(kind) ==
  CASE kind = "confirm" -> {"mfa_enable"}
    [] kind = "disable" -> {"mfa_disable"}
    [] kind = "clear"   -> {"mfa_disable", "mfa_admin_clear"}
    [] OTHER            -> {}

CloseTx(c) == tx' = [tx EXCEPT ![c] = NULL]

\* conn.commit(), and the return of the call.
Commit(c) ==
  /\ Open(c) /\ tx[c].at = "commit"
  /\ LET t == tx[c]
         l == t.login
         mints == t.kind \in Minting
     IN /\ users' = [users EXCEPT ![l] = Written(t)]
        /\ codes' = (codes \ t.old) \cup (IF mints THEN NewBatch(l) ELSE {})
        /\ batches' = IF mints THEN batches + 1 ELSE batches
        /\ IF Logs(t.kind) = {} THEN logged' = logged
           ELSE \E action \in Logs(t.kind) : logged' = [logged EXCEPT ![l] = action]
  /\ Return(c)
  /\ CloseTx(c)
  /\ UNCHANGED <<required, secrets, history, now>>

\* A handler that does not roll back.
RollbackMutant(c) == Open(c) /\ Return(c) /\ UNCHANGED <<tables, minted, history, now, tx>>

\* "except Exception: rollback(); raise", and, for a call that is cancelled, the
\* pool, which closes a connection returned to it inside a transaction.
Rollback(c) ==
  /\ Open(c)
  /\ Return(c)
  /\ CloseTx(c)
  /\ UNCHANGED <<tables, minted, history, now>>

\* The foreign key has no parent: the INSERT raises.
ParentMissing(c) ==
  /\ Open(c) /\ tx[c].at = "parent" /\ ~Has(tx[c].login)
  /\ Rollback(c)

\* InnoDB's deadlock detection picks a victim, whose statement raises.
Victim == \E D \in SUBSET Callers : Deadlocked(D) /\ \E c \in D : Rollback(c)

-----------------------------------------------------------------------------
\* What is a single statement in the code takes its lock, and so waits, alone.
SingleCall(c) ==
  /\ ~Open(c)
  /\ \/ \E l \in Logins : \/ SetupStart(c, l)
                          \/ ConfirmRead(c, l)
                          \/ RegenerateRead(c, l)
                          \/ DisableRole(c, l)
     \/ SetupReuse(c)
     \/ call[c] # NULL /\ UserFree(call[c].login) /\ SetupStore(c)
     \/ DisablePolicy(c)
     \/ Abort(c)

SingleUser(l) ==
  \/ /\ CodesFree(l)
     /\ \E code \in {r.code : r \in CodesOf(l)} : UseBackupCode(l, code)
  \/ \E role \in ROLES : \/ UserFree(l) /\ UpdateRole(l, role)
                         \/ UserGapFree(l) /\ AddUser(l, role)

Single ==
  /\ \/ \E c \in Callers : SingleCall(c)
     \/ \E l \in Logins : SingleUser(l)
     \/ SetRequire
     \/ Tick
  /\ UNCHANGED tx

TxStep(c) ==
  \/ \E kind \in Kinds, l \in Logins : BeginTx(c, kind, l)
  \/ Statement(c)
  \/ Commit(c)
  \/ Rollback(c)

TxNext == Single \/ Victim \/ \E c \in Callers : TxStep(c)

\* A statement is not passed over for ever while its lock comes free again and
\* again, the process goes on with a statement that has returned, and a deadlock
\* is detected.
TxFairness ==
  /\ \A c \in Callers : /\ SF_txVars(Statement(c))
                        /\ WF_txVars(Commit(c))
                        /\ WF_txVars(ParentMissing(c))
  /\ WF_txVars(Victim)

TxSpec     == TxInit /\ [][TxNext]_txVars
FairTxSpec == TxSpec /\ TxFairness

-----------------------------------------------------------------------------
(***************************************************************************)
(* Properties.                                                             *)
(***************************************************************************)

\* A transaction has the values the code gives it, and the call it belongs to
\* waits for it.
TxTypeOK ==
  /\ tx \in [Callers -> Tx \cup {NULL}]
  /\ \A c \in Callers : Open(c) =>
       call[c] = CASE tx[c].kind \in Minting -> [at |-> tx[c].kind, login |-> tx[c].login]
                   [] tx[c].kind = "disable" -> [at |-> "clear", login |-> tx[c].login]
                   [] OTHER                  -> NULL

\* No update is lost: the row and the codes that a transaction's statements found
\* are, until it ends, those in the tables, so what it commits is made from what
\* is there and a batch never lands beside one that came in between.
FoundIsCurrent ==
  \A c \in Callers : Open(c) =>
    /\ tx[c].onUser \in {"gap", "X"} => tx[c].row = users[tx[c].login]
    /\ tx[c].onCodes # "none" => tx[c].old = CodesOf(tx[c].login)

\* The callers who wait for each other in a circle always include a regeneration:
\* the transactions that take the user's row before the codes are safe from each
\* other, however many of them meet and whether or not there are such rows.
DeadlockNeedsRegenerate ==
  \A D \in SUBSET Callers : Deadlocked(D) => \E c \in D : tx[c].kind = "regenerate"

\* The transactions, taken statement by statement, do what AdminMfa says: as if
\* each were a single step.
AtomicSpec == Spec

\* A transaction ends, committed or rolled back, whatever it waits for: it keeps
\* neither its locks nor its connection for ever.
TxEnds == \A c \in Callers : Open(c) ~> ~Open(c)
=============================================================================
