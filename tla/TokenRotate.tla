---------------------------- MODULE TokenRotate -----------------------------
(***************************************************************************)
(* The auto-rotation loop of src/auth/token_rotate.py, one per server      *)
(* instance, all of them on the tables of TokenStore.                      *)
(*                                                                         *)
(* Each call takes a session of its instance's pool and gives it back, so  *)
(* the statements of one pass run on sessions that other traffic chooses:  *)
(* GET_LOCK on one, RELEASE_LOCK on any.  Which one is left open here, as  *)
(* safety does not depend on it; RotatePool adds the queue that decides.   *)
(* MySQL gives an advisory lock to a session, lets that session take it     *)
(* again, counts, and frees it when the session ends.                      *)
(***************************************************************************)
EXTENDS TokenStore

CONSTANTS
  Instances,   \* server processes that share the database
  Conns,       \* sessions of each instance's pool
  LeadDays,    \* MCP_TOKEN_ROTATE_LEAD_DAYS
  BatchLimit,  \* LIMIT of list_due_for_rotation: 50
  Smtp,        \* smtp_configured()
  HasEmail,    \* the logins with an address in users
  MaxDepth     \* bound: nested GET_LOCKs told apart, see GetLock

VARIABLES
  pc,     \* what each instance's loop does next
  due,    \* the rows its pass has listed and not yet taken
  cur,    \* the rotation it has in hand, or NULL
  owner,  \* the session that holds the advisory lock, or NULL
  depth   \* how many times that session has got it

rotVars == <<pc, due, cur, owner, depth>>
vars    == <<storeVars, rotVars>>

Session == Instances \X Conns

\* What list_due_for_rotation returns of a row.
Snapshot == [id: TokenIds, login: Logins, expires: Int, days: Int]

\* The locals of an iteration of run_token_auto_rotate_once.
Rotation == [id: TokenIds, login: Logins, expected: Int,
             secret: Nat \ {0}, expires: Int, emailed: BOOLEAN]

ASSUME RotateAssumption ==
  /\ LeadDays \in Int
  /\ BatchLimit \in Nat \ {0} /\ MaxDepth \in Nat \ {0}
  /\ Smtp \in BOOLEAN
  /\ HasEmail \subseteq Logins
  /\ NULL \notin Session \cup Rotation

Init ==
  /\ StoreInit
  /\ pc = [i \in Instances |-> "sleep"]
  /\ due = [i \in Instances |-> {}]
  /\ cur = [i \in Instances |-> NULL]
  /\ owner = NULL
  /\ depth = 0

Goto(i, label) == pc' = [pc EXCEPT ![i] = label]

-----------------------------------------------------------------------------
(***************************************************************************)
(* The lock.                                                               *)
(***************************************************************************)

\* GET_LOCK without a check of who holds the lock.
GrantableMutant(s) == TRUE

\* GET_LOCK(name, 0) returns 1: the lock is free, or this session's already.
Grantable(s) == owner \in {NULL, s}

\* A poll whose GET_LOCK returns 1.  When it returns 0 the loop goes back to
\* sleep.  depth counts up to MaxDepth, which stands for that many or more.
GetLock(i, k) ==
  /\ pc[i] = "sleep"
  /\ Grantable(<<i, k>>)
  /\ owner' = <<i, k>>
  /\ depth' = IF depth < MaxDepth THEN depth + 1 ELSE depth
  /\ Goto(i, "list")
  /\ UNCHANGED <<storeVars, due, cur>>

\* What RELEASE_LOCK may leave of depth.
Released == IF depth < MaxDepth THEN {depth - 1} ELSE {depth - 1, depth}

\* RELEASE_LOCK on session k, in the finally clause.  A session that does not
\* hold the lock releases nothing, and the answer is not looked at.
ReleaseLock(i, k) ==
  /\ pc[i] = "release"
  /\ IF owner = <<i, k>>
     THEN /\ depth' \in Released
          /\ owner' = IF depth' = 0 THEN NULL ELSE owner
     ELSE UNCHANGED <<owner, depth>>
  /\ Goto(i, "sleep")
  /\ UNCHANGED <<storeVars, due, cur>>

-----------------------------------------------------------------------------
(***************************************************************************)
(* One pass.                                                               *)
(***************************************************************************)

SnapshotOf(id) == [id |-> id, login |-> tokens[id].login,
                   expires |-> tokens[id].expires, days |-> tokens[id].days]

DueRows == {SnapshotOf(id) : id \in {t \in TokenIds : DueForRotation(t, LeadDays)}}

\* ORDER BY expires_at ASC LIMIT: as many rows as the limit lets through, none
\* of them expiring after one that is left out.
Batch(rows) ==
  {b \in SUBSET rows :
     /\ Cardinality(b) <= BatchLimit
     /\ b # rows => Cardinality(b) = BatchLimit
     /\ \A in \in b, out \in rows \ b : in.expires <= out.expires}

\* list_due_for_rotation.  Nothing due ends the pass.
List(i) ==
  /\ pc[i] = "list"
  /\ \E b \in Batch(DueRows) : due' = [due EXCEPT ![i] = b]
  /\ Goto(i, IF DueRows = {} THEN "release" ELSE "next")
  /\ UNCHANGED <<storeVars, cur, owner, depth>>

\* The rows a pass may take next.
Heads(i) == {t \in due[i] : \A u \in due[i] : t.expires <= u.expires}

\* "if not rotation_days: continue"
SkipZero(i) ==
  /\ pc[i] = "next"
  /\ \E t \in Heads(i) :
       /\ t.days = 0
       /\ due' = [due EXCEPT ![i] = @ \ {t}]
  /\ UNCHANGED <<storeVars, pc, cur, owner, depth>>

\* The next row: a new secret and a new expiry, in this process only.
Take(i) ==
  /\ pc[i] = "next"
  /\ \E t \in Heads(i) :
       /\ t.days # 0
       /\ Mint(t.login)
       /\ due' = [due EXCEPT ![i] = @ \ {t}]
       /\ cur' = [cur EXCEPT ![i] =
                    [id |-> t.id, login |-> t.login, expected |-> t.expires,
                     secret |-> Len(minted) + 1, expires |-> now + t.days,
                     emailed |-> FALSE]]
  /\ Goto(i, "email")
  /\ UNCHANGED <<users, tokens, nextId, audit, call, req, now, faults, owner, depth>>

\* The loop over the rows ends.
PassDone(i) ==
  /\ pc[i] = "next" /\ due[i] = {}
  /\ Goto(i, "release")
  /\ UNCHANGED <<storeVars, due, cur, owner, depth>>

\* send_email is called with the keyword "to"; its parameter is "to_addr".
SendEmailBinds == {"to", "subject", "body"} = {"to_addr", "subject", "body"}

\* May the mail with the new secret have been sent?
CanSend(login) == /\ Smtp /\ SendEmailBinds
                  /\ login \in users \cap HasEmail

\* The mail.  What send_email raises is caught, and the rotation goes on.
Email(i) ==
  /\ pc[i] = "email"
  /\ \E sent \in IF CanSend(cur[i].login) THEN BOOLEAN ELSE {FALSE} :
       cur' = [cur EXCEPT ![i].emailed = sent]
  /\ Goto(i, "apply")
  /\ UNCHANGED <<storeVars, due, owner, depth>>

\* apply_rotation by login in place of id.
RotatedMutant(c) ==
  [id \in TokenIds |->
     IF Has(id) /\ tokens[id].login = c.login
     THEN [tokens[id] EXCEPT !.secret = c.secret, !.expires = c.expires] ELSE tokens[id]]

\* The SET clause of apply_rotation, for the row c.id.
Rotated(c) == [tokens EXCEPT ![c.id] = [@ EXCEPT !.secret = c.secret, !.expires = c.expires]]

\* apply_rotation with REPLACE INTO: a deleted row comes back, if the foreign key
\* lets it.
ApplyMutant(i) ==
  /\ pc[i] = "apply"
  /\ cur[i].login \in users
  /\ tokens' = [tokens EXCEPT ![cur[i].id] =
                  [login |-> cur[i].login, secret |-> cur[i].secret,
                   expires |-> cur[i].expires, revoked |-> FALSE, auto |-> TRUE,
                   days |-> NULL, used |-> FALSE]]
  /\ Goto(i, "audit")
  /\ UNCHANGED <<users, nextId, minted, audit, call, req, now, faults, due, cur, owner, depth>>

\* apply_rotation's UPDATE.  When it affects no row the loop goes on.
Apply(i) ==
  /\ pc[i] = "apply"
  /\ LET c == cur[i] IN
     IF Rotatable(c.id, c.expected)
     THEN /\ tokens' = Rotated(c)
          /\ Goto(i, "audit")
          /\ UNCHANGED cur
     ELSE /\ Goto(i, "next")
          /\ cur' = [cur EXCEPT ![i] = NULL]
          /\ UNCHANGED tokens
  /\ UNCHANGED <<users, nextId, minted, audit, call, req, now, faults, due, owner, depth>>

\* apply_rotation's INSERT INTO audit_log.
AuditRotation(i) ==
  /\ pc[i] = "audit"
  /\ audit' = audit \cup {<<"rotate_token", cur[i].id>>}
  /\ cur' = [cur EXCEPT ![i] = NULL]
  /\ Goto(i, "next")
  /\ UNCHANGED <<users, tokens, nextId, minted, call, req, now, faults, due, owner, depth>>

-----------------------------------------------------------------------------
(***************************************************************************)
(* Faults.                                                                 *)
(***************************************************************************)

\* A pass that leaves its rotation behind.
ForgetMutant(i) == due' = [due EXCEPT ![i] = {}] /\ UNCHANGED cur

\* The locals of the pass go.
Forget(i) == /\ due' = [due EXCEPT ![i] = {}]
             /\ cur' = [cur EXCEPT ![i] = NULL]

\* A loop without "except Exception": what a statement raises ends the task.
PassFailsMutant(i) ==
  /\ Fault
  /\ pc[i] \in {"list", "email", "apply", "audit"}
  /\ Goto(i, "ended")
  /\ Forget(i)
  /\ UNCHANGED <<dbVars, call, req, now, owner, depth>>

\* A statement of the pass raises: the finally clause still runs.
PassFails(i) ==
  /\ Fault
  /\ pc[i] \in {"list", "email", "apply", "audit"}
  /\ Goto(i, "release")
  /\ Forget(i)
  /\ UNCHANGED <<dbVars, call, req, now, owner, depth>>

\* RELEASE_LOCK raises: the loop logs that and sleeps.
ReleaseFails(i) ==
  /\ Fault
  /\ pc[i] = "release"
  /\ Goto(i, "sleep")
  /\ UNCHANGED <<dbVars, call, req, now, due, cur, owner, depth>>

\* Session k ends (wait_timeout, KILL, a network failure) and takes its lock
\* with it.  The pass that relies on the lock does not notice.
SessionDies(i, k) ==
  /\ Fault
  /\ owner = <<i, k>>
  /\ owner' = NULL /\ depth' = 0
  /\ UNCHANGED <<dbVars, call, req, now, pc, due, cur>>

\* The process dies and is started again: its sessions end, and a secret it has
\* made and not yet applied is lost.
Crash(i) ==
  /\ Fault
  /\ Goto(i, "sleep")
  /\ Forget(i)
  /\ IF owner \in {i} \X Conns THEN owner' = NULL /\ depth' = 0
                               ELSE UNCHANGED <<owner, depth>>
  /\ UNCHANGED <<dbVars, call, req, now>>

-----------------------------------------------------------------------------
Poll(i) == \E k \in Conns : GetLock(i, k)

PassStep(i) ==
  \/ List(i)
  \/ SkipZero(i)
  \/ Take(i)
  \/ PassDone(i)
  \/ Email(i)
  \/ Apply(i)
  \/ AuditRotation(i)
  \/ \E k \in Conns : ReleaseLock(i, k)

FaultStep(i) ==
  \/ PassFails(i)
  \/ ReleaseFails(i)
  \/ \E k \in Conns : SessionDies(i, k)
  \/ Crash(i)

StoreStep == StoreNext /\ UNCHANGED rotVars

Next ==
  \/ StoreStep
  \/ \E i \in Instances : Poll(i) \/ PassStep(i) \/ FaultStep(i)

Spec == Init /\ [][Next]_vars

-----------------------------------------------------------------------------
(***************************************************************************)
(* Properties.                                                             *)
(***************************************************************************)

\* The loops' variables have the values the code gives them, and a rotation is
\* in hand exactly between Take and the end of apply_rotation.
RotateTypeOK ==
  /\ StoreTypeOK
  /\ pc \in [Instances -> {"sleep", "list", "next", "email", "apply", "audit", "release"}]
  /\ due \in [Instances -> SUBSET Snapshot]
  /\ cur \in [Instances -> Rotation \cup {NULL}]
  /\ owner \in Session \cup {NULL}
  /\ depth \in Nat
  /\ \A i \in Instances : cur[i] # NULL <=> pc[i] \in {"email", "apply", "audit"}

\* The lock does its work: until some session, statement or process fails, two
\* instances never rotate at the same time, although a pass may leave the lock
\* with its own pool.
OneRotator ==
  faults = 0 =>
    \A i, j \in Instances : pc[i] # "sleep" /\ pc[j] # "sleep" => i = j

\* A secret in hand is new: no row has it until its own rotation is applied, no
\* two loops hold the same one, and it was made for the login that will get the
\* mail, who is the owner of the row it is meant for.
InHandIsFresh ==
  \A i \in Instances : cur[i] # NULL =>
    /\ cur[i].secret \in Secrets
    /\ minted[cur[i].secret] = cur[i].login
    /\ Has(cur[i].id) => tokens[cur[i].id].login = cur[i].login
    /\ \A id \in TokenIds :
         Has(id) /\ tokens[id].secret = cur[i].secret => pc[i] = "audit" /\ id = cur[i].id
    /\ \A j \in Instances : cur[j] # NULL /\ cur[j].secret = cur[i].secret => j = i

\* With rotation going on, a secret still opens its owner's account only.
RotateIdentity == IdentityCorrect /\ InHandIsFresh

\* Whatever passes run at the same time and however stale their lists, a row
\* gets a new secret only while it is due, so once per due date; it keeps its
\* owner, and its life gets longer when rotation_days is more than the lead.
RotationWhenDue ==
  [][\A id \in TokenIds :
       Has(id) /\ Has(id)' /\ tokens'[id].secret # tokens[id].secret =>
         /\ DueForRotation(id, LeadDays)
         /\ tokens'[id].login = tokens[id].login
         /\ tokens[id].days > LeadDays + Zone => tokens'[id].expires > tokens[id].expires]_vars

\* The comment at token_rotate.py:71, "Send email BEFORE applying rotation so
\* user gets new token": with SMTP and an address, an applied rotation was mailed.
UserGetsNewToken ==
  \A i \in Instances :
    faults = 0 /\ pc[i] = "audit" /\ Smtp /\ cur[i].login \in HasEmail => cur[i].emailed

\* A rotation in hand that is not applied yet has a secret that nobody can use.
InHand(s) ==
  \E i \in Instances : pc[i] \in {"email", "apply"} /\ cur[i].secret = s

RotateCred == INSTANCE Credential WITH
  Secret <- AllSecrets, Login <- Logins, Request <- Requests, None <- NULL,
  owner <- OwnerOf, life <- [s \in AllSecrets |-> LifeOf(s, InHand(s))], answer <- AnswerOf

\* Admins, verifications, and any number of loops, whatever locks they lose and
\* however stale their lists, keep Credential's promise.
RotateKeepsCredentials == RotateCred!CredSpec
=============================================================================
