----------------------------- MODULE RotatePool ------------------------------
(***************************************************************************)
(* The rotation loops of TokenRotate on the pool of sessions they really   *)
(* have: one aiomysql pool per instance, created by server.py and shared   *)
(* with every request that instance serves.                                *)
(*                                                                         *)
(* aiomysql keeps the sessions nobody uses in a queue.  An acquire gets the *)
(* one at its head, or a new session if the queue is empty and the pool may *)
(* grow; a release puts it at the tail.  So a loop cannot choose the        *)
(* session of its GET_LOCK, which is what decides whether it rotates.       *)
(***************************************************************************)
EXTENDS TokenRotate

CONSTANTS
  FirstSessions,  \* the sessions create_pool opens: minsize, 2
  MaxLent         \* bound: sessions that requests have at once

VARIABLES
  free,  \* the queue of each instance's pool
  lent   \* the sessions that requests of the instance have

poolVars == <<free, lent>>
allVars  == <<vars, poolVars>>

ASSUME PoolAssumption ==
  /\ FirstSessions \in Seq(Conns) /\ FirstSessions # <<>>
  /\ \A m, n \in DOMAIN FirstSessions : FirstSessions[m] = FirstSessions[n] => m = n
  /\ MaxLent \in Nat

Queued(i) == {free[i][n] : n \in DOMAIN free[i]}
Open(i)   == Queued(i) \cup lent[i]

PoolInit ==
  /\ Init
  /\ free = [i \in Instances |-> FirstSessions]
  /\ lent = [i \in Instances |-> {}]

-----------------------------------------------------------------------------
(***************************************************************************)
(* The pool.                                                               *)
(***************************************************************************)

\* What an acquire may return: the head of the queue, or a new session.
Handed(i) == IF free[i] # <<>> THEN {Head(free[i])} ELSE Conns \ lent[i]

\* The queue after that acquire.
Rest(i) == IF free[i] # <<>> THEN Tail(free[i]) ELSE <<>>

\* A statement of the loop: "async with pool.acquire()" around one execute.
Turn(i, k) ==
  /\ k \in Handed(i)
  /\ free' = [free EXCEPT ![i] = Append(Rest(i), k)]
  /\ UNCHANGED lent

\* Anybody else acquires a session: a verification, the clean-up, a panel's call.
Borrow(i) ==
  /\ Cardinality(lent[i]) < MaxLent
  /\ \E k \in Handed(i) : lent' = [lent EXCEPT ![i] = @ \cup {k}]
  /\ free' = [free EXCEPT ![i] = Rest(i)]
  /\ UNCHANGED vars

\* It gives the session back.
Return(i) ==
  /\ \E k \in lent[i] : /\ lent' = [lent EXCEPT ![i] = @ \ {k}]
                        /\ free' = [free EXCEPT ![i] = Append(@, k)]
  /\ UNCHANGED vars

-----------------------------------------------------------------------------
(***************************************************************************)
(* The steps of the loops, each with the session it takes.                 *)
(***************************************************************************)

\* A poll: GET_LOCK on the session the pool hands out.  When another session
\* has the lock it answers 0 and the loop sleeps again.
PollOn(i, k) ==
  /\ pc[i] = "sleep"
  /\ Turn(i, k)
  /\ IF Grantable(<<i, k>>) THEN GetLock(i, k) ELSE UNCHANGED vars

PoolPoll(i) == \E k \in Handed(i) : PollOn(i, k)

\* A statement on whichever session that is.
TakesTurn(i) == \E k \in Handed(i) : Turn(i, k)

\* The steps of a pass that run no statement, or the second on the same session:
\* apply_rotation has one session for both, which it takes at the first.
LocalStep(i) ==
  \/ SkipZero(i)
  \/ Take(i)
  \/ PassDone(i)
  \/ AuditRotation(i)

\* get_email is only called when there is SMTP.
PoolPassStep(i) ==
  \/ List(i) /\ TakesTurn(i)
  \/ Apply(i) /\ TakesTurn(i)
  \/ Email(i) /\ IF Smtp THEN TakesTurn(i) ELSE UNCHANGED poolVars
  \/ LocalStep(i) /\ UNCHANGED poolVars
  \/ \E k \in Handed(i) : ReleaseLock(i, k) /\ Turn(i, k)

\* A statement raises, or the acquire before it does.
PoolStatementFails(i) ==
  /\ PassFails(i) \/ ReleaseFails(i)
  /\ TakesTurn(i) \/ UNCHANGED poolVars

\* The queue without session k, which a request may have instead.
Without(i, k) ==
  LET q == free[i] IN
  IF k \in lent[i] THEN {q}
  ELSE {SubSeq(q, 1, n - 1) \o SubSeq(q, n + 1, Len(q)) : n \in {m \in DOMAIN q : q[m] = k}}

\* The session that has the lock ends.  The pool drops it when it next looks,
\* and opens another if it has fewer than it began with.
PoolSessionDies(i, k) ==
  /\ SessionDies(i, k)
  /\ lent' = [lent EXCEPT ![i] = @ \ {k}]
  /\ \E left \in Without(i, k) :
       IF Cardinality(Open(i)) > Len(FirstSessions)
       THEN free' = [free EXCEPT ![i] = left]
       ELSE \E new \in Conns \ (Open(i) \ {k}) : free' = [free EXCEPT ![i] = Append(left, new)]

\* A process that starts again and still counts its old sessions as in use.
PoolCrashMutant(i) ==
  /\ Crash(i)
  /\ free' = [free EXCEPT ![i] = FirstSessions]
  /\ UNCHANGED lent

\* The process ends, its requests with it, and its successor opens a pool.
PoolCrash(i) ==
  /\ Crash(i)
  /\ free' = [free EXCEPT ![i] = FirstSessions]
  /\ lent' = [lent EXCEPT ![i] = {}]

-----------------------------------------------------------------------------
PoolFaultStep(i) ==
  \/ PoolStatementFails(i)
  \/ \E k \in Conns : PoolSessionDies(i, k)
  \/ PoolCrash(i)

PoolNext ==
  \/ StoreStep /\ UNCHANGED poolVars
  \/ \E i \in Instances :
       PoolPoll(i) \/ PoolPassStep(i) \/ PoolFaultStep(i) \/ Borrow(i) \/ Return(i)

PoolSpec == PoolInit /\ [][PoolNext]_allVars

\* The loop wakes up every POLL_SECONDS and polls, on whatever session it is
\* given; the event loop runs a pass that has begun; a request ends.
PoolFairness ==
  \A i \in Instances : /\ WF_allVars(PoolPoll(i))
                       /\ WF_allVars(PoolPassStep(i))
                       /\ WF_allVars(Return(i))

FairPoolSpec == PoolSpec /\ PoolFairness

-----------------------------------------------------------------------------
(***************************************************************************)
(* Properties.                                                             *)
(***************************************************************************)

\* A session is in the queue once or with a request, and the lock is with a
\* session that a pool has, so that some poll can come to it again.
PoolTypeOK ==
  /\ free \in [Instances -> Seq(Conns)]
  /\ lent \in [Instances -> SUBSET Conns]
  /\ \A i \in Instances :
       /\ \A m, n \in DOMAIN free[i] : free[i][m] = free[i][n] => m = n
       /\ Queued(i) \cap lent[i] = {}
       /\ \A k \in Conns : owner = <<i, k>> => k \in Open(i)

\* A row whose new expiry would not take it out of the due rows stays due.
StaysDue(id) == DueForRotation(id, LeadDays) /\ tokens[id].days <= LeadDays + Zone

\* Rows that stay due fill the batch, so that others may never get into it.
Crowded == Cardinality({id \in TokenIds : StaysDue(id)}) >= BatchLimit

\* The docstring at token_rotate.py:3-5: a row with auto_rotate = 1 that is within
\* the lead gets a replacement secret.  In the end it is rotated, revoked or
\* removed, unless rows that stay due fill the batch.
DueIsReplaced ==
  \A id \in TokenIds :
    (DueForRotation(id, LeadDays) /\ ~StaysDue(id)) ~>
      (~DueForRotation(id, LeadDays) \/ Crowded)

\* No request has a session of the instance that has the lock.
HolderIsQuiet == \A i \in Instances, k \in Conns : owner = <<i, k>> => lent[i] = {}

\* It is, whatever releases miss and whatever fails on the way, if from some time
\* on an instance serves no requests while one of its sessions has the lock: its
\* polls then take turns through the queue and come back to that session.
DueIsServed == <>[]HolderIsQuiet => DueIsReplaced
=============================================================================
