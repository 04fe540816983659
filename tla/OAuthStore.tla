----------------------------- MODULE OAuthStore -----------------------------
(***************************************************************************)
(* The OAuth key-value store, src/auth/oauth_store.py, and the loop of     *)
(* each server (server.py) that deletes its stale entries.                 *)
(*                                                                         *)
(* The values are encrypted and never compared: an entry is the time of    *)
(* its last set, as MySQL wrote it into updated_at, Zone hours from UTC.   *)
(* How long the loop sleeps is left out.                                   *)
(***************************************************************************)
EXTENDS SqlNull, Integers

CONSTANTS
  Servers,  \* server instances
  Keys,     \* keys of oauth_kv
  Asleep,   \* what a loop is between two clean-ups
  MaxAge,   \* max_age_hours: 24
  Zone,     \* hours by which the database session's time is ahead of UTC
  MaxTime   \* bound: the last hour of the clock

VARIABLES
  kv,       \* updated_at of each key, or NULL
  cleanup,  \* the loop of each server: NULL (it does not run), Asleep, or its cutoff
  now,      \* the hour, in UTC
  lastSet   \* history: the hour of the last set of each key, in UTC

kvVars == <<kv, cleanup, now, lastSet>>

ASSUME KvAssumption ==
  /\ MaxAge \in Nat /\ Zone \in Int /\ MaxTime \in Nat
  /\ NULL \notin Int /\ Asleep \notin Int /\ Asleep # NULL

KvTypeOK ==
  /\ kv \in [Keys -> Int \cup {NULL}]
  /\ cleanup \in [Servers -> Int \cup {NULL, Asleep}]
  /\ now \in Nat
  /\ lastSet \in [Keys -> Nat]

KvInit ==
  /\ kv = [k \in Keys |-> NULL]
  /\ cleanup = [s \in Servers |-> NULL]
  /\ now = 0
  /\ lastSet = [k \in Keys |-> 0]

\* A table without ON UPDATE CURRENT_TIMESTAMP.
SetKeyMutant(k) ==
  /\ kv' = [kv EXCEPT ![k] = IF @ = NULL THEN now + Zone ELSE @]
  /\ lastSet' = [lastSet EXCEPT ![k] = now]
  /\ UNCHANGED <<cleanup, now>>

\* set: ON UPDATE CURRENT_TIMESTAMP, as an encrypted value never is the old one.
SetKey(k) ==
  /\ kv' = [kv EXCEPT ![k] = now + Zone]
  /\ lastSet' = [lastSet EXCEPT ![k] = now]
  /\ UNCHANGED <<cleanup, now>>

DeleteKey(k) ==
  /\ kv' = [kv EXCEPT ![k] = NULL]
  /\ UNCHANGED <<cleanup, now, lastSet>>

\* cleanup_stale computes the cutoff in UTC.
CutOff(s) ==
  /\ cleanup[s] = Asleep
  /\ cleanup' = [cleanup EXCEPT ![s] = now]
  /\ UNCHANGED <<kv, now, lastSet>>

Sweeping(s) == cleanup[s] \notin {NULL, Asleep}

\* updated_at < DATE_SUB(cutoff, INTERVAL max_age_hours HOUR)
Older(k, cutoff) == kv[k] # NULL /\ kv[k] < cutoff - MaxAge

\* Its DELETE.
Sweep(s) ==
  /\ Sweeping(s)
  /\ kv' = [k \in Keys |-> IF Older(k, cleanup[s]) THEN NULL ELSE kv[k]]
  /\ cleanup' = [cleanup EXCEPT ![s] = Asleep]
  /\ UNCHANGED <<now, lastSet>>

\* A loop without "except Exception".
SweepFailsMutant(s) ==
  /\ Sweeping(s)
  /\ cleanup' = [cleanup EXCEPT ![s] = NULL]
  /\ UNCHANGED <<kv, now, lastSet>>

\* The DELETE raises: the loop logs it and goes on.
SweepFails(s) ==
  /\ Sweeping(s)
  /\ cleanup' = [cleanup EXCEPT ![s] = Asleep]
  /\ UNCHANGED <<kv, now, lastSet>>

Tick ==
  /\ now < MaxTime
  /\ now' = now + 1
  /\ UNCHANGED <<kv, cleanup, lastSet>>

-----------------------------------------------------------------------------
\* "Delete KV entries older than max_age_hours" (oauth_store.py:67): a sweep takes
\* no entry that was set later than that, however long ago its cutoff was computed
\* and whoever has set the key since.
FreshIsKept ==
  [][\A s \in Servers, k \in Keys :
       Sweep(s) /\ kv[k] # NULL /\ kv'[k] = NULL => now - lastSet[k] > MaxAge]_kvVars

\* An entry older than that, by the clocks the code uses.
Stale(k) == kv[k] # NULL /\ kv[k] < now - MaxAge
=============================================================================
