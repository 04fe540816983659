----------------------------- MODULE Credential -----------------------------
(***************************************************************************)
(* What a user of the API tokens is promised, without tables, sessions and *)
(* locks: each secret belongs to one login for good, opens an account from *)
(* the moment it is issued or put in the place of another one, and once it *)
(* no longer does never does again.                                        *)
(***************************************************************************)
CONSTANTS Secret, Login, Request, None

VARIABLES
  owner,  \* the login each secret was made for, or None
  life,   \* "unmade", "made" (nobody can use it yet), "live" or "dead"
  answer  \* what each verification took its secret for, or None

CredInit ==
  /\ owner \in [Secret -> Login \cup {None}]
  /\ life = [s \in Secret |-> IF owner[s] = None THEN "unmade" ELSE "live"]
  /\ answer = [r \in Request |-> None]

\* A secret comes into being: to be issued at once, or to replace another.
Make(s, login, state) ==
  /\ life[s] = "unmade"
  /\ owner' = [owner EXCEPT ![s] = login]
  /\ life' = [life EXCEPT ![s] = state]
  /\ UNCHANGED answer

\* One secret takes the place of another of the same login, in one step: there is
\* no moment at which both are accepted, and none at which neither is.
Replace(old, new) ==
  /\ life[old] = "live" /\ life[new] = "made" /\ owner[new] = owner[old]
  /\ life' = [life EXCEPT ![old] = "dead", ![new] = "live"]
  /\ UNCHANGED <<owner, answer>>

\* Secrets are revoked, removed with their user, or lost before they were used.
Kill ==
  /\ life' \in [Secret -> {"unmade", "made", "live", "dead"}]
  /\ \A s \in Secret : life'[s] # life[s] => life[s] \in {"made", "live"} /\ life'[s] = "dead"
  /\ UNCHANGED <<owner, answer>>

\* A live secret is accepted, as its owner's.
Accept(r, s) ==
  /\ answer[r] = None
  /\ life[s] = "live"
  /\ answer' = [answer EXCEPT ![r] = [secret |-> s, login |-> owner[s]]]
  /\ UNCHANGED <<owner, life>>

Answer(r) ==
  /\ answer' = [answer EXCEPT ![r] = None]
  /\ UNCHANGED <<owner, life>>

CredNext ==
  \/ Kill
  \/ \E s \in Secret, login \in Login, state \in {"made", "live"} : Make(s, login, state)
  \/ \E old, new \in Secret : Replace(old, new)
  \/ \E r \in Request : Answer(r) \/ \E s \in Secret : Accept(r, s)

CredSpec == CredInit /\ [][CredNext]_<<owner, life, answer>>
=============================================================================
