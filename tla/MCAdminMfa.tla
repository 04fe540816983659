----------------------------- MODULE MCAdminMfa -----------------------------
(***************************************************************************)
(* Small instances of AdminMfa for TLC.                                    *)
(***************************************************************************)
EXTENDS AdminMfa, TLC

\* Logins and callers are interchangeable.
MfaSymmetry == Permutations(Logins) \cup Permutations(Callers)

\* Nothing is, or is being done, about that login.
Untouched(l) ==
  /\ users[l] = NULL /\ logged[l] = NULL /\ CodesOf(l) = {}
  /\ \A c \in Callers : call[c] # NULL => call[c].login # l

OneUser == \E l \in Logins : \A m \in Logins \ {l} : Untouched(m)

\* Every user is an administrator, and MFA is not required.
OnePolicy == ~required /\ \A l \in Logins : Has(l) => users[l].role = "admin"

\* The callers are not busy with the same user, and at most one code has been used.
SideBySide ==
  /\ accepts <= 1
  /\ \A c, d \in Callers :
       c # d /\ call[c] # NULL /\ call[d] # NULL => call[c].login # call[d].login

\* The clock decides whether a secret may be confirmed, roles and policy whether MFA
\* may be disabled, and neither depends on another user.  So a behaviour is followed
\* while it is about one user and either the clock stands or the policy is the one
\* above, and with two users side by side while both do.
Followed ==
  \/ OneUser /\ (now = 0 \/ OnePolicy)
  \/ SideBySide /\ now = 0 /\ OnePolicy
=============================================================================
