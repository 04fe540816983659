---------------------------- MODULE MCTokenStore ----------------------------
(***************************************************************************)
(* Small instances of TokenStore for TLC.                                  *)
(***************************************************************************)
EXTENDS TokenStore, TLC

CONSTANT MaxEntries  \* bound: see FewEntries

\* Logins, admins and requests are interchangeable.
StoreSymmetry ==
  Permutations(Logins) \cup Permutations(Admins) \cup Permutations(Requests)

\* A behaviour is followed until this many different entries are logged.
FewEntries == Cardinality(Logged) <= MaxEntries
=============================================================================
