--------------------------- MODULE MCTokenRotate ----------------------------
(***************************************************************************)
(* Small instances of TokenRotate for TLC.                                 *)
(***************************************************************************)
EXTENDS TokenRotate, TLC

CONSTANT MaxEntries  \* bound: see FewEntries

\* Logins may differ in HasEmail only, which the safety run leaves empty.
RotateSymmetry ==
  Permutations(Logins) \cup Permutations(Admins) \cup Permutations(Instances)
    \cup Permutations(Conns)

\* A behaviour is followed until this many different entries are logged.
FewEntries == Cardinality(Logged) <= MaxEntries
=============================================================================
