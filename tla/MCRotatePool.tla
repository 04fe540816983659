---------------------------- MODULE MCRotatePool -----------------------------
(***************************************************************************)
(* Small instances of RotatePool for TLC.                                  *)
(***************************************************************************)
EXTENDS RotatePool

CONSTANTS c1, c2

\* minsize is 2.
TwoSessions == <<c1, c2>>

\* The pool begins with one session, so that two are enough for it to grow.
OneSession == <<c1>>
=============================================================================
