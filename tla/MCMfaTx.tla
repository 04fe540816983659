------------------------------ MODULE MCMfaTx ------------------------------
(***************************************************************************)
(* A small instance of MfaTx for TLC.                                      *)
(***************************************************************************)
EXTENDS MfaTx
=============================================================================
