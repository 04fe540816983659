------------------------------ MODULE SqlNull ------------------------------
(***************************************************************************)
(* The value that the modules Server is composed of share.                 *)
(***************************************************************************)
CONSTANT NULL  \* SQL NULL, a missing row, what is not set
=============================================================================
