------------------------------ MODULE MCForward ------------------------------
(***************************************************************************)
(* The instance of Forward for TLC: three layers, one of them in the       *)
(* middle of the stack, and two positions.                                 *)
(***************************************************************************)
EXTENDS Forward

CONSTANTS t1, t2
=============================================================================
