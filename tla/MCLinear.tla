------------------------------ MODULE MCLinear ------------------------------
(***************************************************************************)
(* Instances of LinearAgreement for TLC: sizes scaled down so that a row   *)
(* has up to three chunks, the last one incomplete, tasks have several     *)
(* rows, and blocks reach over the edge of the output.                     *)
(***************************************************************************)
EXTENDS LinearAgreement

CONSTANTS w1, w2
=============================================================================
