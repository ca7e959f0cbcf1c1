------------------------------- MODULE MCLingo -------------------------------
(***************************************************************************)
(* Instances of Lingo small enough for TLC.                                *)
(***************************************************************************)
EXTENDS Lingo, TLC

CONSTANTS r1, r2

RequestSymmetry == Permutations(Requests)
=============================================================================
