---------------------------- MODULE MCCallbacks ----------------------------
(***************************************************************************)
(* An instance of LingoCallbacks small enough for TLC.                     *)
(***************************************************************************)
EXTENDS LingoCallbacks

CONSTANTS o1, o2, r1, r2
=============================================================================
