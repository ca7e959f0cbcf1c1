----------------------------- MODULE MCIdentity -----------------------------
(***************************************************************************)
(* An instance of Identity small enough for TLC.                           *)
(***************************************************************************)
EXTENDS Identity, TLC

IdentitySymmetry ==
    Permutations(Flows) \cup Permutations(Requests) \cup Permutations(Pages \ {Home})
=============================================================================
