------------------------------ MODULE MCPortal ------------------------------
(***************************************************************************)
(* Instances of Portal small enough for TLC.                               *)
(***************************************************************************)
EXTENDS Portal, TLC

CONSTANTS u1, u2, c1, c2, c3, a1, a2, t1, t2, p1, p2

OneParent == [c \in Children |-> u1]
TwoFamilies == (c1 :> u1 @@ c2 :> u2 @@ c3 :> u1)

OnePlace == [a \in Activities |-> 1]
Unlimited == [a \in Activities |-> NoLimit]

ThreadSymmetry ==
    Permutations(EnrollThreads) \cup Permutations(PayThreads)
=============================================================================
