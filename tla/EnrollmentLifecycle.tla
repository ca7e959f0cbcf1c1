------------------------- MODULE EnrollmentLifecycle -------------------------
(***************************************************************************)
(* What the portal promises about one enrollment, whoever acts on it: it   *)
(* is enrolled, then billed, then paid, then confirmed, then settled by a  *)
(* document, one stage at a time and never backwards, until the child is   *)
(* removed from the portal.                                                *)
(***************************************************************************)
CONSTANT Seats

VARIABLE stage

Stages == {"none", "enrolled", "billed", "paid", "confirmed", "settled", "gone"}

Init == stage = [e \in Seats |-> "none"]

Advance(e, from, to) ==
    /\ stage[e] = from
    /\ stage' = [stage EXCEPT ![e] = to]

\* A child leaves with all its enrollments.
Remove(removed) ==
    stage' = [e \in Seats |-> IF e \in removed THEN "gone" ELSE stage[e]]

Next ==
    \/ \E e \in Seats :
        \/ Advance(e, "none", "enrolled")
        \/ Advance(e, "enrolled", "billed")
        \/ Advance(e, "billed", "paid")
        \/ Advance(e, "paid", "confirmed")
        \/ Advance(e, "confirmed", "settled")
    \/ \E removed \in SUBSET Seats : Remove(removed)

Spec == Init /\ [][Next]_stage
=============================================================================
