----------------------------- MODULE Catalogue ------------------------------
(***************************************************************************)
(* What staff do to the rows through the Django admin (activities/admin.py *)
(* registers Activity and Enrollment): edit an activity's fee, open and    *)
(* close it, and set the status of an enrollment.  The admin is Django's   *)
(* code; only its effect on the columns the portal reads is modelled.      *)
(***************************************************************************)
EXTENDS PortalData

SetFee(a, fee) ==
    /\ fee # activity[a].fee
    /\ activity' = [activity EXCEPT ![a].fee = fee]
    /\ UNCHANGED << child, verified, enrollment, wcs_id, wcs, invoice, lingo,
                    document, pdf >>

SetActive(a, active) ==
    /\ active # activity[a].is_active
    /\ activity' = [activity EXCEPT ![a].is_active = active]
    /\ UNCHANGED << child, verified, enrollment, wcs_id, wcs, invoice, lingo,
                    document, pdf >>

\* The admin saves the form's status over whatever the row holds by then.
StaffSetStatus(e, s) ==
    /\ Enrolled(e)
    /\ enrollment[e] # s
    /\ enrollment' = [enrollment EXCEPT ![e] = s]
    /\ UNCHANGED << child, activity, verified, wcs_id, wcs, invoice, lingo,
                    document, pdf >>

CatalogueNext ==
    \/ \E a \in Activities, fee \in Fees : SetFee(a, fee)
    \/ \E a \in Activities, active \in BOOLEAN : SetActive(a, active)
    \/ \E e \in Seats, s \in StaffStatuses : StaffSetStatus(e, s)
=============================================================================
