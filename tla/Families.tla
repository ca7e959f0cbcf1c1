------------------------------ MODULE Families ------------------------------
(***************************************************************************)
(* The parents' own data: their children (families/views.py) and their     *)
(* identity check (accounts/views_identity.py).                            *)
(***************************************************************************)
EXTENDS PortalData

\* ChildCreateView: the row takes the logged-in user as its parent.
AddChild(c) ==
    /\ child[c] = "absent"
    /\ child' = [child EXCEPT ![c] = "present"]
    /\ UNCHANGED << activity, verified, enrollment, wcs_id, wcs, invoice,
                    lingo, document, pdf >>

\* Document.invoice is SET_NULL: the document of a deleted invoice stays.
Unlinked(d) == IF d = "linked" THEN "unlinked" ELSE d

\* ChildDeleteView: Django deletes the child, its enrollments and their
\* invoices in one transaction; documents and files survive, and so does
\* what the remote services hold.
DeleteChild(c) ==
    /\ child[c] = "present"
    /\ child' = [child EXCEPT ![c] = "deleted"]
    /\ enrollment' = [e \in Seats |-> IF e[1] = c THEN "absent"
                                                  ELSE enrollment[e]]
    /\ wcs_id' = [e \in Seats |-> IF e[1] = c THEN 0 ELSE wcs_id[e]]
    /\ invoice' = [e \in Seats |-> IF e[1] = c THEN NoInvoice ELSE invoice[e]]
    /\ document' = [e \in Seats |-> IF e[1] = c THEN Unlinked(document[e])
                                                ELSE document[e]]
    /\ UNCHANGED << activity, verified, wcs, lingo, pdf >>

\* The identity step succeeds for a user who is not staff.  How the portal
\* gets there (simulation form or OIDC round trip) is not in this module.
VerifyIdentity(u) ==
    /\ u \notin Staff
    /\ ~verified[u]
    /\ verified' = [verified EXCEPT ![u] = TRUE]
    /\ UNCHANGED << child, activity, enrollment, wcs_id, wcs, invoice, lingo,
                    document, pdf >>

FamilyNext ==
    \/ \E c \in Children : AddChild(c) \/ DeleteChild(c)
    \/ \E u \in Parents : VerifyIdentity(u)
=============================================================================
