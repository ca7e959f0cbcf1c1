-------------------------- MODULE PortalRefinement --------------------------
(***************************************************************************)
(* The portal implements EnrollmentLifecycle as long as staff leave the    *)
(* statuses of the enrollments alone and a payment is answered with PAID.  *)
(***************************************************************************)
EXTENDS Portal

\* The stage of an enrollment is not stored: it is read off five tables and
\* the file, and most of their combinations are no stage at all.
Stage ==
    [e \in Seats |->
        CASE /\ child[e[1]] = "deleted" /\ ~Enrolled(e) /\ ~Invoiced(e)
             /\ document[e] # "linked" -> "gone"
          [] /\ child[e[1]] # "deleted" /\ ~Enrolled(e) /\ ~Invoiced(e)
             /\ document[e] = "none" -> "none"
          [] /\ enrollment[e] = "PENDING_PAYMENT" /\ ~Invoiced(e)
             /\ document[e] = "none" -> "enrolled"
          [] /\ enrollment[e] = "PENDING_PAYMENT" /\ Invoiced(e) /\ ~Paid(e)
             /\ document[e] = "none" -> "billed"
          [] /\ enrollment[e] = "PENDING_PAYMENT" /\ Paid(e)
             /\ document[e] = "none" -> "paid"
          [] /\ enrollment[e] = "CONFIRMED" /\ Paid(e)
             /\ document[e] = "none" -> "confirmed"
          [] /\ enrollment[e] = "CONFIRMED" /\ Paid(e)
             /\ document[e] = "linked" /\ pdf[e] # NoPdf -> "settled"
          [] OTHER -> "inconsistent"]

Lifecycle == INSTANCE EnrollmentLifecycle WITH stage <- Stage

\* Every step of every interleaving, with crashes, moves an enrollment by at
\* most one stage and never back: no request confirms what is not paid, stores
\* a document for what is not confirmed, or undoes another's work.
ImplementsLifecycle == Lifecycle!Spec
=============================================================================
