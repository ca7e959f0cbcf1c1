------------------------------- MODULE Portal -------------------------------
(***************************************************************************)
(* The whole portal: parents and staff editing rows, requests enrolling    *)
(* children and requests paying invoices, all interleaved over one         *)
(* database, with the properties that make the portal right.               *)
(***************************************************************************)
EXTENDS Families, Catalogue, Enrolling, Payments

vars == << dataVars, enroll, pay >>

Init == DataInit /\ EnrollInit /\ PayInit

Next ==
    \/ (FamilyNext \/ CatalogueNext) /\ UNCHANGED << enroll, pay >>
    \/ EnrollNext /\ UNCHANGED pay
    \/ PayNext /\ UNCHANGED enroll
    \/ (\E e \in Seats : LazyInvoice(e)) /\ UNCHANGED << enroll, pay >>

Spec == Init /\ [][Next]_vars

\* A thread that serves a request keeps running, and its remote calls end:
\* each has a timeout (activities/gateways.py:203, billing/gateways.py:209 and
\* :268).  Nobody is obliged to click, so no request is ever promised to start.
Fairness ==
    /\ \A t \in EnrollThreads : WF_vars(EnrollStep(t) /\ UNCHANGED pay)
    /\ \A p \in PayThreads : WF_vars(PayStep(p) /\ UNCHANGED enroll)

FairSpec == Spec /\ Fairness
-----------------------------------------------------------------------------
TypeOK == DataTypeOK /\ EnrollTypeOK /\ PayTypeOK

\* A place in an activity is never granted without payment: a confirmed
\* enrollment has an invoice and it is PAID, whatever requests, staff edits,
\* deletions and crashes interleave (billing/signals.py:36-43,
\* billing/gateways.py:132-140 and :276-289).
ConfirmedIsPaid ==
    \A e \in Seats : enrollment[e] = "CONFIRMED" => Paid(e)

\* A document the parent can download stands for a payment that went through:
\* its invoice is PAID, the file exists, and the enrollment is no longer
\* waiting for payment (billing/views.py:75-106, in that order).
DocumentIsSettled ==
    \A e \in Seats :
        document[e] = "linked" =>
            /\ Paid(e)
            /\ pdf[e] # NoPdf
            /\ enrollment[e] # "PENDING_PAYMENT"

\* Only the children of verified parents, or of staff, are enrolled
\* (activities/views.py:170-179).
EnrolledIsVerified ==
    \A e \in Seats : Enrolled(e) => ParentOf[e[1]] \in Staff \/ verified[ParentOf[e[1]]]

\* No request takes a payment back: once PAID, an invoice stays PAID until it
\* is deleted with its child, although enroll requests save invoices they read
\* earlier (billing/gateways.py:109-112 and :222-231 name the fields they save).
PaidIsFinal ==
    [][\A e \in Seats : Paid(e) => (Paid(e)' \/ ~Invoiced(e)')]_vars

\* How far an activity is overbooked is bounded by the number of threads that
\* can be between the count and the insert (activities/views.py:183-196).
OverbookingBounded ==
    \A a \in Activities :
        HasLimit(a) =>
            Cardinality(Enrollments(a))
                =< Capacity[a] + Cardinality(EnrollThreads) - 1

\* "Optional maximum number of participants" (activities/models.py:32).
CapacityRespected ==
    \A a \in Activities :
        HasLimit(a) => Cardinality(Enrollments(a)) =< Capacity[a]
-----------------------------------------------------------------------------
\* However often a parent submits the form, and whatever Lingo's answers,
\* an enrollment is billed to Lingo at most once (activities/views.py:196-203).
BilledOnceAtLingo == \A e \in Seats : lingo[e].created =< 1

\* Whatever Lingo answers, the portal shows nothing as paid, confirmed or
\* documented before Lingo has taken a payment, and the identifier it keeps is
\* one Lingo has given (billing/gateways.py:266-289, billing/views.py:75-106).
PaidIsPaidAtLingo ==
    \A e \in Seats :
        /\ Paid(e) \/ enrollment[e] = "CONFIRMED" \/ document[e] = "linked"
              => lingo[e].paid > 0
        /\ invoice[e].lingo_id =< lingo[e].created

\* A payment is posted for, and recorded on, the invoice that the row names at
\* Lingo, although the request goes by the identifier it read when it began,
\* and an invoice that Lingo does not know is never PAID
\* (billing/gateways.py:259-283).
PaysMirroredInvoice ==
    /\ \A e \in Seats : Paid(e) => invoice[e].lingo_id # 0
    /\ \A p \in PayThreads :
          (Paying(p, "lingo") \/ Paying(p, "mark")) /\ Invoiced(pay[p].seat)
              => invoice[pay[p].seat].lingo_id = pay[p].lingo_id

\* An invoice that has its identifier keeps it: no other enroll request, and no
\* invoice the list page made meanwhile, ever makes it stand for another
\* invoice at Lingo (billing/gateways.py:216-231, billing/models.py:99-127).
MirrorIsFinal ==
    [][\A e \in Seats :
          Invoiced(e) /\ invoice[e].lingo_id # 0 =>
              invoice'[e].lingo_id = invoice[e].lingo_id \/ ~Invoiced(e)']_vars

\* Every enrollment the portal shows exists at WCS, under the identifier kept
\* (activities/gateways.py:201-219: the remote call comes first).
EnrolledIsAtWcs ==
    \A e \in Seats : Enrolled(e) => wcs_id[e] \in 1..wcs[e]

\* "Duplicate payment check" (billing/views.py:67): Lingo is paid once.
PaidOnceAtLingo == \A e \in Seats : lingo[e].paid =< 1

\* The gateway promises "mirroring creation to Lingo" (billing/gateways.py:185):
\* an invoice that no request is still creating has its identifier.
InvoiceIsAtLingo ==
    \A e \in Seats :
        (Invoiced(e) /\ \A t \in EnrollThreads : enroll[t].seat # e)
            => invoice[e].lingo_id # 0
-----------------------------------------------------------------------------
\* Once its invoice is PAID, an enrollment gets confirmed, unless the child is
\* removed (the signal's purpose, billing/signals.py:5-7).
PaidIsConfirmed ==
    \A e \in Seats :
        Paid(e) ~> (enrollment[e] = "CONFIRMED" \/ ~Enrolled(e))

\* A paid invoice gets its document when writing the file does not fail, even
\* if two requests pay it together and only one can store the document
\* (billing/views.py:93-106).
PaidIsDocumented ==
    \A e \in Seats : Paid(e) ~> (document[e] = "linked" \/ ~Enrolled(e))

\* What the three promises of progress rest on, without crashes, failing disks
\* and staff edits: whatever is not finished is in the hands of a request that
\* finishes it, however many requests pay one invoice and whatever copies they
\* hold (activities/views.py:193-203, billing/views.py:75-106).
NothingForgotten ==
    \A e \in Seats :
        /\ Enrolled(e) /\ ~Invoiced(e) =>
              \E t \in EnrollThreads : Working(t, "bill") /\ enroll[t].seat = e
        /\ Paid(e) /\ enrollment[e] # "CONFIRMED" =>
              \E p \in PayThreads :
                  Paying(p, "confirm") /\ pay[p].seat = e /\ ~pay[p].confirmed
        /\ Paid(e) /\ document[e] # "linked" =>
              \E p \in PayThreads :
                  pay[p].pc \in {"confirm", "pdf", "store"} /\ pay[p].seat = e

\* An enrollment gets its invoice without anybody opening the enrollment list
\* (activities/views.py:193-203).
EnrolledIsInvoiced ==
    \A e \in Seats : Enrolled(e) ~> (Invoiced(e) \/ ~Enrolled(e))
=============================================================================
