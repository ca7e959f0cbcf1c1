----------------------------- MODULE Enrolling ------------------------------
(***************************************************************************)
(* EnrollView.post (activities/views.py:135-218) and the gateway calls it  *)
(* makes.  The server runs each request on a thread; a request is cut      *)
(* where it commits to the database, where it talks to a remote service,   *)
(* and where it uses a value it read earlier.  enroll[t] is thread t's     *)
(* local state.                                                            *)
(***************************************************************************)
EXTENDS PortalData

CONSTANT EnrollThreads

ASSUME EnrollThreadsAssumption ==
    IsFiniteSet(EnrollThreads) /\ EnrollThreads # {}

VARIABLE enroll

EnrollSteps ==
    {"idle", "count", "wcs", "create", "lingo", "bill", "save", "confirm"}

EnrollStates ==
    [pc : EnrollSteps,
     seat : Seats \cup {NoSeat},
     fee : Nat,          \* activity.fee as read at line 152
     remote_id : Nat,    \* the id the last remote call gave
     paid : BOOLEAN]     \* was the invoice it read PAID?

EnrollTypeOK ==
    /\ enroll \in [EnrollThreads -> EnrollStates]
    /\ \A t \in EnrollThreads :
          enroll[t].pc = "idle" <=> enroll[t].seat = NoSeat

NoEnroll == [pc |-> "idle", seat |-> NoSeat, fee |-> 0, remote_id |-> 0,
             paid |-> FALSE]

EnrollInit == enroll = [t \in EnrollThreads |-> NoEnroll]

GoTo(t, pc) == enroll' = [enroll EXCEPT ![t].pc = pc]
\* Mutant: the next request on the thread starts with the last one's values.
LeakyEnd(t) == GoTo(t, "idle")
EndEnroll(t) == enroll' = [enroll EXCEPT ![t] = NoEnroll]
Working(t, pc) == enroll[t].pc = pc

\* Mutant: the check is left to the middleware (accounts/middleware.py).
UncheckedIdentity(u) == TRUE
IdentityChecked(u) == u \in Staff \/ verified[u]

\* The form's queryset.
OwnChild(u, c) == child[c] = "present" /\ ParentOf[c] = u

\* Lines 152-179: the activity is active, the form names a child of the
\* user, and the user is staff or verified.  A request that fails a check
\* redirects and changes nothing.
EnrollRequest(t, u, c, a) ==
    /\ Working(t, "idle")
    /\ wcs[<<c, a>>] < MaxRemote
    /\ activity[a].is_active
    /\ OwnChild(u, c)
    /\ IdentityChecked(u)
    /\ enroll' = [enroll EXCEPT ![t] =
                    [NoEnroll EXCEPT !.pc = "count", !.seat = <<c, a>>,
                                     !.fee = activity[a].fee]]
    /\ UNCHANGED dataVars

\* Mutant: off by one at the last place.
OneMorePlace(a) == HasLimit(a) => Cardinality(Enrollments(a)) =< Capacity[a]
PlaceLeft(a) == HasLimit(a) => Cardinality(Enrollments(a)) < Capacity[a]

EnrollmentGateway == IF EnrollmentBackend = "wcs" THEN "wcs" ELSE "create"

\* Lines 182-187.
CheckCapacity(t) ==
    /\ Working(t, "count")
    /\ IF PlaceLeft(enroll[t].seat[2])
         THEN GoTo(t, EnrollmentGateway)
         ELSE EndEnroll(t)
    /\ UNCHANGED dataVars

\* EnrollmentCreationError, caught by the view, which gives up.
\* Mutant: swallowed by the gateway, which goes on with its own table.
SwallowedEnrollmentError(t) == GoTo(t, "create")
EnrollmentError(t) == EndEnroll(t)

\* WcsEnrollmentGateway.create_enrollment posts to WCS before it looks at its
\* own table.  WCS refuses, or registers the enrollment; a lost answer raises
\* EnrollmentCreationError although WCS has registered it.
WcsCreate(t) ==
    LET e == enroll[t].seat IN
    /\ Working(t, "wcs")
    /\ \/ EnrollmentError(t) /\ UNCHANGED wcs
       \/ EnrollmentError(t) /\ wcs' = [wcs EXCEPT ![e] = @ + 1]
       \/ /\ wcs' = [wcs EXCEPT ![e] = @ + 1]
          /\ enroll' = [enroll EXCEPT
                ![t] = [@ EXCEPT !.pc = "create", !.remote_id = wcs[e] + 1]]
    /\ UNCHANGED << child, activity, verified, enrollment, wcs_id, invoice,
                    lingo, document, pdf >>

BillingGateway == IF BillingBackend = "lingo" THEN "lingo" ELSE "bill"

\* After the enrollment: bill it, unless it was already there (line 196).
\* Mutants: no such check; the check the wrong way round.
BillAlways(t, created) == GoTo(t, BillingGateway)
BillExisting(t, created) ==
    IF created THEN EndEnroll(t) ELSE GoTo(t, BillingGateway)
AfterCreate(t, created) ==
    IF created THEN GoTo(t, BillingGateway) ELSE EndEnroll(t)

WcsIdOf(t, e) == IF EnrollmentBackend = "wcs" THEN enroll[t].remote_id
                                              ELSE wcs_id[e]

\* get_or_create in one transaction, with the wcs_id written over the one
\* the row had.  A child deleted meanwhile is an IntegrityError, which the
\* view turns into a redirect.
CreateEnrollment(t) ==
    LET e == enroll[t].seat IN
    /\ Working(t, "create")
    /\ IF child[e[1]] # "present"
         THEN EndEnroll(t) /\ UNCHANGED << enrollment, wcs_id >>
         ELSE /\ enrollment' = [enrollment EXCEPT
                                  ![e] = IF @ = "absent" THEN "PENDING_PAYMENT"
                                                         ELSE @]
              /\ wcs_id' = [wcs_id EXCEPT ![e] = WcsIdOf(t, e)]
              /\ AfterCreate(t, ~Enrolled(e))
    /\ UNCHANGED << child, activity, verified, wcs, invoice, lingo, document,
                    pdf >>

\* LingoGateway.create_invoice posts to Lingo first: refused, accepted with
\* the answer lost (BillingError, and the enrollment stays), or accepted.
LingoCreate(t) ==
    LET e == enroll[t].seat IN
    /\ Working(t, "lingo")
    /\ \/ EndEnroll(t) /\ UNCHANGED lingo
       \/ EndEnroll(t) /\ lingo' = [lingo EXCEPT ![e].created = @ + 1]
       \/ /\ lingo' = [lingo EXCEPT ![e].created = @ + 1]
          /\ enroll' = [enroll EXCEPT
                ![t] = [@ EXCEPT !.pc = "bill",
                                 !.remote_id = lingo[e].created + 1]]
    /\ UNCHANGED << child, activity, verified, enrollment, wcs_id, wcs,
                    invoice, document, pdf >>

LingoIdOf(t) == IF BillingBackend = "lingo" THEN enroll[t].remote_id ELSE 0

\* The invoice that create_invoice leaves for an existing row: the amount and
\* the lingo_id columns are saved (update_fields), the others are not.
Updated(inv, amount, lingo_id) ==
    [inv EXCEPT !.amount = amount,
                !.lingo_id = IF lingo_id # 0 THEN lingo_id ELSE @]

\* get_or_create of the invoice.  The enrollment may be gone (IntegrityError)
\* and another request may have created the invoice first.
CreateInvoice(t) ==
    LET e == enroll[t].seat
        new == [status |-> "UNPAID", amount |-> enroll[t].fee,
                lingo_id |-> LingoIdOf(t)]
    IN
    /\ Working(t, "bill")
    /\ IF ~Enrolled(e)
         THEN EndEnroll(t) /\ UNCHANGED invoice
         ELSE IF ~Invoiced(e)
           THEN EndEnroll(t) /\ invoice' = [invoice EXCEPT ![e] = new]
           ELSE /\ IF Updated(invoice[e], enroll[t].fee, LingoIdOf(t)) = invoice[e]
                     THEN EndEnroll(t)
                     ELSE enroll' = [enroll EXCEPT
                            ![t] = [@ EXCEPT !.pc = "save", !.paid = Paid(e)]]
                /\ UNCHANGED invoice
    /\ UNCHANGED << child, activity, verified, enrollment, wcs_id, wcs, lingo,
                    document, pdf >>

\* Mutant: a plain save() writes back every column of the instance read.
SaveWholeInvoice(t) ==
    LET e == enroll[t].seat
        read == IF enroll[t].paid THEN "PAID" ELSE "UNPAID"
    IN
    /\ Working(t, "save")
    /\ invoice' = [invoice EXCEPT
                     ![e] = [Updated(@, enroll[t].fee, LingoIdOf(t))
                               EXCEPT !.status = read]]
    /\ EndEnroll(t)
    /\ UNCHANGED << child, activity, verified, enrollment, wcs_id, wcs, lingo,
                    document, pdf >>

\* invoice.save(update_fields=...) on a row that changed; DatabaseError when
\* it is gone.  The post_save signal goes by the status that was read.
SaveInvoice(t) ==
    LET e == enroll[t].seat IN
    /\ Working(t, "save")
    /\ IF ~Invoiced(e)
         THEN EndEnroll(t) /\ UNCHANGED invoice
         ELSE /\ invoice' = [invoice EXCEPT
                               ![e] = Updated(@, enroll[t].fee, LingoIdOf(t))]
              /\ IF enroll[t].paid THEN GoTo(t, "confirm") ELSE EndEnroll(t)
    /\ UNCHANGED << child, activity, verified, enrollment, wcs_id, wcs, lingo,
                    document, pdf >>

\* The signal handler reads the enrollment and confirms it.
ConfirmOnSave(t) ==
    LET e == enroll[t].seat IN
    /\ Working(t, "confirm")
    /\ EndEnroll(t)
    /\ enrollment' = [enrollment EXCEPT
                        ![e] = IF @ = "absent" THEN @ ELSE "CONFIRMED"]
    /\ UNCHANGED << child, activity, verified, wcs_id, wcs, invoice, lingo,
                    document, pdf >>

\* The worker process dies: the thread's local state is lost.
AbortEnroll(t) ==
    /\ MayAbort
    /\ ~Working(t, "idle")
    /\ EndEnroll(t)
    /\ UNCHANGED dataVars

EnrollStep(t) ==
    \/ CheckCapacity(t) \/ WcsCreate(t) \/ CreateEnrollment(t)
    \/ LingoCreate(t) \/ CreateInvoice(t) \/ SaveInvoice(t)
    \/ ConfirmOnSave(t)

EnrollNext ==
    \E t \in EnrollThreads :
        \/ \E u \in Parents, c \in Children, a \in Activities :
              EnrollRequest(t, u, c, a)
        \/ EnrollStep(t)
        \/ AbortEnroll(t)
=============================================================================
