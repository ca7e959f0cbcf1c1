-------------------------- MODULE PortalTypeProofs --------------------------
(***************************************************************************)
(* Type correctness of Portal, for every number of parents, children,      *)
(* activities and threads, every fee and every capacity.                   *)
(***************************************************************************)
EXTENDS PortalInductive, TLAPS

-----------------------------------------------------------------------------
LEMMA InitTypeOK == Init => TypeOK
<1>1. DataInit => DataTypeOK
  <2> SUFFICES ASSUME DataInit PROVE DataTypeOK
    OBVIOUS
  <2> USE DEF DataInit, DataTypeOK, NoInvoice, EnrollmentStatuses,
              InvoiceStatuses
  <2>1. activity \in [Activities -> [fee : Fees, is_active : BOOLEAN]]
    OBVIOUS
  <2>2. invoice \in [Seats -> [status : InvoiceStatuses, amount : Nat,
                               lingo_id : Nat]]
    OBVIOUS
  <2>3. lingo \in [Seats -> [created : Nat, paid : Nat]]
    OBVIOUS
  <2> QED
    BY <2>1, <2>2, <2>3
<1>2. EnrollInit => EnrollTypeOK
  BY DEF EnrollInit, EnrollTypeOK, EnrollStates, NoEnroll, NoSeat, EnrollSteps
<1>3. PayInit => PayTypeOK
  BY DEF PayInit, PayTypeOK, PayStates, NoPay, NoSeat, PaySteps, InvoiceStatuses
<1> QED
  BY <1>1, <1>2, <1>3 DEF Init, TypeOK

\* What parents and staff do, and what reading the enrollment list does.
PeopleNext == FamilyNext \/ CatalogueNext \/ \E e \in Seats : LazyInvoice(e)

LEMMA PeopleTypeOK ==
  ASSUME DataTypeOK, PeopleNext
  PROVE  DataTypeOK'
<1> USE FeesAssumption, StaffAssumption
    DEF DataTypeOK, NoInvoice, EnrollmentStatuses, InvoiceStatuses
<1>1. ASSUME NEW c \in Children, AddChild(c)
      PROVE  DataTypeOK'
  BY <1>1 DEF AddChild
<1>2. ASSUME NEW c \in Children, DeleteChild(c)
      PROVE  DataTypeOK'
  BY <1>2 DEF DeleteChild, Unlinked
<1>3. ASSUME NEW u \in Parents, VerifyIdentity(u)
      PROVE  DataTypeOK'
  BY <1>3 DEF VerifyIdentity
<1>4. ASSUME NEW a \in Activities, NEW fee \in Fees, SetFee(a, fee)
      PROVE  DataTypeOK'
  <2>1. activity' \in [Activities -> [fee : Fees, is_active : BOOLEAN]]
    BY <1>4 DEF SetFee
  <2> QED
    BY <1>4, <2>1 DEF SetFee
<1>5. ASSUME NEW a \in Activities, NEW active \in BOOLEAN, SetActive(a, active)
      PROVE  DataTypeOK'
  <2>1. activity' \in [Activities -> [fee : Fees, is_active : BOOLEAN]]
    BY <1>5 DEF SetActive
  <2> QED
    BY <1>5, <2>1 DEF SetActive
<1>6. ASSUME NEW e \in Seats, NEW s \in StaffStatuses, StaffSetStatus(e, s)
      PROVE  DataTypeOK'
  BY <1>6 DEF StaffSetStatus
<1>7. ASSUME NEW e \in Seats, LazyInvoice(e)
      PROVE  DataTypeOK'
  <2>1. activity[e[2]].fee \in Nat
    BY DEF Seats
  <2>2. invoice' \in [Seats -> [status : InvoiceStatuses, amount : Nat,
                                lingo_id : Nat]]
    BY <1>7, <2>1 DEF LazyInvoice
  <2> QED
    BY <1>7, <2>2 DEF LazyInvoice
<1> QED
  BY <1>1, <1>2, <1>3, <1>4, <1>5, <1>6, <1>7
     DEF PeopleNext, FamilyNext, CatalogueNext

LEMMA SeatOfEnroll ==
  ASSUME EnrollTypeOK, NEW t \in EnrollThreads, ~Working(t, "idle")
  PROVE  enroll[t].seat \in Seats
  BY DEF EnrollTypeOK, EnrollStates, Working

LEMMA EndEnrollTypeOK ==
  ASSUME EnrollTypeOK, NEW t \in EnrollThreads, EndEnroll(t)
  PROVE  EnrollTypeOK'
  BY DEF EnrollTypeOK, EnrollStates, EndEnroll, NoEnroll, NoSeat, EnrollSteps

LEMMA GoToTypeOK ==
  ASSUME EnrollTypeOK, NEW t \in EnrollThreads, ~Working(t, "idle"),
         NEW pc \in EnrollSteps \ {"idle"}, GoTo(t, pc)
  PROVE  EnrollTypeOK'
  BY DEF EnrollTypeOK, EnrollStates, GoTo, Working

LEMMA MoveTypeOK ==
  ASSUME EnrollTypeOK, NEW t \in EnrollThreads, ~Working(t, "idle"),
         NEW r \in EnrollStates, r.pc # "idle", r.seat = enroll[t].seat,
         enroll' = [enroll EXCEPT ![t] = r]
  PROVE  EnrollTypeOK'
  BY DEF EnrollTypeOK, EnrollStates, Working

LEMMA EnrollRequestTypeOK ==
  ASSUME DataTypeOK, EnrollTypeOK, NEW t \in EnrollThreads, NEW u \in Parents,
         NEW c \in Children, NEW a \in Activities, EnrollRequest(t, u, c, a)
  PROVE  DataTypeOK' /\ EnrollTypeOK'
<1>1. activity[a].fee \in Nat
  BY FeesAssumption DEF DataTypeOK
<1>2. <<c, a>> \in Seats /\ <<c, a>> # NoSeat
  BY DEF Seats, NoSeat
<1>3. EnrollTypeOK'
  BY <1>1, <1>2 DEF EnrollRequest, EnrollTypeOK, EnrollStates, NoEnroll,
     EnrollSteps
<1>4. DataTypeOK'
  BY DEF EnrollRequest, DataTypeOK, dataVars
<1> QED
  BY <1>3, <1>4

\* The changed rows of an enroll step stay well typed.
LEMMA EnrollStepTypeOK ==
  ASSUME DataTypeOK, EnrollTypeOK, NEW t \in EnrollThreads,
         EnrollStep(t) \/ AbortEnroll(t)
  PROVE  DataTypeOK' /\ EnrollTypeOK'
<1> DEFINE e == enroll[t].seat
<1>1. ~Working(t, "idle")
  BY DEF EnrollStep, AbortEnroll, CheckCapacity, WcsCreate,
     CreateEnrollment, LingoCreate, CreateInvoice, SaveInvoice, ConfirmOnSave,
     Working
<1>2. e \in Seats /\ enroll[t] \in EnrollStates
  BY <1>1, SeatOfEnroll DEF EnrollTypeOK, EnrollStates
<1>3. /\ enroll[t].fee \in Nat
      /\ enroll[t].remote_id \in Nat
      /\ wcs[e] \in Nat
      /\ lingo[e] \in [created : Nat, paid : Nat]
      /\ invoice[e] \in [status : InvoiceStatuses, amount : Nat, lingo_id : Nat]
  BY <1>2 DEF EnrollStates, DataTypeOK
<1>4. CASE CheckCapacity(t)
  <2>1. EnrollTypeOK'
    BY <1>1, <1>4, GoToTypeOK, EndEnrollTypeOK
    DEF CheckCapacity, EnrollmentGateway, EnrollSteps
  <2> QED
    BY <1>4, <2>1 DEF CheckCapacity, DataTypeOK, dataVars
<1>5. CASE WcsCreate(t)
  <2>1. EnrollTypeOK'
    <3>1. CASE EndEnroll(t)
      BY <3>1, EndEnrollTypeOK
    <3>2. CASE enroll' = [enroll EXCEPT
            ![t] = [@ EXCEPT !.pc = "create", !.remote_id = wcs[e] + 1]]
      <4> DEFINE id == wcs[e] + 1
                 r == [enroll[t] EXCEPT !.pc = "create", !.remote_id = id]
      <4>1. id \in Nat
        BY <1>3
      <4> HIDE DEF id
      <4>2. r \in EnrollStates /\ r.pc # "idle" /\ r.seat = e
        BY <1>2, <4>1 DEF EnrollStates, EnrollSteps
      <4> USE DEF id
      <4> QED
        BY <1>1, <3>2, <4>2, MoveTypeOK
    <3> QED
      BY <1>5, <3>1, <3>2 DEF WcsCreate, EnrollmentError
  <2>2. wcs' \in [Seats -> Nat]
    BY <1>2, <1>3, <1>5 DEF WcsCreate, DataTypeOK
  <2> QED
    BY <1>5, <2>1, <2>2 DEF WcsCreate, DataTypeOK
<1>6. CASE CreateEnrollment(t)
  <2>1. EnrollTypeOK'
    BY <1>1, <1>6, GoToTypeOK, EndEnrollTypeOK
       DEF CreateEnrollment, AfterCreate, BillingGateway, EnrollSteps
  <2>2. enrollment' \in [Seats -> EnrollmentStatuses]
    BY <1>2, <1>6 DEF CreateEnrollment, DataTypeOK, EnrollmentStatuses
  <2>3. wcs_id' \in [Seats -> Nat]
    BY <1>2, <1>3, <1>6 DEF CreateEnrollment, WcsIdOf, DataTypeOK
  <2> QED
    BY <1>6, <2>1, <2>2, <2>3 DEF CreateEnrollment, DataTypeOK
<1>7. CASE LingoCreate(t)
  <2>1. EnrollTypeOK'
    <3>1. CASE EndEnroll(t)
      BY <3>1, EndEnrollTypeOK
    <3>2. CASE enroll' = [enroll EXCEPT
            ![t] = [@ EXCEPT !.pc = "bill",
                             !.remote_id = lingo[e].created + 1]]
      <4> DEFINE id == lingo[e].created + 1
                 r == [enroll[t] EXCEPT !.pc = "bill", !.remote_id = id]
      <4>1. id \in Nat
        BY <1>3
      <4> HIDE DEF id
      <4>2. r \in EnrollStates /\ r.pc # "idle" /\ r.seat = e
        BY <1>2, <4>1 DEF EnrollStates, EnrollSteps
      <4> USE DEF id
      <4> QED
        BY <1>1, <3>2, <4>2, MoveTypeOK
    <3> QED
      BY <1>7, <3>1, <3>2 DEF LingoCreate
  <2>2. lingo' \in [Seats -> [created : Nat, paid : Nat]]
    <3> DEFINE r == [lingo[e] EXCEPT !.created = lingo[e].created + 1]
    <3>1. r \in [created : Nat, paid : Nat]
      BY <1>3
    <3>2. lingo' = lingo \/ lingo' = [lingo EXCEPT ![e] = r]
      BY <1>2, <1>7 DEF LingoCreate, DataTypeOK
    <3> HIDE DEF r
    <3> QED
      BY <1>2, <3>1, <3>2 DEF DataTypeOK
  <2> QED
    BY <1>7, <2>1, <2>2 DEF LingoCreate, DataTypeOK
<1>8. CASE CreateInvoice(t)
  <2>1. EnrollTypeOK'
    <3>1. CASE EndEnroll(t)
      BY <3>1, EndEnrollTypeOK
    <3>2. CASE enroll' = [enroll EXCEPT
            ![t] = [@ EXCEPT !.pc = "save", !.paid = Paid(e)]]
      <4> DEFINE r == [enroll[t] EXCEPT !.pc = "save", !.paid = Paid(e)]
      <4>1. r \in EnrollStates /\ r.pc # "idle" /\ r.seat = e
        BY <1>2, <1>3 DEF EnrollStates, EnrollSteps, Paid
      <4> QED
        BY <1>1, <3>2, <4>1, MoveTypeOK
    <3> QED
      BY <1>8, <3>1, <3>2 DEF CreateInvoice
  <2>2. invoice' \in [Seats -> [status : InvoiceStatuses, amount : Nat,
                                lingo_id : Nat]]
    <3> DEFINE new == [status |-> "UNPAID", amount |-> enroll[t].fee,
                       lingo_id |-> LingoIdOf(t)]
    <3>1. new \in [status : InvoiceStatuses, amount : Nat, lingo_id : Nat]
      BY <1>3 DEF LingoIdOf, InvoiceStatuses
    <3>2. invoice' = invoice \/ invoice' = [invoice EXCEPT ![e] = new]
      BY <1>8 DEF CreateInvoice
    <3> HIDE DEF new
    <3> QED
      BY <1>2, <3>1, <3>2 DEF DataTypeOK
  <2> QED
    BY <1>8, <2>1, <2>2 DEF CreateInvoice, DataTypeOK
<1>9. CASE SaveInvoice(t)
  <2>1. EnrollTypeOK'
    BY <1>1, <1>9, GoToTypeOK, EndEnrollTypeOK DEF SaveInvoice, EnrollSteps
  <2>2. Updated(invoice[e], enroll[t].fee, LingoIdOf(t))
           \in [status : InvoiceStatuses, amount : Nat, lingo_id : Nat]
    BY <1>3 DEF Updated, LingoIdOf
  <2>3. invoice' \in [Seats -> [status : InvoiceStatuses, amount : Nat,
                                lingo_id : Nat]]
    BY <1>2, <1>9, <2>2 DEF SaveInvoice, DataTypeOK
  <2> QED
    BY <1>9, <2>1, <2>3 DEF SaveInvoice, DataTypeOK
<1>10. CASE ConfirmOnSave(t)
  <2>1. EnrollTypeOK'
    BY <1>10, EndEnrollTypeOK DEF ConfirmOnSave
  <2>2. enrollment' \in [Seats -> EnrollmentStatuses]
    BY <1>2, <1>10 DEF ConfirmOnSave, DataTypeOK, EnrollmentStatuses
  <2> QED
    BY <1>10, <2>1, <2>2 DEF ConfirmOnSave, DataTypeOK
<1>11. CASE AbortEnroll(t)
  BY <1>11, EndEnrollTypeOK DEF AbortEnroll, DataTypeOK, dataVars
<1> QED
  BY <1>4, <1>5, <1>6, <1>7, <1>8, <1>9, <1>10, <1>11 DEF EnrollStep

LEMMA SeatOfPay ==
  ASSUME PayTypeOK, NEW p \in PayThreads, ~Paying(p, "idle")
  PROVE  pay[p].seat \in Seats
  BY DEF PayTypeOK, PayStates, Paying

LEMMA EndPayTypeOK ==
  ASSUME PayTypeOK, NEW p \in PayThreads, EndPay(p)
  PROVE  PayTypeOK'
  BY DEF PayTypeOK, PayStates, EndPay, NoPay, NoSeat, PaySteps, InvoiceStatuses

LEMMA PayGoToTypeOK ==
  ASSUME PayTypeOK, NEW p \in PayThreads, ~Paying(p, "idle"),
         NEW pc \in PaySteps \ {"idle"}, PayGoTo(p, pc)
  PROVE  PayTypeOK'
  BY DEF PayTypeOK, PayStates, PayGoTo, Paying

LEMMA PayMoveTypeOK ==
  ASSUME PayTypeOK, NEW p \in PayThreads, ~Paying(p, "idle"),
         NEW r \in PayStates, r.pc # "idle", r.seat = pay[p].seat,
         pay' = [pay EXCEPT ![p] = r]
  PROVE  PayTypeOK'
  BY DEF PayTypeOK, PayStates, Paying

LEMMA PayRequestTypeOK ==
  ASSUME DataTypeOK, PayTypeOK, NEW p \in PayThreads, NEW u \in Parents,
         NEW e \in Seats, PayRequest(p, u, e)
  PROVE  DataTypeOK' /\ PayTypeOK'
<1>1. invoice[e].amount \in Nat /\ invoice[e].lingo_id \in Nat
  BY DEF DataTypeOK
<1>2. e # NoSeat
  BY DEF Seats, NoSeat
<1>3. PayTypeOK'
  BY <1>1, <1>2 DEF PayRequest, PayTypeOK, PayStates, NoPay, PaySteps,
     InvoiceStatuses
<1>4. DataTypeOK'
  BY DEF PayRequest, DataTypeOK, dataVars
<1> QED
  BY <1>3, <1>4

\* The changed rows of a pay step stay well typed.
LEMMA PayStepTypeOK ==
  ASSUME DataTypeOK, PayTypeOK, NEW p \in PayThreads, PayStep(p) \/ AbortPay(p)
  PROVE  DataTypeOK' /\ PayTypeOK'
<1> DEFINE e == pay[p].seat
<1>1. ~Paying(p, "idle")
  BY DEF PayStep, AbortPay, ReadEnrollment, LingoPay, MarkPaid,
     ConfirmEnrollment, WritePdf, StoreDocument, Paying
<1>2. e \in Seats /\ pay[p] \in PayStates
  BY <1>1, SeatOfPay DEF PayTypeOK
<1>3. /\ pay[p].amount \in Nat
      /\ pay[p].status \in InvoiceStatuses
      /\ lingo[e] \in [created : Nat, paid : Nat]
      /\ invoice[e] \in [status : InvoiceStatuses, amount : Nat, lingo_id : Nat]
  BY <1>2 DEF PayStates, DataTypeOK
<1>4. CASE ReadEnrollment(p)
  <2>1. PayTypeOK'
    <3>1. CASE EndPay(p)
      BY <3>1, EndPayTypeOK
    <3>2. CASE ~EndPay(p)
      <4> DEFINE r == [pay[p] EXCEPT !.pc = FirstPayStep(p),
                           !.confirmed = (enrollment[e] = "CONFIRMED")]
      <4>1. FirstPayStep(p) \in PaySteps \ {"idle"}
        BY <1>4, <3>2 DEF ReadEnrollment, FirstPayStep, PaySteps
      <4>2. r \in PayStates /\ r.pc # "idle" /\ r.seat = e
        BY <1>2, <4>1 DEF PayStates
      <4>3. pay' = [pay EXCEPT ![p] = r]
        BY <1>4, <3>2 DEF ReadEnrollment
      <4> QED
        BY <1>1, <4>2, <4>3, PayMoveTypeOK
    <3> QED
      BY <3>1, <3>2
  <2> QED
    BY <1>4, <2>1 DEF ReadEnrollment, DataTypeOK, dataVars
<1>5. CASE LingoPay(p)
  <2>1. PayTypeOK'
    <3>1. CASE EndPay(p)
      BY <3>1, EndPayTypeOK
    <3>2. ASSUME NEW s \in LingoStatuses,
                 pay' = [pay EXCEPT ![p] = [@ EXCEPT !.pc = "mark",
                                                     !.status = s]]
          PROVE  PayTypeOK'
      <4> DEFINE r == [pay[p] EXCEPT !.pc = "mark", !.status = s]
      <4>1. r \in PayStates /\ r.pc # "idle" /\ r.seat = e
        BY <1>2, LingoAssumption DEF PayStates, PaySteps, InvoiceStatuses
      <4> QED
        BY <1>1, <3>2, <4>1, PayMoveTypeOK
    <3> QED
      BY <1>5, <3>1, <3>2 DEF LingoPay, PaymentError
  <2>2. lingo' \in [Seats -> [created : Nat, paid : Nat]]
    <3> DEFINE r == [lingo[e] EXCEPT !.paid = lingo[e].paid + 1]
    <3>1. r \in [created : Nat, paid : Nat]
      BY <1>3
    <3>2. lingo' = lingo \/ lingo' = [lingo EXCEPT ![e] = r]
      BY <1>2, <1>5 DEF LingoPay, DataTypeOK
    <3> HIDE DEF r
    <3> QED
      BY <1>2, <3>1, <3>2 DEF DataTypeOK
  <2> QED
    BY <1>5, <2>1, <2>2 DEF LingoPay, DataTypeOK
<1>6. CASE MarkPaid(p)
  <2>1. PayTypeOK'
    BY <1>1, <1>6, PayGoToTypeOK, EndPayTypeOK DEF MarkPaid, PaySteps
  <2>2. invoice' \in [Seats -> [status : InvoiceStatuses, amount : Nat,
                                lingo_id : Nat]]
    <3> DEFINE r == [invoice[e] EXCEPT !.status = pay[p].status]
    <3>1. r \in [status : InvoiceStatuses, amount : Nat, lingo_id : Nat]
      BY <1>3
    <3>2. invoice' = invoice \/ invoice' = [invoice EXCEPT ![e] = r]
      BY <1>2, <1>6 DEF MarkPaid, DataTypeOK
    <3> HIDE DEF r
    <3> QED
      BY <1>2, <3>1, <3>2 DEF DataTypeOK
  <2> QED
    BY <1>6, <2>1, <2>2 DEF MarkPaid, DataTypeOK
<1>7. CASE ConfirmEnrollment(p)
  <2>1. PayTypeOK'
    BY <1>1, <1>7, PayGoToTypeOK, EndPayTypeOK DEF ConfirmEnrollment, PaySteps
  <2>2. enrollment' \in [Seats -> EnrollmentStatuses]
    BY <1>2, <1>7 DEF ConfirmEnrollment, DataTypeOK, EnrollmentStatuses
  <2> QED
    BY <1>7, <2>1, <2>2 DEF ConfirmEnrollment, DataTypeOK
<1>8. CASE WritePdf(p)
  <2>1. PayTypeOK'
    BY <1>1, <1>8, PayGoToTypeOK, EndPayTypeOK DEF WritePdf, PaySteps
  <2>2. pdf' \in [Seats -> Nat \cup {NoPdf}]
    BY <1>2, <1>3, <1>8 DEF WritePdf, Printed, DataTypeOK
  <2> QED
    BY <1>8, <2>1, <2>2 DEF WritePdf, DataTypeOK
<1>9. CASE StoreDocument(p)
  <2>1. PayTypeOK'
    BY <1>9, EndPayTypeOK DEF StoreDocument
  <2>2. document' \in [Seats -> {"none", "linked", "unlinked"}]
    BY <1>2, <1>9 DEF StoreDocument, DataTypeOK
  <2> QED
    BY <1>9, <2>1, <2>2 DEF StoreDocument, DataTypeOK
<1>10. CASE AbortPay(p)
  BY <1>10, EndPayTypeOK DEF AbortPay, DataTypeOK, dataVars
<1> QED
  BY <1>4, <1>5, <1>6, <1>7, <1>8, <1>9, <1>10 DEF PayStep

LEMMA NextTypeOK == TypeOK /\ [Next]_vars => TypeOK'
<1> SUFFICES ASSUME TypeOK, [Next]_vars
             PROVE  TypeOK'
  OBVIOUS
<1> USE DEF TypeOK
<1>1. CASE PeopleNext /\ UNCHANGED << enroll, pay >>
  BY <1>1, PeopleTypeOK DEF EnrollTypeOK, PayTypeOK
<1>2. CASE EnrollNext /\ UNCHANGED pay
  BY <1>2, EnrollRequestTypeOK, EnrollStepTypeOK DEF EnrollNext, PayTypeOK
<1>3. CASE PayNext /\ UNCHANGED enroll
  BY <1>3, PayRequestTypeOK, PayStepTypeOK DEF PayNext, EnrollTypeOK
<1>4. CASE UNCHANGED vars
  BY <1>4 DEF vars, dataVars, DataTypeOK, EnrollTypeOK, PayTypeOK
<1> QED
  BY <1>1, <1>2, <1>3, <1>4 DEF Next, PeopleNext

\* Rows and threads keep their types in every reachable state: in particular
\* an idle thread holds no seat and a busy one holds one, so no request starts
\* from what the thread's last request left behind.
THEOREM TypeCorrect == Spec => []TypeOK
<1>1. Init => TypeOK
  BY InitTypeOK
<1>2. TypeOK /\ [Next]_vars => TypeOK'
  BY NextTypeOK
<1> QED
  BY <1>1, <1>2, PTL DEF Spec
=============================================================================
