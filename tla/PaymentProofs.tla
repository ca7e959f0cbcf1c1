--------------------------- MODULE PaymentProofs ----------------------------
(***************************************************************************)
(* Enrollments, invoices and payments: what is confirmed is paid, and what *)
(* is paid stays paid, for every value of Portal's constants under which a *)
(* payment is answered with PAID.                                          *)
(***************************************************************************)
EXTENDS PortalTypeProofs

-----------------------------------------------------------------------------
(* Rows only disappear with their child, and keep their links.             *)

\* What no step takes away from a seat unless its child is deleted.
Persists(e) ==
    /\ Gone(e) => Gone(e)'
    /\ Enrolled(e) => Enrolled(e)' \/ Gone(e)'
    /\ Invoiced(e) => Invoiced(e)' \/ Gone(e)'

RowsKept == RowsLinked' /\ \A e \in Seats : Persists(e)

LEMMA SameRows ==
  ASSUME RowsLinked, UNCHANGED << child, enrollment, invoice >>
  PROVE  RowsKept
  BY DEF RowsKept, RowsLinked, Persists, Gone, Enrolled, Invoiced

LEMMA InvoiceChanged ==
  ASSUME TypeOK, RowsLinked, UNCHANGED << child, enrollment >>,
         NEW e \in Seats, Enrolled(e),
         NEW i \in [status : InvoiceStatuses, amount : Nat, lingo_id : Nat],
         i.status # "absent", invoice' = [invoice EXCEPT ![e] = i]
  PROVE  RowsKept
  BY DEF RowsKept, RowsLinked, Persists, Gone, Enrolled, Invoiced, TypeOK,
         DataTypeOK

LEMMA StatusChanged ==
  ASSUME TypeOK, RowsLinked, UNCHANGED << child, invoice >>,
         NEW e \in Seats, child[e[1]] = "present",
         NEW s \in EnrollmentStatuses \ {"absent"},
         enrollment' = [enrollment EXCEPT ![e] = s]
  PROVE  RowsKept
  BY DEF RowsKept, RowsLinked, Persists, Gone, Enrolled, Invoiced, TypeOK,
         DataTypeOK

LEMMA PeopleKeepRows ==
  ASSUME TypeOK, RowsLinked, PeopleNext
  PROVE  RowsKept
<1>1. ASSUME NEW c \in Children, AddChild(c)
      PROVE  RowsKept
  BY <1>1 DEF AddChild, RowsKept, RowsLinked, Persists, Gone, Enrolled,
     Invoiced, TypeOK, DataTypeOK, Seats
<1>2. ASSUME NEW c \in Children, DeleteChild(c)
      PROVE  RowsKept
  BY <1>2 DEF DeleteChild, RowsKept, RowsLinked, Persists, Gone, Enrolled,
     Invoiced, TypeOK, DataTypeOK, Seats, NoInvoice
<1>3. ASSUME NEW u \in Parents, VerifyIdentity(u)
      PROVE  RowsKept
  BY <1>3, SameRows DEF VerifyIdentity
<1>4. ASSUME NEW a \in Activities, NEW fee \in Fees, SetFee(a, fee)
      PROVE  RowsKept
  BY <1>4, SameRows DEF SetFee
<1>5. ASSUME NEW a \in Activities, NEW active \in BOOLEAN, SetActive(a, active)
      PROVE  RowsKept
  BY <1>5, SameRows DEF SetActive
<1>6. ASSUME NEW e \in Seats, NEW s \in StaffStatuses, StaffSetStatus(e, s)
      PROVE  RowsKept
  BY <1>6, StatusChanged, StaffAssumption
     DEF StaffSetStatus, RowsLinked, EnrollmentStatuses
<1>7. ASSUME NEW e \in Seats, LazyInvoice(e)
      PROVE  RowsKept
  <2> DEFINE i == [status |-> "UNPAID", amount |-> activity[e[2]].fee,
                   lingo_id |-> 0]
  <2>1. i \in [status : InvoiceStatuses, amount : Nat, lingo_id : Nat]
    BY FeesAssumption DEF Seats, TypeOK, DataTypeOK, InvoiceStatuses
  <2> QED
    BY <1>7, <2>1, InvoiceChanged DEF LazyInvoice
<1> QED
  BY <1>1, <1>2, <1>3, <1>4, <1>5, <1>6, <1>7
     DEF PeopleNext, FamilyNext, CatalogueNext

LEMMA EnrollKeepsRows ==
  ASSUME TypeOK, RowsLinked, EnrollNext
  PROVE  RowsKept
<1>1. ASSUME NEW t \in EnrollThreads, NEW u \in Parents, NEW c \in Children,
             NEW a \in Activities, EnrollRequest(t, u, c, a)
      PROVE  RowsKept
  BY <1>1, SameRows DEF EnrollRequest, dataVars
<1>2. ASSUME NEW t \in EnrollThreads, AbortEnroll(t)
      PROVE  RowsKept
  BY <1>2, SameRows DEF AbortEnroll, dataVars
<1>3. ASSUME NEW t \in EnrollThreads, EnrollStep(t)
      PROVE  RowsKept
  <2> DEFINE e == enroll[t].seat
  <2>1. e \in Seats /\ enroll[t] \in EnrollStates
    BY <1>3, SeatOfEnroll DEF TypeOK, EnrollTypeOK, EnrollStep, CheckCapacity,
       WcsCreate, CreateEnrollment, LingoCreate, CreateInvoice, SaveInvoice,
       ConfirmOnSave, Working
  <2>2. CASE CheckCapacity(t)
    BY <2>2, SameRows DEF CheckCapacity, dataVars
  <2>3. CASE WcsCreate(t)
    BY <2>3, SameRows DEF WcsCreate
  <2>4. CASE CreateEnrollment(t)
    <3>1. CASE child[e[1]] # "present"
      BY <2>4, <3>1, SameRows DEF CreateEnrollment
    <3>2. CASE child[e[1]] = "present"
      <4> DEFINE s == IF enrollment[e] = "absent" THEN "PENDING_PAYMENT"
                                                  ELSE enrollment[e]
      <4>1. s \in EnrollmentStatuses \ {"absent"}
        BY <2>1 DEF TypeOK, DataTypeOK, EnrollmentStatuses
      <4> QED
        BY <2>1, <2>4, <3>2, <4>1, StatusChanged DEF CreateEnrollment
    <3> QED
      BY <3>1, <3>2
  <2>5. CASE LingoCreate(t)
    BY <2>5, SameRows DEF LingoCreate
  <2>6. CASE CreateInvoice(t)
    <3> DEFINE i == [status |-> "UNPAID", amount |-> enroll[t].fee,
                     lingo_id |-> LingoIdOf(t)]
    <3>1. i \in [status : InvoiceStatuses, amount : Nat, lingo_id : Nat]
      BY <2>1 DEF EnrollStates, InvoiceStatuses, LingoIdOf
    <3>2. \/ UNCHANGED << child, enrollment, invoice >>
          \/ /\ Enrolled(e) /\ UNCHANGED << child, enrollment >>
             /\ invoice' = [invoice EXCEPT ![e] = i]
      BY <2>6 DEF CreateInvoice
    <3> QED
      BY <2>1, <3>1, <3>2, SameRows, InvoiceChanged
  <2>7. CASE SaveInvoice(t)
    <3> DEFINE i == Updated(invoice[e], enroll[t].fee, LingoIdOf(t))
    <3>1. /\ i \in [status : InvoiceStatuses, amount : Nat, lingo_id : Nat]
          /\ i.status = invoice[e].status
      <4>1. /\ invoice[e] \in [status : InvoiceStatuses, amount : Nat,
                               lingo_id : Nat]
            /\ enroll[t].fee \in Nat /\ enroll[t].remote_id \in Nat
        BY <2>1 DEF EnrollStates, TypeOK, DataTypeOK
      <4> QED
        BY <4>1 DEF LingoIdOf, Updated
    <3>2. \/ UNCHANGED << child, enrollment, invoice >>
          \/ /\ Invoiced(e) /\ UNCHANGED << child, enrollment >>
             /\ invoice' = [invoice EXCEPT ![e] = i]
      BY <2>7 DEF SaveInvoice
    <3> QED
      BY <2>1, <3>1, <3>2, SameRows, InvoiceChanged DEF RowsLinked, Invoiced
  <2>8. CASE ConfirmOnSave(t)
    <3>1. CASE enrollment[e] = "absent"
      <4>1. enrollment' = enrollment
        BY <2>1, <2>8, <3>1 DEF ConfirmOnSave, TypeOK, DataTypeOK
      <4> QED
        BY <2>8, <4>1, SameRows DEF ConfirmOnSave
    <3>2. CASE enrollment[e] # "absent"
      BY <2>1, <2>8, <3>2, StatusChanged
         DEF ConfirmOnSave, RowsLinked, Enrolled, EnrollmentStatuses
    <3> QED
      BY <3>1, <3>2
  <2> QED
    BY <1>3, <2>2, <2>3, <2>4, <2>5, <2>6, <2>7, <2>8 DEF EnrollStep
<1> QED
  BY <1>1, <1>2, <1>3 DEF EnrollNext

LEMMA PayKeepsRows ==
  ASSUME TypeOK, RowsLinked, PayNext
  PROVE  RowsKept
<1>1. ASSUME NEW p \in PayThreads, NEW u \in Parents, NEW e \in Seats,
             PayRequest(p, u, e)
      PROVE  RowsKept
  BY <1>1, SameRows DEF PayRequest, dataVars
<1>2. ASSUME NEW p \in PayThreads, AbortPay(p)
      PROVE  RowsKept
  BY <1>2, SameRows DEF AbortPay, dataVars
<1>3. ASSUME NEW p \in PayThreads, PayStep(p)
      PROVE  RowsKept
  <2> DEFINE e == pay[p].seat
  <2>1. e \in Seats /\ pay[p] \in PayStates
    BY <1>3, SeatOfPay DEF TypeOK, PayTypeOK, PayStep, ReadEnrollment,
       LingoPay, MarkPaid, ConfirmEnrollment, WritePdf, StoreDocument, Paying
  <2>2. CASE ReadEnrollment(p)
    BY <2>2, SameRows DEF ReadEnrollment, dataVars
  <2>3. CASE LingoPay(p)
    BY <2>3, SameRows DEF LingoPay
  <2>4. CASE MarkPaid(p)
    <3> DEFINE i == [invoice[e] EXCEPT !.status = pay[p].status]
    <3>1. /\ invoice[e] \in [status : InvoiceStatuses, amount : Nat,
                             lingo_id : Nat]
          /\ pay[p].status \in InvoiceStatuses
          /\ pay[p].status # "absent"
      BY <2>1 DEF PayStates, TypeOK, DataTypeOK
    <3>2. /\ i \in [status : InvoiceStatuses, amount : Nat, lingo_id : Nat]
          /\ i.status # "absent"
      BY <3>1
    <3>3. \/ UNCHANGED << child, enrollment, invoice >>
          \/ /\ Invoiced(e) /\ UNCHANGED << child, enrollment >>
             /\ invoice' = [invoice EXCEPT ![e] = i]
      BY <2>4 DEF MarkPaid
    <3> QED
      BY <2>1, <3>2, <3>3, SameRows, InvoiceChanged DEF RowsLinked
  <2>5. CASE ConfirmEnrollment(p)
    <3>1. \/ UNCHANGED << child, enrollment, invoice >>
          \/ /\ Enrolled(e) /\ UNCHANGED << child, invoice >>
             /\ enrollment' = [enrollment EXCEPT ![e] = "CONFIRMED"]
      BY <2>5 DEF ConfirmEnrollment
    <3> QED
      BY <2>1, <3>1, SameRows, StatusChanged DEF RowsLinked, EnrollmentStatuses
  <2>6. CASE WritePdf(p)
    BY <2>6, SameRows DEF WritePdf
  <2>7. CASE StoreDocument(p)
    BY <2>7, SameRows DEF StoreDocument
  <2> QED
    BY <1>3, <2>2, <2>3, <2>4, <2>5, <2>6, <2>7 DEF PayStep
<1> QED
  BY <1>1, <1>2, <1>3 DEF PayNext

LEMMA NextKeepsRows ==
  ASSUME TypeOK, RowsLinked, [Next]_vars
  PROVE  RowsKept
<1>1. CASE UNCHANGED vars
  BY <1>1, SameRows DEF vars, dataVars
<1> QED
  BY <1>1, PeopleKeepRows, EnrollKeepsRows, PayKeepsRows DEF Next, PeopleNext

-----------------------------------------------------------------------------
(* What threads know of their seats.                                       *)

LEMMA StillKnows ==
  ASSUME TypeOK, RowsKept, NEW t \in EnrollThreads, EnrollKnows(t),
         enroll'[t] = enroll[t]
  PROVE  EnrollKnows(t)'
<1>1. CASE enroll[t].seat \in Seats
  BY <1>1 DEF EnrollKnows, RowsKept, Persists, Created, Gone, Enrolled, Invoiced
<1>2. CASE enroll[t].pc = "idle"
  BY <1>2 DEF EnrollKnows, Created
<1> QED
  BY <1>1, <1>2, SeatOfEnroll DEF TypeOK, Working

\* How a step moves its thread, when it does not end the request.
EnrollMove(t) ==
    LET e == enroll[t].seat
        pc == enroll[t].pc
        to == enroll'[t].pc
    IN
    /\ enroll'[t].seat = e
    /\ \/ pc = "count" /\ to \in {"wcs", "create"} /\ enroll'[t].paid = enroll[t].paid
       \/ pc = "wcs" /\ to = "create" /\ enroll'[t].paid = enroll[t].paid
       \/ /\ pc = "create" /\ to \in {"lingo", "bill"}
          /\ enroll'[t].paid = enroll[t].paid
          /\ child[e[1]] = "present" /\ ~Enrolled(e) /\ Enrolled(e)'
          /\ UNCHANGED lingo
       \/ /\ pc = "lingo" /\ to = "bill" /\ enroll'[t].paid = enroll[t].paid
          /\ lingo' = [lingo EXCEPT ![e].created = @ + 1]
       \/ /\ pc = "bill" /\ to = "save" /\ enroll'[t].paid = Paid(e)
          /\ Invoiced(e) /\ UNCHANGED << invoice, lingo >>
       \/ /\ pc = "save" /\ to = "confirm" /\ enroll[t].paid /\ enroll'[t].paid
          /\ UNCHANGED lingo

LEMMA EnrollStepMoves ==
  ASSUME TypeOK, NEW t \in EnrollThreads, EnrollStep(t)
  PROVE  /\ \A s \in EnrollThreads \ {t} : enroll'[s] = enroll[s]
         /\ enroll'[t] = NoEnroll \/ EnrollMove(t)
<1> DEFINE e == enroll[t].seat
<1>1. /\ e \in Seats /\ enroll[t] \in EnrollStates
      /\ enroll \in [EnrollThreads -> EnrollStates]
  BY SeatOfEnroll DEF TypeOK, EnrollTypeOK, EnrollStep, CheckCapacity,
     WcsCreate, CreateEnrollment, LingoCreate, CreateInvoice, SaveInvoice,
     ConfirmOnSave, Working
<1> USE DEF EndEnroll, GoTo, EnrollMove, Working
<1>2. CASE CheckCapacity(t)
  BY <1>1, <1>2 DEF CheckCapacity, EnrollmentGateway, EnrollStates
<1>3. CASE WcsCreate(t)
  <2> DEFINE r == [enroll[t] EXCEPT !.pc = "create", !.remote_id = wcs[e] + 1]
  <2>1. r.seat = e /\ r.pc = "create" /\ r.paid = enroll[t].paid
    BY <1>1 DEF EnrollStates
  <2>2. EndEnroll(t) \/ enroll' = [enroll EXCEPT ![t] = r]
    BY <1>3 DEF WcsCreate, EnrollmentError
  <2> HIDE DEF r
  <2>3. enroll'[t] = NoEnroll \/ enroll'[t] = r
    BY <1>1, <2>2
  <2>4. \A s \in EnrollThreads \ {t} : enroll'[s] = enroll[s]
    BY <1>1, <2>2
  <2> QED
    BY <1>3, <2>1, <2>3, <2>4 DEF WcsCreate, EnrollmentError
<1>4. CASE CreateEnrollment(t)
  BY <1>1, <1>4
     DEF CreateEnrollment, AfterCreate, BillingGateway, EnrollStates, TypeOK,
         DataTypeOK, Enrolled
<1>5. CASE LingoCreate(t)
  <2> DEFINE r == [enroll[t] EXCEPT !.pc = "bill",
                              !.remote_id = lingo[e].created + 1]
  <2>1. r.seat = e /\ r.pc = "bill" /\ r.paid = enroll[t].paid
    BY <1>1 DEF EnrollStates
  <2>2. \/ EndEnroll(t)
        \/ /\ enroll' = [enroll EXCEPT ![t] = r]
           /\ lingo' = [lingo EXCEPT ![e].created = @ + 1]
    BY <1>5 DEF LingoCreate
  <2> HIDE DEF r
  <2>3. \/ enroll'[t] = NoEnroll
        \/ enroll'[t] = r /\ lingo' = [lingo EXCEPT ![e].created = @ + 1]
    BY <1>1, <2>2
  <2>4. \A s \in EnrollThreads \ {t} : enroll'[s] = enroll[s]
    BY <1>1, <2>2
  <2>5. enroll[t].pc = "lingo"
    BY <1>5 DEF LingoCreate
  <2> QED
    BY <2>1, <2>3, <2>4, <2>5
<1>6. CASE CreateInvoice(t)
  <2> DEFINE r == [enroll[t] EXCEPT !.pc = "save", !.paid = Paid(e)]
  <2>1. r.seat = e /\ r.pc = "save" /\ r.paid = Paid(e)
    BY <1>1 DEF EnrollStates
  <2>2. \/ EndEnroll(t)
        \/ /\ enroll' = [enroll EXCEPT ![t] = r]
           /\ Invoiced(e) /\ UNCHANGED << invoice, lingo >>
    BY <1>6 DEF CreateInvoice
  <2> HIDE DEF r
  <2>3. \/ enroll'[t] = NoEnroll
        \/ enroll'[t] = r /\ Invoiced(e) /\ UNCHANGED << invoice, lingo >>
    BY <1>1, <2>2
  <2>4. \A s \in EnrollThreads \ {t} : enroll'[s] = enroll[s]
    BY <1>1, <2>2
  <2>5. enroll[t].pc = "bill"
    BY <1>6 DEF CreateInvoice
  <2> QED
    BY <2>1, <2>3, <2>4, <2>5
<1>7. CASE SaveInvoice(t)
  BY <1>1, <1>7 DEF SaveInvoice, EnrollStates
<1>8. CASE ConfirmOnSave(t)
  BY <1>1, <1>8 DEF ConfirmOnSave, EnrollStates
<1> QED
  BY <1>2, <1>3, <1>4, <1>5, <1>6, <1>7, <1>8 DEF EnrollStep

LEMMA EnrollNextKnows ==
  ASSUME TypeOK, RowsKept, EnrollNext, NEW t \in EnrollThreads, EnrollKnows(t)
  PROVE  EnrollKnows(t)'
<1>1. CASE enroll'[t] = enroll[t]
  BY <1>1, StillKnows
<1>2. CASE enroll'[t] = NoEnroll
  BY <1>2 DEF EnrollKnows, NoEnroll, Created
<1>3. ASSUME NEW u \in Parents, NEW c \in Children, NEW a \in Activities,
             EnrollRequest(t, u, c, a)
      PROVE  EnrollKnows(t)'
  BY <1>3 DEF EnrollRequest, EnrollKnows, NoEnroll, Created, TypeOK, EnrollTypeOK
<1>4. CASE EnrollStep(t) /\ EnrollMove(t)
  <2>1. enroll[t].seat \in Seats
    BY <1>4, SeatOfEnroll DEF TypeOK, EnrollMove, Working
  <2> QED
    BY <1>4, <2>1 DEF EnrollMove, EnrollKnows, Created, RowsKept, Persists,
       Gone, Enrolled, Invoiced
<1>5. ASSUME NEW s \in EnrollThreads,
             \/ EnrollStep(s) \/ AbortEnroll(s)
             \/ \E u \in Parents, c \in Children, a \in Activities :
                   EnrollRequest(s, u, c, a)
      PROVE  s = t \/ enroll'[t] = enroll[t]
  BY <1>5, EnrollStepMoves
     DEF AbortEnroll, EndEnroll, EnrollRequest, TypeOK, EnrollTypeOK
<1>6. ASSUME AbortEnroll(t)
      PROVE  enroll'[t] = NoEnroll
  BY <1>6 DEF AbortEnroll, EndEnroll, TypeOK, EnrollTypeOK
<1> QED
  BY <1>1, <1>2, <1>3, <1>4, <1>5, <1>6, EnrollStepMoves DEF EnrollNext

LEMMA PayStillKnows ==
  ASSUME TypeOK, RowsKept, NEW p \in PayThreads, PayKnows(p),
         pay'[p].pc # "idle" => pay'[p].seat = pay[p].seat /\ pay[p].pc # "idle"
  PROVE  PayKnows(p)'
<1>1. CASE pay[p].seat \in Seats
  BY <1>1 DEF PayKnows, RowsKept, Persists, Gone, Invoiced
<1>2. CASE pay[p].pc = "idle"
  BY <1>2 DEF PayKnows
<1> QED
  BY <1>1, <1>2, SeatOfPay DEF TypeOK, Paying

\* How a step moves its thread, when it does not end the request.
PayMove(p) ==
    LET e == pay[p].seat
        pc == pay[p].pc
        to == pay'[p].pc
    IN
    /\ pay'[p].seat = e
    /\ pay'[p].lingo_id = pay[p].lingo_id
    /\ pc = "lingo" \/ pay'[p].status = pay[p].status
    /\ \/ pc # "owner" /\ pay'[p].confirmed = pay[p].confirmed
       \/ pay'[p].confirmed => enrollment[e] = "CONFIRMED"
    /\ \/ pc = "owner" /\ to = "mark" /\ BillingBackend = "local"
       \/ /\ pc = "owner" /\ to = "lingo"
          /\ BillingBackend = "lingo" /\ pay[p].lingo_id # 0
       \/ pc = "lingo" /\ to = "mark" /\ pay'[p].status \in LingoStatuses
       \/ /\ pc = "mark" /\ to = "confirm"
          /\ invoice' = [invoice EXCEPT ![e].status = pay[p].status]
       \/ pc = "confirm" /\ to = "pdf"
       \/ pc = "pdf" /\ to = "store"

LEMMA PayStepMoves ==
  ASSUME TypeOK, NEW p \in PayThreads, PayStep(p)
  PROVE  /\ \A q \in PayThreads \ {p} : pay'[q] = pay[q]
         /\ pay'[p] = NoPay \/ PayMove(p)
<1> DEFINE e == pay[p].seat
<1>1. /\ e \in Seats /\ pay[p] \in PayStates
      /\ pay \in [PayThreads -> PayStates]
  BY SeatOfPay DEF TypeOK, PayTypeOK, PayStep, ReadEnrollment, LingoPay,
     MarkPaid, ConfirmEnrollment, WritePdf, StoreDocument, Paying
<1> USE DEF EndPay, PayGoTo, PayMove, Paying
<1>2. CASE ReadEnrollment(p)
  <2> DEFINE confirmed == (enrollment[e] = "CONFIRMED")
             r == [pay[p] EXCEPT !.pc = FirstPayStep(p),
                                 !.confirmed = confirmed]
  <2>6. confirmed => enrollment[e] = "CONFIRMED"
    OBVIOUS
  <2> HIDE DEF confirmed
  <2>1. /\ r.seat = e /\ r.pc = FirstPayStep(p) /\ r.status = pay[p].status
        /\ r.lingo_id = pay[p].lingo_id /\ r.confirmed = confirmed
    BY <1>1 DEF PayStates
  <2>2. \/ EndPay(p)
        \/ pay' = [pay EXCEPT ![p] = r] /\ FirstPayStep(p) # "idle"
    BY <1>2 DEF ReadEnrollment, confirmed
  <2> HIDE DEF r
  <2>3. pay'[p] = NoPay \/ (pay'[p] = r /\ FirstPayStep(p) # "idle")
    BY <1>1, <2>2
  <2>4. \A q \in PayThreads \ {p} : pay'[q] = pay[q]
    BY <1>1, <2>2
  <2>5. /\ pay[p].pc = "owner"
        /\ \/ FirstPayStep(p) = "mark" /\ BillingBackend = "local"
           \/ FirstPayStep(p) = "idle"
           \/ /\ FirstPayStep(p) = "lingo"
              /\ BillingBackend = "lingo" /\ pay[p].lingo_id # 0
    BY <1>2, BackendsAssumption DEF ReadEnrollment, FirstPayStep
  <2> QED
    BY <2>1, <2>3, <2>4, <2>5, <2>6
<1>3. CASE LingoPay(p)
  <2>1. PICK s \in LingoStatuses \cup {"PAID"} :
          \/ EndPay(p)
          \/ /\ s \in LingoStatuses
             /\ pay' = [pay EXCEPT ![p] = [@ EXCEPT !.pc = "mark", !.status = s]]
    BY <1>3 DEF LingoPay, PaymentError
  <2> DEFINE r == [pay[p] EXCEPT !.pc = "mark", !.status = s]
  <2>2. /\ r.seat = e /\ r.pc = "mark" /\ r.status = s
        /\ r.lingo_id = pay[p].lingo_id /\ r.confirmed = pay[p].confirmed
    BY <1>1 DEF PayStates
  <2>3. \/ EndPay(p)
        \/ s \in LingoStatuses /\ pay' = [pay EXCEPT ![p] = r]
    BY <2>1
  <2> HIDE DEF r
  <2>4. pay'[p] = NoPay \/ (s \in LingoStatuses /\ pay'[p] = r)
    BY <1>1, <2>3
  <2>5. \A q \in PayThreads \ {p} : pay'[q] = pay[q]
    BY <1>1, <2>3
  <2> QED
    BY <1>3, <2>2, <2>4, <2>5 DEF LingoPay
<1>4. CASE MarkPaid(p)
  BY <1>1, <1>4 DEF MarkPaid, PayStates
<1>5. CASE ConfirmEnrollment(p)
  BY <1>1, <1>5 DEF ConfirmEnrollment, PayStates
<1>6. CASE WritePdf(p)
  BY <1>1, <1>6 DEF WritePdf, PayStates
<1>7. CASE StoreDocument(p)
  BY <1>1, <1>7 DEF StoreDocument
<1> QED
  BY <1>2, <1>3, <1>4, <1>5, <1>6, <1>7 DEF PayStep

\* A request starts on one thread, with an invoice that is there, and leaves
\* the other threads alone.
LEMMA PayRequestMoves ==
  ASSUME TypeOK, NEW p \in PayThreads, NEW u \in Parents, NEW e \in Seats,
         PayRequest(p, u, e)
  PROVE  /\ \A q \in PayThreads \ {p} : pay'[q] = pay[q]
         /\ pay'[p].seat = e /\ pay'[p].pc = "owner" /\ pay'[p].status = "PAID"
         /\ pay'[p].lingo_id = invoice[e].lingo_id /\ ~pay'[p].confirmed
         /\ Invoiced(e) /\ UNCHANGED dataVars
<1> DEFINE r == [NoPay EXCEPT !.pc = "owner", !.seat = e,
                              !.amount = invoice[e].amount,
                              !.lingo_id = invoice[e].lingo_id]
<1>1. /\ r.seat = e /\ r.pc = "owner" /\ r.status = "PAID"
      /\ r.lingo_id = invoice[e].lingo_id /\ ~r.confirmed
  BY DEF NoPay
<1>2. /\ pay' = [pay EXCEPT ![p] = r] /\ Invoiced(e) /\ UNCHANGED dataVars
  BY DEF PayRequest
<1> HIDE DEF r
<1> QED
  BY <1>1, <1>2 DEF TypeOK, PayTypeOK

LEMMA PayNextKnows ==
  ASSUME TypeOK, RowsKept, PayNext, NEW p \in PayThreads, PayKnows(p)
  PROVE  PayKnows(p)'
<1>1. CASE pay'[p] = pay[p] \/ pay'[p] = NoPay
  BY <1>1, PayStillKnows DEF NoPay
<1>2. ASSUME NEW u \in Parents, NEW e \in Seats, PayRequest(p, u, e)
      PROVE  PayKnows(p)'
  <2>1. pay'[p].seat = e /\ Invoiced(e)'
    BY <1>2, PayRequestMoves DEF Invoiced, dataVars
  <2> QED
    BY <2>1 DEF PayKnows, Invoiced
<1>3. CASE PayStep(p) /\ PayMove(p)
  BY <1>3, PayStillKnows DEF PayMove
<1>4. ASSUME NEW q \in PayThreads,
             \/ PayStep(q) \/ AbortPay(q)
             \/ \E u \in Parents, e \in Seats : PayRequest(q, u, e)
      PROVE  q = p \/ pay'[p] = pay[p]
  BY <1>4, PayStepMoves, PayRequestMoves
     DEF AbortPay, EndPay, TypeOK, PayTypeOK
<1>5. ASSUME AbortPay(p)
      PROVE  pay'[p] = NoPay
  BY <1>5 DEF AbortPay, EndPay, TypeOK, PayTypeOK
<1> QED
  BY <1>1, <1>2, <1>3, <1>4, <1>5, PayStepMoves DEF PayNext

LEMMA InitLinked ==
  ASSUME Init
  PROVE  Linked
  BY DEF Init, DataInit, EnrollInit, PayInit, Linked, RowsLinked, EnrollKnows,
     PayKnows, NoEnroll, NoPay, Created, Enrolled, Invoiced, NoInvoice, Seats

LEMMA NextLinked ==
  ASSUME TypeOK, Linked, [Next]_vars
  PROVE  Linked'
<1>1. RowsKept
  BY NextKeepsRows DEF Linked
<1>2. ASSUME NEW t \in EnrollThreads
      PROVE  EnrollKnows(t)'
  <2>1. EnrollKnows(t)
    BY DEF Linked
  <2>2. CASE UNCHANGED enroll
    BY <1>1, <2>1, <2>2, StillKnows
  <2>3. CASE EnrollNext
    BY <1>1, <2>1, <2>3, EnrollNextKnows
  <2> QED
    BY <2>2, <2>3 DEF Next, vars
<1>3. ASSUME NEW p \in PayThreads
      PROVE  PayKnows(p)'
  <2>1. PayKnows(p)
    BY DEF Linked
  <2>2. CASE UNCHANGED pay
    BY <1>1, <2>1, <2>2, PayStillKnows
  <2>3. CASE PayNext
    BY <1>1, <2>1, <2>3, PayNextKnows
  <2> QED
    BY <2>2, <2>3 DEF Next, vars
<1> QED
  BY <1>1, <1>2, <1>3 DEF Linked, RowsKept

-----------------------------------------------------------------------------
(* A payment is never undone.                                              *)

\* What a step does to the invoice of a seat that was PAID.
PaidKept == \A e \in Seats : Paid(e) => Paid(e)' \/ ~Invoiced(e)'

LEMMA NextKeepsPaid ==
  ASSUME TypeOK, \A p \in PayThreads : PaySeen(p), [Next]_vars
  PROVE  PaidKept
<1> USE DEF PaidKept, Paid, Invoiced
<1>1. CASE UNCHANGED invoice
  BY <1>1
<1>2. ASSUME NEW c \in Children, DeleteChild(c)
      PROVE  PaidKept
  BY <1>2 DEF DeleteChild, NoInvoice
<1>3. ASSUME NEW e \in Seats, LazyInvoice(e)
      PROVE  PaidKept
  BY <1>3 DEF LazyInvoice, TypeOK, DataTypeOK
<1>4. ASSUME NEW t \in EnrollThreads, CreateInvoice(t)
      PROVE  PaidKept
  BY <1>4 DEF CreateInvoice, TypeOK, DataTypeOK
<1>5. ASSUME NEW t \in EnrollThreads, SaveInvoice(t)
      PROVE  PaidKept
  <2> DEFINE e == enroll[t].seat
             i == Updated(invoice[e], enroll[t].fee, LingoIdOf(t))
  <2>1. e \in Seats /\ invoice[e] \in [status : InvoiceStatuses, amount : Nat,
                                       lingo_id : Nat]
    BY <1>5, SeatOfEnroll DEF SaveInvoice, Working, TypeOK, EnrollTypeOK,
       DataTypeOK
  <2>2. i.status = invoice[e].status
    BY <2>1 DEF Updated
  <2>3. invoice' = invoice \/ invoice' = [invoice EXCEPT ![e] = i]
    BY <1>5 DEF SaveInvoice
  <2> HIDE DEF i
  <2> QED
    BY <2>1, <2>2, <2>3 DEF TypeOK, DataTypeOK
<1>6. ASSUME NEW p \in PayThreads, MarkPaid(p)
      PROVE  PaidKept
  BY <1>6 DEF MarkPaid, PaySeen, TypeOK, DataTypeOK
<1>7. ASSUME PeopleNext
      PROVE  UNCHANGED invoice \/ (\E c \in Children : DeleteChild(c))
             \/ (\E e \in Seats : LazyInvoice(e))
  BY <1>7 DEF PeopleNext, FamilyNext, CatalogueNext, AddChild, VerifyIdentity,
     SetFee, SetActive, StaffSetStatus
<1>8. ASSUME EnrollNext
      PROVE  UNCHANGED invoice
             \/ (\E t \in EnrollThreads : CreateInvoice(t) \/ SaveInvoice(t))
  BY <1>8 DEF EnrollNext, EnrollRequest, AbortEnroll, EnrollStep,
     CheckCapacity, WcsCreate, CreateEnrollment, LingoCreate, ConfirmOnSave,
     dataVars
<1>9. ASSUME PayNext
      PROVE  UNCHANGED invoice \/ (\E p \in PayThreads : MarkPaid(p))
  BY <1>9 DEF PayNext, PayRequest, AbortPay, PayStep, ReadEnrollment, LingoPay,
     ConfirmEnrollment, WritePdf, StoreDocument, dataVars
<1> QED
  BY <1>1, <1>2, <1>3, <1>4, <1>5, <1>6, <1>7, <1>8, <1>9
     DEF Next, vars, dataVars, PeopleNext

-----------------------------------------------------------------------------
(* Nothing is confirmed that is not paid.                                  *)

\* Only two steps confirm an enrollment, and neither touches an invoice.
LEMMA NewlyConfirmed ==
  ASSUME TypeOK, [Next]_vars, NEW e \in Seats,
         enrollment[e] # "CONFIRMED", enrollment'[e] = "CONFIRMED"
  PROVE  /\ Enrolled(e) /\ UNCHANGED invoice
         /\ \/ \E t \in EnrollThreads :
                  enroll[t].pc = "confirm" /\ enroll[t].seat = e
            \/ \E p \in PayThreads :
                  pay[p].pc = "confirm" /\ pay[p].seat = e
<1> USE DEF TypeOK, DataTypeOK
<1>1. enrollment' # enrollment
  OBVIOUS
<1>2. ASSUME NEW t \in EnrollThreads, EnrollStep(t)
      PROVE  ConfirmOnSave(t)
  BY <1>1, <1>2 DEF EnrollStep, CheckCapacity, WcsCreate, CreateEnrollment,
     LingoCreate, CreateInvoice, SaveInvoice, dataVars
<1>3. ASSUME NEW t \in EnrollThreads, ConfirmOnSave(t)
      PROVE  /\ enroll[t].pc = "confirm" /\ enroll[t].seat = e
             /\ Enrolled(e) /\ UNCHANGED invoice
  BY <1>3 DEF ConfirmOnSave, Working, Enrolled
<1>4. ASSUME NEW p \in PayThreads, PayStep(p)
      PROVE  ConfirmEnrollment(p)
  BY <1>1, <1>4 DEF PayStep, ReadEnrollment, LingoPay, MarkPaid, WritePdf,
     StoreDocument, dataVars
<1>5. ASSUME NEW p \in PayThreads, ConfirmEnrollment(p)
      PROVE  /\ pay[p].pc = "confirm" /\ pay[p].seat = e
             /\ Enrolled(e) /\ UNCHANGED invoice
  BY <1>5 DEF ConfirmEnrollment, Paying, Enrolled
<1>6. ~PeopleNext
  <2>1. ASSUME NEW c \in Children, DeleteChild(c)
        PROVE  FALSE
    BY <2>1 DEF DeleteChild
  <2>2. ASSUME NEW d \in Seats, NEW s \in StaffStatuses, StaffSetStatus(d, s)
        PROVE  FALSE
    BY <2>2, StaffAssumption DEF StaffSetStatus
  <2> QED
    BY <1>1, <2>1, <2>2 DEF PeopleNext, FamilyNext, CatalogueNext, AddChild,
       VerifyIdentity, SetFee, SetActive, LazyInvoice
<1>7. CASE EnrollNext
  BY <1>1, <1>2, <1>3, <1>7 DEF EnrollNext, EnrollRequest, AbortEnroll, dataVars
<1>8. CASE PayNext
  BY <1>1, <1>4, <1>5, <1>8 DEF PayNext, PayRequest, AbortPay, dataVars
<1> QED
  BY <1>1, <1>6, <1>7, <1>8 DEF Next, vars, dataVars, PeopleNext

\* An invoice read through a seat that a thread knows was already there.
LEMMA WasInvoiced ==
  ASSUME RowsKept, NEW e \in Seats, Invoiced(e) \/ Gone(e), Invoiced(e)'
  PROVE  Invoiced(e)
  BY DEF RowsKept, RowsLinked, Persists, Gone

LEMMA EnrollStillSeen ==
  ASSUME TypeOK, Linked, RowsKept, PaidKept, NEW t \in EnrollThreads,
         EnrollSeen(t), enroll[t].paid, enroll'[t].seat = enroll[t].seat
  PROVE  EnrollSeen(t)'
<1>1. /\ enroll[t].pc \in {"save", "confirm"}
      /\ Invoiced(enroll[t].seat) \/ Gone(enroll[t].seat)
  BY DEF Linked, EnrollKnows
<1>2. enroll[t].seat \in Seats
  BY <1>1, SeatOfEnroll DEF TypeOK, Working
<1> QED
  BY <1>1, <1>2, WasInvoiced DEF EnrollSeen, PaidKept, Paid, Invoiced

LEMMA EnrollNextSeen ==
  ASSUME TypeOK, Linked, RowsKept, PaidKept, EnrollNext,
         NEW t \in EnrollThreads, EnrollSeen(t)
  PROVE  EnrollSeen(t)'
<1>1. CASE enroll'[t] = enroll[t]
  BY <1>1, EnrollStillSeen DEF EnrollSeen
<1>2. CASE enroll'[t] = NoEnroll
  BY <1>2 DEF EnrollSeen, NoEnroll
<1>3. ASSUME NEW u \in Parents, NEW c \in Children, NEW a \in Activities,
             EnrollRequest(t, u, c, a)
      PROVE  EnrollSeen(t)'
  BY <1>3 DEF EnrollRequest, EnrollSeen, NoEnroll, TypeOK, EnrollTypeOK
<1>4. CASE EnrollStep(t) /\ EnrollMove(t)
  <2>1. CASE enroll[t].paid
    BY <1>4, <2>1, EnrollStillSeen DEF EnrollMove
  <2>2. CASE enroll[t].pc = "bill"
    BY <1>4, <2>2 DEF EnrollMove, EnrollSeen, Paid
  <2>3. CASE ~enroll[t].paid /\ enroll[t].pc # "bill"
    BY <1>4, <2>3 DEF EnrollMove, EnrollSeen
  <2> QED
    BY <2>1, <2>2, <2>3
<1>5. ASSUME NEW s \in EnrollThreads,
             \/ EnrollStep(s) \/ AbortEnroll(s)
             \/ \E u \in Parents, c \in Children, a \in Activities :
                   EnrollRequest(s, u, c, a)
      PROVE  s = t \/ enroll'[t] = enroll[t]
  BY <1>5, EnrollStepMoves
     DEF AbortEnroll, EndEnroll, EnrollRequest, TypeOK, EnrollTypeOK
<1>6. ASSUME AbortEnroll(t)
      PROVE  enroll'[t] = NoEnroll
  BY <1>6 DEF AbortEnroll, EndEnroll, TypeOK, EnrollTypeOK
<1> QED
  BY <1>1, <1>2, <1>3, <1>4, <1>5, <1>6, EnrollStepMoves DEF EnrollNext

LEMMA PayStillSeen ==
  ASSUME TypeOK, Linked, RowsKept, PaidKept, NEW p \in PayThreads, PaySeen(p),
         pay'[p] = pay[p]
  PROVE  PaySeen(p)'
<1>1. CASE pay[p].pc \in {"confirm", "pdf", "store"}
  <2>1. pay[p].seat \in Seats
    BY <1>1, SeatOfPay DEF TypeOK, Paying
  <2>2. Invoiced(pay[p].seat) \/ Gone(pay[p].seat)
    BY <1>1 DEF Linked, PayKnows
  <2> QED
    BY <1>1, <2>1, <2>2, WasInvoiced DEF PaySeen, PaidKept, Paid, Invoiced
<1>2. CASE pay[p].pc \notin {"confirm", "pdf", "store"}
  BY <1>2 DEF PaySeen
<1> QED
  BY <1>1, <1>2

LEMMA PayNextSeen ==
  ASSUME OnlyPaid, TypeOK, Linked, RowsKept, PaidKept, PayNext,
         NEW p \in PayThreads, PaySeen(p)
  PROVE  PaySeen(p)'
<1>1. CASE pay'[p] = pay[p]
  BY <1>1, PayStillSeen
<1>2. CASE pay'[p] = NoPay
  BY <1>2 DEF PaySeen, NoPay
<1>3. ASSUME NEW u \in Parents, NEW e \in Seats, PayRequest(p, u, e)
      PROVE  PaySeen(p)'
  BY <1>3, PayRequestMoves DEF PaySeen
<1>4. CASE PayStep(p) /\ PayMove(p)
  <2> DEFINE e == pay[p].seat
  <2>1. e \in Seats /\ (Invoiced(e) \/ Gone(e)) /\ pay'[p].seat = e
    BY <1>4, SeatOfPay DEF PayMove, TypeOK, Paying, Linked, PayKnows
  <2>2. pay'[p].status = "PAID"
    BY <1>4 DEF PayMove, PaySeen, OnlyPaid
  <2>3. pay'[p].pc = "lingo" => BillingBackend = "lingo"
    BY <1>4 DEF PayMove
  <2>4. CASE pay'[p].pc = "confirm"
    <3>1. Paid(e)'
      BY <1>4, <2>1, <2>4 DEF PayMove, PaySeen, Paid, TypeOK, DataTypeOK
    <3> QED
      BY <2>1, <2>2, <2>3, <3>1 DEF PaySeen, Paid
  <2>5. CASE pay'[p].pc \in {"pdf", "store"}
    <3>1. Invoiced(e) => Paid(e)
      BY <1>4, <2>5 DEF PayMove, PaySeen
    <3>2. Invoiced(e)' => Paid(e)'
      BY <2>1, <3>1, WasInvoiced DEF PaidKept
    <3> QED
      BY <2>1, <2>2, <2>3, <3>2 DEF PaySeen, Paid, Invoiced
  <2>6. CASE pay'[p].pc \notin {"confirm", "pdf", "store"}
    BY <2>2, <2>3, <2>6 DEF PaySeen
  <2> QED
    BY <2>4, <2>5, <2>6
<1>5. ASSUME NEW q \in PayThreads,
             \/ PayStep(q) \/ AbortPay(q)
             \/ \E u \in Parents, e \in Seats : PayRequest(q, u, e)
      PROVE  q = p \/ pay'[p] = pay[p]
  BY <1>5, PayStepMoves, PayRequestMoves
     DEF AbortPay, EndPay, TypeOK, PayTypeOK
<1>6. ASSUME AbortPay(p)
      PROVE  pay'[p] = NoPay
  BY <1>6 DEF AbortPay, EndPay, TypeOK, PayTypeOK
<1> QED
  BY <1>1, <1>2, <1>3, <1>4, <1>5, <1>6, PayStepMoves DEF PayNext

LEMMA NextConfirmedIsPaid ==
  ASSUME TypeOK, Linked, RowsKept, PaidKept, PaymentInv, [Next]_vars
  PROVE  ConfirmedIsPaid'
<1> SUFFICES ASSUME NEW e \in Seats, enrollment'[e] = "CONFIRMED"
             PROVE  Paid(e)'
  BY DEF ConfirmedIsPaid, Paid
<1>1. Enrolled(e)' /\ ~Gone(e)'
  BY DEF Enrolled, Gone, RowsKept, RowsLinked
<1>2. Invoiced(e) => Invoiced(e)'
  BY <1>1 DEF RowsKept, Persists
<1>3. CASE enrollment[e] = "CONFIRMED"
  <2>1. Paid(e) /\ Invoiced(e)
    BY <1>3 DEF PaymentInv, ConfirmedIsPaid, Paid, Invoiced
  <2> QED
    BY <1>2, <2>1 DEF PaidKept
<1>4. CASE enrollment[e] # "CONFIRMED"
  <2>1. Enrolled(e) /\ UNCHANGED invoice /\ ~Gone(e)
    BY <1>4, NewlyConfirmed DEF Linked, RowsLinked, Gone
  <2>2. ASSUME NEW t \in EnrollThreads, enroll[t].pc = "confirm",
               enroll[t].seat = e
        PROVE  Paid(e)
    BY <2>1, <2>2 DEF Linked, EnrollKnows, PaymentInv, EnrollSeen
  <2>3. ASSUME NEW p \in PayThreads, pay[p].pc = "confirm", pay[p].seat = e
        PROVE  Paid(e)
    BY <2>1, <2>3 DEF Linked, PayKnows, PaymentInv, PaySeen
  <2>4. Paid(e)
    BY <1>4, <2>2, <2>3, NewlyConfirmed
  <2> QED
    BY <2>1, <2>4 DEF Paid
<1> QED
  BY <1>3, <1>4

LEMMA InitPaymentInv ==
  ASSUME Init
  PROVE  PaymentInv
  BY DEF Init, DataInit, EnrollInit, PayInit, PaymentInv, PaySeen, EnrollSeen,
     ConfirmedIsPaid, NoEnroll, NoPay

LEMMA NextPaymentInv ==
  ASSUME OnlyPaid, TypeOK, Linked, PaymentInv, [Next]_vars
  PROVE  PaymentInv'
<1>1. RowsKept
  BY NextKeepsRows DEF Linked
<1>2. PaidKept
  BY NextKeepsPaid DEF PaymentInv
<1>3. ASSUME NEW t \in EnrollThreads
      PROVE  EnrollSeen(t)'
  <2>1. EnrollSeen(t)
    BY DEF PaymentInv
  <2>2. CASE UNCHANGED enroll
    BY <1>1, <1>2, <2>1, <2>2, EnrollStillSeen DEF EnrollSeen
  <2>3. CASE EnrollNext
    BY <1>1, <1>2, <2>1, <2>3, EnrollNextSeen
  <2> QED
    BY <2>2, <2>3 DEF Next, vars
<1>4. ASSUME NEW p \in PayThreads
      PROVE  PaySeen(p)'
  <2>1. PaySeen(p)
    BY DEF PaymentInv
  <2>2. CASE UNCHANGED pay
    BY <1>1, <1>2, <2>1, <2>2, PayStillSeen
  <2>3. CASE PayNext
    BY <1>1, <1>2, <2>1, <2>3, PayNextSeen
  <2> QED
    BY <2>2, <2>3 DEF Next, vars
<1>5. ConfirmedIsPaid'
  BY <1>1, <1>2, NextConfirmedIsPaid
<1> QED
  BY <1>3, <1>4, <1>5 DEF PaymentInv

-----------------------------------------------------------------------------

\* Rows stay linked and no thread loses its rows to anything but the deletion
\* of a child (families/views.py:101-127, the cascades of the models).
THEOREM RowsStayLinked == Spec => []Linked
<1>1. TypeOK /\ Linked /\ [Next]_vars => Linked'
  BY NextLinked
<1> QED
  BY <1>1, InitLinked, TypeCorrect, PTL DEF Spec

\* The inductive invariant of payments holds when a payment is always answered
\* with PAID, as the local gateway's is (billing/gateways.py:131-140).
THEOREM PaymentsCorrect ==
  ASSUME OnlyPaid
  PROVE  Spec => []PaymentInv
<1>1. TypeOK /\ Linked /\ PaymentInv /\ [Next]_vars => PaymentInv'
  BY NextPaymentInv
<1> QED
  BY <1>1, InitPaymentInv, TypeCorrect, RowsStayLinked, PTL DEF Spec

\* However many requests, staff edits, deletions and crashes interleave, a
\* confirmed enrollment has a PAID invoice, provided a payment is answered
\* with PAID (billing/signals.py:36-43, billing/gateways.py:132-140, :276-289).
THEOREM ConfirmedOnlyIfPaid ==
  ASSUME OnlyPaid
  PROVE  Spec => []ConfirmedIsPaid
<1>1. PaymentInv => ConfirmedIsPaid
  BY DEF PaymentInv
<1> QED
  BY <1>1, PaymentsCorrect, PTL

\* Under the same proviso no step of any request takes a payment back
\* (billing/gateways.py:109-112, :134 and :222-231).
THEOREM PaymentIsFinal ==
  ASSUME OnlyPaid
  PROVE  Spec => PaidIsFinal
<1>1. TypeOK /\ PaymentInv /\ [Next]_vars =>
        [\A e \in Seats : Paid(e) => (Paid(e)' \/ ~Invoiced(e)')]_vars
  BY NextKeepsPaid DEF PaymentInv, PaidKept
<1> QED
  BY <1>1, PaymentsCorrect, TypeCorrect, PTL DEF Spec, PaidIsFinal
=============================================================================
