---------------------------- MODULE BillingProofs ----------------------------
(***************************************************************************)
(* What the portal shows agrees with what has happened: an enrollment with *)
(* the parent's identity check and with WCS, an invoice with Lingo, which  *)
(* bills each enrollment at most once, and a document with its payment;    *)
(* and the portal implements the lifecycle of an enrollment.               *)
(***************************************************************************)
EXTENDS PaymentProofs, PlacesProofs, PortalRefinement

\* Only a thread at "lingo" creates invoices at Lingo, whatever it is answered.
LEMMA LingoCreated ==
  ASSUME TypeOK, [Next]_vars, NEW e \in Seats
  PROVE  \/ lingo'[e].created = lingo[e].created
         \/ /\ \E t \in EnrollThreads :
                  /\ enroll[t].pc = "lingo" /\ enroll[t].seat = e
                  /\ enroll'[t].pc # "lingo"
            /\ lingo'[e].created = lingo[e].created + 1
<1> USE DEF TypeOK, DataTypeOK
<1>1. ASSUME NEW t \in EnrollThreads, EnrollStep(t), ~LingoCreate(t)
      PROVE  UNCHANGED lingo
  BY <1>1 DEF EnrollStep, CheckCapacity, WcsCreate, CreateEnrollment,
     CreateInvoice, SaveInvoice, ConfirmOnSave, dataVars
<1>2. ASSUME NEW t \in EnrollThreads, LingoCreate(t)
      PROVE  /\ enroll[t].pc = "lingo" /\ enroll'[t].pc # "lingo"
             /\ \/ UNCHANGED lingo
                \/ lingo' = [lingo EXCEPT ![enroll[t].seat].created = @ + 1]
  <2>1. enroll'[t] = NoEnroll \/ EnrollMove(t)
    BY <1>2, EnrollStepMoves DEF EnrollStep
  <2> QED
    BY <1>2, <2>1 DEF LingoCreate, Working, EnrollMove, NoEnroll
<1>3. ASSUME NEW p \in PayThreads, PayStep(p)
      PROVE  \/ UNCHANGED lingo
             \/ lingo' = [lingo EXCEPT ![pay[p].seat].paid = @ + 1]
  BY <1>3 DEF PayStep, ReadEnrollment, LingoPay, MarkPaid, ConfirmEnrollment,
     WritePdf, StoreDocument, dataVars
<1>4. CASE UNCHANGED lingo
  BY <1>4
<1>5. CASE EnrollNext
  <2>1. ASSUME NEW t \in EnrollThreads, LingoCreate(t),
               lingo'[e].created # lingo[e].created
        PROVE  /\ enroll[t].pc = "lingo" /\ enroll[t].seat = e
               /\ enroll'[t].pc # "lingo"
               /\ lingo'[e].created = lingo[e].created + 1
    <3> DEFINE n == lingo[e].created + 1
               r == [lingo[e] EXCEPT !.created = n]
    <3>1. r.created = n
      OBVIOUS
    <3>2. lingo' = lingo \/ lingo' = [lingo EXCEPT ![enroll[t].seat].created = @ + 1]
      BY <1>2, <2>1
    <3>3. \/ enroll[t].seat # e /\ lingo'[e] = lingo[e]
          \/ enroll[t].seat = e /\ lingo'[e] = r
      BY <2>1, <3>2
    <3> HIDE DEF n, r
    <3>4. enroll[t].seat = e /\ lingo'[e].created = n
      BY <2>1, <3>1, <3>3
    <3> QED
      BY <1>2, <2>1, <3>4 DEF n
  <2>2. CASE ~\E t \in EnrollThreads : LingoCreate(t)
    BY <1>1, <1>4, <1>5, <2>2
       DEF EnrollNext, EnrollRequest, AbortEnroll, dataVars
  <2> QED
    BY <2>1, <2>2
<1>6. CASE PayNext
  <2>1. ASSUME NEW p \in PayThreads,
               lingo' = [lingo EXCEPT ![pay[p].seat].paid = @ + 1]
        PROVE  lingo'[e].created = lingo[e].created
    <3> DEFINE r == [lingo[e] EXCEPT !.paid = @ + 1]
    <3>1. r.created = lingo[e].created
      OBVIOUS
    <3>2. lingo'[e] = lingo[e] \/ lingo'[e] = r
      BY <2>1
    <3> HIDE DEF r
    <3> QED
      BY <3>1, <3>2
  <2> QED
    BY <1>3, <1>4, <1>6, <2>1 DEF PayNext, PayRequest, AbortPay, dataVars
<1>7. CASE PeopleNext
  BY <1>4, <1>7 DEF PeopleNext, FamilyNext, CatalogueNext, AddChild,
     DeleteChild, VerifyIdentity, SetFee, SetActive, StaffSetStatus, LazyInvoice
<1> QED
  BY <1>4, <1>5, <1>6, <1>7 DEF Next, vars, dataVars, PeopleNext

\* A thread is a creator if it was one, of the same seat, or if it has just
\* inserted the enrollment.
LEMMA CreatorBecomes ==
  ASSUME TypeOK, [Next]_vars, NEW t \in EnrollThreads, enroll'[t].pc \in Created
  PROVE  /\ enroll'[t].seat = enroll[t].seat
         /\ enroll[t].seat \in Seats
         /\ \/ enroll[t].pc \in Created
               /\ (enroll'[t].pc = "lingo" => enroll[t].pc = "lingo")
            \/ /\ enroll[t].pc = "create"
               /\ ~Enrolled(enroll[t].seat) /\ ~Gone(enroll[t].seat)
               /\ \A s \in EnrollThreads \ {t} : enroll'[s] = enroll[s]
               /\ UNCHANGED lingo
<1> USE DEF Created
<1>1. CASE enroll'[t] = enroll[t]
  BY <1>1, SeatOfEnroll DEF TypeOK, Working
<1>2. enroll'[t] # NoEnroll
  BY DEF NoEnroll
<1>3. CASE EnrollStep(t)
  <2>1. EnrollMove(t)
    BY <1>2, <1>3, EnrollStepMoves
  <2>2. enroll[t].seat \in Seats
    BY <2>1, SeatOfEnroll DEF TypeOK, Working, EnrollMove
  <2> QED
    BY <1>3, <2>1, <2>2, EnrollStepMoves DEF EnrollMove, Gone
<1>4. ASSUME NEW s \in EnrollThreads, NEW u \in Parents, NEW c \in Children,
             NEW a \in Activities, EnrollRequest(s, u, c, a)
      PROVE  enroll'[t] = enroll[t]
  BY <1>4 DEF EnrollRequest, TypeOK, EnrollTypeOK, NoEnroll
<1>5. ASSUME NEW s \in EnrollThreads, EnrollStep(s) \/ AbortEnroll(s),
             ~EnrollStep(t)
      PROVE  enroll'[t] = enroll[t]
  BY <1>2, <1>5, EnrollStepMoves DEF AbortEnroll, EndEnroll, TypeOK, EnrollTypeOK
<1> QED
  BY <1>1, <1>3, <1>4, <1>5 DEF Next, vars, EnrollNext

LEMMA InitBillingInv ==
  ASSUME Init
  PROVE  BillingInv
  BY DEF Init, DataInit, EnrollInit, BillingInv, OneCreator, BilledOnceAtLingo,
     NoEnroll, Created

LEMMA NextBillingInv ==
  ASSUME TypeOK, Linked, BillingInv, [Next]_vars
  PROVE  BillingInv'
<1> USE DEF BillingInv, OneCreator
<1>1. RowsKept
  BY NextKeepsRows DEF Linked
<1>2. ASSUME NEW t \in EnrollThreads, NEW s \in EnrollThreads, t # s,
             enroll'[t].pc \in Created, enroll'[s].pc \in Created,
             enroll'[t].seat = enroll'[s].seat
      PROVE  FALSE
  <2> DEFINE e == enroll[t].seat
  <2>1. enroll[s].seat = e
    BY <1>2, CreatorBecomes
  <2>2. CASE enroll[t].pc \in Created /\ enroll[s].pc \in Created
    BY <1>2, <2>1, <2>2
  <2>3. CASE enroll[t].pc \notin Created
    <3>1. ~Enrolled(e) /\ ~Gone(e) /\ enroll'[s] = enroll[s]
      BY <1>2, <2>3, CreatorBecomes
    <3> QED
      BY <1>2, <2>1, <3>1 DEF Linked, EnrollKnows
  <2>4. CASE enroll[s].pc \notin Created
    <3>1. ~Enrolled(e) /\ ~Gone(e) /\ enroll'[t] = enroll[t]
      BY <1>2, <2>1, <2>4, CreatorBecomes
    <3> QED
      BY <1>2, <3>1 DEF Linked, EnrollKnows
  <2> QED
    BY <2>2, <2>3, <2>4
<1>3. ASSUME NEW t \in EnrollThreads, enroll'[t].pc = "lingo"
      PROVE  lingo'[enroll'[t].seat].created = 0
  <2> DEFINE e == enroll[t].seat
  <2>1. enroll'[t].seat = e /\ e \in Seats
    BY <1>3, CreatorBecomes DEF Created
  <2>2. CASE enroll[t].pc = "lingo"
    <3>1. lingo[e].created = 0
      BY <2>2
    <3>2. ASSUME NEW s \in EnrollThreads, enroll[s].pc = "lingo",
                 enroll[s].seat = e, enroll'[s].pc # "lingo"
          PROVE  FALSE
      BY <1>3, <2>2, <3>2 DEF Created
    <3> QED
      BY <2>1, <3>1, <3>2, LingoCreated
  <2>3. CASE enroll[t].pc # "lingo"
    <3>1. ~Enrolled(e) /\ ~Gone(e) /\ UNCHANGED lingo
      BY <1>3, <2>3, CreatorBecomes DEF Created
    <3> QED
      BY <2>1, <3>1 DEF TypeOK, DataTypeOK
  <2> QED
    BY <2>2, <2>3
<1>4. ASSUME NEW e \in Seats
      PROVE  /\ lingo'[e].created > 0 => Enrolled(e)' \/ Gone(e)'
             /\ lingo'[e].created =< 1
  <2>1. Enrolled(e) \/ Gone(e) => Enrolled(e)' \/ Gone(e)'
    BY <1>1 DEF RowsKept, Persists
  <2>2. CASE lingo'[e].created = lingo[e].created
    BY <2>1, <2>2 DEF BilledOnceAtLingo
  <2>3. ASSUME NEW t \in EnrollThreads, enroll[t].pc = "lingo",
               enroll[t].seat = e, lingo'[e].created = lingo[e].created + 1
        PROVE  lingo'[e].created = 1 /\ (Enrolled(e) \/ Gone(e))
    BY <2>3 DEF Linked, EnrollKnows, Created
  <2> QED
    BY <2>1, <2>2, <2>3, LingoCreated
<1> QED
  BY <1>2, <1>3, <1>4 DEF BilledOnceAtLingo

\* Whatever parents submit and whatever Lingo answers, an enrollment is billed
\* to Lingo at most once (activities/views.py:196-203).
THEOREM BilledOnce == Spec => []BilledOnceAtLingo
<1>1. TypeOK /\ Linked /\ BillingInv /\ [Next]_vars => BillingInv'
  BY NextBillingInv
<1>2. BillingInv => BilledOnceAtLingo
  BY DEF BillingInv
<1> QED
  BY <1>1, <1>2, InitBillingInv, TypeCorrect, RowsStayLinked, PTL DEF Spec

-----------------------------------------------------------------------------
(* Enrolled children and their parents' identity.                          *)

\* The thread starts a request.
EnrollStarts(t) ==
    \E u \in Parents, c \in Children, a \in Activities : EnrollRequest(t, u, c, a)

\* A thread of the enroll view is idle, waits, starts a request or makes a step.
LEMMA EnrollThreadMoves ==
  ASSUME TypeOK, [Next]_vars, NEW t \in EnrollThreads
  PROVE  \/ enroll'[t] = NoEnroll
         \/ enroll'[t] = enroll[t]
         \/ EnrollStep(t)
         \/ EnrollStarts(t)
<1>1. CASE UNCHANGED enroll
  BY <1>1
<1>2. ASSUME NEW s \in EnrollThreads, NEW u \in Parents, NEW c \in Children,
             NEW a \in Activities, EnrollRequest(s, u, c, a), s # t
      PROVE  enroll'[t] = enroll[t]
  BY <1>2 DEF EnrollRequest, TypeOK, EnrollTypeOK
<1>3. ASSUME NEW s \in EnrollThreads, EnrollStep(s)
      PROVE  s # t => enroll'[t] = enroll[t]
  BY <1>3, EnrollStepMoves
<1>4. ASSUME NEW s \in EnrollThreads, AbortEnroll(s)
      PROVE  enroll'[t] = enroll[t] \/ enroll'[t] = NoEnroll
  BY <1>4 DEF AbortEnroll, EndEnroll, TypeOK, EnrollTypeOK
<1> QED
  BY <1>1, <1>2, <1>3, <1>4 DEF Next, vars, EnrollNext, EnrollStarts

\* An enrollment that was not there is made by a thread at "create".
LEMMA NewlyEnrolled ==
  ASSUME TypeOK, [Next]_vars, NEW e \in Seats, ~Enrolled(e), Enrolled(e)'
  PROVE  \E t \in EnrollThreads : CreateEnrollment(t) /\ enroll[t].seat = e
<1> USE DEF Enrolled
<1>1. enrollment' # enrollment
  OBVIOUS
<1>2. ASSUME PeopleNext
      PROVE  FALSE
  BY <1>2 DEF PeopleNext, FamilyNext, CatalogueNext, AddChild, DeleteChild,
     VerifyIdentity, SetFee, SetActive, StaffSetStatus, LazyInvoice, TypeOK,
     DataTypeOK
<1>3. ASSUME NEW t \in EnrollThreads, EnrollStep(t), ~CreateEnrollment(t)
      PROVE  FALSE
  BY <1>3 DEF EnrollStep, CheckCapacity, WcsCreate, LingoCreate, CreateInvoice,
     SaveInvoice, ConfirmOnSave, dataVars, TypeOK, DataTypeOK
<1>4. ASSUME NEW t \in EnrollThreads, CreateEnrollment(t)
      PROVE  enroll[t].seat = e
  <2> DEFINE status == IF enrollment[enroll[t].seat] = "absent"
                         THEN "PENDING_PAYMENT" ELSE enrollment[enroll[t].seat]
  <2>1. enrollment' = [enrollment EXCEPT ![enroll[t].seat] = status]
    BY <1>1, <1>4 DEF CreateEnrollment
  <2> HIDE DEF status
  <2> QED
    BY <2>1
<1>5. ASSUME NEW p \in PayThreads, PayStep(p)
      PROVE  FALSE
  <2>1. /\ enrollment' = [enrollment EXCEPT ![pay[p].seat] = "CONFIRMED"]
        /\ Enrolled(pay[p].seat)
    BY <1>1, <1>5 DEF PayStep, ReadEnrollment, LingoPay, MarkPaid,
       ConfirmEnrollment, WritePdf, StoreDocument, dataVars
  <2> QED
    BY <2>1
<1> QED
  BY <1>1, <1>2, <1>3, <1>4, <1>5
     DEF Next, vars, EnrollNext, PayNext, EnrollRequest, AbortEnroll,
         PayRequest, AbortPay, PeopleNext, dataVars

LEMMA InitVerifiedInv ==
  ASSUME Init
  PROVE  VerifiedInv
  BY DEF Init, DataInit, EnrollInit, VerifiedInv, EnrolledIsVerified, Working,
     NoEnroll, Enrolled

\* Nobody's identity check is ever withdrawn.
LEMMA StaysVerified ==
  ASSUME TypeOK, [Next]_vars, NEW e \in Seats, Entitled(e)
  PROVE  Entitled(e)'
<1>1. verified' = verified \/ \E u \in Parents : VerifyIdentity(u)
  BY DEF Next, vars, FamilyNext, CatalogueNext, AddChild, DeleteChild, SetFee,
     SetActive, StaffSetStatus, LazyInvoice, EnrollNext, EnrollRequest,
     EnrollStep, CheckCapacity, WcsCreate, CreateEnrollment, LingoCreate,
     CreateInvoice, SaveInvoice, ConfirmOnSave, AbortEnroll, PayNext,
     PayRequest, PayStep, ReadEnrollment, LingoPay, MarkPaid,
     ConfirmEnrollment, WritePdf, StoreDocument, AbortPay, dataVars
<1>2. ParentOf[e[1]] \in Parents
  BY ParentsAssumption DEF Seats
<1> QED
  BY <1>1, <1>2 DEF Entitled, VerifyIdentity, TypeOK, DataTypeOK

LEMMA NextVerifiedInv ==
  ASSUME TypeOK, VerifiedInv, [Next]_vars
  PROVE  VerifiedInv'
<1>1. ASSUME NEW t \in EnrollThreads, enroll'[t].pc # "idle"
      PROVE  Entitled(enroll[t].seat)'
  <2>1. enroll'[t] # NoEnroll
    BY <1>1 DEF NoEnroll
  <2>2. CASE enroll'[t] = enroll[t] \/ EnrollStep(t)
    <3> DEFINE e == enroll[t].seat
    <3>1. enroll'[t].seat = e /\ enroll[t].pc # "idle" /\ e \in Seats
      BY <1>1, <2>1, <2>2, EnrollStepMoves, SeatOfEnroll
         DEF EnrollMove, TypeOK, Working
    <3>2. Entitled(e)
      BY <3>1 DEF VerifiedInv, Working
    <3>3. \A f \in Seats : Entitled(f) => Entitled(f)'
      BY StaysVerified
    <3> QED
      BY <3>1, <3>2, <3>3 DEF Entitled
  <2>3. CASE EnrollStarts(t)
    <3> PICK u \in Parents, c \in Children, a \in Activities :
             EnrollRequest(t, u, c, a)
      BY <2>3 DEF EnrollStarts
    <3>1. enroll'[t].seat = <<c, a>>
      BY DEF EnrollRequest, TypeOK, EnrollTypeOK, NoEnroll
    <3>2. verified' = verified /\ (u \in Staff \/ verified[u]) /\ ParentOf[c] = u
      BY DEF EnrollRequest, IdentityChecked, OwnChild, dataVars
    <3> QED
      BY <3>1, <3>2 DEF Entitled
  <2> QED
    BY <2>1, <2>2, <2>3, EnrollThreadMoves
<1>2. ASSUME NEW e \in Seats, Enrolled(e)'
      PROVE  Entitled(e)'
  <2>1. CASE Enrolled(e)
    BY <2>1, StaysVerified DEF VerifiedInv, EnrolledIsVerified, Entitled
  <2>2. CASE ~Enrolled(e)
    <3>1. PICK t \in EnrollThreads : CreateEnrollment(t) /\ enroll[t].seat = e
      BY <1>2, <2>2, NewlyEnrolled
    <3>2. Entitled(e)
      BY <3>1 DEF CreateEnrollment, Working, VerifiedInv
    <3> QED
      BY <3>2, StaysVerified
  <2> QED
    BY <2>1, <2>2
<1> QED
  BY <1>1, <1>2 DEF VerifiedInv, EnrolledIsVerified, Entitled, Working

\* No child is ever enrolled whose parent is neither staff nor verified, and a
\* request that starts checked stays right to its end (activities/views.py:170-179).
THEOREM EnrolledOnlyIfVerified == Spec => []EnrolledIsVerified
<1>1. TypeOK /\ VerifiedInv /\ [Next]_vars => VerifiedInv'
  BY NextVerifiedInv
<1>2. VerifiedInv => EnrolledIsVerified
  BY DEF VerifiedInv
<1> QED
  BY <1>1, <1>2, InitVerifiedInv, TypeCorrect, PTL DEF Spec

-----------------------------------------------------------------------------
(* What the portal shows exists at the remote services.                    *)

\* WCS forgets no enrollment.
LEMMA WcsGrows ==
  ASSUME TypeOK, [Next]_vars, NEW e \in Seats
  PROVE  wcs'[e] >= wcs[e]
<1> USE DEF TypeOK, DataTypeOK
<1>1. CASE UNCHANGED wcs
  BY <1>1
<1>2. ASSUME NEW t \in EnrollThreads, WcsCreate(t)
      PROVE  wcs'[e] >= wcs[e]
  BY <1>2 DEF WcsCreate
<1>3. UNCHANGED wcs \/ \E t \in EnrollThreads : WcsCreate(t)
  BY DEF Next, vars, FamilyNext, CatalogueNext, AddChild, DeleteChild,
     VerifyIdentity, SetFee, SetActive, StaffSetStatus, LazyInvoice,
     EnrollNext, EnrollRequest, EnrollStep, CheckCapacity, CreateEnrollment,
     LingoCreate, CreateInvoice, SaveInvoice, ConfirmOnSave, AbortEnroll,
     PayNext, PayRequest, PayStep, ReadEnrollment, LingoPay, MarkPaid,
     ConfirmEnrollment, WritePdf, StoreDocument, AbortPay, dataVars
<1> QED
  BY <1>1, <1>2, <1>3

LEMMA InitWcsInv ==
  ASSUME Init
  PROVE  WcsInv
  BY DEF Init, DataInit, EnrollInit, WcsInv, EnrolledIsAtWcs, WcsKnows,
     Working, NoEnroll, Enrolled

\* The identifier of a seat's row is written by the insert and never after.
LEMMA WcsIdChanges ==
  ASSUME TypeOK, [Next]_vars, NEW e \in Seats, Enrolled(e)'
  PROVE  \/ wcs_id'[e] = wcs_id[e] /\ Enrolled(e)
         \/ \E t \in EnrollThreads :
               /\ enroll[t].pc = "create" /\ enroll[t].seat = e
               /\ wcs_id'[e] = WcsIdOf(t, e)
<1> USE DEF TypeOK, DataTypeOK
<1>1. ASSUME NEW t \in EnrollThreads, CreateEnrollment(t)
      PROVE  \/ wcs_id'[e] = wcs_id[e] /\ Enrolled(e)
             \/ /\ enroll[t].pc = "create" /\ enroll[t].seat = e
                /\ wcs_id'[e] = WcsIdOf(t, e)
  <2> DEFINE s == enroll[t].seat
             n == WcsIdOf(t, s)
             status == IF enrollment[s] = "absent" THEN "PENDING_PAYMENT"
                                                   ELSE enrollment[s]
  <2>1. /\ enroll[t].pc = "create"
        /\ \/ UNCHANGED << enrollment, wcs_id >>
           \/ /\ enrollment' = [enrollment EXCEPT ![s] = status]
              /\ wcs_id' = [wcs_id EXCEPT ![s] = n]
    BY <1>1 DEF CreateEnrollment, Working
  <2> HIDE DEF status, n
  <2>2. CASE s = e
    BY <2>1, <2>2 DEF Enrolled, n
  <2>3. CASE s # e
    <3>1. enrollment'[e] = enrollment[e] /\ wcs_id'[e] = wcs_id[e]
      BY <2>1, <2>3
    <3> QED
      BY <3>1 DEF Enrolled
  <2> QED
    BY <2>2, <2>3
<1>2. ASSUME NEW c \in Children, DeleteChild(c)
      PROVE  wcs_id'[e] = wcs_id[e]
  BY <1>2 DEF DeleteChild, Enrolled
<1>3. \/ UNCHANGED wcs_id
      \/ \E c \in Children : DeleteChild(c)
      \/ \E t \in EnrollThreads : CreateEnrollment(t)
  BY DEF Next, vars, FamilyNext, CatalogueNext, AddChild, VerifyIdentity,
     SetFee, SetActive, StaffSetStatus, LazyInvoice, EnrollNext, EnrollRequest,
     EnrollStep, CheckCapacity, WcsCreate, LingoCreate, CreateInvoice,
     SaveInvoice, ConfirmOnSave, AbortEnroll, PayNext, PayRequest, PayStep,
     ReadEnrollment, LingoPay, MarkPaid, ConfirmEnrollment, WritePdf,
     StoreDocument, AbortPay, dataVars
<1>4. CASE Enrolled(e)
  BY <1>1, <1>2, <1>3, <1>4
<1>5. CASE ~Enrolled(e)
  BY <1>1, <1>5, NewlyEnrolled
<1> QED
  BY <1>4, <1>5

LEMMA NextWcsInv ==
  ASSUME EnrollmentBackend = "wcs", TypeOK, WcsInv, [Next]_vars
  PROVE  WcsInv'
<1>1. ASSUME NEW e \in Seats, NEW n \in 1..wcs[e]
      PROVE  n \in 1..wcs'[e]
  <2>1. wcs[e] \in Nat /\ wcs'[e] \in Nat
    BY NextTypeOK DEF TypeOK, DataTypeOK
  <2> QED
    BY <2>1, WcsGrows
<1>2. ASSUME NEW e \in Seats, Enrolled(e)'
      PROVE  wcs_id'[e] \in 1..wcs'[e]
  <2>1. CASE wcs_id'[e] = wcs_id[e] /\ Enrolled(e)
    BY <1>1, <2>1 DEF WcsInv, EnrolledIsAtWcs
  <2>2. ASSUME NEW t \in EnrollThreads, enroll[t].pc = "create",
               enroll[t].seat = e, wcs_id'[e] = WcsIdOf(t, e)
        PROVE  wcs_id'[e] \in 1..wcs'[e]
    BY <1>1, <2>2 DEF WcsInv, WcsKnows, WcsIdOf, Working
  <2> QED
    BY <1>2, <2>1, <2>2, WcsIdChanges
<1>3. ASSUME NEW t \in EnrollThreads, enroll'[t].pc = "create"
      PROVE  enroll'[t].remote_id \in 1..wcs'[enroll'[t].seat]
  <2> DEFINE e == enroll[t].seat
  <2>1. enroll'[t] # NoEnroll
    BY <1>3 DEF NoEnroll
  <2>2. CASE enroll'[t] = enroll[t]
    <3>1. e \in Seats
      BY <1>3, <2>2, SeatOfEnroll DEF TypeOK, Working
    <3> QED
      BY <1>1, <1>3, <2>2, <3>1 DEF WcsInv, WcsKnows, Working
  <2>3. CASE EnrollStep(t)
    <3>1. e \in Seats /\ enroll[t].pc \in {"count", "wcs"}
      BY <1>3, <2>1, <2>3, EnrollStepMoves, SeatOfEnroll
         DEF EnrollMove, TypeOK, Working
    <3>2. WcsCreate(t)
      <4>1. ASSUME CheckCapacity(t)
            PROVE  FALSE
        <5>1. enroll' = [enroll EXCEPT ![t].pc = "wcs"] \/ EndEnroll(t)
          BY <4>1 DEF CheckCapacity, GoTo, EnrollmentGateway
        <5>2. enroll \in [EnrollThreads -> EnrollStates]
          BY DEF TypeOK, EnrollTypeOK
        <5> QED
          BY <1>3, <5>1, <5>2 DEF EndEnroll, NoEnroll, EnrollStates
      <4> QED
        BY <2>3, <3>1, <4>1 DEF EnrollStep, CreateEnrollment, LingoCreate,
           CreateInvoice, SaveInvoice, ConfirmOnSave, Working
    <3> DEFINE n == wcs[e] + 1
               r == [enroll[t] EXCEPT !.pc = "create", !.remote_id = n]
    <3>3. enroll[t] \in EnrollStates
      BY DEF TypeOK, EnrollTypeOK
    <3>4. r.remote_id = n /\ r.seat = e
      BY <3>3 DEF EnrollStates
    <3>5. enroll'[t] = r /\ wcs'[e] = n /\ wcs[e] \in Nat
      BY <1>3, <3>1, <3>2 DEF WcsCreate, EnrollmentError, EndEnroll, NoEnroll,
         TypeOK, DataTypeOK, EnrollTypeOK
    <3> HIDE DEF r
    <3> QED
      BY <3>4, <3>5
  <2>4. CASE EnrollStarts(t)
    BY <1>3, <2>4 DEF EnrollStarts, EnrollRequest, TypeOK, EnrollTypeOK, NoEnroll
  <2> QED
    BY <2>1, <2>2, <2>3, <2>4, EnrollThreadMoves
<1> QED
  BY <1>2, <1>3 DEF WcsInv, EnrolledIsAtWcs, WcsKnows, Working, Enrolled

\* Every enrollment the portal shows is registered at WCS under the identifier
\* it keeps (activities/gateways.py:201-219).
THEOREM EnrolledOnlyIfAtWcs ==
  ASSUME EnrollmentBackend = "wcs"
  PROVE  Spec => []EnrolledIsAtWcs
<1>1. TypeOK /\ WcsInv /\ [Next]_vars => WcsInv'
  BY NextWcsInv
<1>2. WcsInv => EnrolledIsAtWcs
  BY DEF WcsInv
<1> QED
  BY <1>1, <1>2, InitWcsInv, TypeCorrect, PTL DEF Spec

\* Lingo forgets no invoice and no payment.
LEMMA LingoGrows ==
  ASSUME TypeOK, [Next]_vars, NEW e \in Seats
  PROVE  lingo'[e].created >= lingo[e].created /\ lingo'[e].paid >= lingo[e].paid
<1> USE DEF TypeOK, DataTypeOK
<1>1. CASE UNCHANGED lingo
  BY <1>1
<1>2. ASSUME NEW s \in Seats, lingo' = [lingo EXCEPT ![s].created = @ + 1]
      PROVE  lingo'[e].created >= lingo[e].created /\ lingo'[e].paid >= lingo[e].paid
  <2> DEFINE r == [lingo[s] EXCEPT !.created = @ + 1]
  <2>1. r.created = lingo[s].created + 1 /\ r.paid = lingo[s].paid
    OBVIOUS
  <2>2. IF s = e THEN lingo'[e] = r ELSE lingo'[e] = lingo[e]
    BY <1>2
  <2> HIDE DEF r
  <2> QED
    BY <2>1, <2>2
<1>3. ASSUME NEW s \in Seats, lingo' = [lingo EXCEPT ![s].paid = @ + 1]
      PROVE  lingo'[e].created >= lingo[e].created /\ lingo'[e].paid >= lingo[e].paid
  <2> DEFINE r == [lingo[s] EXCEPT !.paid = @ + 1]
  <2>1. r.created = lingo[s].created /\ r.paid = lingo[s].paid + 1
    OBVIOUS
  <2>2. IF s = e THEN lingo'[e] = r ELSE lingo'[e] = lingo[e]
    BY <1>3
  <2> HIDE DEF r
  <2> QED
    BY <2>1, <2>2
<1>4. ASSUME NEW t \in EnrollThreads, LingoCreate(t)
      PROVE  \/ UNCHANGED lingo
             \/ \E s \in Seats : lingo' = [lingo EXCEPT ![s].created = @ + 1]
  <2>1. enroll[t].seat \in Seats
    BY <1>4, SeatOfEnroll DEF LingoCreate, Working
  <2> QED
    BY <1>4, <2>1 DEF LingoCreate
<1>5. ASSUME NEW p \in PayThreads, LingoPay(p)
      PROVE  \/ UNCHANGED lingo
             \/ \E s \in Seats : lingo' = [lingo EXCEPT ![s].paid = @ + 1]
  <2>1. pay[p].seat \in Seats
    BY <1>5, SeatOfPay DEF LingoPay, Paying
  <2> QED
    BY <1>5, <2>1 DEF LingoPay
<1>6. \/ UNCHANGED lingo
      \/ \E t \in EnrollThreads : LingoCreate(t)
      \/ \E p \in PayThreads : LingoPay(p)
  BY DEF Next, vars, FamilyNext, CatalogueNext, AddChild, DeleteChild,
     VerifyIdentity, SetFee, SetActive, StaffSetStatus, LazyInvoice,
     EnrollNext, EnrollRequest, EnrollStep, CheckCapacity, WcsCreate,
     CreateEnrollment, CreateInvoice, SaveInvoice, ConfirmOnSave, AbortEnroll,
     PayNext, PayRequest, PayStep, ReadEnrollment, MarkPaid,
     ConfirmEnrollment, WritePdf, StoreDocument, AbortPay, dataVars
<1> QED
  BY <1>1, <1>2, <1>3, <1>4, <1>5, <1>6

LEMMA InitLedgerInv ==
  ASSUME Init
  PROVE  LedgerInv
  BY DEF Init, DataInit, EnrollInit, PayInit, LedgerInv, PaidIsPaidAtLingo,
     LingoKnows, ReadTakenAtLingo, TakenAtLingo, Working, Paying, NoEnroll, NoPay,
     NoInvoice, Paid

\* An invoice takes the identifier of the thread that creates or saves it, and
\* becomes PAID by the thread that marks it.
InvoiceStep(e) ==
    /\ \/ invoice'[e].lingo_id \in {0, invoice[e].lingo_id}
       \/ \E t \in EnrollThreads :
             /\ enroll[t].pc \in {"bill", "save"} /\ enroll[t].seat = e
             /\ invoice'[e].lingo_id = LingoIdOf(t)
    /\ invoice'[e].status = "PAID" =>
          \/ Paid(e)
          \/ \E p \in PayThreads : pay[p].pc = "mark" /\ pay[p].seat = e

LEMMA InvoiceSteps ==
  ASSUME TypeOK, [Next]_vars, NEW e \in Seats
  PROVE  InvoiceStep(e)
<1> USE DEF TypeOK, DataTypeOK, InvoiceStep, Paid
<1>1. CASE invoice'[e] = invoice[e]
  BY <1>1
<1>2. ASSUME NEW c \in Children, DeleteChild(c)
      PROVE  InvoiceStep(e)
  BY <1>2 DEF DeleteChild, NoInvoice
<1>3. ASSUME NEW s \in Seats, LazyInvoice(s)
      PROVE  InvoiceStep(e)
  <2> DEFINE fee == activity[s[2]].fee
             row == [status |-> "UNPAID", amount |-> fee, lingo_id |-> 0]
  <2>1. row.status = "UNPAID" /\ row.lingo_id = 0
    OBVIOUS
  <2>2. invoice' = [invoice EXCEPT ![s] = row]
    BY <1>3 DEF LazyInvoice
  <2> HIDE DEF row
  <2>3. invoice'[e] = row \/ invoice'[e] = invoice[e]
    BY <2>2
  <2> QED
    BY <1>1, <2>1, <2>3
<1>4. ASSUME NEW t \in EnrollThreads, CreateInvoice(t) \/ SaveInvoice(t)
      PROVE  InvoiceStep(e)
  <2> DEFINE s == enroll[t].seat
             new == [status |-> "UNPAID", amount |-> enroll[t].fee,
                     lingo_id |-> LingoIdOf(t)]
             saved == Updated(invoice[s], enroll[t].fee, LingoIdOf(t))
  <2>1. enroll[t].pc \in {"bill", "save"} /\ s \in Seats
    BY <1>4, SeatOfEnroll DEF CreateInvoice, SaveInvoice, Working
  <2>2. \/ UNCHANGED invoice
        \/ invoice' = [invoice EXCEPT ![s] = new]
        \/ invoice' = [invoice EXCEPT ![s] = saved]
    BY <1>4 DEF CreateInvoice, SaveInvoice, Updated
  <2>3. new.status = "UNPAID" /\ new.lingo_id = LingoIdOf(t)
    OBVIOUS
  <2>4. /\ saved.status = invoice[s].status
        /\ saved.lingo_id \in {invoice[s].lingo_id, LingoIdOf(t)}
    BY <2>1 DEF Updated
  <2> HIDE DEF new, saved
  <2>5. \/ invoice'[e] = invoice[e]
        \/ s = e /\ invoice'[e] \in {new, saved}
    BY <2>1, <2>2
  <2> QED
    BY <1>1, <2>1, <2>3, <2>4, <2>5
<1>5. ASSUME NEW p \in PayThreads, MarkPaid(p)
      PROVE  InvoiceStep(e)
  <2> DEFINE s == pay[p].seat
             row == [invoice[s] EXCEPT !.status = pay[p].status]
  <2>1. pay[p].pc = "mark" /\ s \in Seats
    BY <1>5, SeatOfPay DEF MarkPaid, Paying
  <2>2. row.lingo_id = invoice[s].lingo_id
    BY <2>1
  <2>3. \/ UNCHANGED invoice
        \/ invoice' = [invoice EXCEPT ![s] = row]
    BY <1>5 DEF MarkPaid
  <2> HIDE DEF row
  <2>4. invoice'[e] = invoice[e] \/ (s = e /\ invoice'[e] = row)
    BY <2>1, <2>3
  <2> QED
    BY <1>1, <2>1, <2>2, <2>4
<1>6. \/ UNCHANGED invoice
      \/ \E c \in Children : DeleteChild(c)
      \/ \E s \in Seats : LazyInvoice(s)
      \/ \E t \in EnrollThreads : CreateInvoice(t) \/ SaveInvoice(t)
      \/ \E p \in PayThreads : MarkPaid(p)
  BY DEF Next, vars, FamilyNext, CatalogueNext, AddChild, VerifyIdentity,
     SetFee, SetActive, StaffSetStatus, EnrollNext, EnrollRequest, EnrollStep,
     CheckCapacity, WcsCreate, CreateEnrollment, LingoCreate, ConfirmOnSave,
     AbortEnroll, PayNext, PayRequest, PayStep, ReadEnrollment, LingoPay,
     ConfirmEnrollment, WritePdf, StoreDocument, AbortPay, dataVars
<1> QED
  BY <1>1, <1>2, <1>3, <1>4, <1>5, <1>6

\* The thread starts a request.
PayStarts(p) == \E u \in Parents, e \in Seats : PayRequest(p, u, e)

\* A thread of pay_invoice is idle, waits, starts a request or makes a step.
LEMMA PayThreadMoves ==
  ASSUME TypeOK, [Next]_vars, NEW p \in PayThreads
  PROVE  \/ pay'[p] = NoPay
         \/ pay'[p] = pay[p]
         \/ PayStep(p)
         \/ PayStarts(p)
<1>1. CASE UNCHANGED pay
  BY <1>1
<1>2. ASSUME NEW q \in PayThreads, q # p,
             PayStep(q) \/ \E u \in Parents, e \in Seats : PayRequest(q, u, e)
      PROVE  pay'[p] = pay[p]
  BY <1>2, PayStepMoves, PayRequestMoves
<1>3. ASSUME NEW q \in PayThreads, AbortPay(q)
      PROVE  pay'[p] = pay[p] \/ pay'[p] = NoPay
  BY <1>3 DEF AbortPay, EndPay, TypeOK, PayTypeOK
<1> QED
  BY <1>1, <1>2, <1>3 DEF Next, vars, PayNext, PayStarts

LEMMA EnrollKnowsLingo ==
  ASSUME BillingBackend = "lingo", TypeOK, LedgerInv, [Next]_vars,
         NEW t \in EnrollThreads, enroll'[t].pc \in {"bill", "save"}
  PROVE  enroll'[t].remote_id =< lingo'[enroll'[t].seat].created
<1> DEFINE e == enroll[t].seat
<1>1. enroll'[t] # NoEnroll
  BY DEF NoEnroll
<1>2. enroll[t] \in EnrollStates /\ enroll'[t] \in EnrollStates
  BY NextTypeOK DEF TypeOK, EnrollTypeOK
<1>3. ASSUME e \in Seats, enroll[t].pc \in {"bill", "save"},
             enroll'[t].seat = e, enroll'[t].remote_id = enroll[t].remote_id
      PROVE  enroll'[t].remote_id =< lingo'[enroll'[t].seat].created
  <2>1. enroll[t].remote_id =< lingo[e].created
    BY <1>3 DEF LedgerInv, LingoKnows, LingoIdOf, Working
  <2>2. /\ lingo[e].created \in Nat /\ lingo'[e].created \in Nat
        /\ enroll[t].remote_id \in Nat
    BY <1>2, <1>3, NextTypeOK DEF TypeOK, DataTypeOK, EnrollStates
  <2>3. lingo'[e].created >= lingo[e].created
    BY <1>3, LingoGrows
  <2> QED
    BY <1>3, <2>1, <2>2, <2>3
<1>4. CASE enroll'[t] = enroll[t]
  BY <1>3, <1>4, SeatOfEnroll DEF TypeOK, Working
<1>5. CASE EnrollStep(t)
  <2>1. /\ e \in Seats /\ enroll'[t].seat = e
        /\ enroll[t].pc \in {"create", "lingo", "bill"}
    BY <1>1, <1>5, EnrollStepMoves, SeatOfEnroll DEF EnrollMove, TypeOK, Working
  <2>2. ~CreateEnrollment(t)
    <3>1. ASSUME enroll' = [enroll EXCEPT ![t].pc = "lingo"] \/ EndEnroll(t)
          PROVE  FALSE
      BY <3>1 DEF EndEnroll, NoEnroll, TypeOK, EnrollTypeOK, EnrollStates
    <3> QED
      BY <3>1 DEF CreateEnrollment, AfterCreate, GoTo, BillingGateway
  <2>3. CASE LingoCreate(t)
    <3> DEFINE n == lingo[e].created + 1
               q == [enroll[t] EXCEPT !.pc = "bill", !.remote_id = n]
               r == [lingo[e] EXCEPT !.created = n]
    <3>1. q.remote_id = n /\ r.created = n /\ n \in Nat
      BY <1>2, <2>1 DEF TypeOK, DataTypeOK, EnrollStates
    <3>2. enroll' = [enroll EXCEPT ![t] = q] /\ lingo' = [lingo EXCEPT ![e] = r]
      BY <1>1, <2>3 DEF LingoCreate, EndEnroll, TypeOK, EnrollTypeOK
    <3> HIDE DEF q, r, n
    <3>3. enroll'[t] = q /\ lingo'[e] = r
      BY <2>1, <3>2 DEF TypeOK, DataTypeOK, EnrollTypeOK
    <3> QED
      BY <2>1, <3>1, <3>3
  <2>4. CASE CreateInvoice(t)
    <3> DEFINE paid == Paid(e)
               q == [enroll[t] EXCEPT !.pc = "save", !.paid = paid]
    <3>1. q.remote_id = enroll[t].remote_id
      BY <1>2 DEF EnrollStates
    <3>2. enroll' = [enroll EXCEPT ![t] = q]
      BY <1>1, <2>4 DEF CreateInvoice, EndEnroll, TypeOK, EnrollTypeOK
    <3> HIDE DEF q
    <3>3. enroll'[t] = q
      BY <3>2 DEF TypeOK, EnrollTypeOK
    <3> QED
      BY <1>3, <2>1, <2>4, <3>1, <3>3 DEF CreateInvoice, Working
  <2> QED
    BY <1>5, <2>1, <2>2, <2>3, <2>4 DEF EnrollStep, CheckCapacity, WcsCreate,
       SaveInvoice, ConfirmOnSave, Working
<1>6. CASE EnrollStarts(t)
  BY <1>6 DEF EnrollStarts, EnrollRequest, TypeOK, EnrollTypeOK, NoEnroll
<1> QED
  BY <1>1, <1>4, <1>5, <1>6, EnrollThreadMoves

-----------------------------------------------------------------------------
(* A document stands for a payment that settled its enrollment.            *)

\* What a step makes of the status of an enrollment that is there.
LEMMA StatusSteps ==
  ASSUME TypeOK, [Next]_vars, NEW e \in Seats, Enrolled(e)
  PROVE  enrollment'[e] \in {enrollment[e], "CONFIRMED", "absent"} \cup StaffStatuses
<1> USE DEF TypeOK, DataTypeOK
<1>1. CASE enrollment'[e] = enrollment[e]
  BY <1>1
<1>2. ASSUME NEW c \in Children, DeleteChild(c)
      PROVE  enrollment'[e] \in {enrollment[e], "absent"}
  BY <1>2 DEF DeleteChild
<1>3. ASSUME NEW f \in Seats, NEW s \in StaffStatuses, StaffSetStatus(f, s)
      PROVE  enrollment'[e] \in {enrollment[e], s}
  BY <1>3 DEF StaffSetStatus
<1>4. ASSUME NEW t \in EnrollThreads, CreateEnrollment(t)
      PROVE  enrollment'[e] = enrollment[e]
  <2> DEFINE s == enroll[t].seat
             status == IF enrollment[s] = "absent" THEN "PENDING_PAYMENT"
                                                   ELSE enrollment[s]
  <2>1. enrollment' = enrollment \/ enrollment' = [enrollment EXCEPT ![s] = status]
    BY <1>4 DEF CreateEnrollment
  <2>2. s = e => status = enrollment[e]
    BY DEF Enrolled
  <2> HIDE DEF status
  <2> QED
    BY <2>1, <2>2
<1>5. ASSUME NEW t \in EnrollThreads, ConfirmOnSave(t)
      PROVE  enrollment'[e] \in {enrollment[e], "CONFIRMED"}
  <2> DEFINE s == enroll[t].seat
             status == IF enrollment[s] = "absent" THEN enrollment[s]
                                                   ELSE "CONFIRMED"
  <2>1. enrollment' = [enrollment EXCEPT ![s] = status]
    BY <1>5 DEF ConfirmOnSave
  <2>2. s = e => status = "CONFIRMED"
    BY DEF Enrolled
  <2> HIDE DEF status
  <2> QED
    BY <2>1, <2>2
<1>6. ASSUME NEW p \in PayThreads, ConfirmEnrollment(p)
      PROVE  enrollment'[e] \in {enrollment[e], "CONFIRMED"}
  BY <1>6 DEF ConfirmEnrollment
<1>7. \/ UNCHANGED enrollment
      \/ \E c \in Children : DeleteChild(c)
      \/ \E f \in Seats, s \in StaffStatuses : StaffSetStatus(f, s)
      \/ \E t \in EnrollThreads : CreateEnrollment(t) \/ ConfirmOnSave(t)
      \/ \E p \in PayThreads : ConfirmEnrollment(p)
  BY DEF Next, vars, FamilyNext, CatalogueNext, AddChild, VerifyIdentity,
     SetFee, SetActive, LazyInvoice, EnrollNext, EnrollRequest, EnrollStep,
     CheckCapacity, WcsCreate, LingoCreate, CreateInvoice, SaveInvoice,
     AbortEnroll, PayNext, PayRequest, PayStep, ReadEnrollment, LingoPay,
     MarkPaid, WritePdf, StoreDocument, AbortPay, dataVars
<1> QED
  BY <1>1, <1>2, <1>3, <1>4, <1>5, <1>6, <1>7

LEMMA StaysSettled ==
  ASSUME OnlyCancelled, TypeOK, Linked, [Next]_vars, NEW e \in Seats, Settled(e)
  PROVE  Settled(e)'
<1>1. Persists(e)
  BY NextKeepsRows DEF Linked, RowsKept
<1>2. CASE Gone(e)
  BY <1>1, <1>2 DEF Persists, Settled
<1>3. CASE enrollment[e] \in {"CONFIRMED", "CANCELLED"}
  <2>1. enrollment'[e] \in {"CONFIRMED", "CANCELLED", "absent"}
    BY <1>3, StatusSteps, StaffAssumption DEF Enrolled, OnlyCancelled
  <2>2. enrollment'[e] = "absent" => Gone(e)'
    BY <1>1, <1>3 DEF Persists, Enrolled
  <2> QED
    BY <2>1, <2>2 DEF Settled
<1> QED
  BY <1>2, <1>3 DEF Settled

\* A file is never removed.
LEMMA PdfKept ==
  ASSUME TypeOK, [Next]_vars, NEW e \in Seats, pdf[e] # NoPdf
  PROVE  pdf'[e] # NoPdf
<1>1. CASE UNCHANGED pdf
  BY <1>1
<1>2. ASSUME NEW p \in PayThreads, WritePdf(p)
      PROVE  pdf'[e] # NoPdf
  <2>1. pay[p].amount \in Nat
    BY DEF TypeOK, PayTypeOK, PayStates
  <2>2. pdf'[e] \in {pdf[e], pay[p].amount}
    BY <1>2 DEF WritePdf, Printed, TypeOK, DataTypeOK
  <2> QED
    BY <2>1, <2>2 DEF NoPdf
<1>3. UNCHANGED pdf \/ \E p \in PayThreads : WritePdf(p)
  BY DEF Next, vars, FamilyNext, CatalogueNext, AddChild, DeleteChild,
     VerifyIdentity, SetFee, SetActive, StaffSetStatus, LazyInvoice,
     EnrollNext, EnrollRequest, EnrollStep, CheckCapacity, WcsCreate,
     CreateEnrollment, LingoCreate, CreateInvoice, SaveInvoice, ConfirmOnSave,
     AbortEnroll, PayNext, PayRequest, PayStep, ReadEnrollment, LingoPay,
     MarkPaid, ConfirmEnrollment, StoreDocument, AbortPay, dataVars
<1> QED
  BY <1>1, <1>2, <1>3

\* A linked document was linked, and its child has not just been deleted, or
\* it is being stored.
LEMMA DocumentSteps ==
  ASSUME TypeOK, [Next]_vars, NEW e \in Seats, document'[e] = "linked"
  PROVE  \/ document[e] = "linked" /\ (Gone(e)' => Gone(e))
         \/ \E p \in PayThreads :
               /\ pay[p].pc = "store" /\ pay[p].seat = e
               /\ Invoiced(e) /\ UNCHANGED << child, invoice, enrollment, pdf >>
<1> USE DEF TypeOK, DataTypeOK
<1>1. CASE document'[e] = document[e] /\ UNCHANGED child
  BY <1>1 DEF Gone
<1>2. ASSUME NEW c \in Children, DeleteChild(c)
      PROVE  document[e] = "linked" /\ (Gone(e)' => Gone(e))
  BY <1>2 DEF DeleteChild, Unlinked, Gone, Seats
<1>3. ASSUME NEW c \in Children, AddChild(c)
      PROVE  document[e] = "linked" /\ (Gone(e)' => Gone(e))
  BY <1>3 DEF AddChild, Gone, Seats
<1>4. ASSUME NEW p \in PayThreads, StoreDocument(p), document'[e] # document[e]
      PROVE  /\ pay[p].pc = "store" /\ pay[p].seat = e
             /\ Invoiced(e) /\ UNCHANGED << child, invoice, enrollment, pdf >>
  BY <1>4 DEF StoreDocument, Paying
<1>5. \/ UNCHANGED << document, child >>
      \/ \E c \in Children : DeleteChild(c) \/ AddChild(c)
      \/ \E p \in PayThreads : StoreDocument(p)
  BY ZenonT(60) DEF Next, vars, FamilyNext, CatalogueNext, VerifyIdentity, SetFee,
     SetActive, StaffSetStatus, LazyInvoice, EnrollNext, EnrollRequest,
     EnrollStep, CheckCapacity, WcsCreate, CreateEnrollment, LingoCreate,
     CreateInvoice, SaveInvoice, ConfirmOnSave, AbortEnroll, PayNext,
     PayRequest, PayStep, ReadEnrollment, LingoPay, MarkPaid,
     ConfirmEnrollment, WritePdf, AbortPay, dataVars
<1>6. ASSUME NEW p \in PayThreads, StoreDocument(p)
      PROVE  UNCHANGED child
  BY <1>6 DEF StoreDocument
<1> QED
  BY <1>1, <1>2, <1>3, <1>4, <1>5, <1>6

LEMMA InitSettledInv ==
  ASSUME Init
  PROVE  SettledInv
  BY DEF Init, DataInit, PayInit, SettledInv, DocumentIsSettled, PaySettled,
     Paying, NoPay

\* A pay thread settles its enrollment before it writes the file, and writes
\* the file before it stores the document.
LEMMA NextPaySettled ==
  ASSUME OnlyCancelled, TypeOK, Linked, SettledInv, [Next]_vars, NEW p \in PayThreads
  PROVE  PaySettled(p)'
<1> DEFINE e == pay[p].seat
<1> USE DEF PaySettled, Paying
<1>1. CASE pay'[p] = NoPay
  BY <1>1 DEF NoPay
<1>2. CASE PayStarts(p)
  <2> PICK u \in Parents, f \in Seats : PayRequest(p, u, f)
    BY <1>2 DEF PayStarts
  <2> DEFINE q == [NoPay EXCEPT !.pc = "owner", !.seat = f,
                                !.amount = invoice[f].amount,
                                !.lingo_id = invoice[f].lingo_id]
  <2>1. q.pc = "owner" /\ q.confirmed = FALSE
    BY DEF NoPay
  <2>2. pay' = [pay EXCEPT ![p] = q]
    BY DEF PayRequest
  <2> HIDE DEF q
  <2> QED
    BY <2>1, <2>2 DEF TypeOK, PayTypeOK
<1>3. ASSUME pay[p].pc # "idle", pay'[p].seat = e,
             pay'[p].confirmed => Settled(e) \/ enrollment[e] = "CONFIRMED",
             pay'[p].pc \in {"pdf", "store"} => Settled(e) \/ enrollment'[e] = "CONFIRMED",
             pay'[p].pc = "store" => pdf[e] # NoPdf \/ pdf'[e] # NoPdf
      PROVE  PaySettled(p)'
  <2>1. e \in Seats
    BY <1>3, SeatOfPay DEF TypeOK
  <2>2. (pay'[p].confirmed \/ pay'[p].pc \in {"pdf", "store"}) => Settled(e)'
    BY <1>3, <2>1, StaysSettled DEF Settled
  <2>3. pay'[p].pc = "store" => pdf'[e] # NoPdf
    BY <1>3, <2>1, PdfKept
  <2> QED
    BY <1>3, <2>2, <2>3 DEF Settled
<1>4. PaySettled(p)
  BY DEF SettledInv
<1>5. CASE pay'[p] = pay[p]
  BY <1>3, <1>4, <1>5
<1>6. CASE PayStep(p)
  <2>1. pay[p].pc # "idle" /\ pay[p] \in PayStates
    BY <1>6 DEF PayStep, ReadEnrollment, LingoPay, MarkPaid, ConfirmEnrollment,
       WritePdf, StoreDocument, TypeOK, PayTypeOK
  <2>2. CASE ReadEnrollment(p)
    <3> DEFINE confirmed == (enrollment[e] = "CONFIRMED")
               q == [pay[p] EXCEPT !.pc = FirstPayStep(p), !.confirmed = confirmed]
    <3>1. confirmed \in BOOLEAN
      OBVIOUS
    <3>2. confirmed => enrollment[e] = "CONFIRMED"
      OBVIOUS
    <3> HIDE DEF confirmed
    <3>3. /\ q.pc = FirstPayStep(p) /\ FirstPayStep(p) \notin {"pdf", "store"}
          /\ q.confirmed = confirmed /\ q.seat = e
      BY <2>1 DEF PayStates, FirstPayStep
    <3>4. pay' = [pay EXCEPT ![p] = q] \/ EndPay(p)
      BY <2>2 DEF ReadEnrollment, confirmed
    <3> HIDE DEF q
    <3>5. pay'[p] = q \/ pay'[p] = NoPay
      BY <3>4 DEF EndPay, TypeOK, PayTypeOK
    <3> QED
      BY <1>1, <1>3, <2>1, <3>2, <3>3, <3>5
  <2>3. CASE LingoPay(p)
    <3>1. ASSUME NEW s \in LingoStatuses,
                 pay' = [pay EXCEPT ![p] = [@ EXCEPT !.pc = "mark", !.status = s]]
          PROVE  PaySettled(p)'
      <4> DEFINE q == [pay[p] EXCEPT !.pc = "mark", !.status = s]
      <4>1. q.pc = "mark" /\ q.confirmed = pay[p].confirmed /\ q.seat = e
        BY <2>1 DEF PayStates
      <4>2. pay'[p] = q
        BY <3>1 DEF TypeOK, PayTypeOK
      <4> HIDE DEF q
      <4> QED
        BY <1>3, <1>4, <2>1, <4>1, <4>2
    <3>2. EndPay(p) => pay'[p] = NoPay
      BY DEF EndPay, TypeOK, PayTypeOK
    <3> QED
      BY <1>1, <2>3, <3>1, <3>2 DEF LingoPay, PaymentError
  <2>4. ASSUME NEW to \in {"confirm", "pdf", "store"}, PayGoTo(p, to)
        PROVE  /\ pay'[p].pc = to /\ pay'[p].seat = e
               /\ pay'[p].confirmed = pay[p].confirmed
    <3> DEFINE q == [pay[p] EXCEPT !.pc = to]
    <3>1. q.pc = to /\ q.seat = e /\ q.confirmed = pay[p].confirmed
      BY <2>1 DEF PayStates
    <3>2. pay'[p] = q
      BY <2>4 DEF PayGoTo, TypeOK, PayTypeOK
    <3> HIDE DEF q
    <3> QED
      BY <3>1, <3>2
  <2>5. CASE EndPay(p)
    BY <1>1, <2>5 DEF EndPay, TypeOK, PayTypeOK
  <2>6. e \in Seats
    BY <2>1, SeatOfPay DEF TypeOK
  <2>7. CASE MarkPaid(p) /\ ~EndPay(p)
    <3>1. PayGoTo(p, "confirm")
      BY <2>7 DEF MarkPaid
    <3> QED
      BY <1>3, <1>4, <2>1, <2>4, <3>1
  <2>8. CASE ConfirmEnrollment(p) /\ ~EndPay(p)
    <3>1. /\ PayGoTo(p, "pdf")
          /\ pay[p].confirmed \/ enrollment'[e] = "CONFIRMED"
      BY <2>6, <2>8 DEF ConfirmEnrollment, TypeOK, DataTypeOK
    <3> QED
      BY <1>3, <1>4, <2>1, <2>4, <3>1
  <2>9. CASE WritePdf(p) /\ ~EndPay(p)
    <3>1. /\ pay[p].pc = "pdf" /\ PayGoTo(p, "store")
          /\ pdf'[e] = pay[p].amount
      BY <2>6, <2>9 DEF WritePdf, Printed, TypeOK, DataTypeOK
    <3>2. pdf'[e] # NoPdf
      BY <2>1, <3>1 DEF PayStates, NoPdf
    <3> QED
      BY <1>3, <1>4, <2>1, <2>4, <3>1, <3>2
  <2> QED
    BY <1>6, <2>2, <2>3, <2>5, <2>7, <2>8, <2>9 DEF PayStep, StoreDocument
<1> QED
  BY <1>1, <1>2, <1>5, <1>6, PayThreadMoves

LEMMA NextSettledInv ==
  ASSUME OnlyCancelled, TypeOK, Linked, PaymentInv, SettledInv, [Next]_vars
  PROVE  SettledInv'
<1>1. ASSUME NEW e \in Seats, document'[e] = "linked"
      PROVE  Settled(e)' /\ Paid(e)' /\ pdf'[e] # NoPdf
  <2>1. CASE document[e] = "linked" /\ (Gone(e)' => Gone(e))
    <3>1. Settled(e) /\ Paid(e) /\ Invoiced(e) /\ pdf[e] # NoPdf
      BY <2>1 DEF SettledInv, DocumentIsSettled, Paid, Invoiced
    <3>2. ~Gone(e)
      BY <3>1 DEF Linked, RowsLinked, Gone
    <3>3. Invoiced(e)'
      BY <2>1, <3>1, <3>2, NextKeepsRows DEF Linked, RowsKept, Persists
    <3>4. Paid(e)'
      BY <3>1, <3>3, NextKeepsPaid DEF PaymentInv, PaidKept
    <3> QED
      BY <3>1, <3>4, StaysSettled, PdfKept
  <2>2. ASSUME NEW p \in PayThreads, pay[p].pc = "store", pay[p].seat = e,
               Invoiced(e), UNCHANGED << child, invoice, enrollment, pdf >>
        PROVE  Settled(e)' /\ Paid(e)' /\ pdf'[e] # NoPdf
    <3>1. Paid(e)
      BY <2>2 DEF PaymentInv, PaySeen
    <3>2. Settled(e) /\ pdf[e] # NoPdf
      BY <2>2 DEF SettledInv, PaySettled, Paying
    <3> QED
      BY <2>2, <3>1, <3>2 DEF Settled, Gone, Paid
  <2> QED
    BY <1>1, <2>1, <2>2, DocumentSteps
<1>2. \A e \in Seats : Gone(e)' => enrollment'[e] = "absent"
  BY NextLinked DEF Linked, RowsLinked, Gone, Enrolled
<1>3. DocumentIsSettled'
  BY <1>1, <1>2 DEF DocumentIsSettled, Settled, Paid
<1>4. \A p \in PayThreads : PaySettled(p)'
  BY NextPaySettled
<1> QED
  BY <1>1, <1>3, <1>4 DEF SettledInv

\* A document that can be downloaded stands for a payment that went through and
\* settled its enrollment, whatever staff cancel and parents delete meanwhile
\* (billing/views.py:75-106), provided a payment is answered with PAID and staff
\* put no enrollment back to waiting for payment.
THEOREM DocumentOnlyIfSettled ==
  ASSUME OnlyPaid, OnlyCancelled
  PROVE  Spec => []DocumentIsSettled
<1>1. TypeOK /\ Linked /\ PaymentInv /\ SettledInv /\ [Next]_vars => SettledInv'
  BY NextSettledInv
<1>2. SettledInv => DocumentIsSettled
  BY DEF SettledInv
<1> QED
  BY <1>1, <1>2, InitSettledInv, TypeCorrect, RowsStayLinked, PaymentsCorrect,
     PTL DEF Spec

-----------------------------------------------------------------------------
(* What the portal shows as paid has been paid at Lingo.                   *)

LEMMA PayTakenAtLingo ==
  ASSUME BillingBackend = "lingo", TypeOK, LedgerInv, [Next]_vars,
         NEW p \in PayThreads, pay'[p].pc \in {"mark", "confirm", "pdf", "store"}
  PROVE  lingo'[pay'[p].seat].paid > 0
<1> DEFINE e == pay[p].seat
<1>1. pay'[p] # NoPay
  BY DEF NoPay
<1>2. ASSUME pay[p].pc \in {"mark", "confirm", "pdf", "store"}, pay'[p].seat = e
      PROVE  lingo'[pay'[p].seat].paid > 0
  <2>1. e \in Seats /\ lingo[e].paid > 0
    BY <1>2, SeatOfPay DEF TypeOK, Paying, LedgerInv, TakenAtLingo
  <2>2. lingo[e].paid \in Nat /\ lingo'[e].paid \in Nat
    BY <2>1, NextTypeOK DEF TypeOK, DataTypeOK
  <2>3. lingo'[e].paid >= lingo[e].paid
    BY <2>1, LingoGrows
  <2> QED
    BY <1>2, <2>1, <2>2, <2>3
<1>3. CASE PayStep(p) /\ pay[p].pc \notin {"mark", "confirm", "pdf", "store"}
  <2>1. /\ e \in Seats /\ pay'[p].seat = e
        /\ pay[p].pc = "lingo" /\ pay'[p].pc = "mark"
    BY <1>1, <1>3, PayStepMoves, SeatOfPay DEF PayMove, TypeOK, Paying
  <2>2. LingoPay(p)
    BY <1>3, <2>1 DEF PayStep, ReadEnrollment, MarkPaid, ConfirmEnrollment,
       WritePdf, StoreDocument, Paying
  <2>3. lingo' = [lingo EXCEPT ![e].paid = @ + 1]
    BY <1>1, <2>2 DEF LingoPay, PaymentError, EndPay, TypeOK, PayTypeOK
  <2> DEFINE r == [lingo[e] EXCEPT !.paid = @ + 1]
  <2>4. r.paid > 0
    BY <2>1 DEF TypeOK, DataTypeOK
  <2>5. lingo'[e] = r
    BY <2>1, <2>3 DEF TypeOK, DataTypeOK
  <2> HIDE DEF r
  <2> QED
    BY <2>1, <2>4, <2>5
<1>4. CASE PayStep(p) /\ pay[p].pc \in {"mark", "confirm", "pdf", "store"}
  BY <1>1, <1>2, <1>4, PayStepMoves DEF PayMove
<1>5. CASE PayStarts(p)
  BY <1>5, PayRequestMoves DEF PayStarts
<1> QED
  BY <1>1, <1>2, <1>3, <1>4, <1>5, PayThreadMoves

\* A thread that read a PAID invoice read it after Lingo had been paid.
LEMMA EnrollReadTaken ==
  ASSUME BillingBackend = "lingo", TypeOK, Linked, LedgerInv, [Next]_vars,
         NEW t \in EnrollThreads, enroll'[t].paid
  PROVE  lingo'[enroll'[t].seat].paid > 0
<1> DEFINE e == enroll[t].seat
<1>1. enroll'[t] # NoEnroll
  BY DEF NoEnroll
<1>2. ASSUME e \in Seats, enroll'[t].seat = e, lingo[e].paid > 0
      PROVE  lingo'[enroll'[t].seat].paid > 0
  <2>1. lingo[e].paid \in Nat /\ lingo'[e].paid \in Nat
    BY <1>2, NextTypeOK DEF TypeOK, DataTypeOK
  <2>2. lingo'[e].paid >= lingo[e].paid
    BY <1>2, LingoGrows
  <2> QED
    BY <1>2, <2>1, <2>2
<1>3. enroll[t].paid => lingo[e].paid > 0 /\ e \in Seats
  BY SeatOfEnroll DEF LedgerInv, ReadTakenAtLingo, Linked, EnrollKnows, TypeOK,
     Working
<1>4. CASE enroll'[t] = enroll[t]
  BY <1>2, <1>3, <1>4
<1>5. CASE EnrollStep(t)
  <2>1. EnrollMove(t)
    BY <1>1, <1>5, EnrollStepMoves
  <2>2. e \in Seats /\ enroll'[t].seat = e
    BY <2>1, SeatOfEnroll DEF EnrollMove, TypeOK, Working
  <2>3. CASE enroll[t].paid
    BY <1>2, <1>3, <2>2, <2>3
  <2>4. CASE ~enroll[t].paid
    <3>1. Paid(e)
      BY <2>1, <2>4 DEF EnrollMove
    <3> QED
      BY <1>2, <2>2, <3>1 DEF LedgerInv, PaidIsPaidAtLingo
  <2> QED
    BY <2>3, <2>4
<1>6. CASE EnrollStarts(t)
  BY <1>6 DEF EnrollStarts, EnrollRequest, TypeOK, EnrollTypeOK, NoEnroll
<1> QED
  BY <1>1, <1>4, <1>5, <1>6, EnrollThreadMoves

LEMMA NextLedgerInv ==
  ASSUME BillingBackend = "lingo", TypeOK, Linked, LedgerInv, [Next]_vars
  PROVE  LedgerInv'
<1>1. ASSUME NEW e \in Seats
      PROVE  /\ (\/ invoice'[e].status = "PAID" \/ enrollment'[e] = "CONFIRMED"
                 \/ document'[e] = "linked") => lingo'[e].paid > 0
             /\ invoice'[e].lingo_id =< lingo'[e].created
  <2>1. /\ lingo[e].created \in Nat /\ lingo'[e].created \in Nat
        /\ lingo[e].paid \in Nat /\ lingo'[e].paid \in Nat
        /\ invoice[e].lingo_id \in Nat /\ invoice'[e].lingo_id \in Nat
    BY NextTypeOK DEF TypeOK, DataTypeOK
  <2>2. lingo'[e].created >= lingo[e].created /\ lingo'[e].paid >= lingo[e].paid
    BY LingoGrows
  <2>3. /\ Paid(e) \/ enrollment[e] = "CONFIRMED" \/ document[e] = "linked"
              => lingo[e].paid > 0
        /\ invoice[e].lingo_id =< lingo[e].created
    BY DEF LedgerInv, PaidIsPaidAtLingo
  <2>4. InvoiceStep(e)
    BY InvoiceSteps
  <2>5. invoice'[e].lingo_id =< lingo[e].created
    <3>1. ASSUME NEW t \in EnrollThreads, enroll[t].pc \in {"bill", "save"},
                 enroll[t].seat = e
          PROVE  LingoIdOf(t) =< lingo[e].created
      BY <3>1 DEF LedgerInv, LingoKnows, Working
    <3> QED
      BY <2>1, <2>3, <2>4, <3>1 DEF InvoiceStep
  <2>6. invoice'[e].status = "PAID" => lingo[e].paid > 0
    BY <2>3, <2>4 DEF InvoiceStep, LedgerInv, TakenAtLingo
  <2>7. enrollment'[e] = "CONFIRMED" => lingo[e].paid > 0
    <3>1. ASSUME NEW t \in EnrollThreads, enroll[t].pc = "confirm",
                 enroll[t].seat = e
          PROVE  lingo[e].paid > 0
      BY <3>1 DEF LedgerInv, ReadTakenAtLingo, Linked, EnrollKnows
    <3>2. ASSUME NEW p \in PayThreads, pay[p].pc = "confirm", pay[p].seat = e
          PROVE  lingo[e].paid > 0
      BY <3>2 DEF LedgerInv, TakenAtLingo
    <3> QED
      BY <2>3, <3>1, <3>2, NewlyConfirmed
  <2>8. document'[e] = "linked" => lingo[e].paid > 0
    BY <2>3, DocumentSteps DEF LedgerInv, TakenAtLingo
  <2> QED
    BY <2>1, <2>2, <2>5, <2>6, <2>7, <2>8
<1>2. PaidIsPaidAtLingo'
  BY <1>1 DEF PaidIsPaidAtLingo, Paid
<1>3. ASSUME NEW t \in EnrollThreads
      PROVE  LingoKnows(t)' /\ ReadTakenAtLingo(t)'
  BY EnrollKnowsLingo, EnrollReadTaken
  DEF LingoKnows, LingoIdOf, Working, ReadTakenAtLingo
<1>4. ASSUME NEW p \in PayThreads
      PROVE  TakenAtLingo(p)'
  BY PayTakenAtLingo DEF TakenAtLingo
<1> QED
  BY <1>2, <1>3, <1>4 DEF LedgerInv

\* Nothing is shown as paid, confirmed or documented unless Lingo has taken a
\* payment, and an invoice keeps only an identifier that Lingo has given
\* (billing/gateways.py:266-289, billing/views.py:75-106).
THEOREM PaidOnlyIfPaidAtLingo ==
  ASSUME BillingBackend = "lingo"
  PROVE  Spec => []PaidIsPaidAtLingo
<1>1. TypeOK /\ Linked /\ LedgerInv /\ [Next]_vars => LedgerInv'
  BY NextLedgerInv
<1>2. LedgerInv => PaidIsPaidAtLingo
  BY DEF LedgerInv
<1> QED
  BY <1>1, <1>2, InitLedgerInv, TypeCorrect, RowsStayLinked, PTL DEF Spec

-----------------------------------------------------------------------------
(* A payment is recorded on the invoice it was posted for.                 *)

\* The identifier of a row that is there stays, is empty on a row just made, or
\* is what one thread writes with the last step that could write it.
MirrorStep(e) ==
    \/ Invoiced(e) /\ invoice'[e].lingo_id = invoice[e].lingo_id
    \/ ~Invoiced(e) /\ invoice'[e].lingo_id = 0
    \/ \E t \in EnrollThreads :
          /\ enroll[t].pc \in {"bill", "save"} /\ enroll[t].seat = e
          /\ enroll'[t].pc \notin {"lingo", "bill", "save"}
          /\ LingoIdOf(t) # 0

LEMMA MirrorSteps ==
  ASSUME TypeOK, [Next]_vars, NEW e \in Seats, Invoiced(e)'
  PROVE  MirrorStep(e)
<1> USE DEF TypeOK, DataTypeOK, MirrorStep, Invoiced
<1>1. CASE invoice'[e] = invoice[e]
  BY <1>1
<1>2. ASSUME NEW c \in Children, DeleteChild(c)
      PROVE  MirrorStep(e)
  BY <1>2 DEF DeleteChild, NoInvoice
<1>3. ASSUME NEW s \in Seats, LazyInvoice(s)
      PROVE  MirrorStep(e)
  <2> DEFINE fee == activity[s[2]].fee
             row == [status |-> "UNPAID", amount |-> fee, lingo_id |-> 0]
  <2>1. row.lingo_id = 0
    OBVIOUS
  <2>2. ~Invoiced(s) /\ invoice' = [invoice EXCEPT ![s] = row]
    BY <1>3 DEF LazyInvoice
  <2> HIDE DEF row
  <2>3. (s = e /\ invoice'[e] = row) \/ invoice'[e] = invoice[e]
    BY <2>2
  <2> QED
    BY <1>1, <2>1, <2>2, <2>3
<1>4. ASSUME NEW t \in EnrollThreads, CreateInvoice(t) \/ SaveInvoice(t)
      PROVE  MirrorStep(e)
  <2> DEFINE s == enroll[t].seat
             new == [status |-> "UNPAID", amount |-> enroll[t].fee,
                     lingo_id |-> LingoIdOf(t)]
             saved == Updated(invoice[s], enroll[t].fee, LingoIdOf(t))
  <2>1. enroll[t].pc \in {"bill", "save"} /\ s \in Seats
    BY <1>4, SeatOfEnroll DEF CreateInvoice, SaveInvoice, Working
  <2>2. \/ UNCHANGED invoice
        \/ /\ ~Invoiced(s)
           /\ EndEnroll(t) \/ GoTo(t, "confirm")
           /\ invoice' = [invoice EXCEPT ![s] = new]
        \/ /\ Invoiced(s)
           /\ EndEnroll(t) \/ GoTo(t, "confirm")
           /\ invoice' = [invoice EXCEPT ![s] = saved]
    BY <1>4 DEF CreateInvoice, SaveInvoice, Updated
  <2>3. new.lingo_id = LingoIdOf(t)
    OBVIOUS
  <2>4. LingoIdOf(t) = 0 => saved.lingo_id = invoice[s].lingo_id
    BY <2>1 DEF Updated
  <2> HIDE DEF new, saved
  <2>5. EndEnroll(t) \/ GoTo(t, "confirm")
          => enroll'[t].pc \notin {"lingo", "bill", "save"}
    BY DEF EndEnroll, GoTo, NoEnroll, EnrollTypeOK, EnrollStates
  <2>6. CASE s # e \/ UNCHANGED invoice
    BY <1>1, <2>1, <2>2, <2>6
  <2>7. CASE s = e /\ ~UNCHANGED invoice
    <3>1. enroll'[t].pc \notin {"lingo", "bill", "save"}
      BY <2>2, <2>5, <2>7
    <3>2. \/ ~Invoiced(e) /\ invoice'[e] = new
          \/ Invoiced(e) /\ invoice'[e] = saved
      BY <2>1, <2>2, <2>7
    <3> QED
      BY <2>1, <2>3, <2>4, <2>7, <3>1, <3>2
  <2> QED
    BY <2>6, <2>7
<1>5. ASSUME NEW p \in PayThreads, MarkPaid(p)
      PROVE  MirrorStep(e)
  <2> DEFINE s == pay[p].seat
             row == [invoice[s] EXCEPT !.status = pay[p].status]
  <2>1. s \in Seats
    BY <1>5, SeatOfPay DEF MarkPaid, Paying
  <2>2. row.lingo_id = invoice[s].lingo_id
    BY <2>1
  <2>3. \/ UNCHANGED invoice
        \/ Invoiced(s) /\ invoice' = [invoice EXCEPT ![s] = row]
    BY <1>5 DEF MarkPaid
  <2> HIDE DEF row
  <2>4. invoice'[e] = invoice[e] \/ (s = e /\ Invoiced(e) /\ invoice'[e] = row)
    BY <2>1, <2>3
  <2> QED
    BY <1>1, <2>2, <2>4
<1>6. \/ UNCHANGED invoice
      \/ \E c \in Children : DeleteChild(c)
      \/ \E s \in Seats : LazyInvoice(s)
      \/ \E t \in EnrollThreads : CreateInvoice(t) \/ SaveInvoice(t)
      \/ \E p \in PayThreads : MarkPaid(p)
  BY DEF Next, vars, FamilyNext, CatalogueNext, AddChild, VerifyIdentity,
     SetFee, SetActive, StaffSetStatus, EnrollNext, EnrollRequest, EnrollStep,
     CheckCapacity, WcsCreate, CreateEnrollment, LingoCreate, ConfirmOnSave,
     AbortEnroll, PayNext, PayRequest, PayStep, ReadEnrollment, LingoPay,
     ConfirmEnrollment, WritePdf, StoreDocument, AbortPay, dataVars
<1> QED
  BY <1>1, <1>2, <1>3, <1>4, <1>5, <1>6

\* What a step does to an invoice that has its identifier.
MirrorKept ==
    \A e \in Seats :
        Invoiced(e) /\ invoice[e].lingo_id # 0 =>
            invoice'[e].lingo_id = invoice[e].lingo_id \/ ~Invoiced(e)'

LEMMA NextKeepsMirror ==
  ASSUME TypeOK, [Next]_vars,
         BillingBackend = "local" \/ \A t \in EnrollThreads : YetToMirror(t)
  PROVE  MirrorKept
<1> SUFFICES ASSUME NEW e \in Seats, Invoiced(e), invoice[e].lingo_id # 0,
                    Invoiced(e)'
             PROVE  invoice'[e].lingo_id = invoice[e].lingo_id
  BY DEF MirrorKept
<1>1. ASSUME NEW t \in EnrollThreads, enroll[t].pc \in {"bill", "save"},
             enroll[t].seat = e, LingoIdOf(t) # 0
      PROVE  FALSE
  BY <1>1 DEF LingoIdOf, YetToMirror
<1> QED
  BY <1>1, MirrorSteps DEF MirrorStep

LEMMA InitMirrorInv ==
  ASSUME Init
  PROVE  MirrorInv
  BY DEF Init, DataInit, EnrollInit, PayInit, MirrorInv, PaysMirroredInvoice,
     PaySees, YetToMirror, Paying, NoEnroll, NoPay, NoInvoice, Paid

\* A thread that has yet to write the identifier is the only one that will.
LEMMA NextYetToMirror ==
  ASSUME BillingBackend = "lingo", TypeOK, Linked, BillingInv, MirrorInv,
         [Next]_vars, NEW t \in EnrollThreads
  PROVE  YetToMirror(t)'
<1> SUFFICES ASSUME enroll'[t].pc \in {"lingo", "bill", "save"},
                    invoice'[enroll'[t].seat].status # "absent"
             PROVE  invoice'[enroll'[t].seat].lingo_id = 0
  BY DEF YetToMirror, Invoiced
<1> PICK e \in Seats : e = enroll[t].seat
  BY CreatorBecomes DEF Created
<1>1. enroll'[t].seat = e /\ Invoiced(e)'
  BY CreatorBecomes DEF Created, Invoiced
<1>2. ASSUME NEW s \in EnrollThreads, enroll[s].pc \in {"bill", "save"},
             enroll[s].seat = e, enroll'[s].pc \notin {"lingo", "bill", "save"}
      PROVE  FALSE
  <2>1. s # t
    BY <1>2
  <2>2. CASE enroll[t].pc \in Created
    BY <1>2, <2>1, <2>2 DEF BillingInv, OneCreator, Created
  <2>3. CASE enroll[t].pc \notin Created
    <3>1. ~Enrolled(e) /\ ~Gone(e)
      BY <2>3, CreatorBecomes DEF Created
    <3> QED
      BY <1>2, <3>1 DEF Linked, EnrollKnows, Created
  <2> QED
    BY <2>2, <2>3
<1>3. Invoiced(e) => invoice[e].lingo_id = 0
  <2>1. CASE enroll[t].pc \in {"lingo", "bill", "save"}
    BY <2>1 DEF MirrorInv, YetToMirror
  <2>2. CASE enroll[t].pc \notin {"lingo", "bill", "save"}
    <3>1. enroll[t].pc # "confirm"
      <4>1. enroll'[t] # NoEnroll
        BY DEF NoEnroll
      <4>2. EnrollStep(t) => EnrollMove(t)
        BY <4>1, EnrollStepMoves
      <4>3. \/ enroll'[t] = enroll[t] \/ EnrollMove(t)
            \/ EnrollStarts(t)
        BY <4>1, <4>2, EnrollThreadMoves
      <4>4. EnrollStarts(t) => enroll[t].pc = "idle"
        BY DEF EnrollStarts, EnrollRequest, Working
      <4> QED
        BY <4>3, <4>4 DEF EnrollMove
    <3>2. ~Enrolled(e)
      BY <2>2, <3>1, CreatorBecomes DEF Created
    <3> QED
      BY <3>2 DEF Linked, RowsLinked
  <2> QED
    BY <2>1, <2>2
<1>4. MirrorStep(e)
  BY <1>1, MirrorSteps
<1> QED
  BY <1>1, <1>2, <1>3, <1>4 DEF MirrorStep

\* A request goes by the identifier that it read, which the row still has.
LEMMA NextPaySees ==
  ASSUME BillingBackend = "lingo", TypeOK, Linked, MirrorInv, [Next]_vars,
         NEW p \in PayThreads
  PROVE  PaySees(p)'
<1> USE DEF PaySees, Paying
<1>1. RowsKept /\ MirrorKept
  BY NextKeepsRows, NextKeepsMirror DEF Linked, MirrorInv
<1>2. CASE pay'[p] = NoPay
  BY <1>2 DEF NoPay
<1>3. ASSUME pay[p].pc # "idle", pay'[p].seat = pay[p].seat,
             pay'[p].lingo_id = pay[p].lingo_id,
             pay'[p].pc \notin {"idle", "owner"} => pay[p].lingo_id # 0
      PROVE  PaySees(p)'
  <2> PICK e \in Seats : e = pay[p].seat
    BY <1>3, SeatOfPay DEF TypeOK
  <2>1. ASSUME pay[p].lingo_id # 0, Invoiced(e)'
        PROVE  invoice'[e].lingo_id = pay[p].lingo_id
    <3>1. Invoiced(e)
      BY <1>1, <1>3, <2>1, WasInvoiced DEF Linked, PayKnows
    <3>2. invoice[e].lingo_id = pay[p].lingo_id
      BY <1>3, <2>1, <3>1 DEF MirrorInv
    <3> QED
      BY <1>1, <2>1, <3>1, <3>2 DEF MirrorKept
  <2> QED
    BY <1>3, <2>1 DEF Invoiced
<1>4. PaySees(p)
  BY DEF MirrorInv
<1>5. CASE pay'[p] = pay[p]
  <2>1. CASE pay[p].pc = "idle"
    BY <1>5, <2>1
  <2> QED
    BY <1>3, <1>4, <1>5, <2>1
<1>6. CASE PayStep(p) /\ PayMove(p)
  <2>1. /\ pay[p].pc # "idle" /\ pay'[p].seat = pay[p].seat
        /\ pay'[p].lingo_id = pay[p].lingo_id
        /\ pay[p].pc = "owner" => pay[p].lingo_id # 0
    BY <1>6 DEF PayMove
  <2> QED
    BY <1>3, <1>4, <2>1
<1>7. ASSUME NEW u \in Parents, NEW e \in Seats, PayRequest(p, u, e)
      PROVE  PaySees(p)'
  <2>1. /\ pay'[p].seat = e /\ pay'[p].pc = "owner"
        /\ pay'[p].lingo_id = invoice[e].lingo_id /\ UNCHANGED invoice
    BY <1>7, PayRequestMoves DEF dataVars
  <2> QED
    BY <2>1
<1> QED
  BY <1>2, <1>5, <1>6, <1>7, PayThreadMoves, PayStepMoves DEF PayStarts

LEMMA NextMirrorInv ==
  ASSUME BillingBackend = "lingo", TypeOK, Linked, BillingInv, MirrorInv,
         [Next]_vars
  PROVE  MirrorInv'
<1>1. RowsKept /\ MirrorKept
  BY NextKeepsRows, NextKeepsMirror DEF Linked, MirrorInv
<1>2. \A p \in PayThreads : PaySees(p)'
  BY NextPaySees
<1>3. \A t \in EnrollThreads : YetToMirror(t)'
  BY NextYetToMirror
<1>4. ASSUME NEW e \in Seats, Paid(e)'
      PROVE  invoice'[e].lingo_id # 0
  <2>1. Invoiced(e)'
    BY <1>4 DEF Paid, Invoiced
  <2>2. CASE Paid(e)
    <3>1. Invoiced(e) /\ invoice[e].lingo_id # 0
      BY <2>2 DEF Paid, Invoiced, MirrorInv, PaysMirroredInvoice
    <3> QED
      BY <1>1, <2>1, <3>1 DEF MirrorKept
  <2>3. ASSUME NEW p \in PayThreads, pay[p].pc = "mark", pay[p].seat = e
        PROVE  invoice'[e].lingo_id # 0
    <3>1. Invoiced(e)
      BY <1>1, <2>1, <2>3, WasInvoiced DEF Linked, PayKnows
    <3>2. invoice[e].lingo_id # 0
      BY <2>3, <3>1 DEF MirrorInv, PaySees, Paying
    <3> QED
      BY <1>1, <2>1, <3>1, <3>2 DEF MirrorKept
  <2>4. InvoiceStep(e)
    BY InvoiceSteps
  <2> QED
    BY <1>4, <2>2, <2>3, <2>4 DEF InvoiceStep, Paid
<1>5. PaysMirroredInvoice'
  BY <1>2, <1>4 DEF PaysMirroredInvoice, PaySees, Paying
<1> QED
  BY <1>2, <1>3, <1>5 DEF MirrorInv

\* A payment is posted for, and recorded on, the invoice that the row names at
\* Lingo, although enroll requests and the list page write rows between the
\* request's reads and its answers (billing/gateways.py:216-231, :259-283).
THEOREM PaidAsMirrored ==
  ASSUME BillingBackend = "lingo"
  PROVE  Spec => []PaysMirroredInvoice
<1>1. TypeOK /\ Linked /\ BillingInv /\ MirrorInv /\ [Next]_vars => MirrorInv'
  BY NextMirrorInv
<1>2. TypeOK /\ Linked /\ BillingInv /\ [Next]_vars => BillingInv'
  BY NextBillingInv
<1>3. MirrorInv => PaysMirroredInvoice
  BY DEF MirrorInv
<1> QED
  BY <1>1, <1>2, <1>3, InitMirrorInv, InitBillingInv, TypeCorrect,
     RowsStayLinked, PTL DEF Spec

\* No request makes an invoice stand for another invoice at Lingo, with either
\* backend (billing/gateways.py:109-112 and :216-231, billing/models.py:99-127).
THEOREM MirrorStays == Spec => MirrorIsFinal
<1>1. TypeOK /\ (BillingBackend = "lingo" => MirrorInv) /\ [Next]_vars => MirrorKept
  BY NextKeepsMirror, BackendsAssumption DEF MirrorInv
<1>2. MirrorKept =>
        [\A e \in Seats :
            Invoiced(e) /\ invoice[e].lingo_id # 0 =>
                invoice'[e].lingo_id = invoice[e].lingo_id \/ ~Invoiced(e)']_vars
  BY DEF MirrorKept
<1>3. /\ Init => BillingInv /\ MirrorInv
      /\ TypeOK /\ Linked /\ BillingInv /\ [Next]_vars => BillingInv'
      /\ TypeOK /\ Linked /\ BillingInv
         /\ (BillingBackend = "lingo" => MirrorInv) /\ [Next]_vars
            => (BillingBackend = "lingo" => MirrorInv')
  BY InitBillingInv, InitMirrorInv, NextBillingInv, NextMirrorInv
<1>4. Spec => [](BillingBackend = "lingo" => MirrorInv)
  <2> DEFINE J == BillingBackend = "lingo" => MirrorInv
  <2>1. (Init => BillingInv /\ J)
        /\ (TypeOK /\ Linked /\ BillingInv /\ [Next]_vars => BillingInv')
        /\ (TypeOK /\ Linked /\ BillingInv /\ J /\ [Next]_vars => J')
    BY <1>3
  <2> HIDE DEF J
  <2>2. Spec => []J
    BY <2>1, TypeCorrect, RowsStayLinked, PTL DEF Spec
  <2> QED
    BY <2>2 DEF J
<1> QED
  BY <1>1, <1>2, <1>4, TypeCorrect, PTL DEF Spec, MirrorIsFinal

-----------------------------------------------------------------------------
(* Nothing that was begun is forgotten.                                    *)

\* Without crashes a thread loses its state to its own steps only.
LEMMA EnrollThreadLives ==
  ASSUME Uneventful, TypeOK, [Next]_vars, NEW t \in EnrollThreads
  PROVE  enroll'[t] = enroll[t] \/ EnrollStep(t) \/ EnrollStarts(t)
<1>1. CASE UNCHANGED enroll
  BY <1>1
<1>2. ASSUME NEW s \in EnrollThreads, NEW u \in Parents, NEW c \in Children,
             NEW a \in Activities, EnrollRequest(s, u, c, a), s # t
      PROVE  enroll'[t] = enroll[t]
  BY <1>2 DEF EnrollRequest, TypeOK, EnrollTypeOK
<1>3. ASSUME NEW s \in EnrollThreads, EnrollStep(s)
      PROVE  s # t => enroll'[t] = enroll[t]
  BY <1>3, EnrollStepMoves
<1> QED
  BY <1>1, <1>2, <1>3 DEF Next, vars, EnrollNext, EnrollStarts, AbortEnroll,
     Uneventful

LEMMA PayThreadLives ==
  ASSUME Uneventful, TypeOK, [Next]_vars, NEW p \in PayThreads
  PROVE  pay'[p] = pay[p] \/ PayStep(p) \/ PayStarts(p)
<1>1. CASE UNCHANGED pay
  BY <1>1
<1>2. ASSUME NEW q \in PayThreads, q # p,
             PayStep(q) \/ \E u \in Parents, e \in Seats : PayRequest(q, u, e)
      PROVE  pay'[p] = pay[p]
  BY <1>2, PayStepMoves, PayRequestMoves
<1> QED
  BY <1>1, <1>2 DEF Next, vars, PayNext, PayStarts, AbortPay, Uneventful

LEMMA InitForgottenInv ==
  ASSUME Init
  PROVE  ForgottenInv
  BY DEF Init, DataInit, EnrollInit, PayInit, ForgottenInv, NothingForgotten,
     ReadConfirmed, Paying, NoPay, NoInvoice, Enrolled, Invoiced, Paid

\* An enrollment made is billed by the thread that made it.
LEMMA NextBilled ==
  ASSUME Uneventful, TypeOK, Linked, ForgottenInv, [Next]_vars, NEW e \in Seats,
         Enrolled(e)', ~Invoiced(e)'
  PROVE  \E t \in EnrollThreads : enroll'[t].pc = "bill" /\ enroll'[t].seat = e
<1>1. RowsKept
  BY NextKeepsRows DEF Linked
<1>2. ~Gone(e)' /\ ~Invoiced(e)
  BY <1>1 DEF RowsKept, RowsLinked, Persists, Gone
<1>3. CASE Enrolled(e)
  <2>1. PICK t \in EnrollThreads : Working(t, "bill") /\ enroll[t].seat = e
    BY <1>2, <1>3 DEF ForgottenInv, NothingForgotten
  <2>2. ~EnrollStep(t)
    <3>1. ASSUME CreateInvoice(t)
          PROVE  FALSE
      <4> DEFINE new == [status |-> "UNPAID", amount |-> enroll[t].fee,
                         lingo_id |-> LingoIdOf(t)]
      <4>1. new.status = "UNPAID"
        OBVIOUS
      <4>2. invoice' = [invoice EXCEPT ![e] = new]
        BY <1>2, <1>3, <2>1, <3>1 DEF CreateInvoice
      <4> HIDE DEF new
      <4> QED
        BY <4>1, <4>2 DEF TypeOK, DataTypeOK, Invoiced
    <3> QED
      BY <2>1, <3>1 DEF EnrollStep, CheckCapacity, WcsCreate, CreateEnrollment,
         LingoCreate, SaveInvoice, ConfirmOnSave, Working
  <2>3. ~EnrollStarts(t)
    BY <2>1 DEF EnrollStarts, EnrollRequest, Working
  <2>4. enroll'[t] = enroll[t]
    BY <2>2, <2>3, EnrollThreadLives
  <2> QED
    BY <2>1, <2>4 DEF Working
<1>4. CASE ~Enrolled(e)
  <2>1. PICK t \in EnrollThreads : CreateEnrollment(t) /\ enroll[t].seat = e
    BY <1>4, NewlyEnrolled
  <2>2. child[e[1]] = "present"
    BY <1>4, <2>1 DEF CreateEnrollment, Enrolled
  <2>3. GoTo(t, "bill")
    BY <1>4, <2>1, <2>2
    DEF CreateEnrollment, AfterCreate, BillingGateway, Uneventful
  <2>4. enroll'[t].pc = "bill" /\ enroll'[t].seat = e
    BY <2>1, <2>3 DEF GoTo, TypeOK, EnrollTypeOK, EnrollStates
  <2> QED
    BY <2>4
<1> QED
  BY <1>3, <1>4

\* An invoice becomes PAID by a thread that goes on to confirm its enrollment.
LEMMA NewlyPaid ==
  ASSUME TypeOK, [Next]_vars, NEW e \in Seats, ~Paid(e), Paid(e)'
  PROVE  \E p \in PayThreads :
            /\ pay[p].pc = "mark" /\ pay[p].seat = e /\ Invoiced(e)
            /\ pay'[p].pc = "confirm" /\ pay'[p].seat = e
            /\ pay'[p].confirmed = pay[p].confirmed
            /\ UNCHANGED << child, enrollment, document >>
<1> USE DEF TypeOK, DataTypeOK, Paid
<1>1. invoice'[e] # invoice[e]
  OBVIOUS
<1>2. ASSUME NEW c \in Children, DeleteChild(c)
      PROVE  FALSE
  BY <1>2 DEF DeleteChild, NoInvoice
<1>3. ASSUME NEW s \in Seats, LazyInvoice(s)
      PROVE  FALSE
  BY <1>3 DEF LazyInvoice
<1>4. ASSUME NEW t \in EnrollThreads, CreateInvoice(t) \/ SaveInvoice(t)
      PROVE  FALSE
  <2> DEFINE s == enroll[t].seat
             new == [status |-> "UNPAID", amount |-> enroll[t].fee,
                     lingo_id |-> LingoIdOf(t)]
             saved == Updated(invoice[s], enroll[t].fee, LingoIdOf(t))
  <2>1. s \in Seats
    BY <1>4, SeatOfEnroll DEF CreateInvoice, SaveInvoice, Working
  <2>2. \/ invoice' = [invoice EXCEPT ![s] = new]
        \/ invoice' = [invoice EXCEPT ![s] = saved]
    BY <1>1, <1>4 DEF CreateInvoice, SaveInvoice, Updated
  <2>3. new.status = "UNPAID" /\ saved.status = invoice[s].status
    BY <2>1 DEF Updated
  <2> HIDE DEF new, saved
  <2> QED
    BY <2>1, <2>2, <2>3
<1>5. ASSUME NEW p \in PayThreads, MarkPaid(p)
      PROVE  /\ pay[p].pc = "mark" /\ pay[p].seat = e /\ Invoiced(e)
             /\ pay'[p].pc = "confirm" /\ pay'[p].seat = e
             /\ pay'[p].confirmed = pay[p].confirmed
             /\ UNCHANGED << child, enrollment, document >>
  <2>1. /\ pay[p].pc = "mark" /\ Invoiced(pay[p].seat) /\ PayGoTo(p, "confirm")
        /\ invoice' = [invoice EXCEPT ![pay[p].seat].status = pay[p].status]
        /\ UNCHANGED << child, enrollment, document >>
    BY <1>1, <1>5 DEF MarkPaid, Paying
  <2>2. pay[p].seat = e
    BY <1>1, <2>1
  <2> DEFINE q == [pay[p] EXCEPT !.pc = "confirm"]
  <2>3. q.pc = "confirm" /\ q.seat = e /\ q.confirmed = pay[p].confirmed
    BY <2>2 DEF PayTypeOK, PayStates
  <2>4. pay'[p] = q
    BY <2>1 DEF PayGoTo, PayTypeOK
  <2> HIDE DEF q
  <2> QED
    BY <2>1, <2>2, <2>3, <2>4
<1>6. \/ UNCHANGED invoice
      \/ \E c \in Children : DeleteChild(c)
      \/ \E s \in Seats : LazyInvoice(s)
      \/ \E t \in EnrollThreads : CreateInvoice(t) \/ SaveInvoice(t)
      \/ \E p \in PayThreads : MarkPaid(p)
  BY DEF Next, vars, FamilyNext, CatalogueNext, AddChild, VerifyIdentity,
     SetFee, SetActive, StaffSetStatus, EnrollNext, EnrollRequest, EnrollStep,
     CheckCapacity, WcsCreate, CreateEnrollment, LingoCreate, ConfirmOnSave,
     AbortEnroll, PayNext, PayRequest, PayStep, ReadEnrollment, LingoPay,
     ConfirmEnrollment, WritePdf, StoreDocument, AbortPay, dataVars
<1> QED
  BY <1>1, <1>2, <1>3, <1>4, <1>5, <1>6

\* Without staff edits a confirmed enrollment stays so until it is removed.
LEMMA StaysConfirmed ==
  ASSUME Uneventful, TypeOK, Linked, [Next]_vars, NEW e \in Seats,
         enrollment[e] = "CONFIRMED"
  PROVE  enrollment'[e] = "CONFIRMED" \/ Gone(e)'
<1>1. enrollment'[e] \in {"CONFIRMED", "absent"}
  BY StatusSteps DEF Enrolled, Uneventful
<1>2. Enrolled(e)' \/ Gone(e)'
  BY NextKeepsRows DEF Linked, RowsKept, Persists, Enrolled
<1> QED
  BY <1>1, <1>2 DEF Enrolled

\* A document stays linked as long as its invoice is there.
LEMMA StaysLinked ==
  ASSUME TypeOK, [Next]_vars, NEW e \in Seats, document[e] = "linked", Invoiced(e)'
  PROVE  document'[e] = "linked"
<1>1. ASSUME NEW c \in Children, DeleteChild(c)
      PROVE  document'[e] = "linked"
  BY <1>1 DEF DeleteChild, Invoiced, NoInvoice
<1>2. ASSUME NEW p \in PayThreads, StoreDocument(p)
      PROVE  document'[e] = "linked"
  BY <1>2 DEF StoreDocument, TypeOK, DataTypeOK
<1>3. \/ UNCHANGED document
      \/ \E c \in Children : DeleteChild(c)
      \/ \E p \in PayThreads : StoreDocument(p)
  BY DEF Next, vars, FamilyNext, CatalogueNext, AddChild, VerifyIdentity,
     SetFee, SetActive, StaffSetStatus, LazyInvoice, EnrollNext,
     EnrollRequest, EnrollStep, CheckCapacity, WcsCreate, CreateEnrollment,
     LingoCreate, CreateInvoice, SaveInvoice, ConfirmOnSave, AbortEnroll,
     PayNext, PayRequest, PayStep, ReadEnrollment, LingoPay, MarkPaid,
     ConfirmEnrollment, WritePdf, AbortPay, dataVars
<1> QED
  BY <1>1, <1>2, <1>3

\* A thread past "mark" goes through all its steps.
LEMMA PayGoesOn ==
  ASSUME Uneventful, TypeOK, [Next]_vars, NEW p \in PayThreads,
         NEW e \in Seats, pay[p].seat = e, Enrolled(e), Invoiced(e),
         pay[p].pc \in {"confirm", "pdf", "store"}
  PROVE  \/ pay'[p] = pay[p]
         \/ /\ pay[p].pc = "confirm"
            /\ pay[p].confirmed \/ enrollment'[e] = "CONFIRMED"
            /\ pay'[p].pc = "pdf" /\ pay'[p].seat = e
         \/ pay[p].pc = "pdf" /\ pay'[p].pc = "store" /\ pay'[p].seat = e
         \/ pay[p].pc = "store" /\ document'[e] = "linked"
<1> USE DEF TypeOK, DataTypeOK, PayTypeOK
<1>1. ~PayStarts(p)
  BY DEF PayStarts, PayRequest, Paying
<1>2. ASSUME NEW to \in {"pdf", "store"}, PayGoTo(p, to)
      PROVE  pay'[p].pc = to /\ pay'[p].seat = e
  BY <1>2 DEF PayGoTo, PayStates
<1>3. CASE ConfirmEnrollment(p)
  <2>1. /\ pay[p].pc = "confirm" /\ PayGoTo(p, "pdf")
        /\ \/ pay[p].confirmed
           \/ enrollment' = [enrollment EXCEPT ![e] = "CONFIRMED"]
    BY <1>3 DEF ConfirmEnrollment, Paying
  <2>2. pay[p].confirmed \/ enrollment'[e] = "CONFIRMED"
    BY <2>1
  <2> QED
    BY <1>2, <2>1, <2>2
<1>4. CASE WritePdf(p)
  <2>1. pay[p].pc = "pdf" /\ PayGoTo(p, "store")
    BY <1>4 DEF WritePdf, Paying, Uneventful
  <2> QED
    BY <1>2, <2>1
<1>5. CASE StoreDocument(p)
  BY <1>5 DEF StoreDocument, Paying
<1>6. pay'[p] = pay[p] \/ PayStep(p)
  BY <1>1, PayThreadLives
<1> QED
  BY <1>3, <1>4, <1>5, <1>6
  DEF PayStep, ReadEnrollment, LingoPay, MarkPaid, Paying

\* A payment is confirmed and documented by a thread that is under way.
LEMMA NextPaidFollowed ==
  ASSUME Uneventful, TypeOK, Linked, ForgottenInv, [Next]_vars, NEW e \in Seats,
         Paid(e)'
  PROVE  /\ enrollment'[e] # "CONFIRMED" =>
              \E p \in PayThreads :
                 pay'[p].pc = "confirm" /\ pay'[p].seat = e /\ ~pay'[p].confirmed
         /\ document'[e] # "linked" =>
              \E p \in PayThreads :
                 pay'[p].pc \in {"confirm", "pdf", "store"} /\ pay'[p].seat = e
<1>1. Invoiced(e)' /\ ~Gone(e)'
  BY NextLinked DEF Linked, RowsLinked, Gone, Paid, Invoiced
<1>2. CASE Paid(e)
  <2>1. Invoiced(e) /\ Enrolled(e)
    BY <1>2 DEF Paid, Invoiced, Linked, RowsLinked
  <2>2. ASSUME enrollment'[e] # "CONFIRMED"
        PROVE  \E p \in PayThreads :
                 pay'[p].pc = "confirm" /\ pay'[p].seat = e /\ ~pay'[p].confirmed
    <3>1. enrollment[e] # "CONFIRMED"
      BY <1>1, <2>2, StaysConfirmed
    <3>2. PICK p \in PayThreads :
                 Paying(p, "confirm") /\ pay[p].seat = e /\ ~pay[p].confirmed
      BY <1>2, <3>1 DEF ForgottenInv, NothingForgotten
    <3>3. pay'[p] = pay[p]
      BY <2>1, <2>2, <3>2, PayGoesOn DEF Paying
    <3> QED
      BY <3>2, <3>3 DEF Paying
  <2>3. ASSUME document'[e] # "linked"
        PROVE  \E p \in PayThreads :
                 pay'[p].pc \in {"confirm", "pdf", "store"} /\ pay'[p].seat = e
    <3>1. document[e] # "linked"
      BY <1>1, <2>3, StaysLinked
    <3>2. PICK p \in PayThreads :
                 pay[p].pc \in {"confirm", "pdf", "store"} /\ pay[p].seat = e
      BY <1>2, <3>1 DEF ForgottenInv, NothingForgotten
    <3>3. pay'[p].pc \in {"confirm", "pdf", "store"} /\ pay'[p].seat = e
      BY <2>1, <2>3, <3>2, PayGoesOn
    <3> QED
      BY <3>3
  <2> QED
    BY <2>2, <2>3
<1>3. CASE ~Paid(e)
  <2>1. PICK p \in PayThreads :
            /\ pay[p].pc = "mark" /\ pay[p].seat = e /\ Invoiced(e)
            /\ pay'[p].pc = "confirm" /\ pay'[p].seat = e
            /\ pay'[p].confirmed = pay[p].confirmed
            /\ UNCHANGED << child, enrollment, document >>
    BY <1>3, NewlyPaid
  <2>2. pay[p].confirmed => enrollment[e] = "CONFIRMED"
    BY <1>1, <2>1 DEF ForgottenInv, ReadConfirmed, Paying, Gone
  <2> QED
    BY <2>1, <2>2
<1> QED
  BY <1>2, <1>3

LEMMA NextReadConfirmed ==
  ASSUME Uneventful, TypeOK, Linked, ForgottenInv, [Next]_vars, NEW p \in PayThreads
  PROVE  ReadConfirmed(p)'
<1> SUFFICES ASSUME pay'[p].pc # "idle", pay'[p].confirmed
             PROVE  \/ enrollment'[pay'[p].seat] = "CONFIRMED"
                    \/ child'[pay'[p].seat[1]] = "deleted"
  BY DEF ReadConfirmed, Paying, Gone
<1>1. ASSUME pay[p].pc # "idle", pay'[p].seat = pay[p].seat,
             \/ enrollment[pay[p].seat] = "CONFIRMED" \/ Gone(pay[p].seat)
      PROVE  \/ enrollment'[pay'[p].seat] = "CONFIRMED"
             \/ child'[pay'[p].seat[1]] = "deleted"
  <2> PICK e \in Seats : e = pay[p].seat
    BY <1>1, SeatOfPay DEF TypeOK, Paying
  <2>1. Gone(e) => Gone(e)'
    BY NextKeepsRows DEF Linked, RowsKept, Persists
  <2>2. enrollment'[e] = "CONFIRMED" \/ Gone(e)'
    BY <1>1, <2>1, StaysConfirmed
  <2> QED
    BY <1>1, <2>2 DEF Gone
<1>2. pay[p].pc # "idle" /\ pay[p].confirmed =>
        enrollment[pay[p].seat] = "CONFIRMED" \/ Gone(pay[p].seat)
  BY DEF ForgottenInv, ReadConfirmed, Paying
<1>3. CASE pay'[p] = pay[p]
  BY <1>1, <1>2, <1>3
<1>4. CASE PayStep(p)
  <2>1. PayMove(p)
    BY <1>4, PayStepMoves DEF NoPay
  <2>2. /\ pay[p].pc # "idle" /\ pay'[p].seat = pay[p].seat
        /\ pay[p].confirmed \/ enrollment[pay[p].seat] = "CONFIRMED"
    BY <2>1 DEF PayMove
  <2> QED
    BY <1>1, <1>2, <2>2
<1>5. ~PayStarts(p)
  BY PayRequestMoves DEF PayStarts
<1> QED
  BY <1>3, <1>4, <1>5, PayThreadLives

LEMMA NextForgottenInv ==
  ASSUME Uneventful, TypeOK, Linked, ForgottenInv, [Next]_vars
  PROVE  ForgottenInv'
<1>1. NothingForgotten'
  BY NextBilled, NextPaidFollowed
  DEF NothingForgotten, Working, Paying, Enrolled, Invoiced, Paid
<1>2. \A p \in PayThreads : ReadConfirmed(p)'
  BY NextReadConfirmed
<1> QED
  BY <1>1, <1>2 DEF ForgottenInv

\* Without crashes, failing disks and staff edits, whatever is not finished is
\* in the hands of a request that finishes it: the part of the three promises of
\* progress that does not speak of time (activities/views.py:193-203,
\* billing/views.py:75-106, billing/signals.py:5-7).
THEOREM NothingIsForgotten ==
  ASSUME Uneventful
  PROVE  Spec => []NothingForgotten
<1>1. TypeOK /\ Linked /\ ForgottenInv /\ [Next]_vars => ForgottenInv'
  BY NextForgottenInv
<1>2. ForgottenInv => NothingForgotten
  BY DEF ForgottenInv
<1> QED
  BY <1>1, <1>2, InitForgottenInv, TypeCorrect, RowsStayLinked, PTL DEF Spec

-----------------------------------------------------------------------------
(* The whole invariant is inductive.                                       *)

LEMMA InitIInv == Init => IInv
  BY InitTypeOK, InitLinked, InitPaymentInv, InitBillingInv, InitPlacesInv,
     InitVerifiedInv, InitWcsInv, InitLedgerInv, InitMirrorInv, InitForgottenInv,
     InitSettledInv DEF IInv

LEMMA NextIInv == IInv /\ [Next]_vars => IInv'
<1> SUFFICES ASSUME IInv, [Next]_vars
             PROVE  IInv'
  OBVIOUS
<1>1. TypeOK /\ Linked
  BY DEF IInv
<1>2. TypeOK' /\ Linked'
  BY <1>1, NextTypeOK, NextLinked
<1>3. ASSUME OnlyPaid
      PROVE  PaymentInv'
  BY <1>1, <1>3, NextPaymentInv DEF IInv
<1>4. BillingInv' /\ PlacesInv' /\ VerifiedInv'
  BY <1>1, NextBillingInv, NextPlacesInv, NextVerifiedInv DEF IInv
<1>5. ASSUME EnrollmentBackend = "wcs"
      PROVE  WcsInv'
  BY <1>1, <1>5, NextWcsInv DEF IInv
<1>6. ASSUME BillingBackend = "lingo"
      PROVE  LedgerInv' /\ MirrorInv'
  BY <1>1, <1>6, NextLedgerInv, NextMirrorInv DEF IInv
<1>7. ASSUME OnlyPaid, OnlyCancelled
      PROVE  SettledInv'
  BY <1>1, <1>7, NextSettledInv DEF IInv
<1>8. ASSUME Uneventful
      PROVE  ForgottenInv'
  BY <1>1, <1>8, NextForgottenInv DEF IInv
<1> QED
  BY <1>2, <1>3, <1>4, <1>5, <1>6, <1>7, <1>8
  DEF IInv, OnlyPaid, OnlyCancelled, Uneventful

\* What every thread knows of the rows it read earlier stays true while all
\* the others run (activities/views.py:135-218, billing/views.py:32-118).
THEOREM EveryThreadKnows == Spec => []IInv
  BY InitIInv, NextIInv, PTL DEF Spec

-----------------------------------------------------------------------------
(* The portal implements the lifecycle of an enrollment.                   *)

\* Staff leave the statuses alone and a payment is answered with PAID.
LifecycleSettings == OnlyPaid /\ StaffStatuses = {}

\* The combinations of rows that are a stage, on top of IInv.
Staged ==
    \A e \in Seats :
        /\ enrollment[e] # "CANCELLED"
        /\ document[e] = "unlinked" => Gone(e)

\* The stage of a seat whose rows are in such a combination.
StageOf(e) ==
    IF Gone(e) THEN "gone"
    ELSE IF enrollment[e] = "absent" THEN "none"
    ELSE IF ~Invoiced(e) THEN "enrolled"
    ELSE IF ~Paid(e) THEN "billed"
    ELSE IF enrollment[e] = "PENDING_PAYMENT" THEN "paid"
    ELSE IF document[e] = "none" THEN "confirmed" ELSE "settled"

StageMap == [e \in Seats |-> StageOf(e)]

LEMMA StageIsMapped ==
  ASSUME LifecycleSettings
  PROVE  IInv /\ Staged => Stage = StageMap
<1> SUFFICES ASSUME IInv, Staged, NEW e \in Seats
             PROVE  Stage[e] = StageOf(e)
  BY DEF Stage, StageMap
<1>1. SettledInv /\ PaymentInv /\ Linked /\ TypeOK
  BY DEF LifecycleSettings, OnlyCancelled, IInv
<1>2. /\ Gone(e) => ~Enrolled(e)
      /\ Invoiced(e) => Enrolled(e)
      /\ enrollment[e] \in {"absent", "PENDING_PAYMENT", "CONFIRMED"}
      /\ document[e] \in {"none", "linked", "unlinked"}
  BY <1>1 DEF Linked, RowsLinked, Gone, TypeOK, DataTypeOK, EnrollmentStatuses, Staged
<1>3. document[e] = "linked" => /\ Paid(e) /\ Invoiced(e) /\ pdf[e] # NoPdf
                                /\ enrollment[e] = "CONFIRMED"
  BY <1>1, <1>2 DEF SettledInv, DocumentIsSettled, Settled, Paid, Invoiced, Enrolled
<1>4. /\ enrollment[e] = "CONFIRMED" => Paid(e)
      /\ Paid(e) => Invoiced(e)
      /\ document[e] = "unlinked" => Gone(e)
  BY <1>1 DEF PaymentInv, ConfirmedIsPaid, Staged, Paid, Invoiced
<1> QED
  BY <1>2, <1>3, <1>4 DEF Stage, StageOf, Gone, Enrolled

LEMMA InitStaged == Init => Staged
  BY DEF Init, DataInit, Staged

LEMMA NextStaged ==
  ASSUME LifecycleSettings, IInv, Staged, [Next]_vars
  PROVE  Staged'
<1> SUFFICES ASSUME NEW e \in Seats
             PROVE  /\ enrollment'[e] # "CANCELLED"
                    /\ document'[e] = "unlinked" => Gone(e)'
  BY DEF Staged, Gone
<1>1. TypeOK
  BY DEF IInv
<1>2. enrollment'[e] # "CANCELLED"
  <2>1. CASE Enrolled(e)
    BY <1>1, <2>1, StatusSteps DEF LifecycleSettings, Staged
  <2>2. CASE ~Enrolled(e) /\ Enrolled(e)'
    <3>1. PICK t \in EnrollThreads : CreateEnrollment(t) /\ enroll[t].seat = e
      BY <1>1, <2>2, NewlyEnrolled
    <3> QED
      BY <1>1, <2>2, <3>1 DEF CreateEnrollment, Enrolled, TypeOK, DataTypeOK
  <2>3. CASE ~Enrolled(e)'
    BY <2>3 DEF Enrolled
  <2> QED
    BY <2>1, <2>2, <2>3
<1>3. document'[e] = "unlinked" => Gone(e)'
  <2>1. CASE document[e] = "unlinked"
    BY <1>1, <2>1, NextKeepsRows DEF Staged, IInv, Linked, RowsKept, Persists
  <2>2. ASSUME NEW c \in Children, DeleteChild(c), document'[e] = "unlinked",
               document[e] # "unlinked"
        PROVE  Gone(e)'
    BY <1>1, <2>2 DEF DeleteChild, Gone, Seats, TypeOK, DataTypeOK
  <2>3. ASSUME NEW p \in PayThreads, StoreDocument(p)
        PROVE  document'[e] \in {document[e], "linked"}
    BY <1>1, <2>3 DEF StoreDocument, TypeOK, DataTypeOK
  <2>4. \/ UNCHANGED document
        \/ \E c \in Children : DeleteChild(c)
        \/ \E p \in PayThreads : StoreDocument(p)
    BY DEF Next, vars, FamilyNext, CatalogueNext, AddChild, VerifyIdentity,
       SetFee, SetActive, StaffSetStatus, LazyInvoice, EnrollNext,
       EnrollRequest, EnrollStep, CheckCapacity, WcsCreate, CreateEnrollment,
       LingoCreate, CreateInvoice, SaveInvoice, ConfirmOnSave, AbortEnroll,
       PayNext, PayRequest, PayStep, ReadEnrollment, LingoPay, MarkPaid,
       ConfirmEnrollment, WritePdf, AbortPay, dataVars
  <2> QED
    BY <2>1, <2>2, <2>3, <2>4
<1> QED
  BY <1>2, <1>3

\* No step but a deletion moves more than one seat, and it moves that seat from
\* one stage to the next.
Successor(from, to) ==
    \/ from = "none" /\ to = "enrolled"
    \/ from = "enrolled" /\ to = "billed"
    \/ from = "billed" /\ to = "paid"
    \/ from = "paid" /\ to = "confirmed"
    \/ from = "confirmed" /\ to = "settled"

SameRow(e) ==
    /\ Gone(e)' = Gone(e)
    /\ enrollment'[e] = enrollment[e]
    /\ invoice'[e].status = invoice[e].status
    /\ document'[e] = document[e]

LEMMA SameStage ==
  ASSUME NEW e \in Seats, SameRow(e)
  PROVE  StageOf(e)' = StageOf(e)
  BY DEF SameRow, StageOf, Invoiced, Paid

OneSeatMoves(s) ==
    /\ \A e \in Seats \ {s} : SameRow(e)
    /\ SameRow(s) \/ Successor(StageOf(s), StageOf(s)')

LEMMA EnrollStage ==
  ASSUME LifecycleSettings, IInv, Staged, NEW t \in EnrollThreads, EnrollStep(t),
         NEW s \in Seats, s = enroll[t].seat
  PROVE  OneSeatMoves(s)
<1>1. TypeOK /\ Linked /\ PaymentInv
  BY DEF IInv, LifecycleSettings
<1>2. /\ Enrolled(s) => ~Gone(s)
      /\ Invoiced(s) => Enrolled(s)
  BY <1>1 DEF Linked, RowsLinked, Gone
<1> USE DEF TypeOK, DataTypeOK
<1>3. CASE UNCHANGED << child, enrollment, invoice, document >>
  BY <1>3 DEF OneSeatMoves, SameRow, Gone
<1>4. CASE CreateEnrollment(t)
  <2> DEFINE status == IF enrollment[s] = "absent" THEN "PENDING_PAYMENT"
                                                   ELSE enrollment[s]
  <2>1. /\ UNCHANGED << child, invoice, document >>
        /\ \/ UNCHANGED enrollment
           \/ /\ child[s[1]] = "present"
              /\ enrollment' = [enrollment EXCEPT ![s] = status]
    BY <1>4 DEF CreateEnrollment
  <2>2. CASE enrollment[s] = "absent" /\ child[s[1]] = "present"
             /\ enrollment' = [enrollment EXCEPT ![s] = status]
    <3>1. enrollment'[s] = "PENDING_PAYMENT" /\ ~Invoiced(s)
      BY <1>1, <1>2, <2>2 DEF Enrolled
    <3>2. StageOf(s) = "none" /\ StageOf(s)' = "enrolled"
      BY <2>1, <2>2, <3>1 DEF StageOf, Gone, Invoiced
    <3> QED
      BY <1>1, <2>1, <2>2, <3>2 DEF OneSeatMoves, Successor, SameRow, Gone
  <2>3. CASE UNCHANGED enrollment \/ enrollment[s] # "absent"
    <3>1. UNCHANGED enrollment
      BY <1>1, <2>1, <2>3
    <3> QED
      BY <1>3, <2>1, <3>1
  <2> QED
    BY <2>1, <2>2, <2>3
<1>5. CASE CreateInvoice(t)
  <2> DEFINE new == [status |-> "UNPAID", amount |-> enroll[t].fee,
                     lingo_id |-> LingoIdOf(t)]
  <2>1. new.status = "UNPAID"
    OBVIOUS
  <2>2. /\ UNCHANGED << child, enrollment, document >>
        /\ \/ UNCHANGED invoice
           \/ Enrolled(s) /\ ~Invoiced(s) /\ invoice' = [invoice EXCEPT ![s] = new]
    BY <1>5 DEF CreateInvoice
  <2> HIDE DEF new
  <2>3. CASE Enrolled(s) /\ ~Invoiced(s) /\ invoice' = [invoice EXCEPT ![s] = new]
    <3>1. invoice'[s].status = "UNPAID"
      BY <1>1, <2>1, <2>3
    <3>2. StageOf(s) = "enrolled" /\ StageOf(s)' = "billed"
      BY <1>2, <2>2, <2>3, <3>1 DEF StageOf, Gone, Invoiced, Paid, Enrolled
    <3> QED
      BY <1>1, <2>2, <2>3, <3>2 DEF OneSeatMoves, Successor, SameRow, Gone
  <2> QED
    BY <1>3, <2>2, <2>3
<1>6. CASE SaveInvoice(t)
  <2> DEFINE saved == Updated(invoice[s], enroll[t].fee, LingoIdOf(t))
  <2>1. saved.status = invoice[s].status
    BY <1>1 DEF Updated
  <2>2. /\ UNCHANGED << child, enrollment, document >>
        /\ UNCHANGED invoice \/ invoice' = [invoice EXCEPT ![s] = saved]
    BY <1>6 DEF SaveInvoice, Updated
  <2> HIDE DEF saved
  <2>3. \A e \in Seats : invoice'[e].status = invoice[e].status
    BY <1>1, <2>1, <2>2
  <2> QED
    BY <2>2, <2>3 DEF OneSeatMoves, SameRow, Gone
<1>7. CASE ConfirmOnSave(t)
  <2> DEFINE status == IF enrollment[s] = "absent" THEN enrollment[s]
                                                   ELSE "CONFIRMED"
  <2>1. /\ UNCHANGED << child, invoice, document >>
        /\ enrollment' = [enrollment EXCEPT ![s] = status]
    BY <1>7 DEF ConfirmOnSave
  <2>2. enroll[t].pc = "confirm" /\ enroll[t].paid
    BY <1>1, <1>7 DEF ConfirmOnSave, Working, Linked, EnrollKnows
  <2>3. CASE enrollment[s] \in {"absent", "CONFIRMED"}
    <3>1. UNCHANGED enrollment
      BY <1>1, <2>1, <2>3
    <3> QED
      BY <1>3, <2>1, <3>1
  <2>4. CASE enrollment[s] \notin {"absent", "CONFIRMED"}
    <3>1. enrollment[s] = "PENDING_PAYMENT"
      BY <1>1, <2>4 DEF Staged, EnrollmentStatuses
    <3>2. ~Gone(s) /\ Invoiced(s) /\ Paid(s)
      BY <1>1, <1>2, <2>2, <3>1
      DEF Linked, EnrollKnows, PaymentInv, EnrollSeen, Enrolled
    <3>3. document[s] # "linked"
      BY <3>1 DEF IInv, LifecycleSettings, OnlyCancelled, SettledInv,
         DocumentIsSettled
    <3>4. document[s] = "none"
      BY <1>1, <3>2, <3>3 DEF Staged
    <3>5. StageOf(s) = "paid" /\ StageOf(s)' = "confirmed"
      BY <1>1, <2>1, <3>1, <3>2, <3>4 DEF StageOf, Gone, Invoiced, Paid
    <3> QED
      BY <1>1, <2>1, <3>5 DEF OneSeatMoves, Successor, SameRow, Gone
  <2> QED
    BY <2>3, <2>4
<1> QED
  BY <1>3, <1>4, <1>5, <1>6, <1>7
  DEF EnrollStep, CheckCapacity, WcsCreate, LingoCreate, dataVars

LEMMA PayStage ==
  ASSUME LifecycleSettings, IInv, Staged, NEW p \in PayThreads, PayStep(p),
         NEW s \in Seats, s = pay[p].seat
  PROVE  OneSeatMoves(s)
<1>1. TypeOK /\ Linked /\ PaymentInv /\ SettledInv
  BY DEF IInv, LifecycleSettings, OnlyCancelled
<1>2. /\ Enrolled(s) => ~Gone(s)
      /\ Invoiced(s) => Enrolled(s)
      /\ enrollment[s] \in {"absent", "PENDING_PAYMENT", "CONFIRMED"}
      /\ document[s] = "linked" => Paid(s) /\ enrollment[s] = "CONFIRMED"
  BY <1>1 DEF Linked, RowsLinked, Gone, TypeOK, DataTypeOK, EnrollmentStatuses,
     Staged, SettledInv, DocumentIsSettled, Paid, Invoiced, Enrolled
<1> USE DEF TypeOK, DataTypeOK
<1>3. CASE UNCHANGED << child, enrollment, invoice, document >>
  BY <1>3 DEF OneSeatMoves, SameRow, Gone
<1>4. CASE MarkPaid(p)
  <2> DEFINE row == [invoice[s] EXCEPT !.status = pay[p].status]
  <2>1. pay[p].status = "PAID"
    BY <1>1 DEF PaymentInv, PaySeen
  <2>2. row.status = "PAID"
    BY <1>1, <2>1
  <2>3. /\ UNCHANGED << child, enrollment, document >>
        /\ \/ UNCHANGED invoice
           \/ Invoiced(s) /\ invoice' = [invoice EXCEPT ![s] = row]
    BY <1>4 DEF MarkPaid
  <2> HIDE DEF row
  <2>4. CASE Invoiced(s) /\ invoice' = [invoice EXCEPT ![s] = row]
    <3>1. invoice'[s].status = "PAID"
      BY <1>1, <2>2, <2>4
    <3>2. CASE Paid(s)
      BY <1>1, <2>3, <2>4, <3>1, <3>2 DEF OneSeatMoves, SameRow, Gone, Paid
    <3>3. CASE ~Paid(s)
      <4>1. enrollment[s] = "PENDING_PAYMENT"
        BY <1>1, <1>2, <2>4, <3>3 DEF PaymentInv, ConfirmedIsPaid, Enrolled
      <4>2. StageOf(s) = "billed" /\ StageOf(s)' = "paid"
        BY <1>2, <2>3, <2>4, <3>1, <3>3, <4>1
        DEF StageOf, Gone, Invoiced, Paid, Enrolled
      <4> QED
        BY <1>1, <2>3, <2>4, <4>2 DEF OneSeatMoves, Successor, SameRow, Gone
    <3> QED
      BY <3>2, <3>3
  <2> QED
    BY <1>3, <2>3, <2>4
<1>5. CASE ConfirmEnrollment(p)
  <2>1. /\ UNCHANGED << child, invoice, document >>
        /\ \/ UNCHANGED enrollment
           \/ Enrolled(s) /\ enrollment' = [enrollment EXCEPT ![s] = "CONFIRMED"]
    BY <1>5 DEF ConfirmEnrollment
  <2>2. CASE Enrolled(s) /\ enrollment' = [enrollment EXCEPT ![s] = "CONFIRMED"]
    <3>1. CASE enrollment[s] = "CONFIRMED"
      <4>1. UNCHANGED enrollment
        BY <1>1, <2>2, <3>1
      <4> QED
        BY <1>3, <2>1, <4>1
    <3>2. CASE enrollment[s] = "PENDING_PAYMENT"
      <4>1. Invoiced(s) /\ Paid(s) /\ ~Gone(s)
        BY <1>1, <1>2, <1>5, <2>2 DEF ConfirmEnrollment, Paying, Linked, PayKnows,
           PaymentInv, PaySeen
      <4>2. document[s] = "none"
        BY <1>1, <1>2, <3>2, <4>1 DEF Staged
      <4>3. enrollment'[s] = "CONFIRMED"
        BY <1>1, <2>2
      <4>4. StageOf(s) = "paid" /\ StageOf(s)' = "confirmed"
        BY <2>1, <3>2, <4>1, <4>2, <4>3 DEF StageOf, Gone, Invoiced, Paid
      <4> QED
        BY <1>1, <2>1, <2>2, <4>4 DEF OneSeatMoves, Successor, SameRow, Gone
    <3> QED
      BY <1>2, <2>2, <3>1, <3>2 DEF Enrolled
  <2> QED
    BY <1>3, <2>1, <2>2
<1>6. CASE StoreDocument(p)
  <2>1. /\ UNCHANGED << child, enrollment, invoice >>
        /\ document' = [document EXCEPT ![s] = IF Invoiced(s) THEN "linked" ELSE @]
        /\ pay[p].pc = "store"
    BY <1>6 DEF StoreDocument, Paying
  <2>2. CASE ~Invoiced(s) \/ document[s] = "linked"
    <3>1. UNCHANGED document
      BY <1>1, <2>1, <2>2
    <3> QED
      BY <1>3, <2>1, <3>1
  <2>3. CASE Invoiced(s) /\ document[s] # "linked"
    <3>1. Paid(s) /\ ~Gone(s) /\ Settled(s)
      BY <1>1, <1>2, <2>1, <2>3 DEF PaymentInv, PaySeen, SettledInv, PaySettled, Paying
    <3>2. enrollment[s] = "CONFIRMED" /\ document[s] = "none"
      BY <1>1, <1>2, <2>3, <3>1 DEF Settled, Staged
    <3>3. document'[s] = "linked"
      BY <1>1, <2>1, <2>3
    <3>4. StageOf(s) = "confirmed" /\ StageOf(s)' = "settled"
      BY <2>1, <2>3, <3>1, <3>2, <3>3 DEF StageOf, Gone, Invoiced, Paid
    <3> QED
      BY <1>1, <2>1, <3>4 DEF OneSeatMoves, Successor, SameRow, Gone
  <2> QED
    BY <2>2, <2>3
<1> QED
  BY <1>3, <1>4, <1>5, <1>6
  DEF PayStep, ReadEnrollment, LingoPay, WritePdf, dataVars

LEMMA LazyStage ==
  ASSUME IInv, NEW s \in Seats, LazyInvoice(s)
  PROVE  OneSeatMoves(s)
<1> DEFINE fee == activity[s[2]].fee
           row == [status |-> "UNPAID", amount |-> fee, lingo_id |-> 0]
<1>1. row.status = "UNPAID"
  OBVIOUS
<1>2. /\ UNCHANGED << child, enrollment, document >> /\ Enrolled(s) /\ ~Invoiced(s)
      /\ invoice' = [invoice EXCEPT ![s] = row]
  BY DEF LazyInvoice
<1> HIDE DEF row
<1>3. invoice'[s].status = "UNPAID" /\ ~Gone(s)
  BY <1>1, <1>2 DEF IInv, TypeOK, DataTypeOK, Linked, RowsLinked, Gone
<1>4. StageOf(s) = "enrolled" /\ StageOf(s)' = "billed"
  BY <1>2, <1>3 DEF StageOf, Gone, Invoiced, Paid, Enrolled
<1> QED
  BY <1>2, <1>4
  DEF OneSeatMoves, Successor, SameRow, Gone, IInv, TypeOK, DataTypeOK

\* Every step of the portal is a step of the lifecycle, or none.
LEMMA LifecycleNext ==
  ASSUME LifecycleSettings, IInv, Staged, [Next]_vars, Stage = StageMap,
         (Stage = StageMap)'
  PROVE  [Lifecycle!Next]_Stage
<1> USE DEF IInv, TypeOK, DataTypeOK
<1>1. ASSUME \A e \in Seats : SameRow(e)
      PROVE  UNCHANGED Stage
  <2>1. \A e \in Seats : StageOf(e)' = StageOf(e)
    BY <1>1, SameStage
  <2> QED
    BY <2>1 DEF StageMap
<1>2. ASSUME NEW s \in Seats, OneSeatMoves(s)
      PROVE  [Lifecycle!Next]_Stage
  <2>1. \A e \in Seats \ {s} : StageOf(e)' = StageOf(e)
    BY <1>2, SameStage DEF OneSeatMoves
  <2>2. CASE SameRow(s)
    BY <1>1, <1>2, <2>2 DEF OneSeatMoves
  <2>3. CASE Successor(StageOf(s), StageOf(s)')
    <3> DEFINE to == StageOf(s)'
    <3>1. Stage[s] = StageOf(s)
      BY DEF StageMap
    <3>2. Stage' = [e \in Seats |-> StageOf(e)']
      BY DEF StageMap
    <3>3. Stage = [e \in Seats |-> StageOf(e)]
      BY DEF StageMap
    <3>4. Stage' = [Stage EXCEPT ![s] = to]
      BY <2>1, <3>2, <3>3
    <3> HIDE DEF to
    <3>5. Successor(Stage[s], to)
      BY <2>3, <3>1 DEF to
    <3> QED
      BY <3>4, <3>5 DEF Successor, Lifecycle!Next, Lifecycle!Advance
  <2> QED
    BY <1>2, <2>2, <2>3 DEF OneSeatMoves
<1>3. ASSUME NEW c \in Children, DeleteChild(c)
      PROVE  Lifecycle!Next
  <2> DEFINE removed == {e \in Seats : e[1] = c}
  <2>1. ASSUME NEW e \in Seats \ removed
        PROVE  SameRow(e)
    BY <1>3, <2>1 DEF DeleteChild, SameRow, Gone, Seats
  <2>2. ASSUME NEW e \in removed
        PROVE  StageOf(e)' = "gone"
    BY <1>3, <2>2 DEF DeleteChild, StageOf, Gone, Seats
  <2>3. \A e \in Seats \ removed : StageOf(e)' = StageOf(e)
    BY <2>1, SameStage
  <2>4. Stage' = [e \in Seats |-> StageOf(e)'] /\ Stage = [e \in Seats |-> StageOf(e)]
    BY DEF StageMap
  <2>5. Stage' = [e \in Seats |-> IF e \in removed THEN "gone" ELSE Stage[e]]
    BY <2>2, <2>3, <2>4
  <2> QED
    BY <2>5 DEF Lifecycle!Next, Lifecycle!Remove
<1>4. ASSUME NEW c \in Children, AddChild(c)
      PROVE  \A e \in Seats : SameRow(e)
  BY <1>4 DEF AddChild, SameRow, Gone, Seats
<1>5. ASSUME UNCHANGED << child, enrollment, invoice, document >>
      PROVE  \A e \in Seats : SameRow(e)
  BY <1>5 DEF SameRow, Gone
<1>6. ASSUME NEW t \in EnrollThreads, EnrollStep(t)
      PROVE  \E s \in Seats : OneSeatMoves(s)
  <2>1. enroll[t].seat \in Seats
    BY <1>6, SeatOfEnroll DEF EnrollStep, CheckCapacity, WcsCreate,
       CreateEnrollment, LingoCreate, CreateInvoice, SaveInvoice,
       ConfirmOnSave, Working
  <2> PICK s \in Seats : s = enroll[t].seat
    BY <2>1
  <2>2. OneSeatMoves(s)
    BY <1>6, EnrollStage
  <2> QED
    BY <2>2
<1>7. ASSUME NEW p \in PayThreads, PayStep(p)
      PROVE  \E s \in Seats : OneSeatMoves(s)
  <2>1. pay[p].seat \in Seats
    BY <1>7, SeatOfPay DEF PayStep, ReadEnrollment, LingoPay, MarkPaid,
       ConfirmEnrollment, WritePdf, StoreDocument, Paying
  <2> PICK s \in Seats : s = pay[p].seat
    BY <2>1
  <2>2. OneSeatMoves(s)
    BY <1>7, PayStage
  <2> QED
    BY <2>2
<1>8. \/ UNCHANGED << child, enrollment, invoice, document >>
      \/ \E c \in Children : AddChild(c) \/ DeleteChild(c)
      \/ \E s \in Seats : LazyInvoice(s)
      \/ \E t \in EnrollThreads : EnrollStep(t)
      \/ \E p \in PayThreads : PayStep(p)
  BY DEF LifecycleSettings, Next, vars, FamilyNext, CatalogueNext,
     VerifyIdentity, SetFee, SetActive, EnrollNext, EnrollRequest, AbortEnroll,
     PayNext, PayRequest, AbortPay, dataVars
<1>9. ASSUME NEW s \in Seats, LazyInvoice(s)
      PROVE  OneSeatMoves(s)
  BY <1>9, LazyStage
<1> QED
  BY <1>1, <1>2, <1>3, <1>4, <1>5, <1>6, <1>7, <1>8, <1>9

LEMMA LifecycleInit == Init => Lifecycle!Init
  BY DEF Init, DataInit, Lifecycle!Init, Stage, Enrolled, Invoiced, NoInvoice, Seats

\* The portal implements the lifecycle of an enrollment, one stage at a time
\* and never back, for any number of threads, parents and activities, with
\* crashes and lost answers (activities/views.py:135-218, billing/views.py:32-118).
THEOREM LifecycleImplemented ==
  ASSUME LifecycleSettings
  PROVE  Spec => ImplementsLifecycle
<1>1. Init => Staged
  BY InitStaged
<1>2. IInv /\ Staged /\ [Next]_vars => Staged'
  BY NextStaged
<1>3. IInv /\ Staged => Stage = StageMap
  BY StageIsMapped
<1>4. IInv /\ Staged /\ [Next]_vars /\ Stage = StageMap /\ (Stage = StageMap)'
        => [Lifecycle!Next]_Stage
  BY LifecycleNext
<1> QED
  BY <1>1, <1>2, <1>3, <1>4, LifecycleInit, EveryThreadKnows, PTL
  DEF Spec, ImplementsLifecycle, Lifecycle!Spec
=============================================================================
