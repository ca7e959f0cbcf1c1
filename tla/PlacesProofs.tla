---------------------------- MODULE PlacesProofs -----------------------------
(***************************************************************************)
(* How far concurrent requests can overbook an activity: by one place for  *)
(* each thread that counts while another is still to insert, and no more.  *)
(***************************************************************************)
EXTENDS PortalTypeProofs, FiniteSetTheorems

PlacesOK(a) ==
    Cardinality(Enrollments(a)) + Cardinality(PastCount(a))
        =< Capacity[a] + Cardinality(EnrollThreads) - 1

LEMMA FiniteThreads ==
  ASSUME NEW T \in SUBSET EnrollThreads
  PROVE  /\ IsFiniteSet(T)
         /\ Cardinality(T) \in Nat
         /\ Cardinality(EnrollThreads) \in Nat
         /\ Cardinality(T) =< Cardinality(EnrollThreads)
  BY EnrollThreadsAssumption, FS_Subset, FS_CardinalityType

LEMMA FiniteSeats ==
  ASSUME NEW S \in SUBSET Seats
  PROVE  IsFiniteSet(S) /\ Cardinality(S) \in Nat
<1>1. IsFiniteSet(Seats)
  BY SeatsAssumption, FS_Product DEF Seats
<1> QED
  BY <1>1, FS_Subset, FS_CardinalityType

LEMMA SomeThread == Cardinality(EnrollThreads) >= 1
<1>1. Cardinality(EnrollThreads) \in Nat /\ Cardinality(EnrollThreads) # 0
  BY EnrollThreadsAssumption, FS_CardinalityType, FS_EmptySet
<1> QED
  BY <1>1

\* The sums, for the three ways a step can change the two sets.
LEMMA FewerPlaces ==
  ASSUME NEW E \in SUBSET Seats, NEW F \in SUBSET E,
         NEW T \in SUBSET EnrollThreads, NEW U \in SUBSET T, NEW n \in Int,
         Cardinality(E) + Cardinality(T) =< n
  PROVE  Cardinality(F) + Cardinality(U) =< n
<1>1. /\ IsFiniteSet(E) /\ Cardinality(E) \in Nat /\ Cardinality(F) \in Nat
      /\ IsFiniteSet(T) /\ Cardinality(T) \in Nat /\ Cardinality(U) \in Nat
  BY FiniteSeats, FiniteThreads
<1>2. Cardinality(F) =< Cardinality(E) /\ Cardinality(U) =< Cardinality(T)
  BY <1>1, FS_Subset
<1> QED
  BY <1>1, <1>2

LEMMA PlaceFound ==
  ASSUME NEW E \in SUBSET Seats, NEW U \in SUBSET EnrollThreads,
         NEW n \in Nat, Cardinality(E) < n
  PROVE  Cardinality(E) + Cardinality(U) =< n + Cardinality(EnrollThreads) - 1
  BY FiniteSeats, FiniteThreads

LEMMA PlaceTaken ==
  ASSUME NEW E \in SUBSET Seats, NEW e \in Seats, NEW F \in SUBSET (E \cup {e}),
         NEW T \in SUBSET EnrollThreads, NEW t \in T, NEW U \in SUBSET (T \ {t}),
         NEW n \in Int, Cardinality(E) + Cardinality(T) =< n
  PROVE  Cardinality(F) + Cardinality(U) =< n
<1>1. /\ IsFiniteSet(E) /\ Cardinality(E) \in Nat
      /\ IsFiniteSet(T) /\ Cardinality(T) \in Nat
      /\ Cardinality(F) \in Nat /\ Cardinality(U) \in Nat
  BY FiniteSeats, FiniteThreads
<1>2. /\ IsFiniteSet(E \cup {e})
      /\ Cardinality(E \cup {e}) \in Nat
      /\ Cardinality(E \cup {e}) =< Cardinality(E) + 1
  <2>1. /\ IsFiniteSet(E \cup {e})
        /\ Cardinality(E \cup {e}) =
              IF e \in E THEN Cardinality(E) ELSE Cardinality(E) + 1
    BY <1>1, FS_AddElement
  <2> QED
    BY <1>1, <2>1
<1>3. /\ IsFiniteSet(T \ {t})
      /\ Cardinality(T \ {t}) = Cardinality(T) - 1
  BY <1>1, FS_RemoveElement
<1>4. Cardinality(F) =< Cardinality(E \cup {e})
  BY <1>2, FS_Subset
<1>5. Cardinality(U) =< Cardinality(T \ {t})
  BY <1>3, FS_Subset
<1> QED
  BY <1>1, <1>2, <1>3, <1>4, <1>5

-----------------------------------------------------------------------------
\* Neither set of an activity grows.
NoMorePlaces(a) ==
    /\ Enrollments(a)' \subseteq Enrollments(a)
    /\ PastCount(a)' \subseteq PastCount(a)

LEMMA PeoplePlaces ==
  ASSUME DataTypeOK, PeopleNext, UNCHANGED enroll, NEW a \in Activities
  PROVE  NoMorePlaces(a)
<1> USE DEF NoMorePlaces, Enrollments, PastCount, Enrolled
<1>1. UNCHANGED enrollment => NoMorePlaces(a)
  OBVIOUS
<1>2. ASSUME NEW c \in Children, DeleteChild(c)
      PROVE  NoMorePlaces(a)
  BY <1>2 DEF DeleteChild
<1>3. ASSUME NEW e \in Seats, NEW s \in StaffStatuses, StaffSetStatus(e, s)
      PROVE  NoMorePlaces(a)
  BY <1>3 DEF StaffSetStatus, DataTypeOK
<1> QED
  BY <1>1, <1>2, <1>3 DEF PeopleNext, FamilyNext, CatalogueNext, AddChild,
     VerifyIdentity, SetFee, SetActive, LazyInvoice

LEMMA PayPlaces ==
  ASSUME DataTypeOK, PayNext, UNCHANGED enroll, NEW a \in Activities
  PROVE  NoMorePlaces(a)
<1> USE DEF NoMorePlaces, Enrollments, PastCount, Enrolled
<1>1. UNCHANGED enrollment => NoMorePlaces(a)
  OBVIOUS
<1>2. ASSUME NEW p \in PayThreads, ConfirmEnrollment(p)
      PROVE  NoMorePlaces(a)
  BY <1>2 DEF ConfirmEnrollment, DataTypeOK
<1> QED
  BY <1>1, <1>2 DEF PayNext, PayRequest, AbortPay, PayStep, ReadEnrollment,
     LingoPay, MarkPaid, WritePdf, StoreDocument, dataVars

\* A thread that moves on without entering "wcs" or "create" counts for less.
LEMMA LeavesCount ==
  ASSUME EnrollTypeOK, NEW t \in EnrollThreads, NEW r,
         enroll' = [enroll EXCEPT ![t] = r],
         r.pc \notin {"wcs", "create"}, NEW a \in Activities
  PROVE  PastCount(a)' \subseteq PastCount(a) \ {t}
  BY DEF PastCount, EnrollTypeOK

LEMMA EndsCount ==
  ASSUME EnrollTypeOK, NEW t \in EnrollThreads, EndEnroll(t),
         NEW a \in Activities
  PROVE  PastCount(a)' \subseteq PastCount(a) \ {t}
  BY LeavesCount DEF EndEnroll, NoEnroll

LEMMA GoesPast ==
  ASSUME EnrollTypeOK, NEW t \in EnrollThreads, NEW pc, GoTo(t, pc),
         pc \notin {"wcs", "create"}, NEW a \in Activities
  PROVE  PastCount(a)' \subseteq PastCount(a) \ {t}
<1> DEFINE r == [enroll[t] EXCEPT !.pc = pc]
<1>1. r.pc = pc
  BY DEF EnrollTypeOK, EnrollStates
<1>2. enroll' = [enroll EXCEPT ![t] = r]
  BY DEF GoTo
<1> HIDE DEF r
<1> QED
  BY <1>1, <1>2, LeavesCount

-----------------------------------------------------------------------------
\* A place is found: the threads past the count may be any.
FindsPlace(a) ==
    /\ HasLimit(a) => Cardinality(Enrollments(a)) < Capacity[a]
    /\ Enrollments(a)' = Enrollments(a)

\* A place is taken by one of the threads past the count.
TakesPlace(a) ==
    \E t \in PastCount(a), e \in Seats :
        /\ Enrollments(a)' \subseteq Enrollments(a) \cup {e}
        /\ PastCount(a)' \subseteq PastCount(a) \ {t}

LEMMA EnrollPlaces ==
  ASSUME TypeOK, EnrollNext, NEW a \in Activities
  PROVE  NoMorePlaces(a) \/ FindsPlace(a) \/ TakesPlace(a)
<1> USE DEF TypeOK
<1>1. UNCHANGED enrollment => Enrollments(a)' = Enrollments(a)
  BY DEF Enrollments, Enrolled
<1>2. ASSUME NEW t \in EnrollThreads, NEW u \in Parents, NEW c \in Children,
             NEW b \in Activities, EnrollRequest(t, u, c, b)
      PROVE  NoMorePlaces(a)
  <2> DEFINE r == [NoEnroll EXCEPT !.pc = "count", !.seat = <<c, b>>,
                                   !.fee = activity[b].fee]
  <2>1. r.pc = "count"
    BY DEF NoEnroll
  <2>2. enroll' = [enroll EXCEPT ![t] = r] /\ UNCHANGED enrollment
    BY <1>2 DEF EnrollRequest, dataVars
  <2> HIDE DEF r
  <2> QED
    BY <1>1, <2>1, <2>2, LeavesCount DEF NoMorePlaces
<1>3. ASSUME NEW t \in EnrollThreads, AbortEnroll(t)
      PROVE  NoMorePlaces(a)
  BY <1>1, <1>3, EndsCount DEF AbortEnroll, dataVars, NoMorePlaces
<1>4. ASSUME NEW t \in EnrollThreads, CheckCapacity(t)
      PROVE  NoMorePlaces(a) \/ FindsPlace(a)
  <2> DEFINE b == enroll[t].seat[2]
             to == IF EnrollmentBackend = "wcs" THEN "wcs" ELSE "create"
  <2>0. UNCHANGED enrollment
    BY <1>4 DEF CheckCapacity, dataVars
  <2>1. CASE EndEnroll(t)
    BY <1>1, <2>0, <2>1, EndsCount DEF NoMorePlaces
  <2>2. CASE PlaceLeft(b) /\ GoTo(t, to) /\ a = b
    BY <1>1, <2>0, <2>2 DEF FindsPlace, PlaceLeft
  <2>3. CASE PlaceLeft(b) /\ GoTo(t, to) /\ a # b
    <3>1. /\ \A s \in EnrollThreads \ {t} : enroll'[s] = enroll[s]
          /\ enroll'[t].seat = enroll[t].seat
      BY <2>3 DEF GoTo, EnrollTypeOK, EnrollStates
    <3>2. PastCount(a)' \subseteq PastCount(a)
      BY <2>3, <3>1 DEF PastCount
    <3> QED
      BY <1>1, <2>0, <3>2 DEF NoMorePlaces
  <2> QED
    BY <1>4, <2>1, <2>2, <2>3 DEF CheckCapacity, EnrollmentGateway
<1>5. ASSUME NEW t \in EnrollThreads, WcsCreate(t)
      PROVE  NoMorePlaces(a)
  <2>0. UNCHANGED enrollment /\ enroll[t].pc = "wcs"
    BY <1>5 DEF WcsCreate, Working
  <2>1. /\ \A s \in EnrollThreads \ {t} : enroll'[s] = enroll[s]
        /\ enroll'[t].seat = enroll[t].seat \/ enroll'[t].pc = "idle"
    <3> DEFINE e == enroll[t].seat
               r == [enroll[t] EXCEPT !.pc = "create", !.remote_id = wcs[e] + 1]
    <3>1. r.seat = enroll[t].seat
      BY DEF EnrollTypeOK, EnrollStates
    <3>2. EndEnroll(t) \/ enroll' = [enroll EXCEPT ![t] = r]
      BY <1>5 DEF WcsCreate, EnrollmentError
    <3> HIDE DEF r
    <3> QED
      BY <3>1, <3>2 DEF EndEnroll, NoEnroll, EnrollTypeOK
  <2>2. PastCount(a)' \subseteq PastCount(a)
    BY <2>0, <2>1 DEF PastCount
  <2> QED
    BY <1>1, <2>0, <2>2 DEF NoMorePlaces
<1>6. ASSUME NEW t \in EnrollThreads, CreateEnrollment(t)
      PROVE  NoMorePlaces(a) \/ TakesPlace(a)
  <2> DEFINE e == enroll[t].seat
  <2>0. enroll[t].pc = "create" /\ e \in Seats
    BY <1>6, SeatOfEnroll DEF CreateEnrollment, Working
  <2>1. PastCount(a)' \subseteq PastCount(a) \ {t}
    BY <1>6, EndsCount, GoesPast DEF CreateEnrollment, AfterCreate, BillingGateway
  <2>2. /\ Enrollments(a)' \subseteq Enrollments(a) \cup {e}
        /\ e[2] # a => Enrollments(a)' \subseteq Enrollments(a)
    BY <1>6 DEF CreateEnrollment, Enrollments, Enrolled, DataTypeOK
  <2>3. e[2] = a => t \in PastCount(a)
    BY <2>0 DEF PastCount
  <2> QED
    BY <2>0, <2>1, <2>2, <2>3 DEF NoMorePlaces, TakesPlace
<1>7. ASSUME NEW t \in EnrollThreads, LingoCreate(t)
      PROVE  NoMorePlaces(a)
  <2> DEFINE e == enroll[t].seat
             r == [enroll[t] EXCEPT !.pc = "bill",
                                    !.remote_id = lingo[e].created + 1]
  <2>1. r.pc = "bill"
    BY DEF EnrollTypeOK, EnrollStates
  <2>2. /\ EndEnroll(t) \/ enroll' = [enroll EXCEPT ![t] = r]
        /\ UNCHANGED enrollment
    BY <1>7 DEF LingoCreate
  <2> HIDE DEF r
  <2> QED
    BY <1>1, <2>1, <2>2, LeavesCount, EndsCount DEF NoMorePlaces
<1>8. ASSUME NEW t \in EnrollThreads, CreateInvoice(t)
      PROVE  NoMorePlaces(a)
  <2> DEFINE e == enroll[t].seat
             r == [enroll[t] EXCEPT !.pc = "save", !.paid = Paid(e)]
  <2>1. r.pc = "save"
    BY DEF EnrollTypeOK, EnrollStates
  <2>2. /\ EndEnroll(t) \/ enroll' = [enroll EXCEPT ![t] = r]
        /\ UNCHANGED enrollment
    BY <1>8 DEF CreateInvoice
  <2> HIDE DEF r
  <2> QED
    BY <1>1, <2>1, <2>2, LeavesCount, EndsCount DEF NoMorePlaces
<1>9. ASSUME NEW t \in EnrollThreads, SaveInvoice(t)
      PROVE  NoMorePlaces(a)
  BY <1>1, <1>9, EndsCount, GoesPast DEF SaveInvoice, NoMorePlaces
<1>10. ASSUME NEW t \in EnrollThreads, ConfirmOnSave(t)
       PROVE  NoMorePlaces(a)
  <2>1. Enrollments(a)' \subseteq Enrollments(a)
    BY <1>10 DEF ConfirmOnSave, Enrollments, Enrolled, DataTypeOK
  <2> QED
    BY <1>10, <2>1, EndsCount DEF ConfirmOnSave, NoMorePlaces
<1> QED
  BY <1>2, <1>3, <1>4, <1>5, <1>6, <1>7, <1>8, <1>9, <1>10
     DEF EnrollNext, EnrollStep

LEMMA NextPlacesInv ==
  ASSUME TypeOK, PlacesInv, [Next]_vars
  PROVE  PlacesInv'
<1> SUFFICES ASSUME NEW a \in Activities, HasLimit(a)
             PROVE  PlacesOK(a)'
  BY DEF PlacesInv, PlacesOK, HasLimit
<1> DEFINE n == Capacity[a] + Cardinality(EnrollThreads) - 1
<1>1. Capacity[a] \in Nat /\ n \in Int
  BY CapacityAssumption, FiniteThreads DEF HasLimit
<1>2. /\ Enrollments(a) \in SUBSET Seats
      /\ Enrollments(a)' \in SUBSET Seats
      /\ PastCount(a) \in SUBSET EnrollThreads
      /\ PastCount(a)' \in SUBSET EnrollThreads
  BY DEF Enrollments, PastCount
<1>3. Cardinality(Enrollments(a)) + Cardinality(PastCount(a)) =< n
  BY DEF PlacesInv
<1> HIDE DEF n
<1>4. CASE NoMorePlaces(a)
  <2>1. Cardinality(Enrollments(a)') + Cardinality(PastCount(a)') =< n
    BY <1>1, <1>2, <1>3, <1>4, FewerPlaces DEF NoMorePlaces
  <2> QED
    BY <2>1 DEF PlacesOK, n
<1>5. CASE FindsPlace(a)
  <2>1. Cardinality(Enrollments(a)') + Cardinality(PastCount(a)') =< n
    BY <1>1, <1>2, <1>5, PlaceFound DEF FindsPlace, n
  <2> QED
    BY <2>1 DEF PlacesOK, n
<1>6. CASE TakesPlace(a)
  <2>1. Cardinality(Enrollments(a)') + Cardinality(PastCount(a)') =< n
    BY <1>1, <1>2, <1>3, <1>6, PlaceTaken DEF TakesPlace
  <2> QED
    BY <2>1 DEF PlacesOK, n
<1>7. CASE UNCHANGED vars
  BY <1>4, <1>7 DEF NoMorePlaces, vars, dataVars, Enrollments, Enrolled,
     PastCount
<1> QED
  BY <1>4, <1>5, <1>6, <1>7, PeoplePlaces, PayPlaces, EnrollPlaces
     DEF Next, PeopleNext, TypeOK

LEMMA InitPlacesInv ==
  ASSUME Init
  PROVE  PlacesInv
<1> SUFFICES ASSUME NEW a \in Activities, HasLimit(a)
             PROVE  PlacesOK(a)
  BY DEF PlacesInv, PlacesOK
<1>1. Enrollments(a) = {} /\ PastCount(a) = {}
  BY DEF Init, DataInit, EnrollInit, Enrollments, Enrolled, PastCount, NoEnroll
<1>2. Capacity[a] \in Nat /\ Cardinality(EnrollThreads) \in Nat
  BY CapacityAssumption, FiniteThreads DEF HasLimit
<1> QED
  BY <1>1, <1>2, SomeThread, FS_EmptySet DEF PlacesOK

\* An activity is overbooked by at most one place less than there are threads
\* to enroll on, for every capacity and every number of threads
\* (activities/views.py:181-196).
THEOREM OverbookingIsBounded == Spec => []OverbookingBounded
<1>1. PlacesInv => OverbookingBounded
  <2> SUFFICES ASSUME PlacesInv, NEW a \in Activities, HasLimit(a)
               PROVE  Cardinality(Enrollments(a))
                        =< Capacity[a] + Cardinality(EnrollThreads) - 1
    BY DEF OverbookingBounded
  <2>1. /\ Cardinality(Enrollments(a)) \in Nat
        /\ Cardinality(PastCount(a)) \in Nat
        /\ Cardinality(EnrollThreads) \in Nat /\ Capacity[a] \in Nat
    BY FiniteSeats, FiniteThreads, CapacityAssumption
       DEF Enrollments, PastCount, HasLimit
  <2> QED
    BY <2>1 DEF PlacesInv
<1>2. TypeOK /\ PlacesInv /\ [Next]_vars => PlacesInv'
  BY NextPlacesInv
<1> QED
  BY <1>1, <1>2, InitPlacesInv, TypeCorrect, PTL DEF Spec

\* A server that handles one enroll request at a time never overbooks: the
\* count and the insert are right, only not together.
THEOREM OneThreadRespectsCapacity ==
  ASSUME Cardinality(EnrollThreads) = 1
  PROVE  Spec => []CapacityRespected
<1>1. OverbookingBounded => CapacityRespected
  BY CapacityAssumption DEF OverbookingBounded, CapacityRespected, HasLimit
<1> QED
  BY <1>1, OverbookingIsBounded, PTL
=============================================================================
