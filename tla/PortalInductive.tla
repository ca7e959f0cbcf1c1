-------------------------- MODULE PortalInductive ---------------------------
(***************************************************************************)
(* The inductive invariant behind the safety properties of Portal.  The    *)
(* properties speak of rows only; what makes them hold is what every       *)
(* thread knows, at each of its steps, about a row it read earlier.        *)
(***************************************************************************)
EXTENDS Portal

\* The child of the seat is gone for good, and with it every row of the seat.
Gone(e) == child[e[1]] = "deleted"

\* An enrollment needs its child and an invoice needs its enrollment.
RowsLinked ==
    \A e \in Seats :
        /\ Enrolled(e) => child[e[1]] = "present"
        /\ Invoiced(e) => Enrolled(e)

Created == {"lingo", "bill", "save", "confirm"}

\* What an enroll thread knows of its seat: after the insert the enrollment is
\* there, and from "save" on the invoice is, unless the child was deleted.
EnrollKnows(t) ==
    LET e == enroll[t].seat IN
    /\ enroll[t].pc \in Created => Enrolled(e) \/ Gone(e)
    /\ enroll[t].pc \in {"save", "confirm"} => Invoiced(e) \/ Gone(e)
    /\ enroll[t].pc = "confirm" => enroll[t].paid
    /\ enroll[t].paid => enroll[t].pc \in {"save", "confirm"}

\* What a pay thread knows: its invoice exists unless the child was deleted.
PayKnows(p) ==
    pay[p].pc # "idle" => Invoiced(pay[p].seat) \/ Gone(pay[p].seat)

Linked ==
    /\ RowsLinked
    /\ \A t \in EnrollThreads : EnrollKnows(t)
    /\ \A p \in PayThreads : PayKnows(p)
-----------------------------------------------------------------------------
\* A successful payment is always answered with PAID: the local gateway's is.
OnlyPaid == BillingBackend = "local" \/ LingoStatuses \subseteq {"PAID"}

\* A pay thread past "mark" still finds its invoice PAID.
PaySeen(p) ==
    /\ pay[p].status = "PAID"
    /\ pay[p].pc = "lingo" => BillingBackend = "lingo"
    /\ (pay[p].pc \in {"confirm", "pdf", "store"} /\ Invoiced(pay[p].seat))
          => Paid(pay[p].seat)

\* An enroll thread that read a PAID invoice still finds it PAID.
EnrollSeen(t) ==
    (enroll[t].paid /\ Invoiced(enroll[t].seat)) => Paid(enroll[t].seat)

PaymentInv ==
    /\ \A p \in PayThreads : PaySeen(p)
    /\ \A t \in EnrollThreads : EnrollSeen(t)
    /\ ConfirmedIsPaid
-----------------------------------------------------------------------------
\* At most one thread has created the enrollment of a seat, and it is billed
\* to Lingo by that thread or not at all.
OneCreator ==
    /\ \A t, s \in EnrollThreads :
        (/\ enroll[t].pc \in Created /\ enroll[s].pc \in Created
         /\ enroll[t].seat = enroll[s].seat) => t = s
    /\ \A t \in EnrollThreads :
        enroll[t].pc = "lingo" => lingo[enroll[t].seat].created = 0
    /\ \A e \in Seats :
        lingo[e].created > 0 => Enrolled(e) \/ Gone(e)

BillingInv == OneCreator /\ BilledOnceAtLingo
-----------------------------------------------------------------------------
\* The threads that have found a place in the activity and not yet taken it.
PastCount(a) ==
    {t \in EnrollThreads : /\ enroll[t].pc \in {"wcs", "create"}
                           /\ enroll[t].seat[2] = a}

PlacesInv ==
    \A a \in Activities :
        HasLimit(a) =>
            Cardinality(Enrollments(a)) + Cardinality(PastCount(a))
                =< Capacity[a] + Cardinality(EnrollThreads) - 1
-----------------------------------------------------------------------------
\* A request is only started, and an enrollment only made, for a child whose
\* parent has passed the identity check by then.
Entitled(e) == ParentOf[e[1]] \in Staff \/ verified[ParentOf[e[1]]]

VerifiedInv ==
    /\ \A t \in EnrollThreads : ~Working(t, "idle") => Entitled(enroll[t].seat)
    /\ EnrolledIsVerified
-----------------------------------------------------------------------------
\* The identifier that a thread brings back is one its service has given, and
\* Lingo has taken the payment that a thread is about to record.
WcsKnows(t) == Working(t, "create") => enroll[t].remote_id \in 1..wcs[enroll[t].seat]

LingoKnows(t) ==
    (Working(t, "bill") \/ Working(t, "save"))
        => LingoIdOf(t) =< lingo[enroll[t].seat].created

TakenAtLingo(p) ==
    pay[p].pc \in {"mark", "confirm", "pdf", "store"} => lingo[pay[p].seat].paid > 0

\* The thread read a PAID invoice.
ReadTakenAtLingo(t) == enroll[t].paid => lingo[enroll[t].seat].paid > 0

WcsInv == EnrolledIsAtWcs /\ \A t \in EnrollThreads : WcsKnows(t)

LedgerInv ==
    /\ PaidIsPaidAtLingo
    /\ \A t \in EnrollThreads : LingoKnows(t) /\ ReadTakenAtLingo(t)
    /\ \A p \in PayThreads : TakenAtLingo(p)
-----------------------------------------------------------------------------
\* The invoice that a thread pays still has the identifier it read, and one that
\* a thread has yet to give its identifier has none.
PaySees(p) ==
    /\ ~Paying(p, "idle") /\ pay[p].lingo_id # 0 /\ Invoiced(pay[p].seat)
          => invoice[pay[p].seat].lingo_id = pay[p].lingo_id
    /\ pay[p].pc \notin {"idle", "owner"} => pay[p].lingo_id # 0

YetToMirror(t) ==
    enroll[t].pc \in {"lingo", "bill", "save"} /\ Invoiced(enroll[t].seat)
        => invoice[enroll[t].seat].lingo_id = 0

MirrorInv ==
    /\ PaysMirroredInvoice
    /\ \A p \in PayThreads : PaySees(p)
    /\ \A t \in EnrollThreads : YetToMirror(t)
-----------------------------------------------------------------------------
\* Nothing goes wrong: no crash, no failing disk, no remote billing, and staff
\* leave the statuses alone.
Uneventful ==
    /\ ~MayAbort /\ ~PdfMayFail
    /\ StaffStatuses = {} /\ BillingBackend = "local"

\* A thread that has read a confirmed enrollment still finds it confirmed.
ReadConfirmed(p) ==
    ~Paying(p, "idle") /\ pay[p].confirmed =>
        enrollment[pay[p].seat] = "CONFIRMED" \/ Gone(pay[p].seat)

ForgottenInv ==
    /\ NothingForgotten
    /\ \A p \in PayThreads : ReadConfirmed(p)
-----------------------------------------------------------------------------
\* An enrollment that a payment has settled never waits for payment again,
\* provided staff do not put it back.
OnlyCancelled == "PENDING_PAYMENT" \notin StaffStatuses

Settled(e) == Gone(e) \/ enrollment[e] \in {"CONFIRMED", "CANCELLED"}

\* What a pay thread knows of the enrollment and of the file it writes.
PaySettled(p) ==
    ~Paying(p, "idle") =>
        /\ (pay[p].confirmed \/ Paying(p, "pdf") \/ Paying(p, "store"))
              => Settled(pay[p].seat)
        /\ Paying(p, "store") => pdf[pay[p].seat] # NoPdf

SettledInv ==
    /\ DocumentIsSettled
    /\ \A e \in Seats : document[e] = "linked" => Settled(e)
    /\ \A p \in PayThreads : PaySettled(p)
-----------------------------------------------------------------------------
\* The whole strengthening, each part under the settings it needs.
IInv ==
    /\ TypeOK
    /\ Linked
    /\ OnlyPaid => PaymentInv
    /\ BillingInv
    /\ PlacesInv
    /\ VerifiedInv
    /\ EnrollmentBackend = "wcs" => WcsInv
    /\ BillingBackend = "lingo" => LedgerInv /\ MirrorInv
    /\ Uneventful => ForgottenInv
    /\ OnlyPaid /\ OnlyCancelled => SettledInv
=============================================================================
