----------------------------- MODULE PortalData -----------------------------
(***************************************************************************)
(* The rows the portal keeps in its SQLite database, the files it writes   *)
(* and what its two remote services hold.  Every other module of the       *)
(* project extends this one and says how one part of the portal moves      *)
(* these rows.                                                             *)
(*                                                                         *)
(* An enrollment is unique for its child and activity                      *)
(* (activities/models.py:142) and only disappears with its child, whose    *)
(* key is never given again; the pair, a seat, therefore names the         *)
(* enrollment, its invoice (one to one), the invoice's document and the    *)
(* file invoices/invoice_<pk>.pdf.                                         *)
(***************************************************************************)
EXTENDS Integers, FiniteSets

CONSTANTS
    Parents,            \* the users of the portal
    Staff,              \* those with is_staff or is_superuser
    Children,           \* children that may be registered
    ParentOf,           \* the parent of each child
    Activities,         \* the activities of the catalogue
    Capacity,           \* Activity.capacity, or NoLimit
    Fees,               \* the fees an activity may have
    EnrollmentBackend,  \* the setting ENROLLMENT_BACKEND
    BillingBackend,     \* the setting BILLING_BACKEND
    StaffStatuses,      \* the statuses staff give enrollments in the admin
    MayAbort,           \* may a worker die in the middle of a request?
    MaxRemote           \* bound: no new request on a seat that has cost this
                        \* many remote calls of the kind that can repeat

NoLimit == -1
NoPdf == -1
NoSeat == << >>

Seats == Children \X Activities

ASSUME ParentsAssumption ==
    Staff \subseteq Parents /\ ParentOf \in [Children -> Parents]

ASSUME SeatsAssumption == IsFiniteSet(Children) /\ IsFiniteSet(Activities)

ASSUME FeesAssumption == Fees \subseteq Nat

ASSUME CapacityAssumption == Capacity \in [Activities -> Nat \cup {NoLimit}]

ASSUME BackendsAssumption ==
    /\ EnrollmentBackend \in {"local", "wcs"}
    /\ BillingBackend \in {"local", "lingo"}

\* Staff cancel and re-open enrollments; that they never type CONFIRMED
\* themselves is what makes "confirmed" say something about payment.
ASSUME StaffAssumption ==
    StaffStatuses \subseteq {"PENDING_PAYMENT", "CANCELLED"}

ASSUME BoundsAssumption == MayAbort \in BOOLEAN /\ MaxRemote \in Nat

VARIABLES
    child,       \* the Child row: not yet created, present or deleted
    activity,    \* the fee and is_active columns of the Activity row
    verified,    \* UserProfile.id_verified
    enrollment,  \* the status column of the Enrollment row, or "absent"
    wcs_id,      \* its wcs_id column, 0 for NULL
    wcs,         \* how many enrollments WCS has registered for the seat
    invoice,     \* the Invoice row
    lingo,       \* what Lingo has done for the seat: invoices, payments
    document,    \* the Document row of the invoice
    pdf          \* the amount printed in the invoice's file

dataVars == << child, activity, verified, enrollment, wcs_id, wcs, invoice,
               lingo, document, pdf >>
-----------------------------------------------------------------------------
EnrollmentStatuses == {"absent", "PENDING_PAYMENT", "CONFIRMED", "CANCELLED"}

\* Lingo's answer is stored as it comes: "OTHER" is any status but PAID.
InvoiceStatuses == {"absent", "UNPAID", "PAID", "OTHER"}

NoInvoice == [status |-> "absent", amount |-> 0, lingo_id |-> 0]

DataTypeOK ==
    /\ child \in [Children -> {"absent", "present", "deleted"}]
    /\ activity \in [Activities -> [fee : Fees, is_active : BOOLEAN]]
    /\ verified \in [Parents -> BOOLEAN]
    /\ enrollment \in [Seats -> EnrollmentStatuses]
    /\ wcs_id \in [Seats -> Nat]
    /\ wcs \in [Seats -> Nat]
    /\ invoice \in [Seats -> [status : InvoiceStatuses, amount : Nat,
                              lingo_id : Nat]]
    /\ lingo \in [Seats -> [created : Nat, paid : Nat]]
    /\ document \in [Seats -> {"none", "linked", "unlinked"}]
    /\ pdf \in [Seats -> Nat \cup {NoPdf}]

\* A migrated database with a catalogue, no child and nobody verified.
DataInit ==
    /\ child = [c \in Children |-> "absent"]
    /\ activity \in [Activities -> [fee : Fees, is_active : {TRUE}]]
    /\ verified = [u \in Parents |-> FALSE]
    /\ enrollment = [e \in Seats |-> "absent"]
    /\ wcs_id = [e \in Seats |-> 0]
    /\ wcs = [e \in Seats |-> 0]
    /\ invoice = [e \in Seats |-> NoInvoice]
    /\ lingo = [e \in Seats |-> [created |-> 0, paid |-> 0]]
    /\ document = [e \in Seats |-> "none"]
    /\ pdf = [e \in Seats |-> NoPdf]
-----------------------------------------------------------------------------
Enrolled(e) == enrollment[e] # "absent"
Invoiced(e) == invoice[e].status # "absent"
Paid(e) == invoice[e].status = "PAID"

\* Enrollment.objects.filter(activity=a): cancelled ones count.
Enrollments(a) == {e \in Seats : e[2] = a /\ Enrolled(e)}
HasLimit(a) == Capacity[a] # NoLimit
=============================================================================
