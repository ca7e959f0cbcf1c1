------------------------------ MODULE Payments ------------------------------
(***************************************************************************)
(* pay_invoice (billing/views.py:32-118), the billing gateways' mark_paid  *)
(* and the post_save signal it triggers, and the invoice that reading      *)
(* Enrollment.invoice creates.  pay[p] is the local state of thread p: the *)
(* Invoice and Enrollment instances it holds are snapshots of the rows.    *)
(***************************************************************************)
EXTENDS PortalData

CONSTANTS
    PayThreads,
    LingoStatuses,   \* the statuses Lingo answers a payment with
    PdfMayFail       \* may writing the file fail?

ASSUME LingoAssumption == LingoStatuses \subseteq {"PAID", "UNPAID", "OTHER"}
ASSUME PdfAssumption == PdfMayFail \in BOOLEAN

VARIABLE pay

PaySteps == {"idle", "owner", "lingo", "mark", "confirm", "pdf", "store"}

PayStates ==
    [pc : PaySteps,
     seat : Seats \cup {NoSeat},
     amount : Nat,               \* invoice.amount
     lingo_id : Nat,             \* invoice.lingo_id
     confirmed : BOOLEAN,        \* invoice.enrollment.status
     status : InvoiceStatuses \ {"absent"}]   \* the status to save

PayTypeOK ==
    /\ pay \in [PayThreads -> PayStates]
    /\ \A p \in PayThreads : pay[p].pc = "idle" <=> pay[p].seat = NoSeat

NoPay == [pc |-> "idle", seat |-> NoSeat, amount |-> 0, lingo_id |-> 0,
          confirmed |-> FALSE, status |-> "PAID"]

PayInit == pay = [p \in PayThreads |-> NoPay]

PayGoTo(p, pc) == pay' = [pay EXCEPT ![p].pc = pc]
EndPay(p) == pay' = [pay EXCEPT ![p] = NoPay]
Paying(p, pc) == pay[p].pc = pc

\* Lines 56 and 68: the invoice exists and the copy read is not PAID.
PayRequest(p, u, e) ==
    /\ Paying(p, "idle")
    /\ lingo[e].paid < MaxRemote
    /\ Invoiced(e)
    /\ ~Paid(e)
    /\ ParentOf[e[1]] = u
    /\ pay' = [pay EXCEPT ![p] =
                 [NoPay EXCEPT !.pc = "owner", !.seat = e,
                               !.amount = invoice[e].amount,
                               !.lingo_id = invoice[e].lingo_id]]
    /\ UNCHANGED dataVars

\* Mutants: the enrollment is confirmed, or the file written, first.
ConfirmFirst(p) == "confirm"
DocumentFirst(p) == "pdf"
FirstPayStep(p) ==
    IF BillingBackend = "local" THEN "mark"
    ELSE IF pay[p].lingo_id = 0 THEN "idle" ELSE "lingo"

\* Line 59 loads the enrollment, whose status stays cached for the rest of
\* the request.  With Lingo an invoice without lingo_id is a PaymentError.
ReadEnrollment(p) ==
    LET e == pay[p].seat IN
    /\ Paying(p, "owner")
    /\ IF ~Enrolled(e) \/ FirstPayStep(p) = "idle"
         THEN EndPay(p)
         ELSE pay' = [pay EXCEPT
                ![p] = [@ EXCEPT !.pc = FirstPayStep(p),
                                 !.confirmed = (enrollment[e] = "CONFIRMED")]]
    /\ UNCHANGED dataVars

\* PaymentError, caught by the view.
\* Mutant: swallowed by the gateway, which marks the invoice all the same.
SwallowedPaymentError(p) == PayGoTo(p, "mark")
PaymentError(p) == EndPay(p)

\* LingoGateway.mark_paid: the payment is refused, made with the answer lost
\* (PaymentError either way), or made and answered with some status.
LingoPay(p) ==
    LET e == pay[p].seat IN
    /\ Paying(p, "lingo")
    /\ \/ PaymentError(p) /\ UNCHANGED lingo
       \/ PaymentError(p) /\ lingo' = [lingo EXCEPT ![e].paid = @ + 1]
       \/ \E s \in LingoStatuses :
            /\ lingo' = [lingo EXCEPT ![e].paid = @ + 1]
            /\ pay' = [pay EXCEPT ![p] = [@ EXCEPT !.pc = "mark",
                                                  !.status = s]]
    /\ UNCHANGED << child, activity, verified, enrollment, wcs_id, wcs,
                    invoice, document, pdf >>

\* invoice.save(update_fields=["status", "paid_on"]); DatabaseError, not
\* caught by the view, when the row is gone.
MarkPaid(p) ==
    LET e == pay[p].seat IN
    /\ Paying(p, "mark")
    /\ IF ~Invoiced(e)
         THEN EndPay(p) /\ UNCHANGED invoice
         ELSE /\ invoice' = [invoice EXCEPT ![e].status = pay[p].status]
              /\ PayGoTo(p, "confirm")
    /\ UNCHANGED << child, activity, verified, enrollment, wcs_id, wcs, lingo,
                    document, pdf >>

\* Mutant: neither the signal nor the gateway confirms.
NoConfirmation(p) ==
    Paying(p, "confirm") /\ PayGoTo(p, "pdf") /\ UNCHANGED dataVars

\* The post_save signal confirms the enrollment when the status saved is
\* PAID, and the gateway then confirms it whatever the status; both go by the
\* cached enrollment, so together they write at most once.
ConfirmEnrollment(p) ==
    LET e == pay[p].seat IN
    /\ Paying(p, "confirm")
    /\ IF pay[p].confirmed
         THEN PayGoTo(p, "pdf") /\ UNCHANGED enrollment
         ELSE IF ~Enrolled(e)
           THEN EndPay(p) /\ UNCHANGED enrollment
           ELSE /\ enrollment' = [enrollment EXCEPT ![e] = "CONFIRMED"]
                /\ PayGoTo(p, "pdf")
    /\ UNCHANGED << child, activity, verified, wcs_id, wcs, invoice, lingo,
                    document, pdf >>

\* generate_invoice_pdf prints what the instance holds, which may be older
\* than the row; of all that is printed only the amount ever changes.
Printed(p) == pay[p].amount

\* Lines 80-90: the file is written over an earlier one, from the instance.
WritePdf(p) ==
    LET e == pay[p].seat IN
    /\ Paying(p, "pdf")
    /\ \/ /\ pdf' = [pdf EXCEPT ![e] = Printed(p)]
          /\ PayGoTo(p, "store")
       \/ PdfMayFail /\ EndPay(p) /\ UNCHANGED pdf
    /\ UNCHANGED << child, activity, verified, enrollment, wcs_id, wcs,
                    invoice, lingo, document >>

\* Mutant: the document is stored without its invoice.
StoreUnlinked(p) ==
    LET e == pay[p].seat IN
    /\ Paying(p, "store")
    /\ EndPay(p)
    /\ document' = [document EXCEPT ![e] = "unlinked"]
    /\ UNCHANGED << child, activity, verified, enrollment, wcs_id, wcs,
                    invoice, lingo, pdf >>

\* Lines 93-106: an IntegrityError if the invoice is gone or already has its
\* document, else a document linked to it.
StoreDocument(p) ==
    LET e == pay[p].seat IN
    /\ Paying(p, "store")
    /\ EndPay(p)
    /\ document' = [document EXCEPT ![e] = IF Invoiced(e) THEN "linked" ELSE @]
    /\ UNCHANGED << child, activity, verified, enrollment, wcs_id, wcs,
                    invoice, lingo, pdf >>

AbortPay(p) ==
    /\ MayAbort
    /\ ~Paying(p, "idle")
    /\ EndPay(p)
    /\ UNCHANGED dataVars

\* The enrollment list page reads Enrollment.invoice, a property that creates
\* the row with the activity's present fee and no lingo_id.
LazyInvoice(e) ==
    /\ Enrolled(e)
    /\ ~Invoiced(e)
    /\ invoice' = [invoice EXCEPT
                     ![e] = [status |-> "UNPAID",
                             amount |-> activity[e[2]].fee, lingo_id |-> 0]]
    /\ UNCHANGED << child, activity, verified, enrollment, wcs_id, wcs, lingo,
                    document, pdf >>

PayStep(p) ==
    \/ ReadEnrollment(p) \/ LingoPay(p) \/ MarkPaid(p)
    \/ ConfirmEnrollment(p) \/ WritePdf(p) \/ StoreDocument(p)

PayNext ==
    \E p \in PayThreads :
        \/ \E u \in Parents, e \in Seats : PayRequest(p, u, e)
        \/ PayStep(p)
        \/ AbortPay(p)
=============================================================================
