-------------------------------- MODULE Lingo --------------------------------
(***************************************************************************)
(* Baskets and online payments together, with requests that are killed     *)
(* between two statements.                                                 *)
(***************************************************************************)
EXTENDS LingoBasket, LingoEpayment, FiniteSets

(* A worker is killed, after 120 seconds or with the server.               *)
Abort(r) ==
    /\ MayAbort
    /\ ~At(r, "idle")
    /\ lost' = IF At(r, "record") THEN lost \cup {request[r].transaction} ELSE lost
    /\ Return(r)
    /\ UNCHANGED << billing, transaction, bank, polled, recorded >>

\* What a request does once it has begun.
Step(r) ==
    \/ CreateBasket(r) \/ BillLine(r) \/ KeepBasket(r) \/ LinesFromBookings(r)
    \/ Promote(r) \/ RefreshInvoice(r) \/ AssignCredits(r) \/ CoverInvoice(r)
    \/ SettleBasket(r) \/ SaveBasket(r)
    \/ CancelBasket(r) \/ CancelInvoice(r) \/ RevertAssignments(r)
    \/ \E i \in Invoices : SpreadCredit(r, i)
    \/ StartPayment(r) \/ Pay(r)
    \/ SaveStatus(r) \/ RecordPayment(r) \/ SignalPaid(r) \/ SumCredits(r)
    \/ PayCredits(r) \/ Complete(r)
    \/ SignalReopen(r) \/ SaveOpen(r) \/ Detach(r)

Begin(r) ==
    \/ CheckBasket(r) \/ CloseDraftInvoice(r) \/ MakeCredit(r)
    \/ \E b \in Baskets : LoadForLine(r, b) \/ ValidateBasket(r, b) \/ LoadForCancel(r, b)
    \/ \E i \in Invoices : PayInvoice(r, i)
    \/ \E t \in Transactions :
        CheckStatus(r, t) \/ \E answer \in Messages(t) : HandleMessage(r, t, answer)

Next ==
    \/ \E r \in Requests : Begin(r) \/ Step(r) \/ Abort(r)
    \/ \E b \in Baskets : ExpireBasket(b)
    \/ \E t \in Transactions : BankAnswers(t) \/ PollAsk(t)
    \/ PollHandle

Spec == Init /\ [][Next]_vars
-----------------------------------------------------------------------------
(* The rows and the requests.                                              *)
BasketRows == [status : {"none", "open", "tobepaid", "completed", "cancelled", "expired"},
               invoice : Invoices \cup {None}]

InvoiceRows == [status : {"none", "due", "cancelled"},
                total : Nat, paid : Nat, pledged : Nat, spent : Nat]

TransactionRows == [status : {"none", "started", "received", "paid", "denied"},
                    invoice : Invoices \cup {None}, amount : Nat]

Answers == {"received", "paid", "denied"}

RequestStates ==
    [pc : {"idle", "createbasket", "bill", "keep", "promote", "refresh", "assign",
           "cover", "settle", "save", "cancel", "cancelinvoice", "revert", "spread",
           "start", "pay", "status", "record", "signal", "sum", "credits",
           "complete", "reopen", "saveopen", "detach"},
     basket : Baskets \cup {None}, row : BasketRows,
     invoice : Invoices \cup {None}, transaction : Transactions \cup {None},
     amount : Nat, limit : Nat, answer : Answers \cup {"none"},
     todo : [Invoices -> Nat]]

LingoTypeOK ==
    /\ basket \in [Baskets -> BasketRows]
    /\ draft \in [Baskets -> Nat]
    /\ invoice \in [Invoices -> InvoiceRows]
    /\ credit \in Nat
    /\ made \in 0..MaxCredits
    /\ transaction \in [Transactions -> TransactionRows]
    /\ bank \in [Transactions -> {"none", "waiting", "paid", "denied"}]
    /\ request \in [Requests -> RequestStates]
    /\ polled \in {None} \cup [transaction : Transactions, answer : Answers]
    /\ recorded \in SUBSET Transactions
    /\ lost \in SUBSET Transactions

\* A basket is completed only when payments and the credits assigned to it
\* cover its invoice, unless that invoice was cancelled (SettleBasket, Complete).
CompletedIsCovered ==
    \A b \in Baskets :
        LET i == basket[b].invoice
        IN  basket[b].status = "completed" /\ i # None /\ invoice[i].status # "cancelled"
            => invoice[i].paid + invoice[i].pledged >= invoice[i].total

\* The credits in use: so many units of them on each invoice.
Units(assigned) == UNION {{i} \X (1..assigned[i]) : i \in Invoices}

InUse == Units([i \in Invoices |-> Assigned(i)])

\* A credit is granted once and never lost: what is left and what is in use add up
\* to what was made, although two requests read the same credits before either
\* assigns them, and an expiry, a refused payment and a cancellation may all give
\* the credits of one invoice back (invoicing/models/invoice.py:479-547,
\* basket/models.py:146-147).
CreditsAddUp == credit >= 0 /\ credit + Cardinality(InUse) = made

\* Only money that the payment service took is recorded as an online payment.
RecordedIsPaid == \A t \in recorded : bank[t] = "paid"

\* Money that the payment service took is never forgotten: it is recorded, or a
\* request is about to record it or was killed there, or the transaction still
\* has a status that poll_payment_backends asks about.  The status is saved before
\* the payment is recorded, late messages overwrite it, and nothing asks again
\* about a transaction that is no longer running.
PaidIsFollowed ==
    \A t \in Transactions : bank[t] = "paid" =>
        \/ t \in recorded \cup lost
        \/ \E r \in Requests : At(r, "record") /\ request[r].transaction = t
        \/ transaction[t].status \in {"started", "received"}
=============================================================================
