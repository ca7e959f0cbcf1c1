---------------------------- MODULE LingoEpayment ----------------------------
(***************************************************************************)
(* Online payments: the start of a Transaction, the payment service, its   *)
(* answers (called back, brought by the payer's browser, asked for by the  *)
(* waiting page or by poll_payment_backends) and what handling one does to *)
(* the invoice and to its basket.                                          *)
(***************************************************************************)
EXTENDS LingoData

(* BasketValidateView goes on to pay what the credits leave of an invoice; *)
(* pay_invoice_view pays one that no basket holds.                         *)
StartPayment(r) ==
    LET i == request[r].invoice
        amount == invoice[i].total - Assigned(i)
    IN  /\ At(r, "start")
        /\ IF amount > 0
           THEN Become(r, [request[r] EXCEPT !.pc = "pay", !.amount = amount])
           ELSE Return(r)
        /\ UNCHANGED << billing, online >>

PayInvoice(r, i) ==
    /\ At(r, "idle")
    /\ invoice[i].status = "due" /\ Remaining(i) > 0 /\ ~HasBasket(i)
    /\ Become(r, [Idle EXCEPT !.pc = "pay", !.invoice = i, !.amount = Remaining(i)])
    /\ UNCHANGED << billing, online >>

\* The service may refuse the request; the row stays.
Pay(r) ==
    /\ At(r, "pay")
    /\ \E t \in Transactions :
        /\ NextTransaction(t)
        /\ transaction' = [transaction EXCEPT ![t] = [status |-> "started",
               invoice |-> request[r].invoice, amount |-> request[r].amount]]
        /\ \E known \in {"none", "waiting"} : bank' = [bank EXCEPT ![t] = known]
    /\ Return(r)
    /\ UNCHANGED << billing, polled, recorded, lost >>

BankAnswers(t) ==
    /\ bank[t] = "waiting"
    /\ \E end \in {"paid", "denied"} : bank' = [bank EXCEPT ![t] = end]
    /\ UNCHANGED << billing, transaction, polled, recorded, lost, request >>
-----------------------------------------------------------------------------
(* What the service answers when it is asked, and what a message of it may *)
(* still say when it arrives late.                                         *)
Current(t) == IF bank[t] = "waiting" THEN "received" ELSE bank[t]

Messages(t) == IF bank[t] = "none" THEN {} ELSE {"received", Current(t)}

\* handle_backend_response returns early when the row, as loaded, has the status.
Fresh(t, answer) == transaction[t].status # answer

HandleMessage(r, t, answer) ==
    /\ At(r, "idle")
    /\ transaction[t].status \in Running
    /\ answer \in Messages(t) /\ Fresh(t, answer)
    /\ Become(r, [Idle EXCEPT !.pc = "status", !.transaction = t,
                       !.invoice = transaction[t].invoice, !.answer = answer])
    /\ UNCHANGED << billing, online >>

CheckStatus(r, t) ==
    /\ At(r, "idle")
    /\ transaction[t].status # "none" /\ bank[t] # "none" /\ Fresh(t, Current(t))
    /\ Become(r, [Idle EXCEPT !.pc = "status", !.transaction = t,
                       !.invoice = transaction[t].invoice, !.answer = Current(t)])
    /\ UNCHANGED << billing, online >>

PaidOrReceived == {"paid", "received"}

PaidStatuses == {"paid"}

\* Mutant: what to do is decided from the status as it was before the answer.
SaveStatusAfterTest(r) ==
    LET answer == request[r].answer
        before == transaction[request[r].transaction].status
    IN  /\ At(r, "status")
        /\ transaction' = [transaction EXCEPT ![request[r].transaction].status = answer]
        /\ \/ before \in PaidStatuses /\ GoTo(r, "record")
           \/ before \in Running /\ Return(r)
           \/ before \notin PaidStatuses \cup Running /\ GoTo(r, "reopen")
        /\ UNCHANGED << billing, bank, polled, recorded, lost >>

SaveStatus(r) ==
    LET answer == request[r].answer
    IN  /\ At(r, "status")
        /\ transaction' = [transaction EXCEPT ![request[r].transaction].status = answer]
        /\ \/ answer \in PaidStatuses /\ GoTo(r, "record")
           \/ answer \in Running /\ Return(r)
           \/ answer \notin PaidStatuses \cup Running /\ GoTo(r, "reopen")
        /\ UNCHANGED << billing, bank, polled, recorded, lost >>
-----------------------------------------------------------------------------
(* Paid: make_payment, then Basket.signal_paid_invoice.                    *)
RecordPayment(r) ==
    LET t == request[r].transaction
    IN  /\ At(r, "record")
        /\ invoice' = [invoice EXCEPT ![request[r].invoice] =
                           PaidBy(@, transaction[t].amount)]
        /\ recorded' = recorded \cup {t}
        /\ GoTo(r, "signal")
        /\ UNCHANGED << basket, draft, credit, made, transaction, bank, polled, lost >>

BasketsOf(i) == {b \in Baskets : basket[b].invoice = i}

SignalPaid(r) ==
    LET found == BasketsOf(request[r].invoice)
    IN  /\ At(r, "signal")
        /\ IF found = {} THEN Return(r)
           ELSE \E b \in found : Become(r, [request[r] EXCEPT
                    !.pc = "sum", !.basket = b, !.row = basket[b]])
        /\ UNCHANGED << billing, online >>

SumCredits(r) ==
    /\ At(r, "sum")
    /\ Become(r, [request[r] EXCEPT !.pc = "credits",
                       !.amount = Assigned(request[r].invoice)])
    /\ UNCHANGED << billing, online >>

PayCredits(r) ==
    /\ At(r, "credits")
    /\ invoice' = [invoice EXCEPT ![request[r].invoice] =
                       PaidWithCredits(@, request[r].amount)]
    /\ GoTo(r, "complete")
    /\ UNCHANGED << basket, draft, credit, made, online >>

Complete(r) ==
    /\ At(r, "complete")
    /\ basket' = [basket EXCEPT ![request[r].basket] =
                      [request[r].row EXCEPT !.status = "completed"]]
    /\ Return(r)
    /\ UNCHANGED << draft, invoice, credit, made, online >>
-----------------------------------------------------------------------------
(* Denied: Basket.signal_reopen; CancelInvoice and RevertAssignments of    *)
(* LingoBasket come between SaveOpen and Detach.                           *)
SignalReopen(r) ==
    LET found == {b \in BasketsOf(request[r].invoice) : basket[b].status = "tobepaid"}
    IN  /\ At(r, "reopen")
        /\ IF found = {} THEN Return(r)
           ELSE \E b \in found : Become(r, [request[r] EXCEPT
                    !.pc = "saveopen", !.basket = b, !.row = basket[b]])
        /\ UNCHANGED << billing, online >>

SaveOpen(r) ==
    /\ At(r, "saveopen")
    /\ basket' = [basket EXCEPT ![request[r].basket] =
                      [request[r].row EXCEPT !.status = "open"]]
    /\ GoTo(r, "cancelinvoice")
    /\ UNCHANGED << draft, invoice, credit, made, online >>

Detach(r) ==
    /\ At(r, "detach")
    /\ basket' = [basket EXCEPT ![request[r].basket] =
                      [status |-> "open", invoice |-> None]]
    /\ Return(r)
    /\ UNCHANGED << draft, invoice, credit, made, online >>
-----------------------------------------------------------------------------
(* poll_payment_backends, one instance at a time: it asks, then handles    *)
(* the answer in one transaction.                                          *)
PollAsk(t) ==
    /\ polled = None
    /\ transaction[t].status \in Running
    /\ bank[t] # "none" /\ Fresh(t, Current(t))
    /\ polled' = [transaction |-> t, answer |-> Current(t)]
    /\ UNCHANGED << billing, transaction, bank, recorded, lost, request >>

PollPaid(i, amount) ==
    LET found == BasketsOf(i)
        row == PaidBy(invoice[i], amount)
    IN  /\ invoice' = [invoice EXCEPT ![i] =
               IF found = {} THEN row ELSE PaidWithCredits(row, Assigned(i))]
        /\ basket' = [b \in Baskets |-> IF b \in found
               THEN [basket[b] EXCEPT !.status = "completed"] ELSE basket[b]]
        /\ UNCHANGED credit

PollDenied(i) ==
    LET found == {b \in BasketsOf(i) : basket[b].status = "tobepaid"}
    IN  IF found = {} THEN UNCHANGED << basket, invoice, credit >>
        ELSE /\ basket' = [b \in Baskets |-> IF b \in found
                    THEN [status |-> "open", invoice |-> None] ELSE basket[b]]
             /\ invoice' = [invoice EXCEPT ![i] = Reverted(Cancelled(@))]
             /\ credit' = credit + Assigned(i)

PollHandle ==
    /\ polled # None
    /\ LET t == polled.transaction
           i == transaction[t].invoice
       IN  /\ transaction' = [transaction EXCEPT ![t].status = polled.answer]
           /\ \/ /\ polled.answer = "received"
                 /\ UNCHANGED << basket, invoice, credit, recorded >>
              \/ /\ polled.answer = "paid"
                 /\ PollPaid(i, transaction[t].amount)
                 /\ recorded' = recorded \cup {t}
              \/ /\ polled.answer = "denied"
                 /\ PollDenied(i)
                 /\ UNCHANGED recorded
    /\ polled' = None
    /\ UNCHANGED << draft, made, bank, lost, request >>
=============================================================================
