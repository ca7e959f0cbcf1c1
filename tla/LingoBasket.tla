----------------------------- MODULE LingoBasket -----------------------------
(***************************************************************************)
(* The baskets of one payer: made and filled by other systems through the  *)
(* API, validated, cancelled and left to expire by the payer.  A request   *)
(* holds the basket as it read it and saves the whole row.                 *)
(***************************************************************************)
EXTENDS LingoData

\* A page finds the payer's basket with get_object_or_404, which fails when
\* there are two, and refuses a basket without closed lines.
OnlyBasket(b, statuses) ==
    /\ {a \in Baskets : basket[a].status \in statuses} = {b}
    /\ draft[b] > 0
-----------------------------------------------------------------------------
(* BasketsView: the check, then the creation.                              *)
CheckBasket(r) ==
    /\ At(r, "idle")
    /\ \A b \in Baskets : basket[b].status \notin Active
    /\ Become(r, [Idle EXCEPT !.pc = "createbasket"])
    /\ UNCHANGED << billing, online >>

CreateBasket(r) ==
    /\ At(r, "createbasket")
    /\ \E b \in Baskets :
        /\ NextBasket(b)
        /\ basket' = [basket EXCEPT ![b].status = "open"]
    /\ Return(r)
    /\ UNCHANGED << draft, invoice, credit, made, online >>
-----------------------------------------------------------------------------
(* A closed line: its price goes to the draft, and the row that was read   *)
(* is saved with a new date of expiry.  LinesFromBookings does both in one *)
(* transaction, BasketLineClose in two.                                    *)
LoadForLine(r, b) ==
    /\ At(r, "idle")
    /\ basket[b].status = "open"
    /\ draft[b] + Price =< MaxDraft
    /\ Become(r, [Idle EXCEPT !.pc = "bill", !.basket = b, !.row = basket[b]])
    /\ UNCHANGED << billing, online >>

BillLine(r) ==
    /\ At(r, "bill")
    /\ draft[request[r].basket] + Price =< MaxDraft
    /\ draft' = [draft EXCEPT ![request[r].basket] = @ + Price]
    /\ GoTo(r, "keep")
    /\ UNCHANGED << basket, invoice, credit, made, online >>

KeepBasket(r) ==
    /\ At(r, "keep")
    /\ basket' = [basket EXCEPT ![request[r].basket] = request[r].row]
    /\ Return(r)
    /\ UNCHANGED << draft, invoice, credit, made, online >>

LinesFromBookings(r) ==
    /\ At(r, "bill")
    /\ draft[request[r].basket] + Price =< MaxDraft
    /\ draft' = [draft EXCEPT ![request[r].basket] = @ + Price]
    /\ basket' = [basket EXCEPT ![request[r].basket] = request[r].row]
    /\ Return(r)
    /\ UNCHANGED << invoice, credit, made, online >>
-----------------------------------------------------------------------------
(* BasketValidateView, and the closing of a draft invoice that belongs to  *)
(* no basket, which takes the same way with payments.                      *)
ValidateBasket(r, b) ==
    /\ At(r, "idle")
    /\ OnlyBasket(b, {"open"})
    /\ Become(r, [Idle EXCEPT !.pc = "promote", !.basket = b, !.row = basket[b]])
    /\ UNCHANGED << billing, online >>

CloseDraftInvoice(r) ==
    /\ At(r, "idle")
    /\ Become(r, [Idle EXCEPT !.pc = "promote"])
    /\ UNCHANGED << billing, online >>

\* The invoice counts from the moment its lines are inserted.
Promote(r) ==
    /\ At(r, "promote")
    /\ \E i \in Invoices :
        LET b == request[r].basket
        IN  /\ NextInvoice(i)
            /\ invoice' = [invoice EXCEPT ![i] = [NoInvoice EXCEPT !.status = "due",
                               !.total = IF b = None THEN Price ELSE draft[b]]]
            /\ Become(r, [request[r] EXCEPT !.pc = "refresh", !.invoice = i])
    /\ UNCHANGED << basket, draft, credit, made, online >>

\* Invoice.make_assignments reads the credits and the amount to pay, ...
RefreshInvoice(r) ==
    /\ At(r, "refresh")
    /\ Become(r, [request[r] EXCEPT !.pc = "assign",
                       !.amount = Remaining(request[r].invoice),
                       !.limit = credit])
    /\ UNCHANGED << billing, online >>

\* ... then assigns with the credits locked; assign_credits compares the result
\* with the amount read before.
GrantedUnlocked(r) == Least(request[r].limit, request[r].amount)

Granted(r) == Least(credit, Least(request[r].limit, request[r].amount))

AssignCredits(r) ==
    LET i == request[r].invoice
        k == Granted(r)
    IN  /\ At(r, "assign")
        /\ credit' = credit - k
        /\ IF request[r].basket = None
           THEN /\ invoice' = [invoice EXCEPT ![i] = Spend(@, k)]
                /\ Return(r)
           ELSE /\ invoice' = [invoice EXCEPT ![i] = Pledge(@, k)]
                /\ Become(r, [request[r] EXCEPT !.pc = "cover", !.limit = 0])
        /\ UNCHANGED << basket, draft, made, online >>

CoverInvoice(r) ==
    LET i == request[r].invoice
    IN  /\ At(r, "cover")
        /\ invoice' = [invoice EXCEPT ![i] =
               IF Assigned(i) = request[r].amount
               THEN PaidWithCredits(@, Assigned(i))
               ELSE @]
        /\ Become(r, [request[r] EXCEPT !.pc = "settle", !.amount = 0])
        /\ UNCHANGED << basket, draft, credit, made, online >>

SettledByRemaining(i) == Assigned(i) >= Remaining(i)

Settled(i) == Assigned(i) = invoice[i].total

SettleBasket(r) ==
    LET i == request[r].invoice
    IN  /\ At(r, "settle")
        /\ Become(r, [request[r] EXCEPT !.pc = "save",
               !.row = [status |-> IF Settled(i) THEN "completed" ELSE "tobepaid",
                           invoice |-> i]])
        /\ UNCHANGED << billing, online >>

SaveBasket(r) ==
    /\ At(r, "save")
    /\ basket' = [basket EXCEPT ![request[r].basket] = request[r].row]
    /\ Become(r, [Idle EXCEPT !.pc = "start", !.invoice = request[r].invoice])
    /\ UNCHANGED << draft, invoice, credit, made, online >>
-----------------------------------------------------------------------------
(* BasketCancelView, and the end of signal_reopen: the invoice is          *)
(* cancelled before its credits are given back.                            *)
LoadForCancel(r, b) ==
    /\ At(r, "idle")
    /\ OnlyBasket(b, Active)
    /\ Become(r, [Idle EXCEPT !.pc = "cancel", !.basket = b, !.row = basket[b]])
    /\ UNCHANGED << billing, online >>

CancelBasket(r) ==
    LET row == request[r].row
    IN  /\ At(r, "cancel")
        /\ basket' = [basket EXCEPT ![request[r].basket] = [row EXCEPT !.status = "cancelled"]]
        /\ IF row.invoice = None THEN Return(r) ELSE GoTo(r, "cancelinvoice")
        /\ UNCHANGED << draft, invoice, credit, made, online >>

CancelInvoice(r) ==
    /\ At(r, "cancelinvoice")
    /\ invoice' = [invoice EXCEPT ![request[r].row.invoice] = Cancelled(@)]
    /\ GoTo(r, "revert")
    /\ UNCHANGED << basket, draft, credit, made, online >>

RevertAssignments(r) ==
    LET i == request[r].row.invoice
    IN  /\ At(r, "revert")
        /\ credit' = credit + Assigned(i)
        /\ invoice' = [invoice EXCEPT ![i] = Reverted(@)]
        /\ IF request[r].answer = "denied" THEN GoTo(r, "detach") ELSE Return(r)
        /\ UNCHANGED << basket, draft, made, online >>

\* expire_baskets locks the rows and does all in one transaction.
ExpireBasket(b) ==
    LET i == basket[b].invoice
    IN  /\ basket[b].status \in Active
        /\ basket' = [basket EXCEPT ![b].status = "expired"]
        /\ IF i = None
           THEN UNCHANGED << invoice, credit >>
           ELSE /\ invoice' = [invoice EXCEPT ![i] = Reverted(Cancelled(@))]
                /\ credit' = credit + Assigned(i)
        /\ UNCHANGED << draft, made, online, request >>
-----------------------------------------------------------------------------
(* A credit comes from elsewhere, and pays what it finds to pay.           *)
MakeCredit(r) ==
    LET payable == {i \in InvoicesOf({"due"}) : Remaining(i) > 0 /\ ~HasBasket(i)}
    IN  /\ At(r, "idle")
        /\ made < MaxCredits
        /\ made' = made + 1
        /\ credit' = credit + 1
        /\ IF payable = {}
           THEN UNCHANGED request
           ELSE Become(r, [Idle EXCEPT !.pc = "spread", !.limit = 1,
                    !.todo = [i \in Invoices |-> IF i \in payable THEN Remaining(i) ELSE 0]])
        /\ UNCHANGED << basket, draft, invoice, online >>

\* Credit.make_assignments goes on with the invoices as it read them.
SpreadCredit(r, i) ==
    LET todo == request[r].todo
        k == Least(credit, Least(request[r].limit, todo[i]))
        rest == [todo EXCEPT ![i] = 0]
    IN  /\ At(r, "spread")
        /\ todo[i] > 0 /\ \A j \in Invoices : j < i => todo[j] = 0
        /\ invoice' = [invoice EXCEPT ![i] = Spend(@, k)]
        /\ credit' = credit - k
        /\ IF request[r].limit = k \/ \A j \in Invoices : rest[j] = 0
           THEN Return(r)
           ELSE Become(r, [request[r] EXCEPT !.todo = rest, !.limit = @ - k])
        /\ UNCHANGED << basket, draft, made, online >>
=============================================================================
