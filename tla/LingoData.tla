------------------------------ MODULE LingoData ------------------------------
(***************************************************************************)
(* The rows that Lingo's baskets and online payments share, for one payer  *)
(* in one regie, and the requests that work on them.  Every statement      *)
(* commits on its own: there is no transaction around a request.  The      *)
(* amounts an invoice and a credit carry are kept by triggers, so they are *)
(* the sums of the payments and assignments on record.                     *)
(***************************************************************************)
EXTENDS Integers

CONSTANTS MaxBaskets, MaxInvoices, MaxTransactions,  \* bounds on the rows made
          Price,       \* of a line of a basket, and of an invoice made alone
          MaxDraft,    \* bound on what the lines of a basket cost together
          MaxCredits,  \* bound on the credits made, of one unit each
          MayAbort,    \* whether requests are killed
          Requests,    \* server processes
          None

ASSUME LingoAssumption ==
    /\ MaxBaskets \in Nat /\ MaxInvoices \in Nat /\ MaxTransactions \in Nat
    /\ Price \in Nat \ {0} /\ MaxDraft \in Nat
    /\ MaxCredits \in Nat /\ MayAbort \in BOOLEAN
    /\ None \notin Nat

VARIABLES basket,       \* the rows Basket
          draft,        \* the total of each basket's DraftInvoice
          invoice,      \* the rows Invoice, with what is assigned to them
          credit,       \* what is left of the payer's usable credits
          made,         \* how many credits were made
          transaction,  \* the rows Transaction
          bank,         \* what the payment service knows of each transaction
          request,      \* what each process is doing
          polled,       \* the answer that poll_payment_backends got for a transaction
          recorded,     \* history: the transactions whose payment was recorded
          lost          \* history: the transactions whose payment a killed request
                        \* was about to record

billing == << basket, draft, invoice, credit, made >>
online == << transaction, bank, polled, recorded, lost >>
vars == << basket, draft, invoice, credit, made, transaction, bank, polled,
           recorded, lost, request >>

Baskets == 1..MaxBaskets
Invoices == 1..MaxInvoices
Transactions == 1..MaxTransactions

Active == {"open", "tobepaid"}
Running == {"started", "received"}

NoBasket == [status |-> "none", invoice |-> None]
NoInvoice == [status |-> "none", total |-> 0, paid |-> 0, pledged |-> 0, spent |-> 0]
NoTransaction == [status |-> "none", invoice |-> None, amount |-> 0]

Idle == [pc |-> "idle", basket |-> None, row |-> NoBasket, invoice |-> None,
         amount |-> 0, limit |-> 0, transaction |-> None, answer |-> "none",
         todo |-> [i \in Invoices |-> 0]]

Init ==
    /\ basket = [b \in Baskets |-> NoBasket]
    /\ draft = [b \in Baskets |-> 0]
    /\ invoice = [i \in Invoices |-> NoInvoice]
    /\ credit = 0
    /\ made = 0
    /\ transaction = [t \in Transactions |-> NoTransaction]
    /\ bank = [t \in Transactions |-> "none"]
    /\ polled = None
    /\ recorded = {}
    /\ lost = {}
    /\ request = [r \in Requests |-> Idle]
-----------------------------------------------------------------------------
Least(a, b) == IF a =< b THEN a ELSE b

Remaining(i) == invoice[i].total - invoice[i].paid

Assigned(i) == invoice[i].pledged + invoice[i].spent

\* make_payment pays the lines of an invoice and never more than is left of them.
PaidBy(row, amount) == [row EXCEPT !.paid = Least(row.total, row.paid + amount)]

\* A credit assigned without a payment is pledged, with its payment it is spent.
Pledge(row, amount) == [row EXCEPT !.pledged = @ + amount]

Spend(row, amount) == [PaidBy(row, amount) EXCEPT !.spent = @ + amount]

\* make_payments_with_credits, amount being the sum of the assignments it read.
PaidWithCredits(row, amount) ==
    IF amount = 0 THEN row
    ELSE [PaidBy(row, amount) EXCEPT !.spent = row.pledged + row.spent, !.pledged = 0]

Cancelled(row) == [row EXCEPT !.status = "cancelled"]

\* Mutant: the assignments that have a payment are kept.
RevertedPledged(row) == [row EXCEPT !.pledged = 0]

\* revert_assignments deletes the assignments, those with a payment too.
Reverted(row) == [row EXCEPT !.pledged = 0, !.spent = 0]

InvoicesOf(statuses) == {i \in Invoices : invoice[i].status \in statuses}

HasBasket(i) == \E b \in Baskets : basket[b].invoice = i

\* Rows are numbered in the order of their creation.
NextBasket(b) ==
    basket[b].status = "none" /\ \A a \in Baskets : a < b => basket[a].status # "none"

NextInvoice(i) ==
    invoice[i].status = "none" /\ \A j \in Invoices : j < i => invoice[j].status # "none"

NextTransaction(t) ==
    /\ transaction[t].status = "none"
    /\ \A u \in Transactions : u < t => transaction[u].status # "none"

At(r, pc) == request[r].pc = pc

Become(r, state) == request' = [request EXCEPT ![r] = state]

GoTo(r, pc) == Become(r, [request[r] EXCEPT !.pc = pc])

Return(r) == Become(r, Idle)
=============================================================================
