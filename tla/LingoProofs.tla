----------------------------- MODULE LingoProofs -----------------------------
(***************************************************************************)
(* For any numbers of rows, requests and credits: the types, and the       *)
(* safety invariants of Lingo.                                             *)
(***************************************************************************)
EXTENDS Lingo, FiniteSetTheorems, TLAPS

(* A row that is referred to exists.                                       *)
Known(i) == i = None \/ invoice[i].status # "none"

\* Payments, or credits on top of the payments that credits made, cover the rest.
Covers(i, amount) ==
    \/ invoice[i].status = "cancelled"
    \/ invoice[i].paid + invoice[i].pledged + amount >= invoice[i].total

TrueAnswer(t, answer) == answer = "received" \/ answer = bank[t]

(* What holds of a request in each state q of it.                          *)
Refers(q) ==
    /\ Known(q.invoice) /\ Known(q.row.invoice)
    /\ \A i \in Invoices : q.todo[i] > 0 => Known(i)

OnInvoice == {"refresh", "assign", "cover", "settle", "save", "start", "pay", "signal",
              "sum", "credits", "complete", "reopen", "record", "status"}
OnBasket == {"bill", "keep", "save", "sum", "credits", "complete", "saveopen",
             "cancel", "cancelinvoice", "revert", "detach"}
OnBoth == {"save", "sum", "credits", "complete"}

Holds(q) ==
    /\ q.pc \in OnInvoice => q.invoice # None
    /\ q.pc \in OnBasket => q.basket # None
    /\ q.pc \in OnBoth => q.row.invoice = q.invoice
    /\ q.pc \in {"bill", "keep"} => q.row.status = "open"
    /\ q.pc \in {"cancelinvoice", "revert", "saveopen"} => q.row.invoice # None
    /\ q.pc = "revert" => invoice[q.row.invoice].status = "cancelled"
    /\ q.pc \in {"cover", "settle", "save"} => q.basket # None

Honest(q) ==
    q.pc \in {"status", "record"} =>
        /\ q.transaction # None
        /\ transaction[q.transaction].status # "none"
        /\ q.invoice = transaction[q.transaction].invoice
        /\ q.answer # "none" /\ TrueAnswer(q.transaction, q.answer)
        /\ q.pc = "record" => q.answer = "paid"

Pays(q) ==
    /\ q.pc = "pay" => Covers(q.invoice, q.amount)
    /\ q.pc \in {"signal", "sum", "credits", "complete"} => Covers(q.invoice, 0)
    /\ q.pc = "save" /\ q.row.status = "completed" => Covers(q.invoice, 0)
    /\ q.pc = "credits" => q.amount >= invoice[q.invoice].pledged

Good(q) == Refers(q) /\ Holds(q) /\ Honest(q) /\ Pays(q)

(* Nobody else knows of an invoice whose credits are still being assigned. *)
MakingPcs == {"refresh", "assign", "cover", "settle"}

Private(i, r) ==
    /\ \A b \in Baskets : basket[b].invoice # i
    /\ \A s \in Requests \ {r} :
        /\ request[s].row.invoice # i
        /\ request[s].pc \in MakingPcs => request[s].invoice # i

(* What holds of the rows.                                                 *)
SoundRow(row) ==
    /\ row.paid =< row.total
    /\ row.paid >= row.spent \/ row.paid = row.total

InvoicesSound ==
    \A i \in Invoices :
        /\ SoundRow(invoice[i])
        /\ invoice[i].status = "none" => invoice[i] = NoInvoice

BasketsSound == \A b \in Baskets : Known(basket[b].invoice)

TransactionsSound ==
    \A t \in Transactions :
        /\ IF transaction[t].status = "none" THEN bank[t] = "none"
           ELSE /\ transaction[t].invoice # None
                /\ Known(transaction[t].invoice)
                /\ Covers(transaction[t].invoice, transaction[t].amount)
        /\ transaction[t].status \in {"paid", "denied"} => bank[t] = transaction[t].status

PollSound ==
    polled # None =>
        /\ transaction[polled.transaction].status # "none"
        /\ TrueAnswer(polled.transaction, polled.answer)

LingoInv ==
    /\ LingoTypeOK
    /\ InvoicesSound /\ BasketsSound /\ TransactionsSound /\ PollSound
    /\ \A r \in Requests : Good(request[r])
    /\ \A r \in Requests :
        request[r].pc \in MakingPcs => Private(request[r].invoice, r)
    /\ CompletedIsCovered /\ RecordedIsPaid /\ PaidIsFollowed
-----------------------------------------------------------------------------
USE LingoAssumption DEF Baskets, Invoices, Transactions

LEMMA IdleFacts == Idle \in RequestStates /\ Good(Idle) /\ (Good(Idle))'
BY DEF Idle, RequestStates, NoBasket, BasketRows, Good, Refers, Holds, Honest, Pays,
       Known, OnInvoice, OnBasket, OnBoth

Pcs == {"idle", "createbasket", "bill", "keep", "promote", "refresh", "assign",
        "cover", "settle", "save", "cancel", "cancelinvoice", "revert", "spread",
        "start", "pay", "status", "record", "signal", "sum", "credits",
        "complete", "reopen", "saveopen", "detach"}

LEMMA UpdatedFacts ==
  ASSUME NEW p \in RequestStates, NEW pc \in Pcs
  PROVE  /\ [p EXCEPT !.pc = pc] \in RequestStates
         /\ \A a \in Nat : [p EXCEPT !.pc = pc, !.amount = a] \in RequestStates
         /\ \A n \in Nat : [p EXCEPT !.pc = pc, !.limit = n] \in RequestStates
         /\ \A i \in Invoices : [p EXCEPT !.pc = pc, !.invoice = i] \in RequestStates
         /\ \A a, n \in Nat :
                [p EXCEPT !.pc = pc, !.amount = a, !.limit = n] \in RequestStates
         /\ \A row \in BasketRows : [p EXCEPT !.pc = pc, !.row = row] \in RequestStates
         /\ \A b \in Baskets, row \in BasketRows :
                [p EXCEPT !.pc = pc, !.basket = b, !.row = row] \in RequestStates
<1>1. [p EXCEPT !.pc = pc] \in RequestStates
  BY SMTT(30) DEF RequestStates, Pcs
<1>2. \A a \in Nat : [p EXCEPT !.pc = pc, !.amount = a] \in RequestStates
  BY DEF RequestStates, Pcs
<1>3. \A n \in Nat : [p EXCEPT !.pc = pc, !.limit = n] \in RequestStates
  BY DEF RequestStates, Pcs
<1>4. \A i \in Invoices : [p EXCEPT !.pc = pc, !.invoice = i] \in RequestStates
  BY DEF RequestStates, Pcs
<1>5. \A a, n \in Nat : [p EXCEPT !.pc = pc, !.amount = a, !.limit = n] \in RequestStates
  BY ZenonT(60) DEF RequestStates, Pcs
<1>6. \A row \in BasketRows : [p EXCEPT !.pc = pc, !.row = row] \in RequestStates
  BY DEF RequestStates, Pcs
<1>7. \A b \in Baskets, row \in BasketRows :
        [p EXCEPT !.pc = pc, !.basket = b, !.row = row] \in RequestStates
  BY ZenonT(60) DEF RequestStates, Pcs
<1> QED
  BY <1>1, <1>2, <1>3, <1>4, <1>5, <1>6, <1>7

LEMMA BecomeFacts ==
  ASSUME LingoTypeOK, NEW r \in Requests, NEW q \in RequestStates, Become(r, q)
  PROVE  /\ request' \in [Requests -> RequestStates]
         /\ request'[r] = q
         /\ \A s \in Requests \ {r} : request'[s] = request[s]
BY DEF LingoTypeOK, Become

LEMMA LingoInit == Init => LingoInv
<1> SUFFICES ASSUME Init PROVE LingoInv
  OBVIOUS
<1> USE DEF Init
<1>1. LingoTypeOK
  BY DEF LingoTypeOK, NoBasket, NoInvoice, NoTransaction, BasketRows, InvoiceRows,
         TransactionRows, Idle, RequestStates
<1>2. InvoicesSound /\ BasketsSound /\ TransactionsSound /\ PollSound
  BY DEF InvoicesSound, SoundRow, BasketsSound, TransactionsSound, PollSound, Known,
         NoInvoice, NoBasket, NoTransaction
<1>3. \A r \in Requests : Good(request[r]) /\ request[r].pc \notin MakingPcs
  BY DEF Idle, NoBasket, Good, Refers, Holds, Honest, Pays, Known, OnInvoice, OnBasket,
         OnBoth, MakingPcs
<1>4. CompletedIsCovered /\ RecordedIsPaid /\ PaidIsFollowed
  BY DEF CompletedIsCovered, RecordedIsPaid, PaidIsFollowed, NoBasket
<1> QED
  BY <1>1, <1>2, <1>3, <1>4 DEF LingoInv
-----------------------------------------------------------------------------
(* What a step may do to an invoice, and to a transaction.                 *)
Better(i, row) ==
    /\ row \in InvoiceRows /\ SoundRow(row)
    /\ IF invoice[i].status = "none"
       THEN row = invoice[i] \/ row.status = "due"
       ELSE /\ row.total = invoice[i].total
            /\ \/ row.status = "cancelled"
               \/ /\ row.status = invoice[i].status
                  /\ \/ row.paid = row.total
                     \/ row.paid + row.pledged >= invoice[i].paid + invoice[i].pledged

InvoicesBetter == \A i \in Invoices : Better(i, invoice'[i])

TransactionsLast ==
    \A t \in Transactions : transaction[t].status # "none" =>
        /\ transaction'[t].status # "none"
        /\ transaction'[t].invoice = transaction[t].invoice
        /\ transaction'[t].amount = transaction[t].amount
        /\ bank[t] \in {"paid", "denied"} => bank'[t] = bank[t]

LEMMA SameIsBetter ==
  ASSUME LingoInv, NEW i \in Invoices
  PROVE  Better(i, invoice[i])
<1>1. invoice[i] \in InvoiceRows /\ SoundRow(invoice[i])
  BY DEF LingoInv, LingoTypeOK, InvoicesSound
<1>2. invoice[i].paid + invoice[i].pledged >= invoice[i].paid + invoice[i].pledged
  BY <1>1 DEF InvoiceRows
<1> QED
  BY <1>1, <1>2 DEF Better

LEMMA InvoicesSame ==
  ASSUME LingoInv, UNCHANGED invoice
  PROVE  InvoicesBetter
BY SameIsBetter DEF InvoicesBetter

LEMMA TransactionsSame ==
  ASSUME UNCHANGED << transaction, bank >>
  PROVE  TransactionsLast
BY DEF TransactionsLast

LEMMA InvoiceKept ==
  ASSUME LingoInv, InvoicesBetter, NEW i \in Invoices, invoice[i].status # "none"
  PROVE  /\ invoice'[i].status # "none"
         /\ invoice[i].status = "cancelled" => invoice'[i].status = "cancelled"
         /\ \A a \in Nat : Covers(i, a) => (Covers(i, a))'
<1>1. /\ invoice[i] \in InvoiceRows /\ invoice'[i] \in InvoiceRows
      /\ Better(i, invoice'[i])
  BY DEF LingoInv, LingoTypeOK, InvoicesBetter, Better
<1>2. /\ invoice'[i].status # "none"
      /\ invoice[i].status = "cancelled" => invoice'[i].status = "cancelled"
  BY <1>1 DEF Better
<1>3. ASSUME NEW a \in Nat, Covers(i, a)
      PROVE  (Covers(i, a))'
  BY <1>1, <1>3 DEF Better, SoundRow, Covers, InvoiceRows
<1> QED
  BY <1>2, <1>3

LEMMA GoodKept ==
  ASSUME LingoInv, InvoicesBetter, TransactionsLast, NEW q \in RequestStates, Good(q),
         q.pc = "credits" => invoice'[q.invoice].pledged =< invoice[q.invoice].pledged
  PROVE  (Good(q))'
<1>1. \A i \in Invoices \cup {None} : Known(i) => (Known(i))'
  BY InvoiceKept DEF Known
<1>2. /\ q.invoice \in Invoices \cup {None} /\ q.row.invoice \in Invoices \cup {None}
      /\ q.amount \in Nat /\ q.transaction \in Transactions \cup {None}
      /\ q.answer \in Answers \cup {"none"}
  BY DEF RequestStates, BasketRows
<1>3. (Refers(q))'
  BY <1>1, <1>2 DEF Good, Refers
<1>4. (Holds(q))'
  BY <1>2, InvoiceKept DEF Good, Holds, Refers, Known
<1>5. (Honest(q))'
  <2>1. ASSUME q.pc \in {"status", "record"}
        PROVE  /\ transaction'[q.transaction].status # "none"
               /\ q.invoice = transaction'[q.transaction].invoice
               /\ (TrueAnswer(q.transaction, q.answer))'
    BY <1>2, <2>1 DEF LingoInv, LingoTypeOK, Good, Honest, TransactionsLast, TrueAnswer,
                      Answers
  <2> QED
    BY <2>1 DEF Good, Honest
<1>6. (Pays(q))'
  <2>1. ASSUME q.pc \in OnInvoice
        PROVE  \A a \in Nat : Covers(q.invoice, a) => (Covers(q.invoice, a))'
    BY <1>2, <2>1, InvoiceKept DEF Good, Holds, Refers, Known
  <2>2. q.pc = "credits" => q.amount >= invoice'[q.invoice].pledged
    <3>1. ASSUME q.pc = "credits"
          PROVE  /\ q.invoice \in Invoices
                 /\ q.amount >= invoice[q.invoice].pledged
                 /\ invoice'[q.invoice].pledged =< invoice[q.invoice].pledged
      BY <1>2, <3>1 DEF Good, Holds, Pays, OnInvoice
    <3>2. \A i \in Invoices : invoice[i].pledged \in Nat /\ invoice'[i].pledged \in Nat
      BY DEF LingoInv, LingoTypeOK, InvoicesBetter, Better, InvoiceRows
    <3> QED
      BY <1>2, <3>1, <3>2
  <2> QED
    BY <1>2, <2>1, <2>2 DEF Good, Pays, OnInvoice
<1> QED
  BY <1>3, <1>4, <1>5, <1>6 DEF Good
-----------------------------------------------------------------------------
(* A step of at most one request, or of none.                              *)
Alone(r) ==
    /\ request'[r].pc \in MakingPcs => (Private(request[r].invoice, r))'
    /\ \A s \in Requests \ {r} :
        request[s].pc \in MakingPcs => request'[r].row.invoice # request[s].invoice

SavedWell(b) ==
    LET i == basket'[b].invoice
    IN  /\ i = None \/ invoice'[i].status # "none"
        /\ basket'[b].status = "completed" /\ i # None => (Covers(basket[b].invoice, 0))'
        /\ \A s \in Requests : request'[s].pc \in MakingPcs => request'[s].invoice # i

(* An invoice that covers a payment of nothing needs no payment.            *)
LEMMA CoversNothing ==
  ASSUME LingoTypeOK', NEW i \in Invoices, (Covers(i, 0))'
  PROVE  invoice'[i].status # "cancelled" =>
              invoice'[i].paid + invoice'[i].pledged >= invoice'[i].total
<1>1. invoice'[i].paid \in Nat /\ invoice'[i].pledged \in Nat /\ invoice'[i].total \in Nat
  BY DEF LingoTypeOK, InvoiceRows
<1> QED
  BY <1>1 DEF Covers

LEMMA Preserved ==
  ASSUME LingoInv, LingoTypeOK', InvoicesBetter, TransactionsLast,
         NEW who \in SUBSET Requests, \A s, u \in who : s = u,
         \A s \in Requests \ who : request'[s] = request[s],
         \A s \in who : (Good(request[s]))' /\ Alone(s),
         \A b \in Baskets : basket'[b] = basket[b] \/ SavedWell(b),
         \A i \in Invoices :
            \/ invoice'[i].pledged =< invoice[i].pledged
            \/ \E s \in who : request[s].pc \in MakingPcs /\ request[s].invoice = i,
         TransactionsSound', PollSound', RecordedIsPaid', PaidIsFollowed'
  PROVE  LingoInv'
<1>1. InvoicesSound'
  BY DEF LingoInv, InvoicesSound, InvoicesBetter, Better
<1>2. BasketsSound'
  <2>1. ASSUME NEW b \in Baskets, basket'[b] = basket[b]
        PROVE  (Known(basket[b].invoice))'
    <3> PICK i \in Invoices \cup {None} : i = basket[b].invoice
      BY ZenonT(60) DEF LingoInv, LingoTypeOK, BasketRows
    <3>1. (Known(i))'
      BY InvoiceKept DEF LingoInv, BasketsSound, Known
    <3> QED
      BY <2>1, <3>1 DEF Known
  <2>2. ASSUME NEW b \in Baskets, SavedWell(b)
        PROVE  (Known(basket[b].invoice))'
    BY <2>2 DEF SavedWell, Known
  <2> QED
    BY <2>1, <2>2 DEF BasketsSound
<1>3. \A r \in Requests : (Good(request[r]))'
  <2>1. ASSUME NEW r \in Requests \ who
        PROVE  (Good(request[r]))'
    <3> PICK q \in RequestStates : q = request[r]
      BY DEF LingoInv, LingoTypeOK
    <3>1. Good(q) /\ request'[r] = q
      BY DEF LingoInv
    <3>2. ASSUME q.pc = "credits"
          PROVE  invoice'[q.invoice].pledged =< invoice[q.invoice].pledged
      <4>1. q.invoice \in Invoices /\ q.row.invoice = q.invoice
        BY <3>1, <3>2 DEF Good, Holds, OnInvoice, OnBoth, RequestStates
      <4>2. ASSUME NEW s \in who, request[s].pc \in MakingPcs
            PROVE  request[s].invoice # q.invoice
        BY <4>1, <4>2 DEF LingoInv, Private
      <4> QED
        BY <4>1, <4>2
    <3>3. (Good(q))'
      BY <3>1, <3>2, GoodKept
    <3> QED
      BY <3>1, <3>3
  <2> QED
    BY <2>1
<1>4. \A r \in Requests :
        request'[r].pc \in MakingPcs => (Private(request[r].invoice, r))'
  <2>1. ASSUME NEW r \in Requests \ who, request'[r].pc \in MakingPcs
        PROVE  (Private(request[r].invoice, r))'
    <3> DEFINE i == request[r].invoice
    <3>1. /\ request'[r] = request[r] /\ request[r].pc \in MakingPcs
          /\ Private(i, r)
      BY <2>1 DEF LingoInv
    <3>2. \A b \in Baskets : basket'[b].invoice # i
      BY <2>1, <3>1 DEF Private, SavedWell
    <3>3. ASSUME NEW s \in Requests \ {r}
          PROVE  /\ request'[s].row.invoice # i
                 /\ request'[s].pc \in MakingPcs => request'[s].invoice # i
      <4>1. CASE s \in who
        BY <4>1, <3>1, <3>3 DEF Alone, Private
      <4>2. CASE s \notin who
        BY <4>2, <3>1, <3>3 DEF Private
      <4> QED
        BY <4>1, <4>2
    <3> HIDE DEF i
    <3>4. i = request'[r].invoice
      BY <3>1 DEF i
    <3> QED
      BY <3>2, <3>3, <3>4 DEF Private
  <2> QED
    BY <2>1 DEF Alone
<1>5. CompletedIsCovered'
  <2>1. ASSUME NEW b \in Baskets, basket'[b].status = "completed", basket'[b].invoice # None
        PROVE  (Covers(basket[b].invoice, 0))'
    <3>1. CASE SavedWell(b)
      BY <2>1, <3>1 DEF SavedWell
    <3>2. CASE basket'[b] = basket[b]
      <4> DEFINE i == basket[b].invoice
      <4>1. i \in Invoices /\ Known(i) /\ Covers(i, 0)
        <5>1. i \in Invoices /\ Known(i)
          BY <2>1, <3>2 DEF LingoInv, LingoTypeOK, BasketRows, BasketsSound
        <5>2. invoice[i] \in InvoiceRows
          BY <5>1 DEF LingoInv, LingoTypeOK
        <5> QED
          BY <2>1, <3>2, <5>1, <5>2 DEF LingoInv, CompletedIsCovered, Covers, InvoiceRows
      <4>2. \A a \in Nat : Covers(i, a) => (i = basket'[b].invoice => (Covers(basket[b].invoice, a))')
        BY <4>1, InvoiceKept DEF Known, Covers
      <4> QED
        BY <3>2, <4>1, <4>2
    <3> QED
      BY <3>1, <3>2
  <2>2. ASSUME NEW i \in Invoices, (Covers(i, 0))'
        PROVE  invoice'[i].status # "cancelled" =>
                    invoice'[i].paid + invoice'[i].pledged >= invoice'[i].total
    BY <2>2, CoversNothing
  <2>3. \A b \in Baskets : basket'[b].invoice \in Invoices \cup {None}
    BY DEF LingoTypeOK, BasketRows
  <2>4. ASSUME NEW b \in Baskets, basket'[b].status = "completed", basket'[b].invoice # None,
               invoice'[basket'[b].invoice].status # "cancelled"
        PROVE  invoice'[basket'[b].invoice].paid + invoice'[basket'[b].invoice].pledged
                    >= invoice'[basket'[b].invoice].total
    BY <2>1, <2>2, <2>3, <2>4 DEF Covers
  <2> QED
    BY <2>4 DEF CompletedIsCovered
<1> QED
  BY <1>1, <1>2, <1>3, <1>4, <1>5 DEF LingoInv

LEMMA OnlineKept ==
  ASSUME LingoInv, InvoicesBetter, UNCHANGED << transaction, bank, polled, recorded >>,
         lost \subseteq lost', NEW who \in SUBSET Requests,
         \A s \in Requests \ who : request'[s] = request[s],
         \A s \in who : request[s].pc = "record" => request[s].transaction \in lost'
  PROVE  TransactionsSound' /\ PollSound' /\ RecordedIsPaid' /\ PaidIsFollowed'
<1>1. TransactionsSound'
  <2>1. ASSUME NEW t \in Transactions, transaction[t].status # "none"
        PROVE  /\ (Known(transaction[t].invoice))'
               /\ (Covers(transaction[t].invoice, transaction[t].amount))'
    <3>1. PICK i \in Invoices, a \in Nat :
            i = transaction[t].invoice /\ a = transaction[t].amount
      BY <2>1 DEF LingoInv, LingoTypeOK, TransactionsSound, TransactionRows
    <3>2. (Known(i))' /\ (Covers(i, a))'
      BY <2>1, <3>1, InvoiceKept DEF LingoInv, TransactionsSound, Known
    <3> QED
      BY <3>1, <3>2 DEF Known, Covers
  <2> QED
    BY <2>1 DEF LingoInv, TransactionsSound
<1>2. PollSound' /\ RecordedIsPaid'
  BY DEF LingoInv, PollSound, RecordedIsPaid, TrueAnswer
<1>3. PaidIsFollowed'
  BY DEF LingoInv, PaidIsFollowed, At
<1> QED
  BY <1>1, <1>2, <1>3

\* An invoice that request r has met is not one that another is making.
Seen(r, i) ==
    \/ i = None
    \/ i = request[r].row.invoice
    \/ \E b \in Baskets : i = basket[b].invoice
    \/ request[r].pc \in MakingPcs /\ i = request[r].invoice

LEMMA SeenFacts ==
  ASSUME LingoInv, NEW r \in Requests, NEW s \in Requests \ {r},
         request[s].pc \in MakingPcs
  PROVE  ~Seen(r, request[s].invoice)
<1>1. /\ Private(request[s].invoice, s) /\ request[s].invoice # None
      /\ r \in Requests \ {s}
  BY DEF LingoInv, Good, Holds, MakingPcs, OnInvoice
<1> QED
  BY <1>1 DEF Seen, Private

KeepsMaking(r, q) ==
    q.pc \in MakingPcs => request[r].pc \in MakingPcs /\ q.invoice = request[r].invoice

LEMMA AloneFacts ==
  ASSUME LingoInv, NEW r \in Requests, NEW q \in RequestStates, Become(r, q),
         UNCHANGED basket, KeepsMaking(r, q), Seen(r, q.row.invoice)
  PROVE  Alone(r)
<1>1. request'[r] = q /\ \A s \in Requests \ {r} : request'[s] = request[s]
  BY BecomeFacts DEF LingoInv
<1>2. \A s \in Requests \ {r} :
        request[s].pc \in MakingPcs => q.row.invoice # request[s].invoice
  BY SeenFacts
<1>3. q.pc \in MakingPcs => Private(q.invoice, r)
  BY DEF LingoInv, KeepsMaking
<1>4. q.pc \in MakingPcs => (Private(request[r].invoice, r))'
  BY <1>1, <1>3 DEF Private
<1> QED
  BY <1>1, <1>2, <1>4 DEF Alone

\* A request reads.
LEMMA ReadStep ==
  ASSUME LingoInv, NEW r \in Requests, NEW q \in RequestStates, Become(r, q), Good(q),
         request[r].pc # "record", KeepsMaking(r, q), Seen(r, q.row.invoice),
         draft' \in [Baskets -> Nat],
         credit' \in Nat, made' \in 0..MaxCredits,
         UNCHANGED << basket, invoice, online >>
  PROVE  LingoInv'
<1>1. /\ request' \in [Requests -> RequestStates] /\ request'[r] = q
      /\ \A s \in Requests \ {r} : request'[s] = request[s]
  BY BecomeFacts DEF LingoInv
<1>2. InvoicesBetter /\ TransactionsLast
  BY InvoicesSame, TransactionsSame DEF online
<1>3. LingoTypeOK'
  BY <1>1 DEF LingoInv, LingoTypeOK, online
<1>4. (Good(request[r]))'
  BY <1>1 DEF Good, Refers, Holds, Honest, Pays, Known, Covers, TrueAnswer, online
<1>5. Alone(r)
  BY AloneFacts
<1>6. TransactionsSound' /\ PollSound' /\ RecordedIsPaid' /\ PaidIsFollowed'
  BY <1>1, <1>2, OnlineKept, {r} \in SUBSET Requests DEF online
<1>7. \A i \in Invoices : invoice'[i].pledged =< invoice[i].pledged
  BY DEF LingoInv, LingoTypeOK, InvoiceRows
<1> DEFINE who == {r}
<1>8. who \in SUBSET Requests /\ \A s, u \in who : s = u
  OBVIOUS
<1>9. /\ \A s \in Requests \ who : request'[s] = request[s]
      /\ \A s \in who : (Good(request[s]))' /\ Alone(s)
  BY <1>1, <1>4, <1>5
<1> HIDE DEF who
<1> QED
  BY <1>2, <1>3, <1>6, <1>7, <1>8, <1>9, Preserved

\* A request saves the row of a basket.
LEMMA SaveStep ==
  ASSUME LingoInv, NEW r \in Requests, NEW q \in RequestStates, Become(r, q), Good(q),
         request[r].pc # "record", q.pc \notin MakingPcs, Seen(r, q.row.invoice),
         NEW b \in Baskets, NEW row \in BasketRows, Seen(r, row.invoice), Known(row.invoice),
         row.status = "completed" /\ row.invoice # None => Covers(row.invoice, 0),
         basket' = [basket EXCEPT ![b] = row], draft' \in [Baskets -> Nat],
         UNCHANGED << invoice, credit, made, online >>
  PROVE  LingoInv'
<1>1. /\ request' \in [Requests -> RequestStates] /\ request'[r] = q
      /\ \A s \in Requests \ {r} : request'[s] = request[s]
  BY BecomeFacts DEF LingoInv
<1>2. InvoicesBetter /\ TransactionsLast
  BY InvoicesSame, TransactionsSame DEF online
<1>3. LingoTypeOK'
  BY <1>1 DEF LingoInv, LingoTypeOK, online
<1>4. (Good(request[r]))'
  BY <1>1 DEF Good, Refers, Holds, Honest, Pays, Known, Covers, TrueAnswer, online
<1>5. Alone(r)
  BY <1>1, SeenFacts DEF Alone
<1>6. TransactionsSound' /\ PollSound' /\ RecordedIsPaid' /\ PaidIsFollowed'
  BY <1>1, <1>2, OnlineKept, {r} \in SUBSET Requests DEF online
<1>7. \A i \in Invoices : invoice'[i].pledged =< invoice[i].pledged
  BY DEF LingoInv, LingoTypeOK, InvoiceRows
<1>8. basket'[b] = row /\ \A a \in Baskets \ {b} : basket'[a] = basket[a]
  BY DEF LingoInv, LingoTypeOK
<1>9. SavedWell(b)
  <2>1. \A s \in Requests : request'[s].pc \in MakingPcs => request'[s].invoice # row.invoice
    BY <1>1, SeenFacts
  <2> QED
    BY <1>8, <2>1 DEF SavedWell, Known, Covers
<1> DEFINE who == {r}
<1>10. who \in SUBSET Requests /\ \A s, u \in who : s = u
  OBVIOUS
<1>11. /\ \A s \in Requests \ who : request'[s] = request[s]
       /\ \A s \in who : (Good(request[s]))' /\ Alone(s)
  BY <1>1, <1>4, <1>5
<1> HIDE DEF who
<1> QED
  BY <1>2, <1>3, <1>6, <1>7, <1>8, <1>9, <1>10, <1>11, Preserved

\* A request changes one invoice.
LEMMA InvoiceStep ==
  ASSUME LingoInv, NEW r \in Requests, NEW q \in RequestStates, Become(r, q), (Good(q))',
         request[r].pc # "record", KeepsMaking(r, q), Seen(r, q.row.invoice),
         NEW i \in Invoices, NEW row \in InvoiceRows, Better(i, row),
         invoice' = [invoice EXCEPT ![i] = row], credit' \in Nat,
         \/ row.pledged =< invoice[i].pledged
         \/ request[r].pc \in MakingPcs /\ request[r].invoice = i,
         UNCHANGED << basket, draft, made, online >>
  PROVE  LingoInv'
<1>1. /\ request' \in [Requests -> RequestStates] /\ request'[r] = q
      /\ \A s \in Requests \ {r} : request'[s] = request[s]
  BY BecomeFacts DEF LingoInv
<1>2. invoice'[i] = row /\ \A j \in Invoices \ {i} : invoice'[j] = invoice[j]
  BY DEF LingoInv, LingoTypeOK
<1>3. InvoicesBetter /\ TransactionsLast
  <2>1. InvoicesBetter
    BY <1>2, SameIsBetter DEF InvoicesBetter
  <2> QED
    BY <2>1, TransactionsSame DEF online
<1>4. LingoTypeOK'
  BY <1>1 DEF LingoInv, LingoTypeOK, online
<1>5. (Good(request[r]))'
  BY <1>1 DEF Good, Refers, Holds, Honest, Pays, Known, Covers, TrueAnswer
<1>6. Alone(r)
  BY AloneFacts
<1>7. TransactionsSound' /\ PollSound' /\ RecordedIsPaid' /\ PaidIsFollowed'
  BY <1>1, <1>3, OnlineKept, {r} \in SUBSET Requests DEF online
<1> DEFINE who == {r}
<1>8. \A j \in Invoices :
        \/ invoice'[j].pledged =< invoice[j].pledged
        \/ \E s \in who : request[s].pc \in MakingPcs /\ request[s].invoice = j
  <2>1. \A j \in Invoices \ {i} : invoice'[j].pledged =< invoice[j].pledged
    BY <1>2, SMTT(30) DEF LingoInv, LingoTypeOK, InvoiceRows
  <2>2. r \in who
    OBVIOUS
  <2> HIDE DEF who
  <2> QED
    BY <1>2, <2>1, <2>2
<1>9. who \in SUBSET Requests /\ \A s, u \in who : s = u
  OBVIOUS
<1>10. /\ \A s \in Requests \ who : request'[s] = request[s]
       /\ \A s \in who : (Good(request[s]))' /\ Alone(s)
  BY <1>1, <1>5, <1>6
<1> HIDE DEF who
<1> QED
  BY <1>3, <1>4, <1>7, <1>8, <1>9, <1>10, Preserved
-----------------------------------------------------------------------------
LEMMA ReadOnlyStep ==
  ASSUME LingoInv, NEW r \in Requests, NEW q \in RequestStates, Become(r, q), Good(q),
         request[r].pc # "record", KeepsMaking(r, q), Seen(r, q.row.invoice),
         UNCHANGED << billing, online >>
  PROVE  LingoInv'
<1>1. /\ UNCHANGED << basket, draft, invoice, credit, made, online >>
      /\ draft \in [Baskets -> Nat] /\ credit \in Nat /\ made \in 0..MaxCredits
  BY DEF billing, LingoInv, LingoTypeOK
<1> QED
  BY <1>1, ReadStep

\* A request that begins, from the record of an idle one.
LEMMA BeginStep ==
  ASSUME LingoInv, NEW r \in Requests, NEW q \in RequestStates, Become(r, q), Good(q),
         At(r, "idle"), q.pc \notin MakingPcs, Seen(r, q.row.invoice),
         UNCHANGED << billing, online >>
  PROVE  LingoInv'
BY ReadOnlyStep DEF At, KeepsMaking

LEMMA ReturnStep ==
  ASSUME LingoInv, NEW r \in Requests, Return(r), request[r].pc # "record",
         UNCHANGED << billing, online >>
  PROVE  LingoInv'
<1>1. /\ Idle.pc \notin MakingPcs /\ Idle.row.invoice = None
  BY DEF Idle, NoBasket, MakingPcs
<1> QED
  BY <1>1, IdleFacts, ReadOnlyStep DEF Return, KeepsMaking, Seen

LEMMA CheckBasketStep ==
  ASSUME LingoInv, NEW r \in Requests, CheckBasket(r)
  PROVE  LingoInv'
<1> DEFINE q == [Idle EXCEPT !.pc = "createbasket"]
<1>1. At(r, "idle") /\ Become(r, q) /\ UNCHANGED << billing, online >>
  BY DEF CheckBasket
<1>2. q \in RequestStates
  BY IdleFacts DEF RequestStates, LingoInv, LingoTypeOK
<1>3. /\ q.pc = "createbasket" /\ q.basket = None /\ q.row = NoBasket
      /\ q.invoice = None /\ q.transaction = None
      /\ q.todo = [i \in Invoices |-> 0]
  BY DEF Idle
<1> HIDE DEF q
<1>4. Good(q)
  BY <1>3 DEF CheckBasket, LingoInv, LingoTypeOK, NoBasket, Good, Refers, Holds, Honest, Pays, Known,
              OnInvoice, OnBasket, OnBoth
<1>5. q.pc \notin MakingPcs /\ Seen(r, q.row.invoice)
  BY <1>3 DEF NoBasket, MakingPcs, Seen
<1> QED
  BY <1>1, <1>2, <1>4, <1>5, BeginStep

LEMMA CloseDraftInvoiceStep ==
  ASSUME LingoInv, NEW r \in Requests, CloseDraftInvoice(r)
  PROVE  LingoInv'
<1> DEFINE q == [Idle EXCEPT !.pc = "promote"]
<1>1. At(r, "idle") /\ Become(r, q) /\ UNCHANGED << billing, online >>
  BY DEF CloseDraftInvoice
<1>2. q \in RequestStates
  BY IdleFacts DEF RequestStates, LingoInv, LingoTypeOK
<1>3. /\ q.pc = "promote" /\ q.basket = None /\ q.row = NoBasket
      /\ q.invoice = None /\ q.transaction = None
      /\ q.todo = [i \in Invoices |-> 0]
  BY DEF Idle
<1> HIDE DEF q
<1>4. Good(q)
  BY <1>3 DEF CloseDraftInvoice, LingoInv, LingoTypeOK, NoBasket, Good, Refers, Holds, Honest, Pays, Known,
              OnInvoice, OnBasket, OnBoth
<1>5. q.pc \notin MakingPcs /\ Seen(r, q.row.invoice)
  BY <1>3 DEF NoBasket, MakingPcs, Seen
<1> QED
  BY <1>1, <1>2, <1>4, <1>5, BeginStep

LEMMA LoadForLineStep ==
  ASSUME LingoInv, NEW r \in Requests, NEW b \in Baskets, LoadForLine(r, b)
  PROVE  LingoInv'
<1> DEFINE q == [Idle EXCEPT !.pc = "bill", !.basket = b, !.row = basket[b]]
<1>1. At(r, "idle") /\ Become(r, q) /\ UNCHANGED << billing, online >>
  BY DEF LoadForLine
<1>2. q \in RequestStates
  BY IdleFacts DEF RequestStates, LingoInv, LingoTypeOK
<1>3. /\ q.pc = "bill" /\ q.basket = b /\ q.row = basket[b]
      /\ q.invoice = None /\ q.transaction = None
      /\ q.todo = [i \in Invoices |-> 0]
  BY DEF Idle
<1> HIDE DEF q
<1>4. Good(q)
  BY <1>3 DEF LoadForLine, LingoInv, LingoTypeOK, NoBasket, Good, Refers, Holds, Honest, Pays, Known,
              OnInvoice, OnBasket, OnBoth, BasketsSound
<1>5. q.pc \notin MakingPcs /\ Seen(r, q.row.invoice)
  BY <1>3 DEF NoBasket, MakingPcs, Seen
<1> QED
  BY <1>1, <1>2, <1>4, <1>5, BeginStep

LEMMA ValidateBasketStep ==
  ASSUME LingoInv, NEW r \in Requests, NEW b \in Baskets, ValidateBasket(r, b)
  PROVE  LingoInv'
<1> DEFINE q == [Idle EXCEPT !.pc = "promote", !.basket = b, !.row = basket[b]]
<1>1. At(r, "idle") /\ Become(r, q) /\ UNCHANGED << billing, online >>
  BY DEF ValidateBasket
<1>2. q \in RequestStates
  BY IdleFacts DEF RequestStates, LingoInv, LingoTypeOK
<1>3. /\ q.pc = "promote" /\ q.basket = b /\ q.row = basket[b]
      /\ q.invoice = None /\ q.transaction = None
      /\ q.todo = [i \in Invoices |-> 0]
  BY DEF Idle
<1> HIDE DEF q
<1>4. Good(q)
  BY <1>3 DEF ValidateBasket, LingoInv, LingoTypeOK, NoBasket, Good, Refers, Holds, Honest, Pays, Known,
              OnInvoice, OnBasket, OnBoth, BasketsSound
<1>5. q.pc \notin MakingPcs /\ Seen(r, q.row.invoice)
  BY <1>3 DEF NoBasket, MakingPcs, Seen
<1> QED
  BY <1>1, <1>2, <1>4, <1>5, BeginStep

LEMMA LoadForCancelStep ==
  ASSUME LingoInv, NEW r \in Requests, NEW b \in Baskets, LoadForCancel(r, b)
  PROVE  LingoInv'
<1> DEFINE q == [Idle EXCEPT !.pc = "cancel", !.basket = b, !.row = basket[b]]
<1>1. At(r, "idle") /\ Become(r, q) /\ UNCHANGED << billing, online >>
  BY DEF LoadForCancel
<1>2. q \in RequestStates
  BY IdleFacts DEF RequestStates, LingoInv, LingoTypeOK
<1>3. /\ q.pc = "cancel" /\ q.basket = b /\ q.row = basket[b]
      /\ q.invoice = None /\ q.transaction = None
      /\ q.todo = [i \in Invoices |-> 0]
  BY DEF Idle
<1> HIDE DEF q
<1>4. Good(q)
  BY <1>3 DEF LoadForCancel, LingoInv, LingoTypeOK, NoBasket, Good, Refers, Holds, Honest, Pays, Known,
              OnInvoice, OnBasket, OnBoth, BasketsSound
<1>5. q.pc \notin MakingPcs /\ Seen(r, q.row.invoice)
  BY <1>3 DEF NoBasket, MakingPcs, Seen
<1> QED
  BY <1>1, <1>2, <1>4, <1>5, BeginStep

LEMMA PayInvoiceStep ==
  ASSUME LingoInv, NEW r \in Requests, NEW i \in Invoices, PayInvoice(r, i)
  PROVE  LingoInv'
<1> DEFINE q == [Idle EXCEPT !.pc = "pay", !.invoice = i, !.amount = Remaining(i)]
<1>1. At(r, "idle") /\ Become(r, q) /\ UNCHANGED << billing, online >>
  BY DEF PayInvoice
<1>2. Remaining(i) \in Nat /\ Covers(i, Remaining(i)) /\ Known(i)
  <2>1. invoice[i] \in InvoiceRows /\ SoundRow(invoice[i]) /\ invoice[i].status = "due"
    BY DEF LingoInv, LingoTypeOK, InvoicesSound, PayInvoice
  <2>2. /\ invoice[i].paid \in Nat /\ invoice[i].total \in Nat /\ invoice[i].pledged \in Nat
        /\ invoice[i].paid =< invoice[i].total
    BY <2>1 DEF InvoiceRows, SoundRow
  <2> QED
    BY <2>1, <2>2 DEF Remaining, Covers, Known
<1>3. q \in RequestStates
  BY <1>2, IdleFacts DEF RequestStates
<1>4. /\ q.pc = "pay" /\ q.row = NoBasket /\ q.invoice = i /\ q.amount = Remaining(i)
      /\ q.todo = [j \in Invoices |-> 0]
  BY DEF Idle
<1> HIDE DEF q
<1>5. Good(q)
  BY <1>2, <1>4 DEF NoBasket, Good, Refers, Holds, Honest, Pays, Known, OnInvoice, OnBasket,
                    OnBoth
<1>6. q.pc \notin MakingPcs /\ Seen(r, q.row.invoice)
  BY <1>4 DEF NoBasket, MakingPcs, Seen
<1> QED
  BY <1>1, <1>3, <1>5, <1>6, BeginStep

\* A request takes an answer of the service.
LEMMA AnswerStep ==
  ASSUME LingoInv, NEW r \in Requests, NEW t \in Transactions, NEW answer \in Answers,
         transaction[t].status # "none", TrueAnswer(t, answer), At(r, "idle"),
         Become(r, [Idle EXCEPT !.pc = "status", !.transaction = t,
                        !.invoice = transaction[t].invoice, !.answer = answer]),
         UNCHANGED << billing, online >>
  PROVE  LingoInv'
<1> DEFINE q == [Idle EXCEPT !.pc = "status", !.transaction = t,
                     !.invoice = transaction[t].invoice, !.answer = answer]
<1>1. At(r, "idle") /\ Become(r, q) /\ UNCHANGED << billing, online >>
  OBVIOUS
<1>2. /\ transaction[t].invoice \in Invoices /\ Known(transaction[t].invoice)
      /\ transaction[t].invoice # None
  BY DEF LingoInv, LingoTypeOK, TransactionsSound, TransactionRows
<1>3. q \in RequestStates
  BY <1>2, IdleFacts DEF RequestStates
<1>4. /\ q.pc = "status" /\ q.row = NoBasket /\ q.invoice = transaction[t].invoice
      /\ q.transaction = t /\ q.answer = answer /\ q.todo = [i \in Invoices |-> 0]
  BY DEF Idle
<1> HIDE DEF q
<1>5. Good(q)
  <2>1. t # None /\ answer # "none"
    BY DEF Answers
  <2> QED
    BY <1>2, <1>4, <2>1 DEF NoBasket, Good, Refers, Holds, Honest, Pays, Known, OnInvoice,
                            OnBasket, OnBoth
<1>6. q.pc \notin MakingPcs /\ Seen(r, q.row.invoice)
  BY <1>4 DEF NoBasket, MakingPcs, Seen
<1> QED
  BY <1>1, <1>3, <1>5, <1>6, BeginStep

LEMMA CurrentTrue ==
  ASSUME LingoInv, NEW t \in Transactions, bank[t] # "none"
  PROVE  /\ Current(t) \in Answers /\ TrueAnswer(t, Current(t))
         /\ TrueAnswer(t, "received")
BY DEF LingoInv, LingoTypeOK, Current, Answers, TrueAnswer

LEMMA HandleMessageStep ==
  ASSUME LingoInv, NEW r \in Requests, NEW t \in Transactions, NEW answer \in Messages(t),
         HandleMessage(r, t, answer)
  PROVE  LingoInv'
<1>1. bank[t] # "none" /\ answer \in Answers /\ TrueAnswer(t, answer)
  BY CurrentTrue DEF Messages, Answers
<1>2. transaction[t].status # "none"
  BY DEF HandleMessage, Running
<1> QED
  BY <1>1, <1>2, AnswerStep DEF HandleMessage

LEMMA CheckStatusStep ==
  ASSUME LingoInv, NEW r \in Requests, NEW t \in Transactions, CheckStatus(r, t)
  PROVE  LingoInv'
BY CurrentTrue, AnswerStep DEF CheckStatus
-----------------------------------------------------------------------------
LEMMA RequestFacts ==
  ASSUME LingoInv, NEW r \in Requests
  PROVE  /\ request[r] \in RequestStates /\ Good(request[r])
         /\ request[r].pc \in OnInvoice =>
                /\ request[r].invoice \in Invoices
                /\ invoice[request[r].invoice].status # "none"
                /\ invoice[request[r].invoice] \in InvoiceRows
                /\ SoundRow(invoice[request[r].invoice])
BY DEF LingoInv, LingoTypeOK, RequestStates, Good, Refers, Holds, Known, InvoicesSound

LEMMA RefreshInvoiceStep ==
  ASSUME LingoInv, NEW r \in Requests, RefreshInvoice(r)
  PROVE  LingoInv'
<1> DEFINE q == [request[r] EXCEPT !.pc = "assign",
                     !.amount = Remaining(request[r].invoice), !.limit = credit]
<1>1. /\ request[r].pc = "refresh" /\ Become(r, q) /\ UNCHANGED << billing, online >>
  BY DEF RefreshInvoice, At
<1>2. Remaining(request[r].invoice) \in Nat /\ credit \in Nat
  <2>1. /\ invoice[request[r].invoice] \in InvoiceRows
        /\ SoundRow(invoice[request[r].invoice])
    BY <1>1, RequestFacts DEF OnInvoice
  <2> QED
    BY <2>1 DEF LingoInv, LingoTypeOK, Remaining, InvoiceRows, SoundRow
<1>3. q \in RequestStates
  BY <1>2, RequestFacts, UpdatedFacts DEF Pcs
<1>4. /\ q.pc = "assign" /\ q.row = request[r].row /\ q.invoice = request[r].invoice
      /\ q.basket = request[r].basket /\ q.todo = request[r].todo
  BY RequestFacts DEF RequestStates
<1> HIDE DEF q
<1>5. Good(q)
  BY <1>1, <1>4, RequestFacts
  DEF Good, Refers, Holds, Honest, Pays, OnInvoice, OnBasket, OnBoth
<1>6. KeepsMaking(r, q) /\ Seen(r, q.row.invoice)
  BY <1>1, <1>4 DEF KeepsMaking, MakingPcs, Seen
<1> QED
  BY <1>1, <1>3, <1>5, <1>6, ReadOnlyStep

LEMMA SettleBasketStep ==
  ASSUME LingoInv, NEW r \in Requests, SettleBasket(r)
  PROVE  LingoInv'
<1> DEFINE i == request[r].invoice
           row == [status |-> IF Settled(i) THEN "completed" ELSE "tobepaid", invoice |-> i]
           q == [request[r] EXCEPT !.pc = "save", !.row = row]
<1>1. /\ request[r].pc = "settle" /\ Become(r, q) /\ UNCHANGED << billing, online >>
  BY DEF SettleBasket, At
<1>2. row \in BasketRows
  BY RequestFacts DEF BasketRows, RequestStates
<1>3. q \in RequestStates
  BY <1>2, RequestFacts, UpdatedFacts, ZenonT(60) DEF Pcs
<1>4. /\ q.pc = "save" /\ q.row.invoice = i /\ q.invoice = i
      /\ q.row.status = "completed" => Settled(i)
      /\ q.basket = request[r].basket /\ q.todo = request[r].todo
  BY RequestFacts DEF RequestStates
<1> HIDE DEF q, row
<1>5. Settled(i) => Covers(i, 0)
  <2>1. invoice[i] \in InvoiceRows /\ SoundRow(invoice[i])
    BY <1>1, RequestFacts DEF OnInvoice
  <2> QED
    BY <2>1 DEF Settled, Assigned, Covers, SoundRow, InvoiceRows
<1>6. Good(q)
  BY <1>1, <1>4, <1>5, RequestFacts
  DEF Good, Refers, Holds, Honest, Pays, OnInvoice, OnBasket, OnBoth
<1>7. KeepsMaking(r, q) /\ Seen(r, q.row.invoice)
  BY <1>1, <1>4 DEF KeepsMaking, MakingPcs, Seen
<1> QED
  BY <1>1, <1>3, <1>6, <1>7, ReadOnlyStep

LEMMA StartPaymentStep ==
  ASSUME LingoInv, NEW r \in Requests, StartPayment(r)
  PROVE  LingoInv'
<1> DEFINE i == request[r].invoice
           amount == invoice[i].total - Assigned(i)
           q == [request[r] EXCEPT !.pc = "pay", !.amount = amount]
<1>1. request[r].pc = "start" /\ UNCHANGED << billing, online >>
  BY DEF StartPayment, At
<1>2. CASE ~(amount > 0)
  BY <1>1, <1>2, ReturnStep DEF StartPayment
<1>3. CASE amount > 0
  <2>1. Become(r, q)
    BY <1>3 DEF StartPayment
  <2>2. amount \in Nat /\ Covers(i, amount)
    <3>1. invoice[i] \in InvoiceRows /\ SoundRow(invoice[i])
      BY <1>1, RequestFacts DEF OnInvoice
    <3> QED
      BY <1>3, <3>1 DEF Assigned, Covers, SoundRow, InvoiceRows
  <2>3. q \in RequestStates
    BY <2>2, RequestFacts, ZenonT(60) DEF RequestStates
  <2>4. /\ q.pc = "pay" /\ q.row = request[r].row /\ q.invoice = i /\ q.amount = amount
        /\ q.todo = request[r].todo
    BY RequestFacts DEF RequestStates
  <2> HIDE DEF q, amount
  <2>5. Good(q)
    BY <1>1, <2>2, <2>4, RequestFacts
    DEF Good, Refers, Holds, Honest, Pays, OnInvoice, OnBasket, OnBoth
  <2>6. KeepsMaking(r, q) /\ Seen(r, q.row.invoice)
    BY <2>4 DEF KeepsMaking, MakingPcs, Seen
  <2> QED
    BY <1>1, <2>1, <2>3, <2>5, <2>6, ReadOnlyStep
<1> QED
  BY <1>2, <1>3

LEMMA SignalPaidStep ==
  ASSUME LingoInv, NEW r \in Requests, SignalPaid(r)
  PROVE  LingoInv'
<1>1. request[r].pc = "signal" /\ UNCHANGED << billing, online >>
  BY DEF SignalPaid, At
<1>2. CASE BasketsOf(request[r].invoice) = {}
  BY <1>1, <1>2, ReturnStep DEF SignalPaid
<1>3. CASE BasketsOf(request[r].invoice) # {}
  <2>1. PICK b \in Baskets :
          /\ basket[b].invoice = request[r].invoice
          /\ Become(r, [request[r] EXCEPT !.pc = "sum", !.basket = b, !.row = basket[b]])
    BY <1>3 DEF SignalPaid, BasketsOf
  <2> DEFINE q == [request[r] EXCEPT !.pc = "sum", !.basket = b, !.row = basket[b]]
  <2>2. q \in RequestStates
    <3>1. basket[b] \in BasketRows
      BY DEF LingoInv, LingoTypeOK
    <3> QED
      BY <3>1, RequestFacts, UpdatedFacts DEF Pcs
  <2>3. /\ q.pc = "sum" /\ q.row = basket[b] /\ q.invoice = request[r].invoice
        /\ q.basket = b /\ q.todo = request[r].todo
    BY RequestFacts DEF RequestStates
  <2> HIDE DEF q
  <2>4. Good(q)
    BY <1>1, <2>1, <2>3, RequestFacts
    DEF Good, Refers, Holds, Honest, Pays, OnInvoice, OnBasket, OnBoth
  <2>5. KeepsMaking(r, q) /\ Seen(r, q.row.invoice)
    BY <2>3 DEF KeepsMaking, MakingPcs, Seen
  <2>6. Become(r, q)
    BY <2>1 DEF q
  <2> QED
    BY <1>1, <2>2, <2>4, <2>5, <2>6, ReadOnlyStep
<1> QED
  BY <1>2, <1>3

LEMMA SignalReopenStep ==
  ASSUME LingoInv, NEW r \in Requests, SignalReopen(r)
  PROVE  LingoInv'
<1> DEFINE found == {b \in BasketsOf(request[r].invoice) : basket[b].status = "tobepaid"}
<1>1. request[r].pc = "reopen" /\ UNCHANGED << billing, online >>
  BY DEF SignalReopen, At
<1>2. CASE found = {}
  BY <1>1, <1>2, ReturnStep DEF SignalReopen
<1>3. CASE found # {}
  <2>1. PICK b \in Baskets :
          /\ basket[b].invoice = request[r].invoice
          /\ Become(r, [request[r] EXCEPT !.pc = "saveopen", !.basket = b, !.row = basket[b]])
    BY <1>3 DEF SignalReopen, BasketsOf
  <2> DEFINE q == [request[r] EXCEPT !.pc = "saveopen", !.basket = b, !.row = basket[b]]
  <2>2. q \in RequestStates
    <3>1. basket[b] \in BasketRows
      BY DEF LingoInv, LingoTypeOK
    <3> QED
      BY <3>1, RequestFacts, UpdatedFacts DEF Pcs
  <2>3. /\ q.pc = "saveopen" /\ q.row = basket[b] /\ q.invoice = request[r].invoice
        /\ q.basket = b /\ q.todo = request[r].todo
    BY RequestFacts DEF RequestStates
  <2> HIDE DEF q
  <2>4. Good(q)
    BY <1>1, <2>1, <2>3, RequestFacts
    DEF Good, Refers, Holds, Honest, Pays, OnInvoice, OnBasket, OnBoth
  <2>5. KeepsMaking(r, q) /\ Seen(r, q.row.invoice)
    BY <2>3 DEF KeepsMaking, MakingPcs, Seen
  <2>6. Become(r, q)
    BY <2>1 DEF q
  <2> QED
    BY <1>1, <2>2, <2>4, <2>5, <2>6, ReadOnlyStep
<1> QED
  BY <1>2, <1>3

LEMMA SumCreditsStep ==
  ASSUME LingoInv, NEW r \in Requests, SumCredits(r)
  PROVE  LingoInv'
<1> DEFINE i == request[r].invoice
           q == [request[r] EXCEPT !.pc = "credits", !.amount = Assigned(request[r].invoice)]
<1>1. /\ request[r].pc = "sum" /\ Become(r, q) /\ UNCHANGED << billing, online >>
  BY DEF SumCredits, At
<1>2. Assigned(i) \in Nat /\ Assigned(i) >= invoice[i].pledged
  BY <1>1, RequestFacts DEF Assigned, OnInvoice, InvoiceRows
<1>3. q \in RequestStates
  BY <1>2, RequestFacts, UpdatedFacts DEF Pcs
<1>4. /\ q.pc = "credits" /\ q.row = request[r].row /\ q.invoice = i
      /\ q.amount = Assigned(i)
      /\ q.basket = request[r].basket /\ q.todo = request[r].todo
  BY RequestFacts DEF RequestStates
<1> HIDE DEF q
<1>5. Good(q)
  BY <1>1, <1>2, <1>4, RequestFacts
  DEF Good, Refers, Holds, Honest, Pays, OnInvoice, OnBasket, OnBoth
<1>6. KeepsMaking(r, q) /\ Seen(r, q.row.invoice)
  BY <1>4 DEF KeepsMaking, MakingPcs, Seen
<1> QED
  BY <1>1, <1>3, <1>5, <1>6, ReadOnlyStep

LEMMA BillLineStep ==
  ASSUME LingoInv, NEW r \in Requests, BillLine(r)
  PROVE  LingoInv'
<1> DEFINE q == [request[r] EXCEPT !.pc = "keep"]
<1>1. /\ request[r].pc = "bill" /\ Become(r, q)
      /\ draft' = [draft EXCEPT ![request[r].basket] = @ + Price]
      /\ UNCHANGED << basket, invoice, credit, made, online >>
  BY DEF BillLine, At, GoTo
<1>2. draft' \in [Baskets -> Nat] /\ credit' \in Nat /\ made' \in 0..MaxCredits
  <2>1. request[r].basket \in Baskets
    BY <1>1, RequestFacts DEF Good, Holds, OnBasket, RequestStates
  <2>2. draft \in [Baskets -> Nat] /\ draft[request[r].basket] + Price \in Nat
    BY <2>1 DEF LingoInv, LingoTypeOK
  <2> QED
    BY <1>1, <2>1, <2>2 DEF LingoInv, LingoTypeOK
<1>3. q \in RequestStates
  BY RequestFacts, UpdatedFacts DEF Pcs
<1>4. /\ q.pc = "keep" /\ q.row = request[r].row /\ q.invoice = request[r].invoice
      /\ q.basket = request[r].basket /\ q.todo = request[r].todo
  BY RequestFacts DEF RequestStates
<1> HIDE DEF q
<1>5. Good(q)
  BY <1>1, <1>4, RequestFacts
  DEF Good, Refers, Holds, Honest, Pays, OnInvoice, OnBasket, OnBoth
<1>6. KeepsMaking(r, q) /\ Seen(r, q.row.invoice)
  BY <1>4 DEF KeepsMaking, MakingPcs, Seen
<1> QED
  BY <1>1, <1>2, <1>3, <1>5, <1>6, ReadStep

LEMMA MakeCreditStep ==
  ASSUME LingoInv, NEW r \in Requests, MakeCredit(r)
  PROVE  LingoInv'
<1> DEFINE payable == {i \in InvoicesOf({"due"}) : Remaining(i) > 0 /\ ~HasBasket(i)}
           todo == [i \in Invoices |-> IF i \in payable THEN Remaining(i) ELSE 0]
           q == IF payable = {} THEN request[r]
                ELSE [Idle EXCEPT !.pc = "spread", !.limit = 1, !.todo = todo]
<1>1. /\ request[r].pc = "idle" /\ credit' = credit + 1 /\ made' = made + 1
      /\ made < MaxCredits /\ UNCHANGED << basket, draft, invoice, online >>
  BY DEF MakeCredit, At
<1>2. Become(r, q)
  <2>1. CASE payable = {}
    BY <2>1 DEF MakeCredit, Become, LingoInv, LingoTypeOK
  <2>2. CASE payable # {}
    BY <2>2 DEF MakeCredit
  <2> QED
    BY <2>1, <2>2
<1>3. draft' \in [Baskets -> Nat] /\ credit' \in Nat /\ made' \in 0..MaxCredits
  BY <1>1 DEF LingoInv, LingoTypeOK
<1>4. /\ todo \in [Invoices -> Nat]
      /\ \A i \in Invoices : todo[i] > 0 => Known(i)
  BY SMTT(30) DEF LingoInv, LingoTypeOK, InvoicesSound, SoundRow, InvoiceRows, Remaining, InvoicesOf,
         Known
<1> HIDE DEF todo, payable
<1>5. q \in RequestStates
  BY <1>4, IdleFacts, RequestFacts, ZenonT(60) DEF RequestStates
<1>6. Good(q)
  <2>1. CASE payable = {}
    BY <2>1, RequestFacts
  <2>2. CASE payable # {}
    <3>1. /\ q.pc = "spread" /\ q.row = NoBasket /\ q.invoice = None /\ q.todo = todo
      BY <2>2 DEF Idle
    <3> HIDE DEF q
    <3> QED
      BY <1>4, <3>1 DEF NoBasket, Good, Refers, Holds, Honest, Pays, Known, OnInvoice,
                        OnBasket, OnBoth
  <2> QED
    BY <2>1, <2>2
<1>7. KeepsMaking(r, q) /\ Seen(r, q.row.invoice)
  BY <1>1 DEF Idle, NoBasket, KeepsMaking, MakingPcs, Seen
<1> HIDE DEF q
<1> QED
  BY <1>1, <1>2, <1>3, <1>5, <1>6, <1>7, ReadStep
-----------------------------------------------------------------------------
LEMMA IdleSeen ==
  ASSUME NEW r \in Requests
  PROVE  /\ Idle.pc \notin MakingPcs /\ Seen(r, Idle.row.invoice)
         /\ KeepsMaking(r, Idle)
BY DEF Idle, NoBasket, MakingPcs, Seen, KeepsMaking

LEMMA CreateBasketStep ==
  ASSUME LingoInv, NEW r \in Requests, CreateBasket(r)
  PROVE  LingoInv'
<1>1. PICK b \in Baskets : basket' = [basket EXCEPT ![b].status = "open"]
  BY DEF CreateBasket
<1> DEFINE row == [basket[b] EXCEPT !.status = "open"]
<1>2. /\ row \in BasketRows /\ row.status = "open" /\ row.invoice = basket[b].invoice
      /\ basket' = [basket EXCEPT ![b] = row]
  BY <1>1, ZenonT(60) DEF LingoInv, LingoTypeOK, BasketRows
<1> HIDE DEF row
<1>3. Seen(r, row.invoice) /\ Known(row.invoice)
  BY <1>2 DEF Seen, LingoInv, BasketsSound
<1>4. /\ request[r].pc = "createbasket" /\ Become(r, Idle)
      /\ draft' \in [Baskets -> Nat] /\ UNCHANGED << invoice, credit, made, online >>
  BY DEF CreateBasket, At, Return, LingoInv, LingoTypeOK
<1> QED
  BY <1>2, <1>3, <1>4, IdleFacts, IdleSeen, SaveStep

\* The row that was read for a line.
LEMMA OpenRowFacts ==
  ASSUME LingoInv, NEW r \in Requests, request[r].pc \in {"bill", "keep"}
  PROVE  /\ request[r].basket \in Baskets /\ request[r].row \in BasketRows
         /\ request[r].row.status = "open"
         /\ Seen(r, request[r].row.invoice) /\ Known(request[r].row.invoice)
BY RequestFacts DEF Good, Refers, Holds, OnBasket, RequestStates, Seen

LEMMA KeepBasketStep ==
  ASSUME LingoInv, NEW r \in Requests, KeepBasket(r)
  PROVE  LingoInv'
<1>1. /\ request[r].pc = "keep" /\ Become(r, Idle)
      /\ draft' \in [Baskets -> Nat] /\ UNCHANGED << invoice, credit, made, online >>
      /\ basket' = [basket EXCEPT ![request[r].basket] = request[r].row]
  BY DEF KeepBasket, At, Return, LingoInv, LingoTypeOK
<1> QED
  BY <1>1, OpenRowFacts, IdleFacts, IdleSeen, SaveStep

LEMMA LinesFromBookingsStep ==
  ASSUME LingoInv, NEW r \in Requests, LinesFromBookings(r)
  PROVE  LingoInv'
<1>1. /\ request[r].pc = "bill" /\ Become(r, Idle)
      /\ UNCHANGED << invoice, credit, made, online >>
      /\ basket' = [basket EXCEPT ![request[r].basket] = request[r].row]
      /\ draft' = [draft EXCEPT ![request[r].basket] = @ + Price]
  BY DEF LinesFromBookings, At, Return
<1>2. draft' \in [Baskets -> Nat]
  BY <1>1, OpenRowFacts DEF LingoInv, LingoTypeOK
<1> QED
  BY <1>1, <1>2, OpenRowFacts, IdleFacts, IdleSeen, SaveStep

LEMMA SaveBasketStep ==
  ASSUME LingoInv, NEW r \in Requests, SaveBasket(r)
  PROVE  LingoInv'
<1> DEFINE q == [Idle EXCEPT !.pc = "start", !.invoice = request[r].invoice]
<1>1. /\ request[r].pc = "save" /\ Become(r, q)
      /\ draft' \in [Baskets -> Nat] /\ UNCHANGED << invoice, credit, made, online >>
      /\ basket' = [basket EXCEPT ![request[r].basket] = request[r].row]
  BY DEF SaveBasket, At, LingoInv, LingoTypeOK
<1>2. /\ request[r].basket \in Baskets /\ request[r].row \in BasketRows
      /\ request[r].row.invoice = request[r].invoice /\ request[r].invoice \in Invoices
      /\ Known(request[r].invoice) /\ Seen(r, request[r].row.invoice)
      /\ request[r].row.status = "completed" => Covers(request[r].invoice, 0)
  BY <1>1, RequestFacts
  DEF Good, Refers, Holds, Pays, OnInvoice, OnBasket, OnBoth, RequestStates, Seen
<1>3. q \in RequestStates
  BY <1>2, IdleFacts DEF RequestStates
<1>4. /\ q.pc = "start" /\ q.row = NoBasket /\ q.invoice = request[r].invoice
      /\ q.todo = [i \in Invoices |-> 0]
  BY DEF Idle
<1> HIDE DEF q
<1>5. Good(q)
  BY <1>2, <1>4 DEF NoBasket, Good, Refers, Holds, Honest, Pays, Known, OnInvoice, OnBasket,
                    OnBoth
<1>6. q.pc \notin MakingPcs /\ Seen(r, q.row.invoice)
  BY <1>4 DEF NoBasket, MakingPcs, Seen
<1> QED
  BY <1>1, <1>2, <1>3, <1>5, <1>6, SaveStep

LEMMA CancelBasketStep ==
  ASSUME LingoInv, NEW r \in Requests, CancelBasket(r)
  PROVE  LingoInv'
<1> DEFINE row == [request[r].row EXCEPT !.status = "cancelled"]
           q == IF request[r].row.invoice = None THEN Idle
                ELSE [request[r] EXCEPT !.pc = "cancelinvoice"]
<1>1. /\ request[r].pc = "cancel" /\ Become(r, q)
      /\ draft' \in [Baskets -> Nat] /\ UNCHANGED << invoice, credit, made, online >>
      /\ basket' = [basket EXCEPT ![request[r].basket] = row]
  BY DEF CancelBasket, At, GoTo, Return, LingoInv, LingoTypeOK
<1>2. /\ row \in BasketRows /\ row.status = "cancelled"
      /\ row.invoice = request[r].row.invoice
  BY RequestFacts DEF RequestStates, BasketRows
<1>3. request[r].basket \in Baskets /\ Known(row.invoice) /\ Seen(r, row.invoice)
  BY <1>1, <1>2, RequestFacts DEF Good, Refers, Holds, OnBasket, RequestStates, Seen
<1>4. q \in RequestStates
  BY RequestFacts, UpdatedFacts, IdleFacts DEF Pcs
<1>5. Good(q) /\ q.pc \notin MakingPcs /\ Seen(r, q.row.invoice)
  <2>1. CASE request[r].row.invoice = None
    BY <2>1, IdleFacts, IdleSeen
  <2>2. CASE request[r].row.invoice # None
    <3>1. /\ q.pc = "cancelinvoice" /\ q.row = request[r].row
          /\ q.invoice = request[r].invoice
          /\ q.basket = request[r].basket /\ q.todo = request[r].todo
      BY <2>2, RequestFacts DEF RequestStates
    <3> HIDE DEF q
    <3>2. Good(q)
      BY <1>1, <2>2, <3>1, RequestFacts
      DEF Good, Refers, Holds, Honest, Pays, OnInvoice, OnBasket, OnBoth
    <3> QED
      BY <3>1, <3>2 DEF MakingPcs, Seen
  <2> QED
    BY <2>1, <2>2
<1> HIDE DEF q, row
<1> QED
  BY <1>1, <1>2, <1>3, <1>4, <1>5, SaveStep

LEMMA CompleteStep ==
  ASSUME LingoInv, NEW r \in Requests, Complete(r)
  PROVE  LingoInv'
<1> DEFINE row == [request[r].row EXCEPT !.status = "completed"]
<1>1. /\ request[r].pc = "complete" /\ Become(r, Idle)
      /\ draft' \in [Baskets -> Nat] /\ UNCHANGED << invoice, credit, made, online >>
      /\ basket' = [basket EXCEPT ![request[r].basket] = row]
  BY DEF Complete, At, Return, LingoInv, LingoTypeOK
<1>2. row \in BasketRows /\ row.invoice = request[r].row.invoice
  BY RequestFacts DEF RequestStates, BasketRows
<1>3. /\ request[r].basket \in Baskets /\ Known(row.invoice) /\ Seen(r, row.invoice)
      /\ Covers(row.invoice, 0)
  BY <1>1, <1>2, RequestFacts
  DEF Good, Refers, Holds, Pays, OnBasket, OnBoth, RequestStates, Seen
<1> HIDE DEF row
<1> QED
  BY <1>1, <1>2, <1>3, IdleFacts, IdleSeen, SaveStep

LEMMA SaveOpenStep ==
  ASSUME LingoInv, NEW r \in Requests, SaveOpen(r)
  PROVE  LingoInv'
<1> DEFINE row == [request[r].row EXCEPT !.status = "open"]
           q == [request[r] EXCEPT !.pc = "cancelinvoice"]
<1>1. /\ request[r].pc = "saveopen" /\ Become(r, q)
      /\ draft' \in [Baskets -> Nat] /\ UNCHANGED << invoice, credit, made, online >>
      /\ basket' = [basket EXCEPT ![request[r].basket] = row]
  BY DEF SaveOpen, At, GoTo, LingoInv, LingoTypeOK
<1>2. row \in BasketRows /\ row.status = "open" /\ row.invoice = request[r].row.invoice
  BY RequestFacts DEF RequestStates, BasketRows
<1>3. request[r].basket \in Baskets /\ Known(row.invoice) /\ Seen(r, row.invoice)
  BY <1>1, <1>2, RequestFacts DEF Good, Refers, Holds, OnBasket, RequestStates, Seen
<1>4. q \in RequestStates
  BY RequestFacts, UpdatedFacts DEF Pcs
<1>5. /\ q.pc = "cancelinvoice" /\ q.row = request[r].row /\ q.invoice = request[r].invoice
      /\ q.basket = request[r].basket /\ q.todo = request[r].todo
  BY RequestFacts DEF RequestStates
<1> HIDE DEF q, row
<1>6. Good(q) /\ q.pc \notin MakingPcs /\ Seen(r, q.row.invoice)
  BY <1>1, <1>5, RequestFacts
  DEF Good, Refers, Holds, Honest, Pays, OnInvoice, OnBasket, OnBoth, MakingPcs, Seen
<1> QED
  BY <1>1, <1>2, <1>3, <1>4, <1>6, SaveStep

LEMMA DetachStep ==
  ASSUME LingoInv, NEW r \in Requests, Detach(r)
  PROVE  LingoInv'
<1> DEFINE row == [status |-> "open", invoice |-> None]
<1>1. /\ request[r].pc = "detach" /\ Become(r, Idle)
      /\ draft' \in [Baskets -> Nat] /\ UNCHANGED << invoice, credit, made, online >>
      /\ basket' = [basket EXCEPT ![request[r].basket] = row]
  BY DEF Detach, At, Return, LingoInv, LingoTypeOK
<1>2. request[r].basket \in Baskets
  BY <1>1, RequestFacts DEF Good, Holds, OnBasket, RequestStates
<1>3. /\ row \in BasketRows /\ row.status = "open" /\ row.invoice = None
      /\ Seen(r, row.invoice) /\ Known(row.invoice)
  BY DEF BasketRows, Seen, Known
<1> HIDE DEF row
<1> QED
  BY <1>1, <1>2, <1>3, IdleFacts, IdleSeen, SaveStep
-----------------------------------------------------------------------------
(* What payments and credits make of an invoice.                           *)
LEMMA PaidByFacts ==
  ASSUME NEW row \in InvoiceRows, SoundRow(row), NEW amount \in Nat
  PROVE  /\ PaidBy(row, amount) \in InvoiceRows
         /\ PaidBy(row, amount).status = row.status
         /\ PaidBy(row, amount).total = row.total
         /\ PaidBy(row, amount).pledged = row.pledged
         /\ PaidBy(row, amount).spent = row.spent
         /\ PaidBy(row, amount).paid = Least(row.total, row.paid + amount)
<1>1. row.total \in Nat /\ row.paid \in Nat
  BY DEF InvoiceRows
<1>2. Least(row.total, row.paid + amount) \in Nat
  BY <1>1 DEF Least
<1> QED
  BY <1>2 DEF PaidBy, InvoiceRows

LEMMA SpendFacts ==
  ASSUME LingoInv, NEW i \in Invoices, invoice[i].status # "none", NEW k \in Nat
  PROVE  /\ Spend(invoice[i], k) \in InvoiceRows /\ Better(i, Spend(invoice[i], k))
         /\ Spend(invoice[i], k).pledged =< invoice[i].pledged
<1> DEFINE old == invoice[i]
           new == Spend(old, k)
<1>1. old \in InvoiceRows /\ SoundRow(old)
  BY DEF LingoInv, LingoTypeOK, InvoicesSound
<1> HIDE DEF old
<1>2. /\ old.total \in Nat /\ old.paid \in Nat /\ old.pledged \in Nat /\ old.spent \in Nat
  BY <1>1 DEF InvoiceRows
<1>3. /\ new \in InvoiceRows /\ new.status = old.status /\ new.total = old.total
      /\ new.pledged = old.pledged /\ new.spent = old.spent + k
      /\ new.paid = Least(old.total, old.paid + k)
  BY <1>1, <1>2, PaidByFacts DEF Spend, InvoiceRows
<1> HIDE DEF new
<1>4. SoundRow(new) /\ (new.paid = new.total \/ new.paid + new.pledged >= old.paid + old.pledged)
  BY <1>1, <1>2, <1>3 DEF SoundRow, Least
<1>5. Better(i, new) /\ new.pledged =< old.pledged
  BY <1>2, <1>3, <1>4 DEF Better, old
<1> QED
  BY <1>3, <1>5 DEF new, old

LEMMA PledgeFacts ==
  ASSUME LingoInv, NEW i \in Invoices, invoice[i].status # "none", NEW k \in Nat
  PROVE  Pledge(invoice[i], k) \in InvoiceRows /\ Better(i, Pledge(invoice[i], k))
<1> DEFINE old == invoice[i]
           new == Pledge(old, k)
<1>1. old \in InvoiceRows /\ SoundRow(old)
  BY DEF LingoInv, LingoTypeOK, InvoicesSound
<1> HIDE DEF old
<1>2. /\ old.total \in Nat /\ old.paid \in Nat /\ old.pledged \in Nat /\ old.spent \in Nat
  BY <1>1 DEF InvoiceRows
<1>3. /\ new \in InvoiceRows /\ new.status = old.status /\ new.total = old.total
      /\ new.pledged = old.pledged + k /\ new.spent = old.spent /\ new.paid = old.paid
  BY <1>1, <1>2 DEF Pledge, InvoiceRows
<1> HIDE DEF new
<1>4. SoundRow(new) /\ new.paid + new.pledged >= old.paid + old.pledged
  BY <1>1, <1>2, <1>3 DEF SoundRow
<1>5. Better(i, new)
  BY <1>3, <1>4 DEF Better, old
<1> QED
  BY <1>3, <1>5 DEF new, old

LEMMA PaidWithCreditsFacts ==
  ASSUME NEW old \in InvoiceRows, SoundRow(old), NEW amount \in Nat, amount >= old.pledged
  PROVE  LET new == PaidWithCredits(old, amount)
         IN  /\ new \in InvoiceRows /\ SoundRow(new)
             /\ new.status = old.status /\ new.total = old.total
             /\ new.pledged =< old.pledged
             /\ new.paid = new.total \/ new.paid + new.pledged >= old.paid + old.pledged
<1> DEFINE new == PaidWithCredits(old, amount)
<1>1. /\ old.total \in Nat /\ old.paid \in Nat /\ old.pledged \in Nat /\ old.spent \in Nat
  BY DEF InvoiceRows
<1>2. CASE amount = 0
  BY <1>1, <1>2 DEF PaidWithCredits
<1>3. CASE amount # 0
  <2>1. /\ new \in InvoiceRows /\ new.status = old.status /\ new.total = old.total
        /\ new.pledged = 0 /\ new.spent = old.pledged + old.spent
        /\ new.paid = Least(old.total, old.paid + amount)
    <3> DEFINE paid == PaidBy(old, amount)
    <3>1. new = [paid EXCEPT !.spent = old.pledged + old.spent, !.pledged = 0]
      BY <1>3 DEF PaidWithCredits
    <3>2. /\ paid \in InvoiceRows /\ paid.status = old.status /\ paid.total = old.total
          /\ paid.paid = Least(old.total, old.paid + amount)
      BY PaidByFacts
    <3> HIDE DEF paid, new
    <3>3. old.pledged + old.spent \in Nat
      BY <1>1
    <3>4. /\ new \in InvoiceRows /\ new.status = paid.status /\ new.total = paid.total
          /\ new.paid = paid.paid
          /\ new.pledged = 0 /\ new.spent = old.pledged + old.spent
      BY <3>1, <3>2, <3>3 DEF InvoiceRows
    <3> QED
      BY <3>2, <3>4
  <2> HIDE DEF new
  <2>2. SoundRow(new) /\ (new.paid = new.total \/ new.paid + new.pledged >= old.paid + old.pledged)
    BY <1>1, <2>1 DEF SoundRow, Least
  <2> QED
    BY <1>1, <2>1, <2>2 DEF new
<1> QED
  BY <1>2, <1>3

LEMMA CreditsAreBetter ==
  ASSUME LingoInv, NEW i \in Invoices, invoice[i].status # "none", NEW amount \in Nat,
         amount >= invoice[i].pledged
  PROVE  LET new == PaidWithCredits(invoice[i], amount)
         IN  new \in InvoiceRows /\ Better(i, new) /\ new.pledged =< invoice[i].pledged
<1>1. invoice[i] \in InvoiceRows /\ SoundRow(invoice[i])
  BY DEF LingoInv, LingoTypeOK, InvoicesSound
<1> QED
  BY <1>1, PaidWithCreditsFacts DEF Better

\* A cancelled invoice, with its credits given back or not.
LEMMA CancelledFacts ==
  ASSUME LingoInv, NEW i \in Invoices, invoice[i].status # "none"
  PROVE  /\ Cancelled(invoice[i]) \in InvoiceRows /\ Better(i, Cancelled(invoice[i]))
         /\ Cancelled(invoice[i]).pledged = invoice[i].pledged
         /\ Cancelled(invoice[i]).status = "cancelled"
         /\ Reverted(Cancelled(invoice[i])) \in InvoiceRows
         /\ Better(i, Reverted(Cancelled(invoice[i])))
         /\ Reverted(Cancelled(invoice[i])).pledged = 0
         /\ invoice[i].status = "cancelled" =>
                /\ Reverted(invoice[i]) \in InvoiceRows /\ Better(i, Reverted(invoice[i]))
                /\ Reverted(invoice[i]).pledged = 0
<1> DEFINE old == invoice[i]
           cancelled == Cancelled(old)
<1>1. old \in InvoiceRows /\ SoundRow(old)
  BY DEF LingoInv, LingoTypeOK, InvoicesSound
<1> HIDE DEF old
<1>2. /\ cancelled \in InvoiceRows /\ SoundRow(cancelled) /\ cancelled.status = "cancelled"
      /\ cancelled.total = old.total /\ cancelled.pledged = old.pledged
  BY <1>1 DEF Cancelled, InvoiceRows, SoundRow
<1>3. ASSUME NEW row \in InvoiceRows, SoundRow(row)
      PROVE  /\ Reverted(row) \in InvoiceRows /\ SoundRow(Reverted(row))
             /\ Reverted(row).status = row.status /\ Reverted(row).total = row.total
             /\ Reverted(row).pledged = 0
  <2>1. /\ Reverted(row) \in InvoiceRows /\ Reverted(row).status = row.status
        /\ Reverted(row).total = row.total /\ Reverted(row).paid = row.paid
        /\ Reverted(row).pledged = 0 /\ Reverted(row).spent = 0
    BY DEF Reverted, InvoiceRows
  <2> QED
    BY <1>3, <2>1 DEF SoundRow, InvoiceRows
<1> HIDE DEF cancelled
<1>4. Better(i, cancelled) /\ Better(i, Reverted(cancelled))
  BY <1>2, <1>3 DEF Better, old
<1>5. old.status = "cancelled" => Better(i, Reverted(old))
  BY <1>1, <1>3 DEF Better, old
<1> QED
  BY <1>1, <1>2, <1>3, <1>4, <1>5 DEF cancelled, old

LEMMA AssignedFacts ==
  ASSUME LingoInv, NEW i \in Invoices
  PROVE  Assigned(i) \in Nat /\ Assigned(i) >= invoice[i].pledged
<1>1. invoice[i] \in InvoiceRows
  BY DEF LingoInv, LingoTypeOK
<1> QED
  BY <1>1 DEF Assigned, InvoiceRows

\* A request changes one invoice, and goes on with what was true before.
LEMMA ChangeStep ==
  ASSUME LingoInv, NEW r \in Requests, NEW q \in RequestStates, Become(r, q), Good(q),
         q.pc # "credits",
         request[r].pc # "record", KeepsMaking(r, q), Seen(r, q.row.invoice),
         NEW i \in Invoices, NEW row \in InvoiceRows, Better(i, row),
         invoice' = [invoice EXCEPT ![i] = row], credit' \in Nat,
         \/ row.pledged =< invoice[i].pledged
         \/ request[r].pc \in MakingPcs /\ request[r].invoice = i,
         UNCHANGED << basket, draft, made, online >>
  PROVE  LingoInv'
<1>1. InvoicesBetter
  <2>1. invoice'[i] = row /\ \A j \in Invoices \ {i} : invoice'[j] = invoice[j]
    BY DEF LingoInv, LingoTypeOK
  <2> QED
    BY <2>1, SameIsBetter DEF InvoicesBetter
<1>2. (Good(q))'
  BY <1>1, GoodKept, TransactionsSame DEF online
<1> QED
  BY <1>2, InvoiceStep
-----------------------------------------------------------------------------
LEMMA PromoteStep ==
  ASSUME LingoInv, NEW r \in Requests, Promote(r)
  PROVE  LingoInv'
<1> DEFINE b == request[r].basket
<1>1. PICK i \in Invoices :
        /\ NextInvoice(i)
        /\ invoice' = [invoice EXCEPT ![i] = [NoInvoice EXCEPT !.status = "due",
                           !.total = IF b = None THEN Price ELSE draft[b]]]
        /\ Become(r, [request[r] EXCEPT !.pc = "refresh", !.invoice = i])
  BY DEF Promote
<1> DEFINE total == IF b = None THEN Price ELSE draft[b]
           row == [NoInvoice EXCEPT !.status = "due", !.total = total]
           q == [request[r] EXCEPT !.pc = "refresh", !.invoice = i]
<1>2. /\ request[r].pc = "promote" /\ UNCHANGED << basket, draft, credit, made, online >>
      /\ invoice[i].status = "none" /\ i # None
  BY <1>1 DEF Promote, At, NextInvoice
<1>3. total \in Nat
  BY RequestFacts DEF LingoInv, LingoTypeOK, RequestStates
<1>4. /\ row.status = "due" /\ row.total = total /\ row.paid = 0 /\ row.pledged = 0
      /\ row.spent = 0 /\ row \in InvoiceRows
  BY <1>3 DEF NoInvoice, InvoiceRows
<1>5. /\ invoice' = [invoice EXCEPT ![i] = row] /\ Become(r, q)
  BY <1>1
<1>6. q \in RequestStates
  BY RequestFacts, UpdatedFacts DEF Pcs
<1>7. /\ q.pc = "refresh" /\ q.invoice = i /\ q.row = request[r].row
      /\ q.basket = request[r].basket /\ q.todo = request[r].todo
  BY RequestFacts DEF RequestStates
<1> HIDE DEF q, row, total, b
<1>8. /\ request' \in [Requests -> RequestStates] /\ request'[r] = q
      /\ \A s \in Requests \ {r} : request'[s] = request[s]
  BY <1>5, <1>6, BecomeFacts DEF LingoInv
<1>9. invoice'[i] = row /\ \A j \in Invoices \ {i} : invoice'[j] = invoice[j]
  BY <1>5 DEF LingoInv, LingoTypeOK
<1>10. InvoicesBetter /\ TransactionsLast
  <2>1. Better(i, row)
    BY <1>2, <1>3, <1>4 DEF Better, SoundRow
  <2>2. InvoicesBetter
    BY <1>9, <2>1, SameIsBetter DEF InvoicesBetter
  <2> QED
    BY <1>2, <2>2, TransactionsSame DEF online
<1>11. LingoTypeOK'
  BY <1>2, <1>4, <1>5, <1>8 DEF LingoInv, LingoTypeOK, online
<1>12. (Good(request[r]))'
  <2> PICK p \in RequestStates : p = request[r]
    BY RequestFacts
  <2>1. (Good(p))'
    BY <1>2, <1>10, RequestFacts, GoodKept
  <2>2. /\ request'[r].pc = "refresh" /\ request'[r].invoice = i /\ request'[r].row = p.row
        /\ request'[r].todo = p.todo
    BY <1>7, <1>8
  <2> QED
    BY <1>2, <1>4, <1>9, <2>1, <2>2
    DEF Good, Refers, Holds, Honest, Pays, Known, OnInvoice, OnBasket, OnBoth
<1>13. Alone(r)
  <2>1. \A a \in Baskets : basket[a].invoice # i
    BY <1>2 DEF LingoInv, BasketsSound, Known
  <2>2. \A s \in Requests \ {r} :
          /\ request[s].row.invoice # i
          /\ request[s].pc \in MakingPcs => request[s].invoice # i
    BY <1>2, RequestFacts DEF Good, Refers, Known, MakingPcs, OnInvoice
  <2>3. (Private(request[r].invoice, r))'
    BY <1>2, <1>7, <1>8, <2>1, <2>2 DEF Private
  <2>4. \A s \in Requests \ {r} :
          request[s].pc \in MakingPcs => request'[r].row.invoice # request[s].invoice
    BY <1>7, <1>8, SeenFacts DEF Seen
  <2> QED
    BY <2>3, <2>4 DEF Alone
<1>14. TransactionsSound' /\ PollSound' /\ RecordedIsPaid' /\ PaidIsFollowed'
  BY <1>2, <1>8, <1>10, OnlineKept, {r} \in SUBSET Requests DEF online
<1>15. \A j \in Invoices : invoice'[j].pledged =< invoice[j].pledged
  <2>1. invoice'[i].pledged = 0 /\ invoice[i].pledged \in Nat
    BY <1>4, <1>9 DEF LingoInv, LingoTypeOK, InvoiceRows
  <2>2. \A j \in Invoices : invoice[j].pledged \in Nat
    BY DEF LingoInv, LingoTypeOK, InvoiceRows
  <2> QED
    BY <1>9, <2>1, <2>2
<1> DEFINE who == {r}
<1>16. who \in SUBSET Requests /\ \A s, u \in who : s = u
  OBVIOUS
<1>17. /\ \A s \in Requests \ who : request'[s] = request[s]
       /\ \A s \in who : (Good(request[s]))' /\ Alone(s)
  BY <1>8, <1>12, <1>13
<1> HIDE DEF who
<1> QED
  BY <1>2, <1>10, <1>11, <1>14, <1>15, <1>16, <1>17, Preserved

LEMMA GrantedFacts ==
  ASSUME LingoInv, NEW r \in Requests
  PROVE  Granted(r) \in Nat /\ credit - Granted(r) \in Nat
<1>1. request[r].limit \in Nat /\ request[r].amount \in Nat /\ credit \in Nat
  BY RequestFacts DEF RequestStates, LingoInv, LingoTypeOK
<1> QED
  BY <1>1 DEF Granted, Least

LEMMA AssignCreditsStep ==
  ASSUME LingoInv, NEW r \in Requests, AssignCredits(r)
  PROVE  LingoInv'
<1> PICK i \in Invoices : i = request[r].invoice
  BY RequestFacts DEF AssignCredits, At, OnInvoice
<1> PICK k \in Nat : k = Granted(r)
  BY GrantedFacts
<1>1. /\ request[r].pc = "assign" /\ request[r].pc \in MakingPcs /\ credit' \in Nat
      /\ UNCHANGED << basket, draft, made, online >> /\ invoice[i].status # "none"
  BY RequestFacts, GrantedFacts DEF AssignCredits, At, OnInvoice, MakingPcs
<1>2. CASE request[r].basket = None
  <2>1. Become(r, Idle) /\ invoice' = [invoice EXCEPT ![i] = Spend(invoice[i], k)]
    BY <1>2 DEF AssignCredits, Return
  <2>2. Idle.pc # "credits"
    BY DEF Idle
  <2> QED
    BY <1>1, <2>1, <2>2, IdleFacts, IdleSeen, SpendFacts, ChangeStep
<1>3. CASE request[r].basket # None
  <2> DEFINE q == [request[r] EXCEPT !.pc = "cover", !.limit = 0]
  <2>1. Become(r, q) /\ invoice' = [invoice EXCEPT ![i] = Pledge(invoice[i], k)]
    BY <1>3 DEF AssignCredits
  <2>2. q \in RequestStates
    BY RequestFacts, UpdatedFacts DEF Pcs
  <2>3. /\ q.pc = "cover" /\ q.row = request[r].row /\ q.invoice = i
        /\ q.basket = request[r].basket /\ q.todo = request[r].todo
    BY RequestFacts DEF RequestStates
  <2> HIDE DEF q
  <2>4. Good(q)
    BY <1>1, <1>3, <2>3, RequestFacts
    DEF Good, Refers, Holds, Honest, Pays, OnInvoice, OnBasket, OnBoth
  <2>5. KeepsMaking(r, q) /\ Seen(r, q.row.invoice)
    BY <1>1, <2>3 DEF KeepsMaking, Seen
  <2>6. q.pc # "credits"
    BY <2>3
  <2> QED
    BY <1>1, <2>1, <2>2, <2>4, <2>5, <2>6, PledgeFacts, ChangeStep
<1> QED
  BY <1>2, <1>3

LEMMA CoverInvoiceStep ==
  ASSUME LingoInv, NEW r \in Requests, CoverInvoice(r)
  PROVE  LingoInv'
<1> PICK i \in Invoices : i = request[r].invoice
  BY RequestFacts DEF CoverInvoice, At, OnInvoice
<1> DEFINE row == IF Assigned(i) = request[r].amount
                  THEN PaidWithCredits(invoice[i], Assigned(i)) ELSE invoice[i]
           q == [request[r] EXCEPT !.pc = "settle", !.amount = 0]
<1>1. /\ request[r].pc = "cover" /\ request[r].pc \in MakingPcs /\ credit' \in Nat
      /\ UNCHANGED << basket, draft, made, online >> /\ invoice[i].status # "none"
      /\ Become(r, q)
  BY RequestFacts DEF CoverInvoice, At, OnInvoice, MakingPcs, LingoInv, LingoTypeOK
<1>2. invoice' = [invoice EXCEPT ![i] = row]
  BY DEF CoverInvoice
<1>3. row \in InvoiceRows /\ Better(i, row)
  <2>1. Assigned(i) \in Nat /\ Assigned(i) >= invoice[i].pledged
    BY AssignedFacts
  <2>2. invoice[i] \in InvoiceRows
    BY DEF LingoInv, LingoTypeOK
  <2> QED
    BY <1>1, <2>1, <2>2, CreditsAreBetter, SameIsBetter
<1>4. q \in RequestStates
  BY RequestFacts, UpdatedFacts DEF Pcs
<1>5. /\ q.pc = "settle" /\ q.row = request[r].row /\ q.invoice = i
      /\ q.basket = request[r].basket /\ q.todo = request[r].todo
  BY RequestFacts DEF RequestStates
<1> HIDE DEF q, row
<1>6. Good(q) /\ q.pc # "credits"
  BY <1>1, <1>5, RequestFacts
  DEF Good, Refers, Holds, Honest, Pays, OnInvoice, OnBasket, OnBoth
<1>7. KeepsMaking(r, q) /\ Seen(r, q.row.invoice)
  BY <1>1, <1>5 DEF KeepsMaking, Seen
<1> QED
  BY <1>1, <1>2, <1>3, <1>4, <1>6, <1>7, ChangeStep
-----------------------------------------------------------------------------
LEMMA CancelInvoiceStep ==
  ASSUME LingoInv, NEW r \in Requests, CancelInvoice(r)
  PROVE  LingoInv'
<1>1. /\ request[r].pc = "cancelinvoice" /\ request[r].row.invoice \in Invoices
      /\ invoice[request[r].row.invoice].status # "none"
  BY RequestFacts
  DEF CancelInvoice, At, Good, Refers, Holds, Known, RequestStates, BasketRows
<1> PICK i \in Invoices : i = request[r].row.invoice
  BY <1>1
<1> DEFINE row == Cancelled(invoice[i])
<1>2. PICK q \in RequestStates : q = [request[r] EXCEPT !.pc = "revert"]
  BY RequestFacts, UpdatedFacts DEF Pcs
<1>3. /\ q.pc = "revert" /\ q.row = request[r].row /\ q.invoice = request[r].invoice
      /\ q.basket = request[r].basket /\ q.todo = request[r].todo
  BY <1>2, RequestFacts DEF RequestStates
<1>4. /\ Become(r, q) /\ invoice' = [invoice EXCEPT ![i] = row] /\ credit' \in Nat
      /\ UNCHANGED << basket, draft, made, online >>
  BY <1>2 DEF CancelInvoice, GoTo, LingoInv, LingoTypeOK
<1>5. /\ row \in InvoiceRows /\ Better(i, row) /\ row.status = "cancelled"
      /\ row.pledged =< invoice[i].pledged
  BY <1>1, CancelledFacts DEF InvoiceRows
<1> HIDE DEF row
<1>6. (Good(q))'
  <2>1. invoice'[i] = row /\ \A j \in Invoices \ {i} : invoice'[j] = invoice[j]
    BY <1>4 DEF LingoInv, LingoTypeOK
  <2>2. InvoicesBetter
    BY <1>5, <2>1, SameIsBetter DEF InvoicesBetter
  <2> PICK p \in RequestStates : p = request[r]
    BY RequestFacts
  <2>3. (Good(p))'
    BY <1>1, <1>4, <2>2, RequestFacts, GoodKept, TransactionsSame DEF online
  <2> QED
    BY <1>1, <1>3, <1>5, <2>1, <2>3
    DEF Good, Refers, Holds, Honest, Pays, OnInvoice, OnBasket, OnBoth
<1>7. KeepsMaking(r, q) /\ Seen(r, q.row.invoice)
  BY <1>3 DEF KeepsMaking, MakingPcs, Seen
<1> QED
  BY <1>1, <1>4, <1>5, <1>6, <1>7, InvoiceStep

LEMMA RevertAssignmentsStep ==
  ASSUME LingoInv, NEW r \in Requests, RevertAssignments(r)
  PROVE  LingoInv'
<1>1. /\ request[r].pc = "revert" /\ request[r].row.invoice \in Invoices
      /\ invoice[request[r].row.invoice].status = "cancelled"
  BY RequestFacts
  DEF RevertAssignments, At, Good, Refers, Holds, Known, RequestStates, BasketRows
<1> PICK i \in Invoices : i = request[r].row.invoice
  BY <1>1
<1> DEFINE row == Reverted(invoice[i])
           q == IF request[r].answer = "denied" THEN [request[r] EXCEPT !.pc = "detach"]
                ELSE Idle
<1>2. /\ Become(r, q) /\ invoice' = [invoice EXCEPT ![i] = row]
      /\ UNCHANGED << basket, draft, made, online >>
  BY DEF RevertAssignments, GoTo, Return
<1>3. credit' \in Nat
  BY AssignedFacts DEF RevertAssignments, LingoInv, LingoTypeOK
<1>4. row \in InvoiceRows /\ Better(i, row) /\ row.pledged =< invoice[i].pledged
  <2>1. row \in InvoiceRows /\ Better(i, row) /\ row.pledged = 0
    BY <1>1, CancelledFacts
  <2>2. invoice[i].pledged \in Nat
    BY DEF LingoInv, LingoTypeOK, InvoiceRows
  <2> QED
    BY <2>1, <2>2
<1>5. q \in RequestStates
  BY RequestFacts, UpdatedFacts, IdleFacts DEF Pcs
<1>6. Good(q) /\ q.pc # "credits" /\ KeepsMaking(r, q) /\ Seen(r, q.row.invoice)
  <2>1. CASE request[r].answer # "denied"
    BY <2>1, IdleFacts, IdleSeen DEF Idle
  <2>2. CASE request[r].answer = "denied"
    <3>1. /\ q.pc = "detach" /\ q.row = request[r].row /\ q.invoice = request[r].invoice
          /\ q.basket = request[r].basket /\ q.todo = request[r].todo
      BY <2>2, RequestFacts DEF RequestStates
    <3> HIDE DEF q
    <3>2. Good(q)
      BY <1>1, <3>1, RequestFacts
      DEF Good, Refers, Holds, Honest, Pays, OnInvoice, OnBasket, OnBoth
    <3> QED
      BY <3>1, <3>2 DEF KeepsMaking, MakingPcs, Seen
  <2> QED
    BY <2>1, <2>2
<1> HIDE DEF q, row
<1> QED
  BY <1>1, <1>2, <1>3, <1>4, <1>5, <1>6, ChangeStep

LEMMA SpreadCreditStep ==
  ASSUME LingoInv, NEW r \in Requests, NEW i \in Invoices, SpreadCredit(r, i)
  PROVE  LingoInv'
<1> DEFINE todo == request[r].todo
           rest == [todo EXCEPT ![i] = 0]
<1>1. /\ request[r].pc = "spread" /\ todo \in [Invoices -> Nat] /\ todo[i] > 0
      /\ request[r].limit \in Nat /\ credit \in Nat
      /\ UNCHANGED << basket, draft, made, online >>
  BY RequestFacts DEF SpreadCredit, At, RequestStates, LingoInv, LingoTypeOK
<1>2. invoice[i].status # "none"
  BY <1>1, RequestFacts DEF Good, Refers, Known
<1> PICK k \in Nat : /\ k = Least(credit, Least(request[r].limit, todo[i]))
                     /\ credit - k \in Nat /\ request[r].limit - k \in Nat
  BY <1>1, SMTT(30) DEF Least
<1> DEFINE done == request[r].limit = k \/ \A j \in Invoices : rest[j] = 0
           q == IF done THEN Idle
                ELSE [request[r] EXCEPT !.todo = rest, !.limit = @ - k]
<1>3. Become(r, q)
  BY DEF SpreadCredit, Return
<1>4. invoice' = [invoice EXCEPT ![i] = Spend(invoice[i], k)] /\ credit' \in Nat
  BY DEF SpreadCredit
<1>5. rest \in [Invoices -> Nat] /\ \A j \in Invoices : rest[j] > 0 => todo[j] > 0
  BY <1>1
<1>6. CASE done
  <2>1. q = Idle /\ Idle.pc # "credits"
    BY <1>6 DEF Idle
  <2> QED
    BY <1>1, <1>2, <1>3, <1>4, <2>1, IdleFacts, IdleSeen, SpendFacts, ChangeStep, ZenonT(60)
<1>7. CASE ~done
  <2> HIDE DEF rest
  <2>1. q \in RequestStates
    <3> PICK n \in Nat : n = request[r].limit - k
      OBVIOUS
    <3> PICK p \in RequestStates : p = request[r]
      BY RequestFacts
    <3>1. q = [p EXCEPT !.todo = rest, !.limit = n]
      BY <1>7
    <3> HIDE DEF q
    <3> QED
      BY <1>5, <3>1 DEF RequestStates
  <2>2. /\ q.pc = "spread" /\ q.row = request[r].row /\ q.invoice = request[r].invoice
        /\ q.basket = request[r].basket /\ q.todo = rest
    BY <1>1, <1>5, <1>7, RequestFacts DEF RequestStates
  <2> HIDE DEF q, done
  <2>3. Good(q) /\ q.pc # "credits"
    BY <1>1, <1>5, <2>2, RequestFacts
    DEF Good, Refers, Holds, Honest, Pays, OnInvoice, OnBasket, OnBoth
  <2>4. KeepsMaking(r, q) /\ Seen(r, q.row.invoice)
    BY <2>2 DEF KeepsMaking, MakingPcs, Seen
  <2> QED
    BY <1>1, <1>2, <1>3, <1>4, <2>1, <2>3, <2>4, SpendFacts, ChangeStep
<1> QED
  BY <1>6, <1>7

LEMMA PayCreditsStep ==
  ASSUME LingoInv, NEW r \in Requests, PayCredits(r)
  PROVE  LingoInv'
<1>1. /\ request[r].pc = "credits" /\ request[r].invoice \in Invoices
      /\ invoice[request[r].invoice].status # "none"
      /\ request[r].amount \in Nat
      /\ request[r].amount >= invoice[request[r].invoice].pledged
  BY RequestFacts DEF PayCredits, At, Good, Pays, OnInvoice, RequestStates
<1> PICK i \in Invoices : i = request[r].invoice
  BY <1>1
<1> DEFINE row == PaidWithCredits(invoice[i], request[r].amount)
           q == [request[r] EXCEPT !.pc = "complete"]
<1>2. /\ Become(r, q) /\ invoice' = [invoice EXCEPT ![i] = row] /\ credit' \in Nat
      /\ UNCHANGED << basket, draft, made, online >>
  BY DEF PayCredits, GoTo, LingoInv, LingoTypeOK
<1>3. row \in InvoiceRows /\ Better(i, row) /\ row.pledged =< invoice[i].pledged
  BY <1>1, CreditsAreBetter
<1>4. q \in RequestStates
  BY RequestFacts, UpdatedFacts DEF Pcs
<1>5. /\ q.pc = "complete" /\ q.row = request[r].row /\ q.invoice = i
      /\ q.basket = request[r].basket /\ q.todo = request[r].todo
  BY RequestFacts DEF RequestStates
<1> HIDE DEF q, row
<1>6. Good(q) /\ q.pc # "credits"
  BY <1>1, <1>5, RequestFacts
  DEF Good, Refers, Holds, Honest, Pays, OnInvoice, OnBasket, OnBoth
<1>7. KeepsMaking(r, q) /\ Seen(r, q.row.invoice)
  BY <1>5 DEF KeepsMaking, MakingPcs, Seen
<1> QED
  BY <1>1, <1>2, <1>3, <1>4, <1>6, <1>7, ChangeStep
-----------------------------------------------------------------------------
(* Steps on transactions.                                                  *)
LEMMA TransactionsKept ==
  ASSUME LingoInv, InvoicesBetter, UNCHANGED << transaction, bank >>
  PROVE  TransactionsSound'
<1>1. ASSUME NEW t \in Transactions, transaction[t].status # "none"
      PROVE  /\ (Known(transaction[t].invoice))'
             /\ (Covers(transaction[t].invoice, transaction[t].amount))'
  <2>1. PICK i \in Invoices, a \in Nat :
          i = transaction[t].invoice /\ a = transaction[t].amount
    BY <1>1 DEF LingoInv, LingoTypeOK, TransactionsSound, TransactionRows
  <2>2. (Known(i))' /\ (Covers(i, a))'
    BY <1>1, <2>1, InvoiceKept DEF LingoInv, TransactionsSound, Known
  <2> QED
    BY <2>1, <2>2 DEF Known, Covers
<1> QED
  BY <1>1 DEF LingoInv, TransactionsSound

\* A request leaves the rows of the baskets and of the invoices alone.
LEMMA OnlineStep ==
  ASSUME LingoInv, NEW r \in Requests, NEW q \in RequestStates, Become(r, q), (Good(q))',
         q.pc \notin MakingPcs, Seen(r, q.row.invoice), LingoTypeOK',
         UNCHANGED billing, TransactionsLast,
         TransactionsSound', PollSound', RecordedIsPaid', PaidIsFollowed'
  PROVE  LingoInv'
<1>1. /\ request' \in [Requests -> RequestStates] /\ request'[r] = q
      /\ \A s \in Requests \ {r} : request'[s] = request[s]
  BY BecomeFacts DEF LingoInv
<1>2. InvoicesBetter
  BY InvoicesSame DEF billing
<1>3. (Good(request[r]))'
  BY <1>1 DEF Good, Refers, Holds, Honest, Pays, Known, Covers, TrueAnswer
<1>4. Alone(r)
  BY AloneFacts DEF KeepsMaking, billing
<1>5. \A i \in Invoices : invoice'[i].pledged =< invoice[i].pledged
  BY DEF LingoInv, LingoTypeOK, InvoiceRows, billing
<1> DEFINE who == {r}
<1>6. who \in SUBSET Requests /\ \A s, u \in who : s = u
  OBVIOUS
<1>7. /\ \A s \in Requests \ who : request'[s] = request[s]
      /\ \A s \in who : (Good(request[s]))' /\ Alone(s)
  BY <1>1, <1>3, <1>4
<1> HIDE DEF who
<1> QED
  BY <1>2, <1>5, <1>6, <1>7, Preserved DEF billing

LEMMA AbortStep ==
  ASSUME LingoInv, NEW r \in Requests, Abort(r)
  PROVE  LingoInv'
<1>1. /\ Become(r, Idle) /\ UNCHANGED << billing, transaction, bank, polled, recorded >>
      /\ lost \subseteq lost'
      /\ request[r].pc = "record" => request[r].transaction \in lost'
  BY DEF Abort, At, Return
<1>2. /\ request' \in [Requests -> RequestStates]
      /\ \A s \in Requests \ {r} : request'[s] = request[s]
  BY <1>1, IdleFacts, BecomeFacts DEF LingoInv
<1>3. LingoTypeOK'
  <2>1. lost' \in SUBSET Transactions
    <3>1. CASE request[r].pc = "record"
      BY <3>1, RequestFacts, ZenonT(60)
      DEF Abort, At, Good, Honest, RequestStates, LingoInv, LingoTypeOK
    <3>2. CASE request[r].pc # "record"
      BY <3>2 DEF Abort, At, LingoInv, LingoTypeOK
    <3> QED
      BY <3>1, <3>2
  <2> QED
    BY <1>1, <1>2, <2>1 DEF LingoInv, LingoTypeOK, billing
<1>4. InvoicesBetter /\ TransactionsLast
  BY <1>1, InvoicesSame, TransactionsSame DEF billing
<1>5. TransactionsSound' /\ PollSound' /\ RecordedIsPaid' /\ PaidIsFollowed'
  BY <1>1, <1>2, <1>4, OnlineKept, {r} \in SUBSET Requests
<1> QED
  BY <1>1, <1>3, <1>4, <1>5, IdleFacts, IdleSeen, OnlineStep

LEMMA PayStep ==
  ASSUME LingoInv, NEW r \in Requests, Pay(r)
  PROVE  LingoInv'
<1>1. PICK t \in Transactions, known \in {"none", "waiting"} :
        /\ NextTransaction(t)
        /\ transaction' = [transaction EXCEPT ![t] = [status |-> "started",
               invoice |-> request[r].invoice, amount |-> request[r].amount]]
        /\ bank' = [bank EXCEPT ![t] = known]
  BY DEF Pay
<1> DEFINE row == [status |-> "started", invoice |-> request[r].invoice,
                   amount |-> request[r].amount]
<1>2. /\ request[r].pc = "pay" /\ Become(r, Idle) /\ transaction[t].status = "none"
      /\ UNCHANGED << billing, polled, recorded, lost >>
  BY <1>1 DEF Pay, At, Return, NextTransaction
<1>3. /\ request[r].invoice \in Invoices /\ Known(request[r].invoice)
      /\ Covers(request[r].invoice, request[r].amount) /\ request[r].amount \in Nat
  BY <1>2, RequestFacts DEF Good, Refers, Pays, OnInvoice, RequestStates
<1>4. /\ transaction'[t] = row /\ bank'[t] = known /\ row \in TransactionRows
      /\ \A u \in Transactions \ {t} : transaction'[u] = transaction[u] /\ bank'[u] = bank[u]
  BY <1>1, <1>3 DEF LingoInv, LingoTypeOK, TransactionRows
<1>5. /\ request' \in [Requests -> RequestStates]
      /\ \A s \in Requests \ {r} : request'[s] = request[s]
  BY <1>2, IdleFacts, BecomeFacts DEF LingoInv
<1>6. LingoTypeOK'
  BY <1>1, <1>2, <1>4, <1>5 DEF LingoInv, LingoTypeOK, billing
<1>7. TransactionsLast
  BY <1>2, <1>4 DEF TransactionsLast
<1>8. TransactionsSound'
  <2>1. ASSUME NEW u \in Transactions, u # t, transaction[u].status # "none"
        PROVE  /\ (Known(transaction[u].invoice))'
               /\ (Covers(transaction[u].invoice, transaction[u].amount))'
    BY <1>2, <1>4, <2>1 DEF LingoInv, TransactionsSound, Known, Covers, billing
  <2>2. /\ (Known(transaction[t].invoice))' /\ transaction'[t].invoice # None
        /\ (Covers(transaction[t].invoice, transaction[t].amount))'
        /\ transaction'[t].status = "started"
    BY <1>2, <1>3, <1>4 DEF Known, Covers, billing
  <2> QED
    BY <1>4, <2>1, <2>2 DEF LingoInv, TransactionsSound
<1>9. PollSound' /\ RecordedIsPaid'
  <2>1. bank[t] = "none" /\ t \notin recorded /\ (polled # None => polled.transaction # t)
    BY <1>2 DEF LingoInv, TransactionsSound, RecordedIsPaid, PollSound
  <2>2. polled # None => polled.transaction \in Transactions
    BY DEF LingoInv, LingoTypeOK
  <2>3. recorded \subseteq Transactions
    BY DEF LingoInv, LingoTypeOK
  <2> QED
    BY <1>2, <1>4, <2>1, <2>2, <2>3 DEF LingoInv, PollSound, RecordedIsPaid, TrueAnswer
<1>10. PaidIsFollowed'
  BY <1>2, <1>4, <1>5 DEF LingoInv, PaidIsFollowed, At
<1> QED
  BY <1>2, <1>6, <1>7, <1>8, <1>9, <1>10, IdleFacts, IdleSeen, OnlineStep

LEMMA SaveStatusStep ==
  ASSUME LingoInv, NEW r \in Requests, SaveStatus(r)
  PROVE  LingoInv'
<1> PICK t \in Transactions, answer \in Answers :
      /\ t = request[r].transaction /\ answer = request[r].answer
      /\ transaction[t].status # "none" /\ TrueAnswer(t, answer)
      /\ request[r].invoice = transaction[t].invoice
  BY RequestFacts DEF SaveStatus, At, Good, Honest, RequestStates
<1>1. /\ request[r].pc = "status" /\ UNCHANGED << billing, bank, polled, recorded, lost >>
      /\ transaction' = [transaction EXCEPT ![t].status = answer]
  BY DEF SaveStatus, At
<1>2. /\ transaction'[t].status = answer /\ transaction'[t].invoice = transaction[t].invoice
      /\ transaction'[t].amount = transaction[t].amount
      /\ transaction' \in [Transactions -> TransactionRows]
      /\ \A u \in Transactions \ {t} : transaction'[u] = transaction[u]
  <2> DEFINE row == [transaction[t] EXCEPT !.status = answer]
  <2>1. /\ transaction \in [Transactions -> TransactionRows]
        /\ transaction' = [transaction EXCEPT ![t] = row]
    BY <1>1 DEF LingoInv, LingoTypeOK
  <2>2. /\ row \in TransactionRows /\ row.status = answer
        /\ row.invoice = transaction[t].invoice /\ row.amount = transaction[t].amount
    BY <2>1 DEF TransactionRows, Answers
  <2> HIDE DEF row
  <2> QED
    BY <2>1, <2>2
<1>3. PICK q \in RequestStates :
        /\ Become(r, q)
        /\ \/ answer = "paid" /\ q = [request[r] EXCEPT !.pc = "record"]
           \/ answer = "received" /\ q = Idle
           \/ answer = "denied" /\ q = [request[r] EXCEPT !.pc = "reopen"]
  BY RequestFacts, UpdatedFacts, IdleFacts
  DEF SaveStatus, GoTo, Return, PaidStatuses, Running, Answers, Pcs
<1>4. /\ request' \in [Requests -> RequestStates] /\ request'[r] = q
      /\ \A s \in Requests \ {r} : request'[s] = request[s]
  BY <1>3, BecomeFacts DEF LingoInv
<1>5. LingoTypeOK'
  BY <1>1, <1>2, <1>4 DEF LingoInv, LingoTypeOK, billing
<1>6. TransactionsLast
  BY <1>1, <1>2 DEF TransactionsLast, Answers
<1>7. /\ (Good(q))' /\ q.pc \notin MakingPcs /\ Seen(r, q.row.invoice)
      /\ answer = "paid" => q.pc = "record" /\ q.transaction = t
  <2>1. CASE answer = "received"
    BY <1>3, <2>1, IdleFacts, IdleSeen
  <2>2. CASE answer # "received"
    <3>1. /\ q.row = request[r].row /\ q.invoice = request[r].invoice
          /\ q.todo = request[r].todo
          /\ q.transaction = t /\ q.answer = answer
          /\ q.pc = IF answer = "paid" THEN "record" ELSE "reopen"
      BY <1>3, <2>2, RequestFacts DEF RequestStates
    <3>2. Good(request[r]) /\ transaction'[t].invoice = q.invoice /\ transaction'[t].status # "none"
      BY <1>2, <3>1, RequestFacts DEF Answers
    <3>3. (Refers(q))'
      BY <1>1, <3>1, <3>2 DEF Good, Refers, Known, billing
    <3>4. (Holds(q))'
      BY <1>1, <3>1, <3>2 DEF Good, Holds, OnInvoice, OnBasket, OnBoth
    <3>5. (Honest(q))'
      BY <1>1, <3>1, <3>2 DEF Honest, TrueAnswer, Answers
    <3>6. (Pays(q))' /\ q.pc \notin MakingPcs /\ Seen(r, q.row.invoice)
      BY <3>1 DEF Pays, MakingPcs, Seen
    <3> QED
      BY <3>1, <3>3, <3>4, <3>5, <3>6 DEF Good
  <2> QED
    BY <2>1, <2>2
<1>8. TransactionsSound'
  <2>1. ASSUME NEW u \in Transactions, transaction[u].status # "none"
        PROVE  /\ (Known(transaction[u].invoice))' /\ transaction'[u].invoice # None
               /\ (Covers(transaction[u].invoice, transaction[u].amount))'
    <3>1. /\ Known(transaction[u].invoice) /\ transaction[u].invoice # None
          /\ Covers(transaction[u].invoice, transaction[u].amount)
      BY <2>1 DEF LingoInv, TransactionsSound
    <3>2. transaction'[u].invoice = transaction[u].invoice
      BY <1>2
    <3> QED
      BY <1>1, <3>1, <3>2 DEF Known, Covers, billing
  <2>2. answer \in {"paid", "denied"} => bank'[t] = answer
    BY <1>1 DEF TrueAnswer
  <2>3. ASSUME NEW u \in Transactions \ {t}
        PROVE  /\ transaction'[u].status = "none" => bank'[u] = "none"
               /\ transaction'[u].status \in {"paid", "denied"} =>
                        bank'[u] = transaction'[u].status
    BY <1>1, <1>2 DEF LingoInv, TransactionsSound
  <2>4. transaction'[t].status # "none"
    BY <1>2 DEF Answers
  <2> QED
    BY <1>2, <2>1, <2>2, <2>3, <2>4 DEF TransactionsSound
<1>9. PollSound' /\ RecordedIsPaid'
  <2>1. polled # None => transaction'[polled.transaction].status # "none"
    BY <1>2 DEF LingoInv, LingoTypeOK, PollSound, Answers
  <2> QED
    BY <1>1, <2>1 DEF LingoInv, PollSound, RecordedIsPaid, TrueAnswer
<1>10. PaidIsFollowed'
  <2>1. ASSUME bank[t] = "paid"
        PROVE  \/ \E s \in Requests : request'[s].pc = "record" /\ request'[s].transaction = t
               \/ transaction'[t].status \in {"started", "received"}
    BY <1>2, <1>4, <1>7, <2>1 DEF TrueAnswer
  <2> QED
    BY <1>1, <1>2, <1>4, <2>1, SMTT(30) DEF LingoInv, PaidIsFollowed, At
<1> QED
  BY <1>1, <1>3, <1>5, <1>6, <1>7, <1>8, <1>9, <1>10, OnlineStep

\* What an online payment makes of its invoice, and of the credits pledged to it.
LEMMA PaidCovers ==
  ASSUME LingoInv, NEW i \in Invoices, invoice[i].status # "none", NEW amount \in Nat,
         Covers(i, amount)
  PROVE  LET row == PaidBy(invoice[i], amount)
             new == PaidWithCredits(row, Assigned(i))
         IN  /\ row \in InvoiceRows /\ Better(i, row) /\ row.pledged =< invoice[i].pledged
             /\ row.status # "none"
             /\ row.status = "cancelled" \/ row.paid + row.pledged >= row.total
             /\ new \in InvoiceRows /\ Better(i, new) /\ new.pledged =< invoice[i].pledged
             /\ new.status # "none"
             /\ new.status = "cancelled" \/ new.paid + new.pledged >= new.total
<1> DEFINE old == invoice[i]
           row == PaidBy(old, amount)
           new == PaidWithCredits(row, Assigned(i))
<1>1. old \in InvoiceRows /\ SoundRow(old)
  BY DEF LingoInv, LingoTypeOK, InvoicesSound
<1>2. Assigned(i) \in Nat /\ Assigned(i) >= old.pledged
  BY AssignedFacts
<1>3. old.status # "none"
  OBVIOUS
<1>4. \/ old.status = "cancelled"
      \/ old.paid + old.pledged + amount >= old.total
  BY DEF Covers
<1> HIDE DEF old
<1>5. /\ old.total \in Nat /\ old.paid \in Nat /\ old.pledged \in Nat /\ old.spent \in Nat
      /\ old.paid =< old.total /\ (old.paid >= old.spent \/ old.paid = old.total)
  BY <1>1 DEF InvoiceRows, SoundRow
<1>6. /\ row \in InvoiceRows /\ row.status = old.status /\ row.total = old.total
      /\ row.pledged = old.pledged /\ row.spent = old.spent
      /\ row.paid = Least(old.total, old.paid + amount)
  BY <1>1, PaidByFacts
<1> HIDE DEF row
<1>7. /\ SoundRow(row) /\ row.paid \in Nat /\ row.paid >= old.paid
      /\ row.status = "cancelled" \/ row.paid + row.pledged >= row.total
  BY <1>4, <1>5, <1>6 DEF SoundRow, Least
<1>8. Better(i, row) /\ row.pledged =< old.pledged
  <2>1. row.paid + row.pledged >= old.paid + old.pledged /\ old.pledged =< old.pledged
    BY <1>5, <1>6, <1>7
  <2> QED
    BY <1>3, <1>6, <1>7, <2>1 DEF Better, old
<1>9. /\ new \in InvoiceRows /\ SoundRow(new)
      /\ new.status = old.status /\ new.total = old.total /\ new.pledged =< old.pledged
      /\ new.paid = new.total \/ new.paid + new.pledged >= row.paid + row.pledged
  BY <1>2, <1>6, <1>7, PaidWithCreditsFacts
<1> HIDE DEF new
<1>10. new.total \in Nat /\ new.paid \in Nat /\ new.pledged \in Nat
  BY <1>9 DEF InvoiceRows
<1>11. /\ new.status = "cancelled" \/ new.paid + new.pledged >= new.total
       /\ new.paid = new.total \/ new.paid + new.pledged >= old.paid + old.pledged
  BY <1>5, <1>6, <1>7, <1>9, <1>10
<1>12. Better(i, new)
  BY <1>3, <1>9, <1>11 DEF Better, old
<1> QED
  BY <1>3, <1>6, <1>7, <1>8, <1>9, <1>11, <1>12 DEF old, row, new

LEMMA RecordPaymentStep ==
  ASSUME LingoInv, NEW r \in Requests, RecordPayment(r)
  PROVE  LingoInv'
<1>1. /\ request[r].pc = "record"
      /\ UNCHANGED << basket, draft, credit, made, transaction, bank, polled, lost >>
  BY DEF RecordPayment, At
<1> PICK t \in Transactions, i \in Invoices, amount \in Nat :
      /\ t = request[r].transaction /\ i = request[r].invoice
      /\ i = transaction[t].invoice /\ amount = transaction[t].amount
      /\ transaction[t].status # "none" /\ bank[t] = "paid"
  <2>1. /\ request[r].transaction \in Transactions
        /\ request[r].invoice = transaction[request[r].transaction].invoice
        /\ transaction[request[r].transaction].status # "none"
        /\ bank[request[r].transaction] = "paid"
    BY <1>1, RequestFacts DEF Good, Honest, TrueAnswer, RequestStates
  <2>2. /\ transaction[request[r].transaction].amount \in Nat
        /\ transaction[request[r].transaction].invoice \in Invoices
    BY <2>1 DEF LingoInv, LingoTypeOK, TransactionRows, TransactionsSound
  <2> QED
    BY <2>1, <2>2
<1> DEFINE row == PaidBy(invoice[i], amount)
<1>2. invoice[i].status # "none" /\ Covers(i, amount)
  BY DEF LingoInv, TransactionsSound, Known
<1>3. /\ row \in InvoiceRows /\ Better(i, row) /\ row.pledged =< invoice[i].pledged
      /\ row.status # "none"
      /\ row.status = "cancelled" \/ row.paid + row.pledged >= row.total
  BY <1>2, PaidCovers
<1>4. PICK q \in RequestStates : q = [request[r] EXCEPT !.pc = "signal"] /\ Become(r, q)
  BY RequestFacts, UpdatedFacts DEF RecordPayment, GoTo, Pcs
<1>5. /\ q.pc = "signal" /\ q.row = request[r].row /\ q.invoice = i
      /\ q.todo = request[r].todo
  BY <1>4, RequestFacts DEF RequestStates
<1>6. invoice' = [invoice EXCEPT ![i] = row] /\ recorded' = recorded \cup {t}
  BY DEF RecordPayment
<1> HIDE DEF row
<1>7. invoice'[i] = row /\ \A j \in Invoices \ {i} : invoice'[j] = invoice[j]
  BY <1>6 DEF LingoInv, LingoTypeOK
<1>8. /\ request' \in [Requests -> RequestStates] /\ request'[r] = q
      /\ \A s \in Requests \ {r} : request'[s] = request[s]
  BY <1>4, BecomeFacts DEF LingoInv
<1>9. InvoicesBetter /\ TransactionsLast
  <2>1. InvoicesBetter
    BY <1>3, <1>7, SameIsBetter DEF InvoicesBetter
  <2> QED
    BY <1>1, <2>1, TransactionsSame
<1>10. LingoTypeOK'
  BY <1>1, <1>3, <1>6, <1>8 DEF LingoInv, LingoTypeOK
<1>11. (Good(request[r]))'
  <2>1. (Covers(i, 0))'
    <3>1. row.paid + row.pledged + 0 = row.paid + row.pledged
      BY <1>3 DEF InvoiceRows
    <3> QED
      BY <1>3, <1>7, <3>1 DEF Covers
  <2> PICK p \in RequestStates : p = request[r]
    BY RequestFacts
  <2>2. (Good(p))' /\ p.invoice = i
    BY <1>1, <1>9, RequestFacts, GoodKept
  <2>3. (Good(q))'
    BY <1>5, <2>1, <2>2
    DEF Good, Refers, Holds, Honest, Pays, OnInvoice, OnBasket, OnBoth
  <2> QED
    BY <1>8, <2>3 DEF Good, Refers, Holds, Honest, Pays, Known, Covers, TrueAnswer
<1>12. Alone(r)
  BY <1>1, <1>4, <1>5, AloneFacts DEF KeepsMaking, MakingPcs, Seen
<1>13. TransactionsSound'
  BY <1>1, <1>9, TransactionsKept
<1>14. PollSound' /\ RecordedIsPaid'
  BY <1>1, <1>6 DEF LingoInv, PollSound, RecordedIsPaid, TrueAnswer
<1>15. PaidIsFollowed'
  BY <1>1, <1>6, <1>8 DEF LingoInv, PaidIsFollowed, At
<1>16. \A j \in Invoices : invoice'[j].pledged =< invoice[j].pledged
  <2>1. \A j \in Invoices : invoice[j].pledged \in Nat
    BY DEF LingoInv, LingoTypeOK, InvoiceRows
  <2> QED
    BY <1>3, <1>7, <2>1
<1> DEFINE who == {r}
<1>17. who \in SUBSET Requests /\ \A s, u \in who : s = u
  OBVIOUS
<1>18. /\ \A s \in Requests \ who : request'[s] = request[s]
       /\ \A s \in who : (Good(request[s]))' /\ Alone(s)
  BY <1>8, <1>11, <1>12
<1> HIDE DEF who
<1> QED
  BY <1>1, <1>9, <1>10, <1>13, <1>14, <1>15, <1>16, <1>17, <1>18, Preserved
-----------------------------------------------------------------------------
(* Steps of no request.                                                    *)
LEMMA NobodyStep ==
  ASSUME LingoInv, LingoTypeOK', InvoicesBetter, TransactionsLast, UNCHANGED request,
         \A b \in Baskets : basket'[b] = basket[b] \/ SavedWell(b),
         \A i \in Invoices : invoice'[i].pledged =< invoice[i].pledged,
         TransactionsSound', PollSound', RecordedIsPaid', PaidIsFollowed'
  PROVE  LingoInv'
<1> DEFINE who == {}
<1>1. /\ who \in SUBSET Requests /\ \A s, u \in who : s = u
      /\ \A s \in Requests \ who : request'[s] = request[s]
      /\ \A s \in who : (Good(request[s]))' /\ Alone(s)
  OBVIOUS
<1> HIDE DEF who
<1> QED
  BY <1>1, Preserved

LEMMA ExpireBasketStep ==
  ASSUME LingoInv, NEW b \in Baskets, ExpireBasket(b)
  PROVE  LingoInv'
<1> PICK i \in Invoices \cup {None} : i = basket[b].invoice
  BY DEF LingoInv, LingoTypeOK, BasketRows
<1>1. /\ UNCHANGED << draft, made, online, request >>
      /\ basket' = [basket EXCEPT ![b].status = "expired"]
  BY DEF ExpireBasket
<1>2. /\ basket' \in [Baskets -> BasketRows] /\ basket'[b].status = "expired"
      /\ basket'[b].invoice = i
      /\ \A a \in Baskets \ {b} : basket'[a] = basket[a]
  <2> DEFINE row == [basket[b] EXCEPT !.status = "expired"]
  <2>1. row \in BasketRows /\ row.status = "expired" /\ row.invoice = i
    BY DEF LingoInv, LingoTypeOK, BasketRows
  <2>2. basket' = [basket EXCEPT ![b] = row] /\ basket \in [Baskets -> BasketRows]
    BY <1>1 DEF LingoInv, LingoTypeOK
  <2> HIDE DEF row
  <2> QED
    BY <2>1, <2>2
<1>3. /\ invoice' \in [Invoices -> InvoiceRows] /\ credit' \in Nat /\ InvoicesBetter
      /\ \A j \in Invoices : invoice'[j].pledged =< invoice[j].pledged
  <2>1. \A j \in Invoices : invoice[j].pledged \in Nat
    BY DEF LingoInv, LingoTypeOK, InvoiceRows
  <2>2. CASE i = None
    <3>1. UNCHANGED << invoice, credit >>
      BY <2>2 DEF ExpireBasket
    <3> QED
      BY <2>1, <3>1, InvoicesSame, SMTT(30) DEF LingoInv, LingoTypeOK
  <2>3. CASE i # None
    <3> DEFINE row == Reverted(Cancelled(invoice[i]))
    <3>1. invoice' = [invoice EXCEPT ![i] = row] /\ credit' = credit + Assigned(i)
      BY <2>3 DEF ExpireBasket
    <3>2. invoice[i].status # "none"
      BY <2>3 DEF LingoInv, BasketsSound, Known
    <3>3. row \in InvoiceRows /\ Better(i, row) /\ row.pledged = 0
      BY <2>3, <3>2, CancelledFacts
    <3> HIDE DEF row
    <3>4. invoice'[i] = row /\ \A j \in Invoices \ {i} : invoice'[j] = invoice[j]
      BY <2>3, <3>1 DEF LingoInv, LingoTypeOK
    <3>5. credit' \in Nat
      <4>1. credit \in Nat /\ Assigned(i) \in Nat
        BY <2>3, AssignedFacts DEF LingoInv, LingoTypeOK
      <4> QED
        BY <3>1, <4>1
    <3>6. InvoicesBetter
      BY <3>3, <3>4, SameIsBetter DEF InvoicesBetter
    <3>7. invoice' \in [Invoices -> InvoiceRows]
      BY <3>1, <3>3 DEF LingoInv, LingoTypeOK
    <3> QED
      BY <2>1, <3>3, <3>4, <3>5, <3>6, <3>7
  <2> QED
    BY <2>2, <2>3
<1>4. LingoTypeOK' /\ TransactionsLast
  BY <1>1, <1>2, <1>3, TransactionsSame DEF LingoInv, LingoTypeOK, online
<1>5. SavedWell(b)
  <2>1. i = None \/ invoice'[i].status # "none"
    BY <1>3, InvoiceKept DEF LingoInv, BasketsSound, Known
  <2>2. \A s \in Requests : request[s].pc \in MakingPcs => request[s].invoice # i
    BY DEF LingoInv, Private
  <2> QED
    BY <1>1, <1>2, <2>1, <2>2 DEF SavedWell
<1>6. TransactionsSound' /\ PollSound' /\ RecordedIsPaid' /\ PaidIsFollowed'
  BY <1>1, <1>3, OnlineKept, {} \in SUBSET Requests DEF online
<1> QED
  BY <1>1, <1>2, <1>3, <1>4, <1>5, <1>6, NobodyStep

LEMMA BankAnswersStep ==
  ASSUME LingoInv, NEW t \in Transactions, BankAnswers(t)
  PROVE  LingoInv'
<1>1. PICK end \in {"paid", "denied"} : bank' = [bank EXCEPT ![t] = end]
  BY DEF BankAnswers
<1>2. /\ bank[t] = "waiting" /\ bank'[t] = end
      /\ \A u \in Transactions \ {t} : bank'[u] = bank[u]
      /\ UNCHANGED << billing, transaction, polled, recorded, lost, request >>
  BY <1>1 DEF BankAnswers, LingoInv, LingoTypeOK
<1>3. LingoTypeOK'
  BY <1>1, <1>2 DEF LingoInv, LingoTypeOK, billing
<1>4. InvoicesBetter /\ TransactionsLast
  BY <1>2, InvoicesSame DEF TransactionsLast, billing
<1>5. transaction[t].status \in {"started", "received"}
  BY <1>2 DEF LingoInv, LingoTypeOK, TransactionRows, TransactionsSound
<1>6. TransactionsSound'
  BY <1>2, <1>5 DEF LingoInv, TransactionsSound, Known, Covers, billing
<1>7. PollSound' /\ RecordedIsPaid'
  <2>1. ASSUME polled # None
        PROVE  (TrueAnswer(polled.transaction, polled.answer))'
    BY <1>2, <2>1 DEF LingoInv, LingoTypeOK, PollSound, TrueAnswer, Answers
  <2>2. recorded \subseteq Transactions \ {t}
    BY <1>2 DEF LingoInv, LingoTypeOK, RecordedIsPaid
  <2> QED
    BY <1>2, <2>1, <2>2 DEF LingoInv, PollSound, RecordedIsPaid
<1>8. PaidIsFollowed'
  BY <1>2, <1>5 DEF LingoInv, PaidIsFollowed, At
<1>9. \A i \in Invoices : invoice'[i].pledged =< invoice[i].pledged
  BY <1>2 DEF LingoInv, LingoTypeOK, InvoiceRows, billing
<1>10. basket' = basket
  BY <1>2 DEF billing
<1> QED
  BY <1>2, <1>3, <1>4, <1>6, <1>7, <1>8, <1>9, <1>10, NobodyStep

LEMMA PollAskStep ==
  ASSUME LingoInv, NEW t \in Transactions, PollAsk(t)
  PROVE  LingoInv'
<1>1. /\ polled' = [transaction |-> t, answer |-> Current(t)]
      /\ transaction[t].status # "none"
      /\ UNCHANGED << billing, transaction, bank, recorded, lost, request >>
  BY DEF PollAsk, Running
<1>2. Current(t) \in Answers /\ TrueAnswer(t, Current(t))
  BY CurrentTrue DEF PollAsk
<1>3. LingoTypeOK'
  BY <1>1, <1>2 DEF LingoInv, LingoTypeOK, billing
<1>4. InvoicesBetter /\ TransactionsLast
  BY <1>1, InvoicesSame, TransactionsSame DEF billing
<1>5. TransactionsSound'
  BY <1>1, <1>4, TransactionsKept
<1>6. PollSound' /\ RecordedIsPaid' /\ PaidIsFollowed'
  BY <1>1, <1>2 DEF LingoInv, PollSound, RecordedIsPaid, PaidIsFollowed, TrueAnswer, At
<1>7. \A i \in Invoices : invoice'[i].pledged =< invoice[i].pledged
  BY <1>1 DEF LingoInv, LingoTypeOK, InvoiceRows, billing
<1>8. basket' = basket
  BY <1>1 DEF billing
<1> QED
  BY <1>1, <1>3, <1>4, <1>5, <1>6, <1>7, <1>8, NobodyStep

\* What handling an answer does to the rows of baskets, invoices and credits.
Handled ==
    /\ basket' \in [Baskets -> BasketRows] /\ credit' \in Nat
    /\ invoice' \in [Invoices -> InvoiceRows] /\ InvoicesBetter
    /\ \A i \in Invoices : invoice'[i].pledged =< invoice[i].pledged
    /\ \A b \in Baskets : basket'[b] = basket[b] \/ SavedWell(b)

LEMMA PollPaidFacts ==
  ASSUME LingoInv, UNCHANGED << request, credit >>, NEW i \in Invoices, NEW amount \in Nat,
         invoice[i].status # "none", Covers(i, amount), PollPaid(i, amount)
  PROVE  Handled
<1> DEFINE found == BasketsOf(i)
           paid == PaidBy(invoice[i], amount)
           row == IF found = {} THEN paid ELSE PaidWithCredits(paid, Assigned(i))
<1>1. /\ row \in InvoiceRows /\ Better(i, row) /\ row.pledged =< invoice[i].pledged
      /\ row.status # "none"
      /\ row.status = "cancelled" \/ row.paid + row.pledged >= row.total
  BY PaidCovers
<1>2. /\ invoice' = [invoice EXCEPT ![i] = row]
      /\ basket' = [b \in Baskets |-> IF b \in found
             THEN [basket[b] EXCEPT !.status = "completed"] ELSE basket[b]]
  BY DEF PollPaid
<1>3. \A b \in found : basket[b].invoice = i
  BY DEF BasketsOf
<1> HIDE DEF row, found
<1>4. invoice'[i] = row /\ \A j \in Invoices \ {i} : invoice'[j] = invoice[j]
  BY <1>2 DEF LingoInv, LingoTypeOK
<1>5. InvoicesBetter
  BY <1>1, <1>4, SameIsBetter DEF InvoicesBetter
<1>6. \A j \in Invoices : invoice'[j].pledged =< invoice[j].pledged
  <2>1. \A j \in Invoices : invoice[j].pledged \in Nat
    BY DEF LingoInv, LingoTypeOK, InvoiceRows
  <2> QED
    BY <1>1, <1>4, <2>1
<1>7. ASSUME NEW b \in Baskets
      PROVE  /\ basket'[b] \in BasketRows
             /\ b \notin found => basket'[b] = basket[b]
             /\ b \in found => basket'[b].status = "completed" /\ basket'[b].invoice = i
  <2>1. basket[b] \in BasketRows
    BY DEF LingoInv, LingoTypeOK
  <2> QED
    BY <1>2, <1>3, <2>1 DEF BasketRows
<1>8. ASSUME NEW b \in found, b \in Baskets
      PROVE  SavedWell(b)
  <2>1. (Covers(i, 0))' /\ invoice'[i].status # "none"
    <3>1. row.paid + row.pledged + 0 = row.paid + row.pledged
      BY <1>1 DEF InvoiceRows
    <3> QED
      BY <1>1, <1>4, <3>1 DEF Covers
  <2>2. \A s \in Requests : request[s].pc \in MakingPcs => request[s].invoice # i
    BY <1>3, <1>8 DEF LingoInv, Private
  <2> QED
    BY <1>7, <1>8, <2>1, <2>2 DEF SavedWell, Covers
<1>9. /\ basket' \in [Baskets -> BasketRows] /\ credit' \in Nat
      /\ invoice' \in [Invoices -> InvoiceRows]
  BY <1>1, <1>2, <1>7 DEF LingoInv, LingoTypeOK
<1> QED
  BY <1>5, <1>6, <1>7, <1>8, <1>9 DEF Handled

LEMMA PollDeniedFacts ==
  ASSUME LingoInv, UNCHANGED request, NEW i \in Invoices, invoice[i].status # "none",
         PollDenied(i)
  PROVE  Handled
<1> DEFINE found == {b \in BasketsOf(i) : basket[b].status = "tobepaid"}
           row == Reverted(Cancelled(invoice[i]))
<1>1. \A j \in Invoices : invoice[j].pledged \in Nat
  BY DEF LingoInv, LingoTypeOK, InvoiceRows
<1>2. CASE found = {}
  <2>1. UNCHANGED << basket, invoice, credit >>
    BY <1>2 DEF PollDenied
  <2> QED
    BY <1>1, <2>1, InvoicesSame DEF Handled, LingoInv, LingoTypeOK
<1>3. CASE found # {}
  <2>1. /\ basket' = [b \in Baskets |-> IF b \in found
               THEN [status |-> "open", invoice |-> None] ELSE basket[b]]
        /\ invoice' = [invoice EXCEPT ![i] = row]
        /\ credit' = credit + Assigned(i)
    BY <1>3 DEF PollDenied
  <2>2. row \in InvoiceRows /\ Better(i, row) /\ row.pledged = 0
    BY CancelledFacts
  <2> HIDE DEF row, found
  <2>3. invoice'[i] = row /\ \A j \in Invoices \ {i} : invoice'[j] = invoice[j]
    BY <2>1 DEF LingoInv, LingoTypeOK
  <2>4. InvoicesBetter
    BY <2>2, <2>3, SameIsBetter DEF InvoicesBetter
  <2>5. \A j \in Invoices : invoice'[j].pledged =< invoice[j].pledged
    BY <1>1, <2>2, <2>3
  <2>6. ASSUME NEW b \in Baskets
        PROVE  /\ basket'[b] \in BasketRows
               /\ \/ basket'[b] = basket[b]
                  \/ basket'[b].status = "open" /\ basket'[b].invoice = None
    BY <2>1 DEF LingoInv, LingoTypeOK, BasketRows
  <2>7. \A s \in Requests : request[s].pc \in MakingPcs => request[s].invoice # None
    BY DEF LingoInv, Good, Holds, MakingPcs, OnInvoice
  <2>8. \A b \in Baskets : basket'[b] = basket[b] \/ SavedWell(b)
    BY <2>6, <2>7 DEF SavedWell
  <2>9. credit' \in Nat
    <3>1. credit \in Nat /\ Assigned(i) \in Nat
      BY AssignedFacts DEF LingoInv, LingoTypeOK
    <3> QED
      BY <2>1, <3>1
  <2>10. basket' \in [Baskets -> BasketRows] /\ invoice' \in [Invoices -> InvoiceRows]
    BY <2>1, <2>2, <2>6 DEF LingoInv, LingoTypeOK
  <2> QED
    BY <2>4, <2>5, <2>8, <2>9, <2>10 DEF Handled
<1> QED
  BY <1>2, <1>3

LEMMA PollHandleStep ==
  ASSUME LingoInv, PollHandle
  PROVE  LingoInv'
<1> PICK t \in Transactions, answer \in Answers :
      /\ t = polled.transaction /\ answer = polled.answer
      /\ transaction[t].status # "none" /\ TrueAnswer(t, answer)
  BY DEF PollHandle, LingoInv, LingoTypeOK, PollSound
<1> PICK i \in Invoices, amount \in Nat :
      /\ i = transaction[t].invoice /\ amount = transaction[t].amount
      /\ invoice[i].status # "none" /\ Covers(i, amount)
  BY DEF LingoInv, LingoTypeOK, TransactionRows, TransactionsSound, Known
<1>1. /\ UNCHANGED << draft, made, bank, lost, request >> /\ polled' = None
      /\ transaction' = [transaction EXCEPT ![t].status = answer]
  BY DEF PollHandle
<1>2. /\ transaction'[t].status = answer /\ transaction'[t].invoice = i
      /\ transaction'[t].amount = amount
      /\ transaction' \in [Transactions -> TransactionRows]
      /\ \A u \in Transactions \ {t} : transaction'[u] = transaction[u]
  <2> DEFINE row == [transaction[t] EXCEPT !.status = answer]
  <2>1. /\ transaction \in [Transactions -> TransactionRows]
        /\ transaction' = [transaction EXCEPT ![t] = row]
    BY <1>1 DEF LingoInv, LingoTypeOK
  <2>2. /\ row \in TransactionRows /\ row.status = answer
        /\ row.invoice = transaction[t].invoice /\ row.amount = transaction[t].amount
    BY <2>1 DEF TransactionRows, Answers
  <2> HIDE DEF row
  <2> QED
    BY <2>1, <2>2
<1>3. Handled /\ recorded' = IF answer = "paid" THEN recorded \cup {t} ELSE recorded
  <2>1. CASE answer = "received"
    <3>1. UNCHANGED << basket, invoice, credit, recorded >>
      BY <2>1 DEF PollHandle
    <3>2. \A j \in Invoices : invoice[j].pledged \in Nat
      BY DEF LingoInv, LingoTypeOK, InvoiceRows
    <3> QED
      BY <2>1, <3>1, <3>2, InvoicesSame, SMTT(30) DEF Handled, LingoInv, LingoTypeOK
  <2>2. CASE answer = "paid"
    <3>1. PollPaid(i, amount) /\ recorded' = recorded \cup {t}
      BY <2>2 DEF PollHandle
    <3>2. UNCHANGED << request, credit >>
      BY <1>1, <3>1 DEF PollPaid
    <3> QED
      BY <2>2, <3>1, <3>2, PollPaidFacts
  <2>3. CASE answer = "denied"
    <3>1. PollDenied(i) /\ recorded' = recorded
      BY <2>3 DEF PollHandle
    <3> QED
      BY <1>1, <2>3, <3>1, PollDeniedFacts
  <2> QED
    BY <2>1, <2>2, <2>3 DEF Answers
<1>4. LingoTypeOK'
  BY <1>1, <1>2, <1>3 DEF LingoInv, LingoTypeOK, Handled
<1>5. TransactionsLast
  BY <1>1, <1>2 DEF TransactionsLast, Answers
<1>6. TransactionsSound'
  <2>1. ASSUME NEW u \in Transactions, transaction[u].status # "none"
        PROVE  /\ (Known(transaction[u].invoice))' /\ transaction'[u].invoice # None
               /\ (Covers(transaction[u].invoice, transaction[u].amount))'
    <3> PICK j \in Invoices, a \in Nat :
          /\ j = transaction[u].invoice /\ a = transaction[u].amount
          /\ invoice[j].status # "none" /\ Covers(j, a)
      BY <2>1 DEF LingoInv, LingoTypeOK, TransactionRows, TransactionsSound, Known
    <3>1. transaction'[u].invoice = j /\ transaction'[u].amount = a
      BY <1>2
    <3>2. (Known(j))' /\ (Covers(j, a))'
      BY <1>3, InvoiceKept DEF Handled, Known
    <3> QED
      BY <3>1, <3>2 DEF Known, Covers
  <2>2. answer \in {"paid", "denied"} => bank'[t] = answer
    BY <1>1 DEF TrueAnswer
  <2>3. ASSUME NEW u \in Transactions \ {t}
        PROVE  /\ transaction'[u].status = "none" => bank'[u] = "none"
               /\ transaction'[u].status \in {"paid", "denied"} =>
                        bank'[u] = transaction'[u].status
    BY <1>1, <1>2 DEF LingoInv, TransactionsSound
  <2>4. transaction'[t].status # "none"
    BY <1>2 DEF Answers
  <2> QED
    BY <1>2, <2>1, <2>2, <2>3, <2>4 DEF TransactionsSound
<1>7. PollSound' /\ RecordedIsPaid'
  BY <1>1, <1>3 DEF LingoInv, PollSound, RecordedIsPaid, TrueAnswer
<1>8. PaidIsFollowed'
  <2>1. bank[t] = "paid" => t \in recorded' \/ transaction'[t].status = "received"
    BY <1>2, <1>3 DEF TrueAnswer
  <2>2. recorded \subseteq recorded'
    BY <1>3
  <2> QED
    BY <1>1, <1>2, <2>1, <2>2 DEF LingoInv, PaidIsFollowed, At
<1> QED
  BY <1>1, <1>3, <1>4, <1>5, <1>6, <1>7, <1>8, NobodyStep DEF Handled
-----------------------------------------------------------------------------
LEMMA NextStep == LingoInv /\ [Next]_vars => LingoInv'
<1> SUFFICES ASSUME LingoInv, [Next]_vars PROVE LingoInv'
  OBVIOUS
<1>1. ASSUME NEW r \in Requests, Begin(r)
      PROVE  LingoInv'
  BY <1>1, CheckBasketStep, CloseDraftInvoiceStep, MakeCreditStep, LoadForLineStep,
     ValidateBasketStep, LoadForCancelStep, PayInvoiceStep, CheckStatusStep,
     HandleMessageStep
  DEF Begin
<1>2. ASSUME NEW r \in Requests, Step(r)
      PROVE  LingoInv'
  <2>1. CASE \/ CreateBasket(r) \/ BillLine(r) \/ KeepBasket(r) \/ LinesFromBookings(r)
             \/ Promote(r) \/ RefreshInvoice(r) \/ AssignCredits(r) \/ CoverInvoice(r)
             \/ SettleBasket(r) \/ SaveBasket(r)
    BY <2>1, CreateBasketStep, BillLineStep, KeepBasketStep, LinesFromBookingsStep,
       PromoteStep, RefreshInvoiceStep, AssignCreditsStep, CoverInvoiceStep,
       SettleBasketStep, SaveBasketStep
  <2>2. CASE \/ CancelBasket(r) \/ CancelInvoice(r) \/ RevertAssignments(r)
             \/ \E i \in Invoices : SpreadCredit(r, i)
             \/ StartPayment(r) \/ Pay(r)
    BY <2>2, CancelBasketStep, CancelInvoiceStep, RevertAssignmentsStep, SpreadCreditStep,
       StartPaymentStep, PayStep
  <2>3. CASE \/ SaveStatus(r) \/ RecordPayment(r) \/ SignalPaid(r) \/ SumCredits(r)
             \/ PayCredits(r) \/ Complete(r)
             \/ SignalReopen(r) \/ SaveOpen(r) \/ Detach(r)
    BY <2>3, SaveStatusStep, RecordPaymentStep, SignalPaidStep, SumCreditsStep,
       PayCreditsStep, CompleteStep, SignalReopenStep, SaveOpenStep, DetachStep
  <2> QED
    BY <1>2, <2>1, <2>2, <2>3 DEF Step
<1>3. ASSUME NEW r \in Requests, Abort(r)
      PROVE  LingoInv'
  BY <1>3, AbortStep
<1>4. ASSUME NEW b \in Baskets, ExpireBasket(b)
      PROVE  LingoInv'
  BY <1>4, ExpireBasketStep
<1>5. ASSUME NEW t \in Transactions, BankAnswers(t) \/ PollAsk(t)
      PROVE  LingoInv'
  BY <1>5, BankAnswersStep, PollAskStep
<1>6. CASE PollHandle
  BY <1>6, PollHandleStep
<1>7. CASE UNCHANGED vars
  <2>1. UNCHANGED << basket, draft, invoice, credit, made, transaction, bank, request,
                     polled, recorded, lost >>
    BY <1>7 DEF vars
  <2>2. LingoTypeOK'
    BY <2>1 DEF LingoInv, LingoTypeOK
  <2>3. InvoicesSound' /\ BasketsSound'
    BY <2>1 DEF LingoInv, InvoicesSound, BasketsSound, Known
  <2>4. TransactionsSound' /\ PollSound'
    BY <2>1 DEF LingoInv, TransactionsSound, PollSound, Known, Covers, TrueAnswer
  <2>5. ASSUME NEW r \in Requests
        PROVE  Good(request[r])'
    <3>1. Good(request[r]) /\ request'[r] = request[r]
      BY <2>1 DEF LingoInv
    <3>2. Refers(request[r])' /\ Holds(request[r])'
      BY <2>1, <3>1 DEF Good, Refers, Holds, Known
    <3>3. Honest(request[r])' /\ Pays(request[r])'
      BY <2>1, <3>1 DEF Good, Honest, Pays, TrueAnswer, Covers
    <3> QED
      BY <3>2, <3>3 DEF Good
  <2>6. \A r \in Requests :
          request'[r].pc \in MakingPcs => Private(request[r].invoice, r)'
    BY <2>1 DEF LingoInv, Private
  <2>7. CompletedIsCovered' /\ RecordedIsPaid' /\ PaidIsFollowed'
    BY <2>1 DEF LingoInv, CompletedIsCovered, RecordedIsPaid, PaidIsFollowed, At
  <2> QED
    BY <2>2, <2>3, <2>4, <2>5, <2>6, <2>7 DEF LingoInv
<1> QED
  BY <1>1, <1>2, <1>3, <1>4, <1>5, <1>6, <1>7 DEF Next

\* The inductive invariant: what each step of a request counts on, whatever the
\* others do between its steps.
THEOREM LingoInvariant == Spec => []LingoInv
<1>1. Init => LingoInv
  BY LingoInit
<1>2. LingoInv /\ [Next]_vars => LingoInv'
  BY NextStep
<1> QED
  BY <1>1, <1>2, PTL DEF Spec

\* Amounts never become negative, and references always lead to a row
\* (Basket, Invoice, Credit, Transaction).
THEOREM LingoTypes == Spec => []LingoTypeOK
<1>1. LingoInv => LingoTypeOK
  BY DEF LingoInv
<1> QED
  BY <1>1, LingoInvariant, PTL

\* A completed basket is covered, whoever completed it and from however old a copy
\* (SettleBasket, Complete, PollPaid).
THEOREM CoveredWhenCompleted == Spec => []CompletedIsCovered
<1>1. LingoInv => CompletedIsCovered
  BY DEF LingoInv
<1> QED
  BY <1>1, LingoInvariant, PTL

\* Late, repeated and overtaken answers never record a payment that the service
\* did not take (SaveStatus, RecordPayment, PollHandle).
THEOREM RecordedWhenPaid == Spec => []RecordedIsPaid
<1>1. LingoInv => RecordedIsPaid
  BY DEF LingoInv
<1> QED
  BY <1>1, LingoInvariant, PTL

\* The only money that is lost sight of is what a killed request was about to record
\* (SaveStatus, RecordPayment, Abort).
THEOREM PaidFollowed == Spec => []PaidIsFollowed
<1>1. LingoInv => PaidIsFollowed
  BY DEF LingoInv
<1> QED
  BY <1>1, LingoInvariant, PTL
-----------------------------------------------------------------------------
(* The credits add up.                                                     *)
\* As many numbers as the last of them says.
LEMMA UpTo ==
  ASSUME NEW n \in Nat
  PROVE  IsFiniteSet(1..n) /\ Cardinality(1..n) = n
<1>1. Cardinality(1..n) = IF 1 > n THEN 0 ELSE n - 1 + 1
  BY FS_Interval
<1> QED
  BY <1>1, FS_Interval

\* The units of one invoice can be counted apart from the others.
SameBut(f, g, i) == \A j \in Invoices \ {i} : g[j] = f[j]

LEMMA UnitsOfOne ==
  ASSUME NEW f \in [Invoices -> Nat], NEW g \in [Invoices -> Nat], NEW i \in Invoices,
         SameBut(f, g, i), IsFiniteSet(Units(f))
  PROVE  /\ IsFiniteSet(Units(g))
         /\ Cardinality(Units(f)) \in Nat /\ Cardinality(Units(g)) \in Nat
         /\ Cardinality(Units(g)) - g[i] = Cardinality(Units(f)) - f[i]
<1> DEFINE mine(n) == {i} \X (1..n)
           rest == UNION {{j} \X (1..f[j]) : j \in Invoices \ {i}}
<1>1. Units(f) = rest \cup mine(f[i]) /\ Units(g) = rest \cup mine(g[i])
  BY DEF Units, SameBut
<1>2. \A n \in Nat : rest \cap mine(n) = {}
  OBVIOUS
<1>3. IsFiniteSet(rest) /\ Cardinality(rest) \in Nat
  BY <1>1, FS_Subset, FS_CardinalityType
<1>4. ASSUME NEW n \in Nat
      PROVE  IsFiniteSet(mine(n)) /\ Cardinality(mine(n)) = n
  <2>1. IsFiniteSet({i}) /\ Cardinality({i}) = 1
    BY FS_Singleton
  <2>2. IsFiniteSet(1..n) /\ Cardinality(1..n) = n
    BY UpTo
  <2>3. /\ IsFiniteSet({i} \X (1..n))
        /\ Cardinality({i} \X (1..n)) = Cardinality({i}) * Cardinality(1..n)
    BY ONLY <2>1, <2>2, FS_Product
  <2>4. Cardinality({i}) * Cardinality(1..n) = n
    BY <2>1, <2>2
  <2> QED
    BY <2>3, <2>4
<1>5. f[i] \in Nat /\ g[i] \in Nat
  OBVIOUS
<1> HIDE DEF mine, rest
<1>6. ASSUME NEW n \in Nat
      PROVE  /\ IsFiniteSet(rest \cup mine(n))
             /\ Cardinality(rest \cup mine(n)) = Cardinality(rest) + n
  <2>1. Cardinality(rest \cap mine(n)) = 0
    BY <1>2, FS_EmptySet
  <2>2. /\ IsFiniteSet(rest \cup mine(n))
        /\ Cardinality(rest \cup mine(n)) =
             Cardinality(rest) + Cardinality(mine(n)) - Cardinality(rest \cap mine(n))
    BY <1>3, <1>4, FS_Union
  <2> QED
    BY <1>3, <1>4, <2>1, <2>2
<1>7. /\ Cardinality(Units(f)) = Cardinality(rest) + f[i]
      /\ Cardinality(Units(g)) = Cardinality(rest) + g[i] /\ IsFiniteSet(Units(g))
  BY <1>1, <1>5, <1>6
<1> QED
  BY <1>3, <1>5, <1>7

CreditInv == IsFiniteSet(InUse) /\ credit + Cardinality(InUse) = made

LEMMA CreditInit == Init => CreditInv
<1> SUFFICES ASSUME Init PROVE CreditInv
  OBVIOUS
<1>1. InUse = {} /\ credit = 0 /\ made = 0
  BY DEF Init, InUse, Units, Assigned, NoInvoice
<1> QED
  BY <1>1, FS_EmptySet DEF CreditInv

\* What a step may do: nothing, make a credit, or move credits to or from one
\* invoice.
Kept(i) == Assigned(i)' = Assigned(i)

MovesCredits ==
    \/ /\ \A i \in Invoices : Kept(i)
       /\ credit' - made' = credit - made
    \/ \E i \in Invoices :
        /\ \A j \in Invoices \ {i} : Kept(j)
        /\ credit' + Assigned(i)' = credit + Assigned(i)
        /\ made' = made

LEMMA MovesKeep ==
  ASSUME LingoInv, LingoInv', CreditInv, MovesCredits
  PROVE  CreditInv'
<1> DEFINE f == [i \in Invoices |-> Assigned(i)]
           g == [i \in Invoices |-> Assigned(i)']
<1>1. \A i \in Invoices : Assigned(i) \in Nat /\ Assigned(i)' \in Nat
  <2>1. ASSUME NEW i \in Invoices
        PROVE  Assigned(i) \in Nat /\ Assigned(i)' \in Nat
    <3>1. invoice[i] \in InvoiceRows /\ invoice'[i] \in InvoiceRows
      BY DEF LingoInv, LingoTypeOK
    <3> QED
      BY <3>1 DEF InvoiceRows, Assigned
  <2> QED
    BY <2>1
<1>2. f \in [Invoices -> Nat] /\ g \in [Invoices -> Nat]
  BY <1>1
<1>3. credit \in Nat /\ credit' \in Nat /\ made \in Nat /\ made' \in Nat
  BY DEF LingoInv, LingoTypeOK
<1>4. IsFiniteSet(Units(f)) /\ credit + Cardinality(Units(f)) = made
  BY DEF CreditInv, InUse
<1>5. IsFiniteSet(Units(g)) /\ credit' + Cardinality(Units(g)) = made'
  <2>1. Cardinality(Units(f)) \in Nat
    BY <1>4, FS_CardinalityType
  <2>2. CASE (\A i \in Invoices : Kept(i)) /\ credit' - made' = credit - made
    <3>1. f = g
      BY <2>2 DEF Kept
    <3>2. PICK out \in Nat, out2 \in Nat, all \in Nat, all2 \in Nat, in \in Nat :
            /\ out = credit /\ out2 = credit' /\ all = made /\ all2 = made'
            /\ in = Cardinality(Units(f))
      BY <1>3, <2>1
    <3> HIDE DEF f, g
    <3>3. out + in = all /\ out2 - all2 = out - all
      BY <1>4, <2>2, <3>2
    <3>4. out2 + in = all2
      BY ONLY <3>3
    <3> QED
      BY <1>4, <3>1, <3>2, <3>4
  <2>3. ASSUME NEW i \in Invoices, \A j \in Invoices \ {i} : Kept(j),
               credit' + Assigned(i)' = credit + Assigned(i), made' = made
        PROVE  IsFiniteSet(Units(g)) /\ credit' + Cardinality(Units(g)) = made'
    <3>1. SameBut(f, g, i) /\ f[i] = Assigned(i) /\ g[i] = Assigned(i)'
      BY <2>3 DEF Kept, SameBut
    <3> HIDE DEF f, g
    <3>2. /\ IsFiniteSet(Units(g)) /\ Cardinality(Units(g)) \in Nat
          /\ Cardinality(Units(g)) - g[i] = Cardinality(Units(f)) - f[i]
      BY <1>2, <1>4, <3>1, UnitsOfOne
    <3>3. PICK out \in Nat, out2 \in Nat, all \in Nat, in \in Nat, in2 \in Nat,
               on \in Nat, on2 \in Nat :
            /\ out = credit /\ out2 = credit' /\ all = made
            /\ in = Cardinality(Units(f)) /\ in2 = Cardinality(Units(g))
            /\ on = Assigned(i) /\ on2 = Assigned(i)'
      BY <1>1, <1>3, <2>1, <3>2
    <3>4. out + in = all /\ out2 + on2 = out + on /\ in2 - on2 = in - on
      BY <1>4, <2>3, <3>1, <3>2, <3>3
    <3>5. out2 + in2 = all
      BY ONLY <3>4
    <3> QED
      BY <2>3, <3>2, <3>3, <3>5
  <2> QED
    BY <2>2, <2>3 DEF MovesCredits
<1> QED
  BY <1>5 DEF CreditInv, InUse, Units

OnIt(row) == row.pledged + row.spent

LEMMA NoMove ==
  ASSUME invoice' = invoice, credit' - made' = credit - made
  PROVE  MovesCredits
BY DEF MovesCredits, Kept, Assigned

LEMMA OneInvoice ==
  ASSUME LingoInv, NEW i \in Invoices, NEW row, invoice' = [invoice EXCEPT ![i] = row],
         credit' + OnIt(row) = credit + Assigned(i), made' = made
  PROVE  MovesCredits
<1>1. /\ invoice'[i] = row
      /\ \A j \in Invoices \ {i} : invoice'[j] = invoice[j]
  BY DEF LingoInv, LingoTypeOK
<1> QED
  BY <1>1 DEF MovesCredits, Kept, Assigned, OnIt

\* What the ways to write an invoice do to the credits on it.
LEMMA RowCredits ==
  ASSUME NEW row \in InvoiceRows, NEW k \in Nat
  PROVE  /\ OnIt(row) \in Nat
         /\ PaidBy(row, k) \in InvoiceRows /\ OnIt(PaidBy(row, k)) = OnIt(row)
         /\ OnIt(Pledge(row, k)) = OnIt(row) + k
         /\ OnIt(Spend(row, k)) = OnIt(row) + k
         /\ OnIt(PaidWithCredits(row, k)) = OnIt(row)
<1>1. /\ row.total \in Nat /\ row.paid \in Nat /\ row.pledged \in Nat /\ row.spent \in Nat
  BY DEF InvoiceRows
<1> DEFINE paid == PaidBy(row, k)
<1>2. /\ paid \in InvoiceRows /\ paid.pledged = row.pledged /\ paid.spent = row.spent
  BY <1>1 DEF PaidBy, InvoiceRows, Least
<1>3. Pledge(row, k).pledged = row.pledged + k /\ Pledge(row, k).spent = row.spent
  BY DEF Pledge, InvoiceRows
<1>4. Spend(row, k) = [paid EXCEPT !.spent = @ + k]
  BY DEF Spend
<1>5. k # 0 => PaidWithCredits(row, k)
                 = [paid EXCEPT !.spent = row.pledged + row.spent, !.pledged = 0]
  BY DEF PaidWithCredits
<1>6. k = 0 => PaidWithCredits(row, k) = row
  BY DEF PaidWithCredits
<1> HIDE DEF paid
<1>7. Spend(row, k).pledged = row.pledged /\ Spend(row, k).spent = row.spent + k
  BY <1>2, <1>4 DEF InvoiceRows
<1>8. OnIt(PaidWithCredits(row, k)) = OnIt(row)
  <2>1. CASE k = 0
    BY <1>6, <2>1
  <2>2. CASE k # 0
    <3>1. /\ PaidWithCredits(row, k).pledged = 0
          /\ PaidWithCredits(row, k).spent = row.pledged + row.spent
      BY <1>2, <1>5, <2>2 DEF InvoiceRows
    <3> QED
      BY <1>1, <3>1 DEF OnIt
  <2> QED
    BY <2>1, <2>2
<1>9. /\ OnIt(row) \in Nat /\ OnIt(Pledge(row, k)) = OnIt(row) + k
      /\ OnIt(Spend(row, k)) = OnIt(row) + k /\ OnIt(paid) = OnIt(row)
  BY <1>1, <1>2, <1>3, <1>7 DEF OnIt
<1> QED
  BY <1>2, <1>8, <1>9 DEF paid

LEMMA RowFreed ==
  ASSUME NEW row \in InvoiceRows
  PROVE  /\ OnIt(Cancelled(row)) = OnIt(row)
         /\ OnIt(Reverted(row)) = 0 /\ OnIt(Reverted(Cancelled(row))) = 0
<1>1. /\ Cancelled(row).pledged = row.pledged /\ Cancelled(row).spent = row.spent
      /\ Reverted(row).pledged = 0 /\ Reverted(row).spent = 0
      /\ Reverted(Cancelled(row)).pledged = 0 /\ Reverted(Cancelled(row)).spent = 0
  BY DEF Cancelled, Reverted, InvoiceRows
<1> QED
  BY <1>1 DEF OnIt

LEMMA InvoiceRow ==
  ASSUME LingoInv, NEW i \in Invoices
  PROVE  /\ invoice[i] \in InvoiceRows
         /\ Assigned(i) = OnIt(invoice[i]) /\ Assigned(i) \in Nat /\ credit \in Nat
<1>1. invoice[i] \in InvoiceRows /\ credit \in Nat
  BY DEF LingoInv, LingoTypeOK
<1> QED
  BY <1>1 DEF InvoiceRows, Assigned, OnIt

\* Requests that assign credits or give them back.
LEMMA AssignMoves ==
  ASSUME LingoInv, NEW r \in Requests,
         \/ AssignCredits(r) \/ RevertAssignments(r)
         \/ \E i \in Invoices : SpreadCredit(r, i)
  PROVE  MovesCredits
<1>0. request[r] \in RequestStates /\ Holds(request[r])
  BY DEF LingoInv, LingoTypeOK, Good
<1>1. CASE AssignCredits(r)
  <2> DEFINE i == request[r].invoice
             k == Granted(r)
  <2>1. i \in Invoices /\ k \in Nat /\ credit' = credit - k /\ made' = made
    BY <1>0, <1>1, GrantedFacts DEF AssignCredits, At, Holds, OnInvoice, RequestStates
  <2>2. \/ invoice' = [invoice EXCEPT ![i] = Spend(invoice[i], k)]
        \/ invoice' = [invoice EXCEPT ![i] = Pledge(invoice[i], k)]
    BY <1>1 DEF AssignCredits
  <2> HIDE DEF i, k
  <2>3. /\ credit' + OnIt(Spend(invoice[i], k))
             = credit + Assigned(i)
        /\ credit' + OnIt(Pledge(invoice[i], k))
             = credit + Assigned(i)
    BY <2>1, InvoiceRow, RowCredits, RowFreed
  <2> QED
    BY <2>1, <2>2, <2>3, OneInvoice
<1>2. CASE RevertAssignments(r)
  <2> DEFINE i == request[r].row.invoice
  <2>1. i \in Invoices
    BY <1>0, <1>2 DEF RevertAssignments, At, Holds, RequestStates, BasketRows
  <2>2. /\ invoice' = [invoice EXCEPT ![i] = Reverted(invoice[i])]
        /\ credit' = credit + Assigned(i) /\ made' = made
    BY <1>2 DEF RevertAssignments
  <2> HIDE DEF i
  <2>3. credit' + OnIt(Reverted(invoice[i]))
          = credit + Assigned(i)
    BY <2>1, <2>2, InvoiceRow, RowCredits, RowFreed
  <2> QED
    BY <2>1, <2>2, <2>3, OneInvoice
<1>3. ASSUME NEW i \in Invoices, SpreadCredit(r, i)
      PROVE  MovesCredits
  <2> DEFINE k == Least(credit, Least(request[r].limit, request[r].todo[i]))
  <2>1. k \in Nat
    BY <1>0, InvoiceRow DEF Least, RequestStates
  <2>2. /\ invoice' = [invoice EXCEPT ![i] = Spend(invoice[i], k)]
        /\ credit' = credit - k /\ made' = made
    BY <1>3 DEF SpreadCredit
  <2> HIDE DEF k
  <2>3. credit' + OnIt(Spend(invoice[i], k))
          = credit + Assigned(i)
    BY <2>1, <2>2, InvoiceRow, RowCredits, RowFreed
  <2> QED
    BY <2>2, <2>3, OneInvoice
<1> QED
  BY <1>1, <1>2, <1>3

\* Requests that write an invoice and leave the credits as they are.
LEMMA WriteMoves ==
  ASSUME LingoInv, NEW r \in Requests,
         Promote(r) \/ CoverInvoice(r) \/ CancelInvoice(r) \/ PayCredits(r) \/ RecordPayment(r)
  PROVE  MovesCredits
<1>0. request[r] \in RequestStates /\ Good(request[r])
  BY DEF LingoInv, LingoTypeOK
<1>1. UNCHANGED << credit, made >>
  BY DEF Promote, CoverInvoice, CancelInvoice, PayCredits, RecordPayment
<1>2. CASE Promote(r)
  <2>1. PICK i \in Invoices :
          /\ invoice[i].status = "none"
          /\ \E total : invoice' =
               [invoice EXCEPT ![i] = [NoInvoice EXCEPT !.status = "due", !.total = total]]
    BY <1>2 DEF Promote, NextInvoice
  <2> PICK total : invoice' =
        [invoice EXCEPT ![i] = [NoInvoice EXCEPT !.status = "due", !.total = total]]
    BY <2>1
  <2> DEFINE row == [NoInvoice EXCEPT !.status = "due", !.total = total]
  <2>2. invoice[i] = NoInvoice
    BY <2>1 DEF LingoInv, InvoicesSound
  <2>3. OnIt(row) = 0 /\ Assigned(i) = 0
    BY <2>2 DEF NoInvoice, Assigned, OnIt
  <2> HIDE DEF row
  <2>4. credit' + OnIt(row) = credit + Assigned(i)
    BY <1>1, <2>3
  <2> QED
    BY <1>1, <2>1, <2>4, OneInvoice DEF row
<1>3. CASE CoverInvoice(r)
  <2> DEFINE i == request[r].invoice
  <2>1. i \in Invoices
    BY <1>0, <1>3 DEF CoverInvoice, At, Good, Holds, OnInvoice, RequestStates
  <2>2. \/ invoice' = [invoice EXCEPT ![i] = PaidWithCredits(invoice[i], Assigned(i))]
        \/ invoice' = [invoice EXCEPT ![i] = invoice[i]]
    BY <1>3 DEF CoverInvoice
  <2> HIDE DEF i
  <2>3. /\ OnIt(PaidWithCredits(invoice[i], Assigned(i))) = Assigned(i)
        /\ OnIt(invoice[i]) = Assigned(i)
    <3>1. Assigned(i) \in Nat
      BY <2>1, InvoiceRow
    <3> QED
      BY <2>1, <3>1, InvoiceRow, RowCredits, RowFreed
  <2> QED
    BY <1>1, <2>1, <2>2, <2>3, OneInvoice
<1>4. CASE CancelInvoice(r)
  <2> DEFINE i == request[r].row.invoice
  <2>1. i \in Invoices
    BY <1>0, <1>4 DEF CancelInvoice, At, Good, Holds, RequestStates, BasketRows
  <2>2. invoice' = [invoice EXCEPT ![i] = Cancelled(invoice[i])]
    BY <1>4 DEF CancelInvoice
  <2> HIDE DEF i
  <2>3. OnIt(Cancelled(invoice[i])) = Assigned(i)
    BY <2>1, InvoiceRow, RowCredits, RowFreed
  <2> QED
    BY <1>1, <2>1, <2>2, <2>3, OneInvoice
<1>5. CASE PayCredits(r)
  <2> DEFINE i == request[r].invoice
             amount == request[r].amount
  <2>1. i \in Invoices /\ amount \in Nat
    BY <1>0, <1>5 DEF PayCredits, At, Good, Holds, OnInvoice, RequestStates
  <2>2. invoice' = [invoice EXCEPT ![i] = PaidWithCredits(invoice[i], amount)]
    BY <1>5 DEF PayCredits
  <2> HIDE DEF i, amount
  <2>3. OnIt(PaidWithCredits(invoice[i], amount)) = Assigned(i)
    BY <2>1, InvoiceRow, RowCredits, RowFreed
  <2> QED
    BY <1>1, <2>1, <2>2, <2>3, OneInvoice
<1>6. CASE RecordPayment(r)
  <2> DEFINE i == request[r].invoice
             amount == transaction[request[r].transaction].amount
  <2>1. i \in Invoices
    BY <1>0, <1>6 DEF RecordPayment, At, Good, Holds, OnInvoice, RequestStates
  <2>2. amount \in Nat
    BY <1>0, <1>6
    DEF RecordPayment, At, Good, Honest, RequestStates, LingoInv, LingoTypeOK, TransactionRows
  <2>3. invoice' = [invoice EXCEPT ![i] = PaidBy(invoice[i], amount)]
    BY <1>6 DEF RecordPayment
  <2> HIDE DEF i, amount
  <2>4. OnIt(PaidBy(invoice[i], amount)) = Assigned(i)
    BY <2>1, <2>2, InvoiceRow, RowCredits, RowFreed
  <2> QED
    BY <1>1, <2>1, <2>3, <2>4, OneInvoice
<1> QED
  BY <1>2, <1>3, <1>4, <1>5, <1>6

\* The two commands, each in one transaction.
LEMMA CronMoves ==
  ASSUME LingoInv, PollHandle \/ \E b \in Baskets : ExpireBasket(b)
  PROVE  MovesCredits
<1>1. ASSUME NEW b \in Baskets, ExpireBasket(b)
      PROVE  MovesCredits
  <2> DEFINE i == basket[b].invoice
  <2>1. i \in Invoices \cup {None} /\ made' = made
    BY <1>1 DEF ExpireBasket, LingoInv, LingoTypeOK, BasketRows
  <2>2. CASE i = None
    BY <1>1, <2>1, <2>2, NoMove DEF ExpireBasket
  <2>3. CASE i # None
    <3>1. /\ invoice' = [invoice EXCEPT ![i] = Reverted(Cancelled(invoice[i]))]
          /\ credit' = credit + Assigned(i)
      BY <1>1, <2>3 DEF ExpireBasket
    <3> HIDE DEF i
    <3>2. credit' + OnIt(Reverted(Cancelled(invoice[i]))) = credit + Assigned(i)
      BY <2>1, <2>3, <3>1, InvoiceRow, RowCredits, RowFreed
    <3> QED
      BY <2>1, <2>3, <3>1, <3>2, OneInvoice
  <2> QED
    BY <2>2, <2>3
<1>2. CASE PollHandle
  <2> DEFINE t == polled.transaction
             i == transaction[t].invoice
             amount == transaction[t].amount
  <2>1. i \in Invoices /\ amount \in Nat /\ made' = made
    BY <1>2 DEF PollHandle, LingoInv, LingoTypeOK, PollSound, TransactionsSound, TransactionRows
  <2>2. CASE UNCHANGED << invoice, credit >>
    BY <2>1, <2>2, NoMove
  <2>3. CASE PollPaid(i, amount)
    <3> DEFINE paid == PaidBy(invoice[i], amount)
    <3>1. /\ invoice' = [invoice EXCEPT ![i] = paid]
             \/ invoice' = [invoice EXCEPT ![i] = PaidWithCredits(paid, Assigned(i))]
          /\ credit' = credit
      BY <2>3 DEF PollPaid
    <3> HIDE DEF i, amount
    <3>2. paid \in InvoiceRows /\ OnIt(paid) = Assigned(i)
      BY <2>1, InvoiceRow, RowCredits
    <3>3. Assigned(i) \in Nat
      BY <2>1, InvoiceRow
    <3> HIDE DEF paid
    <3>4. OnIt(PaidWithCredits(paid, Assigned(i))) = Assigned(i)
      BY <3>2, <3>3, RowCredits
    <3> QED
      BY <2>1, <3>1, <3>2, <3>4, OneInvoice
  <2>4. CASE /\ invoice' = [invoice EXCEPT ![i] = Reverted(Cancelled(invoice[i]))]
             /\ credit' = credit + Assigned(i)
    <3> HIDE DEF i
    <3>1. credit' + OnIt(Reverted(Cancelled(invoice[i]))) = credit + Assigned(i)
      BY <2>1, <2>4, InvoiceRow, RowCredits, RowFreed
    <3> QED
      BY <2>1, <2>4, <3>1, OneInvoice
  <2> QED
    BY <1>2, <2>2, <2>3, <2>4 DEF PollHandle, PollDenied
<1> QED
  BY <1>1, <1>2

LEMMA CreditMoves ==
  ASSUME LingoInv, [Next]_vars
  PROVE  MovesCredits
<1>1. ASSUME NEW r \in Requests, Begin(r) PROVE MovesCredits
  <2>1. CASE MakeCredit(r)
    <3>1. invoice' = invoice /\ credit' = credit + 1 /\ made' = made + 1
      BY <2>1 DEF MakeCredit
    <3>2. credit \in Nat /\ made \in Nat
      BY DEF LingoInv, LingoTypeOK
    <3> QED
      BY <3>1, <3>2, NoMove
  <2>2. CASE ~MakeCredit(r)
    <3>1. UNCHANGED << invoice, credit, made >>
      BY <1>1, <2>2
      DEF Begin, CheckBasket, CloseDraftInvoice, LoadForLine, ValidateBasket, LoadForCancel,
          PayInvoice, CheckStatus, HandleMessage, billing
    <3> QED
      BY <3>1, NoMove
  <2> QED
    BY <2>1, <2>2
<1>2. ASSUME NEW r \in Requests, Step(r) PROVE MovesCredits
  <2>1. CASE \/ AssignCredits(r) \/ RevertAssignments(r)
             \/ \E i \in Invoices : SpreadCredit(r, i)
    BY <2>1, AssignMoves
  <2>2. CASE \/ Promote(r) \/ CoverInvoice(r) \/ CancelInvoice(r) \/ PayCredits(r)
             \/ RecordPayment(r)
    BY <2>2, WriteMoves
  <2>3. CASE UNCHANGED << invoice, credit, made >>
    BY <2>3, NoMove
  <2> QED
    BY <1>2, <2>1, <2>2, <2>3
    DEF Step, CreateBasket, BillLine, KeepBasket, LinesFromBookings, RefreshInvoice,
        SettleBasket, SaveBasket, CancelBasket, StartPayment, Pay, SaveStatus, SignalPaid,
        SumCredits, Complete, SignalReopen, SaveOpen, Detach, billing
<1>3. ASSUME \/ \E r \in Requests : Abort(r)
             \/ \E t \in Transactions : BankAnswers(t) \/ PollAsk(t)
             \/ UNCHANGED vars
      PROVE  MovesCredits
  <2>1. UNCHANGED << invoice, credit, made >>
    BY <1>3 DEF Abort, BankAnswers, PollAsk, billing, vars
  <2> QED
    BY <2>1, NoMove
<1> QED
  BY <1>1, <1>2, <1>3, CronMoves DEF Next

\* However many requests assign credits together, and however often those of an
\* invoice are given back, no unit of a credit is used twice or lost
\* (invoicing/models/invoice.py:479-547, basket/models.py:146-147).
THEOREM CreditsGrantedOnce == Spec => []CreditsAddUp
<1>1. LingoInv /\ CreditInv => CreditsAddUp
  BY DEF LingoInv, LingoTypeOK, CreditInv, CreditsAddUp
<1>2. LingoInv /\ LingoInv' /\ CreditInv /\ [Next]_vars => CreditInv'
  BY CreditMoves, MovesKeep
<1> QED
  BY <1>1, <1>2, CreditInit, LingoInvariant, PTL DEF Spec
=============================================================================
