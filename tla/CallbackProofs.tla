--------------------------- MODULE CallbackProofs ---------------------------
(***************************************************************************)
(* Proofs about Lingo's notifications, for any objects, requests, number   *)
(* of retries and of workers killed.                                       *)
(***************************************************************************)
EXTENDS LingoCallbacks, FiniteSetTheorems, TLAPS

USE CallbackAssumption

Pcs == {"idle", "insert", "check", "claim", "send", "save"}

WorkerStates ==
    [pc : Pcs, todo : SUBSET Callbacks, seen : [Callbacks -> 0..MaxRetries], ok : BOOLEAN]

Rows ==
    [object : Objects \cup {None}, status : {"none"} \cup Pending \cup Ended,
     retries : 0..(MaxRetries + 1)]

LEMMA IdleType == IdleWorker \in WorkerStates
BY DEF IdleWorker, WorkerStates, Pcs

LEMMA BusyOne ==
  ASSUME CallbackInv, NEW w \in Workers, NEW c \in Callbacks, NEW d \in Callbacks,
         Busy(w, c), Busy(w, d)
  PROVE  c = d
BY DEF Busy, Callbacks

LEMMA RequestHolds ==
  ASSUME CallbackInv, NEW w \in Requests, NEW c \in Callbacks, c \in worker[w].todo
  PROVE  /\ Busy(w, c) /\ worker[w].todo = {c} /\ worker[w].seen[c] = 0
         /\ \A v \in Requests : c \in worker[v].todo => v = w
BY DEF CallbackInv, HoldInv, Busy, Workers, Callbacks

\* What is left of a worker that goes on to its next row.
LEMMA ReturnFacts ==
  ASSUME CallbackInv, NEW w \in Workers, NEW c \in Callbacks, Busy(w, c), Return(w, c)
  PROVE  /\ worker' \in [Workers -> WorkerStates]
         /\ \A v \in Workers \ {w} : worker'[v] = worker[v]
         /\ worker'[w].todo = worker[w].todo \ {c}
         /\ worker'[w].pc \in {"idle", "check"}
         /\ worker'[w].pc = "idle" => worker'[w].todo = {}
         /\ w \in Requests => worker'[w].todo = {}
         /\ \A d \in worker'[w].todo : worker'[w].seen[d] = worker[w].seen[d]
<1>1. worker[w] \in WorkerStates /\ worker \in [Workers -> WorkerStates]
  BY DEF CallbackInv, CallbackTypeOK, WorkerStates, Pcs
<1>2. w \in Requests => worker[w].todo = {c}
  BY DEF CallbackInv, HoldInv, Busy
<1> DEFINE next == Without(worker[w], c)
<1>3. worker' = [worker EXCEPT ![w] = next]
  BY <1>1 DEF Return
<1>4. /\ next \in WorkerStates
      /\ next.todo = worker[w].todo \ {c}
      /\ next.pc \in {"idle", "check"}
      /\ next.pc = "idle" => next.todo = {}
      /\ w \in Requests => next.todo = {}
      /\ \A d \in next.todo : next.seen[d] = worker[w].seen[d]
  <2>1. CASE worker[w].todo = {c}
    BY <2>1, <1>1, IdleType DEF IdleWorker, Without
  <2>2. CASE worker[w].todo # {c}
    BY <2>2, <1>1, <1>2 DEF WorkerStates, Pcs, Without
  <2> QED
    BY <2>1, <2>2
<1> HIDE DEF next
<1>5. worker'[w] = next /\ \A v \in Workers \ {w} : worker'[v] = worker[v]
  BY <1>1, <1>3
<1> QED
  BY <1>1, <1>3, <1>4, <1>5

LEMMA GoToFacts ==
  ASSUME CallbackInv, NEW w \in Workers, NEW pc \in Pcs, GoTo(w, pc)
  PROVE  /\ worker' \in [Workers -> WorkerStates]
         /\ \A v \in Workers \ {w} : worker'[v] = worker[v]
         /\ worker'[w].todo = worker[w].todo
         /\ worker'[w].seen = worker[w].seen
         /\ worker'[w].pc = pc
<1>1. worker[w] \in WorkerStates /\ worker \in [Workers -> WorkerStates]
  BY DEF CallbackInv, CallbackTypeOK, WorkerStates, Pcs
<1> DEFINE next == [worker[w] EXCEPT !.pc = pc]
<1>2. worker' = [worker EXCEPT ![w] = next]
  BY <1>1 DEF GoTo
<1>3. /\ next \in WorkerStates /\ next.todo = worker[w].todo
      /\ next.seen = worker[w].seen /\ next.pc = pc
  BY <1>1 DEF WorkerStates
<1> HIDE DEF next
<1> QED
  BY <1>1, <1>2, <1>3

LEMMA SetStatusFacts ==
  ASSUME CallbackInv, NEW c \in Callbacks,
         NEW s \in {"none"} \cup Pending \cup Ended, SetStatus(c, s)
  PROVE  /\ callback' \in [Callbacks -> Rows]
         /\ \A d \in Callbacks \ {c} : callback'[d] = callback[d]
         /\ \A d \in Callbacks : /\ callback'[d].object = callback[d].object
                                 /\ callback'[d].retries = callback[d].retries
         /\ callback'[c].status = s
BY DEF CallbackInv, CallbackTypeOK, Rows, SetStatus

LEMMA CallbackInvInit == Init => CallbackInv
<1> SUFFICES ASSUME Init PROVE CallbackInv
  OBVIOUS
<1> USE DEF Init
<1>1. CallbackTypeOK
  BY DEF CallbackTypeOK, NoCallback, IdleWorker
<1>2. HoldInv /\ SentByOne /\ OrderInv
  BY DEF HoldInv, SentByOne, OrderInv, Sending, Busy, IdleWorker
<1>3. RowInv /\ CountInv
  BY DEF RowInv, CountInv, NoCallback, Pending
<1> QED
  BY <1>1, <1>2, <1>3 DEF CallbackInv

\* A new row takes a number nobody has, above all rows on record.
LEMMA NotifyStep ==
  ASSUME CallbackInv, NEW w \in Requests, NEW o \in Objects, Notify(w, o)
  PROVE  CallbackInv'
<1>1. PICK c \in Callbacks :
        /\ callback[c].object = None
        /\ \A b \in Callbacks : b < c => callback[b].object # None
        /\ callback' = [callback EXCEPT ![c].object = o]
        /\ worker' = [worker EXCEPT ![w] = [IdleWorker EXCEPT !.pc = "insert", !.todo = {c}]]
        /\ before' = [before EXCEPT ![c] = OnRecord(o)]
  BY DEF Notify
<1>2. /\ w \in Workers /\ worker[w].pc = "idle" /\ worker[w].todo = {}
      /\ UNCHANGED << gone, aborts, heard, attempts >>
  BY DEF Notify, CallbackInv, HoldInv, Workers
<1>3. /\ callback[c].status = "none"
      /\ \A v \in Workers : c \notin worker[v].todo
  BY <1>1 DEF CallbackInv, RowInv, HoldInv
<1>4. /\ callback' \in [Callbacks -> Rows]
      /\ \A d \in Callbacks \ {c} : callback'[d] = callback[d]
      /\ callback'[c].object = o /\ callback'[c].status = "none"
      /\ callback'[c].retries = callback[c].retries
  BY <1>1, <1>3 DEF CallbackInv, CallbackTypeOK, Rows
<1>5. /\ worker' \in [Workers -> WorkerStates]
      /\ \A v \in Workers \ {w} : worker'[v] = worker[v]
      /\ worker'[w].pc = "insert" /\ worker'[w].todo = {c}
      /\ worker'[w].seen = [d \in Callbacks |-> 0]
  BY <1>1, <1>2, IdleType DEF CallbackInv, CallbackTypeOK, WorkerStates, Pcs, IdleWorker
<1>6. /\ before' \in [Callbacks -> SUBSET Callbacks]
      /\ before'[c] = OnRecord(o)
      /\ \A d \in Callbacks \ {c} : before'[d] = before[d]
  BY <1>1 DEF CallbackInv, CallbackTypeOK, OnRecord
<1>7. CallbackTypeOK'
  BY <1>2, <1>4, <1>5, <1>6 DEF CallbackInv, CallbackTypeOK, Rows, WorkerStates, Pcs
<1>8. HoldInv'
  <2>1. ASSUME NEW v \in Workers
        PROVE  /\ worker'[v].pc = "idle" => worker'[v].todo = {}
               /\ worker'[v].pc = "insert" => v \in Requests
    BY <1>2, <1>5 DEF CallbackInv, HoldInv
  <2>2. ASSUME NEW v \in Workers, NEW d \in worker'[v].todo
        PROVE  /\ callback'[d].object # None
               /\ callback'[d].status = "none" <=> worker'[v].pc = "insert"
    <3>1. CASE v = w
      BY <3>1, <2>2, <1>4, <1>5
    <3>2. CASE v # w
      <4>1. d \in worker[v].todo /\ d # c /\ d \in Callbacks
        BY <3>2, <2>2, <1>3, <1>5 DEF CallbackInv, CallbackTypeOK
      <4> QED
        BY <4>1, <3>2, <1>4, <1>5 DEF CallbackInv, HoldInv
    <3> QED
      BY <3>1, <3>2
  <2>3. ASSUME NEW v \in Requests, NEW d \in worker'[v].todo
        PROVE  /\ worker'[v].todo = {d} /\ worker'[v].seen[d] = 0
               /\ \A u \in Requests : d \in worker'[u].todo => u = v
    BY <2>3, <1>3, <1>5 DEF CallbackInv, HoldInv, Workers
  <2> QED
    BY <2>1, <2>2, <2>3 DEF HoldInv
<1>9. RowInv'
  <2>1. \A b \in OnRecord(o) :
          b \in Callbacks /\ b < c /\ callback[b].object = o /\ callback[b].status # "none"
    BY <1>1 DEF OnRecord, CallbackInv, RowInv, Callbacks
  <2>2. ASSUME NEW d \in Callbacks, NEW b \in before'[d]
        PROVE  /\ b < d /\ SameObject(b, d)'
               /\ callback'[d].object # None /\ callback'[b].status # "none"
    <3>1. CASE d = c
      BY <3>1, <2>1, <1>4, <1>6 DEF SameObject, Callbacks
    <3>2. CASE d # c
      BY <3>2, <1>3, <1>4, <1>6 DEF SameObject, CallbackInv, CallbackTypeOK, RowInv
    <3> QED
      BY <3>1, <3>2
  <2>3. ASSUME NEW d \in Callbacks
        PROVE  /\ callback'[d].status # "none" => callback'[d].object # None
               /\ callback'[d].object # None =>
                    \A b \in Callbacks : b < d => callback'[b].object # None
               /\ callback'[d].status \in {"none", "registered"} =>
                    attempts[d] = 0 /\ callback'[d].retries = 0
               /\ callback'[d].status \in Pending => callback'[d].retries =< MaxRetries
               /\ callback'[d].status = "toretry" => MaxRetries > 0
    BY <1>1, <1>3, <1>4 DEF CallbackInv, RowInv, Pending
  <2> QED
    BY <2>2, <2>3, <1>2 DEF RowInv
<1>10. SentByOne' /\ OrderInv'
  <2>1. ASSUME NEW v \in Workers, NEW d \in Callbacks, Busy(v, d)',
               worker'[v].pc # "insert"
        PROVE  v # w /\ d # c /\ Busy(v, d) /\ worker'[v] = worker[v]
    BY <2>1, <1>3, <1>5 DEF Busy
  <2>2. ASSUME NEW d \in Callbacks \ {c}, NEW b \in before[d]
        PROVE  b \in Callbacks \ {c}
    BY <1>3 DEF CallbackInv, CallbackTypeOK, RowInv
  <2>3. SentByOne'
    BY <2>1, <1>4 DEF CallbackInv, SentByOne, Sending
  <2>4. OrderInv'
    BY <2>1, <2>2, <1>4, <1>6 DEF CallbackInv, OrderInv
  <2> QED
    BY <2>3, <2>4
<1>11. CountInv'
  <2>1. ASSUME NEW d \in Callbacks \ {c}
        PROVE  /\ Untried(d)' <=> Untried(d)
               /\ Uncounted(d)' = Uncounted(d)
    BY <1>2, <1>4, <1>5 DEF Untried, Uncounted, Busy, Workers
  <2> QED
    BY <2>1, <1>2, <1>4, <1>5 DEF CallbackInv, CountInv, Pending, Workers
<1> QED
  BY <1>7, <1>8, <1>9, <1>10, <1>11 DEF CallbackInv

LEMMA InsertStep ==
  ASSUME CallbackInv, NEW w \in Workers, NEW c \in Callbacks, Insert(w, c)
  PROVE  CallbackInv'
<1>1. /\ worker[w].pc = "insert" /\ Busy(w, c) /\ c \in worker[w].todo
      /\ SetStatus(c, "registered") /\ GoTo(w, "check")
      /\ UNCHANGED << gone, aborts, before, heard, attempts >>
  BY DEF Insert, Busy
<1>2. /\ callback' \in [Callbacks -> Rows]
      /\ \A d \in Callbacks \ {c} : callback'[d] = callback[d]
      /\ \A d \in Callbacks : /\ callback'[d].object = callback[d].object
                              /\ callback'[d].retries = callback[d].retries
      /\ callback'[c].status = "registered"
  BY <1>1, SetStatusFacts DEF Pending
<1>3. /\ worker' \in [Workers -> WorkerStates]
      /\ \A v \in Workers \ {w} : worker'[v] = worker[v]
      /\ worker'[w].todo = worker[w].todo
      /\ worker'[w].seen = worker[w].seen
      /\ worker'[w].pc = "check"
  BY <1>1, GoToFacts DEF Pcs
<1>4. /\ w \in Requests /\ callback[c].status = "none" /\ callback[c].object # None
      /\ worker[w].todo = {c} /\ worker[w].seen[c] = 0
  BY <1>1 DEF CallbackInv, HoldInv
<1>5. \A v \in Workers : c \in worker[v].todo => v = w
  BY <1>4 DEF CallbackInv, HoldInv
<1>6. CallbackTypeOK'
  BY <1>1, <1>2, <1>3 DEF CallbackInv, CallbackTypeOK, Rows, WorkerStates, Pcs
<1>7. HoldInv'
  <2>1. ASSUME NEW v \in Workers, NEW d \in worker'[v].todo
        PROVE  /\ callback'[d].object # None
               /\ callback'[d].status = "none" <=> worker'[v].pc = "insert"
    BY <2>1, <1>2, <1>3, <1>4, <1>5 DEF CallbackInv, CallbackTypeOK, HoldInv
  <2>2. ASSUME NEW v \in Workers
        PROVE  /\ worker'[v].todo = worker[v].todo /\ worker'[v].seen = worker[v].seen
               /\ worker'[v].pc = "idle" => worker'[v].todo = {}
               /\ worker'[v].pc = "insert" => v \in Requests
    BY <1>3 DEF CallbackInv, HoldInv
  <2> QED
    BY <2>1, <2>2 DEF CallbackInv, HoldInv, Workers
<1>8. RowInv'
  <2>1. ASSUME NEW d \in Callbacks, NEW b \in before'[d]
        PROVE  /\ b < d /\ SameObject(b, d)'
               /\ callback'[d].object # None /\ callback'[b].status # "none"
    <3>1. /\ b \in Callbacks /\ b < d /\ SameObject(b, d)
          /\ callback[d].object # None /\ callback[b].status # "none"
      BY <2>1, <1>1 DEF CallbackInv, CallbackTypeOK, RowInv
    <3> QED
      BY <3>1, <1>2 DEF SameObject
  <2>2. ASSUME NEW d \in Callbacks
        PROVE  /\ callback'[d].status # "none" => callback'[d].object # None
               /\ callback'[d].object # None =>
                    \A b \in Callbacks : b < d => callback'[b].object # None
               /\ callback'[d].status \in {"none", "registered"} =>
                    attempts[d] = 0 /\ callback'[d].retries = 0
               /\ callback'[d].status \in Pending => callback'[d].retries =< MaxRetries
               /\ callback'[d].status = "toretry" => MaxRetries > 0
    BY <1>2, <1>4 DEF CallbackInv, RowInv, Pending
  <2> QED
    BY <2>1, <2>2, <1>1 DEF RowInv
<1>9. SentByOne' /\ OrderInv'
  <2>1. ASSUME NEW v \in Workers, NEW d \in Callbacks, Busy(v, d)',
               worker'[v].pc \in {"claim", "send", "save"}
        PROVE  v # w /\ d # c /\ Busy(v, d) /\ worker'[v] = worker[v]
    BY <2>1, <1>3, <1>5 DEF Busy
  <2>2. ASSUME NEW d \in Callbacks, NEW b \in before[d]
        PROVE  b \in Callbacks \ {c}
    BY <1>4 DEF CallbackInv, CallbackTypeOK, RowInv
  <2>3. SentByOne'
    BY <2>1, <1>2 DEF CallbackInv, SentByOne, Sending
  <2>4. OrderInv'
    BY <2>1, <2>2, <1>1, <1>2 DEF CallbackInv, OrderInv
  <2> QED
    BY <2>3, <2>4
<1>10. CountInv'
  <2>1. ASSUME NEW d \in Callbacks \ {c}
        PROVE  Untried(d)' <=> Untried(d)
    BY <1>3, <1>4 DEF Untried, Workers
  <2>2. ASSUME NEW d \in Callbacks \ {c}
        PROVE  Uncounted(d)' = Uncounted(d)
    BY <1>1, <1>2, <1>3, <1>4 DEF Uncounted, Busy
  <2>3. attempts'[c] = 0 /\ callback'[c].retries = 0 /\ Uncounted(c)' = 0
    BY <1>1, <1>2, <1>4 DEF CallbackInv, RowInv, Uncounted
  <2>4. c \notin worker'[Cron].todo /\ \A v \in Requests : c \in worker'[v].todo => worker'[v].pc # "save"
    BY <1>3, <1>4, <1>5 DEF Workers
  <2>5. /\ attempts'[c] =< 2 * MaxRetries + 1
        /\ attempts'[c] =< callback'[c].retries + MaxRetries + Uncounted(c)'
        /\ attempts'[c] =< callback'[c].retries + Uncounted(c)'
    BY <2>3
  <2>6. \A v \in Requests, d \in Callbacks \ {c} :
            d \in worker'[v].todo /\ worker'[v].pc = "save" => worker'[v] = worker[v]
    BY <1>3 DEF Workers
  <2>7. worker'[Cron] = worker[Cron]
    BY <1>3, <1>4 DEF Workers
  <2> QED
    BY <2>1, <2>2, <2>4, <2>5, <2>6, <2>7, <1>1, <1>2 DEF CallbackInv, CountInv
<1> QED
  BY <1>6, <1>7, <1>8, <1>9, <1>10 DEF CallbackInv

LEMMA RetryStep ==
  ASSUME CallbackInv, RetryCallbacks
  PROVE  CallbackInv'
<1> DEFINE due == {c \in Callbacks : callback[c].status \in {"registered", "toretry"}}
           copy == [c \in Callbacks |-> IF c \in due THEN callback[c].retries ELSE 0]
<1>1. /\ worker[Cron].pc = "idle" /\ due # {}
      /\ worker' = [worker EXCEPT ![Cron] =
             [IdleWorker EXCEPT !.pc = "check", !.todo = due, !.seen = copy]]
      /\ UNCHANGED << callback, gone, aborts, before, heard, attempts >>
  BY DEF RetryCallbacks
<1>2. due \subseteq Callbacks /\ copy \in [Callbacks -> 0..MaxRetries]
  BY DEF CallbackInv, CallbackTypeOK, RowInv, Pending
<1>3. /\ worker' \in [Workers -> WorkerStates]
      /\ \A v \in Requests : worker'[v] = worker[v]
      /\ \A v \in Workers \ {Cron} : worker'[v] = worker[v]
      /\ worker'[Cron].todo = due /\ worker'[Cron].seen = copy
      /\ worker'[Cron].pc = "check"
  BY <1>1, <1>2, IdleType
  DEF CallbackInv, CallbackTypeOK, WorkerStates, Pcs, Workers, IdleWorker
<1> HIDE DEF copy
<1>4. CallbackTypeOK' /\ RowInv'
  <2>1. CallbackTypeOK'
    BY <1>1, <1>3 DEF CallbackInv, CallbackTypeOK, WorkerStates, Pcs
  <2>2. RowInv'
    BY <1>1 DEF CallbackInv, RowInv, SameObject
  <2> QED
    BY <2>1, <2>2
<1>5. HoldInv'
  <2>1. \A c \in due : callback[c].object # None /\ callback[c].status # "none"
    BY DEF CallbackInv, RowInv
  <2> HIDE DEF due
  <2>2. ASSUME NEW v \in Workers
        PROVE  /\ worker'[v].pc = "idle" => worker'[v].todo = {}
               /\ worker'[v].pc = "insert" => v \in Requests
               /\ \A c \in worker'[v].todo :
                    /\ callback'[c].object # None
                    /\ callback'[c].status = "none" <=> worker'[v].pc = "insert"
    <3>1. CASE v = Cron
      BY <3>1, <2>1, <1>1, <1>3
    <3>2. CASE v # Cron
      BY <3>2, <1>1, <1>3 DEF CallbackInv, HoldInv
    <3> QED
      BY <3>1, <3>2
  <2> QED
    BY <2>2, <1>3 DEF CallbackInv, HoldInv, Workers
<1>6. SentByOne' /\ OrderInv'
  <2>1. ASSUME NEW v \in Workers, worker'[v].pc \in {"claim", "send", "save"}
        PROVE  worker'[v] = worker[v]
    BY <2>1, <1>3
  <2>2. UNCHANGED << callback, before >>
    BY <1>1
  <2>3. SentByOne'
    BY <2>1, <2>2 DEF CallbackInv, SentByOne, Sending, Busy
  <2>4. OrderInv'
    BY <2>1, <2>2 DEF CallbackInv, OrderInv, Busy
  <2> QED
    BY <2>3, <2>4
<1>7. CountInv'
  <2>1. ASSUME NEW d \in Callbacks
        PROVE  /\ Untried(d)' <=> Untried(d)
               /\ Uncounted(d)' = Uncounted(d)
    <3>1. Untried(d)' <=> Untried(d)
      BY <1>3 DEF Untried
    <3>2. \A w \in Workers : Busy(w, d)' /\ worker'[w].pc = "send"
                                <=> Busy(w, d) /\ worker[w].pc = "send"
      BY <1>1, <1>3 DEF Busy
    <3> QED
      BY <3>1, <3>2, <1>1 DEF Uncounted
  <2>2. ASSUME NEW d \in due
        PROVE  /\ worker'[Cron].seen[d] = callback[d].retries
               /\ \A w \in Requests : d \in worker[w].todo => worker[w].pc # "save"
    <3>1. worker'[Cron].seen[d] = callback[d].retries
      BY <1>3 DEF copy
    <3>2. ASSUME NEW w \in Requests, d \in worker[w].todo, worker[w].pc = "save"
          PROVE  FALSE
      BY <3>2, RequestHolds DEF CallbackInv, SentByOne, Sending, Workers
    <3> QED
      BY <3>1, <3>2
  <2> HIDE DEF due
  <2>3. ASSUME NEW d \in Callbacks, d \in worker'[Cron].todo, callback[d].status \in Pending
        PROVE  /\ IF Untried(d) THEN worker'[Cron].seen[d] = callback[d].retries
                  ELSE attempts[d] =< worker'[Cron].seen[d] + MaxRetries + Uncounted(d)
               /\ \A w \in Requests : d \in worker[w].todo => worker[w].pc # "save"
    BY <2>2, <2>3, <1>3 DEF CallbackInv, CountInv
  <2> QED
    BY <2>1, <2>3, <1>1, <1>3 DEF CallbackInv, CountInv
<1> QED
  BY <1>4, <1>5, <1>6, <1>7 DEF CallbackInv

\* A worker that returns without a trace, after its check or its claim.
LEMMA ReturnStep ==
  ASSUME CallbackInv, NEW w \in Workers, NEW c \in Callbacks,
         worker[w].pc \in {"check", "claim"}, Busy(w, c), Return(w, c),
         UNCHANGED << callback, gone, aborts, before, heard, attempts >>
  PROVE  CallbackInv'
<1>1. /\ worker' \in [Workers -> WorkerStates]
      /\ \A v \in Workers \ {w} : worker'[v] = worker[v]
      /\ worker'[w].todo = worker[w].todo \ {c}
      /\ worker'[w].pc \in {"idle", "check"}
      /\ worker'[w].pc = "idle" => worker'[w].todo = {}
      /\ w \in Requests => worker'[w].todo = {}
      /\ \A d \in worker'[w].todo : worker'[w].seen[d] = worker[w].seen[d]
  BY ReturnFacts
<1>2. CallbackTypeOK' /\ RowInv'
  <2>1. CallbackTypeOK'
    BY <1>1 DEF CallbackInv, CallbackTypeOK, WorkerStates, Pcs
  <2>2. RowInv'
    BY DEF CallbackInv, RowInv, SameObject
  <2> QED
    BY <2>1, <2>2
<1>3. HoldInv'
  <2>1. ASSUME NEW v \in Workers
        PROVE  /\ worker'[v].pc = "idle" => worker'[v].todo = {}
               /\ worker'[v].pc = "insert" => v \in Requests
               /\ \A d \in worker'[v].todo :
                    /\ callback[d].object # None
                    /\ callback[d].status = "none" <=> worker'[v].pc = "insert"
    BY <1>1 DEF CallbackInv, HoldInv
  <2>2. ASSUME NEW v \in Requests, NEW d \in worker'[v].todo
        PROVE  /\ worker'[v].todo = {d} /\ worker'[v].seen[d] = 0
               /\ \A u \in Requests : d \in worker'[u].todo => u = v
    BY <2>2, <1>1 DEF CallbackInv, HoldInv, Workers
  <2> QED
    BY <2>1, <2>2 DEF HoldInv
<1>4. SentByOne' /\ OrderInv'
  <2>1. ASSUME NEW v \in Workers, worker'[v].pc \in {"claim", "send", "save"}
        PROVE  worker'[v] = worker[v]
    BY <2>1, <1>1
  <2>2. SentByOne'
    BY <2>1 DEF CallbackInv, SentByOne, Sending, Busy
  <2>3. OrderInv'
    BY <2>1 DEF CallbackInv, OrderInv, Busy
  <2> QED
    BY <2>2, <2>3
<1>5. CountInv'
  <2>1. ASSUME NEW d \in Callbacks
        PROVE  Uncounted(d)' = Uncounted(d)
    <3>1. \A v \in Workers : Busy(v, d)' /\ worker'[v].pc = "send"
                                <=> Busy(v, d) /\ worker[v].pc = "send"
      BY <1>1 DEF Busy
    <3> QED
      BY <3>1 DEF Uncounted
  <2>2. ASSUME NEW d \in Callbacks
        PROVE  /\ Untried(d)' => Untried(d)
               /\ Untried(d) /\ w = Cron => Untried(d)'
    BY <1>1 DEF Untried, Workers
  <2>3. /\ worker'[Cron].todo \subseteq worker[Cron].todo
        /\ \A d \in worker'[Cron].todo : worker'[Cron].seen[d] = worker[Cron].seen[d]
        /\ \A v \in Requests : worker'[v].todo \subseteq worker[v].todo
        /\ \A v \in Workers : worker'[v].pc = "save" => worker'[v] = worker[v]
    BY <1>1 DEF Workers
  <2>4. ASSUME NEW d \in Callbacks, callback[d].status \in Pending
        PROVE  /\ attempts[d] \in Nat /\ callback[d].retries \in Nat
               /\ Uncounted(d) \in {0, 1}
    BY DEF CallbackInv, CallbackTypeOK, Uncounted
  <2>5. ASSUME NEW d \in Callbacks, callback[d].status \in Pending
        PROVE  /\ Untried(d)' => attempts[d] =< callback[d].retries + Uncounted(d)
               /\ d \in worker'[Cron].todo =>
                    IF Untried(d)' THEN worker'[Cron].seen[d] = callback[d].retries
                    ELSE attempts[d] =< worker'[Cron].seen[d] + MaxRetries + Uncounted(d)
    <3>1. Untried(d)' => attempts[d] =< callback[d].retries + Uncounted(d)
      BY <2>2, <2>5 DEF CallbackInv, CountInv
    <3>2. CASE d \in worker'[Cron].todo /\ ~Untried(d)' /\ Untried(d)
      BY <3>2, <2>3, <2>4, <2>5 DEF CallbackInv, CountInv
    <3>3. CASE d \in worker'[Cron].todo /\ (Untried(d)' \/ ~Untried(d))
      BY <3>3, <2>2, <2>3, <2>5 DEF CallbackInv, CountInv
    <3> QED
      BY <3>1, <3>2, <3>3
  <2>6. ASSUME NEW d \in Callbacks, callback[d].status \in Pending,
               NEW v \in Requests, d \in worker'[v].todo, worker'[v].pc = "save"
        PROVE  /\ attempts[d] =< MaxRetries + 1
               /\ d \in worker'[Cron].todo => attempts[d] =< worker'[Cron].seen[d] + 1
    BY <2>3, <2>6 DEF CallbackInv, CountInv, Workers
  <2> QED
    BY <2>1, <2>5, <2>6 DEF CallbackInv, CountInv
<1> QED
  BY <1>2, <1>3, <1>4, <1>5 DEF CallbackInv

LEMMA CheckStep ==
  ASSUME CallbackInv, NEW w \in Workers, NEW c \in Callbacks, Check(w, c)
  PROVE  CallbackInv'
<1>1. /\ worker[w].pc = "check" /\ Busy(w, c)
      /\ UNCHANGED << callback, gone, aborts, before, heard, attempts >>
  BY DEF Check
<1>2. CASE HasPrevious(c) \/ Unknown(w, c)
  BY <1>1, <1>2, ReturnStep DEF Check
<1>3. CASE ~(HasPrevious(c) \/ Unknown(w, c))
  <2>1. GoTo(w, "claim")
    BY <1>3 DEF Check
  <2>2. /\ worker' \in [Workers -> WorkerStates]
        /\ \A v \in Workers \ {w} : worker'[v] = worker[v]
        /\ worker'[w].todo = worker[w].todo
        /\ worker'[w].seen = worker[w].seen
        /\ worker'[w].pc = "claim"
    BY <2>1, GoToFacts DEF Pcs
  <2>3. /\ \A v \in Workers : /\ worker'[v].todo = worker[v].todo
                              /\ worker'[v].seen = worker[v].seen
        /\ \A v \in Workers : \A p \in {"idle", "insert", "send", "save"} :
              worker'[v].pc = p <=> worker[v].pc = p
        /\ Cron \in Workers /\ Requests \subseteq Workers
    BY <1>1, <2>2 DEF Workers
  <2>4. \A v \in Workers, d \in Callbacks : Busy(v, d)' <=> Busy(v, d)
    BY <2>3 DEF Busy
  <2>5. CallbackTypeOK'
    BY <1>1, <2>2 DEF CallbackInv, CallbackTypeOK, WorkerStates, Pcs
  <2>6. RowInv'
    BY <1>1 DEF CallbackInv, RowInv, SameObject
  <2>7. HoldInv'
    BY <1>1, <2>3 DEF CallbackInv, HoldInv
  <2>8. SentByOne'
    BY <1>1, <2>3, <2>4 DEF CallbackInv, SentByOne, Sending
  <2>9. OrderInv'
    <3>1. \A b \in before[c] : callback[b].status \in Ended
      BY <1>3 DEF CallbackInv, CallbackTypeOK, RowInv, HasPrevious
    <3>2. \A d \in Callbacks : Busy(w, d) => d = c
      BY <1>1, BusyOne
    <3> QED
      BY <3>1, <3>2, <1>1, <2>2, <2>4 DEF CallbackInv, OrderInv
  <2>10. CountInv'
    <3>1. ASSUME NEW d \in Callbacks
          PROVE  (Untried(d)' <=> Untried(d)) /\ Uncounted(d)' = Uncounted(d)
      BY <1>1, <2>3, <2>4 DEF Untried, Uncounted
    <3> QED
      BY <3>1, <1>1, <2>3 DEF CallbackInv, CountInv
  <2> QED
    BY <2>5, <2>6, <2>7, <2>8, <2>9, <2>10 DEF CallbackInv
<1> QED
  BY <1>2, <1>3

\* The conditional update: whoever finds the row claimable is its only sender.
LEMMA ClaimStep ==
  ASSUME CallbackInv, NEW w \in Workers, NEW c \in Callbacks, Claim(w, c)
  PROVE  CallbackInv'
<1>1. /\ worker[w].pc = "claim" /\ Busy(w, c) /\ c \in worker[w].todo
      /\ UNCHANGED << gone, aborts, before, heard, attempts >>
  BY DEF Claim, Busy
<1>2. CASE ~Claimable(c)
  BY <1>1, <1>2, ReturnStep DEF Claim
<1>3. CASE Claimable(c)
  <2>1. /\ SetStatus(c, "running") /\ GoTo(w, "send")
        /\ callback[c].status \in {"registered", "toretry"}
    BY <1>3 DEF Claim, Claimable
  <2>2. /\ worker' \in [Workers -> WorkerStates]
        /\ \A v \in Workers \ {w} : worker'[v] = worker[v]
        /\ worker'[w].todo = worker[w].todo
        /\ worker'[w].seen = worker[w].seen
        /\ worker'[w].pc = "send"
    BY <2>1, GoToFacts DEF Pcs
  <2>3. /\ callback' \in [Callbacks -> Rows]
        /\ \A d \in Callbacks \ {c} : callback'[d] = callback[d]
        /\ \A d \in Callbacks : /\ callback'[d].object = callback[d].object
                                /\ callback'[d].retries = callback[d].retries
        /\ callback'[c].status = "running"
    BY <2>1, SetStatusFacts DEF Pending
  <2>4. /\ \A v \in Workers : /\ worker'[v].todo = worker[v].todo
                              /\ worker'[v].seen = worker[v].seen
        /\ \A v \in Workers : \A p \in {"idle", "insert", "save"} :
              worker'[v].pc = p <=> worker[v].pc = p
        /\ Cron \in Workers /\ Requests \subseteq Workers
    BY <1>1, <2>2 DEF Workers
  <2>5. /\ \A v \in Workers, d \in Callbacks : Busy(v, d)' <=> Busy(v, d)
        /\ \A d \in Callbacks : Busy(w, d) => d = c
        /\ \A v \in Workers : ~Sending(v, c)
        /\ \A v \in Workers, d \in Callbacks \ {c} : Sending(v, d)' <=> Sending(v, d)
    <3>1. \A v \in Workers, d \in Callbacks : Busy(v, d)' <=> Busy(v, d)
      BY <2>4 DEF Busy
    <3>2. \A d \in Callbacks : Busy(w, d) => d = c
      BY <1>1, BusyOne
    <3>3. \A v \in Workers : ~Sending(v, c)
      BY <2>1 DEF CallbackInv, SentByOne
    <3>4. ASSUME NEW v \in Workers, NEW d \in Callbacks \ {c}
          PROVE  Sending(v, d)' <=> Sending(v, d)
      <4>1. CASE v = w
        BY <4>1, <3>1, <3>2 DEF Sending
      <4>2. CASE v # w
        BY <4>2, <3>1, <2>2 DEF Sending
      <4> QED
        BY <4>1, <4>2
    <3> QED
      BY <3>1, <3>2, <3>3, <3>4
  <2>6. CallbackTypeOK'
    BY <1>1, <2>2, <2>3 DEF CallbackInv, CallbackTypeOK, Rows, WorkerStates, Pcs
  <2>7. HoldInv'
    <3>1. ASSUME NEW v \in Workers, NEW d \in worker[v].todo
          PROVE  /\ callback'[d].object # None
                 /\ callback'[d].status = "none" <=> worker'[v].pc = "insert"
      <4>1. /\ d \in Callbacks /\ callback[d].object # None
            /\ callback[d].status = "none" <=> worker[v].pc = "insert"
        BY <3>1 DEF CallbackInv, CallbackTypeOK, HoldInv
      <4>2. callback[d].status = "none" <=> callback'[d].status = "none"
        BY <4>1, <2>1, <2>3
      <4> QED
        BY <4>1, <4>2, <2>3, <2>4
    <3> QED
      BY <3>1, <2>4 DEF CallbackInv, HoldInv
  <2>8. RowInv'
    <3>1. ASSUME NEW d \in Callbacks, NEW b \in before'[d]
          PROVE  /\ b < d /\ SameObject(b, d)'
                 /\ callback'[d].object # None /\ callback'[b].status # "none"
      <4>1. /\ b \in Callbacks /\ b < d /\ SameObject(b, d)
            /\ callback[d].object # None /\ callback[b].status # "none"
        BY <3>1, <1>1 DEF CallbackInv, CallbackTypeOK, RowInv
      <4> QED
        BY <4>1, <2>3 DEF SameObject
    <3>2. ASSUME NEW d \in Callbacks
          PROVE  /\ callback'[d].status # "none" => callback'[d].object # None
                 /\ callback'[d].object # None =>
                      \A b \in Callbacks : b < d => callback'[b].object # None
                 /\ callback'[d].status \in {"none", "registered"} =>
                      attempts[d] = 0 /\ callback'[d].retries = 0
                 /\ callback'[d].status \in Pending => callback'[d].retries =< MaxRetries
                 /\ callback'[d].status = "toretry" => MaxRetries > 0
      BY <2>1, <2>3 DEF CallbackInv, RowInv, Pending
    <3> QED
      BY <3>1, <3>2, <1>1 DEF RowInv
  <2>9. SentByOne'
    <3>1. ASSUME NEW v \in Workers, Sending(v, c)'
          PROVE  v = w
      BY <3>1, <2>2, <2>5 DEF Sending
    <3> QED
      BY <3>1, <2>3, <2>5 DEF CallbackInv, SentByOne
  <2>10. OrderInv'
    <3>1. ASSUME NEW v \in Workers, NEW d \in Callbacks, Busy(v, d),
                 worker'[v].pc \in {"claim", "send"}, NEW b \in before[d]
          PROVE  b \in Callbacks /\ callback[b].status \in Ended
      BY <3>1, <1>1, <2>2 DEF CallbackInv, CallbackTypeOK, OrderInv
    <3>2. \A b \in Callbacks : callback[b].status \in Ended =>
              callback'[b] = callback[b]
      BY <2>1, <2>3 DEF Ended
    <3> QED
      BY <3>1, <3>2, <2>5, <1>1 DEF OrderInv
  <2>11. CountInv'
    <3>1. ASSUME NEW d \in Callbacks
          PROVE  Untried(d)' <=> Untried(d)
      BY <2>4 DEF Untried
    <3>2. ASSUME NEW d \in Callbacks \ {c}
          PROVE  Uncounted(d)' = Uncounted(d)
      <4>1. \A v \in Workers : Busy(v, d)' /\ worker'[v].pc = "send"
                                  <=> Busy(v, d) /\ worker[v].pc = "send"
        BY <2>2, <2>5
      <4> QED
        BY <4>1, <2>3 DEF Uncounted
    <3>3. Uncounted(c)' = 0 /\ Uncounted(c) = 0
      BY <1>1, <2>1, <2>2, <2>5 DEF Uncounted
    <3>4. callback[c].status \in Pending /\ callback'[c].retries = callback[c].retries
      BY <2>1, <2>3 DEF Pending
    <3>5. ASSUME NEW d \in Callbacks
          PROVE  /\ Uncounted(d)' = Uncounted(d)
                 /\ callback'[d].status \in Pending => callback[d].status \in Pending
                 /\ callback'[d].retries = callback[d].retries
      BY <3>2, <3>3, <3>4, <2>3
    <3> HIDE <2>1
    <3> QED
      BY <3>1, <3>5, <1>1, <2>4 DEF CallbackInv, CountInv
  <2> QED
    BY <2>6, <2>7, <2>8, <2>9, <2>10, <2>11 DEF CallbackInv
<1> QED
  BY <1>2, <1>3

\* An attempt: from now on it is the worker's copy that lags, not the row.
LEMMA SendStep ==
  ASSUME CallbackInv, NEW w \in Workers, NEW c \in Callbacks, Send(w, c)
  PROVE  CallbackInv'
<1>1. /\ worker[w].pc = "send" /\ Busy(w, c) /\ c \in worker[w].todo
      /\ UNCHANGED << callback, gone, aborts, before >>
      /\ attempts' = [attempts EXCEPT ![c] = @ + 1]
  BY DEF Send, Busy
<1>2. /\ Sending(w, c) /\ callback[c].status = "running" /\ callback[c].object # None
      /\ callback[c].object \in Objects
      /\ \A v \in Workers : Sending(v, c) => v = w
  BY <1>1 DEF Sending, CallbackInv, SentByOne, HoldInv, CallbackTypeOK
<1>3. PICK ok \in BOOLEAN :
        /\ worker' = [worker EXCEPT ![w].pc = "save", ![w].ok = ok]
        /\ heard' \in {heard, [heard EXCEPT ![callback[c].object] = c]}
  BY DEF Send
<1>4. /\ worker' \in [Workers -> WorkerStates]
      /\ \A v \in Workers \ {w} : worker'[v] = worker[v]
      /\ worker'[w].todo = worker[w].todo
      /\ worker'[w].seen = worker[w].seen
      /\ worker'[w].pc = "save"
  <2>1. worker[w] \in WorkerStates /\ worker \in [Workers -> WorkerStates]
    BY DEF CallbackInv, CallbackTypeOK, WorkerStates, Pcs
  <2> DEFINE next == [[worker[w] EXCEPT !.pc = "save"] EXCEPT !.ok = ok]
  <2>2. worker' = [worker EXCEPT ![w] = next]
    BY <1>3, <2>1
  <2>3. /\ next \in WorkerStates /\ next.todo = worker[w].todo
        /\ next.seen = worker[w].seen /\ next.pc = "save"
    BY <2>1 DEF WorkerStates, Pcs
  <2> HIDE DEF next
  <2> QED
    BY <2>1, <2>2, <2>3
<1>5. /\ \A v \in Workers : /\ worker'[v].todo = worker[v].todo
                            /\ worker'[v].seen = worker[v].seen
      /\ \A v \in Workers : \A p \in {"idle", "insert"} :
            worker'[v].pc = p <=> worker[v].pc = p
      /\ \A v \in Workers, d \in Callbacks : Busy(v, d)' <=> Busy(v, d)
      /\ \A v \in Workers, d \in Callbacks : Sending(v, d)' <=> Sending(v, d)
      /\ Cron \in Workers /\ Requests \subseteq Workers
  BY <1>1, <1>4 DEF Workers, Sending, Busy
<1>6. /\ attempts' \in [Callbacks -> Nat]
      /\ attempts[c] \in Nat /\ attempts'[c] = attempts[c] + 1
      /\ \A d \in Callbacks \ {c} : attempts'[d] = attempts[d]
  BY <1>1 DEF CallbackInv, CallbackTypeOK
<1>7. CallbackTypeOK'
  <2>1. heard' \in [Objects -> Callbacks \cup {None}]
    BY <1>2, <1>3 DEF CallbackInv, CallbackTypeOK
  <2> QED
    BY <2>1, <1>1, <1>4, <1>6 DEF CallbackInv, CallbackTypeOK, WorkerStates, Pcs
<1>8. HoldInv'
  BY <1>1, <1>5 DEF CallbackInv, HoldInv
<1>9. RowInv'
  <2>1. \A d \in Callbacks : callback[d].status \in {"none", "registered"} =>
            attempts'[d] = attempts[d]
    BY <1>2, <1>6
  <2> QED
    BY <2>1, <1>1 DEF CallbackInv, RowInv, SameObject
<1>10. SentByOne' /\ OrderInv'
  <2>1. SentByOne'
    BY <1>1, <1>5 DEF CallbackInv, SentByOne
  <2>2. OrderInv'
    BY <1>1, <1>4, <1>5 DEF CallbackInv, OrderInv
  <2> QED
    BY <2>1, <2>2
<1>11. CountInv'
  <2>1. ASSUME NEW d \in Callbacks \ {c}
        PROVE  (Untried(d)' <=> Untried(d)) /\ Uncounted(d)' = Uncounted(d)
    <3>1. ~Busy(w, d)
      BY <1>1, BusyOne
    <3>2. \A v \in Workers : Busy(v, d)' /\ worker'[v].pc = "send"
                                <=> Busy(v, d) /\ worker[v].pc = "send"
      BY <3>1, <1>4, <1>5
    <3>3. w \in Requests => d \notin worker[w].todo
      BY <3>1, RequestHolds
    <3> QED
      BY <3>2, <3>3, <1>1, <1>4, <1>5 DEF Untried, Uncounted
  <2>2. Uncounted(c) = 0 /\ Uncounted(c)' = 1
    <3>1. \A v \in Workers : ~(Busy(v, c)' /\ worker'[v].pc = "send")
      BY <1>2, <1>4, <1>5 DEF Sending
    <3> QED
      BY <3>1, <1>1, <1>2 DEF Uncounted
  <2>3. callback[c].retries \in Nat /\ callback[c].retries =< MaxRetries
    BY <1>2 DEF CallbackInv, CallbackTypeOK, RowInv, Pending
  <2>4. /\ w \in Requests => Untried(c) /\ ~Untried(c)'
        /\ w = Cron => (Untried(c)' <=> Untried(c))
        /\ \A v \in Requests : c \in worker'[v].todo /\ worker'[v].pc = "save" => v = w
    <3>1. w \in Requests => Untried(c) /\ ~Untried(c)'
      BY <1>1, <1>4, <1>5, RequestHolds DEF Untried
    <3>2. w = Cron => (Untried(c)' <=> Untried(c))
      BY <1>4, <1>5 DEF Untried
    <3>3. ASSUME NEW v \in Requests, c \in worker'[v].todo, worker'[v].pc = "save", v # w
          PROVE  FALSE
      BY <3>3, <1>2, <1>4, <1>5, RequestHolds DEF Sending
    <3> QED
      BY <3>1, <3>2, <3>3
  <2>5. /\ attempts[c] =< callback[c].retries + MaxRetries
        /\ Untried(c) => attempts[c] =< callback[c].retries
        /\ c \in worker[Cron].todo =>
              IF Untried(c) THEN worker[Cron].seen[c] = callback[c].retries
              ELSE attempts[c] =< worker[Cron].seen[c] + MaxRetries
    BY <1>2, <2>2, <2>3, <1>6 DEF CallbackInv, CountInv, Pending, CallbackTypeOK, Workers
  <2>6. worker[Cron].seen[c] \in Nat
    BY <1>5 DEF CallbackInv, CallbackTypeOK
  <2>7. /\ attempts'[c] =< 2 * MaxRetries + 1
        /\ attempts'[c] =< callback[c].retries + MaxRetries + 1
        /\ Untried(c)' => attempts'[c] =< callback[c].retries + 1
        /\ c \in worker[Cron].todo =>
              IF Untried(c)' THEN worker[Cron].seen[c] = callback[c].retries
              ELSE attempts'[c] =< worker[Cron].seen[c] + MaxRetries + 1
    <3>1. CASE w = Cron
      BY <3>1, <2>3, <2>4, <2>5, <2>6, <1>6
    <3>2. CASE w \in Requests
      BY <3>2, <2>3, <2>4, <2>5, <2>6, <1>6
    <3> QED
      BY <3>1, <3>2 DEF Workers
  <2>8. ASSUME NEW v \in Requests, c \in worker'[v].todo, worker'[v].pc = "save"
        PROVE  /\ attempts'[c] =< MaxRetries + 1
               /\ c \in worker[Cron].todo => attempts'[c] =< worker[Cron].seen[c] + 1
    BY <2>8, <2>3, <2>4, <2>5, <2>6, <1>6
  <2>9. ASSUME NEW d \in Callbacks \ {c}, NEW v \in Requests,
               d \in worker'[v].todo, worker'[v].pc = "save"
        PROVE  d \in worker[v].todo /\ worker[v].pc = "save"
    <3>1. v # w
      BY <2>9, <1>1, <1>5, RequestHolds, BusyOne
    <3> QED
      BY <3>1, <2>9, <1>4, <1>5
  <2> QED
    BY <2>1, <2>2, <2>7, <2>8, <2>9, <1>1, <1>5, <1>6 DEF CallbackInv, CountInv
<1> QED
  BY <1>7, <1>8, <1>9, <1>10, <1>11 DEF CallbackInv

\* The outcome is written with the counter the worker read.
LEMMA SaveStep ==
  ASSUME CallbackInv, NEW w \in Workers, NEW c \in Callbacks, Save(w, c)
  PROVE  CallbackInv'
<1> DEFINE result == Outcome(worker[w].ok, worker[w].seen[c])
<1>1. /\ worker[w].pc = "save" /\ Busy(w, c) /\ c \in worker[w].todo
      /\ Return(w, c)
      /\ UNCHANGED << gone, aborts, before, heard, attempts >>
  BY DEF Save, Busy
<1>2. /\ Sending(w, c) /\ callback[c].status = "running" /\ callback[c].object # None
      /\ \A v \in Workers : Sending(v, c) => v = w
  BY <1>1 DEF Sending, CallbackInv, SentByOne, HoldInv
<1>3. /\ worker' \in [Workers -> WorkerStates]
      /\ \A v \in Workers \ {w} : worker'[v] = worker[v]
      /\ worker'[w].todo = worker[w].todo \ {c}
      /\ worker'[w].pc \in {"idle", "check"}
      /\ worker'[w].pc = "idle" => worker'[w].todo = {}
      /\ w \in Requests => worker'[w].todo = {}
      /\ \A d \in worker'[w].todo : worker'[w].seen[d] = worker[w].seen[d]
  BY <1>1, ReturnFacts
<1>4. /\ worker[w].seen[c] \in 0..MaxRetries
      /\ result.status \in {"completed", "failed", "toretry"}
      /\ result.retries \in 0..(MaxRetries + 1)
      /\ result.status = "toretry" =>
            /\ result.retries = worker[w].seen[c] + 1
            /\ result.retries =< MaxRetries
            /\ MaxRetries > 0
  <2>1. worker[w].seen[c] \in 0..MaxRetries /\ worker[w].ok \in BOOLEAN
    BY DEF CallbackInv, CallbackTypeOK
  <2> QED
    BY <2>1 DEF Outcome
<1>5. /\ callback' \in [Callbacks -> Rows]
      /\ \A d \in Callbacks \ {c} : callback'[d] = callback[d]
      /\ \A d \in Callbacks : callback'[d].object = callback[d].object
      /\ callback'[c].status = result.status
      /\ callback'[c].retries = result.retries
  <2>1. callback' = [callback EXCEPT ![c].status = result.status,
                                     ![c].retries = result.retries]
    BY DEF Save
  <2>2. callback \in [Callbacks -> Rows] /\ callback[c] \in Rows
    BY DEF CallbackInv, CallbackTypeOK, Rows
  <2> HIDE DEF result
  <2> DEFINE next == [[callback[c] EXCEPT !.status = result.status]
                          EXCEPT !.retries = result.retries]
  <2>3. callback' = [callback EXCEPT ![c] = next]
    BY <2>1, <2>2
  <2>4. /\ next \in Rows /\ next.object = callback[c].object
        /\ next.status = result.status /\ next.retries = result.retries
    BY <2>2, <1>4 DEF Rows, Pending, Ended
  <2> HIDE DEF next
  <2> QED
    BY <2>2, <2>3, <2>4
<1> HIDE DEF result
<1>6. CallbackTypeOK'
  BY <1>1, <1>3, <1>5 DEF CallbackInv, CallbackTypeOK, Rows, WorkerStates, Pcs
<1>7. \A v \in Workers : \A d \in worker'[v].todo :
          d \in Callbacks /\ d \in worker[v].todo /\ (v = w => d # c)
  BY <1>3 DEF CallbackInv, CallbackTypeOK
<1>8. HoldInv'
  <2>1. ASSUME NEW v \in Workers
        PROVE  /\ worker'[v].pc = "idle" => worker'[v].todo = {}
               /\ worker'[v].pc = "insert" => v \in Requests
    BY <1>3 DEF CallbackInv, HoldInv
  <2>2. ASSUME NEW v \in Workers, NEW d \in worker'[v].todo
        PROVE  /\ callback'[d].object # None
               /\ callback'[d].status = "none" <=> worker'[v].pc = "insert"
    <3>1. /\ d \in Callbacks /\ d \in worker[v].todo
          /\ callback[d].object # None
          /\ callback[d].status = "none" <=> worker[v].pc = "insert"
      BY <2>2, <1>7 DEF CallbackInv, HoldInv
    <3>2. callback[d].status = "none" <=> callback'[d].status = "none"
      BY <3>1, <1>2, <1>4, <1>5
    <3>3. worker[v].pc = "insert" <=> worker'[v].pc = "insert"
      BY <2>2, <1>1, <1>3
    <3> QED
      BY <3>1, <3>2, <3>3, <1>5
  <2>3. ASSUME NEW v \in Requests, NEW d \in worker'[v].todo
        PROVE  /\ worker'[v].todo = {d} /\ worker'[v].seen[d] = 0
               /\ \A u \in Requests : d \in worker'[u].todo => u = v
    BY <2>3, <1>3 DEF CallbackInv, HoldInv, Workers
  <2> QED
    BY <2>1, <2>2, <2>3 DEF HoldInv
<1>9. RowInv'
  <2>1. ASSUME NEW d \in Callbacks, NEW b \in before'[d]
        PROVE  /\ b < d /\ SameObject(b, d)'
               /\ callback'[d].object # None /\ callback'[b].status # "none"
    <3>1. /\ b \in Callbacks /\ b < d /\ SameObject(b, d)
          /\ callback[d].object # None /\ callback[b].status # "none"
      BY <2>1, <1>1 DEF CallbackInv, CallbackTypeOK, RowInv
    <3> QED
      BY <3>1, <1>4, <1>5 DEF SameObject
  <2>2. ASSUME NEW d \in Callbacks
        PROVE  /\ callback'[d].status # "none" => callback'[d].object # None
               /\ callback'[d].object # None =>
                    \A b \in Callbacks : b < d => callback'[b].object # None
               /\ callback'[d].status \in {"none", "registered"} =>
                    attempts[d] = 0 /\ callback'[d].retries = 0
               /\ callback'[d].status \in Pending => callback'[d].retries =< MaxRetries
               /\ callback'[d].status = "toretry" => MaxRetries > 0
    BY <1>2, <1>4, <1>5 DEF CallbackInv, RowInv, Pending
  <2> QED
    BY <2>1, <2>2, <1>1 DEF RowInv
<1>10. SentByOne' /\ OrderInv'
  <2>1. ASSUME NEW v \in Workers, worker'[v].pc \in {"claim", "send", "save"}
        PROVE  v # w /\ worker'[v] = worker[v]
    BY <2>1, <1>3
  <2>2. SentByOne'
    <3>1. ASSUME NEW v \in Workers, NEW d \in Callbacks, Sending(v, d)'
          PROVE  d # c /\ Sending(v, d)
      BY <3>1, <2>1, <1>2 DEF Sending, Busy
    <3> QED
      BY <3>1, <1>5 DEF CallbackInv, SentByOne
  <2>3. OrderInv'
    <3>1. ASSUME NEW v \in Workers, NEW d \in Callbacks, Busy(v, d)',
                 worker'[v].pc \in {"claim", "send"}, NEW b \in before[d]
          PROVE  b \in Callbacks /\ callback[b].status \in Ended
      BY <3>1, <2>1 DEF CallbackInv, CallbackTypeOK, OrderInv, Busy
    <3>2. \A b \in Callbacks : callback[b].status \in Ended =>
              callback'[b] = callback[b]
      BY <1>2, <1>5 DEF Ended
    <3> QED
      BY <3>1, <3>2, <1>1 DEF OrderInv
  <2> QED
    BY <2>2, <2>3
<1>11. CountInv'
  <2>1. ASSUME NEW d \in Callbacks \ {c}
        PROVE  (Untried(d)' <=> Untried(d)) /\ Uncounted(d)' = Uncounted(d)
    <3>1. \A v \in Workers : Busy(v, d)' /\ worker'[v].pc = "send"
                                <=> Busy(v, d) /\ worker[v].pc = "send"
      BY <1>1, <1>3 DEF Busy
    <3>2. Untried(d)' <=> Untried(d)
      BY <1>1, <1>3, RequestHolds DEF Untried, Workers
    <3> QED
      BY <3>1, <3>2, <1>5 DEF Uncounted
  <2>2. /\ \A v \in Requests, d \in Callbacks : d \in worker'[v].todo => d \in worker[v].todo
        /\ \A v \in Requests : worker'[v].pc = "save" => worker[v].pc = "save"
        /\ \A d \in worker'[Cron].todo :
              d \in worker[Cron].todo /\ worker'[Cron].seen[d] = worker[Cron].seen[d]
        /\ Requests \subseteq Workers /\ Cron \in Workers
    BY <1>1, <1>3 DEF Workers
  <2>3. \A v \in Requests : c \in worker'[v].todo => worker'[v].pc # "save"
    BY <1>2, <1>3, <2>2, RequestHolds DEF Sending
  <2>4. /\ callback[c].status \in Pending /\ attempts[c] \in Nat
        /\ callback[c].retries \in Nat
        /\ \A v \in Workers : worker[v].seen[c] \in Nat
        /\ Uncounted(c) \in {0, 1} /\ Uncounted(c)' \in {0, 1}
    BY <1>2 DEF CallbackInv, CallbackTypeOK, Pending, Uncounted
  <2>5. /\ attempts[c] =< 2 * MaxRetries + 1
        /\ Untried(c) => attempts[c] =< callback[c].retries + Uncounted(c)
        /\ c \in worker[Cron].todo =>
             IF Untried(c) THEN worker[Cron].seen[c] = callback[c].retries
             ELSE attempts[c] =< worker[Cron].seen[c] + MaxRetries + Uncounted(c)
        /\ w \in Requests =>
             /\ attempts[c] =< MaxRetries + 1
             /\ c \in worker[Cron].todo => attempts[c] =< worker[Cron].seen[c] + 1
    BY <1>1, <2>4 DEF CallbackInv, CountInv
  <2>6. /\ w \in Requests => ~Untried(c)' /\ worker[w].seen[c] = 0
        /\ w = Cron => (Untried(c)' <=> Untried(c)) /\ c \notin worker'[Cron].todo
    <3>1. w \in Requests => ~Untried(c)' /\ worker[w].seen[c] = 0
      BY <1>1, <1>3, <2>2, RequestHolds DEF Untried
    <3>2. w = Cron => (Untried(c)' <=> Untried(c)) /\ c \notin worker'[Cron].todo
      BY <1>3, <2>2 DEF Untried
    <3> QED
      BY <3>1, <3>2
  <2>7. ASSUME callback'[c].status \in Pending
        PROVE  /\ attempts[c] =< callback'[c].retries + MaxRetries + Uncounted(c)'
               /\ Untried(c)' => attempts[c] =< callback'[c].retries + Uncounted(c)'
               /\ c \in worker'[Cron].todo =>
                    IF Untried(c)' THEN worker'[Cron].seen[c] = callback'[c].retries
                    ELSE attempts[c] =< worker'[Cron].seen[c] + MaxRetries + Uncounted(c)'
    <3>1. /\ callback'[c].retries = worker[w].seen[c] + 1 /\ MaxRetries > 0
      BY <2>7, <1>4, <1>5 DEF Pending
    <3>2. CASE w = Cron
      BY <3>1, <3>2, <2>4, <2>5, <2>6, <1>1
    <3>3. CASE w \in Requests
      BY <3>1, <3>3, <2>2, <2>4, <2>5, <2>6
    <3> QED
      BY <3>2, <3>3 DEF Workers
  <2> QED
    BY <2>1, <2>2, <2>3, <2>5, <2>7, <1>1, <1>5 DEF CallbackInv, CountInv
<1> QED
  BY <1>6, <1>8, <1>9, <1>10, <1>11 DEF CallbackInv

LEMMA AbortStep ==
  ASSUME CallbackInv, NEW w \in Workers, Abort(w)
  PROVE  CallbackInv'
<1>1. /\ aborts' = aborts + 1 /\ aborts < MaxAborts
      /\ UNCHANGED << callback, gone, before, heard, attempts >>
      /\ worker' = [worker EXCEPT ![w] = IdleWorker]
  BY DEF Abort
<1>2. /\ worker' \in [Workers -> WorkerStates]
      /\ \A v \in Workers \ {w} : worker'[v] = worker[v]
      /\ worker'[w].pc = "idle" /\ worker'[w].todo = {}
      /\ Cron \in Workers /\ Requests \subseteq Workers
  BY <1>1, IdleType
  DEF IdleWorker, CallbackInv, CallbackTypeOK, WorkerStates, Pcs, Workers
<1>3. CallbackTypeOK'
  BY <1>1, <1>2 DEF CallbackInv, CallbackTypeOK, WorkerStates, Pcs
<1>4. UNCHANGED << callback, before, attempts >>
  BY <1>1
<1> HIDE DEF Abort
<1>5. RowInv'
  BY <1>4 DEF CallbackInv, RowInv, SameObject
<1>6. HoldInv'
  BY <1>2, <1>4 DEF CallbackInv, HoldInv
<1>7. SentByOne' /\ OrderInv'
  <2>1. \A v \in Workers : worker'[v].pc # "idle" => worker'[v] = worker[v]
    BY <1>2
  <2>2. SentByOne'
    BY <2>1, <1>4 DEF CallbackInv, SentByOne, Sending, Busy
  <2>3. OrderInv'
    BY <2>1, <1>4 DEF CallbackInv, OrderInv, Busy
  <2> QED
    BY <2>2, <2>3
<1>8. CountInv'
  <2>1. ASSUME NEW d \in Callbacks
        PROVE  /\ Uncounted(d) \in {0, 1} /\ Uncounted(d)' \in {0, 1}
               /\ Uncounted(d) =< Uncounted(d)'
               /\ Untried(d)' => Untried(d)
               /\ w = Cron /\ Untried(d) => Untried(d)'
    <3>1. \A v \in Workers : Busy(v, d)' /\ worker'[v].pc = "send"
                                => Busy(v, d) /\ worker[v].pc = "send"
      BY <1>2 DEF Busy
    <3>2. /\ Untried(d)' => Untried(d)
          /\ w = Cron /\ Untried(d) => Untried(d)'
      BY <1>2 DEF Untried
    <3> QED
      BY <3>1, <3>2, <1>4 DEF Uncounted
  <2>2. ASSUME NEW d \in Callbacks
        PROVE  /\ attempts[d] \in Nat /\ callback[d].retries \in Nat
               /\ worker[Cron].seen[d] \in Nat
    BY <1>2 DEF CallbackInv, CallbackTypeOK
  <2>3. ASSUME NEW d \in Callbacks, callback[d].status \in Pending
        PROVE  /\ attempts[d] =< callback[d].retries + MaxRetries + Uncounted(d)'
               /\ Untried(d)' => attempts[d] =< callback[d].retries + Uncounted(d)'
    BY <2>1, <2>2, <2>3 DEF CallbackInv, CountInv
  <2>4. ASSUME NEW d \in Callbacks, callback[d].status \in Pending,
               d \in worker'[Cron].todo
        PROVE  IF Untried(d)' THEN worker'[Cron].seen[d] = callback[d].retries
               ELSE attempts[d] =< worker'[Cron].seen[d] + MaxRetries + Uncounted(d)'
    <3>1. w # Cron /\ worker'[Cron] = worker[Cron]
      BY <2>4, <1>2
    <3>2. CASE Untried(d)'
      BY <3>1, <3>2, <2>1, <2>4 DEF CallbackInv, CountInv
    <3>3. CASE ~Untried(d)' /\ Untried(d)
      BY <3>1, <3>3, <2>1, <2>2, <2>4 DEF CallbackInv, CountInv
    <3>4. CASE ~Untried(d)
      BY <3>1, <3>4, <2>1, <2>2, <2>4 DEF CallbackInv, CountInv
    <3> QED
      BY <3>2, <3>3, <3>4
  <2>5. /\ \A v \in Workers : worker'[v].pc = "save" => worker'[v] = worker[v]
        /\ \A d \in worker'[Cron].todo : worker'[Cron] = worker[Cron]
    BY <1>2
  <2> QED
    BY <2>3, <2>4, <2>5, <1>2, <1>4 DEF CallbackInv, CountInv
<1> QED
  BY <1>3, <1>5, <1>6, <1>7, <1>8 DEF CallbackInv

\* Deleting an object disturbs nothing here; clearing a row that has ended
\* disturbs no worker.
LEMMA DeleteStep ==
  ASSUME CallbackInv, NEW o \in Objects, DeleteObject(o)
  PROVE  CallbackInv'
BY DEF DeleteObject, CallbackInv, CallbackTypeOK, HoldInv, RowInv, SentByOne, OrderInv,
       CountInv, SameObject, Sending, Busy, Untried, Uncounted

LEMMA ClearStep ==
  ASSUME CallbackInv, NEW c \in Callbacks, ClearCallback(c)
  PROVE  CallbackInv'
<1>1. /\ callback[c].status \in {"completed", "failed"}
      /\ \A w \in Workers : c \notin worker[w].todo
      /\ SetStatus(c, "cleared")
      /\ UNCHANGED << gone, worker, aborts, before, heard, attempts >>
  BY DEF ClearCallback
<1>2. /\ callback' \in [Callbacks -> Rows]
      /\ \A d \in Callbacks \ {c} : callback'[d] = callback[d]
      /\ \A d \in Callbacks : /\ callback'[d].object = callback[d].object
                              /\ callback'[d].retries = callback[d].retries
      /\ callback'[c].status = "cleared"
  BY <1>1, SetStatusFacts DEF Ended
<1>3. CallbackTypeOK'
  BY <1>1, <1>2 DEF CallbackInv, CallbackTypeOK, Rows
<1>4. HoldInv'
  <2>1. \A w \in Workers : \A d \in worker[w].todo : d \in Callbacks \ {c}
    BY <1>1 DEF CallbackInv, CallbackTypeOK
  <2> QED
    BY <2>1, <1>1, <1>2 DEF CallbackInv, HoldInv
<1>5. RowInv'
  <2>1. ASSUME NEW d \in Callbacks, NEW b \in before'[d]
        PROVE  /\ b < d /\ SameObject(b, d)'
               /\ callback'[d].object # None /\ callback'[b].status # "none"
    <3>1. /\ b \in Callbacks /\ b < d /\ SameObject(b, d)
          /\ callback[d].object # None /\ callback[b].status # "none"
      BY <2>1, <1>1 DEF CallbackInv, CallbackTypeOK, RowInv
    <3> QED
      BY <3>1, <1>2 DEF SameObject
  <2>2. ASSUME NEW d \in Callbacks
        PROVE  /\ callback'[d].status # "none" => callback'[d].object # None
               /\ callback'[d].object # None =>
                    \A b \in Callbacks : b < d => callback'[b].object # None
               /\ callback'[d].status \in {"none", "registered"} =>
                    attempts[d] = 0 /\ callback'[d].retries = 0
               /\ callback'[d].status \in Pending => callback'[d].retries =< MaxRetries
               /\ callback'[d].status = "toretry" => MaxRetries > 0
    BY <1>1, <1>2 DEF CallbackInv, RowInv, Pending
  <2> QED
    BY <2>1, <2>2, <1>1 DEF RowInv
<1>6. SentByOne' /\ OrderInv'
  <2>1. \A w \in Workers, d \in Callbacks : Busy(w, d)' <=> Busy(w, d)
    BY <1>1 DEF Busy
  <2>2. SentByOne'
    BY <2>1, <1>1, <1>2 DEF CallbackInv, SentByOne, Sending
  <2>3. ASSUME NEW b \in Callbacks, callback[b].status \in Ended
        PROVE  callback'[b].status \in Ended
    BY <2>3, <1>2 DEF Ended
  <2>4. OrderInv'
    BY <2>1, <2>3, <1>1 DEF CallbackInv, CallbackTypeOK, OrderInv
  <2> QED
    BY <2>2, <2>4
<1>7. CountInv'
  <2>1. ASSUME NEW d \in Callbacks
        PROVE  /\ Untried(d)' <=> Untried(d)
               /\ d # c => Uncounted(d)' = Uncounted(d)
    BY <1>1, <1>2 DEF Untried, Uncounted, Busy
  <2>2. callback'[c].status \notin Pending
    BY <1>2 DEF Pending
  <2> QED
    BY <2>1, <2>2, <1>1, <1>2 DEF CallbackInv, CountInv
<1> QED
  BY <1>3, <1>4, <1>5, <1>6, <1>7 DEF CallbackInv

LEMMA CallbackInvNext == CallbackInv /\ [Next]_vars => CallbackInv'
<1> SUFFICES ASSUME CallbackInv, [Next]_vars PROVE CallbackInv'
  OBVIOUS
<1>1. ASSUME NEW w \in Requests, NEW o \in Objects, Notify(w, o) PROVE CallbackInv'
  BY <1>1, NotifyStep
<1>2. CASE RetryCallbacks
  BY <1>2, RetryStep
<1>3. ASSUME NEW w \in Workers, WorkerStep(w) PROVE CallbackInv'
  BY <1>3, InsertStep, CheckStep, ClaimStep, SendStep, SaveStep DEF WorkerStep
<1>4. ASSUME NEW w \in Workers, Abort(w) PROVE CallbackInv'
  BY <1>4, AbortStep
<1>5. ASSUME NEW o \in Objects, DeleteObject(o) PROVE CallbackInv'
  BY <1>5, DeleteStep
<1>6. ASSUME NEW c \in Callbacks, ClearCallback(c) PROVE CallbackInv'
  BY <1>6, ClearStep
<1>7. CASE UNCHANGED vars
  BY <1>7
  DEF vars, CallbackInv, CallbackTypeOK, HoldInv, RowInv, SentByOne, OrderInv,
      CountInv, SameObject, Sending, Busy, Untried, Uncounted
<1> QED
  BY <1>1, <1>2, <1>3, <1>4, <1>5, <1>6, <1>7 DEF Next

\* The strengthening holds in every state: who holds which row, what the order
\* and the count of the attempts rest on.
THEOREM CallbackInvariant == Spec => []CallbackInv
BY CallbackInvInit, CallbackInvNext, PTL DEF Spec

\* Rows, workers and counters keep their types; no counter passes the number of
\* retries by more than one (callback/models.py:100-114).
THEOREM CallbackTypes == Spec => []CallbackTypeOK
<1>1. CallbackInv => CallbackTypeOK
  BY DEF CallbackInv
<1> QED
  BY <1>1, CallbackInvariant, PTL

\* The conditional update is a lock: no notification is sent by two workers at
\* once, whatever old instances they hold (callback/models.py:93-96).
THEOREM OneSender == Spec => []SentByOne
<1>1. CallbackInv => SentByOne
  BY DEF CallbackInv
<1> QED
  BY <1>1, CallbackInvariant, PTL

\* A receiver is called at most 2n+1 times about one notification, although a
\* stale save may set the counter back (callback/models.py:100-114).
THEOREM BoundedAttempts == Spec => []AttemptsBounded
<1>1. CallbackInv => AttemptsBounded
  BY DEF CallbackInv, CountInv, AttemptsBounded
<1> QED
  BY <1>1, CallbackInvariant, PTL
-----------------------------------------------------------------------------
LEMMA TriesInvInit == Init => TriesInv
BY DEF Init, TriesInv, GivenUpLate, NoCallback, IdleWorker

\* Steps that leave the counters alone and start no new save.
LEMMA TriesKept ==
  ASSUME CallbackInv, CallbackInv', TriesInv,
         \A c \in Callbacks :
             /\ callback'[c].retries = callback[c].retries
             /\ callback'[c].status = "failed" => callback[c].status = "failed"
             /\ attempts'[c] = attempts[c],
         \A v \in Workers : \A c \in worker'[v].todo :
             /\ \/ c \in worker[v].todo /\ worker'[v].seen[c] = worker[v].seen[c]
                \/ worker'[v].seen[c] = 0
             /\ worker'[v].pc = "save" => worker'[v] = worker[v]
  PROVE  TriesInv'
<1>1. GivenUpLate' /\ \A c \in Callbacks : callback'[c].retries =< attempts'[c]
  BY DEF TriesInv, GivenUpLate
<1>2. ASSUME NEW v \in Workers, NEW c \in worker'[v].todo
      PROVE  /\ worker'[v].seen[c] =< attempts'[c]
             /\ Busy(v, c)' /\ worker'[v].pc = "save" => worker'[v].seen[c] < attempts'[c]
  <2>1. c \in Callbacks /\ attempts'[c] \in Nat /\ attempts'[c] = attempts[c]
    BY DEF CallbackInv, CallbackTypeOK
  <2>2. worker'[v].seen[c] =< attempts'[c]
    BY <2>1 DEF TriesInv
  <2>3. ASSUME Busy(v, c)', worker'[v].pc = "save"
        PROVE  worker'[v].seen[c] < attempts'[c]
    <3>1. worker'[v] = worker[v] /\ Busy(v, c) /\ c \in worker[v].todo
      BY <2>3 DEF Busy
    <3> QED
      BY <3>1, <2>1, <2>3 DEF TriesInv
  <2> QED
    BY <2>2, <2>3
<1> QED
  BY <1>1, <1>2 DEF TriesInv

LEMMA TriesSend ==
  ASSUME CallbackInv, CallbackInv', TriesInv,
         NEW w \in Workers, NEW c \in Callbacks, Send(w, c)
  PROVE  TriesInv'
<1>1. /\ Busy(w, c) /\ c \in worker[w].todo
      /\ callback' = callback
      /\ \A v \in Workers \ {w} : worker'[v] = worker[v]
      /\ worker'[w].todo = worker[w].todo /\ worker'[w].seen = worker[w].seen
  BY DEF Send, Busy, CallbackInv, CallbackTypeOK
<1>2. /\ attempts'[c] = attempts[c] + 1
      /\ \A d \in Callbacks : /\ attempts[d] \in Nat /\ attempts'[d] \in Nat
                              /\ attempts[d] =< attempts'[d]
  BY DEF Send, CallbackInv, CallbackTypeOK
<1>3. \A d \in Callbacks : callback[d].retries \in Nat
  BY DEF CallbackInv, CallbackTypeOK
<1>4. GivenUpLate' /\ \A d \in Callbacks : callback'[d].retries =< attempts'[d]
  BY <1>1, <1>2, <1>3 DEF TriesInv, GivenUpLate
<1>5. ASSUME NEW v \in Workers, NEW d \in worker'[v].todo
      PROVE  /\ worker'[v].seen[d] =< attempts'[d]
             /\ Busy(v, d)' /\ worker'[v].pc = "save" => worker'[v].seen[d] < attempts'[d]
  <2>1. /\ d \in Callbacks /\ d \in worker[v].todo
        /\ worker'[v].seen[d] = worker[v].seen[d] /\ worker[v].seen[d] \in Nat
        /\ worker[v].seen[d] =< attempts[d]
    <3>1. d \in worker[v].todo /\ worker'[v].seen[d] = worker[v].seen[d]
      BY <1>1
    <3>2. d \in Callbacks /\ worker[v].seen[d] \in Nat
      BY <3>1 DEF CallbackInv, CallbackTypeOK
    <3> QED
      BY <3>1, <3>2 DEF TriesInv
  <2>2. CASE v = w
    <3>1. Busy(v, d)' => d = c
      BY <2>1, <2>2, <1>1, BusyOne DEF Busy
    <3> QED
      BY <3>1, <2>1, <1>2
  <2>3. CASE v # w
    <3>1. Busy(v, d)' => Busy(v, d)
      BY <2>3, <1>1 DEF Busy
    <3> QED
      BY <3>1, <2>1, <2>3, <1>1, <1>2 DEF TriesInv
  <2> QED
    BY <2>2, <2>3
<1> QED
  BY <1>4, <1>5 DEF TriesInv

\* The counter that is saved is the one the worker read, plus one at most; the
\* attempt it has just made is beyond the one it read.
LEMMA TriesSave ==
  ASSUME CallbackInv, CallbackInv', TriesInv,
         NEW w \in Workers, NEW c \in Callbacks, Save(w, c)
  PROVE  TriesInv'
<1> DEFINE seen == worker[w].seen[c]
           result == Outcome(worker[w].ok, seen)
<1>1. /\ Busy(w, c) /\ c \in worker[w].todo /\ worker[w].pc = "save"
      /\ callback' = [callback EXCEPT ![c].status = result.status,
                                      ![c].retries = result.retries]
      /\ Return(w, c) /\ attempts' = attempts
  BY DEF Save, Busy
<1>2. seen \in Nat /\ attempts[c] \in Nat /\ seen < attempts[c]
  <2>1. /\ worker[w].seen \in [Callbacks -> 0..MaxRetries]
        /\ attempts \in [Callbacks -> Nat]
    BY DEF CallbackInv, CallbackTypeOK
  <2>2. seen < attempts[c]
    BY <1>1 DEF TriesInv
  <2> QED
    BY <2>1, <2>2
<1>3. /\ result.retries =< attempts[c]
      /\ result.status = "failed" => attempts[c] > MaxRetries
  BY <1>2 DEF Outcome
<1> HIDE DEF result
<1>4. /\ callback'[c].status = result.status /\ callback'[c].retries = result.retries
      /\ \A d \in Callbacks \ {c} : callback'[d] = callback[d]
  BY <1>1 DEF CallbackInv, CallbackTypeOK
<1>5. GivenUpLate' /\ \A d \in Callbacks : callback'[d].retries =< attempts'[d]
  BY <1>1, <1>3, <1>4 DEF TriesInv, GivenUpLate
<1>6. ASSUME NEW v \in Workers, NEW d \in worker'[v].todo
      PROVE  /\ worker'[v].seen[d] =< attempts'[d]
             /\ Busy(v, d)' /\ worker'[v].pc = "save" => worker'[v].seen[d] < attempts'[d]
  <2>1. CASE v = w
    BY <2>1, <1>1, ReturnFacts DEF TriesInv
  <2>2. CASE v # w
    BY <2>2, <1>1, ReturnFacts DEF TriesInv, Busy
  <2> QED
    BY <2>1, <2>2
<1> QED
  BY <1>5, <1>6 DEF TriesInv

LEMMA TriesInvNext ==
  ASSUME CallbackInv, CallbackInv', TriesInv, [Next]_vars
  PROVE  TriesInv'
<1>1. ASSUME NEW w \in Requests, NEW o \in Objects, Notify(w, o) PROVE TriesInv'
  <2>1. PICK c \in Callbacks :
          /\ callback' = [callback EXCEPT ![c].object = o]
          /\ worker' = [worker EXCEPT ![w] = [IdleWorker EXCEPT !.pc = "insert", !.todo = {c}]]
    BY <1>1 DEF Notify
  <2>2. /\ worker'[w].pc = "insert" /\ worker'[w].todo = {c} /\ worker'[w].seen[c] = 0
        /\ \A v \in Workers \ {w} : worker'[v] = worker[v]
    BY <2>1 DEF CallbackInv, CallbackTypeOK, IdleWorker, Workers
  <2>3. /\ attempts' = attempts
        /\ \A d \in Callbacks : /\ callback'[d].retries = callback[d].retries
                                /\ callback'[d].status = callback[d].status
    BY <1>1, <2>1 DEF CallbackInv, CallbackTypeOK, Notify
  <2> QED
    BY <2>2, <2>3, TriesKept
<1>2. CASE RetryCallbacks
  <2> DEFINE due == {c \in Callbacks : callback[c].status \in {"registered", "toretry"}}
  <2>1. /\ UNCHANGED << callback, attempts >>
        /\ \A v \in Workers \ {Cron} : worker'[v] = worker[v]
        /\ worker'[Cron].pc = "check" /\ worker'[Cron].todo = due
        /\ \A c \in due : worker'[Cron].seen[c] = callback[c].retries
    BY <1>2 DEF RetryCallbacks, CallbackInv, CallbackTypeOK, Workers, IdleWorker
  <2>2. ASSUME NEW v \in Workers, NEW c \in worker'[v].todo
        PROVE  /\ worker'[v].seen[c] =< attempts'[c]
               /\ Busy(v, c)' /\ worker'[v].pc = "save" => worker'[v].seen[c] < attempts'[c]
    <3>1. CASE v = Cron
      BY <3>1, <2>1, <2>2 DEF TriesInv
    <3>2. CASE v # Cron
      BY <3>2, <2>1, <2>2 DEF TriesInv, Busy
    <3> QED
      BY <3>1, <3>2
  <2> QED
    BY <2>1, <2>2 DEF TriesInv, GivenUpLate
<1>3. ASSUME NEW w \in Workers, NEW c \in Callbacks, Insert(w, c) PROVE TriesInv'
  BY <1>3, SetStatusFacts, GoToFacts, TriesKept DEF Insert, Pending, Pcs
<1>4. ASSUME NEW w \in Workers, NEW c \in Callbacks, Check(w, c) PROVE TriesInv'
  <2>1. /\ UNCHANGED << callback, attempts >>
        /\ \A v \in Workers \ {w} : worker'[v] = worker[v]
        /\ worker'[w].pc # "save" /\ worker'[w].todo \subseteq worker[w].todo
        /\ \A d \in worker'[w].todo : worker'[w].seen[d] = worker[w].seen[d]
    BY <1>4, ReturnFacts, GoToFacts DEF Check, Pcs
  <2> QED
    BY <2>1, TriesKept
<1>5. ASSUME NEW w \in Workers, NEW c \in Callbacks, Claim(w, c) PROVE TriesInv'
  <2>1. /\ attempts' = attempts
        /\ \A d \in Callbacks :
            /\ callback'[d].retries = callback[d].retries
            /\ callback'[d].status \in {callback[d].status, "running"}
    BY <1>5, SetStatusFacts DEF Claim, Pending
  <2>2. /\ \A v \in Workers \ {w} : worker'[v] = worker[v]
        /\ worker'[w].pc # "save" /\ worker'[w].todo \subseteq worker[w].todo
        /\ \A d \in worker'[w].todo : worker'[w].seen[d] = worker[w].seen[d]
    BY <1>5, ReturnFacts, GoToFacts DEF Claim, Pcs
  <2> QED
    BY <2>1, <2>2, TriesKept
<1>6. ASSUME NEW w \in Workers, Abort(w) PROVE TriesInv'
  <2>1. /\ UNCHANGED << callback, attempts >>
        /\ \A v \in Workers \ {w} : worker'[v] = worker[v]
        /\ worker'[w].todo = {}
    BY <1>6 DEF Abort, CallbackInv, CallbackTypeOK, IdleWorker
  <2> QED
    BY <2>1, TriesKept
<1>7. ASSUME NEW o \in Objects, DeleteObject(o) PROVE TriesInv'
  BY <1>7, TriesKept DEF DeleteObject
<1>8. ASSUME NEW c \in Callbacks, ClearCallback(c) PROVE TriesInv'
  BY <1>8, SetStatusFacts, TriesKept DEF ClearCallback, Ended
<1>9. CASE UNCHANGED vars
  BY <1>9, TriesKept DEF vars
<1> QED
  BY <1>1, <1>2, <1>3, <1>4, <1>5, <1>6, <1>7, <1>8, <1>9, TriesSend, TriesSave
  DEF Next, WorkerStep

\* A notification that has failed was sent more often than it is to be tried
\* again, for any number of retries, requests and workers killed, although the
\* counter is saved from stale copies (callback/models.py:105-114).
THEOREM NotGivenUpEarly == Spec => []GivenUpLate
<1>1. TriesInv => GivenUpLate
  BY DEF TriesInv
<1> QED
  BY <1>1, TriesInvInit, TriesInvNext, CallbackInvariant, PTL DEF Spec
-----------------------------------------------------------------------------
AbandonedRows == {c \in Callbacks : Abandoned(c)}

LEMMA AbandonedFinite ==
  /\ IsFiniteSet(AbandonedRows) /\ Cardinality(AbandonedRows) \in Nat
  /\ IsFiniteSet(AbandonedRows') /\ Cardinality(AbandonedRows') \in Nat
<1>1. IsFiniteSet(Callbacks)
  BY FS_Interval DEF Callbacks
<1>2. AbandonedRows \subseteq Callbacks /\ AbandonedRows' \subseteq Callbacks
  BY DEF AbandonedRows
<1> QED
  BY <1>1, <1>2, FS_Subset, FS_CardinalityType

\* A worker that goes on abandons no row: the one it sends stays with it until
\* the outcome is saved.
LEMMA OnlyKillsAbandon ==
  ASSUME CallbackInv, [Next]_vars, NEW b \in Callbacks, Abandoned(b)'
  PROVE  Abandoned(b) \/ \E w \in Workers : Abort(w) /\ Sending(w, b)
<1>1. callback'[b].status = "running" /\ \A v \in Workers : ~Sending(v, b)'
  BY DEF Abandoned
<1>2. ASSUME NEW w \in Requests, NEW o \in Objects, Notify(w, o) PROVE Abandoned(b)
  <2>1. callback'[b].status = callback[b].status
    BY <1>2 DEF Notify, CallbackInv, CallbackTypeOK
  <2>2. /\ worker[w].pc = "idle"
        /\ \A v \in Workers \ {w} : worker'[v] = worker[v]
    BY <1>2 DEF Notify, CallbackInv, CallbackTypeOK
  <2> QED
    BY <1>1, <2>1, <2>2 DEF Abandoned, Sending, Busy
<1>3. ASSUME RetryCallbacks PROVE Abandoned(b)
  <2>1. /\ callback' = callback /\ worker[Cron].pc = "idle"
        /\ \A v \in Workers \ {Cron} : worker'[v] = worker[v]
    BY <1>3 DEF RetryCallbacks, CallbackInv, CallbackTypeOK
  <2> QED
    BY <1>1, <2>1 DEF Abandoned, Sending, Busy
<1>4. ASSUME NEW w \in Workers, NEW c \in Callbacks, Insert(w, c) PROVE Abandoned(b)
  <2>1. /\ callback'[b].status \in {callback[b].status, "registered"}
        /\ worker[w].pc = "insert"
        /\ \A v \in Workers \ {w} : worker'[v] = worker[v]
    BY <1>4, SetStatusFacts, GoToFacts DEF Insert, Pending, Pcs
  <2> QED
    BY <1>1, <2>1 DEF Abandoned, Sending, Busy
<1>5. ASSUME NEW w \in Workers, NEW c \in Callbacks, Check(w, c) PROVE Abandoned(b)
  <2>1. /\ callback' = callback /\ worker[w].pc = "check"
        /\ \A v \in Workers \ {w} : worker'[v] = worker[v]
    BY <1>5, ReturnFacts, GoToFacts DEF Check, Pcs
  <2> QED
    BY <1>1, <2>1 DEF Abandoned, Sending, Busy
<1>6. ASSUME NEW w \in Workers, NEW c \in Callbacks, Claim(w, c) PROVE Abandoned(b)
  <2>1. /\ worker[w].pc = "claim" /\ Busy(w, c)
        /\ \A v \in Workers \ {w} : worker'[v] = worker[v]
    BY <1>6, ReturnFacts, GoToFacts DEF Claim, Pcs
  <2>2. CASE Claimable(c)
    <3>1. /\ worker'[w].pc = "send" /\ worker'[w].todo = worker[w].todo
          /\ \A d \in Callbacks \ {c} : callback'[d] = callback[d]
      BY <1>6, <2>2, GoToFacts, SetStatusFacts DEF Claim, Pending, Pcs
    <3>2. Sending(w, c)'
      BY <2>1, <3>1 DEF Sending, Busy
    <3>3. b # c
      BY <1>1, <3>2
    <3> QED
      BY <1>1, <2>1, <3>1, <3>3 DEF Abandoned, Sending, Busy
  <2>3. CASE ~Claimable(c)
    <3>1. callback' = callback
      BY <1>6, <2>3 DEF Claim
    <3> QED
      BY <1>1, <2>1, <3>1 DEF Abandoned, Sending, Busy
  <2> QED
    BY <2>2, <2>3
<1>7. ASSUME NEW w \in Workers, NEW c \in Callbacks, Send(w, c) PROVE Abandoned(b)
  <2>1. /\ callback' = callback
        /\ worker'[w].pc = "save" /\ worker'[w].todo = worker[w].todo
        /\ \A v \in Workers \ {w} : worker'[v] = worker[v]
    BY <1>7 DEF Send, CallbackInv, CallbackTypeOK
  <2> QED
    BY <1>1, <2>1 DEF Abandoned, Sending, Busy
<1>8. ASSUME NEW w \in Workers, NEW c \in Callbacks, Save(w, c) PROVE Abandoned(b)
  <2> DEFINE result == Outcome(worker[w].ok, worker[w].seen[c])
  <2>1. /\ Busy(w, c) /\ Return(w, c)
        /\ callback' = [callback EXCEPT ![c].status = result.status,
                                        ![c].retries = result.retries]
    BY <1>8 DEF Save
  <2>2. result.status # "running"
    BY DEF Outcome
  <2> HIDE DEF result
  <2>3. b # c /\ callback'[b] = callback[b]
    BY <1>1, <2>1, <2>2 DEF CallbackInv, CallbackTypeOK
  <2>4. ~Sending(w, b)
    BY <2>1, <2>3, BusyOne DEF Sending
  <2>5. \A v \in Workers \ {w} : worker'[v] = worker[v]
    BY <2>1, ReturnFacts
  <2> QED
    BY <1>1, <2>3, <2>4, <2>5 DEF Abandoned, Sending, Busy
<1>9. ASSUME NEW w \in Workers, Abort(w) PROVE Abandoned(b) \/ Sending(w, b)
  <2>1. /\ callback' = callback
        /\ \A v \in Workers \ {w} : worker'[v] = worker[v]
    BY <1>9 DEF Abort, CallbackInv, CallbackTypeOK
  <2> QED
    BY <1>1, <2>1 DEF Abandoned, Sending, Busy
<1>10. ASSUME NEW o \in Objects, DeleteObject(o) PROVE Abandoned(b)
  BY <1>1, <1>10 DEF DeleteObject, Abandoned, Sending, Busy
<1>11. ASSUME NEW c \in Callbacks, ClearCallback(c) PROVE Abandoned(b)
  <2>1. worker' = worker /\ callback'[b].status \in {callback[b].status, "cleared"}
    BY <1>11, SetStatusFacts DEF ClearCallback, Ended
  <2> QED
    BY <1>1, <2>1 DEF Abandoned, Sending, Busy
<1>12. ASSUME UNCHANGED vars PROVE Abandoned(b)
  BY <1>1, <1>12 DEF vars, Abandoned, Sending, Busy
<1> QED
  BY <1>2, <1>3, <1>4, <1>5, <1>6, <1>7, <1>8, <1>9, <1>10, <1>11, <1>12
  DEF Next, WorkerStep

LEMMA AbandonedNext ==
  ASSUME CallbackInv, [Next]_vars, AbandonedIsKilled
  PROVE  AbandonedIsKilled'
<1>1. Cardinality(AbandonedRows) =< aborts /\ aborts \in Nat
  BY DEF AbandonedIsKilled, AbandonedRows, CallbackInv, CallbackTypeOK
<1>2. CASE \E w \in Workers : Abort(w)
  <2>1. PICK w \in Workers : Abort(w)
    BY <1>2
  <2>2. \A b \in Callbacks, v \in Workers : Abort(v) /\ Sending(v, b) => v = w
    <3>1. worker[w].pc # "idle" /\ worker'[w] = IdleWorker
      BY <2>1 DEF Abort, CallbackInv, CallbackTypeOK
    <3>2. ASSUME NEW v \in Workers, Abort(v) PROVE v = w
      <4>1. worker' = [worker EXCEPT ![v] = IdleWorker]
        BY <3>2 DEF Abort
      <4>2. v # w => worker'[w] = worker[w]
        BY <4>1 DEF CallbackInv, CallbackTypeOK
      <4> QED
        BY <3>1, <4>2 DEF IdleWorker
    <3> QED
      BY <3>2
  <2>3. \A b \in Callbacks : Abandoned(b)' => Abandoned(b) \/ Sending(w, b)
    BY <2>2, OnlyKillsAbandon
  <2>4. aborts' = aborts + 1
    BY <2>1 DEF Abort
  <2>5. CASE \E c \in Callbacks : Sending(w, c)
    <3>1. PICK c \in Callbacks : Sending(w, c)
      BY <2>5
    <3>2. \A b \in Callbacks : Sending(w, b) => b = c
      BY <3>1, BusyOne DEF Sending
    <3>3. AbandonedRows' \subseteq AbandonedRows \cup {c}
      BY <2>3, <3>2 DEF AbandonedRows
    <3>4. /\ IsFiniteSet(AbandonedRows \cup {c})
          /\ \/ Cardinality(AbandonedRows \cup {c}) = Cardinality(AbandonedRows) + 1
             \/ Cardinality(AbandonedRows \cup {c}) = Cardinality(AbandonedRows)
      BY AbandonedFinite, FS_AddElement
    <3>5. Cardinality(AbandonedRows') =< Cardinality(AbandonedRows \cup {c})
      BY <3>3, <3>4, FS_Subset
    <3> HIDE DEF AbandonedRows
    <3>6. Cardinality(AbandonedRows') =< aborts'
      BY <1>1, <2>4, <3>4, <3>5, AbandonedFinite
    <3> QED
      BY <3>6 DEF AbandonedIsKilled, AbandonedRows
  <2>6. CASE ~\E c \in Callbacks : Sending(w, c)
    <3>1. AbandonedRows' \subseteq AbandonedRows
      BY <2>3, <2>6 DEF AbandonedRows
    <3>2. Cardinality(AbandonedRows') =< Cardinality(AbandonedRows)
      BY <3>1, AbandonedFinite, FS_Subset
    <3>3. Cardinality(AbandonedRows') =< aborts'
      BY <1>1, <2>4, <3>2, AbandonedFinite
    <3> QED
      BY <3>3 DEF AbandonedIsKilled, AbandonedRows
  <2> QED
    BY <2>5, <2>6
<1>3. CASE ~\E w \in Workers : Abort(w)
  <2>1. AbandonedRows' \subseteq AbandonedRows
    BY <1>3, OnlyKillsAbandon DEF AbandonedRows
  <2>2. Cardinality(AbandonedRows') =< Cardinality(AbandonedRows)
    BY <2>1, AbandonedFinite, FS_Subset
  <2>3. aborts' = aborts
    BY <1>3
    DEF Next, WorkerStep, Notify, RetryCallbacks, Insert, Check, Claim, Send, Save,
        DeleteObject, ClearCallback, vars
  <2>4. Cardinality(AbandonedRows') =< aborts'
    BY <1>1, <2>2, <2>3, AbandonedFinite
  <2> QED
    BY <2>4 DEF AbandonedIsKilled, AbandonedRows
<1> QED
  BY <1>2, <1>3

\* For any number of workers and rows, a worker that is killed leaves one row
\* at most that nobody takes up again, and nothing else leaves one
\* (callback/models.py:93-118).
THEOREM OnlyTheKilledAbandon == Spec => []AbandonedIsKilled
<1>1. Init => AbandonedIsKilled
  <2> SUFFICES ASSUME Init PROVE AbandonedIsKilled
    OBVIOUS
  <2>1. AbandonedRows = {} /\ aborts = 0
    BY DEF Init, AbandonedRows, Abandoned, NoCallback
  <2> QED
    BY <2>1, FS_EmptySet DEF AbandonedIsKilled, AbandonedRows
<1> QED
  BY <1>1, AbandonedNext, CallbackInvariant, PTL DEF Spec
-----------------------------------------------------------------------------
LEMMA QueueInit == Init => Queue!Init
BY DEF Init, Queue!Init, Stage, NoCallback, Pending, Ended

\* Statuses that move within one stage leave the queue alone.
LEMMA SameStage ==
  ASSUME CallbackInv, NEW c \in Callbacks, CallbackInv',
         \A d \in Callbacks \ {c} : callback'[d] = callback[d],
         \/ callback[c].status \in Pending /\ callback'[c].status \in Pending
         \/ callback[c].status \in Ended /\ callback'[c].status \in Ended
  PROVE  UNCHANGED Stage
BY DEF Stage, Pending, Ended

\* Statuses that move to another stage.
LEMMA NextStage ==
  ASSUME CallbackInv, NEW c \in Callbacks, CallbackInv',
         \A d \in Callbacks \ {c} : callback'[d] = callback[d]
  PROVE  /\ callback[c].status = "none" /\ callback'[c].status \in Pending =>
               Stage[c] = "none" /\ Stage' = [Stage EXCEPT ![c] = "waiting"]
         /\ callback[c].status \in Pending /\ callback'[c].status \in Ended =>
               Stage[c] = "waiting" /\ Stage' = [Stage EXCEPT ![c] = "ended"]
BY DEF Stage, Pending, Ended

\* Every step of the workers is a step of the queue, or none.
LEMMA QueueNext ==
  ASSUME CallbackInv, CallbackInv', [Next]_vars
  PROVE  [Queue!Next]_<< Stage, before, heard >>
<1>1. ASSUME NEW w \in Requests, NEW o \in Objects, Notify(w, o)
      PROVE  [Queue!Next]_<< Stage, before, heard >>
  <2>1. PICK c \in Callbacks :
          /\ callback[c].object = None
          /\ callback' = [callback EXCEPT ![c].object = o]
          /\ before' = [before EXCEPT ![c] = OnRecord(o)]
          /\ heard' = heard
    BY <1>1 DEF Notify
  <2>2. callback[c].status = "none"
    BY <2>1 DEF CallbackInv, RowInv
  <2>3. UNCHANGED Stage
    BY <2>1, <2>2 DEF Stage, CallbackInv, CallbackTypeOK
  <2>4. Stage[c] = "none" /\ OnRecord(o) \in SUBSET Callbacks
    BY <2>2 DEF Stage, Pending, Ended, OnRecord
  <2>5. \A b \in OnRecord(o) : Stage[b] # "none"
    BY DEF Stage, OnRecord, Pending, Ended, CallbackInv, CallbackTypeOK
  <2> HIDE DEF Stage
  <2>6. Queue!Make(c, OnRecord(o))
    BY <2>1, <2>3, <2>4, <2>5 DEF Queue!Make
  <2> QED
    BY <2>4, <2>6 DEF Queue!Next
<1>2. ASSUME NEW w \in Workers, NEW c \in Callbacks, Insert(w, c)
      PROVE  [Queue!Next]_<< Stage, before, heard >>
  <2>1. /\ callback[c].status = "none" /\ callback'[c].status = "registered"
        /\ \A d \in Callbacks \ {c} : callback'[d] = callback[d]
        /\ UNCHANGED << before, heard >>
    <3>1. callback[c].status = "none"
      BY <1>2 DEF Insert, Busy, CallbackInv, HoldInv
    <3> QED
      BY <3>1, <1>2, SetStatusFacts DEF Insert, Pending
  <2>2. Stage[c] = "none" /\ Stage' = [Stage EXCEPT ![c] = "waiting"]
    BY <2>1, NextStage DEF Pending
  <2> QED
    BY <2>1, <2>2 DEF Queue!Register, Queue!Next
<1>3. ASSUME NEW w \in Workers, NEW c \in Callbacks, Claim(w, c)
      PROVE  UNCHANGED << Stage, before, heard >>
  <2>1. CASE Claimable(c)
    <3>1. /\ callback[c].status \in Pending /\ callback'[c].status \in Pending
          /\ \A d \in Callbacks \ {c} : callback'[d] = callback[d]
      BY <1>3, <2>1, SetStatusFacts DEF Claim, Claimable, Pending
    <3> QED
      BY <3>1, <1>3, SameStage DEF Claim
  <2>2. CASE ~Claimable(c)
    BY <1>3, <2>2 DEF Claim, Stage
  <2> QED
    BY <2>1, <2>2
<1>4. ASSUME NEW w \in Workers, NEW c \in Callbacks, Send(w, c)
      PROVE  [Queue!Next]_<< Stage, before, heard >>
  <2>1. /\ callback[c].status = "running" /\ callback[c].object \in Objects
        /\ \A b \in before[c] : b \in Callbacks /\ callback[b].status \in Ended
        /\ UNCHANGED << callback, before >>
        /\ heard' \in {heard, [heard EXCEPT ![callback[c].object] = c]}
    <3>1. /\ callback[c].status = "running" /\ callback[c].object # None
          /\ callback[c].object \in Objects
      BY <1>4 DEF Send, Busy, Sending, CallbackInv, SentByOne, HoldInv, CallbackTypeOK
    <3>2. \A b \in before[c] : b \in Callbacks /\ callback[b].status \in Ended
      BY <1>4 DEF Send, CallbackInv, OrderInv, CallbackTypeOK
    <3>3. /\ UNCHANGED << callback, before >>
          /\ heard' \in {heard, [heard EXCEPT ![callback[c].object] = c]}
      BY <1>4 DEF Send
    <3> QED
      BY <3>1, <3>2, <3>3
  <2>2. Stage[c] = "waiting" /\ UNCHANGED Stage
    <3>1. Stage[c] = "waiting"
      <4>1. callback[c].status = "running"
        BY <2>1
      <4> QED
        BY <4>1 DEF Stage, Pending, Ended
    <3>2. UNCHANGED callback
      BY <2>1
    <3> QED
      BY <3>1, <3>2 DEF Stage
  <2>3. \A b \in before[c] : Stage[b] = "ended"
    BY <2>1 DEF Stage, Pending, Ended
  <2> HIDE DEF Stage
  <2>4. CASE heard' = heard
    BY <2>1, <2>2, <2>4
  <2>5. CASE heard' = [heard EXCEPT ![callback[c].object] = c]
    <3>1. Queue!Deliver(c, callback[c].object)
      BY <2>1, <2>2, <2>3, <2>5 DEF Queue!Deliver
    <3> QED
      BY <3>1, <2>1 DEF Queue!Next
  <2> QED
    BY <2>1, <2>4, <2>5
<1>5. ASSUME NEW w \in Workers, NEW c \in Callbacks, Save(w, c)
      PROVE  [Queue!Next]_<< Stage, before, heard >>
  <2> DEFINE result == Outcome(worker[w].ok, worker[w].seen[c])
  <2>1. /\ callback[c].status = "running"
        /\ callback'[c].status = result.status
        /\ \A d \in Callbacks \ {c} : callback'[d] = callback[d]
        /\ UNCHANGED << before, heard >>
    <3>1. callback[c].status = "running"
      BY <1>5 DEF Save, Sending, CallbackInv, SentByOne
    <3>2. callback' = [callback EXCEPT ![c].status = result.status,
                                       ![c].retries = result.retries]
      BY <1>5 DEF Save
    <3> HIDE DEF result
    <3>3. /\ callback'[c].status = result.status
          /\ \A d \in Callbacks \ {c} : callback'[d] = callback[d]
      BY <3>2 DEF CallbackInv, CallbackTypeOK
    <3> QED
      BY <3>1, <3>3, <1>5 DEF Save
  <2>2. result.status \in {"completed", "failed", "toretry"}
    BY DEF Outcome
  <2> HIDE DEF result
  <2>3. CASE result.status = "toretry"
    <3>1. UNCHANGED Stage
      BY <2>1, <2>3, SameStage DEF Pending
    <3> QED
      BY <3>1, <2>1
  <2>4. CASE result.status \in {"completed", "failed"}
    <3>1. Stage[c] = "waiting" /\ Stage' = [Stage EXCEPT ![c] = "ended"]
      BY <2>1, <2>4, NextStage DEF Pending, Ended
    <3> QED
      BY <3>1, <2>1 DEF Queue!End, Queue!Next
  <2> QED
    BY <2>2, <2>3, <2>4
<1>6. ASSUME NEW c \in Callbacks, ClearCallback(c)
      PROVE  UNCHANGED << Stage, before, heard >>
  <2>1. /\ callback[c].status \in Ended /\ callback'[c].status \in Ended
        /\ \A d \in Callbacks \ {c} : callback'[d] = callback[d]
    BY <1>6, SetStatusFacts DEF ClearCallback, Ended
  <2> QED
    BY <2>1, <1>6, SameStage DEF ClearCallback
<1>7. ASSUME UNCHANGED << callback, before, heard >>
      PROVE  UNCHANGED << Stage, before, heard >>
  BY <1>7 DEF Stage
<1> HIDE DEF Stage
<1> QED
  BY <1>1, <1>2, <1>3, <1>4, <1>5, <1>6, <1>7
  DEF Next, WorkerStep, RetryCallbacks, Check, Abort, DeleteObject, vars

\* A receiver hears of one object in the order the notifications were made, and
\* of none that has ended, for any number of workers, rows and restarts
\* (callback/models.py:85-96).
THEOREM NotificationsInOrder == Spec => ImplementsQueue
BY QueueInit, QueueNext, CallbackInvariant, PTL DEF Spec, ImplementsQueue, Queue!Spec
=============================================================================
