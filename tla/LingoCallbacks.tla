--------------------------- MODULE LingoCallbacks ---------------------------
(***************************************************************************)
(* How Lingo tells other systems what became of an invoice or of a line of *)
(* a basket.  A request puts a notification on record and tries to deliver *)
(* it; every minute cron tries again what is still pending, one process at *)
(* a time.  Every worker does check, claim, send and save as separate      *)
(* statements.                                                             *)
(***************************************************************************)
EXTENDS Integers, FiniteSets

CONSTANTS Objects,       \* the invoices and lines notified about
          WithUrl,       \* those that have a URL to notify
          MaxCallbacks,  \* bound on the notifications made
          Requests,      \* server threads that notify
          Cron,          \* the process of the retry command
          MaxRetries,    \* CALLBACK_MAX_RETRIES
          MaxAborts,     \* bound on the workers killed
          None           \* no object, no notification

ASSUME CallbackAssumption ==
    /\ WithUrl \subseteq Objects
    /\ MaxCallbacks \in Nat /\ MaxRetries \in Nat /\ MaxAborts \in Nat
    /\ Cron \notin Requests
    /\ None \notin Objects /\ None \notin Nat

VARIABLES callback,  \* the rows, numbered by their created_at
          gone,      \* the objects deleted
          worker,    \* what each worker is doing
          aborts,    \* how many workers were killed
          before,    \* history: the rows on record when each one was stamped
          heard,     \* history: what each object's receiver heard last
          attempts   \* history: how often each one was sent

vars == << callback, gone, worker, aborts, before, heard, attempts >>

Callbacks == 1..MaxCallbacks
Workers == Requests \cup {Cron}

Pending == {"registered", "running", "toretry"}
Ended == {"completed", "failed", "cleared"}

NoCallback == [object |-> None, status |-> "none", retries |-> 0]
IdleWorker == [pc |-> "idle", todo |-> {}, seen |-> [c \in Callbacks |-> 0], ok |-> FALSE]

Init ==
    /\ callback = [c \in Callbacks |-> NoCallback]
    /\ gone = {}
    /\ worker = [w \in Workers |-> IdleWorker]
    /\ aborts = 0
    /\ before = [c \in Callbacks |-> {}]
    /\ heard = [o \in Objects |-> None]
    /\ attempts = [c \in Callbacks |-> 0]
-----------------------------------------------------------------------------
SameObject(b, c) == callback[b].object = callback[c].object

OnRecord(o) == {c \in Callbacks : callback[c].object = o /\ callback[c].status # "none"}

\* The one that a worker is busy with: rows are taken in the order of created_at.
Busy(w, c) == c \in worker[w].todo /\ \A d \in worker[w].todo : c =< d

HasPreviousToDo(c) ==
    \E b \in Callbacks :
        b < c /\ SameObject(b, c) /\ callback[b].status \in {"registered", "toretry"}

HasPreviousUndelivered(c) ==
    \E b \in Callbacks :
        b < c /\ SameObject(b, c) /\ callback[b].status \in Pending \cup {"failed"}

HasPrevious(c) ==
    \E b \in Callbacks : b < c /\ SameObject(b, c) /\ callback[b].status \in Pending

SetStatus(c, s) == callback' = [callback EXCEPT ![c].status = s]

GoTo(w, pc) == worker' = [worker EXCEPT ![w].pc = pc]

\* do_notify returns: on to the next row, or the worker is done.
Without(state, c) ==
    IF state.todo = {c} THEN IdleWorker
    ELSE [state EXCEPT !.pc = "check", !.todo = @ \ {c}, !.ok = FALSE]

Return(w, c) == worker' = [worker EXCEPT ![w] = Without(worker[w], c)]
-----------------------------------------------------------------------------
\* created_at is taken before the row is written: rows may be written in
\* another order than their dates.
Notify(w, o) ==
    /\ worker[w].pc = "idle"
    /\ o \notin gone
    /\ \E c \in Callbacks :
        /\ callback[c].object = None
        /\ \A b \in Callbacks : b < c => callback[b].object # None
        /\ callback' = [callback EXCEPT ![c].object = o]
        /\ worker' = [worker EXCEPT ![w] = [IdleWorker EXCEPT !.pc = "insert", !.todo = {c}]]
        /\ before' = [before EXCEPT ![c] = OnRecord(o)]
    /\ UNCHANGED << gone, aborts, heard, attempts >>

Insert(w, c) ==
    /\ worker[w].pc = "insert" /\ Busy(w, c)
    /\ SetStatus(c, "registered")
    /\ GoTo(w, "check")
    /\ UNCHANGED << gone, aborts, before, heard, attempts >>

\* The retry command reads all the rows to deliver before the first delivery.
RetryCallbacks ==
    LET due == {c \in Callbacks : callback[c].status \in {"registered", "toretry"}}
    IN  /\ worker[Cron].pc = "idle"
        /\ due # {}
        /\ worker' = [worker EXCEPT ![Cron] =
               [IdleWorker EXCEPT
                   !.pc = "check",
                   !.todo = due,
                   !.seen = [c \in Callbacks |-> IF c \in due THEN callback[c].retries ELSE 0]]]
        /\ UNCHANGED << callback, gone, aborts, before, heard, attempts >>

\* A request holds the object itself, cron reads it again.
Unknown(w, c) == w = Cron /\ callback[c].object \in gone

Check(w, c) ==
    /\ worker[w].pc = "check" /\ Busy(w, c)
    /\ IF HasPrevious(c) \/ Unknown(w, c)
       THEN Return(w, c)
       ELSE GoTo(w, "claim")
    /\ UNCHANGED << callback, gone, aborts, before, heard, attempts >>

ClaimAnyPending(c) == callback[c].status \in Pending

Claimable(c) == callback[c].status \in {"registered", "toretry"}

Claim(w, c) ==
    /\ worker[w].pc = "claim" /\ Busy(w, c)
    /\ IF Claimable(c)
       THEN SetStatus(c, "running") /\ GoTo(w, "send")
       ELSE Return(w, c) /\ UNCHANGED callback
    /\ UNCHANGED << gone, aborts, before, heard, attempts >>

\* The answer may be lost or late although the receiver heard; without a URL
\* nothing is sent and the notification counts as delivered.
Send(w, c) ==
    /\ worker[w].pc = "send" /\ Busy(w, c)
    /\ LET o == callback[c].object
       IN  \E ok \in BOOLEAN :
            /\ worker' = [worker EXCEPT ![w].pc = "save", ![w].ok = ok]
            /\ IF o \in WithUrl
               THEN \/ heard' = [heard EXCEPT ![o] = c]
                    \/ ~ok /\ UNCHANGED heard
               ELSE ok /\ UNCHANGED heard
    /\ attempts' = [attempts EXCEPT ![c] = @ + 1]
    /\ UNCHANGED << callback, gone, aborts, before >>

NotCounted(ok, seen) ==
    [status |-> IF ok THEN "completed" ELSE "toretry", retries |-> seen]

OneMoreRetry(ok, seen) ==
    IF ok THEN [status |-> "completed", retries |-> seen]
    ELSE [status |-> IF seen > MaxRetries THEN "failed" ELSE "toretry",
          retries |-> seen + 1]

\* Mutants: the last retry is not made; a failure other than CallbackFailure
\* leaves do_notify without saving.
OneRetryLess(ok, seen) ==
    IF ok THEN [status |-> "completed", retries |-> seen]
    ELSE [status |-> IF seen + 1 >= MaxRetries THEN "failed" ELSE "toretry",
          retries |-> seen + 1]

SavedIfDelivered(ok, seen) ==
    [status |-> IF ok THEN "completed" ELSE "running", retries |-> seen]

\* The whole row is saved, with the counter as this worker read it.
Outcome(ok, seen) ==
    IF ok THEN [status |-> "completed", retries |-> seen]
    ELSE [status |-> IF seen + 1 > MaxRetries THEN "failed" ELSE "toretry",
          retries |-> seen + 1]

Save(w, c) ==
    LET result == Outcome(worker[w].ok, worker[w].seen[c])
    IN  /\ worker[w].pc = "save" /\ Busy(w, c)
        /\ callback' = [callback EXCEPT ![c].status = result.status,
                                        ![c].retries = result.retries]
        /\ Return(w, c)
        /\ UNCHANGED << gone, aborts, before, heard, attempts >>

\* uWSGI kills a worker that takes more than 120 seconds (harakiri).
Abort(w) ==
    /\ worker[w].pc # "idle"
    /\ aborts < MaxAborts
    /\ aborts' = aborts + 1
    /\ worker' = [worker EXCEPT ![w] = IdleWorker]
    /\ UNCHANGED << callback, gone, before, heard, attempts >>

\* A line of a basket can be deleted; its notifications stay.
DeleteObject(o) ==
    /\ o \notin gone
    /\ gone' = gone \cup {o}
    /\ UNCHANGED << callback, worker, aborts, before, heard, attempts >>

\* Rows ended fifty days ago are deleted; no worker lives that long.
ClearCallback(c) ==
    /\ callback[c].status \in {"completed", "failed"}
    /\ \A w \in Workers : c \notin worker[w].todo
    /\ SetStatus(c, "cleared")
    /\ UNCHANGED << gone, worker, aborts, before, heard, attempts >>
-----------------------------------------------------------------------------
WorkerStep(w) ==
    \E c \in Callbacks : Insert(w, c) \/ Check(w, c) \/ Claim(w, c) \/ Send(w, c) \/ Save(w, c)

Next ==
    \/ \E w \in Requests, o \in Objects : Notify(w, o)
    \/ RetryCallbacks
    \/ \E w \in Workers : WorkerStep(w) \/ Abort(w)
    \/ \E o \in Objects : DeleteObject(o)
    \/ \E c \in Callbacks : ClearCallback(c)

\* Every call has a timeout, and cron starts the command again every minute.
Fairness ==
    /\ \A w \in Workers : WF_vars(WorkerStep(w))
    /\ WF_vars(RetryCallbacks)

Spec == Init /\ [][Next]_vars /\ Fairness
-----------------------------------------------------------------------------
CallbackTypeOK ==
    /\ callback \in [Callbacks -> [object : Objects \cup {None},
                                   status : {"none"} \cup Pending \cup Ended,
                                   retries : 0..(MaxRetries + 1)]]
    /\ gone \subseteq Objects
    /\ worker \in [Workers ->
           [pc : {"idle", "insert", "check", "claim", "send", "save"},
            todo : SUBSET Callbacks,
            seen : [Callbacks -> 0..MaxRetries],
            ok : BOOLEAN]]
    /\ aborts \in 0..MaxAborts
    /\ before \in [Callbacks -> SUBSET Callbacks]
    /\ heard \in [Objects -> Callbacks \cup {None}]
    /\ attempts \in [Callbacks -> Nat]

Sending(w, c) == worker[w].pc \in {"send", "save"} /\ Busy(w, c)

\* The conditional UPDATE of do_notify is the only lock there is: a
\* notification is sent by one worker at a time, and its row stays "running"
\* until that worker has saved the outcome (callback/models.py:93-96), however
\* old the instance the worker holds.
SentByOne ==
    \A c \in Callbacks, w \in Workers :
        Sending(w, c) =>
            /\ callback[c].status = "running"
            /\ \A v \in Workers : Sending(v, c) => v = w

\* A receiver hears of one object in the order of the calls to notify, with no
\* repetition of what has ended (callback/models.py:86-88), although rows are
\* checked, claimed and saved in separate statements by workers with stale
\* copies, and written in another order than they are dated.
Stage ==
    [c \in Callbacks |->
        CASE callback[c].status \in Pending -> "waiting"
          [] callback[c].status \in Ended -> "ended"
          [] OTHER -> "none"]

Queue == INSTANCE NotificationQueue WITH stage <- Stage

ImplementsQueue == Queue!Spec

\* The counter is saved from the worker's own copy: a creator slower than cron
\* sets it back to one.  Still a receiver is bothered at most 2n+1 times when
\* CALLBACK_MAX_RETRIES is n, since a creator tries only once and cron runs one
\* process (callback/models.py:100-114, debian/uwsgi.ini:20).
AttemptsBounded == \A c \in Callbacks : attempts[c] =< 2 * MaxRetries + 1

\* A notification is not given up early: one that has failed was sent one time
\* more than CALLBACK_MAX_RETRIES, although the counter that decides is a
\* worker's copy of it, which others may have passed (callback/models.py:105-114).
GivenUpLate ==
    \A c \in Callbacks : callback[c].status = "failed" => attempts[c] > MaxRetries

Abandoned(b) == callback[b].status = "running" /\ \A w \in Workers : ~Sending(w, b)

\* A row left "running" that nobody takes up again is the work of a worker that
\* was killed, and a worker that is killed leaves one such row at most, however
\* many it had still to do (callback/models.py:93-118,
\* callback/management/commands/retry_callbacks.py:27).
AbandonedIsKilled == Cardinality({c \in Callbacks : Abandoned(c)}) =< aborts

\* Every notification on record is delivered or given up in the end.  Two
\* things stop it: its object was deleted, or a worker was killed between the
\* claim and the save of it or of an earlier one of the same object, which
\* leaves a row that nothing takes up again (callback/models.py:65-72,93-96,
\* callback/management/commands/retry_callbacks.py:27).
CallbackEnds ==
    \A c \in Callbacks :
        callback[c].status \in Pending ~>
            \/ callback[c].status \in Ended
            \/ callback[c].object \in gone
            \/ \E b \in 1..c : SameObject(b, c) /\ Abandoned(b)
-----------------------------------------------------------------------------
(***************************************************************************)
(* The strengthening that the proofs use.                                  *)
(***************************************************************************)
\* Which rows a worker may hold.
HoldInv ==
    \A w \in Workers :
        /\ worker[w].pc = "idle" => worker[w].todo = {}
        /\ worker[w].pc = "insert" => w \in Requests
        /\ \A c \in worker[w].todo :
            /\ callback[c].object # None
            /\ callback[c].status = "none" <=> worker[w].pc = "insert"
            /\ w \in Requests =>
                /\ worker[w].todo = {c} /\ worker[w].seen[c] = 0
                /\ \A v \in Requests : c \in worker[v].todo => v = w

RowInv ==
    \A c \in Callbacks :
        /\ callback[c].status # "none" => callback[c].object # None
        /\ callback[c].object # None =>
            \A b \in Callbacks : b < c => callback[b].object # None
        /\ callback[c].status \in {"none", "registered"} =>
            attempts[c] = 0 /\ callback[c].retries = 0
        /\ callback[c].status \in Pending => callback[c].retries =< MaxRetries
        /\ callback[c].status = "toretry" => MaxRetries > 0
        /\ \A b \in before[c] :
            /\ b < c /\ SameObject(b, c)
            /\ callback[c].object # None /\ callback[b].status # "none"

\* Once checked, a notification has nothing left before it.
OrderInv ==
    \A c \in Callbacks, w \in Workers :
        Busy(w, c) /\ worker[w].pc \in {"claim", "send"} =>
            \A b \in before[c] : callback[b].status \in Ended

\* The creator of a notification has not tried to deliver it yet.
Untried(c) == \E w \in Requests : c \in worker[w].todo /\ worker[w].pc # "save"

\* An attempt is made that no counter shows yet.
Uncounted(c) ==
    IF /\ callback[c].status = "running"
       /\ \A w \in Workers : ~(Busy(w, c) /\ worker[w].pc = "send")
    THEN 1 ELSE 0

CountInv ==
    \A c \in Callbacks :
        /\ attempts[c] =< 2 * MaxRetries + 1
        /\ callback[c].status \in Pending =>
            /\ attempts[c] =< callback[c].retries + MaxRetries + Uncounted(c)
            /\ Untried(c) => attempts[c] =< callback[c].retries + Uncounted(c)
            /\ c \in worker[Cron].todo =>
                IF Untried(c) THEN worker[Cron].seen[c] = callback[c].retries
                ELSE attempts[c] =< worker[Cron].seen[c] + MaxRetries + Uncounted(c)
            /\ \A w \in Requests :
                c \in worker[w].todo /\ worker[w].pc = "save" =>
                    /\ attempts[c] =< MaxRetries + 1
                    /\ c \in worker[Cron].todo => attempts[c] =< worker[Cron].seen[c] + 1

\* No counter, and no copy of one, runs ahead of the attempts made.
TriesInv ==
    /\ GivenUpLate
    /\ \A c \in Callbacks : callback[c].retries =< attempts[c]
    /\ \A w \in Workers : \A c \in worker[w].todo :
        /\ worker[w].seen[c] =< attempts[c]
        /\ Busy(w, c) /\ worker[w].pc = "save" => worker[w].seen[c] < attempts[c]

CallbackInv == CallbackTypeOK /\ HoldInv /\ RowInv /\ SentByOne /\ OrderInv /\ CountInv
=============================================================================
