# Publik Famille demo: specification, model checking and proofs

The portal lets a parent register children, verify an identity, enroll a child
in an activity, pay the invoice and download it as a PDF. It is a Django
project over one SQLite file, served by a threaded server, with two optional
remote services: WCS for enrollments and Lingo for billing. The repository also holds
snapshots of the services themselves; of Lingo's, the parts that keep the
money right are modelled too. This directory holds TLA+ modules, the TLC
configurations that check them, and theorems about them with proofs that TLAPS
checks.

Line numbers refer to the repository's files, paths without the `src/` prefix, and
for Lingo without `src/lingo_snapshot/lingo/`.

## 1. The system

### Components

| Component | State it keeps | Operations that change it | Modelled by |
|---|---|---|---|
| `families` | `Child` rows (parent, name, birth date) | add, edit, delete a child; deletion cascades to enrollments and invoices | `Families` |
| `activities`: catalogue | `Activity` rows (fee, capacity, `is_active`) | staff edits in the Django admin | `Catalogue` |
| `activities`: requests | `Enrollment` rows (status, `wcs_id`), unique per child and activity | `EnrollView.post` | `Enrolling` |
| `activities`: gateways | none of their own | `create_enrollment` (local, WCS), `sync_enrollment` (no caller) | `Enrolling` (the first) |
| `billing`: gateways, signal | `Invoice` rows (amount, status, `lingo_id`) | `create_invoice`, `mark_paid` (local, Lingo), the `post_save` handler | `Enrolling`, `Payments` |
| `billing`: payment | the PDF file of an invoice | `pay_invoice`; `Enrollment.invoice`, a property that creates a missing invoice | `Payments` |
| `documents` | `Document` rows | none but through `pay_invoice` and cascades | `PortalData`, `Payments`, `Families` |
| `accounts` | `UserProfile.id_verified`, the session | identity check (form or OIDC), sign-up, login, logout, middleware | `Families` (form), `Identity` (OIDC, session) |
| `monitoring` | one HTML log file | append by any thread | no (section 5) |
| settings | backends, switches | read at start-up | constants |
| Lingo: notifications | `Callback` rows (status, retry counter) | `notify`, `do_notify`, `retry_callbacks`, `clear_callbacks` | `LingoCallbacks` |
| Lingo: baskets | `Basket`, `DraftInvoice`, `Invoice`, `Credit`, `CreditAssignment` rows | create, fill, validate, cancel, expire; assign credits | `LingoData`, `LingoBasket` |
| Lingo: online payments | `Transaction` and `Payment` rows | pay, callbacks of the payment service, status checks, poll | `LingoEpayment` |
| Lingo: campaign jobs | `Pool`, `CampaignAsyncJob`, `PoolAsyncJob`, draft lines and invoices | add, stop, delete and generate draft pools | `LingoCampaign` |
| the rest of Lingo, `wcs_snapshot`, `authentic_snapshot` | | | no (section 5) |

### How they interact

* `EnrollView.post` checks the identity flag that `accounts` sets, counts and
  inserts through the enrollment gateway, then bills through the billing
  gateway. `pay_invoice` marks the invoice paid through the billing gateway,
  whose `save` fires the signal that confirms the enrollment in `activities`,
  and then writes the file and the `documents` row.
* Reading `Enrollment.invoice` in the list template inserts a row in `billing`.
* Deleting a child removes rows of `activities` and `billing` under requests
  that are still working with instances of them.
* The only shared state is the database, the media directory and the remote
  services. `ATOMIC_REQUESTS` is not set and no view opens a transaction, so
  every `save`, `get_or_create` and `delete` commits on its own and nothing is
  locked from one to the next. Instances are snapshots: what a request read
  at its start it uses to its end.

* Lingo runs in uWSGI over PostgreSQL, with cron starting its commands. It does not
  set `ATOMIC_REQUESTS` either: a request is a sequence of statements, each
  its own transaction, around Python objects that are saved whole. uWSGI kills a
  request after 120 seconds (`../debian/uwsgi.ini:36`).
* A basket, when validated, becomes an invoice; credits are assigned to it and
  a transaction pays the rest. The payment service answers through a callback,
  through the payer's browser, and to status checks by the waiting page and the
  poll; each answer may complete or reopen the basket.
* Baskets and invoices notify the systems that filled them through `Callback` rows.
* A campaign job deals the users of a pool to pool jobs; a last pool job makes the
  invoices when the others are done. Pools, jobs and lines are what the
  processes share.

### What is hard

In the portal: two requests between one's check and its write; a worker that dies between two
commits; a remote call that succeeds although its answer is lost; a form sent
twice; staff or another request editing a row that a request has read; a
remote answer that is stored as it comes; a deletion in the middle. In Lingo:
whole rows saved from stale copies, which undo what was saved meanwhile and
even insert deleted rows again; answers that come twice, late or never;
processes killed between two statements; cron processes that overlap; a pool stopped
or deleted by a manager while processes work on copies of it. `hazards`
in `PROJECT.json` lists each with its line and the properties about it.

### What makes each part correct

* enrolling: only verified parents' children get in, the capacity holds, one
  enrollment is billed once, and every enrollment exists at WCS;
* paying: confirmed means paid, paid is never undone, paid ends confirmed and
  documented, PAID means Lingo took the money;
* documents: a stored document stands for a settled payment;
* identity: a profile is marked only by a check of its own user, and the check
  returns to its own page;
* deletion: no request leaves rows behind for a child that is gone;
* notifications: delivered in order, by one worker at a time, a bounded number of
  times, and in the end delivered or given up;
* baskets: a completed basket is covered by payments and credits, and no
  credit is spent twice;
* online payments: what the service took, and only that, is recorded;
* campaigns: a completed pool has every line once on one invoice, a stop is not undone,
  and every job ends.

## 2. The modules

| Module | Content |
|---|---|
| `PortalData` | constants, the rows and files, what WCS and Lingo hold, the type invariant of the data |
| `Families` | `AddChild`, `DeleteChild` with its cascade, `VerifyIdentity` |
| `Catalogue` | `SetFee`, `SetActive`, `StaffSetStatus`: the Django admin |
| `Enrolling` | `EnrollView.post`, both gateways' `create_enrollment`, both gateways' `create_invoice` |
| `Payments` | `pay_invoice`, both gateways' `mark_paid`, the signal, the lazy invoice |
| `Portal` | all of them interleaved; the specification and its properties |
| `EnrollmentLifecycle` | the abstract specification: the stages of one enrollment |
| `PortalRefinement` | the mapping from rows to stages; `Portal` implements the lifecycle |
| `PortalInductive` | the strengthening that the proofs use |
| `Identity` | the OIDC identity check, the session, sign-up, login and logout; the inductive invariant of its proofs |
| `LingoCallbacks` | notifications: requests, the retry command, clean-up; its inductive invariant |
| `NotificationQueue` | the abstract specification of notifications: what receivers may hear, and when |
| `LingoData` | the rows that baskets and payments share, their amounts, the state of a request |
| `LingoBasket` | the payer's basket from creation to its end, and the credits |
| `LingoEpayment` | transactions, the payment service, its answers and what they do |
| `Lingo` | both interleaved, with killed workers; the specification and its properties |
| `LingoCampaign` | draft pools, campaign jobs and pool jobs; its inductive invariant |
| `MCPortal`, `MCRefinement`, `MCIdentity`, `MCCallbacks`, `MCLingo`, `MCCampaign` | instances for TLC |
| `PortalTypeProofs`, `PaymentProofs`, `BillingProofs`, `PlacesProofs`, `IdentityProofs`, `CallbackProofs`, `LingoProofs`, `CampaignProofs` | theorems and proofs |

### Rows

An enrollment is unique for its child and activity and disappears only with the
child; Django's SQLite keys are never given twice. A *seat*, the pair of a child
and an activity, therefore names the enrollment, its invoice (one to one), the
invoice's document and the file `invoice_<pk>.pdf`, and every table is a
function of seats. `"absent"`, `"none"` and `NoPdf` stand for a missing row or
file. `wcs` and `lingo` count what the remote services have done for a seat; they
are the environment's state, and no action of the portal reads them except
through an answer, whose id is the count the service has reached.

### Requests

A request is a thread, cut where it commits, where it talks to a service and
where it uses a value read earlier. `enroll[t]` and `pay[p]` hold the step and
the values read. In the order of the code:

    EnrollView.post
      EnrollRequest       activity active, child of the user, identity   152-179
      CheckCapacity       count, give up when full                       182-187
      WcsCreate           POST to WCS, before anything is stored         gateways 202
      CreateEnrollment    get_or_create, wcs_id written over             gateways 88, 211
      LingoCreate         POST to Lingo, if this request inserted        gateways 209
      CreateInvoice       get_or_create
      SaveInvoice         update_fields of an invoice that was there
      ConfirmOnSave       the signal, if that invoice was read PAID

    pay_invoice
      PayRequest          the invoice read; not PAID                     56-68
      ReadEnrollment      its enrollment, cached from here on            59
      LingoPay            POST the payment                               gateways 268
      MarkPaid            save status, paid_on
      ConfirmEnrollment   signal and gateway, through the cached row
      WritePdf            the file, from the instance                    80-90
      StoreDocument       the Document row                               93-106

Every error path ends the request where the code does: a `PaymentError` or a
`BillingError`, an `IntegrityError` on a row whose parent is gone, the
`DatabaseError` that Django raises when `save(update_fields=...)` finds no row.
`AbortEnroll` and `AbortPay` kill the worker at any step.

`Identity` stands beside `Portal`: with `IDENTITY_BACKEND` other than `simulation` the
check is a round trip through the browser, of which `Portal` only sees the result
(`VerifyIdentity`). One check is a *flow*, named for its state token:

    verify_start
      VerifyStart         the session keeps the token and the page   views_identity 220-223
    the provider
      ProviderAnswers     back with a code, or with an error
    verify_callback
      CallbackStart       user, expected state and page from the session   268-277
      Exchange            code for token, userinfo; any failure ends it     290-315
      SaveProfile         the profile of the request's user, the redirect   317-326

`SignUp`, `Login` and `Logout` change sessions meanwhile; a later `VerifyStart` in the
same browser overwrites token and page; the token is never removed, so a page
that is loaded again starts another callback. A callback with an error or with
another state redirects and changes nothing.

### Lingo: notifications

A worker is a request that called `notify`, or the process of `retry_callbacks`
(one at a time: `unique=1` in `../debian/uwsgi.ini:20`). `worker[w]` has the rows it
still goes through and the retry counters as it read them:

    Notify, Insert      created_at is taken, then the row written     callback/models 76
    RetryCallbacks      all rows to deliver are read at once          retry_callbacks 27
    Check               an earlier row of the object, or no object    86-91
    Claim               UPDATE ... WHERE status in (...)              93-96
    Send                the call, whose answer may be lost            97-99
    Save                status and counter of the worker's copy       100-114

`Abort` is uWSGI's harakiri; `DeleteObject` a line that `BasketLineCancelView` deletes;
`ClearCallback` the daily clean-up. `NotificationQueue` knows nothing of rows and
workers: a notification is made, waits, may be delivered any number of times
once those before it have ended, and ends.

### Lingo: baskets and payments

The model is of one payer in one regie. `request[r]` is a request cut at every
statement, with its copy of the basket (`row`) and what it read of amounts:

    BasketsView         CheckBasket; CreateBasket            api/views/basket 38-75
    BasketLineClose     LoadForLine; BillLine; KeepBasket    368-384
    LinesFromBookings   LoadForLine; all in one              154-257
    BasketValidate      ValidateBasket; Promote; RefreshInvoice; AssignCredits;
                        CoverInvoice; SettleBasket; SaveBasket; StartPayment; Pay
    draft invoice       CloseDraftInvoice; Promote; RefreshInvoice; AssignCredits
    BasketCancel        LoadForCancel; CancelBasket; CancelInvoice; RevertAssignments
    a credit            MakeCredit; SpreadCredit per invoice it read
    pay_invoice_view    PayInvoice; Pay
    an answer           HandleMessage or CheckStatus; SaveStatus; then
      paid              RecordPayment; SignalPaid; SumCredits; PayCredits; Complete
      denied            SignalReopen; SaveOpen; CancelInvoice; RevertAssignments; Detach

`ExpireBasket` and the two halves of the poll (`PollAsk`, `PollHandle`) run in
transactions of their own. An invoice has the sum of what is `paid`, of the credits
`pledged` (assigned without a payment) and of those `spent` (with one), which the
triggers of `invoicing/sql` and the sums in the code compute. `bank` is what the
payment service knows; `Messages` are what a message of it may still say.

### Lingo: campaign jobs

`manager`, `director` and `worker` are requests of the back office, processes of
`run_campaign_jobs` and of `run_pool_jobs`; nothing keeps two of a kind from running at
once (`../debian/uwsgi.ini:21-22`). A chunk stands for the users dealt to one pool
job, `lines[p][k]` and `invoiced[p][k]` count how often its lines were written and
put on invoices:

    PoolAddView         CheckAdd; CreatePool; InitPool       campaign 128-143, 213-235
    PoolStopView        CheckStop; StopPool                  views/pool 64-105
    PoolDeleteView      CheckDelete; DeletePool              views/pool 341-390
    run_campaign_jobs   CampaignCron; StartCampaign; CheckDraft; RunPool;
                        GetUsers; Split per job; EndCampaign 638-662, 684-725
    run_pool_jobs       PoolCron; StartJob; LoadPool; then
      a chunk           BuildLines; SavePool; EndJob         258-275, 781-787
      the last          CheckJobs; ReadLines; MakeInvoice; StopInvoices; SavePool; EndJob

`Fail` is an exception on the way, `Kill` the end of any process. `SavePool` writes the
copy loaded at `LoadPool` whatever the row has become, and inserts it again
after a deletion. `PoolCron` keeps in `seen` the pool that `is_ready` loaded for a last job
that waits (`campaign.py:769`), because `run()` goes on with that copy. `StopPool` saves `failed` over
whatever the pool has become since `CheckStop` read it as registered or running; a process
that has the pool in hand (`InHand`) notices between two users or two payers and ends
without an error (`utils.py:1330, 1396`), so that its chunk counts as done.

Two history variables name the pools of which less is promised. `stopped` has those that a
manager stopped. `raced` has those of which two processes took one job, those deleted under
a process, and those stopped while a process had them in hand or after they were completed.

### Merged steps, and why that is sound

In the portal:

* `EnrollRequest` is one action although it reads three rows. The fee it
  keeps may be stale from the next step on, and the child's presence is
  looked at again by the insert; `id_verified` never goes back to false.
* The signal handler and the gateway both confirm, one after the other, the same
  cached enrollment object; the second finds it confirmed. One action writes.
* `_lazy_invoice` reads the fee and inserts; a fee read just before staff edit
  it is a run in which the page was loaded just before the edit.
* The reading and writing halves of the signal in `ConfirmOnSave` write a
  constant; an edit between them has the effect of one before them.
* Django loads a session when the view first touches it and saves it once, after the
  view: `VerifyStart` stores both keys at once, or neither if the session was
  flushed meanwhile, and `CallbackStart` reads all it needs at once.
* `Exchange` stands for the token and userinfo calls, which store nothing in
  the portal.
* `get_or_create` inserts inside a transaction of its own and reads again when
  it loses a race, so it is atomic.

In Lingo:

* A statement is a step; reads that the next write does not depend on are part of it.
* `make_payment` locks the invoice and runs in a transaction, and so does each
  credit in `assign_credit`; the loop over the credits of an invoice is one
  step, with the amount and the number of credits read before it: what another
  request takes between two turns of the loop is taken before it or after it. A
  request may still find fewer credits than it read.
* `CancelInvoice` reads the invoice and saves it whole: a payment recorded between
  the two would leave an older `paid_amount` on a cancelled invoice until the next
  trigger. No guard reads the amounts of a cancelled invoice.
* `Pay` creates the transaction, asks the service and saves the order: the payer
  learns of the service from the response only.
* `PollHandle` is the transaction of `poll_payment_backends`; what it reads is what
  was committed when it handles the answer, later than in the code by the time
  of its own statements.
* `BuildLines` and `MakeInvoice` look at the pool and write, per user or payer in the
  code, per chunk in the model: a chunk built in part, because of an error or of a stop,
  counts as not built.
* `CreatePool` to the campaign job is two commits, cut at `InitPool`, where the
  other system is asked.

### Assumptions

* A service that answers gives an identifier (`WcsCreate`, `LingoCreate`).
* `LingoStatuses` are the statuses Lingo answers a payment with; the code takes
  any string, `"OTHER"` stands for every one that is neither PAID nor UNPAID.
* Staff use the admin to cancel and re-open enrollments (`StaffStatuses`), never
  to type CONFIRMED: a hand-made confirmation says nothing about payment.
* The provider takes a code once (`Exchange`); a call that fails may have used it up.
* Django's `login` flushes the session of another user, `logout` any session.
* Parents, staff and the parent of each child are fixed; nobody edits a child's
  parent (the form has no such field).
* The payment service decides a payment once and reports it as it is; only messages
  under way may be older (`Messages`). Every denied, cancelled, expired or failed
  payment is `denied`, every paid or accepted one `paid`.
* `created_at` orders the notifications of an object: two never have the same time.
* Credits are usable, published and of the basket's payer; invoices are not past due.

## 3. What is checked

TLC explores every interleaving of the instance in each configuration. Threads
are interchangeable in `Portal`, so the safety runs use their symmetry; the
liveness run does not.

### Properties that hold

| Run | Instance | Properties |
|---|---|---|
| `places` | two families (one parent is staff), three children, one activity with one place, two enroll threads and a pay thread, staff cancel, crashes, failing disk | `TypeOK`, `EnrolledIsVerified`, `OverbookingBounded`, `ConfirmedIsPaid` |
| `live` | local backends, one child, an enroll and two pay threads, two fees, no crash, no failing disk, staff leave statuses alone | `PaidIsConfirmed`, `PaidIsDocumented`, `EnrolledIsInvoiced`, `PaidIsFinal`, `NothingForgotten` |
| `remote` | WCS and Lingo, two enroll and two pay threads, no limit of places, refused calls, lost answers, crashes, failing disk, two fees | `BilledOnceAtLingo`, `PaidIsPaidAtLingo`, `EnrolledIsAtWcs`, `IInv`, `DocumentIsSettled`, `PaysMirroredInvoice`, `MirrorIsFinal`, `ImplementsLifecycle` |
| `identity` | two parents and a staff member, two browsers, two checks, two callback requests, a page besides `/` | `IdentityTypeOK`, `VerifiedByOwnCheck`, `ResumesOwnPage`, `IdentityInv`, `ImplementsVerifyIdentity` |
| `callbacks` | one line, two notifications, two requests, cron, one retry, a killed worker | `CallbackTypeOK`, `SentByOne`, `AttemptsBounded`, `GivenUpLate`, `AbandonedIsKilled`, `ImplementsQueue`, `CallbackEnds` |
| `lingo` | one basket of one line that costs 2, its invoice and its transaction, two credits of 1, two requests, the poll, the expiry, killed workers | `LingoTypeOK`, `CompletedIsCovered`, `RecordedIsPaid`, `PaidIsFollowed`, `CreditsAddUp` |
| `campaign` | one pool, two chunks and the last job, one campaign process, two pool processes, a manager who adds, stops and deletes, one process killed or one pool stopped | `CampaignTypeOK`, `CompletedIsWhole`, `CompletedIsFinal`, `StuckIsKilled`, `StopHolds`, `JobEnds` |

`OverbookingBounded` is as strong as the code allows: concurrent requests do
exceed the capacity, by at most one less than the number of threads.
`PaidIsFinal` depends on the `update_fields` of `create_invoice`, whose instance may
be older than a payment. `IInv` is the strengthening of section 4.

`PaysMirroredInvoice` and `MirrorIsFinal` are about the copy of `lingo_id` a payment
takes along: enroll requests and the list page write the row between the reads of
a payment and its answers, and Lingo must not take money for one invoice while the
portal records it on another. They hold because an enroll request that finds the
enrollment creates no invoice and a payment refuses a row without an identifier.
`NothingForgotten` is what progress rests on: with local billing and no crash, full
disk or staff edit, a row that lacks its invoice, confirmation or document has a
thread that will supply it, whichever of two payments came first.

`VerifiedByOwnCheck` is about what users do between the two halves of a check: log
out and in as somebody else, start a second one, load the callback again. It
rests on the state test and on the session being flushed with the user.
`ResumesOwnPage` holds although the session has one page for all tabs, because
the state is overwritten with it: the older check then fails.
`ImplementsVerifyIdentity` ties the two models together: what the rest of the portal
reads of a profile changes only by a step of `Families!VerifyIdentity`.

`ImplementsLifecycle` maps five tables and the file to one stage per enrollment
(none, enrolled, billed, paid, confirmed, settled, gone); all other combinations
of rows map to a value that is no stage. TLC shows that each step of each
thread advances at most one stage and never goes back, whatever crashes.

`ImplementsQueue` holds although check, claim and save are separate and rows are
written in another order than they are dated, because the UPDATE of the claim is
conditional and an older row, once written, blocks the check until it has ended.
`AttemptsBounded` says what the stale counter costs: 2n+1 attempts instead of n+1;
`GivenUpLate` that it errs on that side only: nothing is given up before n+1.
`AbandonedIsKilled` counts: each killed worker leaves one stuck row at most.
`CallbackEnds` names what stops a notification for ever: its line was deleted, or
a worker was killed between claim and save, which leaves a row that nothing
takes up again.

`CompletedIsCovered` is about stale copies: `SettleBasket` decides from sums it
reads, `Complete` from a payment just made, and another request may save an old
row, expire the basket or assign credits in between. Cancelled invoices are
exempt, because a payment that is answered after the expiry completes the
basket all the same. `RecordedIsPaid` and `PaidIsFollowed` bracket the handling of
answers: a refused payment is never recorded, and one that was taken is recorded,
about to be, or still asked about. The one exception is a worker killed
between saving the status and recording the payment (`lost`): nothing asks again.
`CreditsAddUp` follows each unit of a credit: unspent, pledged to a basket's invoice
or spent on an invoice, through concurrent grants, payment, cancellation and expiry.

`CompletedIsWhole` is the reason why a stale save may hide a failed chunk and do no
harm: the last job looks at the jobs, not at the pool's status. It needs each job to
be taken by one process; two that take the same one write its lines twice, and such
pools (`raced`) are exempt, and so are those deleted or stopped under somebody's copy.
`CompletedIsFinal` has the same exemption. `StopHolds` says when a stop can be relied on:
when no process has the pool in hand, the stop holds, because each job looks at
the pool before it begins, and a last job that waits looks at it when it is ready. `JobEnds`
follows all the jobs of each pool; it names what a killed process leaves: its row
keeps the last job waiting and counts among the running ones. `StuckIsKilled` is the
converse: a row that says running with no process on it was left by a kill, one row
per kill at most, and by no exception, deletion or job taken twice.

`live` has no crashes and no staff edits of a status: `PaidIsConfirmed` fails after a crash
(`crash` below), and what staff do to a paid enrollment is in `places` and `remote`. `PaidIsFollowed`
exempts (`lost`) the transactions whose request was killed between saving the status and
recording the payment, because the code loses those; it is about everything else that can
come between. Likewise `CompletedIsWhole`, `CompletedIsFinal` and `StopHolds` are not true of the code
without their exemption. TLC, run by hand without it, finds within a few seconds:

* a pool completed with lines missing: a manager stops it while the last chunk to be built
  is in hand; the chunk is given up without an error, the copy saved as running
  (`campaign.py:275`), the job reported done, and the last job completes the pool. The same
  happens to invoices when the last job is at work (`campaign.py:287-290`);
* a stopped pool completed in full: the manager stops it between the check and the first
  save of the campaign job (`campaign.py:690, 241`), which goes on as if nothing had happened;
* a completed pool that becomes failed: the manager's request reads it as running, the last
  job completes it, the request saves its copy (`views/pool.py:91-94`).

The repository says of a stop no more than its button ("Stop", `views/pool.py:86-87`) and a
test that reads the row right after it, with no process at work
(`lingo_snapshot/tests/invoicing/manager/test_pool.py:2100`), so no run is spent on these; they
are in `hazards`.

### Statements the code does not keep

Each run below checks one sentence of the repository and finds it violated;
`findings` in `PROJECT.json` quotes it.

| Run | Property | How |
|---|---|---|
| `overbooked` | `CapacityRespected` | two requests count before either inserts |
| `crash` | `PaidIsConfirmed` | the worker dies between the two commits of `mark_paid`; `pay_invoice` then refuses a PAID invoice before the branch that would repair it |
| `answer` | `ConfirmedIsPaid` | Lingo answers a payment with another status; the enrollment is confirmed all the same |
| `twopays` | `PaidOnceAtLingo` | two requests, or a retry after a lost answer, pay one invoice |
| `unmirrored` | `InvoiceIsAtLingo` | Lingo refuses an invoice, the list page creates one without `lingo_id`, and it can never be paid |

Two more behaviours are in the model and no run is spent on them. WCS is called
before the portal looks for an existing enrollment, so `wcs[e]` reaches 2 when a
form is sent twice. And `create_invoice` updates the amount of an invoice that
was created by the list page and paid meanwhile, so `invoice[e].amount` and
`pdf[e]` may differ.

### Bounds

* `MaxRemote` stops new requests on a seat that has cost so many remote calls of
  the kind that can repeat (`wcs`, `lingo.paid`); a call more can happen by
  requests under way. At 2 a retry after a lost answer still fits. Only the
  guards of `EnrollRequest` and `PayRequest` mention it.
* Two enroll and two pay threads: every race here is between two requests
  that read before one writes; a third adds only another of the same kind, and
  the theorems cover any number.
* One child for the live and remote runs, because seats share nothing but the
  capacity; three children of two parents where the capacity matters, so that one place more would show.
* Two fees, so that an edit is visible.
* Two checks and two callbacks: a second check overwrites the first, a second
  callback repeats one. Two browsers, so that a user can be logged in twice.

* `callbacks`: two notifications of one object are enough to be in or out of order;
  one retry lets a counter be stale and still reach the limit. Two objects share
  nothing but the workers.
* `lingo`: the price is 2 so that one credit covers a part and two cover all. One
  basket, one invoice, one transaction: what one basket and its payment
  can go through, with two requests that hold old copies of it. One
  transaction and two invoices (4.7 million states), and two of each under one request
  (2.2 million), were checked by hand with the same outcome; the theorems cover any numbers.
* `campaign`: two chunks let one fail or stall while the other ends; the last job is the
  third. `MaxMishaps` bounds the processes killed and the pools stopped, together; at 1 either
  happens at any step. Two mishaps (a stop and a kill, or a second stop by a request that has
  read the pool; 1.8 million states) and two managers (1.5 million, with symmetry) were checked
  by hand for the safety properties and `CampaignInv`, two pools and two directors in part;
  the theorems cover any numbers.

### Fairness

`FairSpec` is weakly fair to every thread's steps: a thread that serves a
request keeps running, and each remote call ends because it has a timeout.
Requests themselves, staff edits and deletions are not fair: nobody has to
click. `live` has no aborts, since a dead worker is what `crash` is about.

`LingoCallbacks` is weakly fair to each worker's steps (every call has a timeout,
`basket/models.py:375`) and to `RetryCallbacks`, which cron starts every minute.
`LingoCampaign` is weakly fair to the cron processes: each is started again every
minute and runs to its end. Requests, kills, deletions and the clean-up are
not fair. `Lingo` has safety properties only.

## 4. What is proved

| Theorem | Statement |
|---|---|
| `TypeCorrect` | `Spec => []TypeOK` |
| `RowsStayLinked` | `Spec => []Linked` |
| `ConfirmedOnlyIfPaid` | `OnlyPaid` implies `Spec => []ConfirmedIsPaid` |
| `PaymentIsFinal` | `OnlyPaid` implies `Spec => PaidIsFinal` |
| `BilledOnce` | `Spec => []BilledOnceAtLingo` |
| `OverbookingIsBounded` | `Spec => []OverbookingBounded` |
| `CallbackInvariant`, `CallbackTypes`, `OneSender`, `BoundedAttempts`, `NotGivenUpEarly`, `OnlyTheKilledAbandon` | `Spec` of `LingoCallbacks` implies always `CallbackInv`, `CallbackTypeOK`, `SentByOne`, `AttemptsBounded`, `GivenUpLate`, `AbandonedIsKilled` |
| `NotificationsInOrder` | `Spec => ImplementsQueue`: `LingoCallbacks` implements `NotificationQueue` |
| `LingoInvariant`, `LingoTypes`, `CoveredWhenCompleted`, `RecordedWhenPaid`, `PaidFollowed`, `CreditsGrantedOnce` | `Spec` of `Lingo` implies always `LingoInv`, `LingoTypeOK`, `CompletedIsCovered`, `RecordedIsPaid`, `PaidIsFollowed`, `CreditsAddUp` |
| `CampaignInvariant`, `CampaignTypes`, `WholeWhenCompleted`, `StuckOnlyByKill` | `Spec` of `LingoCampaign` implies always `CampaignInv`, `CampaignTypeOK`, `CompletedIsWhole`, `StuckIsKilled` |
| `CompletedStays` | `Spec => CompletedIsFinal` |
| `StoppedStays` | `Spec => []StopHolds` |
| `RacedOnlyByManagers` | one process of each command implies `Spec => RacedByManagers` |
| `IdentityHolds` | `Spec => []IdentityInv` (of `Identity`) |
| `OwnCheckOnly` | `Spec => []VerifiedByOwnCheck` |
| `OwnPageOnly` | `Spec => []ResumesOwnPage` |
| `IdentityTypeCorrect` | `Spec => []IdentityTypeOK` |
| `RoundTripIsOneStep` | `Spec => ImplementsVerifyIdentity` (`Identity` implements the step of `Families`) |
| `EnrolledOnlyIfVerified` | `Spec => []EnrolledIsVerified` |
| `EnrolledOnlyIfAtWcs` | `EnrollmentBackend = "wcs"` implies `Spec => []EnrolledIsAtWcs` |
| `PaidOnlyIfPaidAtLingo` | `BillingBackend = "lingo"` implies `Spec => []PaidIsPaidAtLingo` |
| `DocumentOnlyIfSettled` | `OnlyPaid` and `OnlyCancelled` imply `Spec => []DocumentIsSettled` |
| `EveryThreadKnows` | `Spec => []IInv`, the whole invariant |
| `LifecycleImplemented` | `OnlyPaid` and no staff statuses imply `Spec => ImplementsLifecycle` |
| `PaidAsMirrored` | `BillingBackend = "lingo"` implies `Spec => []PaysMirroredInvoice` |
| `MirrorStays` | `Spec => MirrorIsFinal` |
| `NothingIsForgotten` | `Uneventful` implies `Spec => []NothingForgotten` |
| `OneThreadRespectsCapacity` | one enroll thread implies `Spec => []CapacityRespected` |

They hold for every value of the constants that the assumptions of the modules
allow: any people, activities and capacities, any number of threads (finitely
many enroll threads), both settings of each backend, with and without crashes and
failing disks, and any `MaxRemote`. The last makes the bound harmless for
safety: a finite run of the portal without it is a run with a large one.

`OnlyPaid` says that payments are answered with PAID, which the local gateway
guarantees and Lingo may not; without it `answer` refutes the first conclusion,
and a second payment answered with another status the other. `OnlyCancelled` says
that staff put no enrollment back to waiting for payment; with it undone a
document would stay linked to an enrollment that waits again.

The argument. The properties speak of rows, but what keeps them is what threads
know of rows they read earlier. `Linked` says that rows have the rows they refer
to, and that what a thread has created or read is still there unless the
child is deleted, which is for ever. On it rest:

* `PaymentInv`: a pay thread past `MarkPaid`, and an enroll thread that read a
  PAID invoice, still find it PAID. Only `ConfirmEnrollment` and `ConfirmOnSave`
  confirm (`NewlyConfirmed`), from exactly those threads, and no step takes PAID
  away (`NextKeepsPaid`), so `ConfirmedIsPaid` is preserved. It is not inductive
  alone: in a state where a thread waits to confirm an unpaid invoice, the next
  step breaks it.
* `BillingInv`: at most one thread is past the insert of a seat's
  enrollment (`OneCreator`), because a second insert would find the row.
* `PlacesInv`: enrollments and threads between count and insert together
  stay within the capacity plus the threads minus one. A step shrinks both sets,
  or finds a free place, or moves a thread to the enrollments.
* `VerifiedInv`: a thread that is not idle works for a child whose parent has
  passed the check, because a passed check is never withdrawn.
* `WcsInv`, `LedgerInv`: an identifier a thread brings back is one the service has given,
  and a thread that records a payment has one to record, because neither service
  forgets (`WcsGrows`, `LingoGrows`). A row takes its identifier from such a
  thread only (`WcsIdChanges`, `InvoiceSteps`).
* `SettledInv`: a thread that writes a file has settled its enrollment, and one that
  stores a document has written the file; what is settled stays so
  (`StaysSettled`) and files stay (`PdfKept`).
* `MirrorInv`: a payment under way carries the identifier that the row has
  (`PaySees`), and an enroll request that will still write one has a row without
  it (`YetToMirror`), of which `OneCreator` allows one per seat. So `MirrorStays`
  needs `MirrorInv` with the Lingo backend; with the local one nothing writes the column.
* `ForgottenInv` adds to `NothingForgotten` that a thread which read a confirmed
  enrollment still finds it confirmed: without it, the thread a paid invoice waits for could
  be one that will skip the confirmation. `Uneventful` excludes crashes,
  failing disks, staff edits and Lingo, whose refusal alone leaves an enrollment
  without an invoice.
* The refinement: `Staged` leaves out the combinations of rows that are no stage,
  `StageIsMapped` reads the stage off the remaining ones, and `EnrollStage`,
  `PayStage`, `LazyStage` and `LifecycleNext` show that each step moves one seat to
  the next stage, or several to "gone", or none.

* `IdentityInv`: a session that keeps a state belongs to the user and browser of
  that check and keeps its page (`SessionLinked`), and so does a running callback,
  even after the session has changed (`CallbackLinked`). Without them a state in
  which a session holds another user's token satisfies the properties and loses
  them three steps later.

* `CallbackInv`: a row past its check has nothing left before it (`OrderInv`), and stays
  so because nothing returns to pending once it has ended; attempts are bounded
  by the counter on the row plus those a stale copy can hide (`CountInv`), and from
  below because no copy counts more than was sent (`TriesInv`). The
  refinement of `NotificationQueue` is the step simulation on top of it.
* `LingoInv`: between `Promote` and `SettleBasket` nobody else knows the invoice
  (`Private`), so what its request reads of it stays true; what a request holds
  of other invoices is `Good`, and stays so because sums only move in its favour
  (`Better`) unless the invoice is cancelled, which is for ever.
* `CreditsAddUp` sums over invoices. There is no induction over data here, so the sum is
  a cardinality: `InUse` has an element for each unit on an invoice, and a step that
  changes one invoice changes it by that invoice's part (`UnitsOfOne`). Each action
  makes a credit, moves units of one invoice, or moves none (`CreditMoves`).
* `AbandonedIsKilled` and `StuckIsKilled` count sets that only a kill can enlarge, by the one
  row the killed process held; that no other step does rests on every process
  saving the row it took, and in a campaign on a running job's pool being there
  (`RunningExists`), so that a deletion takes the row along.
* `CampaignInv`: for each pool that was neither raced nor stopped, directors, jobs, workers
  and lines agree (`CampaignOK`); one that was stopped and not raced is out of all hands and
  failed or deleted (`HaltedOK`), and stays so because nobody takes it in hand again
  without finding it running (`WorkerHalted`, `DirectorHalted`). A pool may show any status that some stale copy had; what counts
  is that it is `failed` only when a chunk is `Broken` or the last job is `Over`, and
  `completed` only when all chunks are done and the last job will save nothing
  more. `Frame` shows once that a step about one pool leaves what is known of
  the others.
* `RacedOnlyByManagers` says what the exemption of raced pools leaves open: if cron never
  starts a command beside itself, what a process has chosen is still to be done
  when it starts on it (`ChosenStays`), unless a manager has deleted or stopped the pool.

Each is shown to hold initially and to be preserved by every action, with
lemmas for how a step moves a thread, a worker or a request (`EnrollStepMoves`,
`PayStepMoves`, `BecomeFacts`, `WorkerMoves`) used by all.

### Only model-checked

The liveness properties `PaidIsConfirmed`, `PaidIsDocumented`, `EnrolledIsInvoiced`,
`CallbackEnds` and `JobEnds` (`ENABLED` is beyond the prover). What `NothingForgotten`,
`AbandonedIsKilled` and `StuckIsKilled` state of single states is proved; that fair
threads, workers and processes then arrive is checked. Every safety property that a
passing run checks is proved.

## 5. What is not modelled

* Names, dates, titles, messages, `approved_on`, `paid_on`: no property reads
  them. `ChildUpdateView` changes only such columns.
* Other edits of the Django admin: it can also change a capacity, add or delete
  activities, enrollments and invoices, and edit any column. Only a fee,
  `is_active` and an enrollment's status are edited in the model, and deletion is
  modelled through the child, with the same cascade.
* Views that only read, templates, static files, Django's authentication.
* The middleware gate: Django sets `resolver_match` after the middlewares have
  run, so `accounts/middleware.py:72` is never true and the gate does nothing;
  `EnrollRequest` has the view's own check.
* The dry-run branch (`accounts/views_identity.py:288`): settings make the switch a
  boolean, line 285 looks it up among strings, so it is never taken. An unconfigured
  provider (line 232) sends the browser to a page that does not exist; the
  check stays at the provider, which the model has.
* The rewriting of a page that only takes POST (`_sanitize_resume_url`): `Pages` are
  pages after it. The backfill of profiles after a migration.
* `sync_enrollment`: no caller in the repository.
* The HTML log: nothing reads it back. Two threads that both find no file may lose a
  line (`monitoring/html_logger.py:41`).
* Settings: read once; the models hold for all their values.
* Demo data and scripts: not part of the running portal.

Of Lingo:

* Baskets and notifications are separate modules: which notification a basket step
  makes, and that a slow receiver delays the request, is left out.
* The lines of a basket are their price. Opening a line, adding items, closing one
  again after its reuse and deleting it, a basket whose total is
  negative (it becomes a credit) and credits for other payers are left out.
* Payments and refunds entered in the back office, cancellation of a payment, and
  the three-hour window of the poll. A transaction the poll gives up is one
  it never asks about, which the model allows.
* What a line or an invoice of a campaign holds; journal lines in error; promotion of
  a draft pool (`Pool.promote`, `populate_from_draft`), `assign_credits`, deletion of
  a campaign, `clear_draft_pools` and `clear_jobs`. A job inserted again by a stale
  save keeps its number. `PoolAddView.post` reads `job.status` although `generate()`
  returns nothing after a failed `init`: the request ends with an error, as it
  does in the model.
* The rest of Lingo: back-office pages, pricing rules, exports, agendas: forms and
  queries over single rows, arithmetic over JSON documents, layout.

Of the other snapshots, nothing: WCS interprets workflows that an administrator draws
and that are not in the repository, authentic is an identity provider; what the
portal sees of them are the answers in `Enrolling` and `Identity`. These snapshots
are nearly all of the repository's lines, so the modelled share of it is small
although the portal's own state is nearly all modelled.

## 6. Plan

Done: the portal, the identity check, Lingo's notifications, baskets, online payments
and campaign jobs, with their runs and theorems (sections 2 to 4). What would come
next, in order:

1. Promotion of a draft pool to a final one and the assignment of credits to it, on
   top of `LingoCampaign`.
2. Payments entered and cancelled in the back office, in `LingoEpayment`.
