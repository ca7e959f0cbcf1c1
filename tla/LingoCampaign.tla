--------------------------- MODULE LingoCampaign ---------------------------
(***************************************************************************)
(* How Lingo prepares the invoices of a campaign.  A manager adds a draft  *)
(* pool and a campaign job; cron starts processes that take jobs.  The     *)
(* campaign job splits the users into chunks, one pool job each, and adds  *)
(* a last pool job that makes the invoices when all the chunks are done.   *)
(* Nothing is locked: a process reads a row, works on its copy and saves   *)
(* the whole copy, which inserts the row again if it was deleted.          *)
(***************************************************************************)
EXTENDS Integers, FiniteSets

CONSTANTS MaxPools, MaxJobs,  \* bounds on the rows made
          MaxChunks,          \* POOL_JOBS_PER_CAMPAIGN
          MaxCampaigns,       \* CAMPAIGN_MAX_RUNNING_JOBS
          MaxRunning,         \* POOL_MAX_RUNNING_JOBS
          MaxMishaps,         \* bound on the processes killed and the pools stopped
          Managers,           \* requests of the managers
          CampaignCrons,      \* processes of run_campaign_jobs
          PoolCrons,          \* processes of run_pool_jobs
          None

ASSUME CampaignAssumption ==
    /\ MaxPools \in Nat /\ MaxJobs \in Nat /\ MaxChunks \in Nat
    /\ MaxCampaigns \in Nat /\ MaxRunning \in Nat /\ MaxMishaps \in Nat
    /\ None \notin Nat

VARIABLES pool,      \* the status of each draft pool
          campaign,  \* the status of the campaign job of each pool
          job,       \* the pool jobs, numbered by their creation
          lines,     \* how often the lines of a chunk were written
          invoiced,  \* how often they were put on an invoice
          manager, director, worker,  \* what each process is doing
          kills,
          users,     \* history: the chunks that have users
          stopped,   \* history: the pools a manager stopped
          raced      \* history: the pools of which two processes took one job, or
                     \* that were deleted or stopped under somebody's copy of them

rows == << pool, campaign, job, lines, invoiced >>
history == << users, stopped, raced >>
vars == << pool, campaign, job, lines, invoiced, manager, director, worker,
           kills, users, stopped, raced >>

Pools == 1..MaxPools
Jobs == 1..MaxJobs
Chunks == 1..MaxChunks
Last == 0     \* the chunk of the job that makes the invoices

Blocking == {"registered", "running"}
Absent == {"none", "deleted"}

NoJob == [pool |-> None, chunk |-> Last, status |-> "none"]
IdleManager == [pc |-> "idle", pool |-> None]
IdleDirector == [pc |-> "idle", pool |-> None, todo |-> {}, result |-> "completed"]
IdleWorker == [pc |-> "idle", job |-> None, seen |-> "none", todo |-> {}, result |-> "completed"]

Init ==
    /\ pool = [p \in Pools |-> "none"]
    /\ campaign = [p \in Pools |-> "none"]
    /\ job = [j \in Jobs |-> NoJob]
    /\ lines = [p \in Pools |-> [k \in Chunks |-> 0]]
    /\ invoiced = [p \in Pools |-> [k \in Chunks |-> 0]]
    /\ manager = [m \in Managers |-> IdleManager]
    /\ director = [d \in CampaignCrons |-> IdleDirector]
    /\ worker = [w \in PoolCrons |-> IdleWorker]
    /\ kills = 0
    /\ users = [p \in Pools |-> {}]
    /\ stopped = {} /\ raced = {}
-----------------------------------------------------------------------------
Exists(p) == pool[p] \notin Absent

\* What a page about the pools of the campaign asks for.
Quiet == \A p \in Pools : pool[p] \notin Blocking

SavePoolAs(p, status) == pool' = [pool EXCEPT ![p] = status]

JobsOf(p) == {j \in Jobs : job[j].pool = p /\ job[j].status \notin Absent}

ChunkJobs(p) == {j \in JobsOf(p) : job[j].chunk # Last}

AtWork(p) ==
    \/ \E d \in CampaignCrons : director[d].pool = p
    \/ \E w \in PoolCrons : worker[w].job # None /\ job[worker[w].job].pool = p

\* A process has loaded the pool and may still save it.
InHand(p) ==
    \/ \E d \in CampaignCrons : director[d].pool = p /\ director[d].pc \in {"run", "users"}
    \/ \E w \in PoolCrons :
        /\ worker[w].job # None /\ job[worker[w].job].pool = p
        /\ worker[w].pc \in {"build", "check", "read", "invoice", "save"} \/ worker[w].seen = "running"

NextJob(j) == job[j].status = "none" /\ \A i \in Jobs : i < j => job[i].status # "none"

MayGoWrong == kills + Cardinality(stopped) < MaxMishaps

AddJob(p, k) ==
    \E j \in Jobs :
        /\ NextJob(j)
        /\ job' = [job EXCEPT ![j] = [pool |-> p, chunk |-> k, status |-> "registered"]]
-----------------------------------------------------------------------------
(* A manager adds a pool, stops one, or deletes one.                       *)
CheckAdd(m) ==
    /\ manager[m].pc = "idle"
    /\ Quiet /\ \E p \in Pools : pool[p] = "none"
    /\ manager' = [manager EXCEPT ![m].pc = "add"]
    /\ UNCHANGED << rows, director, worker, kills, history >>

CreatePool(m) ==
    /\ manager[m].pc = "add"
    /\ \E p \in Pools :
        /\ pool[p] = "none" /\ \A q \in Pools : q < p => pool[q] # "none"
        /\ SavePoolAs(p, "registered")
        /\ manager' = [manager EXCEPT ![m] = [pc |-> "init", pool |-> p]]
    /\ UNCHANGED << campaign, job, lines, invoiced, director, worker, kills, history >>

\* The events are locked in the other system, which may fail.
InitPool(m) ==
    LET p == manager[m].pool
    IN  /\ manager[m].pc = "init"
        /\ \/ campaign' = [campaign EXCEPT ![p] = "registered"] /\ UNCHANGED pool
           \/ SavePoolAs(p, "failed") /\ UNCHANGED campaign
        /\ manager' = [manager EXCEPT ![m] = IdleManager]
        /\ UNCHANGED << job, lines, invoiced, director, worker, kills, history >>

\* What is stopped is a copy of the pool, and what it became meanwhile is lost.
CheckStop(m, p) ==
    /\ manager[m].pc = "idle" /\ MayGoWrong
    /\ pool[p] \in Blocking
    /\ manager' = [manager EXCEPT ![m] = [pc |-> "stop", pool |-> p]]
    /\ UNCHANGED << rows, director, worker, kills, history >>

StopPool(m) ==
    LET p == manager[m].pool
    IN  /\ manager[m].pc = "stop"
        /\ SavePoolAs(p, "failed")
        /\ stopped' = stopped \cup {p}
        /\ raced' = IF InHand(p) \/ pool[p] \in {"completed", "deleted"}
                    THEN raced \cup {p} ELSE raced
        /\ manager' = [manager EXCEPT ![m] = IdleManager]
        /\ UNCHANGED << campaign, job, lines, invoiced, director, worker, kills, users >>

CheckDelete(m, p) ==
    /\ manager[m].pc = "idle"
    /\ Quiet
    /\ Exists(p)
    /\ manager' = [manager EXCEPT ![m] = [pc |-> "delete", pool |-> p]]
    /\ UNCHANGED << rows, director, worker, kills, history >>

\* The jobs of the pool go with it; the campaign job stays.
DeletePool(m) ==
    LET p == manager[m].pool
    IN  /\ manager[m].pc = "delete"
        /\ SavePoolAs(p, "deleted")
        /\ job' = [j \in Jobs |-> IF j \in JobsOf(p)
                      THEN [job[j] EXCEPT !.status = "deleted"] ELSE job[j]]
        /\ lines' = [lines EXCEPT ![p] = [k \in Chunks |-> 0]]
        /\ invoiced' = [invoiced EXCEPT ![p] = [k \in Chunks |-> 0]]
        /\ raced' = IF AtWork(p) THEN raced \cup {p} ELSE raced
        /\ manager' = [manager EXCEPT ![m] = IdleManager]
        /\ UNCHANGED << campaign, director, worker, kills, users, stopped >>
-----------------------------------------------------------------------------
(* run_campaign_jobs and CampaignAsyncJob.generate.                        *)
Direct(d, state) == director' = [director EXCEPT ![d] = state]

CampaignCron(d) ==
    /\ director[d].pc = "idle"
    /\ Cardinality({p \in Pools : campaign[p] = "running"}) < MaxCampaigns
    /\ \E p \in Pools :
        /\ campaign[p] = "registered" /\ \A q \in Pools : q < p => campaign[q] # "registered"
        /\ Direct(d, [pc |-> "start", pool |-> p, todo |-> {}, result |-> "completed"])
    /\ UNCHANGED << rows, manager, worker, kills, history >>

StartCampaign(d) ==
    LET p == director[d].pool
    IN  /\ director[d].pc = "start"
        /\ campaign' = [campaign EXCEPT ![p] = "running"]
        /\ raced' = IF campaign[p] = "registered" THEN raced ELSE raced \cup {p}
        /\ Direct(d, [director[d] EXCEPT !.pc = "prepare"])
        /\ UNCHANGED << pool, job, lines, invoiced, manager, worker, kills, users, stopped >>

CheckDraft(d) ==
    /\ director[d].pc = "prepare"
    /\ Direct(d, IF pool[director[d].pool] = "registered"
                 THEN [director[d] EXCEPT !.pc = "run"]
                 ELSE [director[d] EXCEPT !.pc = "end", !.result = "failed"])
    /\ UNCHANGED << rows, manager, worker, kills, history >>

RunPool(d) ==
    /\ director[d].pc = "run"
    /\ SavePoolAs(director[d].pool, "running")
    /\ Direct(d, [director[d] EXCEPT !.pc = "users"])
    /\ UNCHANGED << campaign, job, lines, invoiced, manager, worker, kills, history >>

\* Mutant: the chunks are numbered from zero.
DealtFromZero(n) == 0..(n - 1)

Dealt(n) == 1..n

\* The users come from another system, which may fail; they are dealt out to
\* the chunks, so that only the last chunks may have none.
GetUsers(d) ==
    LET p == director[d].pool
    IN  /\ director[d].pc = "users"
        /\ \/ \E n \in 0..MaxChunks :
                /\ users' = [users EXCEPT ![p] = Dealt(n)]
                /\ Direct(d, [director[d] EXCEPT !.pc = "split", !.todo = Dealt(n)])
                /\ SavePoolAs(p, "running")
           \/ /\ Direct(d, [director[d] EXCEPT !.pc = "end", !.result = "failed"])
              /\ SavePoolAs(p, "failed")
              /\ UNCHANGED users
        /\ UNCHANGED << campaign, job, lines, invoiced, manager, worker, kills, stopped, raced >>

\* A job cannot be added for a pool that is gone.
Split(d) ==
    LET p == director[d].pool
        todo == director[d].todo
    IN  /\ director[d].pc = "split"
        /\ IF ~Exists(p)
           THEN /\ Direct(d, [director[d] EXCEPT !.pc = "end", !.todo = {}, !.result = "failed"])
                /\ UNCHANGED job
           ELSE IF todo = {}
           THEN /\ AddJob(p, Last)
                /\ Direct(d, [director[d] EXCEPT !.pc = "end"])
           ELSE \E k \in todo :
                /\ \A i \in todo : k =< i
                /\ AddJob(p, k)
                /\ Direct(d, [director[d] EXCEPT !.todo = @ \ {k}])
        /\ UNCHANGED << pool, campaign, lines, invoiced, manager, worker, kills, history >>

EndCampaign(d) ==
    /\ director[d].pc = "end"
    /\ campaign' = [campaign EXCEPT ![director[d].pool] = director[d].result]
    /\ Direct(d, IdleDirector)
    /\ UNCHANGED << pool, job, lines, invoiced, manager, worker, kills, history >>
-----------------------------------------------------------------------------
(* run_pool_jobs, and what the jobs have in common.                        *)
Become(w, state) == worker' = [worker EXCEPT ![w] = state]

PoolOf(w) == job[worker[w].job].pool

Failed(j) == job[j].status = "failed"

\* Mutant: the last job does not see that a chunk has failed.
ReadyWhenAllDone(j) == \A i \in ChunkJobs(job[j].pool) : job[i].status = "completed"

\* is_ready: all the chunks are done, or one has failed.
Ready(j) ==
    \/ \E i \in ChunkJobs(job[j].pool) : Failed(i)
    \/ \A i \in ChunkJobs(job[j].pool) : job[i].status = "completed"

Due(j) == job[j].status = "registered" \/ (job[j].status = "waiting" /\ Ready(j))

\* is_ready loads the pool of a last job that waits, and run() goes on with that copy.
Seen(j) ==
    IF job[j].chunk = Last /\ job[j].status = "waiting" THEN pool[job[j].pool] ELSE "none"

PoolCron(w) ==
    /\ worker[w].pc = "idle"
    /\ Cardinality({j \in Jobs : job[j].status = "running"}) < MaxRunning
    /\ \E j \in Jobs :
        /\ Due(j) /\ \A i \in Jobs : i < j => ~Due(i)
        /\ Become(w, [pc |-> "start", job |-> j, seen |-> Seen(j), todo |-> {}, result |-> "completed"])
    /\ UNCHANGED << rows, manager, director, kills, history >>

\* Saving a job whose pool is gone is an error that ends the process.
SaveJob(w, status) ==
    LET j == worker[w].job
    IN  job' = IF Exists(PoolOf(w)) THEN [job EXCEPT ![j].status = status] ELSE job

StartJob(w) ==
    /\ worker[w].pc = "start"
    /\ SaveJob(w, "running")
    /\ raced' = IF job[worker[w].job].status \in {"registered", "waiting"}
                THEN raced ELSE raced \cup {PoolOf(w)}
    /\ Become(w, IF Exists(PoolOf(w)) THEN [worker[w] EXCEPT !.pc = "load"] ELSE IdleWorker)
    /\ UNCHANGED << pool, campaign, lines, invoiced, manager, director, kills, users, stopped >>

\* Mutant: a job begins on any pool.
LoadAnyPool(w) ==
    /\ worker[w].pc = "load"
    /\ Become(w, [worker[w] EXCEPT !.seen = "none",
                     !.pc = IF job[worker[w].job].chunk = Last THEN "check" ELSE "build"])
    /\ UNCHANGED << rows, manager, director, kills, history >>

LoadPool(w) ==
    LET status == IF worker[w].seen = "none" THEN pool[PoolOf(w)] ELSE worker[w].seen
        after == [worker[w] EXCEPT !.seen = "none"]
    IN  /\ worker[w].pc = "load"
        /\ Become(w, IF status # "running"
                     THEN [after EXCEPT !.pc = "end", !.result = "failed"]
                     ELSE IF job[worker[w].job].chunk = Last
                     THEN [after EXCEPT !.pc = "check"]
                     ELSE [after EXCEPT !.pc = "build"])
        /\ UNCHANGED << rows, manager, director, kills, history >>

\* Mutant: an error leaves run() without saving the job.
FailAndLeave(w) ==
    /\ worker[w].pc \in {"build", "read", "invoice"}
    /\ Become(w, IdleWorker)
    /\ UNCHANGED << rows, manager, director, kills, history >>

\* Any error on the way ends in a failed pool.
Fail(w) ==
    /\ worker[w].pc \in {"build", "read", "invoice"}
    /\ Become(w, [worker[w] EXCEPT !.pc = "save", !.todo = {}, !.result = "failed"])
    /\ UNCHANGED << rows, manager, director, kills, history >>

EndJob(w) ==
    /\ worker[w].pc = "end"
    /\ SaveJob(w, worker[w].result)
    /\ Become(w, IdleWorker)
    /\ UNCHANGED << pool, campaign, lines, invoiced, manager, director, kills, history >>
-----------------------------------------------------------------------------
(* PoolAsyncJob.generate_invoices: the lines of a chunk, unless the pool   *)
(* is no longer running, and the pool as it was loaded.                    *)
\* Mutant: a chunk is reported as done before the pool is saved.
BuildAndReport(w) ==
    /\ worker[w].pc = "build"
    /\ pool[PoolOf(w)] = "running"
    /\ lines' = [lines EXCEPT ![PoolOf(w)][job[worker[w].job].chunk] = @ + 1]
    /\ SaveJob(w, "completed")
    /\ Become(w, [worker[w] EXCEPT !.pc = "save"])
    /\ UNCHANGED << pool, campaign, invoiced, manager, director, kills, history >>

BuildLines(w) ==
    LET p == PoolOf(w)
    IN  /\ worker[w].pc = "build"
        /\ lines' = IF pool[p] = "running"
                    THEN [lines EXCEPT ![p][job[worker[w].job].chunk] = @ + 1]
                    ELSE lines
        /\ Become(w, [worker[w] EXCEPT !.pc = "save"])
        /\ UNCHANGED << pool, campaign, job, invoiced, manager, director, kills, history >>

PoolResult(w) ==
    IF worker[w].result = "failed" THEN "failed"
    ELSE IF job[worker[w].job].chunk = Last THEN "completed" ELSE "running"

SavePool(w) ==
    /\ worker[w].pc = "save"
    /\ SavePoolAs(PoolOf(w), PoolResult(w))
    /\ Become(w, [worker[w] EXCEPT !.pc = "end"])
    /\ UNCHANGED << campaign, job, lines, invoiced, manager, director, kills, history >>
-----------------------------------------------------------------------------
(* PoolAsyncJob.finalize_invoices: the chunks are looked at in any order,  *)
(* and the first that has failed or is not done decides.                   *)
\* Mutant: only the chunks nobody has taken are waited for.
NotStarted(j) == job[j].status = "registered"

Unfinished(j) == job[j].status \notin {"failed", "completed"}

CheckJobs(w) ==
    LET chunks == ChunkJobs(PoolOf(w))
    IN  /\ worker[w].pc = "check"
        /\ \/ /\ \E j \in chunks : Failed(j)
              /\ Become(w, [worker[w] EXCEPT !.pc = "end", !.result = "failed"])
           \/ /\ \E j \in chunks : Unfinished(j)
              /\ Become(w, [worker[w] EXCEPT !.pc = "end", !.result = "waiting"])
           \/ /\ \A j \in chunks : ~Failed(j) /\ ~Unfinished(j)
              /\ Become(w, [worker[w] EXCEPT !.pc = "read"])
        /\ UNCHANGED << rows, manager, director, kills, history >>

\* The count of what is to be done is saved on the job, which must exist.
ReadLines(w) ==
    /\ worker[w].pc = "read"
    /\ job[worker[w].job].status # "deleted"
    /\ Become(w, [worker[w] EXCEPT !.pc = "invoice",
                     !.todo = {k \in Chunks : lines[PoolOf(w)][k] > 0}])
    /\ UNCHANGED << rows, manager, director, kills, history >>

MakeInvoice(w, k) ==
    /\ worker[w].pc = "invoice" /\ k \in worker[w].todo
    /\ pool[PoolOf(w)] = "running"
    /\ invoiced' = [invoiced EXCEPT ![PoolOf(w)][k] = @ + 1]
    /\ Become(w, [worker[w] EXCEPT !.todo = @ \ {k}])
    /\ UNCHANGED << pool, campaign, job, lines, manager, director, kills, history >>

\* All are made, or the pool is no longer running.
StopInvoices(w) ==
    /\ worker[w].pc = "invoice"
    /\ worker[w].todo = {} \/ pool[PoolOf(w)] # "running"
    /\ Become(w, [worker[w] EXCEPT !.pc = "save", !.todo = {}])
    /\ UNCHANGED << rows, manager, director, kills, history >>
-----------------------------------------------------------------------------
(* A process is killed: a request by uWSGI, a command with the server.     *)
Kill ==
    /\ MayGoWrong
    /\ kills' = kills + 1
    /\ \/ /\ \E m \in Managers : /\ manager[m].pc # "idle"
                                 /\ manager' = [manager EXCEPT ![m] = IdleManager]
          /\ UNCHANGED << director, worker >>
       \/ /\ \E d \in CampaignCrons : director[d].pc # "idle" /\ Direct(d, IdleDirector)
          /\ UNCHANGED << manager, worker >>
       \/ /\ \E w \in PoolCrons : worker[w].pc # "idle" /\ Become(w, IdleWorker)
          /\ UNCHANGED << manager, director >>
    /\ UNCHANGED << rows, history >>

ManagerNext(m) ==
    \/ CheckAdd(m) \/ CreatePool(m) \/ InitPool(m) \/ StopPool(m) \/ DeletePool(m)
    \/ \E p \in Pools : CheckStop(m, p) \/ CheckDelete(m, p)

DirectorStep(d) ==
    StartCampaign(d) \/ CheckDraft(d) \/ RunPool(d) \/ GetUsers(d) \/ Split(d) \/ EndCampaign(d)

WorkerStep(w) ==
    \/ StartJob(w) \/ LoadPool(w) \/ Fail(w) \/ EndJob(w)
    \/ BuildLines(w) \/ SavePool(w)
    \/ CheckJobs(w) \/ ReadLines(w) \/ StopInvoices(w)
    \/ \E k \in Chunks : MakeInvoice(w, k)

Next ==
    \/ \E m \in Managers : ManagerNext(m)
    \/ \E d \in CampaignCrons : CampaignCron(d) \/ DirectorStep(d)
    \/ \E w \in PoolCrons : PoolCron(w) \/ WorkerStep(w)
    \/ Kill

\* Cron starts the commands every minute, and a command runs to its end.
Fairness ==
    /\ \A d \in CampaignCrons : WF_vars(CampaignCron(d) \/ DirectorStep(d))
    /\ \A w \in PoolCrons : WF_vars(PoolCron(w) \/ WorkerStep(w))

Spec == Init /\ [][Next]_vars /\ Fairness
-----------------------------------------------------------------------------
JobStatuses == {"none", "registered", "waiting", "running", "failed", "completed", "deleted"}

CampaignTypeOK ==
    /\ pool \in [Pools -> {"none", "registered", "running", "failed", "completed", "deleted"}]
    /\ campaign \in [Pools -> {"none", "registered", "running", "failed", "completed"}]
    /\ job \in [Jobs -> [pool : Pools \cup {None}, chunk : Chunks \cup {Last},
                         status : JobStatuses]]
    /\ lines \in [Pools -> [Chunks -> Nat]]
    /\ invoiced \in [Pools -> [Chunks -> Nat]]
    /\ manager \in [Managers -> [pc : {"idle", "add", "init", "stop", "delete"},
                                 pool : Pools \cup {None}]]
    /\ director \in [CampaignCrons ->
           [pc : {"idle", "start", "prepare", "run", "users", "split", "end"},
            pool : Pools \cup {None}, todo : SUBSET Chunks,
            result : {"completed", "failed"}]]
    /\ worker \in [PoolCrons ->
           [pc : {"idle", "start", "load", "build", "check", "read", "invoice", "save", "end"},
            job : Jobs \cup {None}, todo : SUBSET Chunks,
            seen : {"none", "registered", "running", "failed", "completed", "deleted"},
            result : {"completed", "failed", "waiting"}]]
    /\ kills \in Nat
    /\ users \in [Pools -> SUBSET Chunks]
    /\ stopped \subseteq Pools /\ raced \subseteq Pools

\* A draft pool that is shown as completed, and may be promoted to invoices that
\* are sent, has the lines of every user once and on one invoice, although
\* processes fail, are killed, and save stale copies of the pool.  It relies on
\* each job being taken by one process, which nothing ensures, and on no manager
\* deleting or stopping the pool while a process has it in hand: a chunk cut short
\* by the stop counts as done (invoicing/utils.py:1330, models/campaign.py:275).
CompletedIsWhole ==
    \A p \in Pools :
        pool[p] = "completed" /\ p \notin raced =>
            \A k \in users[p] : lines[p][k] = 1 /\ invoiced[p][k] = 1

\* No stale copy reopens a completed pool: a job is marked as completed after its
\* process has saved the pool (invoicing/models/campaign.py:644-662).  The copy of a
\* manager who stops it does, and puts the pool among the raced ones.
CompletedIsFinal ==
    [][\A p \in Pools :
        pool[p] = "completed" /\ p \notin raced' => pool'[p] \in {"completed", "deleted"}]_vars

\* A stop that comes while no process has the pool in hand is not undone: every
\* process looks at the pool before it begins, none reopens it, and no chunk or
\* last job that waits completes it (views/pool.py:91-94, models/campaign.py:690, 784, 793).
StopHolds == \A p \in stopped \ raced : pool[p] \in {"failed", "deleted"}

\* What becomes of the exemption when cron does not overlap itself: a pool is only
\* raced by a manager who deletes or stops it under somebody's copy
\* (management/commands/run_pool_jobs.py:27-38, run_campaign_jobs.py:27-33).
RacedByManagers ==
    [][raced' # raced => \E m \in Managers : StopPool(m) \/ DeletePool(m)]_vars

Dead(j) == job[j].status = "running" /\ \A w \in PoolCrons : worker[w].job # j

Forsaken(p) == campaign[p] = "running" /\ \A d \in CampaignCrons : director[d].pool # p

\* A job or a campaign job that is shown as running with no process on it is the
\* work of a process that was killed, one row at most for each, whatever fails,
\* whatever is deleted under a process and even if two processes took one job
\* (invoicing/models/campaign.py:638-662).
StuckIsKilled ==
    Cardinality({j \in Jobs : Dead(j)}) + Cardinality({p \in Pools : Forsaken(p)}) =< kills

\* The job has ended or went with its pool, or a process was killed: the row it
\* left keeps the last job waiting, and counts for ever among the running.
Ended(j) ==
    \/ job[j].status \in {"completed", "failed", "deleted"}
    \/ Dead(j)
    \/ job[j].chunk = Last /\ \E i \in ChunkJobs(job[j].pool) : Dead(i)
    \/ Cardinality({i \in Jobs : Dead(i)}) >= MaxRunning

\* Whatever is stopped, deleted or fails, all the pool jobs of a pool end, unless a
\* process was killed (invoicing/models/campaign.py:767-779, 796-803).
JobEnds ==
    \A p \in Pools :
        (\E j \in JobsOf(p) : job[j].status \in {"registered", "waiting", "running"})
            ~> \A j \in Jobs : job[j].pool = p => Ended(j)
-----------------------------------------------------------------------------
(***************************************************************************)
(* The strengthening that the proofs use: for each pool that is neither    *)
(* raced nor stopped what its rows and processes know of each other, for   *)
(* each that is stopped and not raced that it is out of all hands.         *)
(***************************************************************************)
Working(d) == director[d].pc \notin {"idle", "start"}
At(w, p) == worker[w].job # None /\ PoolOf(w) = p
Active(w, j) == worker[w].job = j /\ worker[w].pc \notin {"idle", "start"}

\* Which pool or job a process is about.
Links ==
    /\ \A d \in CampaignCrons : director[d].pc = "idle" <=> director[d].pool = None
    /\ \A j \in Jobs : job[j].status = "none" <=> job[j].pool = None
    /\ \A w \in PoolCrons : worker[w].pc = "idle" <=> worker[w].job = None
    /\ \A w \in PoolCrons : worker[w].job # None => job[worker[w].job].pool # None

\* A pool that is deleted takes its jobs with it, those at work too.
RunningExists == \A j \in Jobs : job[j].status = "running" => Exists(job[j].pool)

NoJobs(p) == \A j \in Jobs : job[j].pool # p

ManagersOK ==
    /\ \A p \in Pools :
        /\ pool[p] = "none" => campaign[p] = "none"
        /\ campaign[p] = "none" => NoJobs(p) /\ \A d \in CampaignCrons : director[d].pool # p
    /\ \A m \in Managers : manager[m].pc \in {"init", "stop", "delete"} => manager[m].pool # None
    /\ \A m \in Managers : manager[m].pc = "init" =>
           /\ pool[manager[m].pool] = "registered" \/ manager[m].pool \in stopped
           /\ pool[manager[m].pool] # "none" /\ campaign[manager[m].pool] = "none"
           /\ \A n \in Managers : manager[n] = manager[m] => n = m
    /\ \A m \in Managers : manager[m].pc = "delete" =>
           pool[manager[m].pool] \notin {"none", "registered"}
    /\ \A m \in Managers : manager[m].pc = "stop" => pool[manager[m].pool] # "none"

\* Where a worker can be with its job.
PlacesOK ==
    \A w \in PoolCrons : worker[w].job # None =>
        /\ worker[w].pc = "build" => job[worker[w].job].chunk # Last
        /\ worker[w].pc \in {"check", "read", "invoice"} => job[worker[w].job].chunk = Last
        /\ worker[w].pc \notin {"save", "end"} => worker[w].result = "completed"
        /\ worker[w].seen # "none" =>
            worker[w].pc \in {"start", "load"} /\ job[worker[w].job].chunk = Last
        /\ worker[w].result = "waiting" =>
            worker[w].pc = "end" /\ job[worker[w].job].chunk = Last

\* Until the campaign job runs, nothing is there.
Fresh(p) ==
    /\ NoJobs(p)
    /\ users[p] = {}
    /\ \A k \in Chunks : lines[p][k] = 0 /\ invoiced[p][k] = 0

\* The chunks that are not still to do have their job.
SplitSoFar(p, todo) ==
    /\ todo \subseteq users[p]
    /\ \A j \in Jobs : job[j].pool = p => job[j].chunk \in users[p] \ todo
    /\ \A k \in users[p] \ todo : \E j \in Jobs : job[j].pool = p /\ job[j].chunk = k

DirectorsOK(p) ==
    /\ pool[p] \in {"none", "registered"} => Fresh(p)
    /\ campaign[p] = "none" => Fresh(p)
    /\ campaign[p] = "registered" =>
        pool[p] = "registered" /\ \A d \in CampaignCrons : director[d].pool = p => ~Working(d)
    /\ \A d \in CampaignCrons : director[d].pool = p =>
        /\ Exists(p)
        /\ Working(d) =>
            /\ campaign[p] = "running"
            /\ \A e \in CampaignCrons : director[e].pool = p /\ Working(e) => e = d
        /\ director[d].pc = "run" => pool[p] = "registered"
        /\ director[d].pc = "users" => pool[p] = "running" /\ Fresh(p)
        /\ director[d].pc = "split" => pool[p] # "registered" /\ SplitSoFar(p, director[d].todo)

JobsOK(p) ==
    \A j \in Jobs : job[j].pool = p =>
        /\ job[j].status = "deleted" <=> pool[p] = "deleted"
        /\ job[j].chunk # Last => job[j].chunk \in users[p]
        /\ job[j].chunk = Last =>
            /\ \A k \in users[p] : \E i \in Jobs : job[i].pool = p /\ job[i].chunk = k
            /\ \A d \in CampaignCrons :
                director[d].pool = p /\ Working(d) => director[d].pc = "end"
        /\ \A i \in Jobs : job[i].pool = p /\ job[i].chunk = job[j].chunk => i = j

WorkersOK(p) ==
    \A w \in PoolCrons : At(w, p) =>
        /\ Exists(p)
        /\ worker[w].pc # "start" =>
            /\ job[worker[w].job].status = "running"
            /\ \A v \in PoolCrons : Active(v, worker[w].job) => v = w

\* A chunk will never be done.
Broken(p) ==
    \E j \in Jobs :
        /\ job[j].pool = p /\ job[j].chunk # Last
        /\ \/ job[j].status = "failed"
           \/ /\ job[j].status = "running"
              /\ \A w \in PoolCrons : Active(w, j) => worker[w].result = "failed"

AllDone(p) ==
    \A j \in Jobs : job[j].pool = p /\ job[j].chunk # Last => job[j].status = "completed"

\* The last job will change nothing any more.
Over(p) ==
    \E j \in Jobs :
        /\ job[j].pool = p /\ job[j].chunk = Last
        /\ \/ job[j].status \in {"failed", "completed"}
           \/ /\ job[j].status = "running"
              /\ \A w \in PoolCrons :
                    Active(w, j) => worker[w].pc = "end" /\ worker[w].result # "waiting"

\* The last job has begun to make invoices.
Late(p) ==
    \E j \in Jobs :
        /\ job[j].pool = p /\ job[j].chunk = Last
        /\ \/ job[j].status \in {"failed", "completed"}
           \/ /\ job[j].status = "running"
              /\ \A w \in PoolCrons :
                    Active(w, j) => /\ worker[w].pc \in {"invoice", "save", "end"}
                                    /\ worker[w].result # "waiting"

Whole(p) == \A k \in users[p] : lines[p][k] = 1
Billed(p) == \A k \in users[p] : invoiced[p][k] = 1

PoolOK(p) ==
    /\ pool[p] = "failed" =>
        \/ Broken(p)
        \/ AllDone(p) /\ Over(p)
        \/ /\ NoJobs(p)
           /\ \A d \in CampaignCrons :
                director[d].pool = p => director[d].pc \notin {"run", "users", "split"}
    /\ pool[p] = "completed" => AllDone(p) /\ Over(p) /\ Whole(p) /\ Billed(p)

LinesOK(p) ==
    Exists(p) =>
        /\ \A k \in Chunks :
            /\ (\A j \in Jobs : job[j].pool = p => job[j].chunk # k) => lines[p][k] = 0
            /\ invoiced[p][k] # 0 => Late(p)
        /\ \A j \in Jobs : job[j].pool = p /\ job[j].chunk # Last =>
            /\ job[j].status # "waiting"
            /\ job[j].status = "registered" => lines[p][job[j].chunk] = 0
            /\ job[j].status = "completed" => lines[p][job[j].chunk] = 1 \/ Broken(p)
            /\ \A w \in PoolCrons : Active(w, j) =>
                IF worker[w].pc \in {"load", "build"} THEN lines[p][job[j].chunk] = 0
                ELSE worker[w].result = "completed" => lines[p][job[j].chunk] = 1 \/ Broken(p)

LastOK(p) ==
    \A w \in PoolCrons :
        At(w, p) /\ job[worker[w].job].chunk = Last /\ worker[w].pc \in {"read", "invoice", "save"}
        => /\ AllDone(p)
           /\ worker[w].result = "completed" =>
                /\ pool[p] = "running" /\ Whole(p)
                /\ worker[w].pc = "invoice" => \A k \in users[p] :
                    IF k \in worker[w].todo THEN invoiced[p][k] = 0 ELSE invoiced[p][k] = 1
                /\ worker[w].pc = "save" => Billed(p)

CampaignOK(p) ==
    DirectorsOK(p) /\ JobsOK(p) /\ WorkersOK(p) /\ PoolOK(p) /\ LinesOK(p) /\ LastOK(p)

HaltedOK(p) == pool[p] \in {"failed", "deleted"} /\ ~InHand(p)

CampaignInv ==
    /\ CampaignTypeOK /\ Links /\ ManagersOK /\ PlacesOK
    /\ \A p \in Pools \ (raced \cup stopped) : CampaignOK(p)
    /\ \A p \in stopped \ raced : HaltedOK(p)
=============================================================================
