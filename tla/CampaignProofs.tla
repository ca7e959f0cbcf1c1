--------------------------- MODULE CampaignProofs ---------------------------
(***************************************************************************)
(* For any numbers of pools, chunks, jobs and processes: the types of the  *)
(* campaign jobs, and their safety properties.                             *)
(***************************************************************************)
EXTENDS LingoCampaign, FiniteSetTheorems, TLAPS

LEMMA Names == None \notin Pools /\ None \notin Jobs /\ Last \notin Chunks
BY CampaignAssumption DEF Pools, Jobs, Chunks, Last

PoolStatuses == {"none", "registered", "running", "failed", "completed", "deleted"}
CampaignStatuses == {"none", "registered", "running", "failed", "completed"}
Managing == [pc : {"idle", "add", "init", "stop", "delete"}, pool : Pools \cup {None}]
Directing == [pc : {"idle", "start", "prepare", "run", "users", "split", "end"},
              pool : Pools \cup {None}, todo : SUBSET Chunks, result : {"completed", "failed"}]
Labour == [pc : {"idle", "start", "load", "build", "check", "read", "invoice", "save", "end"},
           job : Jobs \cup {None}, seen : PoolStatuses, todo : SUBSET Chunks,
           result : {"completed", "failed", "waiting"}]

JobRows == [pool : Pools \cup {None}, chunk : Chunks \cup {Last}, status : JobStatuses]

Base == CampaignTypeOK /\ Links /\ ManagersOK /\ PlacesOK

LEMMA DealtChunks == \A n \in 0..MaxChunks : Dealt(n) \subseteq Chunks
BY CampaignAssumption DEF Dealt, Chunks
-----------------------------------------------------------------------------
(* Types.                                                                  *)
Typed ==
    /\ pool \in [Pools -> PoolStatuses] /\ campaign \in [Pools -> CampaignStatuses]
    /\ job \in [Jobs -> JobRows]
    /\ lines \in [Pools -> [Chunks -> Nat]] /\ invoiced \in [Pools -> [Chunks -> Nat]]
    /\ manager \in [Managers -> Managing]
    /\ director \in [CampaignCrons -> Directing]
    /\ worker \in [PoolCrons -> Labour]
    /\ kills \in Nat /\ users \in [Pools -> SUBSET Chunks]
    /\ stopped \subseteq Pools /\ raced \subseteq Pools

LEMMA TypedIsType == CampaignTypeOK <=> Typed
BY DEF CampaignTypeOK, Typed, PoolStatuses, CampaignStatuses, JobRows, Managing, Directing, Labour

LEMMA TypedIsTypeNext == CampaignTypeOK' <=> Typed'
BY DEF CampaignTypeOK, Typed, PoolStatuses, CampaignStatuses, JobRows, Managing, Directing, Labour

LEMMA DirectTypes ==
  ASSUME Typed, NEW d \in CampaignCrons, NEW q \in Directing, Direct(d, q)
  PROVE  director' \in [CampaignCrons -> Directing]
BY DEF Typed, Direct

LEMMA BecomeTypes ==
  ASSUME Typed, NEW w \in PoolCrons, NEW q \in Labour, Become(w, q)
  PROVE  worker' \in [PoolCrons -> Labour]
BY DEF Typed, Become

LEMMA InitTypes == Init => Typed
BY CampaignAssumption, Names
DEF Init, Typed, NoJob, IdleManager, IdleDirector, IdleWorker, JobStatuses,
    PoolStatuses, CampaignStatuses, JobRows, Managing, Directing, Labour

LEMMA ManagerTypes ==
  ASSUME Typed, ManagersOK, NEW m \in Managers, ManagerNext(m)
  PROVE  Typed'
<1>0. manager[m] \in Managing
  BY DEF Typed, Managing
<1>1. CASE CheckAdd(m)
  BY <1>0, <1>1 DEF CheckAdd, Typed, Managing, rows, history
<1>2. CASE CreatePool(m)
  BY <1>0, <1>2 DEF CreatePool, SavePoolAs, Typed, Managing, PoolStatuses, history
<1>3. CASE InitPool(m)
  BY <1>0, <1>3 
  DEF InitPool, SavePoolAs, Typed, IdleManager, Managing, PoolStatuses, CampaignStatuses, history
<1>4. ASSUME NEW p \in Pools, CheckDelete(m, p) PROVE Typed'
  BY <1>0, <1>4 DEF CheckDelete, Typed, Managing, rows, history
<1>6. ASSUME NEW p \in Pools, CheckStop(m, p) PROVE Typed'
  BY <1>0, <1>6 DEF CheckStop, Typed, Managing, rows, history
<1>7. CASE StopPool(m)
  <2>1. manager[m].pool \in Pools
    BY <1>0, <1>7 DEF StopPool, ManagersOK, Managing
  <2>2. /\ pool' \in [Pools -> PoolStatuses]
        /\ manager' \in [Managers -> Managing]
    BY <1>0, <1>7 DEF StopPool, SavePoolAs, Typed, IdleManager, Managing, PoolStatuses
  <2>3. stopped' \subseteq Pools /\ raced' \subseteq Pools
    BY <1>7, <2>1 DEF StopPool, Typed
  <2> QED
    BY <1>7, <2>2, <2>3 DEF StopPool, Typed
<1>5. CASE DeletePool(m)
  <2>1. /\ pool' \in [Pools -> PoolStatuses]
        /\ manager' \in [Managers -> Managing]
    BY <1>0, <1>5 DEF DeletePool, SavePoolAs, Typed, IdleManager, Managing, PoolStatuses
  <2>4. /\ lines' \in [Pools -> [Chunks -> Nat]]
        /\ invoiced' \in [Pools -> [Chunks -> Nat]]
    BY <1>5 DEF DeletePool, Typed
  <2>2. job' \in [Jobs -> JobRows]
    <3>1. \A j \in Jobs : [job[j] EXCEPT !.status = "deleted"] \in JobRows
      BY DEF Typed, JobRows, JobStatuses
    <3> QED
      BY <1>5, <3>1 DEF Typed, DeletePool
  <2>3. raced' \subseteq Pools
    <3>1. AtWork(manager[m].pool) => manager[m].pool \in Pools
      <4>1. ASSUME NEW d \in CampaignCrons, director[d].pool = manager[m].pool
            PROVE  manager[m].pool \in Pools
        BY <4>1, <1>0, <1>5 DEF Typed, DeletePool, ManagersOK, Managing
      <4>2. ASSUME NEW w \in PoolCrons, worker[w].job # None,
                   job[worker[w].job].pool = manager[m].pool
            PROVE  manager[m].pool \in Pools
        BY <4>2, <1>0, <1>5 DEF Typed, DeletePool, ManagersOK, Managing
      <4> QED
        BY <4>1, <4>2 DEF AtWork
    <3> QED
      BY <1>5, <3>1 DEF DeletePool, Typed
  <2> QED
    BY <1>5, <2>1, <2>2, <2>3, <2>4 DEF DeletePool, Typed
<1> QED
  BY <1>1, <1>2, <1>3, <1>4, <1>5, <1>6, <1>7 DEF ManagerNext

LEMMA DirectorTypes ==
  ASSUME Typed, Links, NEW d \in CampaignCrons, CampaignCron(d) \/ DirectorStep(d)
  PROVE  Typed'
<1>0. director[d] \in Directing
  BY  DEF Typed
<1>1. CASE CampaignCron(d)
  <2>1. PICK p \in Pools : Direct(d, [pc |-> "start", pool |-> p, todo |-> {}, result |-> "completed"])
    BY <1>1 DEF CampaignCron
  <2>2. [pc |-> "start", pool |-> p, todo |-> {}, result |-> "completed"] \in Directing
    BY DEF IdleDirector, Directing
  <2>3. director' \in [CampaignCrons -> Directing]
    BY <2>1, <2>2, DirectTypes
  <2> QED
    BY <1>1, <2>3 DEF Typed, CampaignCron, rows, history
<1>2. CASE StartCampaign(d)
  <2>1. [director[d] EXCEPT !.pc = "prepare"] \in Directing
    BY <1>0 DEF Directing
  <2>2. director' \in [CampaignCrons -> Directing]
    BY <1>2, <2>1, DirectTypes DEF StartCampaign
  <2>3. director[d].pool \in Pools
    BY <1>0, <1>2 DEF StartCampaign, Links, Directing
  <2> QED
    BY <1>2, <2>2, <2>3 DEF Typed, StartCampaign, CampaignStatuses
<1>3. CASE CheckDraft(d)
  <2>1. /\ [director[d] EXCEPT !.pc = "run"] \in Directing
        /\ [director[d] EXCEPT !.pc = "end", !.result = "failed"] \in Directing
    BY <1>0 DEF Directing
  <2>2. director' \in [CampaignCrons -> Directing]
    BY <1>3, <2>1, DirectTypes DEF CheckDraft
  <2> QED
    BY <1>3, <2>2 DEF Typed, CheckDraft, rows, history
<1>4. CASE RunPool(d)
  <2>1. [director[d] EXCEPT !.pc = "users"] \in Directing
    BY <1>0 DEF Directing
  <2>2. director' \in [CampaignCrons -> Directing]
    BY <1>4, <2>1, DirectTypes DEF RunPool
  <2> QED
    BY <1>4, <2>2 DEF Typed, RunPool, SavePoolAs, PoolStatuses, history
<1>5. CASE GetUsers(d)
  <2>1. /\ [director[d] EXCEPT !.pc = "end", !.result = "failed"] \in Directing
        /\ \A n \in 0..MaxChunks :
              [director[d] EXCEPT !.pc = "split", !.todo = Dealt(n)] \in Directing
    BY <1>0, DealtChunks DEF Directing
  <2>2. director' \in [CampaignCrons -> Directing]
    BY <1>5, <2>1, DirectTypes DEF GetUsers
  <2>3. /\ pool' \in [Pools -> PoolStatuses]
        /\ users' \in [Pools -> SUBSET Chunks]
    BY <1>5, DealtChunks, ZenonT(60) DEF Typed, GetUsers, SavePoolAs, PoolStatuses
  <2> QED
    BY <1>5, <2>2, <2>3 DEF Typed, GetUsers
<1>6. CASE Split(d)
  <2>1. /\ [director[d] EXCEPT !.pc = "end", !.todo = {}, !.result = "failed"] \in Directing
        /\ [director[d] EXCEPT !.pc = "end"] \in Directing
        /\ \A k \in Chunks : [director[d] EXCEPT !.todo = @ \ {k}] \in Directing
    BY <1>0 DEF Directing
  <2>2. director[d].todo \subseteq Chunks /\ director[d].pool \in Pools
    BY <1>0, <1>6 DEF Split, Links, Directing
  <2>3. director' \in [CampaignCrons -> Directing]
    BY <1>6, <2>1, <2>2, DirectTypes DEF Split
  <2>4. job' \in [Jobs -> JobRows]
    <3>1. CASE job' = job
      BY <3>1 DEF Typed
    <3>2. ASSUME NEW k \in Chunks \cup {Last}, AddJob(director[d].pool, k)
          PROVE  job' \in [Jobs -> JobRows]
      BY <2>2, <3>2 DEF Typed, AddJob, JobRows, JobStatuses
    <3> QED
      BY <1>6, <2>2, <3>1, <3>2 DEF Split
  <2> QED
    BY <1>6, <2>3, <2>4 DEF Typed, Split, history
<1>7. CASE EndCampaign(d)
  <2>1. director' \in [CampaignCrons -> Directing]
    BY <1>7, DirectTypes DEF EndCampaign, IdleDirector, Directing
  <2>2. director[d].result \in CampaignStatuses
    BY <1>0 DEF Directing, CampaignStatuses
  <2> QED
    BY <1>7, <2>1, <2>2 DEF Typed, EndCampaign, history
<1> QED
  BY <1>1, <1>2, <1>3, <1>4, <1>5, <1>6, <1>7 DEF DirectorStep

LEMMA SaveJobTypes ==
  ASSUME Typed, NEW w \in PoolCrons, NEW s \in JobStatuses, SaveJob(w, s)
  PROVE  job' \in [Jobs -> JobRows]
<1>1. CASE job' = job
  BY <1>1 DEF Typed
<1>2. CASE job' = [job EXCEPT ![worker[w].job].status = s]
  BY <1>2 DEF Typed, JobRows
<1> QED
  BY <1>1, <1>2 DEF SaveJob

LEMMA LabourTypes ==
  ASSUME NEW q \in Labour
  PROVE  /\ \A c \in {"load", "build", "check", "read", "save", "end"} :
              [q EXCEPT !.pc = c] \in Labour
         /\ [q EXCEPT !.pc = "end", !.result = "failed"] \in Labour
         /\ [q EXCEPT !.pc = "end", !.result = "waiting"] \in Labour
         /\ [q EXCEPT !.pc = "save", !.todo = {}, !.result = "failed"] \in Labour
         /\ [q EXCEPT !.pc = "save", !.todo = {}] \in Labour
         /\ \A S \in SUBSET Chunks : [q EXCEPT !.pc = "invoice", !.todo = S] \in Labour
         /\ \A k \in Chunks : [q EXCEPT !.todo = @ \ {k}] \in Labour
         /\ [q EXCEPT !.seen = "none"] \in Labour
         /\ IdleWorker \in Labour
         /\ \A j \in Jobs, s \in PoolStatuses :
              [pc |-> "start", job |-> j, seen |-> s, todo |-> {}, result |-> "completed"] \in Labour
BY DEF Labour, IdleWorker, PoolStatuses

LEMMA SeenTypes ==
  ASSUME Typed, Links, NEW j \in Jobs
  PROVE  Seen(j) \in PoolStatuses
<1>1. job[j].status = "waiting" => job[j].pool \in Pools
  BY DEF Typed, JobRows, Links
<1> QED
  BY <1>1 DEF Seen, Typed, PoolStatuses

LEMMA WorkerPool ==
  ASSUME Typed, Links, NEW w \in PoolCrons, worker[w].pc # "idle"
  PROVE  worker[w].job \in Jobs /\ PoolOf(w) \in Pools
<1>1. worker[w].job # None
  BY DEF Links
<1>2. worker[w].job \in Jobs
  BY <1>1 DEF Typed, Labour
<1>3. job[worker[w].job].pool # None
  BY <1>1 DEF Links
<1> QED
  BY <1>2, <1>3 DEF Typed, JobRows, PoolOf

LEMMA CountTypes ==
  ASSUME NEW f \in [Pools -> [Chunks -> Nat]], NEW p \in Pools, NEW k
  PROVE  [f EXCEPT ![p][k] = @ + 1] \in [Pools -> [Chunks -> Nat]]
<1>1. f[p] \in [Chunks -> Nat]
  OBVIOUS
<1>2. CASE k \in Chunks
  <2>1. [f[p] EXCEPT ![k] = f[p][k] + 1] \in [Chunks -> Nat]
    BY <1>1, <1>2
  <2> QED
    BY <2>1
<1>3. CASE k \notin Chunks
  <2>1. [f[p] EXCEPT ![k] = f[p][k] + 1] = f[p]
    BY <1>1, <1>3
  <2> QED
    BY <2>1
<1> QED
  BY <1>2, <1>3

LEMMA WorkerTypes ==
  ASSUME Typed, Links, NEW w \in PoolCrons, PoolCron(w) \/ WorkerStep(w)
  PROVE  Typed'
<1>0. worker[w] \in Labour
  BY  DEF Typed
<1> USE LabourTypes, BecomeTypes, <1>0
<1>1. CASE PoolCron(w)
  <2>1. worker' \in [PoolCrons -> Labour]
    BY <1>1, SeenTypes DEF PoolCron
  <2> QED
    BY <1>1, <2>1 DEF Typed, PoolCron, rows, history
<1>2. CASE StartJob(w)
  <2>1. job' \in [Jobs -> JobRows]
    BY <1>2, SaveJobTypes DEF StartJob, JobStatuses
  <2>2. PoolOf(w) \in Pools
    BY <1>2, WorkerPool DEF StartJob
  <2>3. worker' \in [PoolCrons -> Labour]
    BY <1>2 DEF StartJob
  <2> QED
    BY <1>2, <2>1, <2>2, <2>3 DEF Typed, StartJob
<1>3. CASE LoadPool(w)
  <2> DEFINE after == [worker[w] EXCEPT !.seen = "none"]
  <2>2. after \in Labour
    OBVIOUS
  <2>3. \/ Become(w, [after EXCEPT !.pc = "end", !.result = "failed"])
        \/ Become(w, [after EXCEPT !.pc = "check"])
        \/ Become(w, [after EXCEPT !.pc = "build"])
    BY <1>3 DEF LoadPool
  <2>1. worker' \in [PoolCrons -> Labour]
    <3> HIDE DEF after
    <3> QED
      BY <2>2, <2>3
  <2> QED
    BY <1>3, <2>1 DEF Typed, LoadPool, rows, history
<1>4. CASE Fail(w)
  <2>1. worker' \in [PoolCrons -> Labour]
    BY <1>4 DEF Fail
  <2> QED
    BY <1>4, <2>1 DEF Typed, Fail, rows, history
<1>5. CASE EndJob(w)
  <2>1. job' \in [Jobs -> JobRows]
    <3>1. worker[w].result \in JobStatuses
      BY DEF Labour, JobStatuses
    <3> QED
      BY <1>5, <3>1, SaveJobTypes DEF EndJob
  <2>2. worker' \in [PoolCrons -> Labour]
    BY <1>5 DEF EndJob
  <2> QED
    BY <1>5, <2>1, <2>2 DEF Typed, EndJob, history
<1>6. CASE BuildLines(w)
  <2>1. lines' \in [Pools -> [Chunks -> Nat]]
    <3>1. CASE lines' = lines
      BY <3>1 DEF Typed
    <3>2. CASE lines' = [lines EXCEPT ![PoolOf(w)][job[worker[w].job].chunk] = @ + 1]
      <4>1. PoolOf(w) \in Pools
        BY <1>6, WorkerPool DEF BuildLines
      <4> QED
        BY <3>2, <4>1, CountTypes DEF Typed
    <3> QED
      BY <1>6, <3>1, <3>2 DEF BuildLines
  <2>2. worker' \in [PoolCrons -> Labour]
    BY <1>6 DEF BuildLines
  <2> QED
    BY <1>6, <2>1, <2>2 DEF Typed, BuildLines, history
<1>7. CASE SavePool(w)
  <2>1. worker' \in [PoolCrons -> Labour]
    BY <1>7 DEF SavePool
  <2> QED
    BY <1>7, <2>1 DEF Typed, SavePool, SavePoolAs, PoolResult, PoolStatuses, history
<1>8. CASE CheckJobs(w)
  <2>1. worker' \in [PoolCrons -> Labour]
    BY <1>8 DEF CheckJobs
  <2> QED
    BY <1>8, <2>1 DEF Typed, CheckJobs, rows, history
<1>9. CASE ReadLines(w)
  <2>1. {k \in Chunks : lines[PoolOf(w)][k] > 0} \in SUBSET Chunks
    OBVIOUS
  <2>2. worker' \in [PoolCrons -> Labour]
    BY <1>9, <2>1 DEF ReadLines
  <2> QED
    BY <1>9, <2>2 DEF Typed, ReadLines, rows, history
<1>10. CASE StopInvoices(w)
  <2>1. worker' \in [PoolCrons -> Labour]
    BY <1>10 DEF StopInvoices
  <2> QED
    BY <1>10, <2>1 DEF Typed, StopInvoices, rows, history
<1>11. ASSUME NEW k \in Chunks, MakeInvoice(w, k) PROVE Typed'
  <2>1. invoiced' \in [Pools -> [Chunks -> Nat]]
    BY <1>11, WorkerPool, CountTypes DEF Typed, MakeInvoice
  <2>2. worker' \in [PoolCrons -> Labour]
    BY <1>11 DEF MakeInvoice
  <2> QED
    BY <1>11, <2>1, <2>2 DEF Typed, MakeInvoice, history
<1> QED
  BY <1>1, <1>2, <1>3, <1>4, <1>5, <1>6, <1>7, <1>8, <1>9, <1>10, <1>11 DEF WorkerStep

LEMMA KillTypes == Typed /\ Kill => Typed'
<1> SUFFICES ASSUME Typed, Kill PROVE Typed'
  OBVIOUS
<1>1. /\ IdleManager \in Managing /\ IdleDirector \in Directing /\ IdleWorker \in Labour
  BY DEF IdleManager, IdleDirector, IdleWorker, Managing, Directing, Labour, PoolStatuses
<1>2. manager' \in [Managers -> Managing]
  BY <1>1 DEF Typed, Kill
<1>3. director' \in [CampaignCrons -> Directing]
  BY <1>1, DirectTypes DEF Typed, Kill
<1>4. worker' \in [PoolCrons -> Labour]
  BY <1>1, BecomeTypes DEF Typed, Kill
<1>5. kills' \in Nat
  BY DEF Kill, Typed
<1> QED
  BY <1>2, <1>3, <1>4, <1>5 DEF Typed, Kill, rows, history

LEMMA StepTypes == Base /\ [Next]_vars => CampaignTypeOK'
<1> SUFFICES ASSUME Base, [Next]_vars PROVE CampaignTypeOK'
  OBVIOUS
<1>1. CASE UNCHANGED vars
  BY <1>1 DEF vars, Base, CampaignTypeOK
<1> QED
  BY <1>1, ManagerTypes, DirectorTypes, WorkerTypes, KillTypes,
     TypedIsType, TypedIsTypeNext DEF Next, Base
-----------------------------------------------------------------------------
(* What the steps change.                                                  *)
LEMMA DirectFacts ==
  ASSUME Typed, NEW d \in CampaignCrons, NEW q, Direct(d, q)
  PROVE  director'[d] = q /\ \A e \in CampaignCrons \ {d} : director'[e] = director[e]
BY DEF Typed, Direct

LEMMA BecomeFacts ==
  ASSUME Typed, NEW w \in PoolCrons, NEW q, Become(w, q)
  PROVE  worker'[w] = q /\ \A v \in PoolCrons \ {w} : worker'[v] = worker[v]
BY DEF Typed, Become

LEMMA PoolFacts ==
  ASSUME Typed, NEW p \in Pools, NEW s, SavePoolAs(p, s)
  PROVE  pool'[p] = s /\ \A q \in Pools \ {p} : pool'[q] = pool[q]
BY DEF Typed, SavePoolAs

LEMMA SaveJobFacts ==
  ASSUME Typed, Links, NEW w \in PoolCrons, worker[w].pc # "idle", NEW s, SaveJob(w, s)
  PROVE  /\ \A j \in Jobs : job'[j].pool = job[j].pool /\ job'[j].chunk = job[j].chunk
         /\ \A j \in Jobs : j # worker[w].job => job'[j] = job[j]
         /\ IF Exists(PoolOf(w)) THEN job'[worker[w].job].status = s ELSE job' = job
<1>1. worker[w].job \in Jobs
  BY WorkerPool
<1> QED
  BY <1>1 DEF SaveJob, Typed, JobRows

LEMMA AddJobFacts ==
  ASSUME Typed, NEW p, NEW k, AddJob(p, k)
  PROVE  \E n \in Jobs : /\ job[n].status = "none"
                         /\ job'[n] = [pool |-> p, chunk |-> k, status |-> "registered"]
                         /\ \A j \in Jobs \ {n} : job'[j] = job[j]
BY DEF AddJob, NextJob, Typed

LEMMA DeleteFacts ==
  ASSUME Typed, NEW m \in Managers, DeletePool(m), NEW j \in Jobs
  PROVE  /\ job'[j].pool = job[j].pool /\ job'[j].chunk = job[j].chunk
         /\ IF job[j].pool = manager[m].pool /\ job[j].status \notin Absent
            THEN job'[j].status = "deleted" ELSE job'[j] = job[j]
BY DEF DeletePool, JobsOf, Typed, JobRows

LEMMA DirectorPool ==
  ASSUME Typed, Links, NEW d \in CampaignCrons, director[d].pc # "idle"
  PROVE  director[d].pool \in Pools
BY DEF Typed, Links, Directing
-----------------------------------------------------------------------------
(* Links, managers and places.                                             *)
LEMMA ManagerLinks ==
  ASSUME Typed, Links, ManagersOK, PlacesOK, NEW m \in Managers, ManagerNext(m)
  PROVE  Links' /\ ManagersOK' /\ PlacesOK'
<1>0. manager[m] \in Managing /\ UNCHANGED << director, worker >>
  BY DEF Typed, ManagerNext, CheckAdd, CreatePool, InitPool, CheckStop, StopPool,
         CheckDelete, DeletePool
<1>c. \A n \in Managers :
        manager[n].pc \in {"init", "stop", "delete"} => manager[n].pool \in Pools
  BY DEF ManagersOK, Typed, Managing
<1>1. CASE CheckAdd(m)
  <2>1. ManagersOK'
    BY <1>0, <1>1 DEF CheckAdd, Typed, Managing, ManagersOK, NoJobs, rows, history
  <2> QED
    BY <1>0, <1>1, <2>1 DEF CheckAdd, Links, PlacesOK, rows
<1>2. CASE CreatePool(m)
  <2>1. PICK p \in Pools : /\ pool[p] = "none" /\ SavePoolAs(p, "registered")
                           /\ manager' = [manager EXCEPT ![m] = [pc |-> "init", pool |-> p]]
    BY <1>2 DEF CreatePool
  <2>2. pool'[p] = "registered" /\ \A q \in Pools \ {p} : pool'[q] = pool[q]
    BY <2>1, PoolFacts
  <2>3. p # None
    BY Names
  <2>4. \A n \in Managers :
          manager[n].pc \in {"init", "stop", "delete"} => manager[n].pool # p
    BY <2>1 DEF ManagersOK
  <2>5. \A n \in Managers \ {m} : manager'[n] = manager[n]
    BY <2>1 DEF Typed
  <2>6. manager'[m] = [pc |-> "init", pool |-> p]
    BY <2>1 DEF Typed
  <2>7. ManagersOK'
    BY <1>0, <1>2, <1>c, <2>1, <2>2, <2>3, <2>4, <2>5, <2>6
    DEF CreatePool, ManagersOK, NoJobs, history
  <2> QED
    BY <1>0, <1>2, <2>7 DEF CreatePool, Links, PlacesOK
<1>3. CASE InitPool(m)
  <2> DEFINE p == manager[m].pool
  <2>1. p \in Pools /\ pool[p] # "none" /\ campaign[p] = "none"
    BY <1>0, <1>3 DEF InitPool, ManagersOK, Managing
  <2>2. \A n \in Managers \ {m} : manager'[n] = manager[n]
    BY <1>3 DEF InitPool, Typed
  <2>3. manager'[m].pc = "idle"
    BY <1>3 DEF InitPool, IdleManager, Typed
  <2>4. \A n \in Managers \ {m} : manager[n].pc = "init" => manager[n].pool # p
    <3> SUFFICES ASSUME NEW n \in Managers \ {m}, manager[n].pc = "init", manager[n].pool = p
                 PROVE  FALSE
      OBVIOUS
    <3>1. manager[n] \in Managing /\ manager[m].pc = "init"
      BY <1>3 DEF InitPool, Typed
    <3>2. manager[n] = manager[m]
      BY <1>0, <3>1 DEF Managing
    <3> QED
      BY <3>1, <3>2 DEF ManagersOK
  <2>6. /\ \A q \in Pools \ {p} : pool'[q] = pool[q] /\ campaign'[q] = campaign[q]
        /\ pool'[p] = pool[p] \/ pool'[p] = "failed"
        /\ campaign'[p] # "none" \/ campaign' = campaign
    BY <1>3, <2>1 DEF InitPool, SavePoolAs, Typed
  <2>7. ManagersOK'
    BY <1>0, <1>3, <1>c, <2>1, <2>2, <2>3, <2>4, <2>6
    DEF InitPool, ManagersOK, NoJobs, history
  <2> QED
    BY <1>0, <1>3, <2>7 DEF InitPool, Links, PlacesOK
<1>4. ASSUME NEW p \in Pools, CheckDelete(m, p) PROVE Links' /\ ManagersOK' /\ PlacesOK'
  <2>1. p # None /\ pool[p] \notin {"none", "registered"}
    BY <1>4, Names DEF CheckDelete, Quiet, Exists, Blocking, Absent
  <2>2. ManagersOK'
    BY <1>0, <1>4, <2>1 DEF CheckDelete, Typed, Managing, ManagersOK, NoJobs, rows, history
  <2> QED
    BY <1>0, <1>4, <2>2 DEF CheckDelete, Links, PlacesOK, rows
<1>5. CASE DeletePool(m)
  <2> DEFINE p == manager[m].pool
  <2>1. p \in Pools /\ pool[p] \notin {"none", "registered"}
    BY <1>0, <1>5 DEF DeletePool, ManagersOK, Managing
  <2>4. \A n \in Managers : manager[n].pc = "init" /\ manager[n].pool = p => p \in stopped
    BY <2>1 DEF ManagersOK
  <2>2. \A n \in Managers \ {m} : manager'[n] = manager[n]
    BY <1>5 DEF DeletePool, Typed
  <2>3. manager'[m].pc = "idle"
    BY <1>5 DEF DeletePool, IdleManager, Typed
  <2>5. pool'[p] = "deleted" /\ \A q \in Pools \ {p} : pool'[q] = pool[q]
    BY <1>5, <2>1, PoolFacts DEF DeletePool
  <2>6. \A j \in Jobs :
          /\ job'[j].pool = job[j].pool /\ job'[j].chunk = job[j].chunk
          /\ job'[j].status = "none" <=> job[j].status = "none"
    BY <1>5, DeleteFacts DEF Absent
  <2>7. ManagersOK'
    BY <1>0, <1>5, <1>c, <2>1, <2>2, <2>3, <2>4, <2>5, <2>6 DEF DeletePool, ManagersOK, NoJobs
  <2>8. \A w \in PoolCrons : worker[w].job # None => worker[w].job \in Jobs
    BY DEF Typed, Labour
  <2>9. Links'
    BY <1>0, <2>6, <2>8 DEF Links
  <2>10. PlacesOK'
    BY <1>0, <2>6, <2>8 DEF PlacesOK
  <2> QED
    BY <2>7, <2>9, <2>10
<1>6. ASSUME NEW p \in Pools, CheckStop(m, p) PROVE Links' /\ ManagersOK' /\ PlacesOK'
  <2>1. p # None /\ pool[p] # "none"
    BY <1>6, Names DEF CheckStop, Blocking
  <2>2. ManagersOK'
    BY <1>0, <1>6, <2>1 DEF CheckStop, Typed, Managing, ManagersOK, NoJobs, rows, history
  <2> QED
    BY <1>0, <1>6, <2>2 DEF CheckStop, Links, PlacesOK, rows
<1>7. CASE StopPool(m)
  <2> DEFINE p == manager[m].pool
  <2>1. p \in Pools /\ pool[p] # "none"
    BY <1>0, <1>7 DEF StopPool, ManagersOK, Managing
  <2>2. \A n \in Managers \ {m} : manager'[n] = manager[n]
    BY <1>7 DEF StopPool, Typed
  <2>3. manager'[m].pc = "idle"
    BY <1>7 DEF StopPool, IdleManager, Typed
  <2>4. pool'[p] = "failed" /\ \A q \in Pools \ {p} : pool'[q] = pool[q]
    BY <1>7, <2>1, PoolFacts DEF StopPool
  <2>5. stopped' = stopped \cup {p} /\ UNCHANGED << campaign, job >>
    BY <1>7 DEF StopPool
  <2>6. ManagersOK'
    BY <1>0, <1>c, <2>1, <2>2, <2>3, <2>4, <2>5 DEF ManagersOK, NoJobs
  <2> QED
    BY <1>0, <2>5, <2>6 DEF Links, PlacesOK
<1> QED
  BY <1>1, <1>2, <1>3, <1>4, <1>5, <1>6, <1>7 DEF ManagerNext

\* What a director changes.
LEMMA CronFacts ==
  ASSUME Typed, NEW d \in CampaignCrons, CampaignCron(d)
  PROVE  /\ UNCHANGED << pool, campaign, job, lines, invoiced, manager, worker, users, stopped, raced >>
         /\ \A e \in CampaignCrons \ {d} : director'[e] = director[e]
         /\ director[d].pc = "idle"
         /\ \E p \in Pools : /\ campaign[p] = "registered"
                             /\ director'[d] = [pc |-> "start", pool |-> p, todo |-> {},
                                                result |-> "completed"]
<1>2. PICK p \in Pools :
        /\ campaign[p] = "registered"
        /\ Direct(d, [pc |-> "start", pool |-> p, todo |-> {}, result |-> "completed"])
  BY DEF CampaignCron
<1>4. UNCHANGED << pool, campaign, job, lines, invoiced, manager, worker, users, stopped, raced >>
  BY DEF CampaignCron, rows, history
<1>5. director[d].pc = "idle"
  BY DEF CampaignCron
<1> QED
  BY <1>2, <1>4, <1>5, DirectFacts

LEMMA DirectorMoves ==
  ASSUME Typed, Links, NEW d \in CampaignCrons, DirectorStep(d)
  PROVE  LET p == director[d].pool IN
         /\ p \in Pools /\ director[d].pc # "idle"
         /\ UNCHANGED << manager, worker, lines, invoiced, stopped >>
         /\ \A e \in CampaignCrons \ {d} : director'[e] = director[e]
         /\ \/ director'[d] = IdleDirector
            \/ director'[d].pc \notin {"idle", "start"} /\ director'[d].pool = p
         /\ \A q \in Pools \ {p} :
                pool'[q] = pool[q] /\ campaign'[q] = campaign[q] /\ users'[q] = users[q]
         /\ campaign'[p] = campaign[p] \/ campaign'[p] # "none"
         /\ pool'[p] = pool[p] \/ pool'[p] \in {"running", "failed"}
         /\ \A j \in Jobs : \/ job'[j] = job[j]
                            \/ /\ job[j].status = "none"
                               /\ job'[j].status = "registered" /\ job'[j].pool = p
<1> DEFINE p == director[d].pool
<1>0. director[d] \in Directing
  BY DEF Typed
<1>1. director[d].pc # "idle"
  BY DEF DirectorStep, StartCampaign, CheckDraft, RunPool, GetUsers, Split, EndCampaign
<1>2. p \in Pools
  BY <1>1, DirectorPool
<1>3. CASE StartCampaign(d)
  <2>1. Direct(d, [director[d] EXCEPT !.pc = "prepare"])
    BY <1>3 DEF StartCampaign
  <2>2. director'[d].pc = "prepare" /\ director'[d].pool = p
    BY <1>0, <2>1, DirectFacts DEF Directing
  <2>3. \A e \in CampaignCrons \ {d} : director'[e] = director[e]
    BY <2>1, DirectFacts
  <2> QED
    BY <1>1, <1>2, <1>3, <2>2, <2>3 DEF StartCampaign, Typed
<1>4. CASE CheckDraft(d)
  <2>1. director'[d].pool = p /\ director'[d].pc \in {"run", "end"}
    BY <1>0, <1>4 DEF CheckDraft, Direct, Typed, Directing
  <2>2. \A e \in CampaignCrons \ {d} : director'[e] = director[e]
    BY <1>4 DEF CheckDraft, Direct, Typed
  <2>3. UNCHANGED << pool, campaign, job, lines, invoiced, manager, worker, users, stopped >>
    BY <1>4 DEF CheckDraft, rows, history
  <2> QED
    BY <1>1, <1>2, <2>1, <2>2, <2>3
<1>5. CASE RunPool(d)
  <2>1. PICK q : Direct(d, q) /\ q.pool = p /\ q.pc = "users"
    BY <1>0, <1>5 DEF RunPool, Directing
  <2>2. director'[d] = q /\ \A e \in CampaignCrons \ {d} : director'[e] = director[e]
    BY <2>1, DirectFacts
  <2>3. UNCHANGED << campaign, job, lines, invoiced, manager, worker, users, stopped >>
    BY <1>5 DEF RunPool, history
  <2>4. SavePoolAs(p, "running")
    BY <1>5 DEF RunPool
  <2> QED
    BY <1>1, <1>2, <2>1, <2>2, <2>3, <2>4, PoolFacts
<1>6. CASE GetUsers(d)
  <2>1. director'[d].pool = p /\ director'[d].pc \in {"split", "end"}
    <3>1. \/ \E n \in 0..MaxChunks : Direct(d, [director[d] EXCEPT !.pc = "split", !.todo = Dealt(n)])
          \/ Direct(d, [director[d] EXCEPT !.pc = "end", !.result = "failed"])
      BY <1>6 DEF GetUsers
    <3>2. ASSUME NEW n \in 0..MaxChunks,
                 Direct(d, [director[d] EXCEPT !.pc = "split", !.todo = Dealt(n)])
          PROVE  director'[d].pool = p /\ director'[d].pc = "split"
      BY <1>0, <3>2 DEF Direct, Typed, Directing
    <3>3. CASE Direct(d, [director[d] EXCEPT !.pc = "end", !.result = "failed"])
      BY <1>0, <3>3 DEF Direct, Typed, Directing
    <3> QED
      BY <3>1, <3>2, <3>3
  <2>2. \A e \in CampaignCrons \ {d} : director'[e] = director[e]
    BY <1>6 DEF GetUsers, Direct, Typed
  <2>3. UNCHANGED << campaign, job, lines, invoiced, manager, worker, stopped >>
    BY <1>6 DEF GetUsers
  <2>4. SavePoolAs(p, "running") \/ SavePoolAs(p, "failed")
    BY <1>6 DEF GetUsers
  <2>5. \A q2 \in Pools \ {p} : users'[q2] = users[q2]
    BY <1>6 DEF GetUsers, Typed
  <2> QED
    BY <1>1, <1>2, <2>1, <2>2, <2>3, <2>4, <2>5, PoolFacts
<1>7. CASE Split(d)
  <2>1. director'[d].pool = p /\ director'[d].pc \in {"split", "end"}
    <3>1. \/ Direct(d, [director[d] EXCEPT !.pc = "end", !.todo = {}, !.result = "failed"])
          \/ Direct(d, [director[d] EXCEPT !.pc = "end"])
          \/ \E k \in director[d].todo :
                Direct(d, [director[d] EXCEPT !.todo = @ \ {k}]) /\ director[d].pc = "split"
      BY <1>7 DEF Split
    <3>2. CASE Direct(d, [director[d] EXCEPT !.pc = "end", !.todo = {}, !.result = "failed"])
      BY <1>0, <3>2 DEF Direct, Typed, Directing
    <3>3. CASE Direct(d, [director[d] EXCEPT !.pc = "end"])
      BY <1>0, <3>3 DEF Direct, Typed, Directing
    <3>4. ASSUME NEW k \in director[d].todo, director[d].pc = "split",
                 Direct(d, [director[d] EXCEPT !.todo = @ \ {k}])
          PROVE  director'[d].pool = p /\ director'[d].pc = "split"
      BY <1>0, <3>4 DEF Direct, Typed, Directing
    <3> QED
      BY <3>1, <3>2, <3>3, <3>4
  <2>2. \A e \in CampaignCrons \ {d} : director'[e] = director[e]
    BY <1>7 DEF Split, Direct, Typed
  <2>3. UNCHANGED << pool, campaign, lines, invoiced, manager, worker, users, stopped >>
    BY <1>7 DEF Split, history
  <2>4. job' = job \/ \E k : AddJob(p, k)
    BY <1>7 DEF Split
  <2>5. \A j \in Jobs : \/ job'[j] = job[j]
                        \/ /\ job[j].status = "none"
                           /\ job'[j].status = "registered" /\ job'[j].pool = p
    <3>1. CASE job' = job
      BY <3>1
    <3>2. ASSUME NEW k, AddJob(p, k)
          PROVE  \A j \in Jobs : \/ job'[j] = job[j]
                                 \/ /\ job[j].status = "none"
                                    /\ job'[j].status = "registered" /\ job'[j].pool = p
      <4>1. PICK n \in Jobs : /\ job[n].status = "none"
                              /\ job'[n] = [pool |-> p, chunk |-> k, status |-> "registered"]
                              /\ \A j \in Jobs \ {n} : job'[j] = job[j]
        BY <3>2, AddJobFacts
      <4> QED
        BY <4>1
    <3> QED
      BY <2>4, <3>1, <3>2
  <2> QED
    BY <1>1, <1>2, <2>1, <2>2, <2>3, <2>5
<1>8. CASE EndCampaign(d)
  <2>1. director'[d] = IdleDirector /\ \A e \in CampaignCrons \ {d} : director'[e] = director[e]
    BY <1>8, DirectFacts DEF EndCampaign
  <2>2. UNCHANGED << pool, job, lines, invoiced, manager, worker, users, stopped >>
    BY <1>8 DEF EndCampaign, history
  <2>3. campaign'[p] # "none" /\ \A q \in Pools \ {p} : campaign'[q] = campaign[q]
    BY <1>0, <1>2, <1>8 DEF EndCampaign, Typed, Directing
  <2> QED
    BY <1>1, <1>2, <2>1, <2>2, <2>3
<1> QED
  BY <1>3, <1>4, <1>5, <1>6, <1>7, <1>8 DEF DirectorStep

LEMMA DirectorLinks ==
  ASSUME Typed, Links, ManagersOK, PlacesOK, NEW d \in CampaignCrons,
         CampaignCron(d) \/ DirectorStep(d)
  PROVE  Links' /\ ManagersOK' /\ PlacesOK'
<1>a. \A w \in PoolCrons : worker[w].job # None => worker[w].job \in Jobs
  BY DEF Typed, Labour
<1>b. \A m \in Managers :
        manager[m].pc \in {"init", "stop", "delete"} => manager[m].pool \in Pools
  BY DEF ManagersOK, Typed, Managing
<1>1. CASE CampaignCron(d)
  <2>1. PICK p \in Pools : /\ campaign[p] = "registered"
                           /\ director'[d] = [pc |-> "start", pool |-> p, todo |-> {},
                                              result |-> "completed"]
    BY <1>1, CronFacts
  <2>2. p # None
    BY Names
  <2>3. Links' /\ PlacesOK'
    BY <1>1, <2>1, <2>2, CronFacts DEF Links, PlacesOK
  <2>4. ManagersOK'
    BY <1>1, <2>1, CronFacts DEF ManagersOK, NoJobs
  <2> QED
    BY <2>3, <2>4
<1>2. CASE DirectorStep(d)
  <2> DEFINE p == director[d].pool
  <2>1. p \in Pools /\ p # None
    BY <1>2, DirectorMoves, Names
  <2>2. campaign[p] # "none" /\ pool[p] # "none"
    BY <2>1 DEF ManagersOK
  <2>3. \A m \in Managers : manager[m].pc = "init" => manager[m].pool # p
    BY <2>2, <1>b DEF ManagersOK
  <2>4. Links'
    BY <1>2, <1>a, <2>1, DirectorMoves DEF Links, IdleDirector
  <2>5. PlacesOK'
    BY <1>2, <1>a, DirectorMoves DEF Links, PlacesOK
  <2>6. \A q \in Pools : campaign'[q] = "none" =>
            NoJobs(q)' /\ \A e \in CampaignCrons : director'[e].pool # q
    <3> SUFFICES ASSUME NEW q \in Pools, campaign'[q] = "none"
                 PROVE  NoJobs(q)' /\ \A e \in CampaignCrons : director'[e].pool # q
      OBVIOUS
    <3>1. q # p /\ campaign[q] = "none" /\ q # None
      BY <1>2, <2>2, DirectorMoves, Names
    <3> QED
      BY <1>2, <3>1, DirectorMoves DEF ManagersOK, NoJobs, IdleDirector
  <2>7. \A q \in Pools : pool'[q] = "none" => campaign'[q] = "none"
    BY <1>2, <2>2, DirectorMoves DEF ManagersOK
  <2>8. ManagersOK'
    BY <1>2, <1>b, <2>2, <2>3, <2>6, <2>7, DirectorMoves DEF ManagersOK
  <2> QED
    BY <2>4, <2>5, <2>8
<1> QED
  BY <1>1, <1>2

\* How a worker moves on.
Moved(w) ==
    \/ worker'[w] = IdleWorker
    \/ /\ worker'[w].job = worker[w].job /\ worker'[w].pc # "idle"

LEMMA PoolCronFacts ==
  ASSUME Typed, Links, NEW w \in PoolCrons, PoolCron(w)
  PROVE  /\ UNCHANGED << pool, campaign, job, lines, invoiced, manager, director, users, stopped, raced >>
         /\ \A v \in PoolCrons \ {w} : worker'[v] = worker[v]
         /\ worker[w].pc = "idle"
         /\ \E j \in Jobs : /\ job[j].status \in {"registered", "waiting"}
                            /\ job[j].pool \in Pools
                            /\ worker'[w] = [pc |-> "start", job |-> j, seen |-> Seen(j),
                                             todo |-> {}, result |-> "completed"]
<1>2. PICK j \in Jobs :
        /\ Due(j)
        /\ Become(w, [pc |-> "start", job |-> j, seen |-> Seen(j), todo |-> {},
                      result |-> "completed"])
  BY DEF PoolCron
<1>4. UNCHANGED << pool, campaign, job, lines, invoiced, manager, director, users, stopped, raced >>
  BY DEF PoolCron, rows, history
<1>5. worker[w].pc = "idle"
  BY DEF PoolCron
<1>6. job[j].status \in {"registered", "waiting"}
  BY <1>2 DEF Due
<1>7. job[j].pool \in Pools
  BY <1>6 DEF Links, Typed, JobRows
<1> QED
  BY <1>2, <1>4, <1>5, <1>6, <1>7, BecomeFacts

LEMMA CheckJobsFacts ==
  ASSUME Typed, NEW w \in PoolCrons, CheckJobs(w)
  PROVE  /\ worker'[w].job = worker[w].job /\ worker'[w].seen = worker[w].seen
         /\ \/ worker'[w].pc = "end" /\ worker'[w].result = "failed"
            \/ worker'[w].pc = "end" /\ worker'[w].result = "waiting"
            \/ worker'[w].pc = "read" /\ worker'[w].result = worker[w].result
<1>0. worker[w] \in Labour
  BY DEF Typed
<1>1. \/ Become(w, [worker[w] EXCEPT !.pc = "end", !.result = "failed"])
      \/ Become(w, [worker[w] EXCEPT !.pc = "end", !.result = "waiting"])
      \/ Become(w, [worker[w] EXCEPT !.pc = "read"])
  BY DEF CheckJobs
<1>2. CASE Become(w, [worker[w] EXCEPT !.pc = "end", !.result = "failed"])
  BY <1>0, <1>2 DEF Become, Typed, Labour
<1>3. CASE Become(w, [worker[w] EXCEPT !.pc = "end", !.result = "waiting"])
  BY <1>0, <1>3 DEF Become, Typed, Labour
<1>4. CASE Become(w, [worker[w] EXCEPT !.pc = "read"])
  BY <1>0, <1>4 DEF Become, Typed, Labour
<1> QED
  BY <1>1, <1>2, <1>3, <1>4

LEMMA WorkerMoves ==
  ASSUME Typed, Links, NEW w \in PoolCrons, WorkerStep(w)
  PROVE  /\ Moved(w) /\ worker[w].pc # "idle"
         /\ \A v \in PoolCrons \ {w} : worker'[v] = worker[v]
         /\ \A j \in Jobs : /\ job'[j].pool = job[j].pool /\ job'[j].chunk = job[j].chunk
                            /\ j # worker[w].job => job'[j] = job[j]
                            /\ job[j].status # "none" => job'[j].status # "none"
                            /\ job[j].status = "none" => job'[j] = job[j]
<1>0. worker[w] \in Labour
  BY DEF Typed
<1>1. worker[w].pc # "idle"
  BY DEF WorkerStep, StartJob, LoadPool, Fail, EndJob, BuildLines, SavePool, CheckJobs,
         ReadLines, StopInvoices, MakeInvoice
<1>2. worker'[w] = IdleWorker \/ (worker'[w].job = worker[w].job /\ worker'[w].pc # "idle")
  <2>1. CASE StartJob(w)
    <3>1. \/ Become(w, [worker[w] EXCEPT !.pc = "load"])
          \/ Become(w, IdleWorker)
      BY <2>1 DEF StartJob
    <3>2. Become(w, IdleWorker) => worker'[w] = IdleWorker
      BY BecomeFacts
    <3>3. CASE Become(w, [worker[w] EXCEPT !.pc = "load"])
      BY <1>0, <3>3 DEF Become, Typed, Labour
    <3> QED
      BY <3>1, <3>2, <3>3
  <2>2. CASE EndJob(w)
    <3>1. Become(w, IdleWorker)
      BY <2>2 DEF EndJob
    <3> QED
      BY <3>1, BecomeFacts
  <2>3. CASE LoadPool(w)
    BY <1>0, <2>3 DEF LoadPool, Become, Typed, Labour
  <2>4. CASE Fail(w)
    BY <1>0, <2>4 DEF Fail, Become, Typed, Labour
  <2>5. CASE BuildLines(w)
    BY <1>0, <2>5 DEF BuildLines, Become, Typed, Labour
  <2>6. CASE SavePool(w)
    BY <1>0, <2>6 DEF SavePool, Become, Typed, Labour
  <2>7. CASE CheckJobs(w)
    BY <2>7, CheckJobsFacts
  <2>8. CASE ReadLines(w)
    BY <1>0, <2>8 DEF ReadLines, Become, Typed, Labour
  <2>9. CASE StopInvoices(w)
    BY <1>0, <2>9 DEF StopInvoices, Become, Typed, Labour
  <2>10. ASSUME NEW k \in Chunks, MakeInvoice(w, k)
         PROVE  worker'[w].job = worker[w].job /\ worker'[w].pc # "idle"
    BY <1>0, <2>10 DEF MakeInvoice, Become, Typed, Labour
  <2> QED
    BY <2>1, <2>2, <2>3, <2>4, <2>5, <2>6, <2>7, <2>8, <2>9, <2>10 DEF WorkerStep
<1>3. \A v \in PoolCrons \ {w} : worker'[v] = worker[v]
  <2>1. \E q : Become(w, q)
    BY DEF WorkerStep, StartJob, LoadPool, Fail, EndJob, BuildLines, SavePool, CheckJobs,
           ReadLines, StopInvoices, MakeInvoice
  <2> QED
    BY <2>1, BecomeFacts
<1>4. job' = job \/ SaveJob(w, "running") \/ SaveJob(w, worker[w].result)
  BY DEF WorkerStep, StartJob, LoadPool, Fail, EndJob, BuildLines, SavePool, CheckJobs,
         ReadLines, StopInvoices, MakeInvoice, rows
<1>5. worker[w].job \in Jobs /\ job[worker[w].job].status # "none"
  BY <1>1, WorkerPool DEF Links
<1>6. ASSUME NEW s \in {"running", "completed", "failed", "waiting"}, SaveJob(w, s)
      PROVE  \A j \in Jobs : /\ job'[j].pool = job[j].pool /\ job'[j].chunk = job[j].chunk
                             /\ j # worker[w].job => job'[j] = job[j]
                             /\ job[j].status # "none" => job'[j].status # "none"
                             /\ job[j].status = "none" => job'[j] = job[j]
  BY <1>1, <1>5, <1>6, SaveJobFacts
<1>7. worker[w].result \in {"running", "completed", "failed", "waiting"}
  BY <1>0 DEF Labour
<1> QED
  BY <1>1, <1>2, <1>3, <1>4, <1>6, <1>7 DEF Moved

LEMMA WorkerLinks ==
  ASSUME Typed, Links, ManagersOK, PlacesOK, NEW w \in PoolCrons, PoolCron(w) \/ WorkerStep(w)
  PROVE  Links' /\ ManagersOK' /\ PlacesOK'
<1>0. worker[w] \in Labour /\ UNCHANGED << manager, director, campaign, stopped >>
  BY DEF Typed, WorkerStep, PoolCron, StartJob, LoadPool, Fail, EndJob, BuildLines, SavePool,
         CheckJobs, ReadLines, StopInvoices, MakeInvoice, rows, history
<1>a. \A v \in PoolCrons : worker[v].job # None => worker[v].job \in Jobs
  BY DEF Typed, Labour
<1>b. \A m \in Managers :
        manager[m].pc \in {"init", "stop", "delete"} => manager[m].pool \in Pools
  BY DEF ManagersOK, Typed, Managing
<1>1. CASE PoolCron(w)
  <2>1. PICK j \in Jobs : /\ job[j].pool \in Pools
                          /\ worker'[w] = [pc |-> "start", job |-> j, seen |-> Seen(j),
                                           todo |-> {}, result |-> "completed"]
    BY <1>1, PoolCronFacts
  <2>2. j # None /\ job[j].pool # None
    BY <2>1, Names
  <2>5. Seen(j) # "none" => job[j].chunk = Last
    BY DEF Seen
  <2>3. Links' /\ PlacesOK'
    BY <1>1, <2>1, <2>2, <2>5, PoolCronFacts DEF Links, PlacesOK
  <2>4. ManagersOK'
    BY <1>1, PoolCronFacts DEF ManagersOK, NoJobs
  <2> QED
    BY <2>3, <2>4
<1>2. CASE WorkerStep(w)
  <2> DEFINE p == PoolOf(w)
  <2>1. p \in Pools /\ worker[w].job \in Jobs /\ worker[w].job # None
    BY <1>2, WorkerMoves, WorkerPool, Names
  <2>2. campaign[p] # "none" /\ pool[p] # "none"
    BY <2>1 DEF ManagersOK, NoJobs, PoolOf
  <2>3. \A m \in Managers : manager[m].pc = "init" => manager[m].pool # p
    BY <2>2, <1>b DEF ManagersOK
  <2>4. pool'[p] = pool[p] \/ pool'[p] \in {"running", "failed", "completed"}
    BY <1>2, <2>1, PoolFacts
    DEF WorkerStep, StartJob, LoadPool, Fail, EndJob, BuildLines, SavePool, CheckJobs,
        ReadLines, StopInvoices, MakeInvoice, rows, PoolResult
  <2>5. \A q \in Pools \ {p} : pool'[q] = pool[q]
    BY <1>2, <2>1, PoolFacts
    DEF WorkerStep, StartJob, LoadPool, Fail, EndJob, BuildLines, SavePool, CheckJobs,
        ReadLines, StopInvoices, MakeInvoice, rows
  <2>6. Links'
    BY <1>0, <1>2, <1>a, <2>1, WorkerMoves DEF Links, Moved, IdleWorker
  <2>7. ManagersOK'
    BY <1>0, <1>2, <1>b, <2>1, <2>2, <2>3, <2>4, <2>5, WorkerMoves DEF ManagersOK, NoJobs
  <2>8. PlacesOK'
    <3> DEFINE Place(c, r, s, k) ==
          /\ c = "build" => k # Last
          /\ c \in {"check", "read", "invoice"} => k = Last
          /\ c \notin {"save", "end"} => r = "completed"
          /\ s # "none" => c \in {"start", "load"} /\ k = Last
          /\ r = "waiting" => c = "end" /\ k = Last
    <3>1. Place(worker[w].pc, worker[w].result, worker[w].seen, job[worker[w].job].chunk)
      BY <2>1 DEF PlacesOK
    <3>2. worker'[w] = IdleWorker
          \/ Place(worker'[w].pc, worker'[w].result, worker'[w].seen, job[worker[w].job].chunk)
      <4> DEFINE Placed(q) == \/ q = IdleWorker
                              \/ Place(q.pc, q.result, q.seen, job[worker[w].job].chunk)
      <4>1. CASE StartJob(w)
        BY <1>0, <3>1, <4>1 DEF StartJob, Become, Typed, Labour
      <4>2. CASE EndJob(w)
        BY <1>0, <3>1, <4>2 DEF EndJob, Become, Typed, Labour
      <4>3. CASE LoadPool(w)
        BY <1>0, <3>1, <4>3 DEF LoadPool, Become, Typed, Labour
      <4>4. CASE Fail(w)
        BY <1>0, <3>1, <4>4 DEF Fail, Become, Typed, Labour
      <4>5. CASE BuildLines(w)
        BY <1>0, <3>1, <4>5 DEF BuildLines, Become, Typed, Labour
      <4>6. CASE SavePool(w)
        BY <1>0, <3>1, <4>6 DEF SavePool, Become, Typed, Labour
      <4>7. CASE CheckJobs(w)
        <5>1. worker[w].pc = "check"
          BY <4>7 DEF CheckJobs
        <5> QED
          BY <3>1, <4>7, <5>1, CheckJobsFacts
      <4>8. CASE ReadLines(w)
        BY <1>0, <3>1, <4>8 DEF ReadLines, Become, Typed, Labour
      <4>9. CASE StopInvoices(w)
        BY <1>0, <3>1, <4>9 DEF StopInvoices, Become, Typed, Labour
      <4>10. ASSUME NEW k \in Chunks, MakeInvoice(w, k) PROVE Placed(worker'[w])
        BY <1>0, <3>1, <4>10 DEF MakeInvoice, Become, Typed, Labour
      <4> QED
        BY <1>2, <4>1, <4>2, <4>3, <4>4, <4>5, <4>6, <4>7, <4>8, <4>9, <4>10 DEF WorkerStep
    <3> QED
      BY <1>2, <1>a, <2>1, <3>2, WorkerMoves DEF PlacesOK, Moved, IdleWorker
  <2> QED
    BY <2>6, <2>7, <2>8
<1> QED
  BY <1>1, <1>2

LEMMA KillLinks ==
  ASSUME Typed, Links, ManagersOK, PlacesOK, Kill
  PROVE  Links' /\ ManagersOK' /\ PlacesOK'
<1>1. CASE \E m \in Managers : manager' = [manager EXCEPT ![m] = IdleManager] /\ UNCHANGED << director, worker >>
  <2>1. PICK m \in Managers : manager' = [manager EXCEPT ![m] = IdleManager] /\ UNCHANGED << director, worker >>
    BY <1>1
  <2>2. manager'[m].pc = "idle" /\ \A n \in Managers \ {m} : manager'[n] = manager[n]
    BY <2>1 DEF Typed, IdleManager
  <2> QED
    BY <2>1, <2>2 DEF Kill, Links, ManagersOK, PlacesOK, NoJobs, rows, history
<1>2. CASE \E d \in CampaignCrons : Direct(d, IdleDirector) /\ UNCHANGED << manager, worker >>
  <2>1. PICK d \in CampaignCrons : Direct(d, IdleDirector) /\ UNCHANGED << manager, worker >>
    BY <1>2
  <2>2. director'[d].pc = "idle" /\ director'[d].pool = None
    BY <2>1, DirectFacts DEF IdleDirector
  <2>3. \A e \in CampaignCrons \ {d} : director'[e] = director[e]
    BY <2>1, DirectFacts
  <2> QED
    BY <2>1, <2>2, <2>3, Names DEF Kill, Links, ManagersOK, PlacesOK, NoJobs, rows, history
<1>3. CASE \E w \in PoolCrons : Become(w, IdleWorker) /\ UNCHANGED << manager, director >>
  <2>1. PICK w \in PoolCrons : Become(w, IdleWorker) /\ UNCHANGED << manager, director >>
    BY <1>3
  <2>2. worker'[w].pc = "idle" /\ worker'[w].job = None
    BY <2>1, BecomeFacts DEF IdleWorker
  <2>3. \A v \in PoolCrons \ {w} : worker'[v] = worker[v]
    BY <2>1, BecomeFacts
  <2> QED
    BY <2>1, <2>2, <2>3 DEF Kill, Links, ManagersOK, PlacesOK, NoJobs, rows, history
<1> QED
  BY <1>1, <1>2, <1>3 DEF Kill
-----------------------------------------------------------------------------
(* A pool that no step touches stays as it is.                             *)
Same(p) ==
    /\ pool'[p] = pool[p] /\ campaign'[p] = campaign[p] /\ users'[p] = users[p]
    /\ lines'[p] = lines[p] /\ invoiced'[p] = invoiced[p]
    /\ \A j \in Jobs : job[j].pool = p \/ job'[j].pool = p => job'[j] = job[j]
    /\ \A d \in CampaignCrons :
           director[d].pool = p \/ director'[d].pool = p => director'[d] = director[d]
    /\ \A w \in PoolCrons : At(w, p) \/ At(w, p)' => worker'[w] = worker[w]

LEMMA AboutJobs ==
  ASSUME Typed, NEW w \in PoolCrons
  PROVE  worker[w].job # None => worker[w].job \in Jobs
BY DEF Typed, Labour

LEMMA AboutJobsNext ==
  ASSUME Typed', NEW w \in PoolCrons
  PROVE  worker'[w].job # None => worker'[w].job \in Jobs
BY DEF Typed, Labour

LEMMA Frame ==
  ASSUME Typed, Typed', NEW p \in Pools, Same(p), CampaignOK(p)
  PROVE  CampaignOK(p)'
<1>1. \A j \in Jobs : /\ job[j].pool = p <=> job'[j].pool = p
                      /\ job[j].pool = p => job'[j] = job[j]
  BY DEF Same
<1>2. \A d \in CampaignCrons : /\ director[d].pool = p <=> director'[d].pool = p
                               /\ director[d].pool = p => director'[d] = director[d]
  BY DEF Same
<1>3. \A w \in PoolCrons : /\ At(w, p) <=> At(w, p)'
                           /\ At(w, p) => /\ worker'[w] = worker[w] /\ worker[w].job \in Jobs
                                          /\ job'[worker[w].job] = job[worker[w].job]
  BY <1>1, AboutJobs, AboutJobsNext DEF Same, At, PoolOf
<1>4. \A w \in PoolCrons, j \in Jobs : job[j].pool = p =>
        (Active(w, j)' <=> Active(w, j)) /\ (Active(w, j) => worker'[w] = worker[w])
  <2> SUFFICES ASSUME NEW w \in PoolCrons, NEW j \in Jobs, job[j].pool = p
               PROVE  (Active(w, j)' <=> Active(w, j)) /\ (Active(w, j) => worker'[w] = worker[w])
    OBVIOUS
  <2>1. worker[w].job = j => At(w, p)
    BY Names DEF At, PoolOf
  <2>2. worker'[w].job = j => At(w, p)'
    BY <1>1, Names DEF At, PoolOf
  <2> QED
    BY <2>1, <2>2, <1>3 DEF Active
<1>5. /\ pool'[p] = pool[p] /\ campaign'[p] = campaign[p] /\ users'[p] = users[p]
      /\ lines'[p] = lines[p] /\ invoiced'[p] = invoiced[p]
      /\ Exists(p)' <=> Exists(p)
  BY DEF Same, Exists
<1>6. NoJobs(p)' <=> NoJobs(p)
  BY <1>1 DEF NoJobs
<1>7. Fresh(p)' <=> Fresh(p)
  BY <1>5, <1>6 DEF Fresh
<1>8. \A T : SplitSoFar(p, T)' <=> SplitSoFar(p, T)
  BY <1>1, <1>5 DEF SplitSoFar
<1>9. Broken(p)' <=> Broken(p)
  BY <1>1, <1>4 DEF Broken
<1>10. AllDone(p)' <=> AllDone(p)
  BY <1>1 DEF AllDone
<1>11. Over(p)' <=> Over(p)
  BY <1>1, <1>4 DEF Over
<1>12. Late(p)' <=> Late(p)
  BY <1>1, <1>4 DEF Late
<1>13. (Whole(p)' <=> Whole(p)) /\ (Billed(p)' <=> Billed(p))
  BY <1>5 DEF Whole, Billed
<1>14. DirectorsOK(p)'
  BY <1>2, <1>5, <1>7, <1>8 DEF CampaignOK, DirectorsOK, Working
<1>15. JobsOK(p)'
  BY <1>1, <1>2, <1>5 DEF CampaignOK, JobsOK, Working
<1>16. WorkersOK(p)'
  <2> SUFFICES ASSUME NEW w \in PoolCrons, At(w, p)'
               PROVE  (/\ Exists(p)
                       /\ worker[w].pc # "start" =>
                            /\ job[worker[w].job].status = "running"
                            /\ \A v \in PoolCrons : Active(v, worker[w].job) => v = w)'
    BY DEF WorkersOK
  <2>1. At(w, p) /\ worker'[w] = worker[w] /\ worker[w].job \in Jobs
        /\ job'[worker[w].job] = job[worker[w].job] /\ job[worker[w].job].pool = p
    BY <1>3 DEF At, PoolOf
  <2>2. \A v \in PoolCrons : Active(v, worker[w].job)' => Active(v, worker[w].job)
    BY <1>4, <2>1 DEF Active
  <2> QED
    BY <1>5, <2>1, <2>2 DEF CampaignOK, WorkersOK
<1>17. PoolOK(p)'
  BY <1>2, <1>5, <1>6, <1>9, <1>10, <1>11, <1>13 DEF CampaignOK, PoolOK
<1>18. LinesOK(p)'
  BY <1>1, <1>4, <1>5, <1>9, <1>12 DEF CampaignOK, LinesOK
<1>19. LastOK(p)'
  BY <1>3, <1>5, <1>10, <1>13 DEF CampaignOK, LastOK
<1> QED
  BY <1>14, <1>15, <1>16, <1>17, <1>18, <1>19 DEF CampaignOK
-----------------------------------------------------------------------------
(* The managers.                                                           *)
LEMMA NothingThere ==
  ASSUME Typed', NEW p \in Pools, Fresh(p)', \A d \in CampaignCrons : director'[d].pool # p,
         pool'[p] \in {"registered", "failed"}, campaign'[p] = "registered" => pool'[p] = "registered"
  PROVE  CampaignOK(p)'
<1>1. NoJobs(p)'
  BY DEF Fresh
<1>2. \A w \in PoolCrons : ~At(w, p)'
  BY <1>1, AboutJobsNext DEF At, PoolOf, NoJobs
<1>3. DirectorsOK(p)'
  BY DEF DirectorsOK
<1>4. JobsOK(p)' /\ WorkersOK(p)' /\ LastOK(p)'
  BY <1>1, <1>2 DEF JobsOK, WorkersOK, LastOK, NoJobs
<1>5. PoolOK(p)'
  BY <1>1 DEF PoolOK
<1>6. LinesOK(p)'
  BY <1>1 DEF LinesOK, Fresh, NoJobs
<1> QED
  BY <1>3, <1>4, <1>5, <1>6 DEF CampaignOK

LEMMA ManagerOK ==
  ASSUME Typed, Typed', Links, ManagersOK, NEW m \in Managers, ManagerNext(m),
         NEW p \in Pools, p \notin raced', p \notin stopped', CampaignOK(p)
  PROVE  CampaignOK(p)'
<1>0. manager[m] \in Managing /\ UNCHANGED << director, worker, users >>
  BY DEF Typed, ManagerNext, CheckAdd, CreatePool, InitPool, CheckStop, StopPool,
         CheckDelete, DeletePool, history
<1>1. CASE CheckAdd(m) \/ \E q \in Pools : CheckStop(m, q) \/ CheckDelete(m, q)
  <2>1. Same(p)
    BY <1>0, <1>1 DEF CheckAdd, CheckStop, CheckDelete, Same, rows
  <2> QED
    BY <2>1, Frame
<1>2. CASE CreatePool(m)
  <2>1. PICK q \in Pools : pool[q] = "none" /\ SavePoolAs(q, "registered")
    BY <1>2 DEF CreatePool
  <2>2. pool'[q] = "registered" /\ \A r \in Pools \ {q} : pool'[r] = pool[r]
    BY <2>1, PoolFacts
  <2>3. UNCHANGED << campaign, job, lines, invoiced >>
    BY <1>2 DEF CreatePool
  <2>4. CASE p # q
    <3>1. Same(p)
      BY <1>0, <2>2, <2>3, <2>4 DEF Same
    <3> QED
      BY <3>1, Frame
  <2>5. CASE p = q
    <3>1. campaign[p] = "none" /\ Fresh(p) /\ \A d \in CampaignCrons : director[d].pool # p
      BY <2>1, <2>5 DEF ManagersOK, CampaignOK, DirectorsOK
    <3>2. Fresh(p)'
      BY <1>0, <2>3, <3>1 DEF Fresh, NoJobs
    <3> QED
      BY <1>0, <2>2, <2>3, <2>5, <3>1, <3>2, NothingThere
  <2> QED
    BY <2>4, <2>5
<1>3. CASE InitPool(m)
  <2> DEFINE q == manager[m].pool
  <2>1. /\ q \in Pools /\ campaign[q] = "none"
        /\ pool[q] = "registered" \/ q \in stopped
    BY <1>0, <1>3 DEF InitPool, ManagersOK, Managing
  <2>2. UNCHANGED << job, lines, invoiced, stopped >>
    BY <1>3 DEF InitPool, history
  <2>3. \A r \in Pools \ {q} : pool'[r] = pool[r] /\ campaign'[r] = campaign[r]
    BY <1>3, <2>1 DEF InitPool, SavePoolAs, Typed
  <2>4. CASE p # q
    <3>1. Same(p)
      BY <1>0, <2>2, <2>3, <2>4 DEF Same
    <3> QED
      BY <3>1, Frame
  <2>5. CASE p = q
    <3>1. Fresh(p) /\ \A d \in CampaignCrons : director[d].pool # p
      BY <2>1, <2>5 DEF ManagersOK, CampaignOK, DirectorsOK
    <3>2. Fresh(p)'
      BY <1>0, <2>2, <3>1 DEF Fresh, NoJobs
    <3>3. /\ pool'[p] \in {"registered", "failed"}
          /\ campaign'[p] = "registered" => pool'[p] = "registered"
      BY <1>3, <2>1, <2>2, <2>5 DEF InitPool, SavePoolAs, Typed
    <3> QED
      BY <1>0, <3>1, <3>2, <3>3, NothingThere
  <2> QED
    BY <2>4, <2>5
<1>5. CASE StopPool(m)
  <2>1. manager[m].pool \in Pools /\ p # manager[m].pool
    BY <1>0, <1>5 DEF StopPool, ManagersOK, Managing
  <2>2. Same(p)
    BY <1>0, <1>5, <2>1, PoolFacts DEF StopPool, Same
  <2> QED
    BY <2>2, Frame
<1>4. CASE DeletePool(m)
  <2> DEFINE q == manager[m].pool
  <2>1. q \in Pools /\ pool[q] \notin {"none", "registered"}
    BY <1>0, <1>4 DEF DeletePool, ManagersOK, Managing
  <2>2. pool'[q] = "deleted" /\ \A r \in Pools \ {q} : pool'[r] = pool[r]
    BY <1>4, <2>1, PoolFacts DEF DeletePool
  <2>3. /\ campaign' = campaign
        /\ lines'[q] = [k \in Chunks |-> 0] /\ \A r \in Pools \ {q} : lines'[r] = lines[r]
        /\ invoiced'[q] = [k \in Chunks |-> 0] /\ \A r \in Pools \ {q} : invoiced'[r] = invoiced[r]
    BY <1>4, <2>1 DEF DeletePool, Typed
  <2>4. CASE p # q
    <3>1. \A j \in Jobs : job[j].pool = p \/ job'[j].pool = p => job'[j] = job[j]
      BY <1>4, <2>4, DeleteFacts
    <3>2. Same(p)
      BY <1>0, <2>2, <2>3, <2>4, <3>1 DEF Same
    <3> QED
      BY <3>2, Frame
  <2>5. CASE p = q
    <3>1. ~AtWork(p)
      BY <1>4, <2>5 DEF DeletePool
    <3>2. \A d \in CampaignCrons : director'[d].pool # p
      BY <1>0, <3>1 DEF AtWork
    <3>3. \A w \in PoolCrons : ~At(w, p)'
      <4>1. ASSUME NEW w \in PoolCrons, At(w, p)' PROVE FALSE
        <5>1. worker[w].job # None /\ worker[w].job \in Jobs
              /\ job'[worker[w].job].pool = p
          BY <1>0, <4>1, AboutJobs DEF At, PoolOf
        <5>2. job[worker[w].job].pool = p
          BY <1>4, <5>1, DeleteFacts
        <5> QED
          BY <3>1, <5>1, <5>2 DEF AtWork
      <4> QED
        BY <4>1
    <3>4. campaign[p] # "registered" /\ (campaign[p] = "none" => Fresh(p))
      BY <2>1, <2>5 DEF CampaignOK, DirectorsOK
    <3>5. \A j \in Jobs : /\ job'[j].pool = job[j].pool /\ job'[j].chunk = job[j].chunk
                          /\ job[j].pool = p => job'[j].status = "deleted"
      <4> SUFFICES ASSUME NEW j \in Jobs
                   PROVE  /\ job'[j].pool = job[j].pool /\ job'[j].chunk = job[j].chunk
                          /\ job[j].pool = p => job'[j].status = "deleted"
        OBVIOUS
      <4>1. job[j].pool = p => job[j].status # "none"
        BY Names DEF Links
      <4> QED
        BY <1>4, <2>5, <4>1, DeleteFacts DEF Absent
    <3>6. Fresh(p) => Fresh(p)'
      BY <1>0, <2>3, <2>5, <3>5 DEF Fresh, NoJobs
    <3>7. DirectorsOK(p)'
      BY <2>2, <2>3, <2>5, <3>2, <3>4, <3>6 DEF DirectorsOK
    <3>8. JobsOK(p)'
      BY <1>0, <2>2, <2>5, <3>2, <3>5 DEF CampaignOK, JobsOK
    <3>9. WorkersOK(p)' /\ LastOK(p)'
      BY <3>3 DEF WorkersOK, LastOK
    <3>10. PoolOK(p)' /\ LinesOK(p)'
      BY <2>2, <2>5 DEF PoolOK, LinesOK, Exists, Absent
    <3> QED
      BY <3>7, <3>8, <3>9, <3>10 DEF CampaignOK
  <2> QED
    BY <2>4, <2>5
<1> QED
  BY <1>1, <1>2, <1>3, <1>4, <1>5 DEF ManagerNext
-----------------------------------------------------------------------------
(* The directors.                                                          *)
LEMMA DirectorElsewhere ==
  ASSUME Typed, Links, NEW d \in CampaignCrons, DirectorStep(d),
         NEW q \in Pools, q # director[d].pool
  PROVE  Same(q)
<1>1. \A j \in Jobs : job[j].pool = q \/ job'[j].pool = q => job'[j] = job[j]
  BY DirectorMoves, Names DEF Links
<1>2. q # None
  BY Names
<1>3. \A e \in CampaignCrons : director[e].pool = q \/ director'[e].pool = q => director'[e] = director[e]
  BY <1>2, DirectorMoves DEF IdleDirector
<1> QED
  BY <1>1, <1>3, DirectorMoves DEF Same

LEMMA SameWork ==
  ASSUME NEW p \in Pools, UNCHANGED << job, worker >>
  PROVE  /\ NoJobs(p)' <=> NoJobs(p)
         /\ Broken(p)' <=> Broken(p)
         /\ AllDone(p)' <=> AllDone(p)
         /\ Over(p)' <=> Over(p)
         /\ Late(p)' <=> Late(p)
         /\ \A w \in PoolCrons : At(w, p)' <=> At(w, p)
         /\ \A w \in PoolCrons, j \in Jobs : Active(w, j)' <=> Active(w, j)
BY DEF NoJobs, Broken, AllDone, Over, Late, At, PoolOf, Active

LEMMA CampaignCronOK ==
  ASSUME Typed, Typed', Links, NEW d \in CampaignCrons, CampaignCron(d),
         NEW p \in Pools, CampaignOK(p)
  PROVE  CampaignOK(p)'
<1>1. PICK q \in Pools :
        /\ campaign[q] = "registered"
        /\ director'[d] = [pc |-> "start", pool |-> q, todo |-> {}, result |-> "completed"]
  BY CronFacts
<1>2. director[d].pool = None /\ p # None /\ director'[d].pool = q /\ director'[d].pc = "start"
  BY <1>1, CronFacts, Names DEF Links
<1>3. CASE p # q
  <2>1. Same(p)
    BY <1>2, <1>3, CronFacts DEF Same
  <2> QED
    BY <2>1, Frame
<1>4. CASE p = q
  <2>1. pool[p] = "registered" /\ Fresh(p)
    BY <1>1, <1>4 DEF CampaignOK, DirectorsOK
  <2>2. Fresh(p)'
    BY <2>1, CronFacts DEF Fresh, NoJobs
  <2>3. \A e \in CampaignCrons : director[e].pool = p => ~Working(e)
    BY <1>1, <1>4 DEF CampaignOK, DirectorsOK
  <2>4. \A e \in CampaignCrons : director'[e].pool = p => ~Working(e)'
    BY <1>2, <2>3, CronFacts DEF Working
  <2>5. DirectorsOK(p)'
    BY <1>1, <1>4, <2>1, <2>2, <2>4, CronFacts DEF DirectorsOK, Exists, Absent, Working
  <2>6. JobsOK(p)' /\ NoJobs(p)'
    BY <2>2 DEF JobsOK, Fresh, NoJobs
  <2>7. WorkersOK(p)' /\ LastOK(p)' /\ LinesOK(p)' /\ PoolOK(p)'
    <3>1. \A w \in PoolCrons : ~At(w, p)'
      BY <2>6, AboutJobsNext DEF At, PoolOf, NoJobs
    <3>2. pool'[p] = "registered"
      BY <2>1, CronFacts
    <3> QED
      BY <2>2, <2>6, <3>1, <3>2 DEF WorkersOK, LastOK, LinesOK, PoolOK, Fresh, NoJobs
  <2> QED
    BY <2>5, <2>6, <2>7 DEF CampaignOK
<1> QED
  BY <1>3, <1>4

LEMMA StartCampaignOK ==
  ASSUME Typed, Typed', Links, NEW d \in CampaignCrons, StartCampaign(d),
         NEW p \in Pools, p = director[d].pool, p \notin raced', CampaignOK(p)
  PROVE  CampaignOK(p)'
<1>1. campaign[p] = "registered" /\ director[d].pc = "start"
  BY DEF StartCampaign
<1>2. pool[p] = "registered" /\ Fresh(p) /\ \A e \in CampaignCrons : director[e].pool = p => ~Working(e)
  BY <1>1 DEF CampaignOK, DirectorsOK
<1>3. /\ campaign'[p] = "running" /\ UNCHANGED << pool, job, lines, invoiced, users, worker >>
      /\ director'[d].pc = "prepare" /\ director'[d].pool = p
      /\ \A e \in CampaignCrons \ {d} : director'[e] = director[e]
  BY DEF StartCampaign, Direct, Typed, Directing
<1>4. Fresh(p)' /\ NoJobs(p)'
  BY <1>2, <1>3 DEF Fresh, NoJobs
<1>5. \A e \in CampaignCrons : director'[e].pool = p /\ Working(e)' => e = d
  BY <1>2, <1>3 DEF Working
<1>6. DirectorsOK(p)'
  BY <1>2, <1>3, <1>4, <1>5 DEF DirectorsOK, Exists, Absent, Working
<1>7. JobsOK(p)' /\ WorkersOK(p)' /\ LastOK(p)' /\ LinesOK(p)' /\ PoolOK(p)'
  <2>1. \A w \in PoolCrons : ~At(w, p)'
    BY <1>4, AboutJobsNext DEF At, PoolOf, NoJobs
  <2>2. pool'[p] = "registered"
    BY <1>2, <1>3
  <2> QED
    BY <1>4, <2>1, <2>2 DEF JobsOK, WorkersOK, LastOK, LinesOK, PoolOK, Fresh, NoJobs
<1> QED
  BY <1>6, <1>7 DEF CampaignOK

LEMMA CheckDraftOK ==
  ASSUME Typed, Typed', Links, NEW d \in CampaignCrons, CheckDraft(d),
         NEW p \in Pools, p = director[d].pool, CampaignOK(p)
  PROVE  CampaignOK(p)'
<1>1. director[d].pc = "prepare"
  BY DEF CheckDraft
<1>2. /\ UNCHANGED << pool, campaign, job, lines, invoiced, users, worker >>
      /\ director'[d].pc \in {"run", "end"} /\ director'[d].pool = p
      /\ director'[d].pc = "run" => pool[p] = "registered"
      /\ \A e \in CampaignCrons \ {d} : director'[e] = director[e]
  BY DEF CheckDraft, Direct, Typed, Directing, rows, history
<1>3. Working(d) /\ \A e \in CampaignCrons : Working(e)' => Working(e)
  BY <1>1, <1>2 DEF Working
<1>4. Fresh(p)' <=> Fresh(p)
  BY <1>2 DEF Fresh, NoJobs
<1>5. \A T : SplitSoFar(p, T)' <=> SplitSoFar(p, T)
  BY <1>2 DEF SplitSoFar
<1>6. DirectorsOK(p)'
  BY <1>1, <1>2, <1>3, <1>4, <1>5 DEF CampaignOK, DirectorsOK, Exists
<1>7. JobsOK(p)'
  BY <1>1, <1>2, <1>3 DEF CampaignOK, JobsOK
<1>8. WorkersOK(p)'
  BY <1>2, SameWork DEF CampaignOK, WorkersOK, Exists, At, PoolOf, Active
<1>9. PoolOK(p)'
  BY <1>1, <1>2, SameWork DEF CampaignOK, PoolOK, Whole, Billed
<1>10. LinesOK(p)'
  BY <1>2, SameWork DEF CampaignOK, LinesOK, Exists, Active
<1>11. LastOK(p)'
  BY <1>2, SameWork DEF CampaignOK, LastOK, Whole, Billed
<1> QED
  BY <1>6, <1>7, <1>8, <1>9, <1>10, <1>11 DEF CampaignOK

\* No job, no worker: what is left to show is about the director.
LEMMA NoWork ==
  ASSUME Typed', NEW p \in Pools, NoJobs(p)', DirectorsOK(p)',
         \A k \in Chunks : lines'[p][k] = 0 /\ invoiced'[p][k] = 0,
         pool'[p] # "completed",
         pool'[p] = "failed" => \A d \in CampaignCrons :
             director'[d].pool = p => director'[d].pc \notin {"run", "users", "split"}
  PROVE  CampaignOK(p)'
<1>1. \A w \in PoolCrons : ~At(w, p)'
  BY AboutJobsNext DEF At, PoolOf, NoJobs
<1>2. JobsOK(p)' /\ WorkersOK(p)' /\ LastOK(p)'
  BY <1>1 DEF JobsOK, WorkersOK, LastOK, NoJobs
<1>3. PoolOK(p)' /\ LinesOK(p)'
  BY DEF PoolOK, LinesOK, NoJobs
<1> QED
  BY <1>2, <1>3 DEF CampaignOK

LEMMA RunPoolOK ==
  ASSUME Typed, Typed', Links, NEW d \in CampaignCrons, RunPool(d),
         NEW p \in Pools, p = director[d].pool, CampaignOK(p)
  PROVE  CampaignOK(p)'
<1>1. director[d].pc = "run" /\ Working(d)
  BY DEF RunPool, Working
<1>2. /\ UNCHANGED << campaign, job, lines, invoiced, users, worker >>
      /\ director'[d].pc = "users" /\ director'[d].pool = p
      /\ \A e \in CampaignCrons \ {d} : director'[e] = director[e]
  BY DEF RunPool, Direct, Typed, Directing, history
<1>3. pool'[p] = "running"
  BY DEF RunPool, SavePoolAs, Typed
<1>4. /\ pool[p] = "registered" /\ Fresh(p) /\ campaign[p] = "running"
      /\ \A e \in CampaignCrons : director[e].pool = p /\ Working(e) => e = d
  BY <1>1 DEF CampaignOK, DirectorsOK
<1>5. Fresh(p)' /\ NoJobs(p)'
  BY <1>2, <1>4 DEF Fresh, NoJobs
<1>6. \A e \in CampaignCrons : director'[e].pool = p /\ Working(e)' => e = d
  BY <1>2, <1>4 DEF Working
<1>7. DirectorsOK(p)'
  BY <1>2, <1>3, <1>4, <1>5, <1>6 DEF DirectorsOK, Exists, Absent, Working
<1> QED
  BY <1>3, <1>5, <1>7, NoWork DEF Fresh

LEMMA GetUsersOK ==
  ASSUME Typed, Typed', Links, NEW d \in CampaignCrons, GetUsers(d),
         NEW p \in Pools, p = director[d].pool, CampaignOK(p)
  PROVE  CampaignOK(p)'
<1>1. director[d].pc = "users" /\ Working(d)
  BY DEF GetUsers, Working
<1>2. UNCHANGED << campaign, job, lines, invoiced, worker >>
  BY DEF GetUsers
<1>3. /\ pool[p] = "running" /\ Fresh(p) /\ campaign[p] = "running"
      /\ \A e \in CampaignCrons : director[e].pool = p /\ Working(e) => e = d
  BY <1>1 DEF CampaignOK, DirectorsOK
<1>4. NoJobs(p)' /\ \A k \in Chunks : lines'[p][k] = 0 /\ invoiced'[p][k] = 0
  BY <1>2, <1>3 DEF Fresh, NoJobs
<1>5. ASSUME NEW n \in 0..MaxChunks, users' = [users EXCEPT ![p] = Dealt(n)],
             Direct(d, [director[d] EXCEPT !.pc = "split", !.todo = Dealt(n)]),
             SavePoolAs(p, "running")
      PROVE  CampaignOK(p)'
  <2>1. /\ director'[d].pc = "split" /\ director'[d].pool = p /\ director'[d].todo = Dealt(n)
        /\ \A e \in CampaignCrons \ {d} : director'[e] = director[e]
    BY <1>5 DEF Direct, Typed, Directing
  <2>2. pool'[p] = "running" /\ users'[p] = Dealt(n)
    BY <1>5, PoolFacts DEF Typed
  <2>3. \A e \in CampaignCrons : director'[e].pool = p /\ Working(e)' => e = d
    BY <1>3, <2>1 DEF Working
  <2>4. SplitSoFar(p, director[d].todo)'
    BY <1>4, <2>1, <2>2 DEF SplitSoFar, NoJobs
  <2>5. DirectorsOK(p)'
    BY <1>2, <1>3, <2>1, <2>2, <2>3, <2>4 DEF DirectorsOK, Exists, Absent, Working
  <2> QED
    BY <1>4, <2>2, <2>5, NoWork
<1>6. ASSUME Direct(d, [director[d] EXCEPT !.pc = "end", !.result = "failed"]),
             SavePoolAs(p, "failed"), users' = users
      PROVE  CampaignOK(p)'
  <2>1. /\ director'[d].pc = "end" /\ director'[d].pool = p
        /\ \A e \in CampaignCrons \ {d} : director'[e] = director[e]
    BY <1>6 DEF Direct, Typed, Directing
  <2>2. pool'[p] = "failed"
    BY <1>6, PoolFacts
  <2>3. \A e \in CampaignCrons : director'[e].pool = p /\ Working(e)' => e = d
    BY <1>3, <2>1 DEF Working
  <2>4. DirectorsOK(p)'
    BY <1>2, <1>3, <2>1, <2>2, <2>3 DEF DirectorsOK, Exists, Absent, Working
  <2>5. \A e \in CampaignCrons : director'[e].pool = p => director'[e].pc \notin {"run", "users", "split"}
    BY <2>1, <2>3 DEF Working
  <2> QED
    BY <1>4, <2>2, <2>4, <2>5, NoWork
<1> QED
  BY <1>5, <1>6 DEF GetUsers

LEMMA EndCampaignOK ==
  ASSUME Typed, Typed', Links, NEW d \in CampaignCrons, EndCampaign(d),
         NEW p \in Pools, p = director[d].pool, CampaignOK(p)
  PROVE  CampaignOK(p)'
<1>1. director[d].pc = "end" /\ Working(d) /\ p # None
  BY Names DEF EndCampaign, Working
<1>2. UNCHANGED << pool, job, lines, invoiced, users, worker >>
  BY DEF EndCampaign, history
<1>3. director'[d].pc = "idle" /\ director'[d].pool = None
  BY DirectFacts DEF EndCampaign, IdleDirector
<1>4. \A e \in CampaignCrons \ {d} : director'[e] = director[e]
  BY DirectFacts DEF EndCampaign
<1>5. campaign'[p] \in {"completed", "failed"}
  BY DEF EndCampaign, Typed, Directing
<1>6. Exists(p) /\ \A e \in CampaignCrons : director[e].pool = p /\ Working(e) => e = d
  BY <1>1 DEF CampaignOK, DirectorsOK
<1>7. \A e \in CampaignCrons : director'[e].pool = p => ~Working(e)' /\ director[e].pool = p
  BY <1>1, <1>3, <1>4, <1>6 DEF Working
<1>8. Fresh(p)' <=> Fresh(p)
  BY <1>2 DEF Fresh, NoJobs
<1>9. DirectorsOK(p)'
  BY <1>2, <1>5, <1>6, <1>7, <1>8 DEF CampaignOK, DirectorsOK, Exists, Working
<1>10. JobsOK(p)'
  BY <1>2, <1>7 DEF CampaignOK, JobsOK
<1>11. WorkersOK(p)'
  BY <1>2, SameWork DEF CampaignOK, WorkersOK, Exists, At, PoolOf, Active
<1>12. PoolOK(p)'
  BY <1>2, <1>7, SameWork DEF CampaignOK, PoolOK, Whole, Billed, Working
<1>13. LinesOK(p)'
  BY <1>2, SameWork DEF CampaignOK, LinesOK, Exists, Active
<1>14. LastOK(p)'
  BY <1>2, SameWork DEF CampaignOK, LastOK, Whole, Billed
<1> QED
  BY <1>9, <1>10, <1>11, <1>12, <1>13, <1>14 DEF CampaignOK

LEMMA SplitOK ==
  ASSUME Typed, Typed', Links, NEW d \in CampaignCrons, Split(d),
         NEW p \in Pools, p = director[d].pool, CampaignOK(p)
  PROVE  CampaignOK(p)'
<1> DEFINE todo == director[d].todo
<1>0. todo \subseteq Chunks /\ director[d] \in Directing
  BY DEF Typed, Directing
<1>1. director[d].pc = "split" /\ Working(d)
  BY DEF Split, Working
<1>2. /\ Exists(p) /\ campaign[p] = "running" /\ SplitSoFar(p, todo) /\ pool[p] # "registered"
      /\ \A e \in CampaignCrons : director[e].pool = p /\ Working(e) => e = d
  BY <1>1 DEF CampaignOK, DirectorsOK
<1>3. UNCHANGED << pool, campaign, lines, invoiced, users, worker >>
  BY DEF Split, history
<1>4. PICK k \in Chunks \cup {Last} :
        /\ AddJob(p, k)
        /\ \A e \in CampaignCrons \ {d} : director'[e] = director[e]
        /\ director'[d].pool = p
        /\ \/ k = Last /\ todo = {} /\ director'[d].pc = "end"
           \/ k \in todo /\ director'[d].pc = "split" /\ director'[d].todo = todo \ {k}
  <2>1. CASE todo = {}
    <3>1. AddJob(p, Last) /\ Direct(d, [director[d] EXCEPT !.pc = "end"])
      BY <1>2, <2>1 DEF Split
    <3>2. /\ director'[d].pc = "end" /\ director'[d].pool = p
          /\ \A e \in CampaignCrons \ {d} : director'[e] = director[e]
      BY <1>0, <3>1 DEF Direct, Typed, Directing
    <3> QED
      BY <2>1, <3>1, <3>2
  <2>2. CASE todo # {}
    <3>1. PICK k \in todo : AddJob(p, k) /\ Direct(d, [director[d] EXCEPT !.todo = @ \ {k}])
      BY <1>2, <2>2 DEF Split
    <3>2. /\ director'[d].pc = "split" /\ director'[d].pool = p /\ director'[d].todo = todo \ {k}
          /\ \A e \in CampaignCrons \ {d} : director'[e] = director[e]
      BY <1>0, <1>1, <3>1 DEF Direct, Typed, Directing
    <3> QED
      BY <1>0, <3>1, <3>2
  <2> QED
    BY <2>1, <2>2
<1>5. PICK n \in Jobs : /\ job[n].status = "none"
                        /\ job'[n] = [pool |-> p, chunk |-> k, status |-> "registered"]
                        /\ \A j \in Jobs \ {n} : job'[j] = job[j]
  BY <1>4, AddJobFacts
<1>6. /\ job[n].pool # p /\ job'[n].pool = p /\ job'[n].chunk = k /\ job'[n].status = "registered"
      /\ p # None
  BY <1>5, Names DEF Links
<1>7. \A w \in PoolCrons : worker[w].job # n /\ ~Active(w, n)'
  BY <1>3, <1>5, Names DEF Links, Active
<1>8. \A w \in PoolCrons : /\ At(w, p)' <=> At(w, p)
                           /\ At(w, p) => /\ worker[w].job \in Jobs \ {n}
                                          /\ job'[worker[w].job] = job[worker[w].job]
  BY <1>3, <1>5, <1>6, <1>7, AboutJobs DEF At, PoolOf
<1>9. \A w \in PoolCrons, j \in Jobs : Active(w, j)' <=> Active(w, j)
  BY <1>3 DEF Active
<1>10. \A j \in Jobs : job[j].pool = p =>
         j # n /\ job[j].chunk \in users[p] \ todo /\ job[j].chunk # Last /\ job[j].chunk # k
  <2>1. users[p] \subseteq Chunks
    BY DEF Typed
  <2> QED
    BY <1>2, <1>4, <1>6, <2>1, Names DEF SplitSoFar
<1>11. ~Over(p) /\ ~Late(p)
  BY <1>10 DEF Over, Late
<1>12. Broken(p) => Broken(p)'
  <2> SUFFICES ASSUME Broken(p) PROVE Broken(p)'
    OBVIOUS
  <2>1. PICK j \in Jobs :
          /\ job[j].pool = p /\ job[j].chunk # Last
          /\ \/ job[j].status = "failed"
             \/ /\ job[j].status = "running"
                /\ \A w \in PoolCrons : Active(w, j) => worker[w].result = "failed"
    BY DEF Broken
  <2>2. job'[j] = job[j]
    BY <1>5, <1>6, <2>1
  <2> QED
    BY <1>3, <1>9, <2>1, <2>2 DEF Broken
<1>13. k \in todo => SplitSoFar(p, director[d].todo)'
  <2> DEFINE rest == todo \ {k}
  <2>1. todo \subseteq users[p] /\ rest \subseteq users[p] /\ (k \in todo \/ todo = {})
    BY <1>2, <1>4 DEF SplitSoFar
  <2>2. CASE k \in todo
    <3>1. \A j \in Jobs : job'[j].pool = p => job'[j].chunk \in users[p] \ rest
      BY <1>5, <1>6, <1>10, <2>1, <2>2
    <3>2. \A i \in users[p] \ rest : \E j \in Jobs : job'[j].pool = p /\ job'[j].chunk = i
      <4> SUFFICES ASSUME NEW i \in users[p] \ rest
                   PROVE  \E j \in Jobs : job'[j].pool = p /\ job'[j].chunk = i
        OBVIOUS
      <4>1. CASE i = k
        BY <1>6, <4>1
      <4>2. CASE i # k
        <5>1. PICK j \in Jobs : job[j].pool = p /\ job[j].chunk = i
          BY <1>2, <4>2 DEF SplitSoFar
        <5> QED
          BY <1>5, <1>10, <5>1
      <4> QED
        BY <4>1, <4>2
    <3> QED
      BY <1>3, <1>4, <2>1, <2>2, <3>1, <3>2 DEF SplitSoFar
  <2> QED
    BY <2>2, <1>4
<1>14. \A e \in CampaignCrons : director'[e].pool = p /\ Working(e)' => e = d
  BY <1>2, <1>4 DEF Working
<1>15. DirectorsOK(p)'
  <2>1. /\ pool'[p] \notin {"none", "registered"} /\ campaign'[p] = "running" /\ Exists(p)'
    BY <1>2, <1>3 DEF Exists, Absent
  <2>2. \A e \in CampaignCrons : director'[e].pool = p =>
          /\ Working(e)' => \A f \in CampaignCrons : director'[f].pool = p /\ Working(f)' => f = e
          /\ director'[e].pc \notin {"run", "users"}
          /\ director'[e].pc = "split" => SplitSoFar(p, director[e].todo)'
    BY <1>3, <1>4, <1>13, <1>14, Names DEF Working
  <2> QED
    BY <2>1, <2>2 DEF DirectorsOK
<1>16. JobsOK(p)'
  <2> SUFFICES ASSUME NEW j \in Jobs, job'[j].pool = p
               PROVE  (/\ job[j].status = "deleted" <=> pool[p] = "deleted"
                       /\ job[j].chunk # Last => job[j].chunk \in users[p]
                       /\ job[j].chunk = Last =>
                           /\ \A i \in users[p] : \E h \in Jobs : job[h].pool = p /\ job[h].chunk = i
                           /\ \A e \in CampaignCrons :
                               director[e].pool = p /\ Working(e) => director[e].pc = "end"
                       /\ \A i \in Jobs : job[i].pool = p /\ job[i].chunk = job[j].chunk => i = j)'
    BY DEF JobsOK
  <2>1. CASE j = n
    <3>1. pool[p] # "deleted"
      BY <1>2 DEF Exists, Absent
    <3>2. k # Last => k \in users[p]
      BY <1>2, <1>4 DEF SplitSoFar
    <3>3. \A i \in Jobs : job'[i].pool = p /\ job'[i].chunk = k => i = n
      BY <1>5, <1>10
    <3>4. k = Last => /\ \A i \in users[p] : \E h \in Jobs : job'[h].pool = p /\ job'[h].chunk = i
                      /\ \A e \in CampaignCrons :
                           director'[e].pool = p /\ Working(e)' => director'[e].pc = "end"
      <4> SUFFICES ASSUME k = Last
                   PROVE  /\ \A i \in users[p] : \E h \in Jobs : job'[h].pool = p /\ job'[h].chunk = i
                          /\ \A e \in CampaignCrons :
                               director'[e].pool = p /\ Working(e)' => director'[e].pc = "end"
        OBVIOUS
      <4>1. todo = {} /\ director'[d].pc = "end"
        BY <1>0, <1>4, Names
      <4>2. \A i \in users[p] : \E h \in Jobs : job[h].pool = p /\ job[h].chunk = i
        BY <1>2, <4>1 DEF SplitSoFar
      <4> QED
        BY <1>5, <1>6, <1>14, <4>1, <4>2
    <3> QED
      BY <1>3, <1>6, <2>1, <3>1, <3>2, <3>3, <3>4
  <2>2. CASE j # n
    <3>1. job'[j] = job[j] /\ job[j].pool = p /\ job[j].chunk # Last /\ job[j].chunk # k
      BY <1>5, <1>10, <2>2
    <3>2. \A i \in Jobs : job'[i].pool = p /\ job'[i].chunk = job[j].chunk => i = j
      BY <1>5, <1>6, <3>1 DEF CampaignOK, JobsOK
    <3> QED
      BY <1>3, <3>1, <3>2 DEF CampaignOK, JobsOK
  <2> QED
    BY <2>1, <2>2
<1>17. WorkersOK(p)'
  <2>1. \A w \in PoolCrons : At(w, p)' =>
          /\ At(w, p) /\ job'[worker[w].job] = job[worker[w].job]
          /\ \A v \in PoolCrons : Active(v, worker[w].job)' <=> Active(v, worker[w].job)
    BY <1>3, <1>8 DEF Active
  <2> QED
    BY <1>3, <2>1 DEF CampaignOK, WorkersOK, Exists, Active
<1>18. PoolOK(p)'
  <2>1. pool[p] = "failed" => Broken(p)
    BY <1>1, <1>11 DEF CampaignOK, PoolOK
  <2>2. pool[p] # "completed"
    BY <1>11 DEF CampaignOK, PoolOK
  <2> QED
    BY <1>3, <1>12, <2>1, <2>2 DEF PoolOK
<1>19. LinesOK(p)'
  <2>1. \A i \in Chunks : invoiced[p][i] = 0
    BY <1>2, <1>11 DEF CampaignOK, LinesOK
  <2>2. \A i \in Chunks :
          (\A j \in Jobs : job'[j].pool = p => job'[j].chunk # i) => lines[p][i] = 0
    <3> SUFFICES ASSUME NEW i \in Chunks, \A j \in Jobs : job'[j].pool = p => job'[j].chunk # i
                 PROVE  lines[p][i] = 0
      OBVIOUS
    <3>1. \A j \in Jobs : job[j].pool = p => job[j].chunk # i
      BY <1>5, <1>6
    <3> QED
      BY <1>2, <3>1 DEF CampaignOK, LinesOK
  <2>3. k # Last => lines[p][k] = 0
    BY <1>2, <1>10 DEF CampaignOK, LinesOK
  <2>4. \A j \in Jobs : job'[j].pool = p => (j = n \/ (job'[j] = job[j] /\ job[j].pool = p))
    BY <1>5
  <2>5. \A j \in Jobs : job'[j].pool = p /\ job'[j].chunk # Last =>
          /\ job'[j].status # "waiting"
          /\ job'[j].status = "registered" => lines[p][job'[j].chunk] = 0
          /\ job'[j].status = "completed" => lines[p][job'[j].chunk] = 1 \/ Broken(p)'
          /\ \A w \in PoolCrons : Active(w, j)' =>
                IF worker[w].pc \in {"load", "build"} THEN lines[p][job'[j].chunk] = 0
                ELSE worker[w].result = "completed" => lines[p][job'[j].chunk] = 1 \/ Broken(p)'
    BY <1>2, <1>6, <1>7, <1>9, <1>12, <2>3, <2>4 DEF CampaignOK, LinesOK
  <2> QED
    BY <1>3, <2>1, <2>2, <2>5 DEF LinesOK
<1>20. LastOK(p)'
  BY <1>3, <1>8, <1>10 DEF LastOK, At, PoolOf
<1> QED
  BY <1>15, <1>16, <1>17, <1>18, <1>19, <1>20 DEF CampaignOK
-----------------------------------------------------------------------------
(* The workers.                                                            *)
LEMMA WorkerRows ==
  ASSUME Typed, Links, NEW w \in PoolCrons, WorkerStep(w)
  PROVE  /\ UNCHANGED << campaign, manager, director, users >>
         /\ \A q \in Pools \ {PoolOf(w)} :
              pool'[q] = pool[q] /\ lines'[q] = lines[q] /\ invoiced'[q] = invoiced[q]
<1>1. PoolOf(w) \in Pools
  BY WorkerMoves, WorkerPool
<1>2. UNCHANGED << campaign, manager, director, users >>
  BY DEF WorkerStep, StartJob, LoadPool, Fail, EndJob, BuildLines, SavePool, CheckJobs,
         ReadLines, StopInvoices, MakeInvoice, rows, history
<1>3. pool' = pool \/ SavePoolAs(PoolOf(w), PoolResult(w))
  BY DEF WorkerStep, StartJob, LoadPool, Fail, EndJob, BuildLines, SavePool, CheckJobs,
         ReadLines, StopInvoices, MakeInvoice, rows
<1>4. lines' = lines \/ lines' = [lines EXCEPT ![PoolOf(w)][job[worker[w].job].chunk] = @ + 1]
  BY DEF WorkerStep, StartJob, LoadPool, Fail, EndJob, BuildLines, SavePool, CheckJobs,
         ReadLines, StopInvoices, MakeInvoice, rows
<1>5. invoiced' = invoiced
      \/ \E k \in Chunks : invoiced' = [invoiced EXCEPT ![PoolOf(w)][k] = @ + 1]
  BY DEF WorkerStep, StartJob, LoadPool, Fail, EndJob, BuildLines, SavePool, CheckJobs,
         ReadLines, StopInvoices, MakeInvoice, rows
<1>6. \A q \in Pools \ {PoolOf(w)} : pool'[q] = pool[q]
  BY <1>1, <1>3, PoolFacts
<1>7. \A q \in Pools \ {PoolOf(w)} : lines'[q] = lines[q]
  BY <1>1, <1>4 DEF Typed
<1>8. \A q \in Pools \ {PoolOf(w)} : invoiced'[q] = invoiced[q]
  BY <1>1, <1>5 DEF Typed
<1> QED
  BY <1>2, <1>6, <1>7, <1>8

LEMMA WorkerElsewhere ==
  ASSUME Typed, Typed', Links, NEW w \in PoolCrons, WorkerStep(w),
         NEW q \in Pools, q # PoolOf(w)
  PROVE  Same(q)
<1>1. worker[w].job \in Jobs /\ worker[w].job # None
  BY WorkerMoves, WorkerPool, Names
<1>2. \A j \in Jobs : job[j].pool = q \/ job'[j].pool = q => job'[j] = job[j]
  BY WorkerMoves DEF PoolOf
<1>3. \A v \in PoolCrons : At(v, q) \/ At(v, q)' => worker'[v] = worker[v]
  <2>1. ~At(w, q)
    BY DEF At
  <2>2. ~At(w, q)'
    BY <1>1, WorkerMoves DEF At, PoolOf, Moved, IdleWorker
  <2> QED
    BY <2>1, <2>2, WorkerMoves
<1> QED
  BY <1>2, <1>3, WorkerRows DEF Same

\* A step of a worker that leaves its job alone.
Moving(w) ==
    /\ job' = job
    /\ worker[w].pc \notin {"idle", "start", "end"}
    /\ worker'[w].job = worker[w].job /\ worker'[w].pc \notin {"idle", "start"}

LEMMA WorkerKinds ==
  ASSUME Typed, Links, NEW w \in PoolCrons, WorkerStep(w)
  PROVE  StartJob(w) \/ EndJob(w) \/ Moving(w)
<1>0. worker[w] \in Labour
  BY DEF Typed
<1>1. CASE LoadPool(w)
  BY <1>0, <1>1 DEF LoadPool, Moving, Become, Typed, Labour, rows
<1>2. CASE Fail(w)
  BY <1>0, <1>2 DEF Fail, Moving, Become, Typed, Labour, rows
<1>3. CASE BuildLines(w)
  BY <1>0, <1>3 DEF BuildLines, Moving, Become, Typed, Labour
<1>4. CASE SavePool(w)
  BY <1>0, <1>4 DEF SavePool, Moving, Become, Typed, Labour
<1>5. CASE CheckJobs(w)
  <2>1. worker[w].pc = "check" /\ job' = job
    BY <1>5 DEF CheckJobs, rows
  <2> QED
    BY <1>5, <2>1, CheckJobsFacts DEF Moving
<1>6. CASE ReadLines(w)
  BY <1>0, <1>6 DEF ReadLines, Moving, Become, Typed, Labour, rows
<1>7. CASE StopInvoices(w)
  BY <1>0, <1>7 DEF StopInvoices, Moving, Become, Typed, Labour, rows
<1>8. ASSUME NEW k \in Chunks, MakeInvoice(w, k) PROVE Moving(w)
  BY <1>0, <1>8 DEF MakeInvoice, Moving, Become, Typed, Labour
<1> QED
  BY <1>1, <1>2, <1>3, <1>4, <1>5, <1>6, <1>7, <1>8 DEF WorkerStep

LEMMA WorkerThere ==
  ASSUME Typed, Links, NEW w \in PoolCrons, worker[w].pc # "idle",
         NEW p \in Pools, p = PoolOf(w), CampaignOK(p)
  PROVE  /\ At(w, p) /\ worker[w].job \in Jobs /\ job[worker[w].job].pool = p
         /\ Exists(p) /\ ~NoJobs(p) /\ ~Fresh(p)
         /\ pool[p] \in {"running", "failed", "completed"}
         /\ campaign[p] \notin {"none", "registered"}
         /\ worker[w].pc # "start" =>
              /\ job[worker[w].job].status = "running"
              /\ Active(w, worker[w].job)
              /\ \A v \in PoolCrons : Active(v, worker[w].job) => v = w
<1>1. worker[w].job \in Jobs /\ worker[w].job # None /\ job[worker[w].job].pool = p /\ At(w, p)
  BY WorkerPool, Names DEF PoolOf, At
<1>2. ~NoJobs(p) /\ ~Fresh(p)
  BY <1>1 DEF NoJobs, Fresh
<1>3. Exists(p)
  BY <1>1 DEF CampaignOK, WorkersOK
<1>4. pool[p] \in PoolStatuses /\ pool[p] # "registered"
  BY <1>2 DEF CampaignOK, DirectorsOK, Typed
<1>5. campaign[p] \notin {"none", "registered"}
  BY <1>2, <1>4 DEF CampaignOK, DirectorsOK
<1>6. worker[w].pc # "start" =>
        /\ job[worker[w].job].status = "running"
        /\ \A v \in PoolCrons : Active(v, worker[w].job) => v = w
  BY <1>1 DEF CampaignOK, WorkersOK
<1> QED
  BY <1>1, <1>2, <1>3, <1>4, <1>5, <1>6 DEF Exists, Absent, PoolStatuses, Active

\* A worker at its job, in a pool that is not raced.
LEMMA PoolAfter ==
  ASSUME Typed, Typed', Links, PlacesOK, NEW w \in PoolCrons, WorkerStep(w),
         NEW p \in Pools, p = PoolOf(w), CampaignOK(p)
  PROVE  pool'[p] \in {"running", "failed", "completed"} /\ Exists(p)'
<1>1. pool[p] \in {"running", "failed", "completed"}
  BY WorkerThere, WorkerMoves
<1>2. pool' = pool \/ SavePoolAs(p, PoolResult(w))
  BY DEF WorkerStep, StartJob, LoadPool, Fail, EndJob, BuildLines, SavePool, CheckJobs,
         ReadLines, StopInvoices, MakeInvoice, rows
<1>3. CASE pool' = pool
  BY <1>1, <1>3 DEF Exists, Absent
<1>4. CASE SavePoolAs(p, PoolResult(w))
  <2>1. pool'[p] = PoolResult(w)
    BY <1>4, PoolFacts
  <2> QED
    BY <2>1 DEF PoolResult, Exists, Absent
<1> QED
  BY <1>2, <1>3, <1>4

LEMMA WorkerDirectors ==
  ASSUME Typed, Typed', Links, PlacesOK, NEW w \in PoolCrons, WorkerStep(w),
         NEW p \in Pools, p = PoolOf(w), CampaignOK(p)
  PROVE  DirectorsOK(p)'
<1>1. worker[w].job \in Jobs /\ job[worker[w].job].pool = p /\ ~Fresh(p)
      /\ campaign[p] \notin {"none", "registered"} /\ pool[p] \in {"running", "failed", "completed"}
  BY WorkerThere, WorkerMoves
<1>2. /\ UNCHANGED << campaign, director, users >>
      /\ \A j \in Jobs : job'[j].pool = job[j].pool /\ job'[j].chunk = job[j].chunk
  BY WorkerRows, WorkerMoves
<1>3. pool'[p] \in {"running", "failed", "completed"} /\ Exists(p)'
  BY PoolAfter
<1>4. \A d \in CampaignCrons : director[d].pool = p => director[d].pc \notin {"run", "users"}
  BY <1>1 DEF CampaignOK, DirectorsOK
<1>5. \A T : SplitSoFar(p, T) => SplitSoFar(p, T)'
  BY <1>2 DEF SplitSoFar
<1>6. \A d \in CampaignCrons : director[d].pool = p =>
        /\ Working(d) =>
            /\ campaign[p] = "running"
            /\ \A e \in CampaignCrons : director[e].pool = p /\ Working(e) => e = d
        /\ director[d].pc = "split" => SplitSoFar(p, director[d].todo)
  BY DEF CampaignOK, DirectorsOK
<1> QED
  BY <1>1, <1>2, <1>3, <1>4, <1>5, <1>6 DEF DirectorsOK, Working

LEMMA WorkerJobs ==
  ASSUME Typed, Typed', Links, PlacesOK, NEW w \in PoolCrons, WorkerStep(w),
         NEW p \in Pools, p = PoolOf(w), CampaignOK(p), job'[worker[w].job].status # "deleted"
  PROVE  JobsOK(p)'
<1>1. worker[w].job \in Jobs /\ job[worker[w].job].pool = p /\ pool[p] # "deleted"
  BY WorkerThere, WorkerMoves
<1>2. /\ UNCHANGED << director, users >>
      /\ \A j \in Jobs : job'[j].pool = job[j].pool /\ job'[j].chunk = job[j].chunk
      /\ \A j \in Jobs : j # worker[w].job => job'[j] = job[j]
  BY WorkerRows, WorkerMoves
<1>3. pool'[p] # "deleted"
  BY PoolAfter
<1>4. \A j \in Jobs : job[j].pool = p => job'[j].status # "deleted"
  BY <1>1, <1>2 DEF CampaignOK, JobsOK
<1> QED
  BY <1>2, <1>3, <1>4 DEF CampaignOK, JobsOK, Working

\* What the moves of a worker preserve.
LEMMA MovingFacts ==
  ASSUME Typed, Links, PlacesOK, NEW w \in PoolCrons, WorkerStep(w), Moving(w)
  PROVE  /\ worker[w].result = "failed" => worker'[w].result = "failed"
         /\ worker[w].pc \in {"invoice", "save"} =>
              worker'[w].pc \in {"invoice", "save", "end"} /\ worker'[w].result # "waiting"
<1>0. worker[w] \in Labour /\ worker[w].job # None
  BY DEF Typed, Links, Moving
<1>1. worker[w].pc \notin {"save", "end"} => worker[w].result = "completed"
  BY <1>0 DEF PlacesOK
<1>2. worker[w].pc = "save" => worker[w].result # "waiting"
  BY <1>0 DEF PlacesOK
<1>3. worker[w].pc \notin {"idle", "start", "end"}
  BY DEF Moving
<1>4. CASE LoadPool(w)
  BY <1>1, <1>4 DEF LoadPool
<1>5. CASE Fail(w)
  BY <1>0, <1>5 DEF Fail, Become, Typed, Labour
<1>6. CASE BuildLines(w)
  BY <1>1, <1>6 DEF BuildLines
<1>7. CASE SavePool(w)
  BY <1>0, <1>2, <1>7 DEF SavePool, Become, Typed, Labour
<1>8. CASE CheckJobs(w)
  BY <1>1, <1>8 DEF CheckJobs
<1>9. CASE ReadLines(w)
  BY <1>1, <1>9 DEF ReadLines
<1>10. CASE StopInvoices(w)
  BY <1>0, <1>1, <1>10 DEF StopInvoices, Become, Typed, Labour
<1>11. ASSUME NEW k \in Chunks, MakeInvoice(w, k)
       PROVE  /\ worker[w].result = "failed" => worker'[w].result = "failed"
              /\ worker[w].pc \in {"invoice", "save"} =>
                   worker'[w].pc \in {"invoice", "save", "end"} /\ worker'[w].result # "waiting"
  BY <1>0, <1>1, <1>11 DEF MakeInvoice, Become, Typed, Labour
<1> QED
  BY <1>3, <1>4, <1>5, <1>6, <1>7, <1>8, <1>9, <1>10, <1>11 DEF WorkerStep, StartJob, EndJob

LEMMA MovingActive ==
  ASSUME Typed, Links, NEW w \in PoolCrons, WorkerStep(w), Moving(w)
  PROVE  /\ \A v \in PoolCrons, q \in Pools : At(v, q)' <=> At(v, q)
         /\ \A v \in PoolCrons, j \in Jobs : Active(v, j)' <=> Active(v, j)
<1>1. /\ job' = job
      /\ worker'[w].job = worker[w].job
      /\ worker[w].pc \notin {"idle", "start"} /\ worker'[w].pc \notin {"idle", "start"}
      /\ \A v \in PoolCrons \ {w} : worker'[v] = worker[v]
  BY WorkerMoves DEF Moving
<1>2. ASSUME NEW v \in PoolCrons, NEW q \in Pools PROVE At(v, q)' <=> At(v, q)
  BY <1>1 DEF At, PoolOf
<1>3. ASSUME NEW v \in PoolCrons, NEW j \in Jobs PROVE Active(v, j)' <=> Active(v, j)
  BY <1>1 DEF Active
<1> QED
  BY <1>2, <1>3

LEMMA MovingKeeps ==
  ASSUME Typed, Typed', Links, PlacesOK, NEW w \in PoolCrons, WorkerStep(w), Moving(w),
         NEW p \in Pools
  PROVE  /\ Broken(p) => Broken(p)'
         /\ AllDone(p)' <=> AllDone(p)
         /\ Over(p) => Over(p)'
         /\ Late(p) => Late(p)'
<1>1. /\ job' = job
      /\ worker[w].pc # "end"
      /\ \A v \in PoolCrons \ {w} : worker'[v] = worker[v]
  BY WorkerMoves DEF Moving
<1>2. \A v \in PoolCrons, j \in Jobs : Active(v, j)' <=> Active(v, j)
  BY MovingActive
<1>3. Broken(p) => Broken(p)'
  <2> SUFFICES ASSUME NEW j \in Jobs, job[j].pool = p, job[j].chunk # Last,
                      \/ job[j].status = "failed"
                      \/ /\ job[j].status = "running"
                         /\ \A v \in PoolCrons : Active(v, j) => worker[v].result = "failed"
               PROVE  Broken(p)'
    BY DEF Broken
  <2>1. ASSUME NEW v \in PoolCrons, Active(v, j)', worker[v].result = "failed"
        PROVE  worker'[v].result = "failed"
    BY <1>1, <2>1, MovingFacts
  <2> QED
    BY <1>1, <1>2, <2>1 DEF Broken
<1>4. AllDone(p)' <=> AllDone(p)
  BY <1>1 DEF AllDone
<1>5. Over(p) => Over(p)'
  BY <1>1, <1>2 DEF Over
<1>6. Late(p) => Late(p)'
  <2> SUFFICES ASSUME NEW j \in Jobs, job[j].pool = p, job[j].chunk = Last,
                      \/ job[j].status \in {"failed", "completed"}
                      \/ /\ job[j].status = "running"
                         /\ \A v \in PoolCrons :
                              Active(v, j) => /\ worker[v].pc \in {"invoice", "save", "end"}
                                              /\ worker[v].result # "waiting"
               PROVE  Late(p)'
    BY DEF Late
  <2>1. ASSUME NEW v \in PoolCrons, worker[v].pc \in {"invoice", "save", "end"},
               worker[v].result # "waiting"
        PROVE  worker'[v].pc \in {"invoice", "save", "end"} /\ worker'[v].result # "waiting"
    BY <1>1, <2>1, MovingFacts
  <2> QED
    BY <1>1, <1>2, <2>1 DEF Late
<1> QED
  BY <1>3, <1>4, <1>5, <1>6

LEMMA MovingWorkers ==
  ASSUME Typed, Typed', Links, PlacesOK, NEW w \in PoolCrons, WorkerStep(w), Moving(w),
         NEW p \in Pools, p = PoolOf(w), CampaignOK(p)
  PROVE  DirectorsOK(p)' /\ JobsOK(p)' /\ WorkersOK(p)'
<1>1. /\ job' = job
      /\ worker'[w].job = worker[w].job /\ worker[w].pc # "start"
      /\ \A v \in PoolCrons \ {w} : worker'[v] = worker[v]
  BY WorkerMoves DEF Moving
<1>2. job[worker[w].job].status = "running"
  BY <1>1, WorkerThere, WorkerMoves
<1>3. DirectorsOK(p)' /\ JobsOK(p)'
  BY <1>1, <1>2, WorkerDirectors, WorkerJobs
<1>4. WorkersOK(p)'
  <2> SUFFICES ASSUME NEW v \in PoolCrons, At(v, p)'
               PROVE  /\ Exists(p)'
                      /\ worker'[v].pc # "start" =>
                           /\ job[worker'[v].job].status = "running"
                           /\ \A u \in PoolCrons : Active(u, worker[v].job)' => u = v
    BY <1>1 DEF WorkersOK, Active
  <2>1. At(v, p) /\ worker'[v].job = worker[v].job
    BY <1>1, MovingActive
  <2>2. worker[v].job \in Jobs
    BY <2>1, AboutJobs DEF At
  <2>3. worker'[v].pc # "start" => worker[v].pc # "start"
    BY <1>1
  <2>4. \A u \in PoolCrons : Active(u, worker[v].job)' => Active(u, worker[v].job)
    <3>1. \A u \in PoolCrons, j \in Jobs : Active(u, j)' <=> Active(u, j)
      BY MovingActive
    <3>2. \A u \in PoolCrons : Active(u, worker[v].job)' <=> (worker'[u].job = worker[v].job
                /\ worker'[u].pc \notin {"idle", "start"})
      BY <2>1 DEF Active
    <3> QED
      BY <2>2, <3>1, <3>2 DEF Active
  <2> QED
    BY <2>1, <2>3, <2>4, PoolAfter DEF CampaignOK, WorkersOK
<1> QED
  BY <1>3, <1>4

\* A worker moves on without writing to the rows: what is asked of it in particular.
LEMMA LocalMove ==
  ASSUME Typed, Typed', Links, PlacesOK, NEW w \in PoolCrons, WorkerStep(w), Moving(w),
         UNCHANGED << pool, lines, invoiced >>,
         NEW p \in Pools, p = PoolOf(w), CampaignOK(p),
         job[worker[w].job].chunk # Last =>
            IF worker'[w].pc \in {"load", "build"} THEN lines[p][job[worker[w].job].chunk] = 0
            ELSE worker'[w].result = "completed" =>
                    lines[p][job[worker[w].job].chunk] = 1 \/ Broken(p),
         job[worker[w].job].chunk = Last /\ worker'[w].pc \in {"read", "invoice", "save"} =>
            /\ AllDone(p)
            /\ worker'[w].result = "completed" =>
                /\ pool[p] = "running" /\ Whole(p)
                /\ worker'[w].pc = "invoice" => \A k \in users[p] :
                    IF k \in worker'[w].todo THEN invoiced[p][k] = 0 ELSE invoiced[p][k] = 1
                /\ worker'[w].pc = "save" => Billed(p)
  PROVE  CampaignOK(p)'
<1>1. /\ job' = job /\ UNCHANGED << campaign, director, users >>
      /\ worker'[w].job = worker[w].job
      /\ \A v \in PoolCrons \ {w} : worker'[v] = worker[v]
  BY WorkerMoves, WorkerRows DEF Moving
<1>2. /\ Broken(p) => Broken(p)'
      /\ AllDone(p)' <=> AllDone(p)
      /\ Over(p) => Over(p)'
      /\ Late(p) => Late(p)'
  BY MovingKeeps
<1>3. (Whole(p)' <=> Whole(p)) /\ (Billed(p)' <=> Billed(p)) /\ (Exists(p)' <=> Exists(p))
  BY <1>1 DEF Whole, Billed, Exists
<1>4. PoolOK(p)'
  BY <1>1, <1>2, <1>3 DEF CampaignOK, PoolOK, NoJobs
<1>5. LinesOK(p)'
  <2>1. \A j \in Jobs, v \in PoolCrons : Active(v, j)' <=> Active(v, j)
    BY MovingActive
  <2>2. \A j \in Jobs : Active(w, j) => j = worker[w].job
    BY DEF Active
  <2>3. ASSUME NEW j \in Jobs, job[j].pool = p, job[j].chunk # Last, NEW v \in PoolCrons,
               Active(v, j)'
        PROVE  IF worker'[v].pc \in {"load", "build"} THEN lines[p][job[j].chunk] = 0
               ELSE worker'[v].result = "completed" => lines[p][job[j].chunk] = 1 \/ Broken(p)'
    <3>1. CASE v = w
      BY <1>2, <2>1, <2>2, <2>3, <3>1
    <3>2. CASE v # w
      BY <1>1, <1>2, <2>1, <2>3, <3>2, WorkerThere, WorkerMoves DEF CampaignOK, LinesOK
    <3> QED
      BY <3>1, <3>2
  <2> QED
    BY <1>1, <1>2, <1>3, <2>3 DEF CampaignOK, LinesOK
<1>6. LastOK(p)'
  <2> SUFFICES ASSUME NEW v \in PoolCrons, At(v, p)', job[worker'[v].job].chunk = Last,
                      worker'[v].pc \in {"read", "invoice", "save"}
               PROVE  /\ AllDone(p)'
                      /\ worker'[v].result = "completed" =>
                          /\ pool[p] = "running" /\ Whole(p)'
                          /\ worker'[v].pc = "invoice" => \A k \in users[p] :
                              IF k \in worker'[v].todo THEN invoiced[p][k] = 0
                              ELSE invoiced[p][k] = 1
                          /\ worker'[v].pc = "save" => Billed(p)'
    BY <1>1 DEF LastOK
  <2>1. At(v, p)
    BY MovingActive
  <2>2. CASE v = w
    BY <1>1, <1>2, <1>3, <2>2
  <2>3. CASE v # w
    BY <1>1, <1>2, <1>3, <2>1, <2>3 DEF CampaignOK, LastOK
  <2> QED
    BY <2>2, <2>3
<1> QED
  BY <1>4, <1>5, <1>6, MovingWorkers DEF CampaignOK

LEMMA Busy ==
  ASSUME Typed, Links, NEW w \in PoolCrons, worker[w].pc \notin {"idle", "start"},
         NEW p \in Pools, p = PoolOf(w), CampaignOK(p)
  PROVE  /\ job[worker[w].job].chunk # Last => ~AllDone(p)
         /\ job[worker[w].job].chunk = Last =>
              /\ Over(p) => worker[w].pc = "end" /\ worker[w].result # "waiting"
              /\ Late(p) => worker[w].pc \in {"invoice", "save", "end"}
         /\ pool[p] # "running" =>
              \/ Broken(p)
              \/ AllDone(p) /\ Over(p)
<1>1. /\ worker[w].job \in Jobs /\ job[worker[w].job].pool = p /\ ~NoJobs(p)
      /\ job[worker[w].job].status = "running" /\ Active(w, worker[w].job)
      /\ pool[p] \in {"running", "failed", "completed"}
  BY WorkerThere
<1>2. job[worker[w].job].chunk = Last =>
        \A j \in Jobs : job[j].pool = p /\ job[j].chunk = Last => j = worker[w].job
  BY <1>1 DEF CampaignOK, JobsOK
<1>3. job[worker[w].job].chunk # Last => ~AllDone(p)
  BY <1>1 DEF AllDone
<1>4. job[worker[w].job].chunk = Last /\ Over(p) => worker[w].pc = "end" /\ worker[w].result # "waiting"
  BY <1>1, <1>2 DEF Over
<1>5. job[worker[w].job].chunk = Last /\ Late(p) => worker[w].pc \in {"invoice", "save", "end"}
  BY <1>1, <1>2 DEF Late
<1>6. pool[p] # "running" => Broken(p) \/ (AllDone(p) /\ Over(p))
  BY <1>1 DEF CampaignOK, PoolOK
<1> QED
  BY <1>3, <1>4, <1>5, <1>6

LEMMA LoadPoolOK ==
  ASSUME Typed, Typed', Links, PlacesOK, NEW w \in PoolCrons, LoadPool(w),
         NEW p \in Pools, p = PoolOf(w), CampaignOK(p)
  PROVE  CampaignOK(p)'
<1>0. worker[w] \in Labour /\ WorkerStep(w) /\ worker[w].pc = "load"
  BY DEF Typed, WorkerStep, LoadPool
<1>1. Moving(w)
  BY <1>0, WorkerKinds DEF StartJob, EndJob
<1>2. UNCHANGED << pool, lines, invoiced >>
  BY DEF LoadPool, rows
<1>3. \/ worker'[w].pc = "end" /\ worker'[w].result = "failed"
      \/ worker'[w].pc = "check" /\ job[worker[w].job].chunk = Last
      \/ worker'[w].pc = "build" /\ job[worker[w].job].chunk # Last
  BY <1>0 DEF LoadPool, Become, Typed, Labour
<1>4. worker[w].job \in Jobs /\ job[worker[w].job].pool = p /\ Active(w, worker[w].job) /\ Exists(p)
  BY <1>0, WorkerThere
<1>5. job[worker[w].job].chunk # Last => lines[p][job[worker[w].job].chunk] = 0
  BY <1>0, <1>4 DEF CampaignOK, LinesOK
<1> QED
  BY <1>0, <1>1, <1>2, <1>3, <1>5, LocalMove

LEMMA FailOK ==
  ASSUME Typed, Typed', Links, PlacesOK, NEW w \in PoolCrons, Fail(w),
         NEW p \in Pools, p = PoolOf(w), CampaignOK(p)
  PROVE  CampaignOK(p)'
<1>0. worker[w] \in Labour /\ WorkerStep(w) /\ worker[w].pc \in {"build", "read", "invoice"}
  BY DEF Typed, WorkerStep, Fail
<1>1. Moving(w)
  BY <1>0, WorkerKinds DEF StartJob, EndJob
<1>2. UNCHANGED << pool, lines, invoiced >>
  BY DEF Fail, rows
<1>3. worker'[w].pc = "save" /\ worker'[w].result = "failed"
  BY <1>0 DEF Fail, Become, Typed, Labour
<1>4. At(w, p)
  BY <1>0, WorkerThere
<1>5. job[worker[w].job].chunk = Last => AllDone(p)
  BY <1>0, <1>4 DEF CampaignOK, LastOK, PlacesOK, At
<1> QED
  BY <1>0, <1>1, <1>2, <1>3, <1>5, LocalMove

LEMMA ReadLinesOK ==
  ASSUME Typed, Typed', Links, PlacesOK, NEW w \in PoolCrons, ReadLines(w),
         NEW p \in Pools, p = PoolOf(w), CampaignOK(p)
  PROVE  CampaignOK(p)'
<1>0. worker[w] \in Labour /\ WorkerStep(w) /\ worker[w].pc = "read"
  BY DEF Typed, WorkerStep, ReadLines
<1>1. Moving(w)
  BY <1>0, WorkerKinds DEF StartJob, EndJob
<1>2. UNCHANGED << pool, lines, invoiced >>
  BY DEF ReadLines, rows
<1>3. /\ worker'[w].pc = "invoice" /\ worker'[w].result = worker[w].result
      /\ worker'[w].todo = {k \in Chunks : lines[p][k] > 0}
  BY <1>0 DEF ReadLines, Become, Typed, Labour
<1>4. At(w, p) /\ worker[w].job # None /\ Exists(p)
  BY <1>0, WorkerThere DEF At
<1>5. job[worker[w].job].chunk = Last /\ worker[w].result = "completed"
  BY <1>0, <1>4 DEF PlacesOK
<1>6. AllDone(p) /\ pool[p] = "running" /\ Whole(p)
  BY <1>0, <1>4, <1>5 DEF CampaignOK, LastOK
<1>7. users[p] \subseteq Chunks /\ \A k \in Chunks : invoiced[p][k] = 0
  BY <1>0, <1>4, <1>5, Busy DEF CampaignOK, LinesOK, Typed
<1>8. \A k \in users[p] : k \in worker'[w].todo /\ invoiced[p][k] = 0
  BY <1>3, <1>6, <1>7 DEF Whole
<1> QED
  BY <1>0, <1>1, <1>2, <1>3, <1>5, <1>6, <1>8, LocalMove

LEMMA StopInvoicesOK ==
  ASSUME Typed, Typed', Links, PlacesOK, NEW w \in PoolCrons, StopInvoices(w),
         NEW p \in Pools, p = PoolOf(w), CampaignOK(p)
  PROVE  CampaignOK(p)'
<1>0. worker[w] \in Labour /\ WorkerStep(w) /\ worker[w].pc = "invoice"
  BY DEF Typed, WorkerStep, StopInvoices
<1>1. Moving(w)
  BY <1>0, WorkerKinds DEF StartJob, EndJob
<1>2. UNCHANGED << pool, lines, invoiced >>
  BY DEF StopInvoices, rows
<1>3. worker'[w].pc = "save" /\ worker'[w].result = worker[w].result
  BY <1>0 DEF StopInvoices, Become, Typed, Labour
<1>4. At(w, p) /\ worker[w].job # None
  BY <1>0, WorkerThere DEF At
<1>5. job[worker[w].job].chunk = Last /\ worker[w].result = "completed"
  BY <1>0, <1>4 DEF PlacesOK
<1>6. /\ AllDone(p) /\ pool[p] = "running" /\ Whole(p)
      /\ \A k \in users[p] :
            IF k \in worker[w].todo THEN invoiced[p][k] = 0 ELSE invoiced[p][k] = 1
  BY <1>0, <1>4, <1>5 DEF CampaignOK, LastOK
<1>7. Billed(p)
  BY <1>6 DEF StopInvoices, Billed
<1> QED
  BY <1>0, <1>1, <1>2, <1>3, <1>5, <1>6, <1>7, LocalMove

\* The last job goes on only when every chunk is done.
LEMMA CheckJobsOK ==
  ASSUME Typed, Typed', Links, PlacesOK, NEW w \in PoolCrons, CheckJobs(w),
         NEW p \in Pools, p = PoolOf(w), CampaignOK(p)
  PROVE  CampaignOK(p)'
<1>0. worker[w] \in Labour /\ WorkerStep(w) /\ worker[w].pc = "check"
  BY DEF Typed, WorkerStep, CheckJobs
<1>1. Moving(w)
  BY <1>0, WorkerKinds DEF StartJob, EndJob
<1>2. UNCHANGED << pool, lines, invoiced >>
  BY DEF CheckJobs, rows
<1>4. At(w, p) /\ worker[w].job # None /\ Exists(p) /\ worker[w].job \in Jobs
      /\ job[worker[w].job].pool = p
  BY <1>0, WorkerThere DEF At
<1>5. job[worker[w].job].chunk = Last /\ worker[w].result = "completed"
  BY <1>0, <1>4 DEF PlacesOK
<1>6. ASSUME worker'[w].pc = "read"
      PROVE  AllDone(p) /\ pool[p] = "running" /\ Whole(p)
  <2>1. \A j \in ChunkJobs(p) : ~Failed(j) /\ ~Unfinished(j)
    <3>1. CASE Become(w, [worker[w] EXCEPT !.pc = "end", !.result = "failed"])
      BY <1>0, <1>6, <3>1 DEF Become, Typed, Labour
    <3>2. CASE Become(w, [worker[w] EXCEPT !.pc = "end", !.result = "waiting"])
      BY <1>0, <1>6, <3>2 DEF Become, Typed, Labour
    <3> QED
      BY <3>1, <3>2 DEF CheckJobs
  <2>2. \A j \in Jobs : job[j].pool = p => job[j].status \notin Absent
    BY <1>4, Names DEF CampaignOK, JobsOK, Links, Absent, Exists
  <2>3. AllDone(p)
    BY <2>1, <2>2 DEF AllDone, ChunkJobs, JobsOf, Failed, Unfinished
  <2>4. ~Broken(p)
    BY <2>3 DEF Broken, AllDone
  <2>5. pool[p] = "running"
    BY <1>0, <1>5, <2>4, Busy
  <2>6. Whole(p)
    <3> SUFFICES ASSUME NEW k \in users[p] PROVE lines[p][k] = 1
      BY DEF Whole
    <3>1. PICK i \in Jobs : job[i].pool = p /\ job[i].chunk = k
      BY <1>4, <1>5 DEF CampaignOK, JobsOK
    <3>2. k # Last
      BY Names DEF Typed
    <3> QED
      BY <1>4, <2>3, <2>4, <3>1, <3>2 DEF CampaignOK, LinesOK, AllDone
  <2> QED
    BY <2>3, <2>5, <2>6
<1>7. worker'[w].pc \in {"end", "read"}
  BY CheckJobsFacts
<1> QED
  BY <1>0, <1>1, <1>2, <1>5, <1>6, <1>7, LocalMove

LEMMA MakeInvoiceOK ==
  ASSUME Typed, Typed', Links, PlacesOK, NEW w \in PoolCrons, NEW k \in Chunks, MakeInvoice(w, k),
         NEW p \in Pools, p = PoolOf(w), CampaignOK(p)
  PROVE  CampaignOK(p)'
<1>0. worker[w] \in Labour /\ WorkerStep(w) /\ worker[w].pc = "invoice"
  BY DEF Typed, WorkerStep, MakeInvoice
<1>1. Moving(w)
  BY <1>0, WorkerKinds DEF StartJob, EndJob
<1>2. /\ UNCHANGED << pool, lines, campaign, director, users, job >>
      /\ pool[p] = "running"
      /\ \A v \in PoolCrons \ {w} : worker'[v] = worker[v]
  BY <1>0, WorkerMoves, WorkerRows DEF MakeInvoice
<1>3. /\ worker'[w].pc = "invoice" /\ worker'[w].result = worker[w].result
      /\ worker'[w].job = worker[w].job
      /\ worker'[w].todo = worker[w].todo \ {k} /\ k \in worker[w].todo
  BY <1>0 DEF MakeInvoice, Become, Typed, Labour
<1>4. /\ At(w, p) /\ worker[w].job # None /\ worker[w].job \in Jobs
      /\ job[worker[w].job].pool = p /\ job[worker[w].job].status = "running"
      /\ \A v \in PoolCrons : Active(v, worker[w].job) => v = w
  BY <1>0, WorkerThere DEF At
<1>5. job[worker[w].job].chunk = Last /\ worker[w].result = "completed"
  BY <1>0, <1>4 DEF PlacesOK
<1>6. /\ AllDone(p) /\ Whole(p)
      /\ \A i \in users[p] :
            IF i \in worker[w].todo THEN invoiced[p][i] = 0 ELSE invoiced[p][i] = 1
  BY <1>0, <1>4, <1>5 DEF CampaignOK, LastOK
<1>7. /\ Broken(p) => Broken(p)'
      /\ AllDone(p)'
      /\ Whole(p)'
      /\ Exists(p)' <=> Exists(p)
  BY <1>0, <1>1, <1>2, <1>6, MovingKeeps DEF Whole, Exists
<1>8. \A v \in PoolCrons, j \in Jobs : Active(v, j)' <=> Active(v, j)
  BY <1>0, <1>1, MovingActive
<1>9. Late(p)'
  BY <1>2, <1>3, <1>4, <1>5, <1>8 DEF Late
<1>10. PoolOK(p)'
  BY <1>2 DEF PoolOK
<1>11. LinesOK(p)'
  <2>1. ASSUME NEW j \in Jobs, job[j].pool = p, job[j].chunk # Last, NEW v \in PoolCrons,
               Active(v, j)'
        PROVE  IF worker'[v].pc \in {"load", "build"} THEN lines[p][job[j].chunk] = 0
               ELSE worker'[v].result = "completed" => lines[p][job[j].chunk] = 1 \/ Broken(p)'
    <3>1. Active(v, j) /\ v # w
      BY <1>5, <1>8, <2>1 DEF Active
    <3> QED
      BY <1>2, <1>7, <2>1, <3>1, WorkerThere, <1>0 DEF CampaignOK, LinesOK
  <2> QED
    BY <1>2, <1>7, <1>9, <2>1 DEF CampaignOK, LinesOK
<1>12. LastOK(p)'
  <2> SUFFICES ASSUME NEW v \in PoolCrons, At(v, p)', job[worker'[v].job].chunk = Last,
                      worker'[v].pc \in {"read", "invoice", "save"}
               PROVE  worker'[v].result = "completed" =>
                          /\ worker'[v].pc = "invoice" => \A i \in users[p] :
                              IF i \in worker'[v].todo THEN invoiced'[p][i] = 0
                              ELSE invoiced'[p][i] = 1
                          /\ worker'[v].pc = "save" => Billed(p)'
    BY <1>2, <1>7 DEF LastOK
  <2>1. v = w
    <3>1. worker'[v].job \in Jobs /\ job[worker'[v].job].pool = p
      BY <1>2, AboutJobsNext DEF At, PoolOf
    <3>2. worker'[v].job = worker[w].job
      BY <1>4, <1>5, <3>1 DEF CampaignOK, JobsOK
    <3>3. Active(v, worker[w].job)
      BY <1>2, <1>3, <3>2, <1>0 DEF Active
    <3> QED
      BY <1>4, <3>3
  <2>2. \A i \in Chunks : invoiced'[p][i] = IF i = k THEN invoiced[p][i] + 1 ELSE invoiced[p][i]
    BY DEF MakeInvoice, Typed
  <2>3. users[p] \subseteq Chunks
    BY DEF Typed
  <2> QED
    BY <1>3, <1>6, <2>1, <2>2, <2>3
<1> QED
  BY <1>0, <1>1, <1>10, <1>11, <1>12, MovingWorkers DEF CampaignOK

LEMMA SavePoolOK ==
  ASSUME Typed, Typed', Links, PlacesOK, NEW w \in PoolCrons, SavePool(w),
         NEW p \in Pools, p = PoolOf(w), CampaignOK(p)
  PROVE  CampaignOK(p)'
<1>0. worker[w] \in Labour /\ WorkerStep(w) /\ worker[w].pc = "save"
  BY DEF Typed, WorkerStep, SavePool
<1>1. Moving(w)
  BY <1>0, WorkerKinds DEF StartJob, EndJob
<1>2. /\ UNCHANGED << lines, invoiced, campaign, director, users, job >>
      /\ \A v \in PoolCrons \ {w} : worker'[v] = worker[v]
  BY <1>0, WorkerMoves, WorkerRows DEF SavePool
<1>3. /\ worker'[w].pc = "end" /\ worker'[w].result = worker[w].result
      /\ worker'[w].job = worker[w].job
  BY <1>0 DEF SavePool, Become, Typed, Labour
<1>a. pool'[p] = PoolResult(w)
  BY PoolFacts DEF SavePool
<1>4. /\ At(w, p) /\ worker[w].job # None /\ worker[w].job \in Jobs
      /\ job[worker[w].job].pool = p /\ job[worker[w].job].status = "running"
      /\ Exists(p)
      /\ \A v \in PoolCrons : Active(v, worker[w].job) => v = w
  BY <1>0, WorkerThere DEF At
<1>5. worker[w].result \in {"completed", "failed"}
  BY <1>0, <1>4 DEF PlacesOK, Labour
<1>6. job[worker[w].job].chunk = Last =>
        AllDone(p) /\ (worker[w].result = "completed" => Whole(p) /\ Billed(p))
  BY <1>0, <1>4 DEF CampaignOK, LastOK
<1>7. /\ Broken(p) => Broken(p)'
      /\ AllDone(p)' <=> AllDone(p)
      /\ Late(p) => Late(p)'
      /\ Whole(p)' <=> Whole(p)
      /\ Billed(p)' <=> Billed(p)
  BY <1>0, <1>1, <1>2, MovingKeeps DEF Whole, Billed
<1>8. \A v \in PoolCrons, j \in Jobs : Active(v, j)' <=> Active(v, j)
  BY <1>0, <1>1, MovingActive
<1>9. job[worker[w].job].chunk # Last /\ worker[w].result = "failed" => Broken(p)'
  BY <1>2, <1>3, <1>4, <1>8 DEF Broken
<1>10. job[worker[w].job].chunk = Last => Over(p)'
  BY <1>2, <1>3, <1>4, <1>5, <1>8 DEF Over
<1>11. PoolOK(p)'
  BY <1>a, <1>5, <1>6, <1>7, <1>9, <1>10 DEF PoolOK, PoolResult
<1>12. LinesOK(p)'
  <2>1. ASSUME NEW j \in Jobs, job[j].pool = p, job[j].chunk # Last, NEW v \in PoolCrons,
               Active(v, j)'
        PROVE  IF worker'[v].pc \in {"load", "build"} THEN lines[p][job[j].chunk] = 0
               ELSE worker'[v].result = "completed" => lines[p][job[j].chunk] = 1 \/ Broken(p)'
    <3>1. Active(v, j)
      BY <1>8, <2>1
    <3>2. IF worker[v].pc \in {"load", "build"} THEN lines[p][job[j].chunk] = 0
          ELSE worker[v].result = "completed" => lines[p][job[j].chunk] = 1 \/ Broken(p)
      BY <1>4, <2>1, <3>1 DEF CampaignOK, LinesOK
    <3>3. CASE v = w
      BY <1>0, <1>3, <1>7, <3>2, <3>3
    <3>4. CASE v # w
      BY <1>2, <1>7, <3>2, <3>4
    <3> QED
      BY <3>3, <3>4
  <2> QED
    BY <1>2, <1>4, <1>7, <2>1 DEF CampaignOK, LinesOK
<1>13. LastOK(p)'
  <2> SUFFICES ASSUME NEW v \in PoolCrons, At(v, p)', job[worker'[v].job].chunk = Last,
                      worker'[v].pc \in {"read", "invoice", "save"}
               PROVE  FALSE
    BY <1>2 DEF LastOK
  <2>1. v # w /\ worker'[v] = worker[v]
    BY <1>2, <1>3
  <2>2. worker[v].job \in Jobs /\ job[worker[v].job].pool = p /\ At(v, p)
    BY <1>2, <2>1, AboutJobsNext DEF At, PoolOf
  <2>3. AllDone(p)
    BY <2>1, <2>2 DEF CampaignOK, LastOK
  <2>4. job[worker[w].job].chunk = Last
    BY <1>4, <2>3 DEF AllDone
  <2>5. worker[v].job = worker[w].job
    BY <1>4, <2>1, <2>2, <2>4 DEF CampaignOK, JobsOK
  <2> QED
    BY <1>4, <2>1, <2>5 DEF Active
<1> QED
  BY <1>0, <1>1, <1>11, <1>12, <1>13, MovingWorkers DEF CampaignOK

LEMMA BuildLinesOK ==
  ASSUME Typed, Typed', Links, PlacesOK, NEW w \in PoolCrons, BuildLines(w),
         NEW p \in Pools, p = PoolOf(w), CampaignOK(p)
  PROVE  CampaignOK(p)'
<1> DEFINE c == job[worker[w].job].chunk
<1>0. worker[w] \in Labour /\ WorkerStep(w) /\ worker[w].pc = "build"
  BY DEF Typed, WorkerStep, BuildLines
<1>1. Moving(w)
  BY <1>0, WorkerKinds DEF StartJob, EndJob
<1>2. /\ UNCHANGED << pool, invoiced, campaign, director, users, job >>
      /\ \A v \in PoolCrons \ {w} : worker'[v] = worker[v]
  BY <1>0, WorkerMoves, WorkerRows DEF BuildLines
<1>3. worker'[w].pc = "save"
  BY <1>0 DEF BuildLines, Become, Typed, Labour
<1>4. /\ At(w, p) /\ worker[w].job # None /\ worker[w].job \in Jobs /\ Active(w, worker[w].job)
      /\ job[worker[w].job].pool = p /\ job[worker[w].job].status = "running"
      /\ Exists(p)
      /\ \A v \in PoolCrons : Active(v, worker[w].job) => v = w
  BY <1>0, WorkerThere DEF At
<1>5. c # Last /\ c \in Chunks
  BY <1>0, <1>4 DEF PlacesOK, Typed, JobRows
<1>6. ~AllDone(p)
  BY <1>0, <1>5, Busy
<1>7. /\ Broken(p) => Broken(p)'
      /\ ~AllDone(p)'
      /\ Late(p) => Late(p)'
      /\ Exists(p)' <=> Exists(p)
      /\ NoJobs(p)' <=> NoJobs(p)
  BY <1>0, <1>1, <1>2, <1>6, MovingKeeps DEF Exists, NoJobs
<1>8. \A v \in PoolCrons, j \in Jobs : Active(v, j)' <=> Active(v, j)
  BY <1>0, <1>1, MovingActive
<1>9. \A j \in Jobs : job[j].pool = p /\ job[j].chunk = c => j = worker[w].job
  BY <1>4 DEF CampaignOK, JobsOK
<1>10. pool[p] # "running" => Broken(p)
  BY <1>0, <1>6, Busy
<1>11. \A i \in Chunks \ {c} : lines'[p][i] = lines[p][i]
  BY DEF BuildLines, Typed
<1>12. lines[p][c] = 0
  BY <1>0, <1>4, <1>5 DEF CampaignOK, LinesOK
<1>13. lines'[p][c] = 1 \/ Broken(p)'
  BY <1>5, <1>7, <1>10, <1>12 DEF BuildLines, Typed
<1>14. PoolOK(p)'
  BY <1>2, <1>6, <1>7 DEF CampaignOK, PoolOK
<1>15. LinesOK(p)'
  <2>1. \A j \in Jobs : job[j].pool = p /\ job[j].chunk # Last /\ j # worker[w].job =>
          job[j].chunk \in Chunks \ {c}
    BY <1>9 DEF Typed, JobRows
  <2>2. ASSUME NEW j \in Jobs, job[j].pool = p, job[j].chunk # Last, NEW v \in PoolCrons,
               Active(v, j)'
        PROVE  IF worker'[v].pc \in {"load", "build"} THEN lines'[p][job[j].chunk] = 0
               ELSE worker'[v].result = "completed" => lines'[p][job[j].chunk] = 1 \/ Broken(p)'
    <3>1. CASE j = worker[w].job
      BY <1>3, <1>4, <1>8, <1>13, <2>2, <3>1
    <3>2. CASE j # worker[w].job
      <4>1. v # w /\ Active(v, j)
        BY <1>8, <2>2, <3>2 DEF Active
      <4>2. worker'[v] = worker[v] /\ lines'[p][job[j].chunk] = lines[p][job[j].chunk]
        BY <1>2, <1>11, <2>1, <2>2, <3>2, <4>1
      <4> QED
        BY <1>4, <1>7, <2>2, <4>1, <4>2 DEF CampaignOK, LinesOK
    <3> QED
      BY <3>1, <3>2
  <2>3. \A i \in Chunks :
          (\A j \in Jobs : job[j].pool = p => job[j].chunk # i) => lines'[p][i] = 0
    BY <1>4, <1>11 DEF CampaignOK, LinesOK
  <2>4. \A j \in Jobs : job[j].pool = p /\ job[j].chunk # Last =>
          /\ job[j].status # "waiting"
          /\ job[j].status = "registered" => lines'[p][job[j].chunk] = 0
          /\ job[j].status = "completed" => lines'[p][job[j].chunk] = 1 \/ Broken(p)'
    BY <1>4, <1>7, <1>11, <2>1 DEF CampaignOK, LinesOK
  <2> QED
    BY <1>2, <1>4, <1>7, <2>2, <2>3, <2>4 DEF CampaignOK, LinesOK
<1>16. LastOK(p)'
  <2> SUFFICES ASSUME NEW v \in PoolCrons, At(v, p)', job[worker'[v].job].chunk = Last,
                      worker'[v].pc \in {"read", "invoice", "save"}
               PROVE  FALSE
    BY <1>2 DEF LastOK
  <2>1. v # w /\ worker'[v] = worker[v]
    BY <1>1, <1>2, <1>5 DEF Moving
  <2>2. At(v, p)
    BY <1>2, <2>1 DEF At, PoolOf
  <2> QED
    BY <1>6, <2>1, <2>2 DEF CampaignOK, LastOK
<1> QED
  BY <1>0, <1>1, <1>14, <1>15, <1>16, MovingWorkers DEF CampaignOK

LEMMA StartJobOK ==
  ASSUME Typed, Typed', Links, PlacesOK, NEW w \in PoolCrons, StartJob(w),
         NEW p \in Pools, p = PoolOf(w), p \notin raced', CampaignOK(p)
  PROVE  CampaignOK(p)'
<1> DEFINE o == worker[w].job
<1>0. worker[w] \in Labour /\ WorkerStep(w) /\ worker[w].pc = "start"
  BY DEF Typed, WorkerStep, StartJob
<1>1. /\ At(w, p) /\ o # None /\ o \in Jobs /\ job[o].pool = p /\ Exists(p)
  BY <1>0, WorkerThere DEF At
<1>2. /\ UNCHANGED << pool, lines, invoiced, campaign, director, users >>
      /\ \A v \in PoolCrons \ {w} : worker'[v] = worker[v]
      /\ \A j \in Jobs : job'[j].pool = job[j].pool /\ job'[j].chunk = job[j].chunk
      /\ \A j \in Jobs : j # o => job'[j] = job[j]
  BY <1>0, WorkerMoves, WorkerRows DEF StartJob
<1>3. worker'[w].pc = "load" /\ worker'[w].job = o
  BY <1>0, <1>1 DEF StartJob, Become, Typed, Labour
<1>4. job[o].status \in {"registered", "waiting"} /\ job'[o].status = "running"
  BY <1>0, <1>1, SaveJobFacts DEF StartJob
<1>5. \A v \in PoolCrons : ~Active(v, o)
  BY <1>1, <1>4 DEF CampaignOK, WorkersOK, At, PoolOf, Active
<1>6. \A v \in PoolCrons : At(v, p)' <=> At(v, p)
  <2> TAKE v \in PoolCrons
  <2>1. worker'[v].job = worker[v].job
    BY <1>2, <1>3
  <2>2. worker[v].job # None => worker[v].job \in Jobs
    BY AboutJobs
  <2> QED
    BY <1>2, <2>1, <2>2 DEF At, PoolOf
<1>7. /\ \A v \in PoolCrons : Active(v, o)' <=> v = w
      /\ \A v \in PoolCrons, j \in Jobs : j # o => (Active(v, j)' <=> Active(v, j))
      /\ \A v \in PoolCrons, j \in Jobs : j # o /\ Active(v, j) => worker'[v] = worker[v]
  <2>1. \A v \in PoolCrons : worker'[v].job = o /\ worker'[v].pc \notin {"idle", "start"} <=> v = w
    BY <1>2, <1>3, <1>5 DEF Active
  <2>2. \A v \in PoolCrons, j \in Jobs : j # o => (Active(v, j)' <=> Active(v, j))
    BY <1>2, <1>3 DEF Active
  <2>3. \A v \in PoolCrons, j \in Jobs : j # o /\ Active(v, j) => worker'[v] = worker[v]
    BY <1>2 DEF Active
  <2>4. \A v \in PoolCrons : Active(v, o)' <=>
          (worker'[v].job = o' /\ worker'[v].pc \notin {"idle", "start"})
    BY DEF Active
  <2> QED
    BY <1>3, <2>1, <2>2, <2>3, <2>4
<1>8. \A j \in Jobs : job[j].pool = p /\ job'[j] # job[j] => j = o
  BY <1>2
<1>9. Broken(p) => Broken(p)'
  BY <1>2, <1>4, <1>7 DEF Broken
<1>10. AllDone(p)' <=> AllDone(p)
  BY <1>1, <1>2, <1>4 DEF AllDone
<1>11. Over(p) => Over(p)'
  BY <1>2, <1>4, <1>7 DEF Over
<1>12. Late(p) => Late(p)'
  BY <1>2, <1>4, <1>7 DEF Late
<1>13. /\ Whole(p)' <=> Whole(p)
       /\ Billed(p)' <=> Billed(p)
       /\ Exists(p)' <=> Exists(p)
       /\ NoJobs(p)' <=> NoJobs(p)
  BY <1>2 DEF Whole, Billed, Exists, NoJobs
<1>14. DirectorsOK(p)' /\ JobsOK(p)'
  BY <1>0, <1>4, WorkerDirectors, WorkerJobs
<1>15. WorkersOK(p)'
  <2> SUFFICES ASSUME NEW v \in PoolCrons, At(v, p)', worker'[v].pc # "start"
               PROVE  /\ job'[worker'[v].job].status = "running"
                      /\ \A u \in PoolCrons : Active(u, worker[v].job)' => u = v
    BY <1>1, <1>13 DEF WorkersOK
  <2>1. CASE v = w
    BY <1>3, <1>4, <1>7, <2>1 DEF Active
  <2>2. CASE v # w
    <3>1. At(v, p) /\ worker'[v] = worker[v] /\ worker[v].job \in Jobs /\ worker[v].job # None
      BY <1>2, <1>6, <2>2, AboutJobs DEF At
    <3>2. /\ job[worker[v].job].status = "running"
          /\ \A u \in PoolCrons : Active(u, worker[v].job) => u = v
      BY <3>1 DEF CampaignOK, WorkersOK
    <3>3. worker[v].job # o
      BY <1>4, <3>2
    <3>4. \A u \in PoolCrons : Active(u, worker[v].job)' => Active(u, worker[v].job)
      <4>1. \A u \in PoolCrons : Active(u, worker[v].job)' <=>
              (worker'[u].job = worker[v].job /\ worker'[u].pc \notin {"idle", "start"})
        BY <3>1 DEF Active
      <4> QED
        BY <1>2, <1>3, <3>3, <4>1 DEF Active
    <3> QED
      BY <1>2, <3>1, <3>2, <3>3, <3>4
  <2> QED
    BY <2>1, <2>2
<1>16. PoolOK(p)'
  BY <1>2, <1>9, <1>10, <1>11, <1>13 DEF CampaignOK, PoolOK
<1>17. LinesOK(p)'
  <2>1. ASSUME NEW j \in Jobs, job[j].pool = p, job[j].chunk # Last
        PROVE  /\ job'[j].status # "waiting"
               /\ job'[j].status = "registered" => lines[p][job[j].chunk] = 0
               /\ job'[j].status = "completed" => lines[p][job[j].chunk] = 1 \/ Broken(p)'
               /\ \A v \in PoolCrons : Active(v, j)' =>
                    IF worker'[v].pc \in {"load", "build"} THEN lines[p][job[j].chunk] = 0
                    ELSE worker'[v].result = "completed" =>
                            lines[p][job[j].chunk] = 1 \/ Broken(p)'
    <3>1. CASE j = o
      <4>1. lines[p][job[j].chunk] = 0
        BY <1>1, <1>4, <2>1, <3>1 DEF CampaignOK, LinesOK
      <4> QED
        BY <1>3, <1>4, <1>7, <3>1, <4>1
    <3>2. CASE j # o
      BY <1>1, <1>2, <1>7, <1>9, <2>1, <3>2 DEF CampaignOK, LinesOK
    <3> QED
      BY <3>1, <3>2
  <2> QED
    BY <1>2, <1>12, <1>13, <2>1 DEF CampaignOK, LinesOK
<1>18. LastOK(p)'
  <2> SUFFICES ASSUME NEW v \in PoolCrons, At(v, p)', job'[worker'[v].job].chunk = Last,
                      worker'[v].pc \in {"read", "invoice", "save"}
               PROVE  /\ AllDone(p)'
                      /\ worker'[v].result = "completed" =>
                          /\ pool[p] = "running" /\ Whole(p)'
                          /\ worker'[v].pc = "invoice" => \A k \in users[p] :
                              IF k \in worker'[v].todo THEN invoiced[p][k] = 0
                              ELSE invoiced[p][k] = 1
                          /\ worker'[v].pc = "save" => Billed(p)'
    BY <1>2 DEF LastOK
  <2>1. v # w /\ At(v, p) /\ worker'[v] = worker[v] /\ worker[v].job \in Jobs
    BY <1>2, <1>3, <1>6, AboutJobs DEF At
  <2> QED
    BY <1>2, <1>10, <1>13, <2>1 DEF CampaignOK, LastOK
<1> QED
  BY <1>14, <1>15, <1>16, <1>17, <1>18 DEF CampaignOK

LEMMA EndJobOK ==
  ASSUME Typed, Typed', Links, PlacesOK, NEW w \in PoolCrons, EndJob(w),
         NEW p \in Pools, p = PoolOf(w), CampaignOK(p)
  PROVE  CampaignOK(p)'
<1> DEFINE o == worker[w].job
<1>0. worker[w] \in Labour /\ WorkerStep(w) /\ worker[w].pc = "end"
  BY DEF Typed, WorkerStep, EndJob
<1>1. /\ At(w, p) /\ o # None /\ o \in Jobs /\ job[o].pool = p /\ Exists(p)
      /\ job[o].status = "running" /\ Active(w, o)
      /\ \A v \in PoolCrons : Active(v, o) => v = w
  BY <1>0, WorkerThere DEF At
<1>2. /\ UNCHANGED << pool, lines, invoiced, campaign, director, users >>
      /\ \A v \in PoolCrons \ {w} : worker'[v] = worker[v]
      /\ \A j \in Jobs : job'[j].pool = job[j].pool /\ job'[j].chunk = job[j].chunk
      /\ \A j \in Jobs : j # o => job'[j] = job[j]
  BY <1>0, WorkerMoves, WorkerRows DEF EndJob
<1>3. worker'[w].pc = "idle" /\ worker'[w].job = None
  BY BecomeFacts DEF EndJob, IdleWorker
<1>4. /\ job'[o].status = worker[w].result
      /\ worker[w].result \in {"completed", "failed", "waiting"}
      /\ worker[w].result = "waiting" => job[o].chunk = Last
  BY <1>0, <1>1, SaveJobFacts DEF EndJob, Labour, PlacesOK
<1>6. /\ \A v \in PoolCrons : At(v, p)' => v # w /\ At(v, p) /\ worker'[v] = worker[v]
                                           /\ worker[v].job \in Jobs /\ worker[v].job # None
  <2> SUFFICES ASSUME NEW v \in PoolCrons, At(v, p)'
               PROVE  v # w /\ At(v, p) /\ worker'[v] = worker[v] /\ worker[v].job \in Jobs
                      /\ worker[v].job # None
    OBVIOUS
  <2>1. v # w
    BY <1>3 DEF At
  <2>2. worker'[v] = worker[v] /\ worker[v].job \in Jobs /\ worker[v].job # None
    BY <1>2, <2>1, AboutJobsNext DEF At
  <2> QED
    BY <1>2, <2>1, <2>2 DEF At, PoolOf
<1>7. \A v \in PoolCrons, j \in Jobs : Active(v, j)' => v # w /\ j # o /\ Active(v, j)
                                                       /\ worker'[v] = worker[v]
  <2> SUFFICES ASSUME NEW v \in PoolCrons, NEW j \in Jobs, Active(v, j)'
               PROVE  v # w /\ j # o /\ Active(v, j) /\ worker'[v] = worker[v]
    OBVIOUS
  <2>1. v # w
    BY <1>3 DEF Active
  <2> QED
    BY <1>1, <1>2, <2>1 DEF Active
<1>9. Broken(p) => Broken(p)'
  <2> SUFFICES ASSUME NEW j \in Jobs, job[j].pool = p, job[j].chunk # Last,
                      \/ job[j].status = "failed"
                      \/ /\ job[j].status = "running"
                         /\ \A v \in PoolCrons : Active(v, j) => worker[v].result = "failed"
               PROVE  Broken(p)'
    BY DEF Broken
  <2>1. CASE j = o
    BY <1>1, <1>2, <1>4, <2>1 DEF Broken
  <2>2. CASE j # o
    BY <1>2, <1>7, <2>2 DEF Broken
  <2> QED
    BY <2>1, <2>2
<1>10. AllDone(p) => AllDone(p)'
  BY <1>1, <1>2 DEF AllDone
<1>11. Over(p) => Over(p)'
  <2> SUFFICES ASSUME NEW j \in Jobs, job[j].pool = p, job[j].chunk = Last,
                      \/ job[j].status \in {"failed", "completed"}
                      \/ /\ job[j].status = "running"
                         /\ \A v \in PoolCrons :
                              Active(v, j) => worker[v].pc = "end" /\ worker[v].result # "waiting"
               PROVE  Over(p)'
    BY DEF Over
  <2>1. CASE j = o
    BY <1>1, <1>2, <1>4, <2>1 DEF Over
  <2>2. CASE j # o
    BY <1>2, <1>7, <2>2 DEF Over
  <2> QED
    BY <2>1, <2>2
<1>12. Late(p) => Late(p)'
  <2> SUFFICES ASSUME NEW j \in Jobs, job[j].pool = p, job[j].chunk = Last,
                      \/ job[j].status \in {"failed", "completed"}
                      \/ /\ job[j].status = "running"
                         /\ \A v \in PoolCrons :
                              Active(v, j) => /\ worker[v].pc \in {"invoice", "save", "end"}
                                              /\ worker[v].result # "waiting"
               PROVE  Late(p)'
    BY DEF Late
  <2>1. CASE j = o
    BY <1>1, <1>2, <1>4, <2>1 DEF Late
  <2>2. CASE j # o
    BY <1>2, <1>7, <2>2 DEF Late
  <2> QED
    BY <2>1, <2>2
<1>13. /\ Whole(p)' <=> Whole(p)
       /\ Billed(p)' <=> Billed(p)
       /\ Exists(p)' <=> Exists(p)
       /\ NoJobs(p)' <=> NoJobs(p)
  BY <1>2 DEF Whole, Billed, Exists, NoJobs
<1>14. DirectorsOK(p)' /\ JobsOK(p)'
  BY <1>0, <1>4, WorkerDirectors, WorkerJobs
<1>15. WorkersOK(p)'
  <2> SUFFICES ASSUME NEW v \in PoolCrons, At(v, p)', worker'[v].pc # "start"
               PROVE  /\ job'[worker'[v].job].status = "running"
                      /\ \A u \in PoolCrons : Active(u, worker[v].job)' => u = v
    BY <1>1, <1>13 DEF WorkersOK
  <2>1. /\ v # w /\ At(v, p) /\ worker'[v] = worker[v] /\ worker[v].job \in Jobs
        /\ worker[v].job # None
    BY <1>6
  <2>2. /\ job[worker[v].job].status = "running"
        /\ \A u \in PoolCrons : Active(u, worker[v].job) => u = v
    BY <2>1 DEF CampaignOK, WorkersOK
  <2>3. worker[v].pc \notin {"idle", "start"}
    BY <2>1 DEF Links
  <2>4. worker[v].job # o
    BY <1>1, <2>1, <2>3 DEF Active
  <2>5. \A u \in PoolCrons : Active(u, worker[v].job)' => Active(u, worker[v].job)
    <3>1. \A u \in PoolCrons : Active(u, worker[v].job)' <=>
            (worker'[u].job = worker[v].job /\ worker'[u].pc \notin {"idle", "start"})
      BY <2>1 DEF Active
    <3> QED
      BY <1>2, <1>3, <3>1 DEF Active
  <2> QED
    BY <1>2, <2>1, <2>2, <2>4, <2>5
<1>16. PoolOK(p)'
  BY <1>2, <1>9, <1>10, <1>11, <1>13 DEF CampaignOK, PoolOK
<1>17. LinesOK(p)'
  <2>1. ASSUME NEW j \in Jobs, job[j].pool = p, job[j].chunk # Last
        PROVE  /\ job'[j].status # "waiting"
               /\ job'[j].status = "registered" => lines[p][job[j].chunk] = 0
               /\ job'[j].status = "completed" => lines[p][job[j].chunk] = 1 \/ Broken(p)'
               /\ \A v \in PoolCrons : Active(v, j)' =>
                    IF worker'[v].pc \in {"load", "build"} THEN lines[p][job[j].chunk] = 0
                    ELSE worker'[v].result = "completed" =>
                            lines[p][job[j].chunk] = 1 \/ Broken(p)'
    <3>1. CASE j = o
      <4>1. worker[w].result = "completed" => lines[p][job[j].chunk] = 1 \/ Broken(p)
        BY <1>0, <1>1, <2>1, <3>1 DEF CampaignOK, LinesOK
      <4> QED
        BY <1>4, <1>7, <1>9, <2>1, <3>1, <4>1
    <3>2. CASE j # o
      BY <1>1, <1>2, <1>7, <1>9, <2>1, <3>2 DEF CampaignOK, LinesOK
    <3> QED
      BY <3>1, <3>2
  <2> QED
    BY <1>2, <1>12, <1>13, <2>1 DEF CampaignOK, LinesOK
<1>18. LastOK(p)'
  <2> SUFFICES ASSUME NEW v \in PoolCrons, At(v, p)', job'[worker'[v].job].chunk = Last,
                      worker'[v].pc \in {"read", "invoice", "save"}
               PROVE  /\ AllDone(p)'
                      /\ worker'[v].result = "completed" =>
                          /\ pool[p] = "running" /\ Whole(p)'
                          /\ worker'[v].pc = "invoice" => \A k \in users[p] :
                              IF k \in worker'[v].todo THEN invoiced[p][k] = 0
                              ELSE invoiced[p][k] = 1
                          /\ worker'[v].pc = "save" => Billed(p)'
    BY <1>2 DEF LastOK
  <2>1. v # w /\ At(v, p) /\ worker'[v] = worker[v] /\ worker[v].job \in Jobs
    BY <1>6
  <2> QED
    BY <1>2, <1>10, <1>13, <2>1 DEF CampaignOK, LastOK
<1> QED
  BY <1>14, <1>15, <1>16, <1>17, <1>18 DEF CampaignOK

LEMMA WorkerOK ==
  ASSUME Typed, Typed', Links, PlacesOK, NEW w \in PoolCrons, WorkerStep(w),
         NEW p \in Pools, p \notin raced', CampaignOK(p)
  PROVE  CampaignOK(p)'
<1>1. CASE p # PoolOf(w)
  BY <1>1, WorkerElsewhere, Frame
<1>2. CASE p = PoolOf(w)
  BY <1>2, StartJobOK, LoadPoolOK, FailOK, EndJobOK, BuildLinesOK, SavePoolOK, CheckJobsOK,
     ReadLinesOK, StopInvoicesOK, MakeInvoiceOK DEF WorkerStep
<1> QED
  BY <1>1, <1>2

\* A worker takes a job, or is killed: nobody else becomes active.
LEMMA FewerActive ==
  ASSUME Typed, Typed', Links, UNCHANGED << pool, campaign, job, lines, invoiced, director, users >>,
         NEW w \in PoolCrons, worker'[w].pc \in {"idle", "start"},
         worker'[w].pc = "idle" => worker'[w].job = None,
         \A v \in PoolCrons \ {w} : worker'[v] = worker[v],
         NEW p \in Pools, At(w, p)' => Exists(p), CampaignOK(p)
  PROVE  CampaignOK(p)'
<1>1. \A v \in PoolCrons, j \in Jobs : Active(v, j)' => Active(v, j) /\ worker'[v] = worker[v]
  <2> SUFFICES ASSUME NEW v \in PoolCrons, NEW j \in Jobs, Active(v, j)'
               PROVE  Active(v, j) /\ worker'[v] = worker[v]
    OBVIOUS
  <2>1. v # w
    BY DEF Active
  <2> QED
    BY <2>1 DEF Active
<1>2. \A v \in PoolCrons : At(v, p)' /\ v # w => At(v, p) /\ worker'[v] = worker[v]
                                             /\ worker[v].job \in Jobs
  BY AboutJobs DEF At, PoolOf
<1>3. /\ Broken(p) => Broken(p)'
      /\ AllDone(p)' <=> AllDone(p)
      /\ Over(p) => Over(p)'
      /\ Late(p) => Late(p)'
  BY <1>1 DEF Broken, AllDone, Over, Late
<1>4. /\ Whole(p)' <=> Whole(p)
      /\ Billed(p)' <=> Billed(p)
      /\ Exists(p)' <=> Exists(p)
      /\ NoJobs(p)' <=> NoJobs(p)
      /\ Fresh(p)' <=> Fresh(p)
  BY DEF Whole, Billed, Exists, NoJobs, Fresh
<1>5. \A T : SplitSoFar(p, T)' <=> SplitSoFar(p, T)
  BY DEF SplitSoFar
<1>6. DirectorsOK(p)'
  BY <1>4, <1>5 DEF CampaignOK, DirectorsOK, Working
<1>7. JobsOK(p)'
  BY DEF CampaignOK, JobsOK, Working
<1>8. WorkersOK(p)'
  <2> SUFFICES ASSUME NEW v \in PoolCrons, At(v, p)'
               PROVE  /\ Exists(p)'
                      /\ worker'[v].pc # "start" =>
                           /\ job[worker'[v].job].status = "running"
                           /\ \A u \in PoolCrons : Active(u, worker[v].job)' => u = v
    BY DEF WorkersOK
  <2>1. CASE v = w
    BY <1>4, <2>1 DEF At
  <2>2. CASE v # w
    <3>1. At(v, p) /\ worker'[v] = worker[v] /\ worker[v].job \in Jobs
      BY <1>2, <2>2
    <3>2. \A u \in PoolCrons : Active(u, worker[v].job)' => Active(u, worker[v].job)
      <4>1. \A u \in PoolCrons : Active(u, worker[v].job)' <=>
              (worker'[u].job = worker[v].job /\ worker'[u].pc \notin {"idle", "start"})
        BY <3>1 DEF Active
      <4> QED
        BY <4>1 DEF Active
    <3> QED
      BY <1>4, <3>1, <3>2 DEF CampaignOK, WorkersOK
  <2> QED
    BY <2>1, <2>2
<1>9. PoolOK(p)'
  BY <1>3, <1>4 DEF CampaignOK, PoolOK
<1>10. LinesOK(p)'
  BY <1>1, <1>3, <1>4 DEF CampaignOK, LinesOK
<1>11. LastOK(p)'
  <2> SUFFICES ASSUME NEW v \in PoolCrons, At(v, p)', job[worker'[v].job].chunk = Last,
                      worker'[v].pc \in {"read", "invoice", "save"}
               PROVE  /\ AllDone(p)'
                      /\ worker'[v].result = "completed" =>
                          /\ pool[p] = "running" /\ Whole(p)'
                          /\ worker'[v].pc = "invoice" => \A k \in users[p] :
                              IF k \in worker'[v].todo THEN invoiced[p][k] = 0
                              ELSE invoiced[p][k] = 1
                          /\ worker'[v].pc = "save" => Billed(p)'
    BY DEF LastOK
  <2>1. v # w /\ At(v, p) /\ worker'[v] = worker[v]
    BY <1>2
  <2> QED
    BY <1>3, <1>4, <2>1 DEF CampaignOK, LastOK
<1> QED
  BY <1>6, <1>7, <1>8, <1>9, <1>10, <1>11 DEF CampaignOK

LEMMA PoolCronOK ==
  ASSUME Typed, Typed', Links, NEW w \in PoolCrons, PoolCron(w),
         NEW p \in Pools, CampaignOK(p)
  PROVE  CampaignOK(p)'
<1>1. PICK j \in Jobs : /\ job[j].status \in {"registered", "waiting"}
                        /\ worker'[w] = [pc |-> "start", job |-> j, seen |-> Seen(j),
                                         todo |-> {}, result |-> "completed"]
  BY PoolCronFacts
<1>2. /\ UNCHANGED << pool, campaign, job, lines, invoiced, director, users >>
      /\ \A v \in PoolCrons \ {w} : worker'[v] = worker[v]
  BY PoolCronFacts
<1>3. At(w, p)' => Exists(p)
  <2> SUFFICES ASSUME At(w, p)' PROVE Exists(p)
    OBVIOUS
  <2>1. job[j].pool = p
    BY <1>1, <1>2 DEF At, PoolOf
  <2>2. pool[p] # "deleted"
    BY <1>1, <2>1 DEF CampaignOK, JobsOK
  <2>3. pool[p] # "none"
    BY <2>1 DEF CampaignOK, DirectorsOK, Fresh, NoJobs
  <2> QED
    BY <2>2, <2>3 DEF Exists, Absent
<1> QED
  BY <1>1, <1>2, <1>3, FewerActive

LEMMA KillOK ==
  ASSUME Typed, Typed', Links, Kill, NEW p \in Pools, CampaignOK(p)
  PROVE  CampaignOK(p)'
<1>1. UNCHANGED << pool, campaign, job, lines, invoiced, users >>
  BY DEF Kill, rows, history
<1>2. CASE UNCHANGED << director, worker >>
  <2>1. Same(p)
    BY <1>1, <1>2 DEF Same
  <2> QED
    BY <2>1, Frame
<1>3. ASSUME NEW d \in CampaignCrons, Direct(d, IdleDirector), UNCHANGED worker
      PROVE  CampaignOK(p)'
  <2>1. /\ \A e \in CampaignCrons : director'[e].pool = p =>
              e # d /\ director'[e] = director[e]
    BY <1>3, DirectFacts, Names DEF IdleDirector
  <2>2. /\ NoJobs(p)' <=> NoJobs(p)
        /\ Broken(p)' <=> Broken(p)
        /\ AllDone(p)' <=> AllDone(p)
        /\ Over(p)' <=> Over(p)
        /\ Late(p)' <=> Late(p)
    BY <1>1, <1>3, SameWork
  <2>3. /\ Whole(p)' <=> Whole(p)
        /\ Billed(p)' <=> Billed(p)
        /\ Exists(p)' <=> Exists(p)
        /\ Fresh(p)' <=> Fresh(p)
    BY <1>1, <2>2 DEF Whole, Billed, Exists, Fresh
  <2>4. \A T : SplitSoFar(p, T)' <=> SplitSoFar(p, T)
    BY <1>1 DEF SplitSoFar
  <2>5. DirectorsOK(p)'
    BY <1>1, <2>1, <2>3, <2>4 DEF CampaignOK, DirectorsOK, Working
  <2>6. JobsOK(p)'
    BY <1>1, <2>1 DEF CampaignOK, JobsOK, Working
  <2>7. WorkersOK(p)'
    BY <1>1, <1>3, <2>3 DEF CampaignOK, WorkersOK, At, PoolOf, Active
  <2>8. PoolOK(p)'
    BY <1>1, <2>1, <2>2, <2>3 DEF CampaignOK, PoolOK
  <2>9. LinesOK(p)'
    BY <1>1, <1>3, <2>2, <2>3 DEF CampaignOK, LinesOK, Active
  <2>10. LastOK(p)'
    BY <1>1, <1>3, <2>2, <2>3 DEF CampaignOK, LastOK, At, PoolOf
  <2> QED
    BY <2>5, <2>6, <2>7, <2>8, <2>9, <2>10 DEF CampaignOK
<1>4. ASSUME NEW w \in PoolCrons, Become(w, IdleWorker), UNCHANGED director
      PROVE  CampaignOK(p)'
  <2>1. /\ worker'[w].pc = "idle" /\ worker'[w].job = None
        /\ \A v \in PoolCrons \ {w} : worker'[v] = worker[v]
    BY <1>4, BecomeFacts DEF IdleWorker
  <2> QED
    BY <1>1, <1>4, <2>1, FewerActive DEF At
<1> QED
  BY <1>2, <1>3, <1>4 DEF Kill

LEMMA DirectorOK ==
  ASSUME Typed, Typed', Links, NEW d \in CampaignCrons, CampaignCron(d) \/ DirectorStep(d),
         NEW p \in Pools, p \notin raced', CampaignOK(p)
  PROVE  CampaignOK(p)'
<1>1. CASE CampaignCron(d)
  BY <1>1, CampaignCronOK
<1>2. CASE DirectorStep(d) /\ p # director[d].pool
  BY <1>2, DirectorElsewhere, Frame
<1>3. CASE DirectorStep(d) /\ p = director[d].pool
  BY <1>3, StartCampaignOK, CheckDraftOK, RunPoolOK, GetUsersOK, SplitOK, EndCampaignOK
  DEF DirectorStep
<1> QED
  BY <1>1, <1>2, <1>3
-----------------------------------------------------------------------------
(* A pool that was stopped while nobody had it in hand.                    *)
Free(w) ==
    /\ worker[w].pc \notin {"build", "check", "read", "invoice", "save"}
    /\ worker[w].seen # "running"

LEMMA NobodyHas ==
  ASSUME NEW p \in Pools
  PROVE  ~InHand(p) <=>
            /\ \A d \in CampaignCrons :
                   director[d].pool = p => director[d].pc \notin {"run", "users"}
            /\ \A w \in PoolCrons : At(w, p) => Free(w)
BY DEF InHand, At, PoolOf, Free

LEMMA NobodyHasNext ==
  ASSUME NEW p \in Pools
  PROVE  ~InHand(p)' <=>
            /\ \A d \in CampaignCrons :
                   director'[d].pool = p => director'[d].pc \notin {"run", "users"}
            /\ \A w \in PoolCrons : At(w, p)' => Free(w)'
BY DEF InHand, At, PoolOf, Free

LEMMA HaltedFrame ==
  ASSUME Typed, Typed', NEW p \in Pools, Same(p), HaltedOK(p)
  PROVE  HaltedOK(p)'
<1>1. ASSUME NEW w \in PoolCrons, At(w, p)' PROVE Free(w)'
  <2>1. worker'[w] = worker[w] /\ worker[w].job \in Jobs /\ job'[worker[w].job].pool = p
    BY <1>1, AboutJobsNext DEF Same, At, PoolOf
  <2>2. At(w, p)
    BY <1>1, <2>1 DEF Same, At, PoolOf
  <2> QED
    BY <2>1, <2>2, NobodyHas DEF HaltedOK, Free
<1>2. \A d \in CampaignCrons : director'[d].pool = p => director'[d] = director[d]
  BY DEF Same
<1> QED
  BY <1>1, <1>2, NobodyHas, NobodyHasNext DEF HaltedOK, Same

LEMMA ManagerHalted ==
  ASSUME Typed, Typed', Links, ManagersOK, NEW m \in Managers, ManagerNext(m),
         NEW p \in Pools, p \notin raced', p \in stopped', p \in stopped => HaltedOK(p)
  PROVE  HaltedOK(p)'
<1>0. manager[m] \in Managing /\ UNCHANGED << director, worker >>
  BY DEF Typed, ManagerNext, CheckAdd, CreatePool, InitPool, CheckStop, StopPool,
         CheckDelete, DeletePool
<1>1. CASE StopPool(m)
  <2>1. manager[m].pool \in Pools
    BY <1>0, <1>1 DEF StopPool, ManagersOK, Managing
  <2>2. CASE p # manager[m].pool
    <3>1. Same(p) /\ p \in stopped
      BY <1>0, <1>1, <2>1, <2>2, PoolFacts DEF StopPool, Same
    <3> QED
      BY <3>1, HaltedFrame
  <2>3. CASE p = manager[m].pool
    <3>1. ~InHand(p) /\ job' = job
      BY <1>1, <2>3 DEF StopPool
    <3>2. ~InHand(p)'
      BY <1>0, <3>1 DEF InHand
    <3>3. pool'[p] = "failed"
      BY <1>1, <2>1, <2>3, PoolFacts DEF StopPool
    <3> QED
      BY <3>2, <3>3 DEF HaltedOK
  <2> QED
    BY <2>2, <2>3
<1>2. CASE ~StopPool(m)
  <2>1. HaltedOK(p)
    BY <1>2 DEF ManagerNext, CheckAdd, CreatePool, InitPool, CheckStop, CheckDelete, DeletePool,
                history
  <2>2. pool'[p] \in {"failed", "deleted"}
    <3>1. CASE CreatePool(m)
      <4>1. PICK q \in Pools : pool[q] = "none" /\ SavePoolAs(q, "registered")
        BY <3>1 DEF CreatePool
      <4> QED
        BY <2>1, <4>1, PoolFacts DEF HaltedOK
    <3>2. CASE InitPool(m)
      BY <2>1, <3>2 DEF HaltedOK, InitPool, SavePoolAs, Typed
    <3>3. CASE DeletePool(m)
      BY <2>1, <3>3 DEF HaltedOK, DeletePool, SavePoolAs, Typed
    <3>4. CASE CheckAdd(m) \/ \E q \in Pools : CheckStop(m, q) \/ CheckDelete(m, q)
      BY <2>1, <3>4 DEF HaltedOK, CheckAdd, CheckStop, CheckDelete, rows
    <3> QED
      BY <1>2, <3>1, <3>2, <3>3, <3>4 DEF ManagerNext
  <2>3. \A j \in Jobs : job'[j].pool = job[j].pool
    <3>1. CASE DeletePool(m)
      BY <3>1, DeleteFacts
    <3>2. CASE ~DeletePool(m)
      BY <1>2, <3>2 DEF ManagerNext, CheckAdd, CreatePool, InitPool, CheckStop, CheckDelete, rows
    <3> QED
      BY <3>1, <3>2
  <2>4. \A w \in PoolCrons : At(w, p)' => At(w, p)
    BY <1>0, <2>3, AboutJobsNext DEF At, PoolOf
  <2>5. ~InHand(p)'
    BY <1>0, <2>1, <2>4, NobodyHas, NobodyHasNext DEF HaltedOK, Free
  <2> QED
    BY <2>2, <2>5 DEF HaltedOK
<1> QED
  BY <1>1, <1>2

LEMMA DirectorHalted ==
  ASSUME Typed, Typed', Links, NEW d \in CampaignCrons, CampaignCron(d) \/ DirectorStep(d),
         NEW p \in Pools, HaltedOK(p)
  PROVE  HaltedOK(p)'
<1>1. CASE CampaignCron(d)
  <2>2. PICK q \in Pools :
          director'[d] = [pc |-> "start", pool |-> q, todo |-> {}, result |-> "completed"]
    BY <1>1, CronFacts
  <2>1. /\ UNCHANGED << pool, job, worker >>
        /\ director'[d].pc = "start"
        /\ \A e \in CampaignCrons \ {d} : director'[e] = director[e]
    BY <1>1, <2>2, CronFacts
  <2> QED
    BY <2>1, NobodyHas, NobodyHasNext DEF HaltedOK, At, PoolOf, Free
<1>2. CASE DirectorStep(d) /\ p # director[d].pool
  BY <1>2, DirectorElsewhere, HaltedFrame
<1>3. CASE DirectorStep(d) /\ p = director[d].pool
  <2>0. director[d] \in Directing /\ director[d].pc \notin {"run", "users"}
    BY <1>3, NobodyHas DEF HaltedOK, Typed
  <2>1. pool' = pool
    BY <1>3, <2>0 DEF DirectorStep, StartCampaign, CheckDraft, RunPool, GetUsers, Split,
                      EndCampaign, rows
  <2>2. director'[d].pc \notin {"run", "users"}
    <3>1. CASE StartCampaign(d)
      BY <2>0, <3>1 DEF StartCampaign, Direct, Typed, Directing
    <3>2. CASE CheckDraft(d)
      <4>1. Direct(d, [director[d] EXCEPT !.pc = "end", !.result = "failed"])
        BY <1>3, <3>2 DEF CheckDraft, HaltedOK
      <4> QED
        BY <2>0, <4>1 DEF Direct, Typed, Directing
    <3>3. CASE Split(d)
      <4>1. \/ Direct(d, [director[d] EXCEPT !.pc = "end", !.todo = {}, !.result = "failed"])
            \/ Direct(d, [director[d] EXCEPT !.pc = "end"])
            \/ \E k \in director[d].todo : Direct(d, [director[d] EXCEPT !.todo = @ \ {k}])
        BY <3>3 DEF Split
      <4>2. ASSUME NEW k, Direct(d, [director[d] EXCEPT !.todo = @ \ {k}])
            PROVE  director'[d].pc = director[d].pc
        BY <2>0, <4>2 DEF Direct, Typed, Directing
      <4>3. CASE Direct(d, [director[d] EXCEPT !.pc = "end", !.todo = {}, !.result = "failed"])
        BY <2>0, <4>3 DEF Direct, Typed, Directing
      <4>4. CASE Direct(d, [director[d] EXCEPT !.pc = "end"])
        BY <2>0, <4>4 DEF Direct, Typed, Directing
      <4> QED
        BY <2>0, <4>1, <4>2, <4>3, <4>4
    <3>4. CASE EndCampaign(d)
      BY <3>4, DirectFacts DEF EndCampaign, IdleDirector
    <3> QED
      BY <1>3, <2>0, <3>1, <3>2, <3>3, <3>4 DEF DirectorStep, RunPool, GetUsers
  <2>3. ASSUME NEW w \in PoolCrons, At(w, p)' PROVE At(w, p) /\ worker'[w] = worker[w]
    <3>1. worker' = worker /\ worker[w].job \in Jobs /\ worker[w].job # None
      BY <1>3, <2>3, DirectorMoves, AboutJobsNext DEF At
    <3>2. job[worker[w].job].status # "none"
      BY <3>1 DEF Links
    <3>3. job'[worker[w].job] = job[worker[w].job]
      BY <1>3, <3>1, <3>2, DirectorMoves
    <3> QED
      BY <2>3, <3>1, <3>3 DEF At, PoolOf
  <2>4. \A e \in CampaignCrons \ {d} : director'[e] = director[e]
    BY <1>3, DirectorMoves
  <2> QED
    BY <2>1, <2>2, <2>3, <2>4, NobodyHas, NobodyHasNext DEF HaltedOK, Free
<1> QED
  BY <1>1, <1>2, <1>3

LEMMA WorkerHalted ==
  ASSUME Typed, Typed', Links, NEW w \in PoolCrons, PoolCron(w) \/ WorkerStep(w),
         NEW p \in Pools, HaltedOK(p)
  PROVE  HaltedOK(p)'
<1>0. worker[w] \in Labour
  BY DEF Typed
<1>1. CASE PoolCron(w)
  <2>1. PICK j \in Jobs :
          worker'[w] = [pc |-> "start", job |-> j, seen |-> Seen(j), todo |-> {},
                        result |-> "completed"]
    BY <1>1, PoolCronFacts
  <2>2. /\ UNCHANGED << pool, job, director >>
        /\ \A v \in PoolCrons \ {w} : worker'[v] = worker[v]
    BY <1>1, PoolCronFacts
  <2>3. job[j].pool = p => Seen(j) # "running"
    BY DEF HaltedOK, Seen
  <2>4. At(w, p)' => Free(w)'
    BY <2>1, <2>2, <2>3 DEF At, PoolOf, Free
  <2>5. \A v \in PoolCrons \ {w} : At(v, p)' => At(v, p) /\ worker'[v] = worker[v]
    BY <2>2 DEF At, PoolOf
  <2> QED
    BY <2>2, <2>4, <2>5, NobodyHas, NobodyHasNext DEF HaltedOK, Free
<1>2. CASE WorkerStep(w) /\ p # PoolOf(w)
  BY <1>2, WorkerElsewhere, HaltedFrame
<1>3. CASE WorkerStep(w) /\ p = PoolOf(w)
  <2>1. worker[w].job \in Jobs /\ worker[w].job # None /\ At(w, p) /\ Free(w)
    BY <1>3, WorkerMoves, WorkerPool, Names, NobodyHas DEF HaltedOK, At
  <2>2. StartJob(w) \/ LoadPool(w) \/ EndJob(w)
    BY <1>3, <2>1 DEF Free, WorkerStep, Fail, BuildLines, SavePool, CheckJobs, ReadLines,
                      StopInvoices, MakeInvoice
  <2>3. pool' = pool /\ director' = director
    BY <2>2 DEF StartJob, LoadPool, EndJob, rows
  <2>4. Free(w)'
    <3>1. CASE StartJob(w)
      <4>1. \/ Become(w, [worker[w] EXCEPT !.pc = "load"])
            \/ Become(w, IdleWorker)
        BY <3>1 DEF StartJob
      <4>2. CASE Become(w, [worker[w] EXCEPT !.pc = "load"])
        BY <1>0, <2>1, <4>2 DEF Become, Typed, Labour, Free
      <4>3. CASE Become(w, IdleWorker)
        BY <4>3, BecomeFacts DEF IdleWorker, Free
      <4> QED
        BY <4>1, <4>2, <4>3
    <3>2. CASE LoadPool(w)
      <4> DEFINE after == [worker[w] EXCEPT !.seen = "none"]
      <4>1. (IF worker[w].seen = "none" THEN pool[PoolOf(w)] ELSE worker[w].seen) # "running"
        BY <1>3, <2>1 DEF HaltedOK, Free
      <4>2. Become(w, [after EXCEPT !.pc = "end", !.result = "failed"])
        BY <3>2, <4>1 DEF LoadPool
      <4> QED
        BY <1>0, <4>2 DEF Become, Typed, Labour, Free
    <3>3. CASE EndJob(w)
      <4>1. Become(w, IdleWorker)
        BY <3>3 DEF EndJob
      <4> QED
        BY <4>1, BecomeFacts DEF IdleWorker, Free
    <3> QED
      BY <2>2, <3>1, <3>2, <3>3
  <2>5. ASSUME NEW v \in PoolCrons \ {w}, At(v, p)' PROVE At(v, p) /\ worker'[v] = worker[v]
    <3>1. worker'[v] = worker[v] /\ worker'[v].job \in Jobs
      BY <1>3, <2>5, WorkerMoves, AboutJobsNext DEF At
    <3>2. job'[worker[v].job].pool = job[worker[v].job].pool
      BY <1>3, <3>1, WorkerMoves
    <3> QED
      BY <2>5, <3>1, <3>2 DEF At, PoolOf
  <2> QED
    BY <2>3, <2>4, <2>5, NobodyHas, NobodyHasNext DEF HaltedOK, Free
<1> QED
  BY <1>1, <1>2, <1>3

LEMMA KillHalted ==
  ASSUME Typed, Kill, NEW p \in Pools, HaltedOK(p)
  PROVE  HaltedOK(p)'
<1>1. UNCHANGED << pool, job >>
  BY DEF Kill, rows
<1>2. \A d \in CampaignCrons : director'[d] = director[d] \/ director'[d].pc = "idle"
  BY DEF Kill, Direct, IdleDirector, Typed
<1>3. \A w \in PoolCrons : worker'[w] = worker[w] \/ worker'[w] = IdleWorker
  BY DEF Kill, Become, Typed
<1>4. \A w \in PoolCrons : At(w, p)' => At(w, p) /\ worker'[w] = worker[w]
  BY <1>1, <1>3 DEF At, PoolOf, IdleWorker
<1> QED
  BY <1>1, <1>2, <1>4, NobodyHas, NobodyHasNext DEF HaltedOK, Free
-----------------------------------------------------------------------------
(* The invariant.                                                          *)
LEMMA HistoryGrows ==
  ASSUME [Next]_vars
  PROVE  raced \subseteq raced' /\ stopped \subseteq stopped'
<1>1. CASE UNCHANGED vars
  BY <1>1 DEF vars
<1>2. ASSUME NEW m \in Managers, ManagerNext(m)
      PROVE  raced \subseteq raced' /\ stopped \subseteq stopped'
  BY <1>2 DEF ManagerNext, CheckAdd, CreatePool, InitPool, CheckStop, StopPool, DeletePool,
              CheckDelete, history
<1>3. ASSUME NEW d \in CampaignCrons, CampaignCron(d) \/ DirectorStep(d)
      PROVE  raced \subseteq raced' /\ stopped \subseteq stopped'
  BY <1>3 DEF CampaignCron, DirectorStep, StartCampaign, CheckDraft, RunPool, GetUsers, Split,
              EndCampaign, history
<1>4. ASSUME NEW w \in PoolCrons, PoolCron(w) \/ WorkerStep(w)
      PROVE  raced \subseteq raced' /\ stopped' = stopped
  BY <1>4 DEF PoolCron, WorkerStep, StartJob, LoadPool, Fail, EndJob, BuildLines, SavePool,
              CheckJobs, ReadLines, StopInvoices, MakeInvoice, history
<1>5. CASE Kill
  BY <1>5 DEF Kill, history
<1> QED
  BY <1>1, <1>2, <1>3, <1>4, <1>5 DEF Next

\* Only a manager stops a pool.
LEMMA StoppedByManager ==
  ASSUME [Next]_vars
  PROVE  stopped' = stopped \/ \E m \in Managers : ManagerNext(m)
<1>1. CASE UNCHANGED vars
  BY <1>1 DEF vars
<1>2. ASSUME NEW d \in CampaignCrons, CampaignCron(d) \/ DirectorStep(d)
      PROVE  stopped' = stopped
  BY <1>2 DEF CampaignCron, DirectorStep, StartCampaign, CheckDraft, RunPool, GetUsers, Split,
              EndCampaign, history
<1>3. ASSUME NEW w \in PoolCrons, PoolCron(w) \/ WorkerStep(w) PROVE stopped' = stopped
  BY <1>3 DEF PoolCron, WorkerStep, StartJob, LoadPool, Fail, EndJob, BuildLines, SavePool,
              CheckJobs, ReadLines, StopInvoices, MakeInvoice, history
<1>4. CASE Kill
  BY <1>4 DEF Kill, history
<1> QED
  BY <1>1, <1>2, <1>3, <1>4 DEF Next

LEMMA InitOK == Init => CampaignInv
<1> SUFFICES ASSUME Init PROVE CampaignInv
  OBVIOUS
<1>1. CampaignTypeOK /\ Typed
  BY InitTypes, TypedIsType
<1>2. Links
  BY DEF Init, Links, NoJob, IdleDirector, IdleWorker
<1>3. ManagersOK
  BY Names DEF Init, ManagersOK, NoJobs, NoJob, IdleManager, IdleDirector
<1>4. PlacesOK
  BY DEF Init, PlacesOK, IdleWorker
<1>5. ASSUME NEW p \in Pools PROVE CampaignOK(p)
  <2>1. /\ \A j \in Jobs : job[j].pool # p
        /\ \A w \in PoolCrons : worker[w].job = None
        /\ \A d \in CampaignCrons : director[d].pool # p
        /\ pool[p] = "none" /\ campaign[p] = "none" /\ users[p] = {}
        /\ \A k \in Chunks : lines[p][k] = 0 /\ invoiced[p][k] = 0
    BY Names DEF Init, NoJob, IdleDirector, IdleWorker
  <2>2. Fresh(p)
    BY <2>1 DEF Fresh, NoJobs
  <2>3. DirectorsOK(p) /\ JobsOK(p) /\ WorkersOK(p) /\ PoolOK(p) /\ LastOK(p)
    BY <2>1, <2>2 DEF DirectorsOK, JobsOK, WorkersOK, PoolOK, LastOK, At
  <2>4. LinesOK(p)
    BY <2>1 DEF LinesOK, Exists, Absent
  <2> QED
    BY <2>3, <2>4 DEF CampaignOK
<1>6. stopped = {}
  BY DEF Init
<1> QED
  BY <1>1, <1>2, <1>3, <1>4, <1>5, <1>6 DEF CampaignInv

LEMMA LinksStep == Base /\ [Next]_vars => Base'
<1> SUFFICES ASSUME Base, [Next]_vars PROVE Base'
  OBVIOUS
<1>1. Typed /\ Links /\ ManagersOK /\ PlacesOK
  BY TypedIsType DEF Base
<1>2. CASE UNCHANGED vars
  <2>1. Links'
    BY <1>1, <1>2 DEF vars, Links
  <2>2. ManagersOK'
    BY <1>1, <1>2 DEF vars, ManagersOK, NoJobs
  <2>3. PlacesOK'
    BY <1>1, <1>2 DEF vars, PlacesOK
  <2> QED
    BY <2>1, <2>2, <2>3, StepTypes DEF Base
<1>3. CASE Next
  BY <1>1, <1>3, StepTypes, ManagerLinks, DirectorLinks, WorkerLinks, KillLinks DEF Base, Next
<1> QED
  BY <1>2, <1>3

LEMMA StepOK == CampaignInv /\ [Next]_vars => CampaignInv'
<1> SUFFICES ASSUME CampaignInv, [Next]_vars PROVE CampaignInv'
  OBVIOUS
<1>1. Typed /\ Links /\ ManagersOK /\ PlacesOK /\ Base
  BY TypedIsType DEF CampaignInv, Base
<1>2. Base' /\ Typed'
  BY <1>1, LinksStep, TypedIsTypeNext DEF Base
<1>3. ASSUME NEW p \in Pools \ (raced' \cup stopped') PROVE CampaignOK(p)'
  <2>1. p \in Pools /\ CampaignOK(p)
    BY <1>3, HistoryGrows DEF CampaignInv
  <2>2. CASE UNCHANGED vars
    <3>1. Same(p)
      BY <2>2 DEF vars, Same
    <3> QED
      BY <1>1, <1>2, <2>1, <3>1, Frame
  <2>3. CASE Next
    BY <1>1, <1>2, <1>3, <2>1, <2>3, ManagerOK, DirectorOK, PoolCronOK, WorkerOK, KillOK DEF Next
  <2> QED
    BY <2>2, <2>3
<1>4. ASSUME NEW p \in stopped' \ raced' PROVE HaltedOK(p)'
  <2>1. p \in Pools /\ p \notin raced
    BY <1>2, <1>4, HistoryGrows DEF Typed
  <2>2. p \in stopped => HaltedOK(p)
    BY <2>1 DEF CampaignInv
  <2>3. CASE \E m \in Managers : ManagerNext(m)
    BY <1>1, <1>2, <1>4, <2>1, <2>2, <2>3, ManagerHalted
  <2>4. CASE ~\E m \in Managers : ManagerNext(m)
    <3>1. HaltedOK(p)
      BY <1>4, <2>2, <2>4, StoppedByManager
    <3>2. CASE UNCHANGED vars
      BY <1>1, <1>2, <2>1, <3>1, <3>2, HaltedFrame DEF vars, Same
    <3>3. CASE Next
      BY <1>1, <1>2, <2>1, <2>4, <3>1, <3>3, DirectorHalted, WorkerHalted, KillHalted DEF Next
    <3> QED
      BY <3>2, <3>3
  <2> QED
    BY <2>3, <2>4
<1> QED
  BY <1>2, <1>3, <1>4 DEF CampaignInv, Base

\* The invariant of run_campaign_jobs, run_pool_jobs and the views on pools.
THEOREM CampaignInvariant == Spec => []CampaignInv
BY InitOK, StepOK, PTL DEF Spec

\* The rows of pools and jobs, and what the processes hold of them, are well typed.
THEOREM CampaignTypes == Spec => []CampaignTypeOK
<1>1. CampaignInv => CampaignTypeOK
  BY DEF CampaignInv
<1> QED
  BY <1>1, CampaignInvariant, PTL

\* A pool shown as completed has every line once and on one invoice, unless two
\* processes took one of its jobs, or a manager stopped or deleted it while one had
\* it in hand (invoicing/models/campaign.py:754-805, views/pool.py:64-105).
THEOREM WholeWhenCompleted == Spec => []CompletedIsWhole
<1>1. CampaignInv => CompletedIsWhole
  <2> SUFFICES ASSUME CampaignInv, NEW p \in Pools, pool[p] = "completed", p \notin raced
               PROVE  \A k \in users[p] : lines[p][k] = 1 /\ invoiced[p][k] = 1
    BY DEF CompletedIsWhole
  <2>1. p \notin stopped
    BY DEF CampaignInv, HaltedOK
  <2> QED
    BY <2>1 DEF CampaignInv, CampaignOK, PoolOK, Whole, Billed
<1> QED
  BY <1>1, CampaignInvariant, PTL

\* A pool that is stopped while no process has it in hand stays stopped, whatever
\* number of processes begin on its jobs afterwards
\* (invoicing/views/pool.py:91-94, models/campaign.py:690, 784, 793).
THEOREM StoppedStays == Spec => []StopHolds
<1>1. CampaignInv => StopHolds
  BY DEF CampaignInv, HaltedOK, StopHolds
<1> QED
  BY <1>1, CampaignInvariant, PTL

\* No process saves another status over a completed pool, but a manager who stops it
\* from a copy read before (invoicing/models/campaign.py:258-300, views/pool.py:91-94).
THEOREM CompletedStays == Spec => CompletedIsFinal
<1> DEFINE Final == \A p \in Pools :
        pool[p] = "completed" /\ p \notin raced' => pool'[p] \in {"completed", "deleted"}
<1>1. CampaignInv /\ [Next]_vars => Final
  <2> SUFFICES ASSUME CampaignInv, [Next]_vars, NEW p \in Pools, pool[p] = "completed",
                      p \notin raced', pool'[p] # pool[p]
               PROVE  pool'[p] = "deleted"
    OBVIOUS
  <2>0. p \notin raced /\ p \notin stopped
    BY HistoryGrows DEF CampaignInv, HaltedOK
  <2>1. Typed /\ Links /\ ManagersOK /\ PlacesOK /\ CampaignOK(p)
    BY <2>0, TypedIsType DEF CampaignInv
  <2>2. ~UNCHANGED vars
    BY DEF vars
  <2>3. ASSUME NEW m \in Managers, ManagerNext(m) PROVE pool'[p] = "deleted"
    <3>1. CASE CheckAdd(m) \/ \E q \in Pools : CheckStop(m, q) \/ CheckDelete(m, q)
      BY <3>1 DEF CheckAdd, CheckStop, CheckDelete, rows
    <3>2. CASE CreatePool(m)
      <4>1. PICK q \in Pools : pool[q] = "none" /\ SavePoolAs(q, "registered")
        BY <3>2 DEF CreatePool
      <4> QED
        BY <2>1, <4>1, PoolFacts
    <3>3. CASE InitPool(m)
      BY <2>0, <2>1, <3>3 DEF InitPool, SavePoolAs, ManagersOK, Typed
    <3>5. CASE StopPool(m)
      BY <2>1, <3>5 DEF StopPool, SavePoolAs, Typed
    <3>4. CASE DeletePool(m)
      BY <2>1, <3>4 DEF DeletePool, SavePoolAs, Typed
    <3> QED
      BY <2>3, <3>1, <3>2, <3>3, <3>4, <3>5 DEF ManagerNext
  <2>4. ASSUME NEW d \in CampaignCrons, CampaignCron(d) \/ DirectorStep(d) PROVE FALSE
    <3>1. RunPool(d) \/ GetUsers(d)
      BY <2>4 DEF CampaignCron, DirectorStep, StartCampaign, CheckDraft, Split, EndCampaign, rows
    <3>2. director[d].pool \in Pools
      BY <2>1, <3>1, DirectorPool DEF RunPool, GetUsers
    <3>3. p = director[d].pool
      BY <3>1, <3>2, <2>1, PoolFacts DEF RunPool, GetUsers
    <3>4. director[d].pc \in {"run", "users"}
      BY <3>1 DEF RunPool, GetUsers
    <3> QED
      BY <2>1, <3>3, <3>4 DEF CampaignOK, DirectorsOK
  <2>5. ASSUME NEW w \in PoolCrons, PoolCron(w) \/ WorkerStep(w) PROVE FALSE
    <3>1. SavePool(w)
      BY <2>5 DEF PoolCron, WorkerStep, StartJob, LoadPool, Fail, EndJob, BuildLines, CheckJobs,
                  ReadLines, StopInvoices, MakeInvoice, rows
    <3>2. worker[w].pc = "save"
      BY <3>1 DEF SavePool
    <3>3. p = PoolOf(w)
      BY <2>1, <3>1, <3>2, WorkerPool, PoolFacts DEF SavePool
    <3>4. AllDone(p) /\ Over(p)
      BY <2>1 DEF CampaignOK, PoolOK
    <3> QED
      BY <2>1, <3>2, <3>3, <3>4, Busy
  <2>6. CASE Kill
    BY <2>6 DEF Kill, rows
  <2> QED
    BY <2>2, <2>3, <2>4, <2>5, <2>6 DEF Next
<1>2. CompletedIsFinal <=> [][Final]_vars
  BY PTL DEF CompletedIsFinal
<1> QED
  BY <1>1, <1>2, CampaignInvariant, PTL DEF Spec
-----------------------------------------------------------------------------
(* What is left by a process that was killed, for any pool.                *)
DeadJobs == {j \in Jobs : Dead(j)}
ForsakenPools == {p \in Pools : Forsaken(p)}

LEMMA StuckFinite ==
  /\ IsFiniteSet(DeadJobs) /\ Cardinality(DeadJobs) \in Nat
  /\ IsFiniteSet(DeadJobs') /\ Cardinality(DeadJobs') \in Nat
  /\ IsFiniteSet(ForsakenPools) /\ Cardinality(ForsakenPools) \in Nat
  /\ IsFiniteSet(ForsakenPools') /\ Cardinality(ForsakenPools') \in Nat
<1>1. IsFiniteSet(Jobs) /\ IsFiniteSet(Pools)
  BY CampaignAssumption, FS_Interval DEF Jobs, Pools
<1>2. /\ DeadJobs \subseteq Jobs /\ DeadJobs' \subseteq Jobs
      /\ ForsakenPools \subseteq Pools /\ ForsakenPools' \subseteq Pools
  BY DEF DeadJobs, ForsakenPools
<1> QED
  BY <1>1, <1>2, FS_Subset, FS_CardinalityType

LEMMA RunningHasPool ==
  ASSUME Typed, Links, NEW j \in Jobs, job[j].status = "running"
  PROVE  job[j].pool \in Pools
BY DEF Typed, Links, JobRows

\* A worker saves a pool as one that exists, and a job whose pool exists.
LEMMA WorkerSaves ==
  ASSUME Typed, Links, NEW w \in PoolCrons, WorkerStep(w)
  PROVE  /\ \A p \in Pools : Exists(p) => Exists(p)'
         /\ \/ job' = job
            \/ /\ Exists(PoolOf(w))
               /\ \A j \in Jobs : j # worker[w].job => job'[j] = job[j]
               /\ \A j \in Jobs : job'[j].pool = job[j].pool
<1>1. \A p \in Pools : Exists(p) => Exists(p)'
  <2>1. pool' = pool \/ SavePool(w)
    BY DEF WorkerStep, StartJob, LoadPool, Fail, EndJob, BuildLines, CheckJobs, ReadLines,
           StopInvoices, MakeInvoice, rows
  <2>2. CASE pool' = pool
    BY <2>2 DEF Exists
  <2>3. CASE SavePool(w)
    <3>1. PoolOf(w) \in Pools
      BY <2>3, WorkerPool DEF SavePool
    <3>2. PoolResult(w) \notin Absent
      BY DEF PoolResult, Absent
    <3> QED
      BY <2>3, <3>1, <3>2, PoolFacts DEF SavePool, Exists
  <2> QED
    BY <2>1, <2>2, <2>3
<1>2. job' = job \/ StartJob(w) \/ EndJob(w)
  BY DEF WorkerStep, LoadPool, Fail, BuildLines, SavePool, CheckJobs, ReadLines,
         StopInvoices, MakeInvoice, rows
<1>3. job' = job \/ Exists(PoolOf(w))
  BY <1>2 DEF StartJob, EndJob, SaveJob
<1> QED
  BY <1>1, <1>3, WorkerMoves

LEMMA RunningNext ==
  ASSUME Base, RunningExists, [Next]_vars
  PROVE  RunningExists'
<1> SUFFICES ASSUME NEW j \in Jobs, job'[j].status = "running"
             PROVE  pool'[job'[j].pool] \notin Absent
  BY DEF RunningExists, Exists
<1>1. Typed /\ Links /\ ManagersOK /\ PlacesOK
  BY TypedIsType DEF Base
<1>2. ASSUME NEW m \in Managers, ManagerNext(m)
      PROVE  pool'[job'[j].pool] \notin Absent
  <2>1. CASE DeletePool(m)
    <3>1. job'[j] = job[j] /\ job[j].status = "running"
      BY <1>1, <2>1, DeleteFacts
    <3>2. job[j].pool # manager[m].pool
      BY <1>1, <2>1, <3>1, DeleteFacts DEF Absent
    <3>3. job[j].pool \in Pools /\ pool'[job[j].pool] = pool[job[j].pool]
      BY <1>1, <2>1, <3>1, <3>2, RunningHasPool DEF DeletePool, SavePoolAs, Typed
    <3> QED
      BY <3>1, <3>3 DEF RunningExists, Exists
  <2>2. CASE ~DeletePool(m)
    <3>1. job' = job /\ job[j].pool \in Pools
      BY <1>1, <1>2, <2>2, RunningHasPool
      DEF ManagerNext, CheckAdd, CreatePool, InitPool, CheckStop, StopPool, CheckDelete, rows
    <3>2. pool' = pool \/ \E p, s : SavePoolAs(p, s) /\ s \in {"registered", "failed"}
      BY <1>2, <2>2
      DEF ManagerNext, CheckAdd, CreatePool, InitPool, CheckStop, StopPool, CheckDelete, rows
    <3>3. pool'[job[j].pool] \in {pool[job[j].pool], "registered", "failed"}
      BY <1>1, <3>1, <3>2 DEF SavePoolAs, Typed
    <3> QED
      BY <3>1, <3>3 DEF RunningExists, Exists, Absent
  <2> QED
    BY <2>1, <2>2
<1>3. ASSUME NEW d \in CampaignCrons, CampaignCron(d) \/ DirectorStep(d)
      PROVE  pool'[job'[j].pool] \notin Absent
  <2>1. CASE CampaignCron(d)
    BY <1>1, <2>1, CronFacts DEF RunningExists, Exists
  <2>2. CASE DirectorStep(d)
    <3>1. job'[j] = job[j]
      BY <1>1, <2>2, DirectorMoves
    <3>2. job[j].pool \in Pools
      BY <1>1, <3>1, RunningHasPool
    <3>3. pool'[job[j].pool] \in {pool[job[j].pool], "running", "failed"}
      BY <1>1, <2>2, <3>2, DirectorMoves
    <3> QED
      BY <3>1, <3>3 DEF RunningExists, Exists, Absent
  <2> QED
    BY <1>3, <2>1, <2>2
<1>4. ASSUME NEW w \in PoolCrons, PoolCron(w) \/ WorkerStep(w)
      PROVE  pool'[job'[j].pool] \notin Absent
  <2>1. CASE PoolCron(w)
    BY <1>1, <2>1, PoolCronFacts DEF RunningExists, Exists
  <2>2. CASE WorkerStep(w)
    <3>1. \A p \in Pools : pool[p] \notin Absent => pool'[p] \notin Absent
      BY <1>1, <2>2, WorkerSaves DEF Exists
    <3>2. CASE j = worker[w].job /\ job' # job
      <4>1. Exists(job[j].pool) /\ job'[j].pool = job[j].pool
        BY <1>1, <2>2, <3>2, WorkerSaves DEF PoolOf
      <4>2. job[j].pool \in Pools
        BY <1>1, <2>2, <3>2, WorkerMoves, WorkerPool DEF PoolOf
      <4> QED
        BY <3>1, <4>1, <4>2 DEF Exists
    <3>3. CASE j # worker[w].job \/ job' = job
      <4>1. job'[j] = job[j] /\ job[j].pool \in Pools
        BY <1>1, <2>2, <3>3, WorkerMoves, RunningHasPool
      <4> QED
        BY <3>1, <4>1 DEF RunningExists, Exists
    <3> QED
      BY <3>2, <3>3
  <2> QED
    BY <1>4, <2>1, <2>2
<1>5. CASE Kill \/ UNCHANGED vars
  BY <1>5 DEF Kill, rows, vars, RunningExists, Exists
<1> QED
  BY <1>2, <1>3, <1>4, <1>5 DEF Next

\* A process that goes on ends or saves what it has begun.
LEMMA GoesOn ==
  ASSUME Base, RunningExists, [Next]_vars, ~Kill
  PROVE  /\ kills' = kills
         /\ \A j \in Jobs : Dead(j)' => Dead(j)
         /\ \A p \in Pools : Forsaken(p)' => Forsaken(p)
<1>1. Typed /\ Links /\ ManagersOK /\ PlacesOK
  BY TypedIsType DEF Base
<1>2. ASSUME NEW m \in Managers, ManagerNext(m)
      PROVE  /\ UNCHANGED << kills, director, worker >>
             /\ \A j \in Jobs : job'[j].status = "running" => job[j].status = "running"
             /\ \A p \in Pools : campaign'[p] = "running" => campaign[p] = "running"
  <2>1. UNCHANGED << kills, director, worker >>
    BY <1>2 DEF ManagerNext, CheckAdd, CreatePool, InitPool, CheckStop, StopPool, CheckDelete,
                DeletePool, rows
  <2>2. \A j \in Jobs : job'[j].status = "running" => job[j].status = "running"
    <3>1. CASE DeletePool(m)
      BY <1>1, <3>1, DeleteFacts
    <3>2. CASE ~DeletePool(m)
      BY <1>2, <3>2 DEF ManagerNext, CheckAdd, CreatePool, InitPool, CheckStop, StopPool, CheckDelete, rows
    <3> QED
      BY <3>1, <3>2
  <2>3. \A p \in Pools : campaign'[p] = "running" => campaign[p] = "running"
    BY <1>1, <1>2
    DEF ManagerNext, CheckAdd, CreatePool, InitPool, CheckStop, StopPool, CheckDelete,
                DeletePool, rows, Typed
  <2> QED
    BY <2>1, <2>2, <2>3
<1>3. ASSUME NEW d \in CampaignCrons, CampaignCron(d) \/ DirectorStep(d)
      PROVE  /\ UNCHANGED << kills, worker >>
             /\ \A j \in Jobs : job'[j].status = "running" => job[j].status = "running"
             /\ \A p \in Pools : Forsaken(p)' => Forsaken(p)
  <2>1. kills' = kills
    BY <1>3 DEF CampaignCron, DirectorStep, StartCampaign, CheckDraft, RunPool, GetUsers,
                Split, EndCampaign
  <2>2. CASE CampaignCron(d)
    <3>1. UNCHANGED << campaign, job, worker >> /\ director[d].pool = None
      BY <1>1, <2>2, CronFacts DEF Links
    <3>2. \A e \in CampaignCrons \ {d} : director'[e] = director[e]
      BY <1>1, <2>2, CronFacts
    <3> QED
      BY <2>1, <3>1, <3>2, Names DEF Forsaken
  <2>3. CASE DirectorStep(d)
    <3> DEFINE q == director[d].pool
    <3>1. /\ worker' = worker /\ q \in Pools
          /\ \A e \in CampaignCrons \ {d} : director'[e] = director[e]
          /\ director'[d] = IdleDirector \/ director'[d].pool = q
          /\ \A p \in Pools \ {q} : campaign'[p] = campaign[p]
      BY <1>1, <2>3, DirectorMoves
    <3>2. \A j \in Jobs : job'[j].status = "running" => job[j].status = "running"
      BY <1>1, <2>3, DirectorMoves
    <3>3. ASSUME NEW p \in Pools, Forsaken(p)' PROVE Forsaken(p)
      <4>1. campaign'[p] = "running" /\ \A e \in CampaignCrons : director'[e].pool # p
        BY <3>3 DEF Forsaken
      <4>2. CASE p # q
        BY <3>1, <4>1, <4>2 DEF Forsaken
      <4>3. CASE p = q
        <5>1. director'[d] = IdleDirector
          BY <3>1, <4>1, <4>3
        <5>2. EndCampaign(d)
          <6>1. director'[d].pool = None /\ q # None
            BY <5>1, <3>1, Names DEF IdleDirector
          <6>2. director[d] \in Directing /\ director \in [CampaignCrons -> Directing]
            BY <1>1 DEF Typed
          <6>3. StartCampaign(d) => director'[d].pool = q
            BY <6>2 DEF StartCampaign, Direct, Directing
          <6>4. CheckDraft(d) => director'[d].pool = q
            BY <6>2 DEF CheckDraft, Direct, Directing
          <6>5. RunPool(d) => director'[d].pool = q
            BY <6>2 DEF RunPool, Direct, Directing
          <6>6. ASSUME GetUsers(d) PROVE director'[d].pool = q
            <7>1. \/ \E n : Direct(d, [director[d] EXCEPT !.pc = "split", !.todo = Dealt(n)])
                  \/ Direct(d, [director[d] EXCEPT !.pc = "end", !.result = "failed"])
              BY <6>6 DEF GetUsers
            <7>2. ASSUME NEW n, Direct(d, [director[d] EXCEPT !.pc = "split", !.todo = Dealt(n)])
                  PROVE  director'[d].pool = q
              BY <6>2, <7>2 DEF Direct, Directing
            <7>3. CASE Direct(d, [director[d] EXCEPT !.pc = "end", !.result = "failed"])
              BY <6>2, <7>3 DEF Direct, Directing
            <7> QED
              BY <7>1, <7>2, <7>3
          <6>7. Split(d) => director'[d].pool = q
            BY <6>2 DEF Split, Direct, Directing
          <6> QED
            BY <2>3, <6>1, <6>3, <6>4, <6>5, <6>6, <6>7 DEF DirectorStep
        <5>3. campaign'[p] = director[d].result /\ director[d].result # "running"
          BY <1>1, <4>3, <5>2 DEF EndCampaign, Typed, Directing
        <5> QED
          BY <4>1, <5>3
      <4> QED
        BY <4>2, <4>3
    <3> QED
      BY <2>1, <3>1, <3>2, <3>3
  <2> QED
    BY <1>3, <2>2, <2>3
<1>4. ASSUME NEW w \in PoolCrons, PoolCron(w) \/ WorkerStep(w)
      PROVE  /\ UNCHANGED << kills, director, campaign >>
             /\ \A j \in Jobs : Dead(j)' => Dead(j)
  <2>1. UNCHANGED << kills, director, campaign >>
    BY <1>4 DEF PoolCron, WorkerStep, StartJob, LoadPool, Fail, EndJob, BuildLines, SavePool,
                CheckJobs, ReadLines, StopInvoices, MakeInvoice, rows
  <2>2. CASE PoolCron(w)
    <3>1. job' = job /\ worker[w].job = None
      BY <1>1, <2>2, PoolCronFacts DEF Links
    <3>2. \A v \in PoolCrons \ {w} : worker'[v] = worker[v]
      BY <1>1, <2>2, PoolCronFacts
    <3> QED
      BY <2>1, <3>1, <3>2, Names DEF Dead
  <2>3. CASE WorkerStep(w)
    <3> DEFINE i == worker[w].job
    <3>1. /\ i \in Jobs /\ i # None
          /\ \A v \in PoolCrons \ {w} : worker'[v] = worker[v]
          /\ \A j \in Jobs : j # i => job'[j] = job[j]
      BY <1>1, <2>3, WorkerMoves, WorkerPool, Names
    <3>2. ASSUME NEW j \in Jobs, Dead(j)' PROVE Dead(j)
      <4>1. job'[j].status = "running" /\ \A v \in PoolCrons : worker'[v].job # j
        BY <3>2 DEF Dead
      <4>2. CASE j # i
        BY <3>1, <4>1, <4>2 DEF Dead
      <4>3. CASE j = i
        <5>1. (StartJob(w) /\ ~Exists(PoolOf(w))) \/ EndJob(w)
          <6>1. worker'[w].job # i
            BY <4>1, <4>3
          <6>2. worker[w] \in Labour /\ worker \in [PoolCrons -> Labour]
            BY <1>1 DEF Typed
          <6>3. LoadPool(w) => worker'[w].job = i
            BY <6>2 DEF LoadPool, Become, Labour
          <6>4. Fail(w) => worker'[w].job = i
            BY <6>2 DEF Fail, Become, Labour
          <6>5. BuildLines(w) => worker'[w].job = i
            BY <6>2 DEF BuildLines, Become, Labour
          <6>6. SavePool(w) => worker'[w].job = i
            BY <6>2 DEF SavePool, Become, Labour
          <6>7. CheckJobs(w) => worker'[w].job = i
            BY <1>1, CheckJobsFacts
          <6>8. ReadLines(w) => worker'[w].job = i
            BY <6>2 DEF ReadLines, Become, Labour
          <6>9. StopInvoices(w) => worker'[w].job = i
            BY <6>2 DEF StopInvoices, Become, Labour
          <6>10. \A k \in Chunks : MakeInvoice(w, k) => worker'[w].job = i
            BY <6>2 DEF MakeInvoice, Become, Labour
          <6>11. StartJob(w) /\ Exists(PoolOf(w)) => worker'[w].job = i
            BY <6>2 DEF StartJob, Become, Labour
          <6> QED
            BY <2>3, <6>1, <6>3, <6>4, <6>5, <6>6, <6>7, <6>8, <6>9, <6>10, <6>11
            DEF WorkerStep
        <5>2. ~(EndJob(w) /\ Exists(PoolOf(w)))
          <6>1. CASE EndJob(w) /\ Exists(PoolOf(w))
            <7>1. job'[i].status = worker[w].result
              BY <1>1, <2>3, <6>1, SaveJobFacts, WorkerMoves DEF EndJob
            <7>2. worker[w].result # "running"
              BY <1>1 DEF Typed, Labour
            <7> QED
              BY <4>1, <4>3, <7>1, <7>2
          <6> QED
            BY <6>1
        <5>3. job' = job /\ ~Exists(PoolOf(w))
          BY <5>1, <5>2 DEF StartJob, EndJob, SaveJob
        <5> QED
          BY <4>1, <4>3, <5>3 DEF RunningExists, PoolOf
      <4> QED
        BY <4>2, <4>3
    <3> QED
      BY <2>1, <3>2
  <2> QED
    BY <1>4, <2>2, <2>3
<1>5. CASE UNCHANGED vars
  BY <1>5 DEF vars, Dead, Forsaken
<1> QED
  BY <1>2, <1>3, <1>4, <1>5 DEF Next, Dead, Forsaken

\* A process that is killed leaves what it was at, a job or a campaign job.
LEMMA KillLeaves ==
  ASSUME Base, Kill
  PROVE  /\ kills' = kills + 1
         /\ \/ /\ \E i : DeadJobs' \subseteq DeadJobs \cup {i}
               /\ ForsakenPools' \subseteq ForsakenPools
            \/ /\ DeadJobs' \subseteq DeadJobs
               /\ \E q : ForsakenPools' \subseteq ForsakenPools \cup {q}
<1>1. Typed /\ UNCHANGED << campaign, job >> /\ kills' = kills + 1
  BY TypedIsType DEF Base, Kill, rows
<1>2. CASE UNCHANGED << director, worker >>
  <2>1. DeadJobs' = DeadJobs /\ ForsakenPools' = ForsakenPools
    BY <1>1, <1>2 DEF DeadJobs, ForsakenPools, Dead, Forsaken
  <2> QED
    BY <1>1, <2>1
<1>3. ASSUME NEW d \in CampaignCrons, Direct(d, IdleDirector), worker' = worker
      PROVE  /\ DeadJobs' \subseteq DeadJobs
             /\ ForsakenPools' \subseteq ForsakenPools \cup {director[d].pool}
  <2>1. \A e \in CampaignCrons \ {d} : director'[e] = director[e]
    BY <1>1, <1>3, DirectFacts
  <2> QED
    BY <1>1, <1>3, <2>1 DEF DeadJobs, ForsakenPools, Dead, Forsaken
<1>4. ASSUME NEW w \in PoolCrons, Become(w, IdleWorker), director' = director
      PROVE  /\ DeadJobs' \subseteq DeadJobs \cup {worker[w].job}
             /\ ForsakenPools' \subseteq ForsakenPools
  <2>1. \A v \in PoolCrons \ {w} : worker'[v] = worker[v]
    BY <1>1, <1>4, BecomeFacts
  <2> QED
    BY <1>1, <1>4, <2>1 DEF DeadJobs, ForsakenPools, Dead, Forsaken
<1> QED
  BY <1>1, <1>2, <1>3, <1>4 DEF Kill

LEMMA AtMostOneMore ==
  ASSUME NEW S, NEW T, NEW x, IsFiniteSet(S), T \subseteq S \cup {x}
  PROVE  /\ Cardinality(S) \in Nat /\ Cardinality(T) \in Nat
         /\ Cardinality(T) =< Cardinality(S) + 1
<1>1. /\ IsFiniteSet(S \cup {x})
      /\ \/ Cardinality(S \cup {x}) = Cardinality(S) + 1
         \/ Cardinality(S \cup {x}) = Cardinality(S)
  BY FS_AddElement
<1>2. IsFiniteSet(T) /\ Cardinality(T) =< Cardinality(S \cup {x})
  BY <1>1, FS_Subset
<1>3. Cardinality(S) \in Nat /\ Cardinality(T) \in Nat
  BY <1>2, FS_CardinalityType
<1> QED
  BY <1>1, <1>2, <1>3

LEMMA StuckNext ==
  ASSUME Base, RunningExists, [Next]_vars, StuckIsKilled
  PROVE  StuckIsKilled'
<1>1. kills \in Nat /\ Cardinality(DeadJobs) + Cardinality(ForsakenPools) =< kills
  BY TypedIsType DEF Base, Typed, StuckIsKilled, DeadJobs, ForsakenPools
<1>2. Cardinality(DeadJobs') + Cardinality(ForsakenPools') =< kills'
  <2>1. CASE ~Kill
    <3>1. DeadJobs' \subseteq DeadJobs /\ ForsakenPools' \subseteq ForsakenPools /\ kills' = kills
      BY <2>1, GoesOn DEF DeadJobs, ForsakenPools
    <3>2. /\ Cardinality(DeadJobs') =< Cardinality(DeadJobs)
          /\ Cardinality(ForsakenPools') =< Cardinality(ForsakenPools)
      BY <3>1, StuckFinite, FS_Subset
    <3> QED
      BY <1>1, <3>1, <3>2, StuckFinite
  <2>2. ASSUME Kill, NEW i, DeadJobs' \subseteq DeadJobs \cup {i},
               ForsakenPools' \subseteq ForsakenPools
        PROVE  Cardinality(DeadJobs') + Cardinality(ForsakenPools') =< kills'
    <3>1. /\ Cardinality(DeadJobs') =< Cardinality(DeadJobs) + 1
          /\ Cardinality(ForsakenPools') =< Cardinality(ForsakenPools)
      BY <2>2, StuckFinite, FS_Subset, AtMostOneMore
    <3> QED
      BY <1>1, <2>2, <3>1, StuckFinite, KillLeaves
  <2>3. ASSUME Kill, DeadJobs' \subseteq DeadJobs,
               NEW q, ForsakenPools' \subseteq ForsakenPools \cup {q}
        PROVE  Cardinality(DeadJobs') + Cardinality(ForsakenPools') =< kills'
    <3>1. /\ Cardinality(DeadJobs') =< Cardinality(DeadJobs)
          /\ Cardinality(ForsakenPools') =< Cardinality(ForsakenPools) + 1
      BY <2>3, StuckFinite, FS_Subset, AtMostOneMore
    <3> QED
      BY <1>1, <2>3, <3>1, StuckFinite, KillLeaves
  <2> QED
    BY <2>1, <2>2, <2>3, KillLeaves
<1> QED
  BY <1>2 DEF StuckIsKilled, DeadJobs, ForsakenPools

\* For any number of pools, jobs and processes, only a process that was killed
\* leaves a row running that nothing takes up again, and one at most; this holds
\* of raced pools too (invoicing/models/campaign.py:638-662).
THEOREM StuckOnlyByKill == Spec => []StuckIsKilled
<1>1. Init => Base /\ RunningExists /\ StuckIsKilled
  <2> SUFFICES ASSUME Init PROVE RunningExists /\ StuckIsKilled
    BY InitOK DEF CampaignInv, Base
  <2>1. RunningExists
    BY DEF Init, RunningExists, NoJob
  <2>2. DeadJobs = {} /\ ForsakenPools = {} /\ kills = 0
    BY DEF Init, DeadJobs, ForsakenPools, Dead, Forsaken, NoJob
  <2> QED
    BY <2>1, <2>2, FS_EmptySet DEF StuckIsKilled, DeadJobs, ForsakenPools
<1>2. Base /\ RunningExists /\ StuckIsKilled /\ [Next]_vars
        => Base' /\ RunningExists' /\ StuckIsKilled'
  BY LinksStep, RunningNext, StuckNext
<1> QED
  BY <1>1, <1>2, PTL DEF Spec
-----------------------------------------------------------------------------
(* One process of run_campaign_jobs and one of run_pool_jobs at a time.    *)
Alone ==
    /\ \A d, e \in CampaignCrons : d = e
    /\ \A v, w \in PoolCrons : v = w

\* What a process has chosen is still to be done when it starts on it.
StillDue(w) ==
    worker[w].pc = "start" =>
        job[worker[w].job].status \in {"registered", "waiting"} \/ PoolOf(w) \in raced

StillRegistered(d) == director[d].pc = "start" => campaign[director[d].pool] = "registered"

ChosenStays ==
    /\ \A w \in PoolCrons : StillDue(w)
    /\ \A d \in CampaignCrons : StillRegistered(d)

\* Steps that leave the processes and their rows alone.
LEMMA SameChosen ==
  ASSUME ChosenStays, UNCHANGED << campaign, job, director, worker, raced >>
  PROVE  ChosenStays'
BY DEF ChosenStays, StillDue, StillRegistered, PoolOf

LEMMA ManagerChosen ==
  ASSUME Base, ChosenStays, NEW m \in Managers, ManagerNext(m)
  PROVE  ChosenStays'
<1>1. Typed /\ Links
  BY TypedIsType DEF Base
<1>2. CASE CheckAdd(m) \/ CreatePool(m) \/ \E p \in Pools : CheckStop(m, p) \/ CheckDelete(m, p)
  BY <1>2, SameChosen DEF CheckAdd, CreatePool, CheckStop, CheckDelete, rows, history
<1>5. CASE StopPool(m)
  <2>1. UNCHANGED << campaign, job, director, worker >> /\ raced \subseteq raced'
    BY <1>5 DEF StopPool
  <2> QED
    BY <2>1 DEF ChosenStays, StillDue, StillRegistered, PoolOf
<1>3. CASE InitPool(m)
  <2>1. /\ UNCHANGED << job, director, worker, raced >>
        /\ \/ campaign' = campaign
           \/ campaign' = [campaign EXCEPT ![manager[m].pool] = "registered"]
    BY <1>3 DEF InitPool, history
  <2>2. ASSUME NEW d \in CampaignCrons PROVE StillRegistered(d)'
    <3>1. director[d].pc = "start" => director[d].pool \in Pools
      BY <1>1, DirectorPool
    <3> QED
      BY <1>1, <2>1, <3>1 DEF ChosenStays, StillRegistered, Typed
  <2> QED
    BY <2>1, <2>2 DEF ChosenStays, StillDue, PoolOf
<1>4. CASE DeletePool(m)
  <2>1. UNCHANGED << campaign, director, worker >> /\ raced \subseteq raced'
    BY <1>4 DEF DeletePool
  <2>2. ASSUME NEW w \in PoolCrons, worker[w].pc = "start"
        PROVE  job'[worker[w].job].status \in {"registered", "waiting"}
               \/ job'[worker[w].job].pool \in raced'
    <3>1. worker[w].job \in Jobs /\ worker[w].job # None /\ PoolOf(w) \in Pools
      BY <1>1, <2>2, WorkerPool, Names
    <3>2. CASE PoolOf(w) = manager[m].pool
      <4>1. AtWork(manager[m].pool)
        BY <3>1, <3>2 DEF AtWork, PoolOf
      <4>2. manager[m].pool \in raced'
        BY <1>4, <4>1 DEF DeletePool
      <4> QED
        BY <1>1, <1>4, <3>1, <3>2, <4>2, DeleteFacts DEF PoolOf
    <3>3. CASE PoolOf(w) # manager[m].pool
      <4>1. job'[worker[w].job] = job[worker[w].job]
        BY <1>1, <1>4, <3>1, <3>3, DeleteFacts DEF PoolOf
      <4> QED
        BY <2>1, <2>2, <4>1 DEF ChosenStays, StillDue, PoolOf
    <3> QED
      BY <3>2, <3>3
  <2> QED
    BY <2>1, <2>2 DEF ChosenStays, StillDue, StillRegistered, PoolOf
<1> QED
  BY <1>2, <1>3, <1>4, <1>5 DEF ManagerNext

LEMMA DirectorChosen ==
  ASSUME Base, Alone, ChosenStays, NEW d \in CampaignCrons, CampaignCron(d) \/ DirectorStep(d)
  PROVE  ChosenStays' /\ raced' = raced
<1>1. Typed /\ Links
  BY TypedIsType DEF Base
<1>2. raced' = raced
  BY DEF CampaignCron, DirectorStep, StartCampaign, CheckDraft, RunPool, GetUsers, Split,
         EndCampaign, history, ChosenStays, StillRegistered
<1>3. worker' = worker
  BY DEF CampaignCron, DirectorStep, StartCampaign, CheckDraft, RunPool, GetUsers, Split,
         EndCampaign
<1>4. \A j \in Jobs : job'[j] = job[j] \/ job[j].status = "none"
  BY <1>1, DirectorMoves, CronFacts
<1>5. ASSUME NEW w \in PoolCrons, worker[w].pc = "start"
      PROVE  StillDue(w)'
  <2>1. worker[w].job \in Jobs /\ job[worker[w].job].status # "none"
    BY <1>1, <1>5, WorkerPool DEF Links, PoolOf
  <2>2. job'[worker[w].job] = job[worker[w].job]
    BY <1>4, <2>1
  <2> QED
    BY <1>2, <1>3, <1>5, <2>2 DEF ChosenStays, StillDue, PoolOf
<1>6. StillRegistered(d)'
  <2>1. CASE CampaignCron(d)
    <3>1. PICK p \in Pools : /\ campaign'[p] = "registered"
                             /\ director'[d] = [pc |-> "start", pool |-> p, todo |-> {},
                                                result |-> "completed"]
      BY <1>1, <2>1, CronFacts
    <3>2. director'[d].pool = p
      BY <3>1
    <3> QED
      BY <3>1, <3>2 DEF StillRegistered
  <2>2. CASE DirectorStep(d)
    <3>1. director'[d].pc # "start"
      BY <1>1, <2>2, DirectorMoves DEF IdleDirector
    <3> QED
      BY <3>1 DEF StillRegistered
  <2> QED
    BY <2>1, <2>2
<1>7. \A e \in CampaignCrons : e = d
  BY DEF Alone
<1> QED
  BY <1>2, <1>3, <1>5, <1>6, <1>7 DEF ChosenStays, StillDue

LEMMA WorkerChosen ==
  ASSUME Base, Alone, ChosenStays, NEW w \in PoolCrons, PoolCron(w) \/ WorkerStep(w)
  PROVE  ChosenStays' /\ raced' = raced
<1>1. Typed /\ Links
  BY TypedIsType DEF Base
<1>2. raced' = raced
  BY DEF PoolCron, WorkerStep, StartJob, LoadPool, Fail, EndJob, BuildLines, SavePool,
         CheckJobs, ReadLines, StopInvoices, MakeInvoice, history, ChosenStays, StillDue
<1>3. UNCHANGED << campaign, director >>
  BY <1>1, PoolCronFacts, WorkerRows
<1>4. StillDue(w)'
  <2>1. CASE PoolCron(w)
    <3>1. PICK j \in Jobs : /\ job'[j].status \in {"registered", "waiting"}
                            /\ worker'[w] = [pc |-> "start", job |-> j, seen |-> Seen(j),
                                             todo |-> {}, result |-> "completed"]
      BY <1>1, <2>1, PoolCronFacts
    <3>2. worker'[w].job = j
      BY <3>1
    <3> QED
      BY <3>1, <3>2 DEF StillDue
  <2>2. CASE WorkerStep(w)
    <3>1. worker'[w].pc # "start"
      <4>1. CASE StartJob(w)
        <5>1. \/ Become(w, [worker[w] EXCEPT !.pc = "load"])
              \/ Become(w, IdleWorker)
          BY <4>1 DEF StartJob
        <5> QED
          BY <1>1, <5>1 DEF Become, IdleWorker, Typed, Labour
      <4>2. CASE EndJob(w)
        BY <1>1, <4>2 DEF EndJob, Become, IdleWorker, Typed
      <4>3. CASE Moving(w)
        BY <4>3 DEF Moving
      <4> QED
        BY <1>1, <2>2, <4>1, <4>2, <4>3, WorkerKinds
    <3> QED
      BY <3>1 DEF StillDue
  <2> QED
    BY <2>1, <2>2
<1>5. \A v \in PoolCrons : v = w
  BY DEF Alone
<1>6. \A v \in PoolCrons : StillDue(v)'
  BY <1>4, <1>5
<1>7. \A d \in CampaignCrons : StillRegistered(d)'
  BY <1>3 DEF ChosenStays, StillRegistered
<1> QED
  BY <1>2, <1>6, <1>7 DEF ChosenStays

LEMMA KillChosen ==
  ASSUME Base, ChosenStays, Kill
  PROVE  ChosenStays' /\ raced' = raced
<1>1. Typed
  BY TypedIsType DEF Base
<1>2. UNCHANGED << campaign, job, raced >>
  BY DEF Kill, rows, history
<1>3. \A w \in PoolCrons : worker'[w] = worker[w] \/ worker'[w].pc = "idle"
  BY <1>1 DEF Kill, Become, IdleWorker, Typed
<1>4. \A d \in CampaignCrons : director'[d] = director[d] \/ director'[d].pc = "idle"
  BY <1>1 DEF Kill, Direct, IdleDirector, Typed
<1> QED
  BY <1>2, <1>3, <1>4 DEF ChosenStays, StillDue, StillRegistered, PoolOf

\* If cron never runs a command beside itself, a pool is raced only by a manager who
\* deletes or stops it under a process: the condition of WholeWhenCompleted,
\* CompletedStays and StoppedStays is then about what managers do alone
\* (management/commands/run_pool_jobs.py:27-38, run_campaign_jobs.py:27-33).
THEOREM RacedOnlyByManagers ==
  ASSUME Alone
  PROVE  Spec => RacedByManagers
<1>1. Init => ChosenStays
  BY DEF Init, ChosenStays, StillDue, StillRegistered, IdleWorker, IdleDirector
<1>2. Base /\ ChosenStays /\ [Next]_vars
        => ChosenStays' /\ (raced' # raced => \E m \in Managers : StopPool(m) \/ DeletePool(m))
  <2> SUFFICES ASSUME Base, ChosenStays, [Next]_vars
               PROVE  ChosenStays' /\ (raced' # raced => \E m \in Managers : StopPool(m) \/ DeletePool(m))
    OBVIOUS
  <2>1. ASSUME NEW m \in Managers, ManagerNext(m)
        PROVE  raced' = raced \/ StopPool(m) \/ DeletePool(m)
    BY <2>1 DEF ManagerNext, CheckAdd, CreatePool, InitPool, CheckStop, CheckDelete, history
  <2>2. CASE UNCHANGED vars
    BY <2>2, SameChosen DEF vars
  <2> QED
    BY <2>1, <2>2, ManagerChosen, DirectorChosen, WorkerChosen, KillChosen DEF Next
<1>3. CampaignInv => Base
  BY DEF CampaignInv, Base
<1>4. Spec => [](Base /\ ChosenStays)
  BY <1>1, <1>2, <1>3, CampaignInvariant, PTL DEF Spec
<1> QED
  BY <1>2, <1>4, PTL DEF Spec, RacedByManagers
=============================================================================
