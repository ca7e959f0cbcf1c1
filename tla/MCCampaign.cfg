\* One draft pool, two chunks and the last job; one process of run_campaign_jobs and
\* two of run_pool_jobs; either a process is killed or the pool is stopped.
CONSTANTS
    m1 = m1  d1 = d1  w1 = w1  w2 = w2
    MaxPools = 1
    MaxJobs = 3
    MaxChunks = 2
    MaxCampaigns = 1
    MaxRunning = 2
    MaxMishaps = 1
    Managers = {m1}
    CampaignCrons = {d1}
    PoolCrons = {w1, w2}
    None = None
SPECIFICATION Spec
INVARIANTS
    CampaignTypeOK
    CompletedIsWhole
    StuckIsKilled
    StopHolds
PROPERTIES
    CompletedIsFinal
    JobEnds
CHECK_DEADLOCK FALSE
