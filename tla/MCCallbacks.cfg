\* Two notifications of one line, a request thread for each, cron, one worker
\* killed; one retry.
CONSTANTS
    o1 = o1  o2 = o2
    Objects = {o1}
    WithUrl = {o1}
    MaxCallbacks = 2
    r1 = r1  r2 = r2
    Requests = {r1, r2}
    Cron = Cron
    MaxRetries = 1
    MaxAborts = 1
    None = None
SPECIFICATION Spec
INVARIANTS
    CallbackTypeOK
    SentByOne
    AttemptsBounded
    GivenUpLate
    AbandonedIsKilled
PROPERTIES
    ImplementsQueue
    CallbackEnds
CHECK_DEADLOCK FALSE
