\* Two tasks compete for one slot and a third depends on one of them;
\* nothing fails.
SPECIFICATION FairSpec
CONSTANTS
    t1 = t1
    t2 = t2
    t3 = t3
    q1 = q1
    None = None
    Task = {t1, t2, t3}
    Queue = {q1}
    Host = {h1}
    Worker = {w1}
    Proc = {p1, p2}
    DependsOn <- ChainDepends
    SourceId <- NoSource
    QueueName <- OneQueue
    Weight <- EvenWeight
    FetchLimit = 2
    Serves <- ServesOne
    MaxProcess <- OneSlot
    SystemQueue = {q1}
    SendAttempts = 2
    Stoppable = {}
    MaxClock = 2
    MaxAsks <- AskOnce
    MaxFaults = 0
PROPERTY SubmittedFinishes
