\* A parent, its child and a heavier competitor, submitted once, no faults.
SPECIFICATION Spec
CONSTANTS
    t1 = t1
    t2 = t2
    t3 = t3
    q1 = q1
    None = None
    Task = {t1, t2, t3}
    Queue = {q1}
    Host = {h1}
    Worker = {w1}
    Proc = {p1, p2, p3}
    DependsOn <- NoDepends
    SourceId <- FamilySource
    QueueName <- OneQueue
    Weight <- FamilyWeight
    FetchLimit = 3
    Serves <- ServesOne
    MaxProcess <- OneSlot
    SystemQueue = {q1}
    SendAttempts = 2
    Stoppable = {}
    MaxClock = 1
    MaxAsks <- AskOnce
    MaxFaults = 0
INVARIANTS
    BestFirst
    NoSlotLeak
PROPERTIES
    ReportedIsFinal
