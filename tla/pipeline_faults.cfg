\* One task asked for twice, stopped, and one fault anywhere.
SPECIFICATION Spec
CONSTANTS
    t1 = t1
    t2 = t2
    t3 = t3
    q1 = q1
    None = None
    Task = {t1}
    Queue = {q1}
    Host = {h1}
    Worker = {w1}
    Proc = {p1, p2, p3}
    DependsOn <- NoDepends
    SourceId <- NoSource
    QueueName <- OneQueue
    Weight <- EvenWeight
    FetchLimit = 1
    Serves <- ServesOne
    MaxProcess <- OneSlot
    SystemQueue = {}
    SendAttempts = 2
    Stoppable = {t1}
    MaxClock = 1
    MaxAsks <- RetryFirst
    MaxFaults = 1
INVARIANTS
    TypeOK
    DispatchBound
    NoDuplicateExecution
    WaitingIsCarried
PROPERTIES
    StopIsFinal
    ImplementsTaskLife
