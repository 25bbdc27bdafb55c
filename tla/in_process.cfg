SPECIFICATION MCSpec
CONSTANTS
    c1 = c1
    c2 = c2
    Thread = {w1, w2}
    Client = {c1, c2}
    None = None
    QueueSize = 1
    Sizes = {1, 2}
    MaxRetries <- OneRetry
    MaxTasks = 2
    MaxCalls <- ThreadCalls
    Process = {p1, p2}
    User = {c1, c2}
    Owner = c1
    Nothing = Nothing
    Crews = {2}
    MaxAttempts <- OneMore
    MaxSubmissions = 2
    MaxUses <- ProcessCalls
    config = config
    db = db
    client = client
    Worker = {c1, c2}
    Fixture = {config, db, client}
    Bare = {config}
    Scope <- ScopeOf
    Dependency <- DependencyOf
    Params <- ParameterLists
    Nil = Nil
    MaxInstances = 4
    MaxResets = 1
INVARIANTS
    InProcessTypeOK OnePlace CompletedWithinTotal EndIsRecorded
    ScopesHold FinalizedOnce ClosedAtShutdown CacheIsUsable
PROPERTIES
    WaitSeesAll ImplementsRetryPool AcceptedTaskEnds WaiterIsReleased
    PollSeesAll ImplementsRetries SubmittedIsCounted
CHECK_DEADLOCK FALSE
