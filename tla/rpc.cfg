SPECIFICATION MCSpec
CONSTANTS
    Caller = {caller}
    Nobody = Nobody
    MaxRetries = 2
    Threshold = 2
    MaxCalls <- CallBound
    MaxFaults = 1
    g1 = g1
    g2 = g2
    a1 = a1
    a2 = a2
    a3 = a3
    Generator = {g1, g2}
    Asker = {a1, a2, a3}
    Home <- HomeOf
    Address <- Neighbours
    Datacenters = 2
    Machines = 2
    Sequences = 2
    SmallRollback = 1
    MaxTime = 2
    MaxSetBacks = 2
    MaxIds <- IdBound
INVARIANTS
    RemoteTypeOK AnswerIsForCall ExecutionBound RequestIsCarried OpenForReason BrokenForReason
    UniqueUnlessExcused
PROPERTIES IdsIncrease CallEnds RequestsAreExecuted
CHECK_DEADLOCK FALSE
