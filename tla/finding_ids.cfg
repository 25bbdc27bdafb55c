SPECIFICATION MCSpec
CONSTANTS
    Caller = {}
    Nobody = Nobody
    MaxRetries = 2
    Threshold = 2
    MaxCalls <- CallBound
    MaxFaults = 1
    g1 = g1
    g2 = g2
    a1 = a1
    a2 = a2
    a3 = a3
    Generator = {g1}
    Asker = {a1}
    Home <- HomeOf
    Address <- FarAway
    Datacenters = 2
    Machines = 2
    Sequences = 2
    SmallRollback = 1
    MaxTime = 2
    MaxSetBacks = 0
    MaxIds <- IdBound
INVARIANT UniqueIds
CHECK_DEADLOCK FALSE
