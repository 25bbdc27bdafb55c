\* A job for one host at a time, added once, and a job without a lock that an
\* earlier run left in MongoDB; the first host meets one fault or stop.
SPECIFICATION FairSpec
CONSTANTS
    j1 = j1
    j2 = j2
    h1 = h1
    h2 = h2
    None = None
    Host = {h1, h2}
    Job = {j1, j2}
    Mode <- TwoJobs
    AllowedIps <- Everywhere
    Stored = {j2}
    MaxTime = 1
    MaxAdds <- FirstOnly
    MaxFaults <- FirstFails
INVARIANTS
    TypeOK
    LockIsExclusive
    LockHasKeeper
    OncePerHost
PROPERTY DueJobIsExecuted
