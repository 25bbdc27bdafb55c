\* A job for one host at a time, two hosts, nothing fails.
SPECIFICATION Spec
CONSTANTS
    j1 = j1
    j2 = j2
    h1 = h1
    h2 = h2
    None = None
    Host = {h1, h2}
    Job = {j1}
    Mode <- TwoJobs
    AllowedIps <- SecondOnFirst
    Stored = {}
    MaxTime = 1
    MaxAdds <- OneEach
    MaxFaults <- NoFaults
INVARIANT OncePerDueTime
