----------------------- MODULE JobSchedulerProperties -----------------------
(***************************************************************************)
(* What the locks of JobScheduler promise, for all hosts, their refresh    *)
(* threads and everything that deletes a lock.                             *)
(***************************************************************************)
EXTENDS JobScheduler

\* The type of every variable.
TypeOK ==
    /\ clock \in Nat
    /\ next \in [Job -> Nat \cup {None}] /\ adding \in [Job -> Nat \cup {None}]
    /\ adds \in [Job -> Nat] /\ setback \in [Job -> [0..MaxTime -> Nat]]
    /\ lock \in [Key -> [owner : Host \cup {None}, fresh : BOOLEAN]]
    /\ active \in [Host -> BOOLEAN]
    /\ due \in [Host -> SUBSET Job] /\ seen \in [Host -> [Job -> Nat \cup {None}]]
    /\ pc \in [Host -> {"list", "refresh", "execute", "update", "write", "stop",
                        "failed", "cleanup"}]
    /\ current \in [Host -> Job \cup {None}] /\ planned \in [Host -> Nat \cup {None}]
    /\ refreshing \in [Host -> SUBSET Key] /\ leaving \in [Host -> [Key -> Nat]]
    /\ ran \in [Host -> [Job -> [0..MaxTime -> Nat]]]
    /\ errs \in [Host -> Nat] /\ abused \subseteq Key

\* _scheduler.py:532 "Uses MongoDB atomic upsert to guarantee only one process
\* acquires the lock": two hosts are inside the section one lock protects only
\* after a failure, a removal, or a failed or stalled refresh touched it; a
\* crash or a restart is not enough.
LockIsExclusive ==
    \A k \in Key, g, h \in Host :
        g # h /\ Inside(g, k) /\ Inside(h, k) => k \in abused

\* A lock that blocks everybody else is looked after by its owner, or its owner
\* met a fault: no path through the code leaves a fresh lock behind.
LockHasKeeper ==
    \A k \in Key : lock[k].fresh =>
        Keeps(lock[k].owner, k) \/ errs[lock[k].owner] > 0 \/ k \in abused

\* A host executes a due time once, once more per fault of its own, and once
\* more for each setback (named exemption): the next execution time is moved
\* before the host looks for due jobs again, but another host or an
\* add_scheduled_job may then write over it a time that it computed before
\* (_scheduler.py:695 and 697, 810 and 831) and that was executed meanwhile.
OncePerHost ==
    \A h \in Host, j \in Job, d \in 0..MaxTime :
        ran[h][j][d] <= 1 + errs[h] + setback[j][d]

\* _scheduler.py:269 "Distributed locking to prevent duplicate execution": one
\* due time of a distributed_unique job is executed by one host.
OncePerDueTime ==
    \A j \in Job, d \in 0..MaxTime, g, h \in Host :
        Mode[j] = "distributed_unique" /\ ran[g][j][d] > 0 /\ ran[h][j][d] > 0
        => g = h

\* _scheduler.py:456 locks are cleaned up "to ensure no jobs are permanently
\* blocked": a job that is due is executed or removed, whatever crashed before.
DueJobIsExecuted ==
    \A j \in Job : IsDue(j) ~> ~IsDue(j)
=============================================================================
