---------------------------- MODULE JobScheduler ----------------------------
(***************************************************************************)
(* DistributedScheduler of providers/_scheduler.py: on every host a loop   *)
(* looks for due jobs in MongoDB, takes a job's lock, starts the job in a  *)
(* thread of its own, moves the job's next execution time and gives the    *)
(* lock up; a refresh thread per lock keeps it from expiring.              *)
(* Time is the due times only: a lock is fresh or expired.                 *)
(***************************************************************************)
EXTENDS Naturals, FiniteSets

CONSTANTS
    Host,        \* scheduler processes, one per address
    Job,         \* job ids
    None,        \* no host; no document
    Mode,        \* execution_mode of each job
    AllowedIps,  \* allowed_ips of each job; {} for every host
    Stored,      \* jobs an earlier run left in MongoDB, due
    MaxTime,     \* bound: the last due time
    MaxAdds,     \* bound: calls of add_scheduled_job for each job
    MaxFaults    \* bound: faults, stops and removals by each host

ExecutionMode == {"distributed_unique", "ip_unique", "unrestricted"}

ASSUME JobAssumption ==
    /\ None \notin Host /\ None \notin Nat
    /\ Mode \in [Job -> ExecutionMode]
    /\ AllowedIps \in [Job -> SUBSET Host]
    /\ Stored \subseteq Job /\ MaxTime \in Nat
    /\ MaxAdds \in [Job -> Nat] /\ MaxFaults \in [Host -> Nat]

\* The job_id of a lock document: the job's, with the address if ip_unique.
LockKey(h, j) == <<j, IF Mode[j] = "ip_unique" THEN h ELSE None>>
Key == {LockKey(h, j) : h \in Host, j \in Job}

VARIABLES
    clock,      \* the latest due time that has come
    next,       \* MongoDB: next_execution_time of each job, or None
    adding,     \* per job: what an add_scheduled_job under way will write
                \* (bound: one call at a time)
    adds,       \* per job: calls of add_scheduled_job so far
    lock,       \* MongoDB: owner of each lock and whether it has not expired
    active,     \* per host: _scheduler_active
    due,        \* per host: jobs of due_jobs not yet tried
    seen,       \* per host: their next_execution_time as it was read
    pc,         \* per host: where the loop is in a job
    current,    \* per host: the job it is in
    planned,    \* per host: what its _update_job_schedule will write
    refreshing, \* per host: locks whose refresh thread goes on
    leaving,    \* per host and lock: refresh threads that left their loop
    ran,        \* history: executions of each due time of each job by a host
    setback,    \* history: writes that put a job back to a due time executed before
    errs,       \* history: faults, stops and removals by each host
    abused      \* history: locks touched by a failure, a removal or a stall

jobs   == <<next, adding, adds, setback>>
docs   == <<jobs, lock>>
loop   == <<due, seen, pc, current, planned>>
thread == <<refreshing, leaving>>
log    == <<ran, errs, abused>>
vars == <<clock, docs, active, loop, thread, log>>

Free == [owner |-> None, fresh |-> FALSE]
Held(h) == [owner |-> h, fresh |-> TRUE]

Init ==
    /\ clock = 0
    /\ next = [j \in Job |-> IF j \in Stored THEN 0 ELSE None]
    /\ lock = [k \in Key |-> Free]
    /\ adding = [j \in Job |-> None] /\ adds = [j \in Job |-> 0]
    /\ setback = [j \in Job |-> [d \in 0..MaxTime |-> 0]]
    /\ active = [h \in Host |-> FALSE]
    /\ due = [h \in Host |-> {}] /\ seen = [h \in Host |-> [j \in Job |-> None]]
    /\ pc = [h \in Host |-> "list"] /\ current = [h \in Host |-> None]
    /\ planned = current
    /\ refreshing = [h \in Host |-> {}]
    /\ leaving = [h \in Host |-> [k \in Key |-> 0]]
    /\ ran = [h \in Host |-> [j \in Job |-> [d \in 0..MaxTime |-> 0]]]
    /\ errs = [h \in Host |-> 0] /\ abused = {}

Fault(h) == errs[h] < MaxFaults[h] /\ errs' = [errs EXCEPT ![h] = @ + 1]
Goto(h, label) == pc' = [pc EXCEPT ![h] = label]
Abuse(K) == abused' = abused \cup K

-----------------------------------------------------------------------------
(* Users.                                                                   *)

\* get_next_execution_time: a due time after now.
NextExecutionTimeOrNow(now) == now \* seeded fault: now itself is a due time
NextExecutionTime(now) == now + 1

Executed(h, j, t) == t <= MaxTime /\ ran[h][j][t] > 0

\* $set of a next_execution_time that was computed earlier: by the time of
\* the write it may have come, and others may have executed it and moved on.
SetNext(j, t) ==
    /\ next' = [next EXCEPT ![j] = t]
    /\ setback' = IF next[j] # t /\ \E h \in Host : Executed(h, j, t)
                  THEN [setback EXCEPT ![j][t] = @ + 1] ELSE setback

PlanScheduledJob(j) ==
    /\ \A i \in Job : adding[i] = None
    /\ adds[j] < MaxAdds[j] /\ adds' = [adds EXCEPT ![j] = @ + 1]
    /\ adding' = [adding EXCEPT ![j] = NextExecutionTime(clock)]
    /\ UNCHANGED <<clock, next, setback, lock, active, loop, thread, log>>

\* The document is updated or inserted; or find_one saw another state of it
\* than the write meets, or a step raises, and nothing is written.
AddScheduledJob(j) ==
    /\ adding[j] # None
    /\ adding' = [adding EXCEPT ![j] = None]
    /\ SetNext(j, adding[j]) \/ UNCHANGED <<next, setback>>
    /\ UNCHANGED <<clock, adds, lock, active, loop, thread, log>>

\* The job's locks that host h knows of are deleted with it.
RemoveScheduledJob(h, j) ==
    LET K == {<<j, None>>, <<j, h>>} \cap Key IN
    /\ next[j] # None /\ Fault(h)
    /\ next' = [next EXCEPT ![j] = None]
    /\ lock' = [k \in Key |-> IF k \in K THEN Free ELSE lock[k]]
    /\ Abuse(K)
    /\ UNCHANGED <<clock, adding, adds, setback, active, loop, thread, ran>>

\* start_scheduler: with _cleanup_stale_locks.
StartScheduler(h) ==
    /\ ~active[h] /\ pc[h] = "list" /\ due[h] = {}
    /\ active' = [active EXCEPT ![h] = TRUE]
    /\ lock' = [k \in Key |-> IF lock[k].fresh THEN lock[k] ELSE Free]
    /\ UNCHANGED <<clock, jobs, loop, thread, log>>

StopScheduler(h) ==
    /\ active[h] /\ Fault(h)
    /\ active' = [active EXCEPT ![h] = FALSE]
    /\ UNCHANGED <<clock, docs, loop, thread, ran, abused>>

\* The loop's thread is still in a job when join times out.
JoinTimesOut(h) ==
    /\ ~active[h] /\ refreshing[h] # {}
    /\ leaving' = [leaving EXCEPT ![h] =
         [k \in Key |-> IF k \in refreshing[h] THEN @[k] + 1 ELSE @[k]]]
    /\ refreshing' = [refreshing EXCEPT ![h] = {}]
    /\ Abuse(refreshing[h])
    /\ UNCHANGED <<clock, docs, active, loop, ran, errs>>

-----------------------------------------------------------------------------
(* The loop of host h.  pc is "list" between jobs.                          *)

IsDue(j) == next[j] # None /\ next[j] <= clock

\* The list is read once; the loop works through it.
FindDueJobs(h) ==
    /\ active[h] /\ pc[h] = "list" /\ due[h] = {}
    /\ \E j \in Job : IsDue(j)
    /\ due' = [due EXCEPT ![h] = {j \in Job : IsDue(j)}]
    /\ seen' = [seen EXCEPT ![h] = [j \in Job |-> IF IsDue(j) THEN next[j] ELSE None]]
    /\ UNCHANGED <<clock, docs, active, pc, current, planned, thread, log>>

NothingDue(h) ==
    /\ active[h] /\ pc[h] = "list" /\ due[h] = {}
    /\ \A j \in Job : ~IsDue(j)
    /\ UNCHANGED vars

\* The loop ends when the scheduler is stopped.
LeaveLoop(h) ==
    /\ ~active[h] /\ pc[h] = "list" /\ due[h] # {}
    /\ due' = [due EXCEPT ![h] = {}]
    /\ UNCHANGED <<clock, docs, active, seen, pc, current, planned, thread, log>>

\* The jobs of the list are tried earliest first.
Try(h, j) ==
    /\ active[h] /\ pc[h] = "list"
    /\ j \in due[h] /\ \A i \in due[h] : seen[h][j] <= seen[h][i]
    /\ due' = [due EXCEPT ![h] = @ \ {j}]
    /\ UNCHANGED <<clock, jobs, active, seen, planned, thread, ran>>

Allowed(h, j) == AllowedIps[j] = {} \/ h \in AllowedIps[j]
Locks(j) == Mode[j] # "unrestricted"
TakenUntilDeleted(h, j) == \* seeded fault: an expired lock counts
    lock[LockKey(h, j)].owner # None
Taken(h, j) == lock[LockKey(h, j)].fresh

\* The query on expire_at finds no document to update, and the insert meets
\* the unique index; or the job is not for this host.
SkipJob(h, j) ==
    /\ Try(h, j)
    /\ ~Allowed(h, j) \/ (Locks(j) /\ Taken(h, j))
    /\ UNCHANGED <<lock, pc, current, errs, abused>>

EnterUnrestricted(h, j) ==
    /\ Try(h, j) /\ Allowed(h, j) /\ ~Locks(j)
    /\ current' = [current EXCEPT ![h] = j] /\ Goto(h, "execute")
    /\ UNCHANGED <<lock, errs, abused>>

\* _acquire_job_lock: one upsert over no lock or an expired one.
AcquireAnyLock(h, j) == \* seeded fault: expire_at is not compared
    /\ Try(h, j) /\ Allowed(h, j) /\ Locks(j)
    /\ lock' = [lock EXCEPT ![LockKey(h, j)] = Held(h)]
    /\ current' = [current EXCEPT ![h] = j] /\ Goto(h, "refresh")
    /\ UNCHANGED <<errs, abused>>
AcquireJobLock(h, j) ==
    /\ Try(h, j) /\ Allowed(h, j) /\ Locks(j) /\ ~Taken(h, j)
    /\ lock' = [lock EXCEPT ![LockKey(h, j)] = Held(h)]
    /\ current' = [current EXCEPT ![h] = j] /\ Goto(h, "refresh")
    /\ UNCHANGED <<errs, abused>>

\* The upsert raises, applied or not: the job is skipped.
AcquireFails(h, j) ==
    /\ Try(h, j) /\ Allowed(h, j) /\ Locks(j) /\ ~Taken(h, j) /\ Fault(h)
    /\ lock' \in {lock, [lock EXCEPT ![LockKey(h, j)] = Held(h)]}
    /\ UNCHANGED <<pc, current, abused>>

StartLockRefresh(h) ==
    /\ pc[h] = "refresh" /\ Goto(h, "execute")
    /\ refreshing' = [refreshing EXCEPT ![h] = @ \cup {LockKey(h, current[h])}]
    /\ UNCHANGED <<clock, docs, active, due, seen, current, planned, leaving, log>>

\* The job's thread or process is started and not joined; what was read of
\* the job is not looked at again.
ExecuteJobFunction(h) ==
    LET j == current[h] IN
    /\ pc[h] = "execute" /\ Goto(h, "update")
    /\ ran' = [ran EXCEPT ![h][j][seen[h][j]] = @ + 1]
    /\ seen' = [seen EXCEPT ![h][j] = None]
    /\ UNCHANGED <<clock, docs, active, due, current, planned, thread, errs, abused>>

\* _update_job_schedule computes the time, and then writes it over whatever
\* has become of the job's document.
PlanJobSchedule(h) ==
    /\ pc[h] = "update" /\ Goto(h, "write")
    /\ planned' = [planned EXCEPT ![h] = NextExecutionTime(clock)]
    /\ UNCHANGED <<clock, docs, active, due, seen, current, thread, log>>

UpdateJobSchedule(h) ==
    LET j == current[h] IN
    /\ pc[h] = "write" /\ Goto(h, IF Locks(j) THEN "stop" ELSE "list")
    /\ current' = [current EXCEPT ![h] = IF Locks(j) THEN j ELSE None]
    /\ IF next[j] = None THEN UNCHANGED <<next, setback>> ELSE SetNext(j, planned[h])
    /\ planned' = [planned EXCEPT ![h] = None]
    /\ UNCHANGED <<clock, adding, adds, lock, active, due, seen, thread, log>>

\* The job's function cannot be loaded, or the update fails.
JobFails(h) ==
    /\ pc[h] \in {"execute", "update", "write"} /\ Fault(h)
    /\ Goto(h, IF Locks(current[h]) THEN "failed" ELSE "cleanup")
    /\ planned' = [planned EXCEPT ![h] = None]
    /\ Abuse({LockKey(h, current[h])})
    /\ UNCHANGED <<clock, docs, active, due, seen, current, thread, ran>>

\* The thread with this lock leaves its loop.
Leave(h, k) ==
    /\ refreshing' = [refreshing EXCEPT ![h] = @ \ {k}]
    /\ leaving' = IF k \in refreshing[h] THEN [leaving EXCEPT ![h][k] = @ + 1]
                                          ELSE leaving

\* _stop_lock_refresh_thread, in the finally clause.
StopLockRefresh(h) ==
    /\ pc[h] \in {"stop", "failed"}
    /\ Goto(h, IF pc[h] = "stop" THEN "list" ELSE "cleanup")
    /\ current' = [current EXCEPT ![h] = IF pc[h] = "stop" THEN None ELSE @]
    /\ Leave(h, LockKey(h, current[h]))
    /\ UNCHANGED <<clock, docs, active, due, seen, planned, log>>

\* _cleanup_job_lock: whoever owns the lock; an error is swallowed.
DeleteLock(h, k) ==
    \/ lock' = [lock EXCEPT ![k] = Free] /\ UNCHANGED errs
    \/ Fault(h) /\ UNCHANGED lock

\* _cleanup_after_job_failure.
CleanupAfterFailure(h) ==
    /\ pc[h] = "cleanup" /\ Goto(h, "list")
    /\ current' = [current EXCEPT ![h] = None]
    /\ IF Locks(current[h]) THEN DeleteLock(h, LockKey(h, current[h]))
                            ELSE UNCHANGED <<lock, errs>>
    /\ UNCHANGED <<clock, jobs, active, due, seen, planned, thread, ran, abused>>

-----------------------------------------------------------------------------
(* Refresh threads: _lock_refresh_worker.                                   *)

\* update_one by key: an expired lock is fresh again.
RefreshLock(h, k) ==
    /\ k \in refreshing[h] /\ lock[k].owner # None /\ ~lock[k].fresh
    /\ lock' = [lock EXCEPT ![k].fresh = TRUE]
    /\ UNCHANGED <<clock, jobs, active, loop, thread, log>>

\* The lock is not found, or the update fails.
RefreshEnds(h, k) ==
    /\ k \in refreshing[h]
    /\ \/ lock[k].owner = None /\ UNCHANGED <<errs, abused>>
       \/ lock[k].owner # None /\ Fault(h) /\ Abuse({k})
    /\ Leave(h, k)
    /\ UNCHANGED <<clock, docs, active, loop, ran>>

RefreshExitsUnstarted(h, k) == \* seeded fault: for a thread that is not there
    /\ leaving' = [leaving EXCEPT ![h][k] = @ - 1]
    /\ DeleteLock(h, k)
    /\ UNCHANGED <<clock, jobs, active, loop, refreshing, ran, abused>>
RefreshExitsSilently(h, k) == \* seeded fault: no _cleanup_job_lock
    /\ leaving[h][k] > 0
    /\ leaving' = [leaving EXCEPT ![h][k] = @ - 1]
    /\ UNCHANGED <<clock, docs, active, loop, refreshing, log>>
RefreshExits(h, k) ==
    /\ leaving[h][k] > 0
    /\ leaving' = [leaving EXCEPT ![h][k] = @ - 1]
    /\ DeleteLock(h, k)
    /\ UNCHANGED <<clock, jobs, active, loop, refreshing, ran, abused>>

-----------------------------------------------------------------------------
(* The environment.                                                         *)

\* Between the upsert and the deletion a live host looks after its lock.
Inside(h, k) ==
    /\ pc[h] # "list"
    /\ Locks(current[h]) /\ LockKey(h, current[h]) = k
Keeps(h, k) == Inside(h, k) \/ k \in refreshing[h] \/ leaving[h][k] > 0

\* expire_at passes; for a lock that is looked after only if its host stalls.
LockExpires(k) ==
    /\ lock[k].fresh
    /\ lock' = [lock EXCEPT ![k].fresh = FALSE]
    /\ IF \E h \in Host : Keeps(h, k)
       THEN Abuse({k}) /\ \E h \in Host : Keeps(h, k) /\ Fault(h)
       ELSE UNCHANGED <<errs, abused>>
    /\ UNCHANGED <<clock, jobs, active, loop, thread, ran>>

\* The TTL index removes the document of an expired lock.
TtlDeletes(k) ==
    /\ lock[k].owner # None /\ ~lock[k].fresh
    /\ lock' = [lock EXCEPT ![k] = Free]
    /\ UNCHANGED <<clock, jobs, active, loop, thread, log>>

Crash(h) ==
    /\ active[h] \/ \E k \in Key : Keeps(h, k)
    /\ Fault(h)
    /\ active' = [active EXCEPT ![h] = FALSE]
    /\ due' = [due EXCEPT ![h] = {}] /\ Goto(h, "list")
    /\ current' = [current EXCEPT ![h] = None]
    /\ planned' = [planned EXCEPT ![h] = None]
    /\ refreshing' = [refreshing EXCEPT ![h] = {}]
    /\ leaving' = [leaving EXCEPT ![h] = [k \in Key |-> 0]]
    /\ UNCHANGED <<clock, docs, seen, ran, abused>>

Tick ==
    /\ clock < MaxTime
    /\ clock' = clock + 1
    /\ UNCHANGED <<docs, active, loop, thread, log>>

-----------------------------------------------------------------------------
LoopStep(h) ==
    \/ FindDueJobs(h) \/ NothingDue(h) \/ LeaveLoop(h)
    \/ \E j \in Job : SkipJob(h, j) \/ EnterUnrestricted(h, j) \/ AcquireJobLock(h, j)
    \/ StartLockRefresh(h) \/ ExecuteJobFunction(h) \/ PlanJobSchedule(h)
    \/ UpdateJobSchedule(h) \/ StopLockRefresh(h) \/ CleanupAfterFailure(h)
ThreadStep(h, k) == RefreshLock(h, k) \/ RefreshEnds(h, k) \/ RefreshExits(h, k)
UserStep == \/ \E j \in Job : PlanScheduledJob(j) \/ AddScheduledJob(j)
            \/ \E h \in Host, j \in Job : RemoveScheduledJob(h, j)
            \/ \E h \in Host : StartScheduler(h) \/ StopScheduler(h) \/ JoinTimesOut(h)
HostFault(h) == JobFails(h) \/ Crash(h) \/ \E j \in Job : AcquireFails(h, j)

Next == \/ UserStep \/ Tick
        \/ \E h \in Host : LoopStep(h) \/ HostFault(h)
        \/ \E h \in Host, k \in Key : ThreadStep(h, k)
        \/ \E k \in Key : LockExpires(k) \/ TtlDeletes(k)

Spec == Init /\ [][Next]_vars

(* Threads run, a stopped or crashed scheduler is started again, and time    *)
(* passes for a lock nobody looks after.                                     *)
Fairness ==
    /\ \A h \in Host : WF_vars(LoopStep(h)) /\ WF_vars(StartScheduler(h))
    /\ \A h \in Host, k \in Key : WF_vars(ThreadStep(h, k))
    /\ \A k \in Key : WF_vars(LockExpires(k) /\ UNCHANGED errs)

FairSpec == Spec /\ Fairness
=============================================================================
