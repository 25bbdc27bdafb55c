---------------------------- MODULE ProcessPool -----------------------------
(***************************************************************************)
(* RetryableProcessPool of providers/_executor.py: clients serialise tasks *)
(* into an unbounded queue shared with worker processes, which execute     *)
(* them, count the finished ones and write their records into a dictionary *)
(* kept by a manager process.  results and task_status are one record, and *)
(* the joins of processes, which change nothing, are left out.             *)
(***************************************************************************)
EXTENDS Naturals, FiniteSets

CONSTANTS
    Process,         \* worker processes that can be created
    User,            \* threads of the application
    Owner,           \* the one that starts, awaits and shuts down the pool
    Nothing,         \* nobody, no task
    Crews,           \* values of max_workers, which update may change
    MaxAttempts,     \* max_retries of each task
    MaxSubmissions,  \* bound: tasks accepted
    MaxUses          \* bound: calls of each user

Item == 0..(MaxSubmissions - 1)

ASSUME ProcessAssumption ==
    /\ Nothing \notin User /\ Owner \in User /\ Crews \subseteq Nat \ {0}
    /\ MaxSubmissions \in Nat /\ MaxAttempts \in [Item -> Nat]
    /\ MaxUses \in [User -> Nat]

VARIABLES
    going,       \* is_running
    pipe,        \* task_queue: [id, tries]
    record,      \* results and task_status: status of each task
    doneCount,   \* completed_tasks
    sent,        \* total_tasks and _task_counter
    submitting,  \* the user that holds _submit_lock, or Nothing
    ppc,         \* per process: where it is; "new" if not created
    task,        \* per process: its task [id, tries, status]
    crew,        \* workers: the processes of the last start
    upc,         \* per user: where it is
    uses,        \* history: calls of each user
    closed,      \* manager.shutdown was called
    life,        \* history: latest status a process gave each task, retry_count
    counted,     \* history: how often each task was counted as completed
    lost,        \* history: tasks whose process could not write their record
    orphaned     \* history: tasks that a process took along when it died

ppVars == <<going, pipe, record, doneCount, sent, submitting, ppc, task, crew,
            upc, uses, closed, life, counted, lost, orphaned>>
pool    == <<going, sent, submitting, crew, closed>>
users   == <<upc, uses>>
tally   == <<doneCount, counted>>

Alive(p)  == ppc[p] \notin {"new", "exit"}
Finished  == {"success", "failed"}
Idle      == [id |-> Nothing, tries |-> 0, status |-> "none"]

ProcessInit ==
    /\ going = FALSE /\ pipe = {} /\ record = [t \in Item |-> "none"]
    /\ doneCount = 0 /\ sent = 0 /\ submitting = Nothing
    /\ ppc = [p \in Process |-> "new"] /\ task = [p \in Process |-> Idle]
    /\ crew = {} /\ upc = [u \in User |-> "idle"] /\ uses = [u \in User |-> 0]
    /\ closed = FALSE
    /\ life = [t \in Item |-> [stage |-> "none", tries |-> 0]]
    /\ counted = [t \in Item |-> 0] /\ lost = {} /\ orphaned = {}

Go(p, from, to) == ppc[p] = from /\ ppc' = [ppc EXCEPT ![p] = to]

Write(t, s) == record' = [record EXCEPT ![t] = s]

SetStatus(p, s, n) ==
    /\ task' = [task EXCEPT ![p].status = s, ![p].tries = n]
    /\ life' = [life EXCEPT ![task[p].id] = [stage |-> s, tries |-> n]]

CountDone(t) ==
    /\ doneCount' = doneCount + 1
    /\ counted' = [counted EXCEPT ![t] = @ + 1]

-----------------------------------------------------------------------------
(* _worker_process.                                                         *)

CheckGoing(p) ==
    /\ Go(p, "check", IF going THEN "get" ELSE "exit")
    /\ UNCHANGED <<pool, pipe, record, tally, task, users, life, lost, orphaned>>

GetItem(p) ==
    /\ Go(p, "get", "load")
    /\ \E d \in pipe :
         /\ pipe' = pipe \ {d}
         /\ task' = [task EXCEPT ![p] = [id |-> d.id, tries |-> d.tries, status |-> "none"]]
    /\ UNCHANGED <<pool, record, tally, users, life, lost, orphaned>>

NothingToGet(p) ==
    /\ Go(p, "get", "check") /\ pipe = {}
    /\ UNCHANGED <<pool, pipe, record, tally, task, users, life, lost, orphaned>>

\* seeded fault: a task that cannot be read is not counted
LoadForgets(p) ==
    /\ Go(p, "load", "check")
    /\ lost' = lost \cup {task[p].id}
    /\ task' = [task EXCEPT ![p] = Idle]
    /\ UNCHANGED <<pool, pipe, record, tally, users, life, orphaned>>

\* The task cannot be deserialised: it is counted, its record stays as it is.
LoadFails(p) ==
    /\ Go(p, "load", "check")
    /\ CountDone(task[p].id)
    /\ lost' = lost \cup {task[p].id}
    /\ task' = [task EXCEPT ![p] = Idle]
    /\ UNCHANGED <<pool, pipe, record, users, life, orphaned>>

Begin(p) ==
    /\ Go(p, "load", "run")
    /\ SetStatus(p, "running", task[p].tries)
    /\ Write(task[p].id, "running")
    /\ UNCHANGED <<pool, pipe, tally, users, lost, orphaned>>

Returns(p) ==
    /\ Go(p, "run", "save")
    /\ SetStatus(p, "success", task[p].tries)
    /\ CountDone(task[p].id)
    /\ UNCHANGED <<pool, pipe, record, users, lost, orphaned>>

\* seeded fault: one retry too many
MayRetryOnceMore(p) == task[p].tries <= MaxAttempts[task[p].id]
MayRetry(p) == task[p].tries + 1 <= MaxAttempts[task[p].id]

RaisesAgain(p) ==
    /\ Go(p, "run", "putback") /\ MayRetry(p)
    /\ SetStatus(p, "retrying", task[p].tries + 1)
    /\ UNCHANGED <<pool, pipe, record, tally, users, lost, orphaned>>

RaisesForGood(p) ==
    /\ Go(p, "run", "save") /\ ~MayRetry(p)
    /\ SetStatus(p, "failed", task[p].tries + 1)
    /\ CountDone(task[p].id)
    /\ UNCHANGED <<pool, pipe, record, users, lost, orphaned>>

\* seeded fault: the retry is counted as well
ReturnAndCount(p) ==
    /\ Go(p, "putback", "save")
    /\ pipe' = pipe \cup {[id |-> task[p].id, tries |-> task[p].tries]}
    /\ CountDone(task[p].id)
    /\ UNCHANGED <<pool, record, task, users, life, lost, orphaned>>

ReturnToPipe(p) ==
    /\ Go(p, "putback", "save")
    /\ pipe' = pipe \cup {[id |-> task[p].id, tries |-> task[p].tries]}
    /\ UNCHANGED <<pool, record, tally, task, users, life, lost, orphaned>>

\* seeded fault: the record is written after a success only
ReportSuccess(p) ==
    IF task[p].status = "success" THEN Write(task[p].id, "success") ELSE UNCHANGED record
Report(p) == Write(task[p].id, task[p].status)

\* finally: after a retry the task may already run again elsewhere.
Save(p) ==
    /\ Go(p, "save", "check")
    /\ Report(p)
    /\ task' = [task EXCEPT ![p] = Idle]
    /\ UNCHANGED <<pool, pipe, tally, users, life, lost, orphaned>>

\* A result that cannot be copied or pickled: the exception ends the process.
SaveFails(p) ==
    /\ Go(p, "save", "exit") /\ task[p].status = "success"
    /\ lost' = lost \cup {task[p].id}
    /\ task' = [task EXCEPT ![p] = Idle]
    /\ UNCHANGED <<pool, pipe, record, tally, users, life, orphaned>>

\* The process ends in the middle of a task: killed, or by an exception that except
\* Exception does not catch, after which finally still writes the record.
Dies(p) ==
    /\ ppc[p] \in {"load", "run", "putback", "save"}
    /\ ppc' = [ppc EXCEPT ![p] = "exit"]
    /\ \/ UNCHANGED record
       \/ ppc[p] \in {"run", "putback"} /\ Report(p)
    /\ lost' = lost \cup {task[p].id}
    /\ orphaned' = orphaned \cup {t \in {task[p].id} : ppc[p] # "save"}
    /\ task' = [task EXCEPT ![p] = Idle]
    /\ UNCHANGED <<pool, pipe, tally, users, life>>

-----------------------------------------------------------------------------
(* A thread of the application.                                             *)

Use(u, label) ==
    /\ upc[u] = "idle" /\ uses[u] < MaxUses[u] /\ ~closed
    /\ upc' = [upc EXCEPT ![u] = label]
    /\ uses' = [uses EXCEPT ![u] = @ + 1]

Back(u, from) ==
    /\ upc[u] = from
    /\ upc' = [upc EXCEPT ![u] = "idle"]
    /\ UNCHANGED uses

SubmitItem(u) ==
    /\ Use(u, "count")
    /\ submitting = Nothing /\ submitting' = u
    /\ sent < MaxSubmissions
    /\ Write(sent, "pending")
    /\ pipe' = pipe \cup {[id |-> sent, tries |-> 0]}
    /\ life' = [life EXCEPT ![sent].stage = "pending"]
    /\ UNCHANGED <<going, tally, sent, ppc, task, crew, closed, lost, orphaned>>

CountItem(u) ==
    /\ Back(u, "count")
    /\ sent' = sent + 1 /\ submitting' = Nothing
    /\ UNCHANGED <<going, pipe, record, tally, ppc, task, crew, closed, life, lost, orphaned>>

StartCrew(u) ==
    /\ Use(u, "idle") /\ u = Owner
    /\ ~going /\ going' = TRUE
    /\ \E P \in SUBSET {p \in Process : ppc[p] = "new"} :
         /\ Cardinality(P) \in Crews
         /\ ppc' = [p \in Process |-> IF p \in P THEN "check" ELSE ppc[p]]
         /\ crew' = P
    /\ UNCHANGED <<pipe, record, tally, sent, submitting, task, closed, life, lost, orphaned>>

WaitForAll(u) ==
    /\ Use(u, "poll") /\ u = Owner
    /\ UNCHANGED <<pool, pipe, record, tally, ppc, task, life, lost, orphaned>>

AllDone == doneCount >= sent

PollEnds(u) ==
    /\ Back(u, "poll") /\ AllDone
    /\ going' = FALSE
    /\ UNCHANGED <<pipe, record, tally, sent, submitting, ppc, task, crew, closed, life, lost, orphaned>>

PollTimesOut(u) ==
    /\ Back(u, "poll") /\ ~AllDone
    /\ going' = FALSE
    /\ UNCHANGED <<pipe, record, tally, sent, submitting, ppc, task, crew, closed, life, lost, orphaned>>

ShutdownPool(u) ==
    /\ Use(u, "reap") /\ u = Owner
    /\ going' = FALSE
    /\ UNCHANGED <<pipe, record, tally, sent, submitting, ppc, task, crew, closed, life, lost, orphaned>>

\* A worker that has not ended in time is terminated, with its task.
Terminate(u) ==
    /\ upc[u] = "reap"
    /\ \E p \in crew :
         /\ Alive(p) /\ ppc' = [ppc EXCEPT ![p] = "exit"]
         /\ task' = [task EXCEPT ![p] = Idle]
         /\ lost' = lost \cup (Item \cap {task[p].id})
    /\ UNCHANGED <<pool, pipe, record, tally, users, life, orphaned>>

CrewEnded == \A p \in crew : ~Alive(p)

CloseManager(u) ==
    /\ Back(u, "reap") /\ CrewEnded
    /\ closed' = TRUE
    /\ UNCHANGED <<going, pipe, record, tally, sent, submitting, ppc, task, crew, life, lost, orphaned>>

-----------------------------------------------------------------------------
ProcessStep(p) ==
    /\ ~closed
    /\ \/ CheckGoing(p) \/ GetItem(p) \/ NothingToGet(p) \/ LoadFails(p) \/ Begin(p)
       \/ Returns(p) \/ RaisesAgain(p) \/ RaisesForGood(p) \/ ReturnToPipe(p)
       \/ Save(p) \/ SaveFails(p)

UserReturns(u) ==
    \/ CountItem(u) \/ PollEnds(u) \/ PollTimesOut(u) \/ Terminate(u) \/ CloseManager(u)

UserStep(u) ==
    \/ SubmitItem(u) \/ StartCrew(u) \/ WaitForAll(u) \/ ShutdownPool(u) \/ UserReturns(u)

ProcessNext ==
    \/ \E p \in Process : ProcessStep(p) \/ (~closed /\ Dies(p))
    \/ \E u \in User : UserStep(u)

ProcessSpec == ProcessInit /\ [][ProcessNext]_ppVars

\* Processes are scheduled, functions return, and what is called returns as far
\* as it does not wait for the processes.
ProcessFairness ==
    /\ \A p \in Process : WF_ppVars(ProcessStep(p))
    /\ \A u \in User : WF_ppVars(CountItem(u) \/ PollEnds(u) \/ Terminate(u) \/ CloseManager(u))
=============================================================================
