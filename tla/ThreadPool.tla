----------------------------- MODULE ThreadPool -----------------------------
(***************************************************************************)
(* RetryableThreadPool of providers/_executor.py: threads of the           *)
(* application submit tasks into a bounded queue, wait for them and start  *)
(* and shut down the pool; worker threads execute them and put a task that *)
(* failed back into the queue.  Every critical section of self.lock is one *)
(* step, except the one of submit, which blocks inside; the two of a       *)
(* failure are one, as nobody else reads retry_count.                      *)
(***************************************************************************)
EXTENDS Naturals, Sequences, FiniteSets

CONSTANTS
    Thread,      \* worker threads that can be created
    Client,      \* threads of the application
    None,        \* nobody, no task
    QueueSize,   \* max_queue_size
    Sizes,       \* values of max_workers, which update may change
    MaxRetries,  \* max_retries of each task
    MaxTasks,    \* bound: tasks accepted
    MaxCalls     \* bound: calls of each client

Task == 0..(MaxTasks - 1)

ASSUME PoolAssumption ==
    /\ None \notin Thread /\ None \notin Client /\ None \notin Nat
    /\ QueueSize \in Nat \ {0} /\ Sizes \subseteq Nat \ {0} /\ IsFiniteSet(Thread)
    /\ MaxTasks \in Nat /\ MaxRetries \in [Task -> Nat]
    /\ MaxCalls \in [Client -> Nat]

VARIABLES
    isRunning,  \* is_running
    taskQueue,  \* task_queue: ids, oldest first
    unfinished, \* task_queue.unfinished_tasks
    lock,       \* the client that holds self.lock in submit, or None
    status,     \* results: status of each task; "none" without an entry
    retries,    \* retry_count of each task
    completed,  \* completed_tasks
    total,      \* total_tasks, the next id
    wpc,        \* per worker thread: where it is; "new" if not created
    hand,       \* per worker thread: its task; a dead thread keeps its last one
    cpc,        \* per client: where it is
    calls,      \* history: calls of each client
    dropped     \* history: tasks that shutdown took out of the queue

tpVars == <<isRunning, taskQueue, unfinished, lock, status, retries, completed,
            total, wpc, hand, cpc, calls, dropped>>
queued   == <<taskQueue, unfinished>>
records  == <<status, retries, completed>>
workers  == <<wpc, hand>>
clients  == <<cpc, calls>>

Live(w)  == wpc[w] \notin {"new", "exit", "dead"}
Holds(w) == hand[w] # None
Full     == Len(taskQueue) >= QueueSize
Final    == {"success", "failed"}

ThreadInit ==
    /\ isRunning = FALSE /\ taskQueue = <<>> /\ unfinished = 0 /\ lock = None
    /\ status = [t \in Task |-> "none"] /\ retries = [t \in Task |-> 0]
    /\ completed = 0 /\ total = 0
    /\ wpc = [w \in Thread |-> "new"] /\ hand = [w \in Thread |-> None]
    /\ cpc = [c \in Client |-> "idle"] /\ calls = [c \in Client |-> 0]
    /\ dropped = {}

EnterUnlocked(c) == lock' = c \* seeded fault: two clients submit at once
Enter(c) == lock = None /\ lock' = c

LockIgnored == TRUE \* seeded fault: a worker does not take the lock
LockFree == lock = None

PutUncounted(t) == taskQueue' = Append(taskQueue, t) /\ UNCHANGED unfinished \* seeded fault
Put(t) == taskQueue' = Append(taskQueue, t) /\ unfinished' = unfinished + 1

Goto(w, label) == wpc' = [wpc EXCEPT ![w] = label]
Record(t, s) == status' = [status EXCEPT ![t] = s]

-----------------------------------------------------------------------------
(* A worker thread.                                                         *)

CheckRunning(w) ==
    /\ wpc[w] = "check"
    /\ Goto(w, IF isRunning THEN "get" ELSE "exit")
    /\ UNCHANGED <<isRunning, queued, lock, records, total, hand, clients, dropped>>

Get(w) ==
    /\ wpc[w] = "get" /\ taskQueue # <<>>
    /\ hand' = [hand EXCEPT ![w] = Head(taskQueue)]
    /\ taskQueue' = Tail(taskQueue)
    /\ Goto(w, "start")
    /\ UNCHANGED <<isRunning, unfinished, lock, records, total, clients, dropped>>

\* seeded fault: an idle worker ends
GetEnds(w) ==
    /\ wpc[w] = "get" /\ taskQueue = <<>>
    /\ Goto(w, "exit")
    /\ UNCHANGED <<isRunning, queued, lock, records, total, hand, clients, dropped>>

GetTimesOut(w) ==
    /\ wpc[w] = "get" /\ taskQueue = <<>>
    /\ Goto(w, "check")
    /\ UNCHANGED <<isRunning, queued, lock, records, total, hand, clients, dropped>>

StartTask(w) ==
    /\ wpc[w] = "start" /\ LockFree
    /\ Record(hand[w], "running")
    /\ Goto(w, "run")
    /\ UNCHANGED <<isRunning, queued, lock, retries, completed, total, hand, clients, dropped>>

\* task.func returns, raises an Exception, or raises what except Exception does not
\* catch, as SystemExit.
FuncEnds(w) ==
    /\ wpc[w] = "run"
    /\ \E outcome \in {"returned", "raised", "unwinding"} : Goto(w, outcome)
    /\ UNCHANGED <<isRunning, queued, lock, records, total, hand, clients, dropped>>

RecordSuccess(w) ==
    /\ wpc[w] = "returned" /\ LockFree
    /\ Record(hand[w], "success") /\ completed' = completed + 1
    /\ Goto(w, "done")
    /\ UNCHANGED <<isRunning, queued, lock, retries, total, hand, clients, dropped>>

HasRetryUnchecked(t) == TRUE \* seeded fault: retries are not bounded
HasRetry(t) == retries[t] + 1 <= MaxRetries[t]

RecordFailure(w) ==
    LET t == hand[w] IN
    /\ wpc[w] = "raised" /\ LockFree
    /\ retries' = [retries EXCEPT ![t] = @ + 1]
    /\ \/ /\ HasRetry(t)
          /\ Record(t, "retrying") /\ Goto(w, "putback")
          /\ UNCHANGED completed
       \/ /\ ~HasRetry(t)
          /\ Record(t, "failed") /\ Goto(w, "done")
          /\ completed' = completed + 1
    /\ UNCHANGED <<isRunning, queued, lock, total, hand, clients, dropped>>

\* After the delay: put blocks while the queue is full.
PutBack(w) ==
    /\ wpc[w] = "putback" /\ ~Full
    /\ Put(hand[w])
    /\ Goto(w, "done")
    /\ UNCHANGED <<isRunning, lock, records, total, hand, clients, dropped>>

TaskDone(w) ==
    /\ wpc[w] = "done"
    /\ unfinished' = unfinished - 1
    /\ hand' = [hand EXCEPT ![w] = None]
    /\ Goto(w, "check")
    /\ UNCHANGED <<isRunning, taskQueue, lock, records, total, clients, dropped>>

\* Uncaught: finally calls task_done, the status stays, and the thread ends.
ThreadDies(w) ==
    /\ wpc[w] = "unwinding"
    /\ unfinished' = unfinished - 1
    /\ Goto(w, "dead")
    /\ UNCHANGED <<isRunning, taskQueue, lock, records, total, hand, clients, dropped>>

-----------------------------------------------------------------------------
(* A thread of the application.                                             *)

Call(c, label) ==
    /\ cpc[c] = "idle" /\ calls[c] < MaxCalls[c]
    /\ cpc' = [cpc EXCEPT ![c] = label]
    /\ calls' = [calls EXCEPT ![c] = @ + 1]

Leave(c, from, label) ==
    /\ cpc[c] = from
    /\ cpc' = [cpc EXCEPT ![c] = label]
    /\ UNCHANGED calls

\* submit keeps the lock while it waits for a place in the queue.
Submit(c) ==
    /\ Call(c, "put")
    /\ Enter(c) /\ total < MaxTasks
    /\ Record(total, "pending")
    /\ UNCHANGED <<isRunning, queued, retries, completed, total, workers, dropped>>

PutTask(c) ==
    /\ Leave(c, "put", "count")
    /\ ~Full /\ Put(total)
    /\ UNCHANGED <<isRunning, lock, records, total, workers, dropped>>

CountTask(c) ==
    /\ Leave(c, "count", "idle")
    /\ total' = total + 1 /\ lock' = None
    /\ UNCHANGED <<isRunning, queued, records, workers, dropped>>

\* The entry stays in results; the next submit replaces it.
PutTimesOut(c) ==
    /\ Leave(c, "put", "idle")
    /\ Full /\ lock' = None
    /\ UNCHANGED <<isRunning, queued, records, total, workers, dropped>>

Start(c) ==
    /\ Call(c, "idle")
    /\ ~isRunning /\ isRunning' = TRUE
    /\ \E W \in SUBSET {w \in Thread : wpc[w] = "new"} :
         /\ Cardinality(W) \in Sizes
         /\ wpc' = [w \in Thread |-> IF w \in W THEN "check" ELSE wpc[w]]
    /\ UNCHANGED <<queued, lock, records, total, hand, dropped>>

WaitCompletion(c) ==
    /\ Call(c, "join") /\ isRunning
    /\ UNCHANGED <<isRunning, queued, lock, records, total, workers, dropped>>

\* task_queue.join() returns.  No state depends on the joins of the threads.
JoinReturns(c) ==
    /\ Leave(c, "join", "idle")
    /\ unfinished = 0
    /\ isRunning' = FALSE
    /\ UNCHANGED <<queued, lock, records, total, workers, dropped>>

Shutdown(c) ==
    /\ Call(c, "drain")
    /\ isRunning' = FALSE
    /\ UNCHANGED <<queued, lock, records, total, workers, dropped>>

DrainOnly == UNCHANGED unfinished \* seeded fault: no task_done for a drained task
DrainDone == unfinished' = unfinished - 1

Drain(c) ==
    /\ cpc[c] = "drain" /\ taskQueue # <<>>
    /\ taskQueue' = Tail(taskQueue) /\ DrainDone
    /\ dropped' = dropped \cup {Head(taskQueue)}
    /\ UNCHANGED <<isRunning, lock, records, total, workers, clients>>

DrainEnds(c) ==
    /\ Leave(c, "drain", "idle")
    /\ taskQueue = <<>>
    /\ UNCHANGED <<isRunning, queued, lock, records, total, workers, dropped>>

-----------------------------------------------------------------------------
WorkerStep(w) ==
    \/ CheckRunning(w) \/ Get(w) \/ GetTimesOut(w) \/ StartTask(w) \/ FuncEnds(w)
    \/ RecordSuccess(w) \/ RecordFailure(w) \/ PutBack(w) \/ TaskDone(w)
    \/ ThreadDies(w)

\* What a call does once it is made.
ClientReturns(c) ==
    \/ PutTask(c) \/ CountTask(c) \/ PutTimesOut(c)
    \/ JoinReturns(c) \/ Drain(c) \/ DrainEnds(c)

ClientStep(c) ==
    \/ Submit(c) \/ Start(c) \/ WaitCompletion(c) \/ Shutdown(c)
    \/ ClientReturns(c)

ThreadNext == (\E w \in Thread : WorkerStep(w)) \/ (\E c \in Client : ClientStep(c))

ThreadSpec == ThreadInit /\ [][ThreadNext]_tpVars

\* Threads are scheduled, functions return, and what blocks with a timeout ends.
ThreadFairness ==
    /\ \A w \in Thread : WF_tpVars(WorkerStep(w))
    /\ \A c \in Client : WF_tpVars(ClientReturns(c))
=============================================================================
