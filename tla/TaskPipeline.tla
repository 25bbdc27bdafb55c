---------------------------- MODULE TaskPipeline ----------------------------
(***************************************************************************)
(* The life of tasks in astraflux: users write task documents to MongoDB   *)
(* (exports/data_access.py); on every host TaskScheduler.execute fetches   *)
(* them, publishes the runnable ones to RabbitMQ and writes WAITING back   *)
(* (controllers/task_scheduler.py); a worker component takes the messages  *)
(* one at a time and starts a process per task, which reports the status   *)
(* and keeps the worker's slot in Redis (boot/worker_launcher.py).         *)
(* Hosts, workers and task processes share only MongoDB, RabbitMQ, Redis.  *)
(***************************************************************************)
EXTENDS TaskCycle

CONSTANTS
    Host,         \* hosts that run the scheduler's cron job
    Worker,       \* worker components (unique_id)
    Proc,         \* task processes that may ever be started
    Serves,       \* the queue of each worker
    MaxProcess,   \* worker_max_process of each worker
    SystemQueue,  \* queues of `system_proxy' workers
    SendAttempts, \* RABBITMQ_SEND_RETRY_MAX
    Stoppable,    \* tasks the users may stop
    MaxClock,     \* bound: seconds in which tasks are submitted
    MaxAsks,      \* bound: submissions and retries of each task
    MaxFaults     \* bound: failed and lost publishes, aborted cycles, crashes,
                  \* lost connections, database and redis errors together

ASSUME PipelineAssumption ==
    /\ None \notin Worker
    /\ None \notin Nat
    /\ IsFiniteSet(Worker)
    /\ Serves \in [Worker -> Queue]
    /\ MaxProcess \in [Worker -> Nat \ {0}]
    /\ SendAttempts \in Nat \ {0}
    /\ MaxAsks \in [Task -> Nat] /\ MaxClock \in Nat /\ MaxFaults \in Nat

\* A message is its task and which of its publications by which host it is.
Message == [task : Task, host : Host, seq : Nat \ {0}]
NoMsg == [task |-> None, host |-> None, seq |-> 0]

VARIABLES
    status,      \* MongoDB: status of each task, Missing without a document
    created,     \* MongoDB: create_time of each task
    clock,       \* the latest create_time, in seconds
    asks,        \* history: submissions and retries of each task
    pc,          \* per host: where execute() is
    tasksMap,    \* per host: tasks_map
    original,    \* per host: _original_status of the tasks of tasks_map
    stamps,      \* per host: create_time of the tasks of tasks_map
    queues,      \* per host: queues _schedule has still to visit
    todo,        \* per host: tasks of the visited queue not yet tried
    idle,        \* per host: slots left in the visited queue
    attempt,     \* per host: failed attempts to publish the current task
    parents,     \* per host: parents _update_parent_status has to visit
    saving,      \* per host: tasks _persist_updates has to visit
    slips,       \* history: failed publishes and aborted cycles per host
    sent,        \* history: messages published per host and task
    lost,        \* history: published without an error, never at the broker
    ready,       \* RabbitMQ: messages ready for delivery
    unacked,     \* RabbitMQ: the worker's delivery awaits an ack
    redelivered, \* history: messages the broker took back from a worker
    wpc,         \* per worker: where handle_incoming_message is
    msg,         \* per worker: the message being handled
    statusCache, \* per worker: _task_status_cache
    slotsCache,  \* per worker: _available_slots_cache
    indexed,     \* Redis: workers in the service name index
    run,         \* Redis: run_process set of each worker
    faults,      \* history: faults so far
    ppc,         \* per process: where execute_task is
    pmsg,        \* per process: the message it was started for
    pworker      \* per process: the worker that started it

dbVars      == <<status, created, clock, asks>>
cycleVars   == <<pc, tasksMap, original, stamps, queues, todo, idle, attempt, parents, saving>>
hostVars    == <<cycleVars, slips, sent, lost>>
brokerVars  == <<ready, unacked, redelivered>>
handlerVars == <<wpc, msg, statusCache, slotsCache>>
procVars    == <<ppc, pmsg, pworker>>
vars == <<dbVars, hostVars, brokerVars, handlerVars, indexed, run, faults, procVars>>

EmptyMap == [t \in Task |-> Missing]

Init ==
    /\ status = EmptyMap
    /\ created = [t \in Task |-> 0] /\ clock = 1
    /\ asks = [t \in Task |-> 0]
    /\ pc = [h \in Host |-> "idle"]
    /\ tasksMap = [h \in Host |-> EmptyMap] /\ original = tasksMap
    /\ stamps = [h \in Host |-> [t \in Task |-> 0]]
    /\ queues = [h \in Host |-> {}] /\ todo = queues
    /\ idle = [h \in Host |-> 0] /\ attempt = idle /\ slips = idle
    /\ parents = queues /\ saving = queues
    /\ sent = [h \in Host |-> [t \in Task |-> 0]] /\ lost = {}
    /\ ready = {} /\ unacked = [w \in Worker |-> FALSE] /\ redelivered = {}
    /\ wpc = [w \in Worker |-> "down"] /\ msg = [w \in Worker |-> NoMsg]
    /\ statusCache = [w \in Worker |-> EmptyMap]
    /\ slotsCache = [w \in Worker |-> None]
    /\ indexed = {} /\ run = [w \in Worker |-> {}] /\ faults = 0
    /\ ppc = [p \in Proc |-> "free"]
    /\ pmsg = [p \in Proc |-> NoMsg] /\ pworker = [p \in Proc |-> None]

-----------------------------------------------------------------------------
(* Users: exports/data_access.py.                                           *)

\* task_submit and each iteration of subtasks_create: the upsert resets an
\* existing document of the same id.
Submit(t) ==
    /\ asks[t] < MaxAsks[t]
    /\ \E w \in indexed : Serves[w] = QueueName[t]
    /\ status' = [status EXCEPT ![t] = "pending"]
    /\ clock' \in {clock, clock + 1} /\ clock' <= MaxClock
    /\ created' = [created EXCEPT ![t] = clock']
    /\ asks' = [asks EXCEPT ![t] = @ + 1]
    /\ UNCHANGED <<hostVars, brokerVars, handlerVars, indexed, run, faults, procVars>>

TaskStop(t) ==
    /\ t \in Stoppable
    /\ status[t] \notin FINAL_STATUS \cup {Missing}
    /\ status' = [status EXCEPT ![t] = "stopped"]
    /\ UNCHANGED <<created, clock, asks, hostVars, brokerVars, handlerVars,
                   indexed, run, faults, procVars>>

TaskRetry(t) ==
    /\ asks[t] < MaxAsks[t]
    /\ status[t] \in {"failed", "stopped"}
    /\ status' = [status EXCEPT ![t] = "pending"]
    /\ asks' = [asks EXCEPT ![t] = @ + 1]
    /\ UNCHANGED <<created, clock, hostVars, brokerVars, handlerVars,
                   indexed, run, faults, procVars>>

-----------------------------------------------------------------------------
(* The scheduler: TaskScheduler.execute on host h.  pc[h] = "idle" is the   *)
(* free _execute_lock; steps 1 to 5 read MongoDB once and are one action.   *)
FetchAndPlan(h) ==
    /\ pc[h] = "idle"
    /\ \E F \in FetchTasks(status, created) :
        LET map == BuildMap(status, F) IN
        /\ F # {}
        /\ original' = [original EXCEPT ![h] = map]
        /\ tasksMap' = [tasksMap EXCEPT ![h] = PropagateFailures(map)]
        /\ parents' = [parents EXCEPT ![h] = Parents(map)]
        /\ saving' = [saving EXCEPT ![h] = F]
    /\ queues' = [queues EXCEPT ![h] =
                    {QueueName[t] : t \in FindRunnable(tasksMap'[h])}]
    /\ stamps' = [stamps EXCEPT ![h] = created]
    /\ pc' = [pc EXCEPT ![h] = "schedule"]
    /\ UNCHANGED <<dbVars, todo, idle, attempt, slips, sent, lost, brokerVars,
                   handlerVars, indexed, run, faults, procVars>>

\* No task to process: execute() returns and the lock is free again.
EmptyCycle(h) ==
    /\ pc[h] = "idle" /\ Active(status) = {}
    /\ UNCHANGED vars

\* redis_get_available_slots of each worker in the service's index, summed.
AvailableSlots(w) == {i \in 1..MaxProcess[w] : i + Cardinality(run[w]) <= MaxProcess[w]}
IdleWorkers(q) ==
    Cardinality(UNION {{w} \X AvailableSlots(w) : w \in {v \in indexed : Serves[v] = q}})

\* _schedule visits a queue: it reads the idle slots once.
Visit(h, q, slots) ==
    /\ queues' = [queues EXCEPT ![h] = @ \ {q}]
    /\ idle' = [idle EXCEPT ![h] = slots]
    /\ todo' = [todo EXCEPT ![h] =
         IF slots = 0 THEN {}
         ELSE {t \in FindRunnable(tasksMap[h]) : QueueName[t] = q}]
    /\ UNCHANGED <<dbVars, pc, tasksMap, original, stamps, attempt, parents, saving,
                   slips, sent, lost, brokerVars, handlerVars, indexed, run, procVars>>

VisitQueue(h) ==
    /\ pc[h] = "schedule" /\ todo[h] = {}
    /\ \E q \in queues[h] : Visit(h, q, IdleWorkers(q))
    /\ UNCHANGED faults

\* A redis error: the slots of the workers it hides count as none.
VisitFails(h) ==
    /\ pc[h] = "schedule" /\ todo[h] = {} /\ faults < MaxFaults
    /\ \E q \in queues[h] : \E slots \in 0..IdleWorkers(q) :
          slots # IdleWorkers(q) /\ Visit(h, q, slots)
    /\ faults' = faults + 1

Best(h, t) == t \in todo[h] /\ \A u \in todo[h] : ~Outranks(tasksMap[h], stamps[h], u, t)

\* The slot is used up whether or not the send succeeded; out of slots, the
\* loops over the queue's tasks end.
NextTask(h, t) ==
    /\ idle' = [idle EXCEPT ![h] = @ - 1]
    /\ todo' = [todo EXCEPT ![h] = IF idle[h] = 1 THEN {} ELSE @ \ {t}]
    /\ attempt' = [attempt EXCEPT ![h] = 0]

Publication(h, t) == [task |-> t, host |-> h, seq |-> sent[h][t] + 1]
Publish(h, t) ==
    /\ ready' = ready \cup {Publication(h, t)}
    /\ sent' = [sent EXCEPT ![h][t] = @ + 1]

\* _send_task after rabbitmq_send_message returned.
Sent(h, t) ==
    /\ tasksMap' = [tasksMap EXCEPT ![h][t] = "waiting"]
    /\ NextTask(h, t)
    /\ UNCHANGED <<dbVars, pc, original, stamps, queues, parents, saving, slips,
                   unacked, redelivered, handlerVars, indexed, run, procVars>>

SendTask(h) ==
    /\ pc[h] = "schedule"
    /\ \E t \in todo[h] : Best(h, t) /\ Publish(h, t) /\ Sent(h, t)
    /\ UNCHANGED <<lost, faults>>

\* basic_publish returns when the socket has the bytes: there are no publisher
\* confirms, and a connection lost after that takes the message along.
SendIsLost(h) ==
    /\ pc[h] = "schedule" /\ faults < MaxFaults
    /\ \E t \in todo[h] :
        /\ Best(h, t)
        /\ sent' = [sent EXCEPT ![h][t] = @ + 1]
        /\ lost' = lost \cup {Publication(h, t)}
        /\ Sent(h, t)
    /\ faults' = faults + 1 /\ UNCHANGED ready

Slip(h) == slips' = [slips EXCEPT ![h] = @ + 1] /\ faults' = faults + 1

\* An attempt of rabbitmq_send_message fails, with the message on the broker
\* or not; after the last one _send_task logs the error and moves on.
SendFails(h) ==
    /\ pc[h] = "schedule" /\ faults < MaxFaults
    /\ \E t \in todo[h] :
        /\ Best(h, t)
        /\ Publish(h, t) \/ UNCHANGED <<ready, sent>>
        /\ IF attempt[h] + 1 < SendAttempts
           THEN attempt' = [attempt EXCEPT ![h] = @ + 1] /\ UNCHANGED <<idle, todo>>
           ELSE NextTask(h, t)
    /\ Slip(h)
    /\ UNCHANGED <<dbVars, pc, tasksMap, original, stamps, queues, parents, saving,
                   lost, unacked, redelivered, handlerVars, indexed, run, procVars>>

\* _update_parent_status, one parent; then _persist_updates begins.
UpdateParent(h) ==
    /\ pc[h] = "schedule" /\ todo[h] = {} /\ queues[h] = {}
    /\ \E p \in parents[h] :
        /\ \A q \in parents[h] : ~VisitedBefore(original[h], stamps[h], q, p)
        /\ tasksMap' = [tasksMap EXCEPT ![h][p] = ParentStatus(tasksMap[h], p)]
        /\ parents' = [parents EXCEPT ![h] = @ \ {p}]
    /\ UNCHANGED <<dbVars, pc, original, stamps, queues, todo, idle, attempt, saving,
                   slips, sent, lost, brokerVars, handlerVars, indexed, run, faults,
                   procVars>>

\* The status _persist_updates leaves for a task: WAITING only over the
\* status it was fetched with, a final status over anything.
PersistedBlindly(old, new, current) == \* seeded fault: not conditional
    IF old # new THEN new ELSE current
PersistedFinal(old, new, current) == \* seeded fault: WAITING is not written
    IF old # new /\ new \in FINAL_STATUS THEN new ELSE current
Persisted(old, new, current) ==
    IF new = "waiting" /\ old \in {"pending", "retrying"}
    THEN IF current = old THEN "waiting" ELSE current
    ELSE IF old # new /\ new \in FINAL_STATUS THEN new ELSE current

ToSave(h) == {t \in saving[h] : tasksMap[h][t] # original[h][t]}

PersistTask(h) ==
    /\ pc[h] = "schedule" /\ todo[h] = {} /\ queues[h] = {} /\ parents[h] = {}
    /\ \E t \in ToSave(h) :
        /\ \A u \in ToSave(h) : stamps[h][u] <= stamps[h][t]
        /\ status' = [status EXCEPT ![t] =
                        Persisted(original[h][t], tasksMap[h][t], @)]
        /\ saving' = [saving EXCEPT ![h] = @ \ {t}]
    /\ UNCHANGED <<created, clock, asks, pc, tasksMap, original, stamps, queues, todo,
                   idle, attempt, parents, slips, sent, lost, brokerVars, handlerVars,
                   indexed, run, faults, procVars>>

\* The locals of execute() are gone when it returns.
EndCycle(h) ==
    /\ pc' = [pc EXCEPT ![h] = "idle"]
    /\ tasksMap' = [tasksMap EXCEPT ![h] = EmptyMap]
    /\ original' = [original EXCEPT ![h] = EmptyMap]
    /\ stamps' = [stamps EXCEPT ![h] = [t \in Task |-> 0]]
    /\ queues' = [queues EXCEPT ![h] = {}]
    /\ todo' = [todo EXCEPT ![h] = {}]
    /\ idle' = [idle EXCEPT ![h] = 0]
    /\ attempt' = [attempt EXCEPT ![h] = 0]
    /\ parents' = [parents EXCEPT ![h] = {}]
    /\ saving' = [saving EXCEPT ![h] = {}]
    /\ UNCHANGED <<dbVars, sent, lost, brokerVars, handlerVars, indexed, run, procVars>>

FinishCycle(h) ==
    /\ pc[h] = "schedule"
    /\ todo[h] = {} /\ queues[h] = {} /\ parents[h] = {} /\ ToSave(h) = {}
    /\ EndCycle(h) /\ UNCHANGED <<slips, faults>>

\* A database error leaves execute() (the lock is released), or the host dies.
AbortCycle(h) ==
    /\ pc[h] # "idle" /\ faults < MaxFaults
    /\ Slip(h) /\ EndCycle(h)

-----------------------------------------------------------------------------
(* A worker component: WorkerComponentLauncher and MessageQueueHandler.     *)
(* prefetch_count is 1: one delivery at a time.                             *)

\* ServiceComponentLauncher registers the service, which shares the worker's
\* unique_id: it enters the index and store_worker_data deletes the run set.
ServiceRegister(w) ==
    /\ w \in indexed => faults < MaxFaults
    /\ faults' = IF w \in indexed THEN faults + 1 ELSE faults
    /\ indexed' = indexed \cup {w}
    /\ run' = [run EXCEPT ![w] = {}]
    /\ UNCHANGED <<dbVars, hostVars, brokerVars, handlerVars, procVars>>

\* _register_worker_component deletes the run set too; a new handler has
\* empty caches.
WorkerLaunch(w) ==
    /\ wpc[w] = "down" /\ w \in indexed
    /\ wpc' = [wpc EXCEPT ![w] = "idle"]
    /\ run' = [run EXCEPT ![w] = {}]
    /\ UNCHANGED <<dbVars, hostVars, brokerVars, msg, statusCache, slotsCache,
                   indexed, faults, procVars>>

Receive(w) ==
    /\ wpc[w] = "idle"
    /\ \E m \in ready :
        /\ QueueName[m.task] = Serves[w]
        /\ ready' = ready \ {m}
        /\ msg' = [msg EXCEPT ![w] = m]
    /\ unacked' = [unacked EXCEPT ![w] = TRUE]
    /\ wpc' = [wpc EXCEPT ![w] = "check"]
    /\ UNCHANGED <<dbVars, hostVars, redelivered, statusCache, slotsCache,
                   indexed, run, faults, procVars>>

\* _should_execute_task: the cached status, else the one in MongoDB.
AssumedStatus(w, t) == \* seeded fault: the result of the query is not used
    IF statusCache[w][t] # Missing THEN statusCache[w][t] ELSE "waiting"
KnownStatus(w, t) ==
    IF statusCache[w][t] # Missing THEN statusCache[w][t] ELSE status[t]

CheckStatus(w) ==
    LET t == msg[w].task IN
    /\ wpc[w] = "check"
    /\ IF Serves[w] \in SystemQueue
       THEN wpc' = [wpc EXCEPT ![w] = "capacity"] /\ UNCHANGED statusCache
       ELSE /\ statusCache' = [statusCache EXCEPT ![w][t] = KnownStatus(w, t)]
            /\ wpc' = [wpc EXCEPT ![w] =
                 IF KnownStatus(w, t) = "stopped" THEN "ack" ELSE "capacity"]
    /\ UNCHANGED <<dbVars, hostVars, brokerVars, msg, slotsCache, indexed, run,
                   faults, procVars>>

\* The query raises: the task is executed and nothing is cached.
CheckFails(w) ==
    /\ wpc[w] = "check" /\ faults < MaxFaults
    /\ Serves[w] \notin SystemQueue /\ statusCache[w][msg[w].task] = Missing
    /\ wpc' = [wpc EXCEPT ![w] = "capacity"]
    /\ faults' = faults + 1
    /\ UNCHANGED <<dbVars, hostVars, brokerVars, msg, statusCache, slotsCache,
                   indexed, run, procVars>>

\* The handler is done with its message; `requeue' is a nack the broker gets.
SettleByNack(w, requeue) == \* seeded fault: always requeues
    /\ ready' = IF unacked[w] THEN ready \cup {msg[w]} ELSE ready
    /\ unacked' = [unacked EXCEPT ![w] = FALSE]
    /\ msg' = [msg EXCEPT ![w] = NoMsg]
    /\ UNCHANGED redelivered
SettleByAck(w, requeue) == \* seeded fault: never requeues
    /\ unacked' = [unacked EXCEPT ![w] = FALSE]
    /\ msg' = [msg EXCEPT ![w] = NoMsg]
    /\ UNCHANGED <<ready, redelivered>>
Settle(w, requeue) ==
    /\ ready' = IF requeue /\ unacked[w] THEN ready \cup {msg[w]} ELSE ready
    /\ unacked' = [unacked EXCEPT ![w] = FALSE]
    /\ msg' = [msg EXCEPT ![w] = NoMsg]
    /\ UNCHANGED redelivered

\* _has_available_worker_capacity, and the nack when there is none.
KnownSlotsUncapped(w) == \* seeded fault: no lower limit of 0
    IF slotsCache[w] # None THEN slotsCache[w] ELSE MaxProcess[w] - Cardinality(run[w])
KnownSlots(w) ==
    IF slotsCache[w] # None THEN slotsCache[w] ELSE Cardinality(AvailableSlots(w))

CheckCapacity(w) ==
    /\ wpc[w] = "capacity"
    /\ slotsCache' = [slotsCache EXCEPT ![w] = KnownSlots(w)]
    /\ IF KnownSlots(w) > 0
       THEN wpc' = [wpc EXCEPT ![w] = "spawn"] /\ UNCHANGED <<brokerVars, msg>>
       ELSE wpc' = [wpc EXCEPT ![w] = "idle"] /\ Settle(w, TRUE)
    /\ UNCHANGED <<dbVars, hostVars, statusCache, indexed, run, faults, procVars>>

\* A redis error counts as no slots, and is cached like them.
CapacityFails(w) ==
    /\ wpc[w] = "capacity" /\ slotsCache[w] = None /\ faults < MaxFaults
    /\ slotsCache' = [slotsCache EXCEPT ![w] = 0]
    /\ wpc' = [wpc EXCEPT ![w] = "idle"]
    /\ Settle(w, TRUE)
    /\ faults' = faults + 1
    /\ UNCHANGED <<dbVars, hostVars, statusCache, indexed, run, procVars>>

\* _execute_task_in_isolated_process; which unused pid the system gives the
\* process makes no difference.
Spawn(w) ==
    /\ wpc[w] = "spawn"
    /\ \E p \in Proc : ppc[p] = "free"
    /\ LET p == CHOOSE q \in Proc : ppc[q] = "free" IN
        /\ ppc' = [ppc EXCEPT ![p] = "starting"]
        /\ pmsg' = [pmsg EXCEPT ![p] = msg[w]]
        /\ pworker' = [pworker EXCEPT ![p] = w]
    /\ wpc' = [wpc EXCEPT ![w] = "ack"]
    /\ UNCHANGED <<dbVars, hostVars, brokerVars, msg, statusCache, slotsCache,
                   indexed, run, faults>>

\* The process cannot be started: the exception handler nacks.
SpawnFails(w) ==
    /\ wpc[w] = "spawn" /\ faults < MaxFaults
    /\ wpc' = [wpc EXCEPT ![w] = "idle"]
    /\ Settle(w, TRUE)
    /\ faults' = faults + 1
    /\ UNCHANGED <<dbVars, hostVars, statusCache, slotsCache, indexed, run, procVars>>

Ack(w) ==
    /\ wpc[w] = "ack"
    /\ wpc' = [wpc EXCEPT ![w] = "idle"]
    /\ Settle(w, FALSE)
    /\ UNCHANGED <<dbVars, hostVars, statusCache, slotsCache, indexed, run, faults,
                   procVars>>

\* The broker drops the connection and takes the message back; the handler
\* goes on, and the errors of its late ack or nack are swallowed.
ConnectionLost(w) ==
    /\ unacked[w] /\ faults < MaxFaults
    /\ ready' = ready \cup {msg[w]}
    /\ unacked' = [unacked EXCEPT ![w] = FALSE]
    /\ redelivered' = redelivered \cup {msg[w]}
    /\ faults' = faults + 1
    /\ UNCHANGED <<dbVars, hostVars, handlerVars, indexed, run, procVars>>

\* The worker component dies; its task processes live on.
WorkerCrash(w) ==
    /\ wpc[w] # "down" /\ faults < MaxFaults
    /\ wpc' = [wpc EXCEPT ![w] = "down"]
    /\ ready' = IF unacked[w] THEN ready \cup {msg[w]} ELSE ready
    /\ redelivered' = IF unacked[w] THEN redelivered \cup {msg[w]} ELSE redelivered
    /\ unacked' = [unacked EXCEPT ![w] = FALSE]
    /\ msg' = [msg EXCEPT ![w] = NoMsg]
    /\ statusCache' = [statusCache EXCEPT ![w] = EmptyMap]
    /\ slotsCache' = [slotsCache EXCEPT ![w] = None]
    /\ faults' = faults + 1
    /\ UNCHANGED <<dbVars, hostVars, indexed, run, procVars>>

\* _STATUS_CACHE_TTL and WORKER_AVAILABLE_SLOTS_CACHE_TTL run out.
StatusExpires(w, t) ==
    /\ statusCache[w][t] # Missing
    /\ statusCache' = [statusCache EXCEPT ![w][t] = Missing]
    /\ UNCHANGED <<dbVars, hostVars, brokerVars, wpc, msg, slotsCache, indexed, run,
                   faults, procVars>>

SlotsExpire(w) ==
    /\ slotsCache[w] # None
    /\ slotsCache' = [slotsCache EXCEPT ![w] = None]
    /\ UNCHANGED <<dbVars, hostVars, brokerVars, wpc, msg, statusCache, indexed, run,
                   faults, procVars>>

-----------------------------------------------------------------------------
(* A task process: TaskExecutor.execute_task.  Every status write is        *)
(* unconditional (_update_task_status queries by id only).                  *)
Report(p, from, value, to) ==
    /\ ppc[p] = from
    /\ ppc' = [ppc EXCEPT ![p] = to]
    /\ status' = [status EXCEPT ![pmsg[p].task] = value]
    /\ UNCHANGED <<created, clock, asks, hostVars, brokerVars, handlerVars, indexed,
                   run, faults, pmsg, pworker>>

ReportRunning(p) == Report(p, "starting", "running", "entering")

\* run() returns, or it raises.
ReportSuccess(p) == Report(p, "running", "success", "leaving")
ReportFailureOnly(p) == \* seeded fault: no finally clause
    Report(p, "running", "failed", "done")
ReportFailure(p) == Report(p, "running", "failed", "leaving")

\* redis_add_to_run_process; an error is swallowed and the task runs anyway.
EnterRunSet(p) ==
    /\ ppc[p] = "entering"
    /\ ppc' = [ppc EXCEPT ![p] = "running"]
    /\ \/ run' = [run EXCEPT ![pworker[p]] = @ \cup {p}] /\ UNCHANGED faults
       \/ faults < MaxFaults /\ faults' = faults + 1 /\ UNCHANGED run
    /\ UNCHANGED <<dbVars, hostVars, brokerVars, handlerVars, indexed, pmsg, pworker>>

\* Neither SUCCESS nor FAILED can be written, or run() ends with a
\* BaseException that `except Exception' misses; the finally clause still runs.
ReportFails(p) ==
    /\ ppc[p] = "running" /\ faults < MaxFaults
    /\ ppc' = [ppc EXCEPT ![p] = "leaving"]
    /\ faults' = faults + 1
    /\ UNCHANGED <<dbVars, hostVars, brokerVars, handlerVars, indexed, run, pmsg,
                   pworker>>

\* redis_remove_from_run_process in the finally clause.
LeaveRunSet(p) ==
    /\ ppc[p] = "leaving"
    /\ ppc' = [ppc EXCEPT ![p] = "done"]
    /\ \/ run' = [run EXCEPT ![pworker[p]] = @ \ {p}] /\ UNCHANGED faults
       \/ faults < MaxFaults /\ faults' = faults + 1 /\ UNCHANGED run
    /\ UNCHANGED <<dbVars, hostVars, brokerVars, handlerVars, indexed, pmsg, pworker>>

\* Killed, or the RUNNING report, which is outside the try, raises.
Die(p) ==
    /\ ppc[p] \notin {"free", "done", "dead"} /\ faults < MaxFaults
    /\ ppc' = [ppc EXCEPT ![p] = "dead"]
    /\ faults' = faults + 1
    /\ UNCHANGED <<dbVars, hostVars, brokerVars, handlerVars, indexed, run, pmsg, pworker>>

-----------------------------------------------------------------------------
UserStep(t) == Submit(t) \/ TaskStop(t) \/ TaskRetry(t)

CycleStep(h) == \/ EmptyCycle(h) \/ FetchAndPlan(h) \/ VisitQueue(h)
                \/ SendTask(h) \/ UpdateParent(h) \/ PersistTask(h) \/ FinishCycle(h)
HostStep(h) == \/ CycleStep(h) \/ VisitFails(h) \/ SendFails(h) \/ SendIsLost(h)
               \/ AbortCycle(h)

HandlerStep(w) == \/ WorkerLaunch(w) \/ Receive(w) \/ CheckStatus(w)
                  \/ CheckCapacity(w) \/ Spawn(w) \/ Ack(w)
WorkerFault(w) == \/ CheckFails(w) \/ CapacityFails(w) \/ SpawnFails(w)
                  \/ ConnectionLost(w) \/ WorkerCrash(w)
WorkerStep(w) == \/ ServiceRegister(w) \/ HandlerStep(w) \/ WorkerFault(w)
                 \/ SlotsExpire(w) \/ \E t \in Task : StatusExpires(w, t)

TaskStep(p) == \/ ReportRunning(p) \/ EnterRunSet(p) \/ ReportSuccess(p)
               \/ ReportFailure(p) \/ LeaveRunSet(p)
ProcStep(p) == TaskStep(p) \/ ReportFails(p) \/ Die(p)

Next == \/ \E t \in Task : UserStep(t)
        \/ \E h \in Host : HostStep(h)
        \/ \E w \in Worker : WorkerStep(w)
        \/ \E p \in Proc : ProcStep(p)

Spec == Init /\ [][Next]_vars

(* The cron job fires again and again, a consumer takes what is ready, time  *)
(* runs out for cached values, and a task's run() returns.                   *)
Fairness ==
    /\ \A h \in Host : WF_vars(CycleStep(h))
    /\ \A w \in Worker : WF_vars(ServiceRegister(w)) /\ WF_vars(HandlerStep(w))
                         /\ WF_vars(SlotsExpire(w))
    /\ \A p \in Proc : WF_vars(TaskStep(p))

FairSpec == Spec /\ Fairness
=============================================================================
