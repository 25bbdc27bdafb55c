# AstraFlux in TLA+

AstraFlux is a distributed task framework: users write task documents to
MongoDB, a scheduler on every host publishes the runnable ones to RabbitMQ, and
workers execute them in processes of their own, with their capacity kept in
Redis.  This directory holds TLA+ modules translated from the code under `src/`,
TLC configurations that check them on small instances, and TLAPS proofs about
them.  Line numbers refer to `src/astraflux/`; `PROJECT.json` maps every
definition to its lines and lists the hazards the properties are for.

## 1. The system

| Component | State | Operations | Interacts with | Hard behaviour | What makes it correct |
|---|---|---|---|---|---|
| Task scheduler `controllers/task_scheduler.py` | `tasks_map` of the running cycle, a lock per process | `execute`: fetch, graph, failures, runnable, priorities, dispatch, parents, persist | MongoDB, Redis (slots), RabbitMQ | statuses are read at the start and written at the end of a cycle; every host runs cycles | bounded publications, no lost task, reported statuses kept, best task first |
| Task API `exports/data_access.py` | task documents | `task_submit`, `subtasks_create`, `task_stop`, `task_retry` | MongoDB, service index | upserts reset documents that cycles and workers are busy with | a stop stays a stop, a retry is executed |
| Worker component `boot/worker_launcher.py`, `boot/service_launcher.py` | status cache (5 s), slots cache (1 s), the delivery in hand | register, `handle_incoming_message`, `execute_task` in a process | RabbitMQ, MongoDB, Redis | stale caches, start before ack, unconditional status writes, kills | one process per message, no leaked slot, waiting tasks survive crashes |
| Worker registry `providers/_redisdb.py` | max process, run set, service index, expiry | store, add/remove process, slots, expiry | Redis | errors count as no slots; registering deletes the run set | slots reflect running processes |
| Broker client `providers/_rabbitmq.py` | connections per process and thread | send with retries, consume with prefetch 1 | RabbitMQ | a failed publish may have arrived; without publisher confirms a successful one may not have | bounded duplicates |
| MongoDB client `providers/_mongodb.py` | - | paginated find, conditional update | MongoDB | the limit keeps the newest only; updates return nothing | - |
| Job scheduler `providers/_scheduler.py` | job and lock documents, loop and refresh threads | add, remove, start, stop, loop, acquire, refresh, clean up | MongoDB | stale list of due jobs, locks deleted by key, crash with a lock | exclusive locks, due jobs executed |
| Cron expressions `providers/_scheduler.py` 19-251 | - | next execution time | - | days, weekdays, time zones | the earliest matching time |
| Thread and process pools `providers/_executor.py` | bounded queue (threads) or pipe and shared dictionary (processes), results, counters | submit, worker, retry, start, wait, shutdown | threads, processes | put into a full queue under the lock or by a worker; late records; workers that die in a task or are terminated | every task is tried as promised and ends, waiters see all of them |
| RPC `providers/_rpc.py` | correlation id, reply queue, response, breaker | call with retries, reconnection, listener | RabbitMQ | late answers, repeated execution, exceptions no handler names | an answer belongs to its call, no request is lost, the breaker opens for a reason |
| Id generator `providers/_id_generator.py` | last timestamp, sequence, epoch | `generate_id` | clock | no lock, clock rollback, sequence overflow, bits that overlap | unique ids |
| Fixture container `core/fixture.py` | cached result and finalizers per fixture, keys, manager's lock | get, clear, sessions, shutdown, reconfigure | all components | one cache slot for all threads; clearing without the lock | one open instance per scope, finalized once, nothing given out closed |
| Web back end `web_ui/web_app.py` | sessions | queries, retry, forced termination, max process | MongoDB, Redis, processes | unconditional writes, kills | - |
| Service launcher `providers/_launcher.py` | started pids | start, kill | operating system | kills one match only | - |
| System monitor `controllers/system_monitor.py` | - | renew expiry | Redis | expiry against a long pause | registry does not vanish |

Component builder, configuration, logging, utilities and `exports/` are
reflection, configuration and forwarding without state worth checking.

## 2. Modules

`TaskCycle` holds the computations of one scheduling cycle as operators on a
`tasks_map`: what is fetched (`FetchTasks`: the newest documents up to the
limit, ties decided either way, because `create_time` counts seconds), failure
propagation as the least closed set, the runnable tasks, the dispatch order and
the parent rules.

`TaskPipeline` extends it with all actors.

| State | Code |
|---|---|
| `status`, `created` | task documents in MongoDB; `Missing` is no document |
| `pc`, `tasksMap`, `original`, `stamps`, `queues`, `todo`, `idle`, `attempt`, `parents`, `saving` | locals of `TaskScheduler.execute` on each host; `pc = "idle"` is the free `_execute_lock` |
| `ready`, `unacked` | RabbitMQ: messages ready, the worker's unacknowledged delivery |
| `wpc`, `msg`, `statusCache`, `slotsCache` | `MessageQueueHandler` of each worker |
| `indexed`, `run` | Redis: service index, run set |
| `ppc`, `pmsg`, `pworker` | task processes in `TaskExecutor.execute_task` |
| `asks`, `sent`, `lost`, `slips`, `redelivered`, `faults`, `clock` | history and bounds; `lost` holds publications that were reported sent and never reached the broker |

One action is one access to a shared store together with the local code around
it.  Steps 1 to 5 of a cycle read MongoDB once (`FetchAndPlan`); each queue's
slots, each publish, each parent and each write-back is a step of its own, so
users, workers and other hosts come in between.  Faults are actions: a publish
that fails with or without effect (`SendFails`), one that succeeds although the
message never arrives, because the channel has no publisher confirms (`SendIsLost`,
`_rabbitmq.py` 278-287: the host writes WAITING all the same), an aborted cycle, Redis errors
that the registry turns into 0 slots (`VisitFails`, `CapacityFails`), a failed
query (`CheckFails`), a process that cannot be started, a lost connection, a
crashed worker, failed reports and killed processes.

`TaskPipelineProperties` states the properties, `MCTaskPipeline` the instances.

`TaskLife` is the abstract specification of a task: users ask and stop, hosts offer
a task at most once per ask and per trouble of their own, an offer is used up by one
execution unless the broker took it back and is not discarded before unless the
users may stop the task, and only an execution that began reports an end.  An offer
may be gone before it reaches the broker; the host is not told, so a task becomes
WAITING once it has been offered, not once the offer has arrived.  `TaskLife` is thus
what the code gives and less than README.rst says: no failure spreads to dependents
(:195) and no parent ends with its children (:199).  The run `finding_dependents`
shows the first; the second follows from `OnlyProcessesFinishCorrect`.  The
refinement mapping (`Life` in `TaskPipelineProperties`):

| `TaskLife` | `TaskPipeline` |
|---|---|
| `doc`, `asked`, `sent`, `trouble` | `status`, `asks`, `sent`, `slips` |
| `offered` | messages that are ready, or that a handler has not decided about (`Offered`) |
| `gone`, `again` | `lost`, `redelivered` |
| `stage`, `source` | `ppc` by `StageOf` (a process that is past its report is over, although it has still to leave the run set), `pmsg` |

Cycles, caches, run sets and acknowledgements are `Internal`.

`JobScheduler` models `DistributedScheduler`: on each host the loop with its
list of due jobs read once (`due`, `seen`), the section it executes under a lock
(`pc`, `current`), refresh threads that go on (`refreshing`) or have left their
loop and will delete the lock (`leaving`), and in MongoDB the jobs' next
execution times and the locks with their owner and whether they have expired.  A next execution
time is computed in one step and written in another, by the loop (`PlanJobSchedule`,
`planned`, `UpdateJobSchedule`; 695 and 697) and by users (`PlanScheduledJob`,
`adding`, `AddScheduledJob`; 810 and 831), so a write may come late and move a job
back: `setback` counts, per due time, the writes that put a job back to one that was
executed before.
`JobSchedulerProperties` and `MCJobScheduler` are as above.

### What lives in one process

`ThreadPool` is `RetryableThreadPool`.  A worker thread `w` is at `wpc[w]` with
the task `hand[w]`; each pass of `_worker` is `CheckRunning`, `Get` or
`GetTimesOut`, `StartTask`, `FuncEnds`, `RecordSuccess` or `RecordFailure`,
`PutBack`, `TaskDone`.  A function may also end in what `except Exception` (150) does
not catch, as `SystemExit`: the `finally` calls `task_done` and the thread ends
(`"unwinding"`, `ThreadDies`, `"dead"`), with the task still RUNNING.  A client is at
`cpc[c]` in a call.

| State | Code |
|---|---|
| `taskQueue`, `unfinished` | `queue.Queue` and its count of tasks not done, on which `join()` waits |
| `lock` | `self.lock`, held over several steps only by `submit` (`Submit`, `PutTask`, `CountTask`, `PutTimesOut`): it blocks inside on a full queue |
| `status`, `retries`, `completed`, `total` | `results`, `retry_count`, the counters |
| `isRunning`, `dropped` | `is_running`; what `shutdown` drained |

`ProcessPool` is `RetryableProcessPool`.  Its workers share no lock: the counter
(`doneCount`), the pipe and the dictionary (`record`) are changed in separate
steps, a retry is put back before its record is written (`ReturnToPipe`,
`Save`), a result may not pickle (`SaveFails`), a process may die in the middle of a
task while others live (`Dies`: killed, out of memory, or by `SystemExit`, after which
the `finally` still writes the record), and `shutdown` terminates who
does not end (`Terminate`).  `life`, `counted`, `lost` (the process could not write
the record) and `orphaned` (it died before the task had ended or was counted) are history.

`RetryPool` is the abstract specification of both: per task a stage and the
number of failed attempts.  `ThreadPoolProperties` and `ProcessPoolProperties`
instantiate it with a refinement mapping (the records of the thread pool; the
latest status a process gave the task, because the shared record lags behind).

`Fixtures` is `FixtureManager` with fixtures of the three scopes.  A bound
function wants a set of fixtures (`want`, `got`); a miss takes the lock
(`holder`) and a stack of calls of `get_fixture`, each with the cache key read at
its start, the dependencies `left`, and the instance that is already open but not
yet cached.  `reconfigure` clears fixture by fixture without the lock
(`ClearOne`), sessions change keys, `shutdown` closes all.  All fixtures are
generators: others have no finalizer and fewer hazards.  Those in `Bare` yield None,
which `get_fixture` takes for a miss (187): a call executes them again, and their
finalizers pile up.  An instance keeps what it was built from (`uses`).

`MCInProcess` takes the three side by side.  They share no state, so a behaviour
uses one of them (`used`) instead of interleaving all.

### Between processes

`Rpc` is `RpcCaller`, the listener of a service and the broker between them.

| State | Code |
|---|---|
| `pc`, `corrId`, `attempt`, `response` | `call` and `_execute_call`; correlation ids are numbered |
| `channel`, `epoch` | the connection and its exclusive reply queue; `lost` is a loss that the caller has not met yet |
| `breaker`, `failures`, `cooled` | `CircuitBreaker`; `cooled` is "recovery_timeout has passed" |
| `declared`, `requests`, `replies` | RabbitMQ |
| `lpc`, `handling`, `result` | the listener's callback: execute, ack, reply |

What pika does is external: a passive declaration of a missing queue closes the
channel with 404, a call on a closed channel raises `ChannelWrongStateError`
(which no handler of `call` names, `CheckOnClosed`), an exclusive queue goes with
its connection, unacknowledged messages return to the head of their queue.

`Snowflake` is `generate_id`, statement by statement, with the `or` of shifted
parts by the bits that both sides have (`BitOr`); widths are given as `1 << bits`.  `MCRpc` takes calls, ids of one process and ids of two
processes side by side.

Abstractions.  A message is a record that tells publications apart.  Queues of
RabbitMQ deliver in any order.  `_schedule` visits queues in any order.  A cached
value expires at any time.  A new process gets any unused id.  MongoDB, Redis and
RabbitMQ do single operations atomically.  In `JobScheduler` time is only the due
times: a lock that a live host looks after expires only if that host stalls,
which counts as a fault; cron expressions are "a due time after now"; a
scheduler is started again only after its loop has ended, and a removal of a job
deletes document and locks in one step.

## 3. Runs

| Run | What it checks | What it shows |
|---|---|---|
| `pipeline_faults` | `TypeOK`, `DispatchBound`, `NoDuplicateExecution`, `WaitingIsCarried`, `StopIsFinal`, `ImplementsTaskLife` | with one fault anywhere: a host publishes a task once per request and fault, only redelivery by the broker starts two processes for one message, a WAITING task that was asked for once always has a message, handler or unreported process unless a publication of it was lost behind a successful publish, a stop that nothing has looked at is final; each step is one of `TaskLife` |
| `pipeline_family` | `BestFirst`, `NoSlotLeak`, `ReportedIsFinal` | children of running parents go before heavier tasks, slots are given back on every path, the scheduler does not overwrite a final status |
| `pipeline_liveness` | `SubmittedFinishes` | every task without dependencies finishes although its message is requeued and caches are stale |
| `jobs_locked` | `TypeOK`, `LockIsExclusive`, `LockHasKeeper`, `OncePerHost`, `DueJobIsExecuted` | crashes and restarts do not break a lock's exclusion, only deletions by key after a failure, a failed refresh, a removal or a stall do; no lock is left behind; a host repeats a due time only after a fault of its own or a late write of somebody else; a due job is executed in the end without help of the TTL index |
| `in_process` | thread pool: `OnePlace`, `CompletedWithinTotal`, `WaitSeesAll`, `ImplementsRetryPool`, `AcceptedTaskEnds`, `WaiterIsReleased`; process pool: `EndIsRecorded`, `PollSeesAll`, `ImplementsRetries`, `SubmittedIsCounted`; fixtures: `ScopesHold`, `FinalizedOnce`, `ClosedAtShutdown`, `CacheIsUsable`; `InProcessTypeOK` | a task is in one place, is tried at most `max_retries + 1` times and its end stays; waiting returns only when everything accepted has ended, was dropped or was left RUNNING by a thread that died; a process that dies takes its own task along and no other; shared fixtures that yield a value have one open instance although slots are cleared and reused by other threads |
| `rpc` | `AnswerIsForCall`, `ExecutionBound`, `RequestIsCarried`, `OpenForReason`, `BrokenForReason`, `CallEnds`, `RequestsAreExecuted`; `UniqueUnlessExcused`, `IdsIncrease`; `RemoteTypeOK` | late answers are never taken for the answer of another call, a request runs once per publication and crash and is never lost, the breaker needs N failures since a success, a caller is left broken for three reasons only; ids are unique and increase but in the named cases |
| `finding_dependents` | `DependentsAreServed` violated | in one behaviour a dependent stays pending for ever first although its dependency has failed (README.rst:195 "Propagate failures", `task_scheduler.py` 167) and then, after a retry, although it has succeeded (`task_scheduler.py` 209, README.rst:196): finished tasks are never fetched |
| `finding_retry` | `RetriedTaskIsCarried` violated | a retry between a cycle's fetch and write-back becomes WAITING with no message |
| `finding_stop` | `StoppedIsRejected` violated | the status cache lets a stopped task through |
| `finding_capacity` | `CapacityRespected` violated | a worker of one slot runs two processes |
| `finding_duplicate` | `OncePerDueTime` violated | two hosts execute one due time in turn, from stale lists |
| `finding_ids` | `UniqueIds` violated | an address octet beyond its bits reaches into the timestamp: one thread gets an id twice |

Where the code does not give the plain property, the property names the state
that excuses it, and the run reaches that state:

| Name | State |
|---|---|
| `NeverArrived` in `WaitingIsCarried`, `lost` in `NoMessageLost` | a publication was reported sent and never reached the broker (`_rabbitmq.py` 278-287; no publisher confirms) |
| `setback` in `OncePerHost` | a next execution time computed earlier was written over a later one (`_scheduler.py` 695 and 697, 810 and 831), so an executed due time is due again |
| `Abandoned` | the function ended its thread (`_executor.py` 150): its task stays RUNNING, is never counted as ended, and `join()` returns all the same |
| `Deserted` | functions have ended every thread: what is left in the queue is never taken, and `start` creates no thread while `is_running` holds |
| `Jammed` | all live workers of a thread pool wait to put a retry into the full queue (`_executor.py` 164) |
| `Stranded` | a retry was put back after `shutdown` had drained the queue: `join()` waits for it for ever (214-226) |
| `cpc` or `upc` = `"count"` | a task is in the queue and not counted yet (103, 438) |
| `record = "retrying"` in `EndIsRecorded` | the record of an earlier attempt overwrites the end (333, 343) |
| `orphaned` in `SubmittedIsCounted` | the process died with the task (312-344), uncounted: `wait_completion` has no end |
| all of `crew` ended in `SubmittedIsCounted` | each process died, in a task or of a result that cannot be pickled |
| `Bare` in `OneInstance` | a fixture that yields None is never taken from the cache (`fixture.py` 187), so a SINGLETON has several open instances, against README.rst:168 |
| another scope in `DependenciesOpen` | `start_global_session` and `clear_thread_fixtures` close the instances of one scope and keep what other scopes built from them (`fixture.py` 226-230): a THREAD fixture stays cached with a closed GLOBAL dependency |
| `overlap`, reconfiguring in `DependenciesOpen` | fixtures are obtained while `reconfigure` clears them one by one without the lock |
| `spoiled` in `CachedIsOpen` | `reconfigure` finalized an instance between `add_finalizer` and `set_cached_result`; it is cached and given out closed |
| `overlap` in `DependenciesOpen` | fixtures were obtained while `reconfigure` cleared one after the other |
| `excused` in `Comparable` | calls of one generator overlapped, or the clock was set back during the sleep |
| two eras | two large rollbacks both restart the epoch at the time they meet, so the ids after the second repeat those after the first |
| `cause` in `BrokenForReason` | the queue was missing, or the connection was lost in the last attempt or could not be renewed: every later call of this caller fails |

Also met while modelling: failure propagation and the parent rules
(`task_scheduler.py` 163-203, 351-383; README.rst "Propagate failures", "Update
parent statuses") never take effect, because the fetched tasks are never final.
`OnlyProcessesFinish` says so and is proved, `ImplementsTaskLife` is checked: only an
execution reports an end.  `finding_dependents` shows it for dependents against
README.rst:195, `DependentsNeverRun` proves the consequence for them,
and `PropagationCorrect` that the propagation itself would be right.  That parents do
not end with their children (README.rst:199) follows from `OnlyProcessesFinishCorrect`
and has no run.  README.rst:196 calls a task runnable when "all dependencies must be
satisfied or in a final state", `task_scheduler.py` 209 only when they have completed
successfully; the code does neither, since no dependent is ever published.  `task_stop` and `task_retry` return
False always, because the MongoDB client returns nothing.

### Bounds

The pipeline runs use one host, one worker with one slot, and two or three
processes: one slot is where capacity, requeueing and priorities matter, and the
hazards of a cycle come from users and workers between its steps.  Cycles of two
hosts share no state but the stores, and every property about hosts is a
property of each; instances with two hosts are too large for TLC, and the proofs
of section 5 hold for any number.  `pipeline_faults` has one task asked for
twice, so that messages and cycles of an earlier request meet a later one, and
one fault, which can be of every kind.  `pipeline_family` has a parent, a child
and a heavier competitor with a fetch limit below their number.
`pipeline_liveness` has three tasks for one slot and a limit of two.  `MaxClock = 1`
makes all `create_time`s equal, so every order of ties is tried; the liveness run
uses two seconds, because with distinct seconds the newest come first.
`finding_dependents` has a task that may fail, be retried and succeed, and one that
depends on it.
`jobs_locked` has two hosts, two due times and one fault, stop or removal by the
first host, which meets the second host's section at any point.  `j1` is added once
during the behaviour; `j2` is `Stored`, left in MongoDB by an earlier run, and
unrestricted, so a late write of one host meets executions of the other.  Two
calls of `add_scheduled_job` do not overlap.

`in_process`.  Thread pool: a queue of one place and two tasks with one retry
each is the least in which a worker's put blocks, submits wait with the lock and
retries meet a shutdown.  A start adds one or two threads: with two, a thread
outlives another one that its function ended; with one, a second start after a
shutdown adds another thread, and both go on.  Process pool: a crew of two
processes, so that one outlives the death of the other, and two tasks
with one retry.  Fixtures: two threads and a chain of a thread-scoped fixture, a
global one and a global one that yields None, four instances, one
session or reconfiguration and a shutdown: enough that slots are reused by
another thread, renewed and cleared while being filled, and that a dependency is
closed under a fixture of another scope.  Every exemption above is reached by the run
of its property: without it the run finds a violation.

`rpc`.  One caller, because callers share only the request queue: three calls of
two attempts give late answers of earlier attempts and calls, a breaker that
opens, cools and closes; one fault hits any step.  Ids: two bits of address, one
of sequence, three milliseconds and two settings back; every overflow happens,
the sleep after a small rollback and the reset after a large one too.

### Fairness

`Fairness` of the pipeline: cycles go on (the cron fires every 10 seconds and a
cycle's calls return), a worker handles what is ready (the consumer loops for
ever), the slots cache expires (one second), services register, and a task's
`run()` returns.  No fairness for users, faults or the expiry of the status
cache.  `JobScheduler`: loops and threads go on, a stopped or crashed scheduler
is started again, and an orphaned lock expires.  The TTL index gets none.

`ThreadFairness`: worker threads are scheduled, task functions end in one of the three ways, and a
call that can return does (`get` and `put` have timeouts; `lock` is a blocking
lock, which is why the guard of a step says that it is free).  `ProcessFairness`:
the same for processes; `PollTimesOut` gets none, since `wait_completion` has no
timeout by default, and `Dies` none, since nothing makes a process die.  `RpcFairness`: a caller goes on and times out, the service
is started again after a crash and works.  No fairness for connections that are
lost, late replies or the recovery timeout; fixtures have no liveness property.

## 4. Mutants

Every property of a passing run has a seeded fault in the model that TLC must
detect: the definitions marked `seeded fault`, each a change that could be made
in the code (a dropped `finally`, a write without condition, a nack for an ack,
an expiry that is not compared).

## 5. Proofs

Every safety property of the passing runs is proved, for every value of the
constants that satisfies the named assumptions of the modules: any hosts,
workers, tasks, processes, threads, jobs, callers, fixtures, addresses, and any
bounds, so also for the numbers that a run cannot take.  Two finiteness
assumptions are made, of `Worker` in the pipeline and of `Thread` in the thread
pool, because capacities and unfinished tasks are counted with `Cardinality`.
`NoDependencyCycle` says that fixtures have no cycle of dependencies, which would
end every `get_fixture` in a `RecursionError`.  `SnowflakeAssumption` says that
an address gives two octets, that machine, datacenter and sequence have at most
24 bits together, and that no bit of a shifted octet has a place above 24: so it
is with the 5, 5 and 12 bits of the code.

Two theorems have a hypothesis, and each is about what the property needs, not
about what the proof could not do:

- `NoSlotLeakCorrect`: no fault has happened so far.  A killed worker or a failed
  Redis call does leave a slot behind.
- `ReportedIsFinalCorrect`: one host, no faults, and each task asked for once (the
  situation of the run).  Otherwise a second publication may overwrite a report;
  `ReportedIsKept` says for any number of hosts, faults and requests that only
  that, a second message or a redelivery, does.

### Pipeline

| Theorem | Argument |
|---|---|
| `TypeOKCorrect` | `TypeInv` adds to `TypeOK` what types need: an idle host's locals are empty, a busy handler has a message, a started process has one and a worker |
| `OnlyProcessesFinishCorrect` | `CycleInv`: a cycle holds only pending, running or waiting tasks and changes only pending to waiting.  So the failed set is empty (`NothingPropagates`), parents keep their status (`ParentsStay`), and the write-back writes WAITING only |
| `DispatchBoundCorrect` | `DispatchInv`: a host has published a task at most `asks + slips` times, and one time less while it may still publish it.  The WAITING a host is still to write (`Claim`, `Awaiting`) stands for the request it has used up; without it the bound is not inductive |
| `BestFirstCorrect` | `OrderInv`: the list of a visited queue holds every runnable task of it that is not published, and what is published outranks what is not.  `RankKept`: the map a cycle has changed ranks like the one it fetched, because priority asks for a RUNNING parent and a cycle only turns PENDING into WAITING |
| `NoDuplicateExecutionCorrect` | `FreshInv`: sequence numbers of messages do not exceed `sent`, so a publish is new; `OnceInv`: a message is ready, in one handler or with one process, unless it was redelivered |
| `StopIsFinalCorrect` | with `HandlerInv` and `MessageInv` no process writes the status of a task that has none, cycles write over pending only, and the worker's check sees the stop |
| `NoSlotLeakCorrect` | inductive by itself as long as nothing has failed (`SlotInv`; `FaultInv` says what that excludes): processes enter in `execute_task`'s `try`, leave in its `finally`, and a worker that registers deletes the set as a whole |
| `WaitingIsCarriedCorrect` | `EarlyInv`: a task asked for once that is still PENDING or WAITING has no process that reported, no handler takes it for stopped, and if it is WAITING or was published by any host it is `Solid`: the broker has a message of it, or will get it back, or a process is about to report; or one of its publications was lost (`NeverArrived`).  With `SentInv` (a map's WAITING was published by that host) and `AskedInv` |
| `PropagationCorrect` | `FailedSetClosed`, `FailedSetLeast`: the failed set is closed under dependents and parents, and in every closed set that holds the failed tasks; induction over the search is not needed, because the set is defined as the least one |
| `DependentsNeverRun` | `IndependentInv` says that no message of a dependent exists, `NoDependentStarts` that no process then has one, `DependentInv` that its document is left with what users wrote |
| `NoMessageLost` | `KeptInv`: a published message is ready, unacknowledged in a handler, or has started a process, or its task may be stopped, or it is `lost`.  It needs `LostInv` (a handler without an unacknowledged delivery has one the broker took back) and `StopInv` (only such tasks are cached as stopped, so that only their messages are dropped) |
| `ImplementsTaskLifeCorrect` | `LifeInv`, the conjunction of the three with the invariant of `WaitingIsCarriedCorrect`; one lemma for the steps of users, hosts, workers and processes (`LifeUser`, `LifeHost`, `LifeWorker`, `LifeProc`).  `KeptInv` is what lets `Discard` and `TakeBack` ask that the message was used, `DispatchInv` what bounds `Offer`, `SentInv` that only what was published is accepted, `GoneInv` that what never arrived is with nobody |
| `ExecutionsBounded` | processes of a host's messages for one task are counted by the sequence numbers of these, which are different (`OnceInv`) and at most `sent` |
| `ReportedIsKept`, `ReportedIsFinalCorrect` | `EndInv`: a reported task has a process that is past its report; `OneProcess`: while one message was published and not redelivered there is no other process, so nobody is left to write.  The second follows by `DispatchBound` |

The first four and `PropagationCorrect` are in `TaskPipelineProofs`, the others in
`TaskDeliveryProofs`.

### Job scheduler (`JobSchedulerProofs`)

| Theorem | Argument |
|---|---|
| `TypeOKCorrect` | `SectionInv`: a host inside a section has a current job, which it has taken off its list |
| `LockIsExclusiveCorrect` | `KeeperInv`: a lock that nothing has touched is held by the one host that looks after it; that host has one refresh thread at most, running or about to delete the lock, and none before the section has started it.  A refresh thread that outlives its section is what makes the plain property not inductive |
| `LockHasKeeperCorrect` | a fresh lock is kept by its owner, or its owner met a fault, or it was touched (`OwnedAt`); a restart therefore leaves no lock behind that nobody excuses |
| `OncePerHostCorrect` | `OnceInv`: a host that has executed a due time as often as its faults allow is `Spent` for it: the list it holds was read later, or the next execution time has moved on, or this host is about to compute or write a later one.  A late write that undoes this is counted in `setback`, and pays for one more execution |

### Pools (`ThreadPoolProofs`, `ProcessPoolProofs`)

| Theorem | Argument |
|---|---|
| `OnePlaceCorrect` | `ThreadPlaceInv`: queue without repetition, hands apart from it and from each other, and everything there was given to the pool |
| `CompletedWithinTotalCorrect` | `CountInv`: `completed` is the number of ended tasks; an ended task was taken from the queue, and a task that `put` accepted without being counted yet is the last one (`Given`) |
| `WaitSeesAllCorrect` | `CountInv`: `unfinished` is the length of the queue plus the workers that hold a task, so zero means both are empty; `KeptInv`: a given task has ended, was dropped, or is in one of the two, or with a thread that its function ended (`Abandoned`), whose `task_done` has been called |
| `ImplementsRetryPoolCorrect` | each step maps to a step of `RetryPool` on the worker's task, or to a stutter; `StatusInv` ties the status of a task to the place it is in |
| `EndIsRecordedCorrect` | `RecordInv`: the end of a task is in its record, or its process has still to write it, or a report of an earlier attempt hides it, which takes an attempt before the last |
| `PollSeesAllCorrect` | `ProcessCountInv`: the counter counts each ended or lost task once, and what is in the pipe or with a process is not counted; so equal counters leave no task out but one that is being submitted; what a process took along is not counted, so its death ends no wait early |
| `ImplementsRetriesCorrect` | `LifeInv`: what a process holds or the pipe carries agrees with the latest status a process gave the task, although its record lags behind |

### Fixtures (`FixturesProofs`)

| Theorem | Argument |
|---|---|
| `FinalizedOnceCorrect`, `ClosedAtShutdownCorrect` | `OpenInv`: what is open is exactly what the lists of finalizers hold.  So `clear_cache` closes open instances only (`ClearCloses`), and all of them after `shutdown`, instances that lost their slot included |
| `ScopesHoldCorrect` | `PlaceInv`: an open shared instance of a fixture that yields a value is in its slot or on top of the stack.  `StackInv`: a shared fixture that is being built has an empty slot and the current key; because ranks decrease along the stack no fixture is in it twice, so filling a slot disturbs no other call.  `CacheInv`: the key of a slot is its instance's, so a hit in a thread-scoped slot is the thread's own |
| `CacheIsUsableCorrect` | `SlotInv`: a cached instance is open or spoiled (`CachedIsOpenCorrect`).  `UsableInv`: without overlap `reconfigure` runs while nobody builds and what it has cleared stays empty (`QuietInv`), and outside of it what cached instances and calls in the making use is open (`BuiltInv`): a part is open or `Apart`, of another scope that is not SINGLETON (`Usable`), and sessions clear a fixture together with all of its scope.  No hypothesis on the dependencies |

### RPC and ids (`RpcProofs`, `SnowflakeProofs`)

| Theorem | Argument |
|---|---|
| `AnswerIsForCallCorrect` | `AnswerInv`: whatever lies in a reply queue, in `response` or in an outcome the service has said to that call; the correlation id is compared before the response is set |
| `RequestIsCarriedCorrect` | `QueueInv`: a request is in the queue or with the listener and not twice; `CarriedInv`: what was not executed is in one of the two, through crashes, returns to the queue and reconnections |
| `ExecutionBoundCorrect` | `RunInv`: the runs of a call and its requests still waiting are together at most its publications and the crashes; `PastInv` makes every publication new |
| `OpenForReasonCorrect` | `BreakerInv`: the failures counted are at most those since the last success, and the breaker has left "closed" only after the threshold |
| `BrokenForReasonCorrect` | `ChannelInv`: a closed channel has a named cause, or the call is about to open it again |
| `UniqueUnlessExcusedCorrect` | `NoCommonBit`: a number shifted by a power of two has no bit in common with a number below it, so the `or`s of `Id` are sums (`OrIsSum`) and an id is a number with the parts for digits (`IdIsNumber`, `NumberIsUnique`).  `IssuedInv`: every id of the era comes before the moment that its generator is at (`Passed`), which the spin at the end of a millisecond, the sleep and the reset all keep; ids from before the first reset are of longer times than any after |

`IdsIncreaseCorrect` follows from the same `IssuedInv`: what a generator has given out
in an era comes before the moment of the next id, and `NumberIncreases` says that
ids are in the order of their moments.  The run `rpc` checks the same `IdsIncrease`.

### Compositions

`MCInProcess` and `MCRpc` put parts that share no state side by side, and the runs
check the parts there.  `InProcessComposition` (in `ProcessPoolProofs`) and
`RemoteComposition` (in `SnowflakeProofs`) prove that such a behaviour is one of
each part's specification, so every theorem above holds of the composition too.
The types of the parts (`ThreadTypeOKCorrect`, `ProcessTypeOKCorrect`,
`FixtureTypeCorrect`, `RpcTypeOKCorrect`, `SnowflakeTypeCorrect`) therefore give
`InProcessTypeOKCorrect` and `RemoteTypeOKCorrect`.

The inductive invariants were checked by TLC on the instances of the runs before
they were proved, except `IssuedInv`, which quantifies over all integers.

Only model-checked: liveness under fairness, which is out of the prover's reach
(`SubmittedFinishes`, `DueJobIsExecuted`, `AcceptedTaskEnds`, `WaiterIsReleased`,
`SubmittedIsCounted`, `CallEnds`, `RequestsAreExecuted`).

## 6. Plan

1. Done: `TaskCycle`, `TaskPipeline`, `JobScheduler`, `RetryPool`, `ThreadPool`,
   `ProcessPool`, `Fixtures`, `Rpc`, `Snowflake`, and proofs of all safety properties.
2. Done: `TaskLife`, the abstract life of a task that `TaskPipeline` implements, and
   the compositions of the parts.
3. Web back end's retry and termination as user actions of `TaskPipeline`; changes
   of max process and expiry in the registry; cron expressions against the least
   matching time.

## 7. Not modelled

- Web UI back end (`web_ui/`): its two writes on tasks are planned; the rest is queries,
  sessions and views.
- Service launcher and system monitor: operating system calls and one periodic
  write to Redis each.
- Component builder, configuration, logging, reflection, `exports/` that forward.
- `FixtureManager`: registration, which happens while modules are imported;
  fixtures that are not generators (one that returns None is executed again as well,
  but leaves nothing open); sessions and clearings called from within a fixture
  function, which the re-entrant lock would allow.  `clear_thread_fixtures` (232) closes the
  instances of every thread: it is modelled, but no property forbids it, since
  the code gives threads no lease on what they obtained.
- `SnowflakeGenerator`: the race of two threads that construct the singleton.
- `RetryableProcessPool`: `shutdown` closes the manager although processes of an
  earlier start may live (523).  They are stopped in the model at that point, and
  no property is about what their next access raises.
- Pools: a process that is killed while it holds a lock of the library's queue, and
  a death outside a task; both leave the queue in a state that is not the pool's.
- `RpcCaller`: payloads and their serialisation.
- Worker registry: changes of the maximum of processes (`_redisdb.py` 294: `INCRBY`,
  then a reset without a transaction); the maximum is constant in `TaskPipeline`.
- MongoDB client: `find_one_and_update` (80) returns nothing, so its callers report
  `False`; the writes themselves are in `TaskPipeline`.
- Cron expressions and time zones: a next execution time is a due time after now.
