----------------------- MODULE TaskPipelineProperties -----------------------
(***************************************************************************)
(* What TaskPipeline promises, and what the repository's docs promise of   *)
(* it.  Every property is about all users, hosts, workers and processes    *)
(* together; none is local to one function.                                *)
(***************************************************************************)
EXTENDS TaskPipeline

Live == {"starting", "entering", "running", "leaving"}
ProcsOf(t) == {p \in Proc : pmsg[p].task = t}

\* Something will still bring task t into execution, or did and was killed
\* before it could report.
Carrier(t) ==
    \/ \E m \in ready : m.task = t
    \/ \E w \in Worker : wpc[w] \in {"check", "capacity", "spawn"} /\ msg[w].task = t
    \/ \E p \in ProcsOf(t) : ppc[p] \in {"starting", "dead"}

\* The type of every variable.
TypeOK ==
    /\ status \in TasksMap /\ created \in [Task -> Nat] /\ clock \in Nat
    /\ asks \in [Task -> Nat]
    /\ pc \in [Host -> {"idle", "schedule"}]
    /\ tasksMap \in [Host -> TasksMap] /\ original \in [Host -> TasksMap]
    /\ stamps \in [Host -> [Task -> Nat]]
    /\ queues \in [Host -> SUBSET Queue]
    /\ todo \in [Host -> SUBSET Task] /\ parents \in [Host -> SUBSET Task]
    /\ saving \in [Host -> SUBSET Task]
    /\ idle \in [Host -> Nat] /\ attempt \in [Host -> Nat] /\ slips \in [Host -> Nat]
    /\ sent \in [Host -> [Task -> Nat]]
    /\ ready \subseteq Message /\ redelivered \subseteq Message /\ lost \subseteq Message
    /\ unacked \in [Worker -> BOOLEAN]
    /\ wpc \in [Worker -> {"down", "idle", "check", "capacity", "spawn", "ack"}]
    /\ msg \in [Worker -> Message \cup {NoMsg}]
    /\ statusCache \in [Worker -> TasksMap]
    /\ slotsCache \in [Worker -> Nat \cup {None}]
    /\ indexed \subseteq Worker /\ run \in [Worker -> SUBSET Proc] /\ faults \in Nat
    /\ ppc \in [Proc -> Live \cup {"free", "done", "dead"}]
    /\ pmsg \in [Proc -> Message \cup {NoMsg}]
    /\ pworker \in [Proc -> Worker \cup {None}]

-----------------------------------------------------------------------------
(* At most once, at least once.                                             *)

\* A host publishes a task at most once per submission or retry, plus once
\* per failed publish or aborted cycle of that host: the WAITING that
\* _persist_updates writes keeps the next cycle from sending it again.
DispatchBound ==
    \A h \in Host, t \in Task : sent[h][t] <= asks[t] + slips[h]

\* Two processes are started for one message only if the broker took the
\* message back from a worker it had been delivered to.
NoDuplicateExecution ==
    \A p, q \in Proc :
        p # q /\ ppc[p] # "free" /\ ppc[q] # "free" /\ pmsg[p] = pmsg[q]
        => pmsg[p] \in redelivered

\* A WAITING task that was asked for once is carried by a message, a handler or
\* a process that has not reported yet, whatever crashes, disconnects or fails
\* to publish.  Excused: a task one of whose publications never reached the
\* broker although rabbitmq_send_message reported it sent.
NeverArrived(t) == \E m \in lost : m.task = t
WaitingIsCarried ==
    \A t \in Task : status[t] = "waiting" /\ asks[t] = 1
                    => Carrier(t) \/ NeverArrived(t)

\* data_access.py:280 "The retried task will re-enter the scheduling cycle on
\* the next TaskScheduler run": no task, retried or not, waits for nothing.
RetriedTaskIsCarried ==
    \A t \in Task : status[t] = "waiting" => Carrier(t)

-----------------------------------------------------------------------------
(* Statuses.                                                                *)

\* _persist_updates protects what workers wrote: a task that reported SUCCESS
\* or FAILED keeps that status until it is asked for again.
ReportedIsFinal ==
    [][\A t \in Task : status[t] \in {"success", "failed"} /\ asks'[t] = asks[t]
                       => status'[t] = status[t]]_vars

\* Only a task's own process finishes it: with final tasks outside the fetch,
\* the scheduler's propagation and parent rules never write a status.
OnlyProcessesFinish ==
    [][\A t \in Task :
          status'[t] # status[t] /\ status'[t] \in {"success", "failed"}
          => \E p \in ProcsOf(t) : ppc[p] = "running"
                                   /\ ppc'[p] = "leaving"]_vars

\* A stop is final for a task nothing has looked at yet: whatever a scheduling
\* cycle or the broker still holds for it, nothing looks at it later either,
\* as long as the worker can query its status.
Unseen(t) ==
    /\ ProcsOf(t) = {}
    /\ \A w \in Worker : /\ statusCache[w][t] \in {Missing, "stopped"}
                         /\ wpc[w] \in {"capacity", "spawn"} => msg[w].task # t
StopIsFinal ==
    [][\A t \in Task :
          /\ status[t] = "stopped" /\ Unseen(t) /\ QueueName[t] \notin SystemQueue
          /\ asks'[t] = asks[t] /\ faults' = faults
          => status'[t] = "stopped" /\ Unseen(t)']_vars

\* data_access.py:242 "The worker checks the database status via
\* `_should_execute_task()' before execution, so tasks picked up after being
\* stopped will be rejected at the worker level."
StoppedIsRejected ==
    [][\A w \in Worker : wpc[w] = "check" /\ status[msg[w].task] = "stopped"
                         => wpc'[w] # "capacity"]_vars

-----------------------------------------------------------------------------
(* Order and capacity.                                                      *)

\* task_scheduler.py:281 "priority tasks (subtasks of running parents) being
\* scheduled before normal tasks ... sorted by weight": a cycle without failed
\* sends never passes over a task for one of its queue that ranks lower.
Rank(map, t) ==
    <<SourceId[t] # None /\ map[SourceId[t]] = "running", Weight[t]>>
BestFirst ==
    \A h \in Host : slips[h] = 0 /\ pc[h] = "schedule" =>
        \A t, u \in FindRunnable(original[h]) :
            LET rt == Rank(original[h], t)  ru == Rank(original[h], u) IN
            /\ QueueName[t] = QueueName[u]
            /\ tasksMap[h][t] = "waiting" /\ tasksMap[h][u] # "waiting"
            => /\ ru[1] => rt[1]
               /\ ru[1] = rt[1] => ru[2] <= rt[2]

\* Without redis errors and kills the run set of a worker holds only
\* processes of that worker that are inside execute_task's try: no slot is
\* leaked.
NoSlotLeak ==
    \A w \in Worker : \A p \in run[w] :
        pworker[p] = w /\ ppc[p] \in {"running", "leaving"}

\* _redisdb.py:206 "max process count for a worker"; worker_launcher.py:319
\* "Check if worker has capacity to handle new tasks": a worker never has
\* more live task processes than that.
CapacityRespected ==
    \A w \in Worker :
        Cardinality({p \in Proc : pworker[p] = w /\ ppc[p] \in Live}) <= MaxProcess[w]

-----------------------------------------------------------------------------
(* Refinement.                                                              *)

\* The messages that may still start a process: with the broker, or with a
\* handler that has not decided yet.
Offered ==
    ready \cup {msg[w] : w \in {v \in Worker : wpc[v] \in {"check", "capacity", "spawn"}}}

StageOf == [free |-> "none", starting |-> "new", entering |-> "running",
            running |-> "running", leaving |-> "over", done |-> "over", dead |-> "over"]

Life == INSTANCE TaskLife WITH
    Execution <- Proc, NoOffer <- NoMsg,
    doc <- status, asked <- asks, trouble <- slips, offered <- Offered, gone <- lost,
    again <- redelivered, stage <- [p \in Proc |-> StageOf[ppc[p]]], source <- pmsg

\* Users, hosts, broker, workers and processes together, whatever fails, do
\* nothing a life of tasks as TaskLife promises it does not do.
ImplementsTaskLife == Life!Spec

-----------------------------------------------------------------------------
(* Liveness.                                                                *)

\* Every task without dependencies that is submitted is executed to its end.
SubmittedFinishes ==
    \A t \in Task : DependsOn[t] = {} /\ status[t] = "pending"
                    ~> status[t] \in FINAL_STATUS

\* task_scheduler.py:209 "A task is runnable if: It's in PENDING or RETRYING
\* state, All its dependencies have completed successfully"; README.rst:196 even
\* says "all dependencies must be satisfied or in a final state".
DependentIsScheduled ==
    \A t \in Task : /\ status[t] = "pending" /\ DependsOn[t] # {}
                    /\ \A d \in DependsOn[t] : status[d] = "success"
                    ~> status[t] # "pending"

\* README.rst:195 "Propagate failures - if a parent fails, its children are
\* marked failed"; task_scheduler.py:167 "When a task fails, all tasks that
\* depend on it should also fail".
FailurePropagates ==
    \A t, d \in Task :
        /\ d \in DependsOn[t] /\ status[d] = "failed" /\ status[t] = "pending"
        ~> status[t] = "failed"

\* A behaviour keeps at least one of these two promises.
DependentsAreServed == DependentIsScheduled \/ FailurePropagates
=============================================================================
