------------------------------ MODULE TaskCycle ------------------------------
(***************************************************************************)
(* One scheduling cycle of controllers/task_scheduler.py, as operators on  *)
(* the `tasks_map' the cycle works on: which tasks it fetches, how it      *)
(* propagates failures, which tasks it finds runnable, in which order it   *)
(* dispatches them and which status it gives a parent.  TaskPipeline       *)
(* interleaves these computations with workers and users.                  *)
(***************************************************************************)
EXTENDS Naturals, FiniteSets

CONSTANTS
    Task,        \* identifiers of task documents
    Queue,       \* names of worker queues (= service names)
    None,        \* the empty source_id; no worker, no cached value
    DependsOn,   \* depends_on of each task
    SourceId,    \* source_id of each task: its parent, or None
    QueueName,   \* queue_name of each task
    Weight,      \* weight of each task
    FetchLimit   \* SCHEDULER_TASK_FETCH_LIMIT

ASSUME TaskAssumption ==
    /\ None \notin Task
    /\ DependsOn \in [Task -> SUBSET Task]
    /\ SourceId \in [Task -> Task \cup {None}]
    /\ QueueName \in [Task -> Queue]
    /\ Weight \in [Task -> Nat]
    /\ FetchLimit \in Nat

\* The values of config/constants.py STATUS.
STATUS == {"pending", "waiting", "running", "retrying",
           "success", "failed", "stopped"}
FINAL_STATUS == {"success", "failed", "stopped"}

\* tasks_map.get(id) is None; also a task without a document.
Missing == "missing"

\* A tasks_map, total on Task: Missing marks the ids it does not hold.
TasksMap == [Task -> STATUS \cup {Missing}]
InMap(map) == {t \in Task : map[t] # Missing}

-----------------------------------------------------------------------------
(* Step 1: the FetchLimit most recently created documents among those whose *)
(* status is one of four; `created' gives the create_time of each document. *)
Active(db) == {t \in Task : db[t] \in {"pending", "running", "retrying", "waiting"}}

FetchTasks(db, created) ==
    {F \in SUBSET Active(db) :
        /\ Cardinality(F) <= FetchLimit
        /\ F = Active(db) \/ Cardinality(F) = FetchLimit
        /\ \A t \in F, u \in Active(db) \ F : created[t] >= created[u]}

\* Step 2: the map of the fetched documents.
BuildMap(db, F) == [t \in Task |-> IF t \in F THEN db[t] ELSE Missing]
Children(map, p) == {t \in InMap(map) : SourceId[t] = p}
Parents(map) == {p \in Task : Children(map, p) # {}}

-----------------------------------------------------------------------------
(* Step 3: the breadth-first search from the failed tasks reaches, through  *)
(* tasks that are not final, exactly the least set closed under "depends on *)
(* a member" and "is the parent of a member".                               *)
FailureClosed(map, S) ==
    \A f \in S, t \in InMap(map) :
        /\ f \in DependsOn[t] \/ SourceId[f] = t
        /\ map[t] \notin FINAL_STATUS
        => t \in S

FailedSet(map) ==
    {t \in InMap(map) : \A S \in SUBSET InMap(map) :
        /\ {f \in InMap(map) : map[f] = "failed"} \subseteq S
        /\ FailureClosed(map, S)
        => t \in S}

PropagateFailures(map) ==
    [t \in Task |-> IF t \in FailedSet(map) THEN "failed" ELSE map[t]]

-----------------------------------------------------------------------------
(* Steps 4 and 5.  A dependency that was not fetched is not satisfied.      *)
FindRunnable(map) ==
    {t \in Task : /\ map[t] \in {"pending", "retrying"}
                  /\ \A d \in DependsOn[t] : map[d] = "success"}

PrioritySubtasks(map) ==
    {t \in InMap(map) : SourceId[t] # None /\ map[SourceId[t]] = "running"}

(* Step 6, the order within a queue: priority tasks before normal ones,     *)
(* then by weight, highest first, then (the sort is stable) newest first.   *)
OutranksByWeight(map, created, t, u) == \* seeded fault: no priority subtasks
    \/ Weight[t] > Weight[u]
    \/ Weight[t] = Weight[u] /\ created[t] > created[u]
Outranks(map, created, t, u) ==
    LET prio == PrioritySubtasks(map) IN
    \/ t \in prio /\ u \notin prio
    \/ /\ t \in prio <=> u \in prio
       /\ \/ Weight[t] > Weight[u]
          \/ Weight[t] = Weight[u] /\ created[t] > created[u]

-----------------------------------------------------------------------------
(* Step 7, one iteration of the loop over the parents.                      *)
ParentStatus(map, p) ==
    LET statuses == {map[c] : c \in Children(map, p)} IN
    IF map[p] \in FINAL_STATUS \cup {Missing} THEN map[p]
    ELSE IF statuses = {"success"} THEN "success"
    ELSE IF "failed" \in statuses THEN "failed"
    ELSE map[p]

\* The loop visits the parents in the order their newest child was fetched.
VisitedBefore(map, created, p, q) ==
    \E c \in Children(map, p) : \A d \in Children(map, q) : created[c] > created[d]
=============================================================================
