-------------------------- MODULE TaskPipelineProofs --------------------------
(***************************************************************************)
(* Theorems about TaskPipeline, for every number of tasks, hosts, workers  *)
(* and processes and for every bound: its types, and what a scheduling     *)
(* cycle can do.  A cycle only ever turns PENDING into WAITING, publishes  *)
(* a task at most once per submission or retry, never decides that a task  *)
(* succeeded or failed, publishes no task that has a dependency, and takes *)
(* the tasks of a queue best ranked first.  What failure propagation does  *)
(* to any map is proved as well.                                           *)
(***************************************************************************)
EXTENDS TaskPipelineProperties, FiniteSetTheorems, TLAPS

(* The slots a worker or a queue can offer are finitely many.               *)
LEMMA AvailableSlotsFinite ==
    ASSUME NEW w \in Worker
    PROVE  IsFiniteSet(AvailableSlots(w)) /\ Cardinality(AvailableSlots(w)) \in Nat
<1>1. MaxProcess[w] \in Nat /\ 1 \in Int
  BY PipelineAssumption
<1>2. IsFiniteSet(1..MaxProcess[w])
  BY <1>1, FS_Interval
<1>3. AvailableSlots(w) \in SUBSET (1..MaxProcess[w])
  BY DEF AvailableSlots
<1> QED
  BY <1>2, <1>3, FS_Subset, FS_CardinalityType

LEMMA IdleWorkersType ==
    ASSUME indexed \subseteq Worker, NEW q
    PROVE  IdleWorkers(q) \in Nat
<1> DEFINE W == {v \in indexed : Serves[v] = q}
           S == {{w} \X AvailableSlots(w) : w \in W}
           f == [w \in W |-> {w} \X AvailableSlots(w)]
<1>1. IsFiniteSet(W)
  BY PipelineAssumption, FS_Subset
<1>2. f \in Surjection(W, S)
  BY DEF Surjection
<1>3. IsFiniteSet(S)
  <2> HIDE DEF f, S
  <2> QED BY <1>1, <1>2, FS_Surjection DEF ExistsSurjection
<1>4. ASSUME NEW T \in S PROVE IsFiniteSet(T)
  <2>1. PICK w \in W : T = {w} \X AvailableSlots(w)
    BY <1>4
  <2> QED
    BY <2>1, AvailableSlotsFinite, FS_Singleton, FS_Product
<1> QED
  <2> HIDE DEF S
  <2>1. IsFiniteSet(UNION S)
    BY <1>3, <1>4, FS_UNION
  <2>2. IdleWorkers(q) = Cardinality(UNION S)
    BY DEF IdleWorkers, S
  <2> QED
    BY <2>1, <2>2, FS_CardinalityType
-----------------------------------------------------------------------------
(* The type invariant.  It is inductive with two facts: the scheduler has a *)
(* slot for every task it still tries, and an unacked delivery is a message.*)
TypeInv ==
    /\ TypeOK
    /\ \A h \in Host : todo[h] # {} => idle[h] > 0
    /\ \A w \in Worker : unacked[w] => msg[w] \in Message

USE DEF dbVars, cycleVars, hostVars, brokerVars, handlerVars, procVars

LEMMA TypeInit == Init => TypeInv
BY PipelineAssumption DEF Init, TypeInv, TypeOK, EmptyMap, TasksMap, NoMsg

LEMMA TypeUser ==
    ASSUME TypeInv, NEW t \in Task, UserStep(t)
    PROVE  TypeInv'
<1>1. CASE Submit(t)
  BY <1>1 DEF Submit, TypeInv, TypeOK, TasksMap, STATUS
<1>2. CASE TaskStop(t)
  BY <1>2 DEF TaskStop, TypeInv, TypeOK, TasksMap, STATUS
<1>3. CASE TaskRetry(t)
  BY <1>3 DEF TaskRetry, TypeInv, TypeOK, TasksMap, STATUS
<1> QED
  BY <1>1, <1>2, <1>3 DEF UserStep

\* What publishing and moving on do to the types.
LEMMA TypePublish ==
    ASSUME TypeOK, NEW h \in Host, NEW t \in Task, Publish(h, t)
    PROVE  ready' \subseteq Message /\ sent' \in [Host -> [Task -> Nat]]
BY DEF TypeOK, Publish, Publication, Message

LEMMA TypeNextTask ==
    ASSUME TypeInv, NEW h \in Host, NEW t \in todo[h], NextTask(h, t)
    PROVE  /\ idle' \in [Host -> Nat] /\ attempt' \in [Host -> Nat]
           /\ todo' \in [Host -> SUBSET Task]
           /\ \A g \in Host : todo'[g] # {} => idle'[g] > 0
<1>1. /\ idle \in [Host -> Nat] /\ attempt \in [Host -> Nat]
      /\ todo \in [Host -> SUBSET Task]
      /\ \A g \in Host : todo[g] # {} => idle[g] > 0
  BY DEF TypeInv, TypeOK
<1>2. idle[h] \in Nat \ {0} /\ idle[h] - 1 \in Nat
  BY <1>1
<1>3. /\ idle' = [idle EXCEPT ![h] = idle[h] - 1]
      /\ todo' = [todo EXCEPT ![h] = IF idle[h] = 1 THEN {} ELSE todo[h] \ {t}]
      /\ attempt' = [attempt EXCEPT ![h] = 0]
  BY DEF NextTask
<1>4. idle' \in [Host -> Nat] /\ attempt' \in [Host -> Nat]
  BY <1>1, <1>2, <1>3
<1>5. todo' \in [Host -> SUBSET Task]
  BY <1>1, <1>3
<1>6. \A g \in Host : todo'[g] # {} => idle'[g] > 0
  BY <1>1, <1>2, <1>3
<1> QED
  BY <1>4, <1>5, <1>6

LEMMA TypeHost ==
    ASSUME TypeInv, NEW h \in Host, HostStep(h)
    PROVE  TypeInv'
<1> USE DEF TypeInv, TypeOK
<1>1. CASE EmptyCycle(h)
  BY <1>1 DEF EmptyCycle, vars
<1>2. CASE FetchAndPlan(h)
  <2>1. PICK F \in FetchTasks(status, created) :
          /\ original' = [original EXCEPT ![h] = BuildMap(status, F)]
          /\ tasksMap' = [tasksMap EXCEPT ![h] = PropagateFailures(BuildMap(status, F))]
          /\ parents' = [parents EXCEPT ![h] = Parents(BuildMap(status, F))]
          /\ saving' = [saving EXCEPT ![h] = F]
    BY <1>2 DEF FetchAndPlan
  <2>2. BuildMap(status, F) \in TasksMap
    BY DEF BuildMap, TasksMap
  <2>3. PropagateFailures(BuildMap(status, F)) \in TasksMap
    BY <2>2 DEF PropagateFailures, TasksMap, STATUS
  <2>4. F \subseteq Task /\ Parents(BuildMap(status, F)) \subseteq Task
    BY DEF FetchTasks, Active, Parents
  <2>5. {QueueName[t] : t \in FindRunnable(tasksMap'[h])} \subseteq Queue
    BY TaskAssumption DEF FindRunnable
  <2> QED
    BY <1>2, <2>1, <2>2, <2>3, <2>4, <2>5 DEF FetchAndPlan
<1>3. CASE VisitQueue(h)
  <2>1. \A q : IdleWorkers(q) \in Nat
    BY IdleWorkersType
  <2> QED
    BY <1>3, <2>1 DEF VisitQueue, Visit, FindRunnable
<1>4. CASE SendTask(h) \/ SendIsLost(h)
  <2>1. PICK t \in todo[h] :
          /\ \/ Publish(h, t) /\ UNCHANGED <<lost, faults>>
             \/ /\ sent' = [sent EXCEPT ![h][t] = @ + 1] /\ faults' = faults + 1
                /\ lost' = lost \cup {Publication(h, t)} /\ UNCHANGED ready
          /\ NextTask(h, t)
          /\ tasksMap' = [tasksMap EXCEPT ![h][t] = "waiting"]
    BY <1>4 DEF SendTask, SendIsLost, Sent
  <2>2. tasksMap' \in [Host -> TasksMap]
    BY <2>1 DEF TasksMap, STATUS
  <2>3. /\ idle' \in [Host -> Nat] /\ attempt' \in [Host -> Nat]
        /\ todo' \in [Host -> SUBSET Task]
        /\ \A g \in Host : todo'[g] # {} => idle'[g] > 0
    BY <2>1, TypeNextTask
  <2>4. /\ ready' \subseteq Message /\ lost' \subseteq Message /\ faults' \in Nat
        /\ sent' \in [Host -> [Task -> Nat]]
    <3>1. Publication(h, t) \in Message /\ sent \in [Host -> [Task -> Nat]] /\ t \in Task
      BY DEF Publication, Message
    <3>2. CASE Publish(h, t) /\ UNCHANGED <<lost, faults>>
      BY <3>1, <3>2, TypePublish
    <3>3. CASE /\ sent' = [sent EXCEPT ![h][t] = @ + 1] /\ faults' = faults + 1
               /\ lost' = lost \cup {Publication(h, t)} /\ UNCHANGED ready
      BY <3>1, <3>3
    <3> QED
      BY <2>1, <3>2, <3>3
  <2>5. UNCHANGED <<dbVars, pc, original, stamps, queues, parents, saving, slips,
                    unacked, redelivered, handlerVars, indexed, run, procVars>>
    BY <1>4 DEF SendTask, SendIsLost, Sent
  <2> QED
    BY <2>2, <2>3, <2>4, <2>5
<1>5. CASE SendFails(h)
  <2>1. PICK t \in todo[h] :
          /\ Publish(h, t) \/ UNCHANGED <<ready, sent>>
          /\ IF attempt[h] + 1 < SendAttempts
             THEN attempt' = [attempt EXCEPT ![h] = @ + 1] /\ UNCHANGED <<idle, todo>>
             ELSE NextTask(h, t)
    BY <1>5 DEF SendFails
  <2>2. /\ idle' \in [Host -> Nat] /\ attempt' \in [Host -> Nat]
        /\ todo' \in [Host -> SUBSET Task]
        /\ \A g \in Host : todo'[g] # {} => idle'[g] > 0
    <3>1. CASE attempt[h] + 1 < SendAttempts
      <4>1. attempt' = [attempt EXCEPT ![h] = @ + 1] /\ UNCHANGED <<idle, todo>>
        BY <2>1, <3>1
      <4> QED
        BY <4>1
    <3>2. CASE ~(attempt[h] + 1 < SendAttempts)
      BY <2>1, <3>2, TypeNextTask
    <3> QED
      BY <3>1, <3>2
  <2>3. ready' \subseteq Message /\ sent' \in [Host -> [Task -> Nat]]
    BY <2>1, TypePublish
  <2> QED
    <3>1. slips' \in [Host -> Nat] /\ faults' \in Nat
      BY <1>5 DEF SendFails, Slip
    <3>2. UNCHANGED <<dbVars, pc, tasksMap, original, stamps, queues, parents, saving,
                      lost, unacked, redelivered, handlerVars, indexed, run, procVars>>
      BY <1>5 DEF SendFails
    <3> QED
      BY <2>2, <2>3, <3>1, <3>2
<1>6. CASE UpdateParent(h)
  BY <1>6 DEF UpdateParent, ParentStatus, TasksMap, STATUS
<1>7. CASE PersistTask(h)
  BY <1>7 DEF PersistTask, Persisted, ToSave, TasksMap, STATUS, FINAL_STATUS
<1>8. CASE FinishCycle(h)
  BY <1>8 DEF FinishCycle, EndCycle, EmptyMap, TasksMap
<1>9. CASE AbortCycle(h)
  BY <1>9 DEF AbortCycle, EndCycle, Slip, EmptyMap, TasksMap
<1>10. CASE VisitFails(h)
  <2>1. PICK q \in queues[h] : \E slots \in 0..IdleWorkers(q) : Visit(h, q, slots)
    BY <1>10 DEF VisitFails
  <2>2. PICK slots \in 0..IdleWorkers(q) : Visit(h, q, slots)
    BY <2>1
  <2>3. slots \in Nat /\ faults' \in Nat
    BY <1>10, IdleWorkersType DEF VisitFails
  <2> QED
    BY <2>2, <2>3 DEF Visit, FindRunnable
<1> QED
  BY <1>1, <1>2, <1>3, <1>4, <1>5, <1>6, <1>7, <1>8, <1>9, <1>10 DEF HostStep, CycleStep

LEMMA TypeWorker ==
    ASSUME TypeInv, NEW w \in Worker, WorkerStep(w)
    PROVE  TypeInv'
<1> USE DEF TypeInv, TypeOK
<1>1. CASE ServiceRegister(w)
  BY <1>1 DEF ServiceRegister
<1>2. CASE WorkerLaunch(w)
  BY <1>2 DEF WorkerLaunch
<1>3. CASE Receive(w)
  BY <1>3 DEF Receive
<1>4. CASE CheckStatus(w)
  <2>1. wpc' \in [Worker -> {"down", "idle", "check", "capacity", "spawn", "ack"}]
    BY <1>4 DEF CheckStatus
  <2>2. ASSUME NEW t, statusCache' = [statusCache EXCEPT ![w][t] = KnownStatus(w, t)]
        PROVE  statusCache' \in [Worker -> TasksMap]
    <3>1. CASE t \in Task
      BY <2>2, <3>1 DEF KnownStatus, TasksMap
    <3>2. CASE t \notin Task
      <4>1. [statusCache[w] EXCEPT ![t] = KnownStatus(w, t)] = statusCache[w]
        BY <3>2 DEF TasksMap
      <4> QED
        BY <2>2, <4>1
    <3> QED
      BY <3>1, <3>2
  <2>3. statusCache' \in [Worker -> TasksMap]
    BY <1>4, <2>2 DEF CheckStatus
  <2> QED
    BY <1>4, <2>1, <2>3 DEF CheckStatus
<1>5. CASE CheckCapacity(w)
  <2>1. KnownSlots(w) \in Nat
    BY AvailableSlotsFinite DEF KnownSlots
  <2> QED
    <3>1. CASE wpc' = [wpc EXCEPT ![w] = "spawn"] /\ UNCHANGED <<brokerVars, msg>>
      BY <1>5, <2>1, <3>1 DEF CheckCapacity
    <3>2. CASE wpc' = [wpc EXCEPT ![w] = "idle"] /\ Settle(w, TRUE)
      BY <1>5, <2>1, <3>2 DEF CheckCapacity, Settle
    <3> QED
      BY <1>5, <3>1, <3>2 DEF CheckCapacity
<1>6. CASE Spawn(w)
  BY <1>6 DEF Spawn, Live
<1>7. CASE Ack(w)
  BY <1>7 DEF Ack, Settle
<1>8. CASE CheckFails(w)
  BY <1>8 DEF CheckFails
<1>9. CASE SpawnFails(w)
  BY <1>9 DEF SpawnFails, Settle
<1>10. CASE ConnectionLost(w)
  BY <1>10 DEF ConnectionLost
<1>11. CASE WorkerCrash(w)
  BY <1>11 DEF WorkerCrash, EmptyMap, TasksMap
<1>12. CASE SlotsExpire(w)
  BY <1>12 DEF SlotsExpire
<1>13. ASSUME NEW t \in Task, StatusExpires(w, t)
       PROVE  TypeInv'
  BY <1>13 DEF StatusExpires, TasksMap
<1>14. CASE CapacityFails(w)
  BY <1>14 DEF CapacityFails, Settle
<1> QED
  BY <1>1, <1>2, <1>3, <1>4, <1>5, <1>6, <1>7, <1>8, <1>9, <1>10, <1>11, <1>12, <1>13, <1>14
  DEF WorkerStep, HandlerStep, WorkerFault

LEMMA TypeProc ==
    ASSUME TypeInv, NEW p \in Proc, ProcStep(p)
    PROVE  TypeInv'
<1> USE DEF TypeInv, TypeOK, Live
<1>1. ASSUME NEW from, NEW value \in STATUS, NEW to \in Live \cup {"done"},
             Report(p, from, value, to)
      PROVE  TypeInv'
  BY <1>1 DEF Report, TasksMap
<1>2. CASE ReportRunning(p) \/ ReportSuccess(p) \/ ReportFailure(p)
  BY <1>1, <1>2 DEF ReportRunning, ReportSuccess, ReportFailure, STATUS
<1>3. CASE EnterRunSet(p)
  <2>1. CASE run' = [run EXCEPT ![pworker[p]] = @ \cup {p}] /\ UNCHANGED faults
    BY <1>3, <2>1 DEF EnterRunSet
  <2>2. CASE faults' = faults + 1 /\ UNCHANGED run
    BY <1>3, <2>2 DEF EnterRunSet
  <2> QED
    BY <1>3, <2>1, <2>2 DEF EnterRunSet
<1>4. CASE LeaveRunSet(p)
  <2>1. CASE run' = [run EXCEPT ![pworker[p]] = @ \ {p}] /\ UNCHANGED faults
    BY <1>4, <2>1 DEF LeaveRunSet
  <2>2. CASE faults' = faults + 1 /\ UNCHANGED run
    BY <1>4, <2>2 DEF LeaveRunSet
  <2> QED
    BY <1>4, <2>1, <2>2 DEF LeaveRunSet
<1>5. CASE ReportFails(p)
  BY <1>5 DEF ReportFails
<1>6. CASE Die(p)
  BY <1>6 DEF Die
<1> QED
  BY <1>2, <1>3, <1>4, <1>5, <1>6 DEF ProcStep, TaskStep

LEMMA TypeStep == TypeInv /\ [Next]_vars => TypeInv'
<1> SUFFICES ASSUME TypeInv, [Next]_vars PROVE TypeInv'
  OBVIOUS
<1>1. CASE UNCHANGED vars
  BY <1>1 DEF TypeInv, TypeOK, vars
<1>2. CASE Next
  BY <1>2, TypeUser, TypeHost, TypeWorker, TypeProc DEF Next
<1> QED
  BY <1>1, <1>2

(* Every variable keeps its type, whatever fails: in particular the slots a *)
(* cycle counts down never pass below zero, and a handler that still owes   *)
(* the broker an answer holds a real message.                               *)
THEOREM TypeCorrect == Spec => []TypeInv
<1>1. Init => TypeInv
  BY TypeInit
<1>2. TypeInv /\ [Next]_vars => TypeInv'
  BY TypeStep
<1> QED
  BY <1>1, <1>2, PTL DEF Spec

THEOREM TypeOKCorrect == Spec => []TypeOK
<1>1. TypeInv => TypeOK
  BY DEF TypeInv
<1> QED
  BY <1>1, TypeCorrect, PTL

-----------------------------------------------------------------------------
USE DEF dbVars, cycleVars, hostVars, brokerVars, handlerVars, procVars

(* The statuses a cycle can find: final ones are never fetched and nothing  *)
(* ever writes RETRYING.                                                    *)
Fetched == {"pending", "running", "waiting", Missing}

CycleOK(h) ==
    /\ pc[h] = "idle" => tasksMap[h] = EmptyMap
    /\ \A t \in Task : original[h][t] \in Fetched
    /\ \A t \in Task : tasksMap[h][t] # original[h][t]
                       => original[h][t] = "pending" /\ tasksMap[h][t] = "waiting"
    /\ todo[h] # {} \/ queues[h] # {}
       => \A t \in Task : original[h][t] = "pending" => t \in saving[h]
    /\ \A t \in todo[h] : tasksMap[h][t] = "pending"

CycleInv ==
    /\ TypeInv
    /\ \A t \in Task : status[t] # "retrying"
    /\ \A h \in Host : CycleOK(h)

-----------------------------------------------------------------------------
(* Without a failed task in the map, steps 3 and 7 of the cycle do nothing. *)
LEMMA NothingPropagates ==
    ASSUME NEW map \in TasksMap, \A t \in Task : map[t] \in Fetched
    PROVE  PropagateFailures(map) = map
<1>1. {f \in InMap(map) : map[f] = "failed"} = {}
  BY DEF InMap, Fetched, Missing
<1>2. FailureClosed(map, {})
  BY DEF FailureClosed
<1>3. {} \in SUBSET InMap(map)
  OBVIOUS
<1>4. FailedSet(map) = {}
  BY <1>1, <1>2, <1>3 DEF FailedSet
<1> QED
  BY <1>4 DEF PropagateFailures, TasksMap

(* What steps 3 and 4 compute on any map, whatever the graph of tasks: the  *)
(* failed tasks and those that fail with them are the least closed set;     *)
(* afterwards no unfinished task depends on a failed one or has a failed    *)
(* child, what had succeeded or was stopped is spared, and doing it again   *)
(* changes nothing.                                                         *)
FailedIn(map) == {f \in InMap(map) : map[f] = "failed"}

LEMMA FailedSetClosed ==
    ASSUME NEW map \in TasksMap
    PROVE  /\ FailedIn(map) \subseteq FailedSet(map) /\ FailedSet(map) \subseteq InMap(map)
           /\ FailureClosed(map, FailedSet(map))
<1>1. FailedIn(map) \subseteq FailedSet(map) /\ FailedSet(map) \subseteq InMap(map)
  BY DEF FailedIn, FailedSet
<1>2. ASSUME NEW f \in FailedSet(map), NEW t \in InMap(map), map[t] \notin FINAL_STATUS,
             f \in DependsOn[t] \/ SourceId[f] = t
      PROVE  t \in FailedSet(map)
  <2>1. ASSUME NEW S \in SUBSET InMap(map), FailureClosed(map, S), FailedIn(map) \subseteq S
        PROVE  t \in S
    <3>1. f \in S
      BY <2>1 DEF FailedSet, FailedIn
    <3> QED
      BY <1>2, <2>1, <3>1 DEF FailureClosed
  <2> QED
    BY <2>1 DEF FailedSet, FailedIn
<1> QED
  BY <1>1, <1>2 DEF FailureClosed

LEMMA FailedSetLeast ==
    ASSUME NEW map \in TasksMap, NEW S \in SUBSET InMap(map), FailedIn(map) \subseteq S,
           FailureClosed(map, S)
    PROVE  FailedSet(map) \subseteq S
BY DEF FailedSet, FailedIn

LEMMA FinalIsSpared ==
    ASSUME NEW map \in TasksMap, NEW t \in FailedSet(map)
    PROVE  map[t] = "failed" \/ map[t] \notin FINAL_STATUS
<1> SUFFICES ASSUME map[t] \in FINAL_STATUS, map[t] # "failed" PROVE FALSE
  OBVIOUS
<1> DEFINE S == FailedSet(map) \ {t}
<1>1. S \in SUBSET InMap(map) /\ FailedIn(map) \subseteq S
  BY FailedSetClosed DEF FailedIn
<1>2. FailureClosed(map, S)
  BY FailedSetClosed DEF FailureClosed
<1> HIDE DEF S
<1>3. FailedSet(map) \subseteq S
  BY <1>1, <1>2, FailedSetLeast
<1> QED
  BY <1>3 DEF S

THEOREM PropagationCorrect ==
    ASSUME NEW map \in TasksMap, NEW after, after = PropagateFailures(map)
    PROVE  /\ after \in TasksMap
           /\ \A t \in Task : after[t] # map[t]
                              => after[t] = "failed" /\ map[t] \notin FINAL_STATUS \cup {Missing}
           /\ \A t \in InMap(after), f \in Task :
                 after[f] = "failed" /\ (f \in DependsOn[t] \/ SourceId[f] = t)
                 => after[t] \in FINAL_STATUS
           /\ FindRunnable(after) \subseteq FindRunnable(map)
           /\ PropagateFailures(after) = after
<1>0. \A t \in Task : after[t] = IF t \in FailedSet(map) THEN "failed" ELSE map[t]
  BY DEF PropagateFailures
<1>1. after \in TasksMap
  BY DEF PropagateFailures, TasksMap, STATUS
<1>2. ASSUME NEW t \in Task, after[t] # map[t]
      PROVE  after[t] = "failed" /\ map[t] \notin FINAL_STATUS \cup {Missing}
  BY <1>0, <1>2, FinalIsSpared, FailedSetClosed DEF InMap
<1>3. InMap(after) = InMap(map) /\ FailedIn(after) = FailedSet(map)
  <2>1. InMap(after) = InMap(map)
    BY <1>0, FailedSetClosed DEF InMap, Missing
  <2>2. FailedIn(after) \subseteq FailedSet(map)
    BY <1>0, <2>1, FailedSetClosed DEF FailedIn, InMap
  <2>3. FailedSet(map) \subseteq FailedIn(after)
    BY <1>0, <2>1, FailedSetClosed DEF FailedIn, InMap
  <2> QED
    BY <2>1, <2>2, <2>3
<1>4. FailureClosed(after, FailedIn(after))
  <2> SUFFICES ASSUME NEW f \in FailedIn(after), NEW t \in InMap(after),
                      f \in DependsOn[t] \/ SourceId[f] = t, after[t] \notin FINAL_STATUS
               PROVE  t \in FailedIn(after)
    BY DEF FailureClosed
  <2>1. map[t] \notin FINAL_STATUS /\ t \in Task
    BY <1>0, <1>2 DEF InMap, FINAL_STATUS
  <2> QED
    BY <1>3, <2>1, FailedSetClosed DEF FailureClosed
<1>5. ASSUME NEW t \in InMap(after), NEW f \in Task, after[f] = "failed",
             f \in DependsOn[t] \/ SourceId[f] = t
      PROVE  after[t] \in FINAL_STATUS
  <2>1. f \in FailedIn(after)
    BY <1>5 DEF FailedIn, InMap, Missing
  <2>2. after[t] \in FINAL_STATUS \/ t \in FailedIn(after)
    BY <1>4, <1>5, <2>1 DEF FailureClosed
  <2> QED
    BY <2>2 DEF FailedIn, FINAL_STATUS
<1>6. FindRunnable(after) \subseteq FindRunnable(map)
  <2> SUFFICES ASSUME NEW t \in FindRunnable(after) PROVE t \in FindRunnable(map)
    OBVIOUS
  <2>1. t \in Task /\ DependsOn[t] \subseteq Task
    BY TaskAssumption DEF FindRunnable
  <2>2. \A u \in Task : after[u] # "failed" => map[u] = after[u]
    BY <1>2
  <2> QED
    BY <2>1, <2>2 DEF FindRunnable
<1>7. PropagateFailures(after) = after
  <2>1. FailedSet(after) \subseteq FailedIn(after)
    <3>1. FailedIn(after) \in SUBSET InMap(after)
      BY DEF FailedIn
    <3> QED
      BY <1>1, <1>4, <3>1, FailedSetLeast
  <2> QED
    BY <1>1, <2>1 DEF PropagateFailures, FailedIn, TasksMap
<1> QED
  BY <1>1, <1>2, <1>5, <1>6, <1>7

LEMMA ParentsStay ==
    ASSUME NEW map, \A t \in Task : map[t] \in Fetched, NEW p \in Task
    PROVE  ParentStatus(map, p) = map[p]
<1>1. "failed" \notin {map[c] : c \in Children(map, p)}
  BY DEF Children, InMap, Fetched, Missing
<1>2. "success" \notin {map[c] : c \in Children(map, p)}
  BY DEF Children, InMap, Fetched, Missing
<1>3. {map[c] : c \in Children(map, p)} # {"success"}
  BY <1>2
<1> QED
  BY <1>1, <1>3 DEF ParentStatus

LEMMA FetchedMap ==
    ASSUME TypeOK, \A t \in Task : status[t] # "retrying",
           NEW F \in FetchTasks(status, created)
    PROVE  /\ BuildMap(status, F) \in TasksMap
           /\ \A t \in Task : BuildMap(status, F)[t] \in Fetched
           /\ PropagateFailures(BuildMap(status, F)) = BuildMap(status, F)
<1>1. F \subseteq Active(status)
  BY DEF FetchTasks
<1>2. BuildMap(status, F) \in TasksMap
  BY DEF BuildMap, TasksMap, TypeOK
<1>3. \A t \in Task : BuildMap(status, F)[t] \in Fetched
  BY <1>1 DEF BuildMap, Active, Fetched
<1> QED
  BY <1>2, <1>3, NothingPropagates

LEMMA MapFetched ==
    ASSUME CycleInv, NEW h \in Host
    PROVE  \A t \in Task : tasksMap[h][t] \in Fetched
BY DEF CycleInv, CycleOK, Fetched

-----------------------------------------------------------------------------
LEMMA CycleInit == Init => CycleInv
BY TypeInit DEF Init, CycleInv, CycleOK, EmptyMap, Fetched, Missing

\* A step outside the scheduler.
LEMMA CycleFrame ==
    ASSUME CycleInv, TypeInv', UNCHANGED cycleVars,
           \A t \in Task : status'[t] # "retrying"
    PROVE  CycleInv'
BY DEF CycleInv, CycleOK

\* A step of one host leaves the others alone.
LEMMA CycleOthers ==
    ASSUME CycleInv, TypeInv', NEW h \in Host, CycleOK(h)',
           \A t \in Task : status'[t] # "retrying",
           \A g \in Host \ {h} :
              /\ pc'[g] = pc[g] /\ tasksMap'[g] = tasksMap[g]
              /\ original'[g] = original[g] /\ todo'[g] = todo[g]
              /\ queues'[g] = queues[g] /\ saving'[g] = saving[g]
    PROVE  CycleInv'
<1>1. ASSUME NEW g \in Host \ {h} PROVE CycleOK(g)'
  <2>1. CycleOK(g)
    BY DEF CycleInv
  <2> QED
    BY <2>1 DEF CycleOK
<1> QED
  BY <1>1 DEF CycleInv

LEMMA ParentsUntouched ==
    ASSUME CycleInv, NEW h \in Host, UpdateParent(h)
    PROVE  tasksMap' = tasksMap
<1>0. TypeOK
  BY DEF CycleInv, TypeInv
<1>1. PICK p \in parents[h] :
         tasksMap' = [tasksMap EXCEPT ![h][p] = ParentStatus(tasksMap[h], p)]
  BY DEF UpdateParent
<1>2. p \in Task
  BY <1>0, <1>1 DEF TypeOK
<1>3. ParentStatus(tasksMap[h], p) = tasksMap[h][p]
  BY <1>2, MapFetched, ParentsStay
<1> QED
  BY <1>0, <1>1, <1>3 DEF TypeOK, TasksMap

LEMMA CycleHost ==
    ASSUME CycleInv, TypeInv', NEW h \in Host, HostStep(h)
    PROVE  CycleInv'
<1>0. TypeOK /\ CycleOK(h) /\ \A t \in Task : status[t] # "retrying"
  BY DEF CycleInv, TypeInv
<1>1. CASE EmptyCycle(h)
  BY <1>0, <1>1, CycleFrame DEF EmptyCycle, vars
<1>2. CASE FetchAndPlan(h)
  <2>1. PICK F \in FetchTasks(status, created) :
          /\ original' = [original EXCEPT ![h] = BuildMap(status, F)]
          /\ tasksMap' = [tasksMap EXCEPT ![h] = PropagateFailures(BuildMap(status, F))]
          /\ saving' = [saving EXCEPT ![h] = F]
    BY <1>2 DEF FetchAndPlan
  <2>2. /\ original'[h] = BuildMap(status, F) /\ tasksMap'[h] = BuildMap(status, F)
        /\ saving'[h] = F
    BY <1>0, <2>1, FetchedMap DEF TypeOK
  <2>3. \A t \in Task : original'[h][t] \in Fetched /\ (original'[h][t] = "pending" => t \in F)
    BY <1>0, <2>2, FetchedMap DEF BuildMap, Missing
  <2>4. pc'[h] = "schedule" /\ todo'[h] = todo[h] /\ todo[h] = {}
    <3>1. pc[h] = "idle" /\ tasksMap[h] = EmptyMap /\ todo[h] \subseteq Task
      BY <1>0, <1>2 DEF FetchAndPlan, TypeOK, CycleOK
    <3>2. \A t \in todo[h] : EmptyMap[t] = "pending"
      BY <1>0, <3>1 DEF CycleOK
    <3> QED
      BY <1>0, <1>2, <3>1, <3>2 DEF FetchAndPlan, TypeOK, EmptyMap, Missing
  <2>5. CycleOK(h)'
    BY <2>2, <2>3, <2>4 DEF CycleOK
  <2>6. \A g \in Host \ {h} :
          /\ pc'[g] = pc[g] /\ tasksMap'[g] = tasksMap[g]
          /\ original'[g] = original[g] /\ todo'[g] = todo[g]
          /\ queues'[g] = queues[g] /\ saving'[g] = saving[g]
    BY <1>0, <1>2, <2>1 DEF FetchAndPlan, TypeOK
  <2>7. status' = status
    BY <1>2 DEF FetchAndPlan
  <2> QED
    BY <1>0, <2>5, <2>6, <2>7, CycleOthers
<1>3. CASE VisitQueue(h) \/ VisitFails(h)
  <2>0. PICK q \in queues[h] : \E slots : Visit(h, q, slots)
    BY <1>3 DEF VisitQueue, VisitFails
  <2>1. \A t \in todo'[h] : tasksMap[h][t] = "pending"
    <3>1. \A t \in FindRunnable(tasksMap[h]) : tasksMap[h][t] = "pending"
      BY MapFetched DEF FindRunnable, Fetched, Missing
    <3> QED
      BY <1>0, <2>0, <3>1 DEF Visit, TypeOK
  <2>3. CycleOK(h)'
    BY <1>0, <2>0, <2>1 DEF Visit, CycleOK
  <2>4. \A g \in Host \ {h} :
          /\ pc'[g] = pc[g] /\ tasksMap'[g] = tasksMap[g]
          /\ original'[g] = original[g] /\ todo'[g] = todo[g]
          /\ queues'[g] = queues[g] /\ saving'[g] = saving[g]
    BY <1>0, <2>0 DEF Visit, TypeOK
  <2>5. status' = status
    BY <2>0 DEF Visit
  <2> QED
    BY <1>0, <2>3, <2>4, <2>5, CycleOthers
<1>4. CASE SendTask(h) \/ SendIsLost(h)
  <2>1. PICK t \in todo[h] : /\ tasksMap' = [tasksMap EXCEPT ![h][t] = "waiting"]
                             /\ NextTask(h, t)
    BY <1>4 DEF SendTask, SendIsLost, Sent
  <2>2. t \in Task /\ tasksMap[h][t] = "pending" /\ original[h][t] = "pending"
    BY <1>0, <2>1 DEF TypeOK, CycleOK
  <2>3. tasksMap'[h] = [tasksMap[h] EXCEPT ![t] = "waiting"] /\ todo'[h] \subseteq todo[h] \ {t}
    BY <1>0, <2>1 DEF TypeOK, NextTask
  <2>4. CycleOK(h)'
    BY <1>0, <1>4, <2>2, <2>3 DEF SendTask, SendIsLost, Sent, TypeOK, TasksMap, CycleOK
  <2>5. \A g \in Host \ {h} : tasksMap'[g] = tasksMap[g] /\ todo'[g] = todo[g]
    BY <1>0, <2>1 DEF TypeOK, NextTask
  <2>6. UNCHANGED <<status, pc, original, queues, saving>>
    BY <1>4 DEF SendTask, SendIsLost, Sent
  <2> QED
    BY <1>0, <2>4, <2>5, <2>6, CycleOthers
<1>5. CASE SendFails(h)
  <2>1. \A g \in Host : todo'[g] \subseteq todo[g] /\ (g # h => todo'[g] = todo[g])
    BY <1>0, <1>5 DEF SendFails, NextTask, TypeOK
  <2>2. CycleOK(h)'
    BY <1>0, <1>5, <2>1 DEF SendFails, CycleOK
  <2>3. UNCHANGED <<status, pc, tasksMap, original, queues, saving>>
    BY <1>5 DEF SendFails
  <2> QED
    BY <1>0, <2>1, <2>2, <2>3, CycleOthers
<1>6. CASE UpdateParent(h)
  <2>1. tasksMap' = tasksMap
    BY <1>6, ParentsUntouched
  <2>2. CycleOK(h)'
    BY <1>0, <1>6, <2>1 DEF UpdateParent, CycleOK
  <2>3. UNCHANGED <<status, pc, original, todo, queues, saving>>
    BY <1>6 DEF UpdateParent
  <2> QED
    BY <1>0, <2>1, <2>2, <2>3, CycleOthers
<1>7. CASE PersistTask(h)
  <2>1. PICK t \in ToSave(h) :
          /\ status' = [status EXCEPT ![t] =
                          Persisted(original[h][t], tasksMap[h][t], @)]
          /\ saving' = [saving EXCEPT ![h] = @ \ {t}]
    BY <1>7 DEF PersistTask
  <2>2. \A u \in Task : status'[u] # "retrying"
    BY <1>0, <2>1 DEF Persisted, FINAL_STATUS, TypeOK, TasksMap
  <2>3. todo[h] = {} /\ queues[h] = {}
    BY <1>7 DEF PersistTask
  <2>4. CycleOK(h)'
    BY <1>0, <1>7, <2>3 DEF PersistTask, CycleOK
  <2>5. \A g \in Host \ {h} :
          /\ pc'[g] = pc[g] /\ tasksMap'[g] = tasksMap[g]
          /\ original'[g] = original[g] /\ todo'[g] = todo[g]
          /\ queues'[g] = queues[g] /\ saving'[g] = saving[g]
    BY <1>0, <1>7, <2>1 DEF PersistTask, TypeOK
  <2> QED
    BY <1>0, <2>2, <2>4, <2>5, CycleOthers
<1>8. CASE FinishCycle(h) \/ AbortCycle(h)
  <2>1. EndCycle(h)
    BY <1>8 DEF FinishCycle, AbortCycle
  <2>2. /\ tasksMap'[h] = EmptyMap /\ original'[h] = EmptyMap
        /\ todo'[h] = {} /\ queues'[h] = {} /\ pc'[h] = "idle"
    BY <1>0, <2>1 DEF EndCycle, TypeOK
  <2>3. CycleOK(h)'
    BY <2>2 DEF EmptyMap, Fetched, CycleOK
  <2>4. \A g \in Host \ {h} :
          /\ pc'[g] = pc[g] /\ tasksMap'[g] = tasksMap[g]
          /\ original'[g] = original[g] /\ todo'[g] = todo[g]
          /\ queues'[g] = queues[g] /\ saving'[g] = saving[g]
    BY <1>0, <2>1 DEF EndCycle, TypeOK
  <2>5. status' = status
    BY <2>1 DEF EndCycle
  <2> QED
    BY <1>0, <2>3, <2>4, <2>5, CycleOthers
<1> QED
  BY <1>1, <1>2, <1>3, <1>4, <1>5, <1>6, <1>7, <1>8 DEF HostStep, CycleStep

LEMMA CycleStepInv == CycleInv /\ [Next]_vars => CycleInv'
<1> SUFFICES ASSUME CycleInv, [Next]_vars PROVE CycleInv'
  OBVIOUS
<1>0. TypeInv' /\ TypeOK /\ \A t \in Task : status[t] # "retrying"
  BY TypeStep DEF CycleInv, TypeInv
<1>1. CASE UNCHANGED vars
  BY <1>0, <1>1, CycleFrame DEF vars
<1>2. ASSUME NEW t \in Task, UserStep(t) PROVE CycleInv'
  <2>1. UNCHANGED cycleVars
    BY <1>2 DEF UserStep, Submit, TaskStop, TaskRetry
  <2>2. \A u \in Task : status'[u] # "retrying"
    BY <1>0, <1>2 DEF UserStep, Submit, TaskStop, TaskRetry, TypeOK, TasksMap
  <2> QED
    BY <1>0, <2>1, <2>2, CycleFrame
<1>3. ASSUME NEW h \in Host, HostStep(h) PROVE CycleInv'
  BY <1>0, <1>3, CycleHost
<1>4. ASSUME NEW w \in Worker, WorkerStep(w) PROVE CycleInv'
  <2>1. UNCHANGED cycleVars /\ status' = status
    BY <1>4 DEF WorkerStep, HandlerStep, WorkerFault, ServiceRegister, WorkerLaunch,
      Receive, CheckStatus, CheckCapacity, Spawn, Ack, CheckFails, CapacityFails, SpawnFails,
      ConnectionLost, WorkerCrash, SlotsExpire, StatusExpires
  <2> QED
    BY <1>0, <2>1, CycleFrame
<1>5. ASSUME NEW p \in Proc, ProcStep(p) PROVE CycleInv'
  <2>1. UNCHANGED cycleVars
    BY <1>5 DEF ProcStep, TaskStep, Report, ReportRunning, ReportSuccess,
      ReportFailure, EnterRunSet, LeaveRunSet, ReportFails, Die
  <2>2. \A u \in Task : status'[u] # "retrying"
    BY <1>0, <1>5 DEF ProcStep, TaskStep, Report, ReportRunning, ReportSuccess,
      ReportFailure, EnterRunSet, LeaveRunSet, ReportFails, Die, TypeOK, TasksMap
  <2> QED
    BY <1>0, <2>1, <2>2, CycleFrame
<1> QED
  BY <1>1, <1>2, <1>3, <1>4, <1>5 DEF Next

LEMMA CycleCorrect == Spec => []CycleInv
<1> QED
  BY CycleInit, CycleStepInv, PTL DEF Spec

-----------------------------------------------------------------------------
(* All that _persist_updates can write is WAITING over PENDING.             *)
LEMMA PersistWritesWaiting ==
    ASSUME CycleInv, NEW h \in Host, PersistTask(h)
    PROVE  \E t \in saving[h] :
              /\ t \in Task /\ original[h][t] = "pending" /\ tasksMap[h][t] = "waiting"
              /\ saving' = [saving EXCEPT ![h] = @ \ {t}]
              /\ status' = [status EXCEPT ![t] = IF @ = "pending" THEN "waiting" ELSE @]
<1>0. TypeOK /\ CycleOK(h)
  BY DEF CycleInv, TypeInv
<1>1. PICK t \in ToSave(h) :
        /\ status' = [status EXCEPT ![t] =
                        Persisted(original[h][t], tasksMap[h][t], status[t])]
        /\ saving' = [saving EXCEPT ![h] = @ \ {t}]
  BY DEF PersistTask
<1>2. t \in saving[h] /\ t \in Task /\ original[h][t] = "pending" /\ tasksMap[h][t] = "waiting"
  BY <1>0, <1>1 DEF ToSave, TypeOK, CycleOK
<1>3. Persisted(original[h][t], tasksMap[h][t], status[t])
        = IF status[t] = "pending" THEN "waiting" ELSE status[t]
  BY <1>2 DEF Persisted
<1> QED
  BY <1>1, <1>2, <1>3

LEMMA FinishStep ==
    ASSUME CycleInv, [Next]_vars, NEW t \in Task,
           status'[t] # status[t], status'[t] \in {"success", "failed"}
    PROVE  \E p \in ProcsOf(t) : ppc[p] = "running" /\ ppc'[p] = "leaving"
<1>0. TypeOK
  BY DEF CycleInv, TypeInv
<1>1. ~UNCHANGED status
  OBVIOUS
<1>2. ASSUME NEW u \in Task, UserStep(u) PROVE FALSE
  BY <1>0, <1>2 DEF UserStep, Submit, TaskStop, TaskRetry, TypeOK, TasksMap
<1>3. ASSUME NEW h \in Host, HostStep(h) PROVE FALSE
  <2>1. PersistTask(h)
    BY <1>1, <1>3 DEF HostStep, CycleStep, EmptyCycle, vars, FetchAndPlan, VisitQueue, VisitFails, Visit,
      SendTask, SendIsLost, Sent, SendFails, UpdateParent, FinishCycle, AbortCycle, EndCycle
  <2>2. PICK u \in Task :
          status' = [status EXCEPT ![u] = IF @ = "pending" THEN "waiting" ELSE @]
    BY <2>1, PersistWritesWaiting
  <2> QED
    BY <1>0, <2>2 DEF TypeOK, TasksMap
<1>4. ASSUME NEW w \in Worker, WorkerStep(w) PROVE FALSE
  BY <1>1, <1>4 DEF WorkerStep, HandlerStep, WorkerFault, ServiceRegister, WorkerLaunch,
    Receive, CheckStatus, CheckCapacity, Spawn, Ack, CheckFails, CapacityFails, SpawnFails,
    ConnectionLost, WorkerCrash, SlotsExpire, StatusExpires
<1>5. ASSUME NEW p \in Proc, ProcStep(p)
      PROVE  p \in ProcsOf(t) /\ ppc[p] = "running" /\ ppc'[p] = "leaving"
  <2>1. ReportRunning(p) \/ ReportSuccess(p) \/ ReportFailure(p)
    BY <1>1, <1>5 DEF ProcStep, TaskStep, EnterRunSet, LeaveRunSet, ReportFails, Die
  <2> QED
    BY <1>0, <2>1 DEF ReportRunning, ReportSuccess, ReportFailure, Report, ProcsOf,
      TypeOK, TasksMap
<1> QED
  BY <1>1, <1>2, <1>3, <1>4, <1>5 DEF Next, vars

(* Only a task's own process finishes it: the scheduler's propagation of    *)
(* failures and its rules for parents never write a final status, because a *)
(* cycle never fetches one.                                                 *)
THEOREM OnlyProcessesFinishCorrect == Spec => OnlyProcessesFinish
<1>1. CycleInv /\ [Next]_vars
      => [\A t \in Task :
            status'[t] # status[t] /\ status'[t] \in {"success", "failed"}
            => \E p \in ProcsOf(t) : ppc[p] = "running" /\ ppc'[p] = "leaving"]_vars
  BY FinishStep
<1> QED
  BY <1>1, CycleCorrect, PTL DEF Spec, OnlyProcessesFinish

-----------------------------------------------------------------------------
(* The claim of host h to publish task t once more: its map says PENDING,   *)
(* or the database does and h is not about to replace that by WAITING.      *)
Awaiting(h, t) ==
    original[h][t] = "pending" /\ tasksMap[h][t] = "waiting" /\ t \in saving[h]

Claim(h, t) ==
    IF \/ tasksMap[h][t] = "pending"
       \/ status[t] = "pending" /\ ~Awaiting(h, t)
    THEN 1 ELSE 0

DispatchInv ==
    \A h \in Host, t \in Task : sent[h][t] + Claim(h, t) <= asks[t] + slips[h]

LEMMA DispatchInit == Init => DispatchInv
BY DEF Init, DispatchInv, Claim, EmptyMap, Missing

\* Nothing is published, no ask is forgotten and no claim arises.
LEMMA DispatchFrame ==
    ASSUME TypeOK, TypeOK', DispatchInv, sent' = sent,
           \A h \in Host : slips'[h] >= slips[h],
           \A h \in Host, t \in Task :
              Claim(h, t)' + asks[t] + slips[h] <= Claim(h, t) + asks'[t] + slips'[h]
    PROVE  DispatchInv'
<1> SUFFICES ASSUME NEW h \in Host, NEW t \in Task
             PROVE  sent'[h][t] + Claim(h, t)' <= asks'[t] + slips'[h]
  BY DEF DispatchInv
<1>1. /\ sent[h][t] \in Nat /\ asks[t] \in Nat /\ asks'[t] \in Nat
      /\ slips[h] \in Nat /\ slips'[h] \in Nat /\ sent'[h][t] = sent[h][t]
      /\ Claim(h, t) \in Nat /\ Claim(h, t)' \in Nat
  BY DEF TypeOK, Claim
<1>2. sent[h][t] + Claim(h, t) <= asks[t] + slips[h]
  BY DEF DispatchInv
<1> QED
  BY <1>1, <1>2

\* A host whose cycle is untouched gains a claim only from a new PENDING.
LEMMA ClaimFrame ==
    ASSUME NEW h, NEW t, tasksMap'[h] = tasksMap[h], original'[h] = original[h],
           saving'[h] = saving[h], status'[t] = "pending" => status[t] = "pending"
    PROVE  Claim(h, t)' <= Claim(h, t)
BY DEF Claim, Awaiting

LEMMA DispatchUser ==
    ASSUME CycleInv, CycleInv', DispatchInv, NEW u \in Task, UserStep(u)
    PROVE  DispatchInv'
<1>0. TypeOK /\ TypeOK'
  BY DEF CycleInv, TypeInv
<1>1. UNCHANGED hostVars
  BY DEF UserStep, Submit, TaskStop, TaskRetry
<1>2. ASSUME NEW t \in Task
      PROVE  \/ asks'[t] = asks[t] /\ (status'[t] = "pending" => status[t] = "pending")
             \/ asks'[t] = asks[t] + 1
  BY <1>0 DEF UserStep, Submit, TaskStop, TaskRetry, TypeOK, TasksMap
<1>3. ASSUME NEW h \in Host, NEW t \in Task
      PROVE  Claim(h, t)' + asks[t] + slips[h] <= Claim(h, t) + asks'[t] + slips'[h]
  <2>1. slips'[h] = slips[h] /\ slips[h] \in Nat /\ asks[t] \in Nat
    BY <1>0, <1>1 DEF TypeOK
  <2>2. Claim(h, t) \in {0, 1} /\ Claim(h, t)' \in {0, 1}
    BY DEF Claim
  <2>3. CASE asks'[t] = asks[t] /\ (status'[t] = "pending" => status[t] = "pending")
    <3>1. Claim(h, t)' <= Claim(h, t)
      BY <1>1, <2>3, ClaimFrame
    <3> QED
      BY <2>1, <2>2, <2>3, <3>1
  <2>4. CASE asks'[t] = asks[t] + 1
    BY <2>1, <2>2, <2>4
  <2> QED
    BY <1>2, <2>3, <2>4
<1>4. sent' = sent /\ \A h \in Host : slips'[h] >= slips[h]
  BY <1>0, <1>1 DEF TypeOK
<1> QED
  BY <1>0, <1>3, <1>4, DispatchFrame

\* Workers and task processes: no PENDING, no publication, no ask.
LEMMA DispatchElsewhere ==
    ASSUME CycleInv, CycleInv', DispatchInv, UNCHANGED <<hostVars, asks>>,
           \A t \in Task : status'[t] = "pending" => status[t] = "pending"
    PROVE  DispatchInv'
<1>0. TypeOK /\ TypeOK'
  BY DEF CycleInv, TypeInv
<1>1. ASSUME NEW h \in Host, NEW t \in Task
      PROVE  Claim(h, t)' + asks[t] + slips[h] <= Claim(h, t) + asks'[t] + slips'[h]
  <2>1. Claim(h, t)' <= Claim(h, t)
    BY ClaimFrame
  <2>2. Claim(h, t) \in {0, 1} /\ Claim(h, t)' \in {0, 1}
    BY DEF Claim
  <2> QED
    BY <1>0, <2>1, <2>2 DEF TypeOK
<1>2. sent' = sent /\ \A h \in Host : slips'[h] >= slips[h]
  BY <1>0 DEF TypeOK
<1> QED
  BY <1>0, <1>1, <1>2, DispatchFrame

\* A step of host h that publishes nothing: its own claims decide.
LEMMA DispatchSilent ==
    ASSUME CycleInv, CycleInv', DispatchInv, NEW h \in Host,
           UNCHANGED <<sent, slips, asks>>,
           \A t \in Task : status'[t] = "pending" => status[t] = "pending",
           \A g \in Host \ {h} : /\ tasksMap'[g] = tasksMap[g]
                                 /\ original'[g] = original[g] /\ saving'[g] = saving[g],
           \A t \in Task : Claim(h, t)' <= Claim(h, t)
    PROVE  DispatchInv'
<1>0. TypeOK /\ TypeOK'
  BY DEF CycleInv, TypeInv
<1>1. ASSUME NEW g \in Host, NEW t \in Task
      PROVE  Claim(g, t)' + asks[t] + slips[g] <= Claim(g, t) + asks'[t] + slips'[g]
  <2>1. Claim(g, t)' <= Claim(g, t)
    <3>1. CASE g = h
      BY <3>1
    <3>2. CASE g # h
      BY <3>2, ClaimFrame
    <3> QED
      BY <3>1, <3>2
  <2>2. Claim(g, t) \in {0, 1} /\ Claim(g, t)' \in {0, 1}
    BY DEF Claim
  <2> QED
    BY <1>0, <2>1, <2>2 DEF TypeOK
<1>2. sent' = sent /\ \A g \in Host : slips'[g] >= slips[g]
  BY <1>0 DEF TypeOK
<1> QED
  BY <1>0, <1>1, <1>2, DispatchFrame

\* A step of host h that slips pays for whatever it publishes or forgets.
LEMMA DispatchSlip ==
    ASSUME CycleInv, CycleInv', DispatchInv, NEW h \in Host, Slip(h),
           UNCHANGED <<asks, status>>,
           \A g \in Host \ {h} : /\ tasksMap'[g] = tasksMap[g] /\ original'[g] = original[g]
                                 /\ saving'[g] = saving[g],
           \A g \in Host, t \in Task :
              \/ sent'[g][t] = sent[g][t]
              \/ g = h /\ sent'[g][t] = sent[g][t] + 1 /\ Claim(h, t)' <= Claim(h, t)
    PROVE  DispatchInv'
<1>0. TypeOK /\ TypeOK'
  BY DEF CycleInv, TypeInv
<1> SUFFICES ASSUME NEW g \in Host, NEW t \in Task
             PROVE  sent'[g][t] + Claim(g, t)' <= asks'[t] + slips'[g]
  BY DEF DispatchInv
<1>1. sent[g][t] \in Nat /\ asks[t] \in Nat /\ slips[g] \in Nat /\ asks' = asks
  BY <1>0 DEF TypeOK
<1>2. Claim(g, t) \in {0, 1} /\ Claim(g, t)' \in {0, 1}
  BY DEF Claim
<1>3. sent[g][t] + Claim(g, t) <= asks[t] + slips[g]
  BY DEF DispatchInv
<1>4. CASE g = h
  <2>1. slips'[g] = slips[g] + 1
    BY <1>0, <1>4 DEF Slip, TypeOK
  <2> QED
    BY <1>1, <1>2, <1>3, <1>4, <2>1
<1>5. CASE g # h
  <2>1. slips'[g] = slips[g] /\ sent'[g][t] = sent[g][t]
    BY <1>0, <1>5 DEF Slip, TypeOK
  <2>2. Claim(g, t)' <= Claim(g, t)
    BY <1>5, ClaimFrame
  <2> QED
    BY <1>1, <1>2, <1>3, <2>1, <2>2
<1> QED
  BY <1>4, <1>5

LEMMA DispatchSend ==
    ASSUME CycleInv, CycleInv', DispatchInv, NEW h \in Host,
           SendTask(h) \/ SendIsLost(h)
    PROVE  DispatchInv'
<1>0. TypeOK /\ TypeOK' /\ CycleOK(h)
  BY DEF CycleInv, TypeInv
<1>1. PICK t \in todo[h] : /\ sent' = [sent EXCEPT ![h][t] = @ + 1]
                           /\ tasksMap' = [tasksMap EXCEPT ![h][t] = "waiting"]
  BY DEF SendTask, SendIsLost, Sent, Publish
<1>2. t \in Task /\ tasksMap[h][t] = "pending" /\ original[h][t] = "pending" /\ t \in saving[h]
  BY <1>0, <1>1 DEF TypeOK, CycleOK
<1>3. UNCHANGED <<status, original, saving, asks, slips>>
  BY DEF SendTask, SendIsLost, Sent
<1> SUFFICES ASSUME NEW g \in Host, NEW u \in Task
             PROVE  sent'[g][u] + Claim(g, u)' <= asks'[u] + slips'[g]
  BY DEF DispatchInv
<1>4. sent[g][u] \in Nat /\ asks[u] \in Nat /\ slips[g] \in Nat
  BY <1>0 DEF TypeOK
<1>5. Claim(g, u) \in {0, 1} /\ Claim(g, u)' \in {0, 1}
  BY DEF Claim
<1>6. sent[g][u] + Claim(g, u) <= asks[u] + slips[g]
  BY DEF DispatchInv
<1>7. CASE g = h /\ u = t
  <2>1. sent'[g][u] = sent[g][u] + 1
    BY <1>0, <1>1, <1>2, <1>7 DEF TypeOK
  <2>2. Claim(g, u) = 1
    BY <1>2, <1>7 DEF Claim
  <2>3. tasksMap'[g][u] = "waiting" /\ original'[g][u] = "pending" /\ u \in saving'[g]
    BY <1>0, <1>1, <1>2, <1>3, <1>7 DEF TypeOK, TasksMap
  <2>4. Claim(g, u)' = 0
    BY <2>3 DEF Claim, Awaiting
  <2> QED
    BY <1>3, <1>4, <1>6, <2>1, <2>2, <2>4
<1>8. CASE ~(g = h /\ u = t)
  <2>1. sent'[g][u] = sent[g][u]
    BY <1>0, <1>1, <1>2, <1>8 DEF TypeOK
  <2>2. tasksMap'[g][u] = tasksMap[g][u]
    BY <1>0, <1>1, <1>2, <1>8 DEF TypeOK, TasksMap
  <2>3. Claim(g, u)' = Claim(g, u)
    BY <1>3, <2>2 DEF Claim, Awaiting
  <2> QED
    BY <1>3, <1>4, <1>5, <1>6, <2>1, <2>3
<1> QED
  BY <1>7, <1>8

LEMMA DispatchHost ==
    ASSUME CycleInv, CycleInv', DispatchInv, NEW h \in Host, HostStep(h)
    PROVE  DispatchInv'
<1>0. TypeOK /\ CycleOK(h) /\ \A t \in Task : status[t] # "retrying"
  BY DEF CycleInv, TypeInv
<1>1. CASE EmptyCycle(h)
  BY <1>1, DispatchElsewhere DEF EmptyCycle, vars
<1>2. CASE FetchAndPlan(h)
  <2>1. PICK F \in FetchTasks(status, created) :
          /\ original' = [original EXCEPT ![h] = BuildMap(status, F)]
          /\ tasksMap' = [tasksMap EXCEPT ![h] = PropagateFailures(BuildMap(status, F))]
          /\ saving' = [saving EXCEPT ![h] = F]
    BY <1>2 DEF FetchAndPlan
  <2>2. original'[h] = BuildMap(status, F) /\ tasksMap'[h] = BuildMap(status, F)
    BY <1>0, <2>1, FetchedMap DEF TypeOK
  <2>3. UNCHANGED <<sent, slips, asks, status>> /\ tasksMap[h] = EmptyMap
    BY <1>0, <1>2 DEF FetchAndPlan, CycleOK
  <2>4. \A t \in Task : Claim(h, t)' <= Claim(h, t)
    BY <2>2, <2>3 DEF Claim, Awaiting, BuildMap, EmptyMap, Missing
  <2>5. \A g \in Host \ {h} : /\ tasksMap'[g] = tasksMap[g] /\ original'[g] = original[g]
                              /\ saving'[g] = saving[g]
    BY <1>0, <2>1 DEF TypeOK
  <2> QED
    BY <2>3, <2>4, <2>5, DispatchSilent
<1>3. CASE VisitQueue(h) \/ VisitFails(h)
  <2>1. UNCHANGED <<sent, slips, asks, status, tasksMap, original, saving>>
    BY <1>3 DEF VisitQueue, VisitFails, Visit
  <2>2. \A t \in Task : Claim(h, t)' <= Claim(h, t)
    BY <2>1, ClaimFrame
  <2> QED
    BY <2>1, <2>2, DispatchSilent
<1>4. CASE SendTask(h) \/ SendIsLost(h)
  BY <1>4, DispatchSend
<1>5. CASE SendFails(h)
  <2>1. UNCHANGED <<asks, status, tasksMap, original, saving>> /\ Slip(h)
    BY <1>5 DEF SendFails
  <2>2. ASSUME NEW g \in Host, NEW t \in Task
        PROVE  \/ sent'[g][t] = sent[g][t]
               \/ g = h /\ sent'[g][t] = sent[g][t] + 1
    <3>1. PICK u \in todo[h] : Publish(h, u) \/ sent' = sent
      BY <1>5 DEF SendFails
    <3>2. CASE Publish(h, u)
      BY <1>0, <3>2 DEF Publish, TypeOK
    <3> QED
      BY <3>1, <3>2
  <2>3. \A t \in Task : Claim(h, t)' <= Claim(h, t)
    BY <2>1, ClaimFrame
  <2> QED
    BY <2>1, <2>2, <2>3, DispatchSlip
<1>6. CASE UpdateParent(h)
  <2>1. UNCHANGED <<sent, slips, asks, status, tasksMap, original, saving>>
    BY <1>6, ParentsUntouched DEF UpdateParent
  <2>2. \A t \in Task : Claim(h, t)' <= Claim(h, t)
    BY <2>1, ClaimFrame
  <2> QED
    BY <2>1, <2>2, DispatchSilent
<1>7. CASE PersistTask(h)
  <2>1. PICK t \in saving[h] :
          /\ t \in Task /\ original[h][t] = "pending" /\ tasksMap[h][t] = "waiting"
          /\ saving' = [saving EXCEPT ![h] = @ \ {t}]
          /\ status' = [status EXCEPT ![t] = IF @ = "pending" THEN "waiting" ELSE @]
    BY <1>7, PersistWritesWaiting
  <2>2. UNCHANGED <<sent, slips, asks, tasksMap, original>>
    BY <1>7 DEF PersistTask
  <2>3. \A u \in Task : status'[u] = "pending" => status[u] = "pending"
    BY <1>0, <2>1 DEF TypeOK, TasksMap
  <2>4. ASSUME NEW u \in Task PROVE Claim(h, u)' <= Claim(h, u)
    <3>1. CASE u = t
      <4>1. status'[t] # "pending" /\ tasksMap'[h][t] = "waiting"
        BY <1>0, <2>1, <2>2 DEF TypeOK, TasksMap
      <4> QED
        BY <3>1, <4>1 DEF Claim
    <3>2. CASE u # t
      <4>1. Awaiting(h, u)' = Awaiting(h, u)
        BY <1>0, <2>1, <2>2, <3>2 DEF Awaiting, TypeOK
      <4> QED
        BY <2>2, <2>3, <4>1 DEF Claim
    <3> QED
      BY <3>1, <3>2
  <2>5. \A g \in Host \ {h} : saving'[g] = saving[g]
    BY <1>0, <2>1 DEF TypeOK
  <2> QED
    BY <2>2, <2>3, <2>4, <2>5, DispatchSilent
<1>8. CASE FinishCycle(h)
  <2>1. EndCycle(h) /\ UNCHANGED <<slips, sent, asks, status>> /\ ToSave(h) = {}
    BY <1>8 DEF FinishCycle, EndCycle
  <2>2. tasksMap'[h] = EmptyMap
    BY <1>0, <2>1 DEF EndCycle, TypeOK
  <2>3. \A t \in Task : ~Awaiting(h, t)
    BY <2>1 DEF Awaiting, ToSave
  <2>4. \A t \in Task : Claim(h, t)' <= Claim(h, t)
    BY <2>1, <2>2, <2>3 DEF Claim, EmptyMap, Missing
  <2>5. \A g \in Host \ {h} : /\ tasksMap'[g] = tasksMap[g] /\ original'[g] = original[g]
                              /\ saving'[g] = saving[g]
    BY <1>0, <2>1 DEF EndCycle, TypeOK
  <2> QED
    BY <2>1, <2>4, <2>5, DispatchSilent
<1>9. CASE AbortCycle(h)
  <2>1. EndCycle(h) /\ Slip(h) /\ UNCHANGED <<sent, asks, status>>
    BY <1>9 DEF AbortCycle, EndCycle
  <2>2. \A g \in Host \ {h} : /\ tasksMap'[g] = tasksMap[g] /\ original'[g] = original[g]
                              /\ saving'[g] = saving[g]
    BY <1>0, <2>1 DEF EndCycle, TypeOK
  <2>3. \A g \in Host, t \in Task : sent'[g][t] = sent[g][t]
    BY <2>1
  <2> QED
    BY <2>1, <2>2, <2>3, DispatchSlip
<1> QED
  BY <1>1, <1>2, <1>3, <1>4, <1>5, <1>6, <1>7, <1>8, <1>9 DEF HostStep, CycleStep

LEMMA DispatchStep == CycleInv /\ CycleInv' /\ DispatchInv /\ [Next]_vars => DispatchInv'
<1> SUFFICES ASSUME CycleInv, CycleInv', DispatchInv, [Next]_vars PROVE DispatchInv'
  OBVIOUS
<1>0. TypeOK
  BY DEF CycleInv, TypeInv
<1>1. CASE UNCHANGED vars
  BY <1>1, DispatchElsewhere DEF vars
<1>2. ASSUME NEW t \in Task, UserStep(t) PROVE DispatchInv'
  BY <1>2, DispatchUser
<1>3. ASSUME NEW h \in Host, HostStep(h) PROVE DispatchInv'
  BY <1>3, DispatchHost
<1>4. ASSUME NEW w \in Worker, WorkerStep(w) PROVE DispatchInv'
  <2>1. UNCHANGED <<hostVars, asks, status>>
    BY <1>4 DEF WorkerStep, HandlerStep, WorkerFault, ServiceRegister, WorkerLaunch,
      Receive, CheckStatus, CheckCapacity, Spawn, Ack, CheckFails, CapacityFails, SpawnFails,
      ConnectionLost, WorkerCrash, SlotsExpire, StatusExpires
  <2> QED
    BY <2>1, DispatchElsewhere
<1>5. ASSUME NEW p \in Proc, ProcStep(p) PROVE DispatchInv'
  <2>1. UNCHANGED <<hostVars, asks>>
    BY <1>5 DEF ProcStep, TaskStep, Report, ReportRunning, ReportSuccess,
      ReportFailure, EnterRunSet, LeaveRunSet, ReportFails, Die
  <2>2. \A t \in Task : status'[t] = "pending" => status[t] = "pending"
    BY <1>0, <1>5 DEF ProcStep, TaskStep, Report, ReportRunning, ReportSuccess,
      ReportFailure, EnterRunSet, LeaveRunSet, ReportFails, Die, TypeOK, TasksMap
  <2> QED
    BY <2>1, <2>2, DispatchElsewhere
<1> QED
  BY <1>1, <1>2, <1>3, <1>4, <1>5 DEF Next

(* However many hosts schedule the same documents, each publishes a task at *)
(* most once per submission or retry, plus once per failed publish or       *)
(* aborted cycle of its own.                                                *)
THEOREM DispatchBoundCorrect == Spec => []DispatchBound
<1>1. CycleInv /\ DispatchInv => DispatchBound
  <2> SUFFICES ASSUME CycleInv, DispatchInv, NEW h \in Host, NEW t \in Task
               PROVE  sent[h][t] <= asks[t] + slips[h]
    BY DEF DispatchBound
  <2>1. sent[h][t] \in Nat /\ asks[t] \in Nat /\ slips[h] \in Nat
    BY DEF CycleInv, TypeInv, TypeOK
  <2>2. sent[h][t] + Claim(h, t) <= asks[t] + slips[h] /\ Claim(h, t) \in Nat
    BY DEF DispatchInv, Claim
  <2> QED
    BY <2>1, <2>2
<1> QED
  BY <1>1, CycleCorrect, DispatchInit, DispatchStep, PTL DEF Spec

-----------------------------------------------------------------------------
\* Order of dispatch and dependencies.  A fetched map has no SUCCESS, so what
\* a cycle finds runnable is PENDING and depends on nothing.
LEMMA RunnableIndependent ==
    ASSUME NEW map, \A t \in Task : map[t] \in Fetched, NEW t \in FindRunnable(map)
    PROVE  t \in Task /\ map[t] = "pending" /\ DependsOn[t] = {}
<1>1. t \in Task /\ map[t] = "pending"
  BY DEF FindRunnable, Fetched, Missing
<1>2. ASSUME NEW d \in DependsOn[t] PROVE FALSE
  <2>1. d \in Task /\ map[d] = "success"
    BY <1>1, <1>2, TaskAssumption DEF FindRunnable
  <2> QED
    BY <2>1 DEF Fetched, Missing
<1> QED
  BY <1>1, <1>2

IndependentInv ==
    /\ \A h \in Host : \A t \in todo[h] : DependsOn[t] = {}
    /\ \A h \in Host, t \in Task : sent[h][t] > 0 => DependsOn[t] = {}

\* A host only visits a queue, or publishes from its list and shortens it.
LEMMA IndependentStep == CycleInv /\ IndependentInv /\ [Next]_vars => IndependentInv'
<1> SUFFICES ASSUME CycleInv, IndependentInv, [Next]_vars PROVE IndependentInv'
  OBVIOUS
<1>0. TypeOK
  BY DEF CycleInv, TypeInv
<1>1. CASE UNCHANGED <<todo, sent>>
  BY <1>1 DEF IndependentInv
<1>2. ASSUME NEW h \in Host, HostStep(h), ~UNCHANGED <<todo, sent>> PROVE IndependentInv'
  <2>1. CASE VisitQueue(h) \/ VisitFails(h)
    <3>1. PICK q \in queues[h] : \E slots : Visit(h, q, slots)
      BY <2>1 DEF VisitQueue, VisitFails
    <3>2. sent' = sent /\ \A g \in Host : g # h => todo'[g] = todo[g]
      BY <1>0, <3>1 DEF Visit, TypeOK
    <3>3. todo'[h] \subseteq FindRunnable(tasksMap[h])
      BY <1>0, <3>1 DEF Visit, TypeOK
    <3>4. \A t \in todo'[h] : DependsOn[t] = {}
      BY <3>3, MapFetched, RunnableIndependent
    <3> QED
      BY <3>2, <3>4 DEF IndependentInv
  <2>2. CASE SendTask(h) \/ SendIsLost(h) \/ SendFails(h)
    <3>1. PICK t \in todo[h] : sent' = [sent EXCEPT ![h][t] = @ + 1] \/ sent' = sent
      BY <2>2 DEF SendTask, SendIsLost, SendFails, Publish
    <3>2. \A g \in Host : todo'[g] \subseteq todo[g]
      BY <1>0, <2>2 DEF SendTask, SendIsLost, Sent, SendFails, NextTask, TypeOK
    <3>3. ASSUME NEW g \in Host, NEW u \in Task
          PROVE  sent'[g][u] = sent[g][u] \/ u = t
      <4>1. CASE sent' = [sent EXCEPT ![h][t] = @ + 1]
        BY <1>0, <4>1 DEF TypeOK
      <4> QED
        BY <3>1, <4>1
    <3> QED
      BY <3>1, <3>2, <3>3 DEF IndependentInv
  <2>3. CASE FinishCycle(h) \/ AbortCycle(h)
    <3>1. sent' = sent /\ \A g \in Host : todo'[g] \subseteq todo[g]
      BY <1>0, <2>3 DEF FinishCycle, AbortCycle, EndCycle, TypeOK
    <3> QED
      BY <3>1 DEF IndependentInv
  <2> QED
    BY <1>2, <2>1, <2>2, <2>3 DEF HostStep, CycleStep, EmptyCycle, vars, FetchAndPlan,
      UpdateParent, PersistTask
<1>3. Next => UNCHANGED <<todo, sent>> \/ \E h \in Host : HostStep(h)
  BY DEF Next, UserStep, Submit, TaskStop, TaskRetry, WorkerStep, HandlerStep, WorkerFault,
    ServiceRegister, WorkerLaunch, Receive, CheckStatus, CheckCapacity, Spawn, Ack, CheckFails,
    CapacityFails, SpawnFails, ConnectionLost, WorkerCrash, SlotsExpire, StatusExpires,
    ProcStep, TaskStep, Report, ReportRunning, ReportSuccess, ReportFailure, EnterRunSet,
    LeaveRunSet, ReportFails, Die
<1> QED
  BY <1>1, <1>2, <1>3 DEF vars

LEMMA IndependentCorrect == Spec => []IndependentInv
<1>1. Init => IndependentInv
  BY DEF Init, IndependentInv
<1> QED
  BY <1>1, CycleCorrect, IndependentStep, PTL DEF Spec

-----------------------------------------------------------------------------
(* What the list of the visited queue holds in a cycle that lost no send:   *)
(* every runnable task of that queue that was not published.                *)
ListedOK(h) ==
    \A t \in todo[h], u \in FindRunnable(original[h]) :
        QueueName[u] = QueueName[t] /\ tasksMap[h][u] # "waiting" => u \in todo[h]

RankedOK(h) ==
    \A t, u \in FindRunnable(original[h]) :
        LET rt == Rank(original[h], t)  ru == Rank(original[h], u) IN
        /\ QueueName[t] = QueueName[u]
        /\ tasksMap[h][t] = "waiting" /\ tasksMap[h][u] # "waiting"
        => /\ ru[1] => rt[1]
           /\ ru[1] = rt[1] => ru[2] <= rt[2]

OrderInv == \A h \in Host : slips[h] = 0 => ListedOK(h) /\ RankedOK(h)

\* The map the cycle works on ranks tasks like the one it fetched: publishing
\* turns PENDING into WAITING, and priority asks for a RUNNING parent.
LEMMA RankKept ==
    ASSUME CycleInv, NEW h \in Host, NEW t \in todo[h], NEW u \in todo[h],
           ~Outranks(tasksMap[h], stamps[h], u, t)
    PROVE  LET rt == Rank(original[h], t)  ru == Rank(original[h], u) IN
           /\ ru[1] => rt[1]
           /\ ru[1] = rt[1] => ru[2] <= rt[2]
<1>0. TypeOK /\ CycleOK(h) /\ t \in Task /\ u \in Task
  BY DEF CycleInv, TypeInv, TypeOK
<1> DEFINE Priority(x) == SourceId[x] # None /\ original[h][SourceId[x]] = "running"
<1>1. ASSUME NEW x \in todo[h]
      PROVE  x \in PrioritySubtasks(tasksMap[h]) <=> Priority(x)
  <2>1. x \in Task /\ tasksMap[h][x] = "pending"
    BY <1>0 DEF CycleOK, TypeOK
  <2>2. x \in InMap(tasksMap[h])
    BY <2>1 DEF InMap, Missing
  <2>3. CASE SourceId[x] # None
    <3>1. SourceId[x] \in Task
      BY <2>1, <2>3, TaskAssumption
    <3>2. tasksMap[h][SourceId[x]] = "running" <=> original[h][SourceId[x]] = "running"
      BY <1>0, <3>1 DEF CycleOK
    <3> QED
      BY <2>2, <2>3, <3>2 DEF PrioritySubtasks
  <2> QED
    BY <2>3 DEF PrioritySubtasks
<1>2. ~(Priority(u) /\ ~Priority(t))
  BY <1>1 DEF Outranks
<1>3. Priority(u) <=> Priority(t) => ~(Weight[u] > Weight[t])
  BY <1>1 DEF Outranks
<1>4. Weight[u] \in Nat /\ Weight[t] \in Nat
  BY <1>0, TaskAssumption
<1>5. /\ Rank(original[h], t) = <<Priority(t), Weight[t]>>
      /\ Rank(original[h], u) = <<Priority(u), Weight[u]>>
  BY DEF Rank
<1> HIDE DEF Priority
<1>6. /\ Rank(original[h], t)[1] = Priority(t) /\ Rank(original[h], t)[2] = Weight[t]
      /\ Rank(original[h], u)[1] = Priority(u) /\ Rank(original[h], u)[2] = Weight[u]
  BY <1>5
<1>7. Priority(u) \in BOOLEAN /\ Priority(t) \in BOOLEAN
  BY DEF Priority
<1> QED
  BY <1>2, <1>3, <1>4, <1>6, <1>7

LEMMA OrderFrame ==
    ASSUME OrderInv, NEW h \in Host,
           tasksMap'[h] = tasksMap[h], original'[h] = original[h],
           todo'[h] = todo[h], slips'[h] = slips[h], slips'[h] = 0
    PROVE  ListedOK(h)' /\ RankedOK(h)'
<1>1. ListedOK(h) /\ RankedOK(h)
  BY DEF OrderInv
<1>2. ListedOK(h)'
  BY <1>1 DEF ListedOK
<1>3. \A t : Rank(original'[h], t) = Rank(original[h], t)
  OBVIOUS
<1>4. RankedOK(h)'
  BY <1>1, <1>3 DEF RankedOK
<1> QED
  BY <1>2, <1>4

LEMMA OrderSend ==
    ASSUME CycleInv, OrderInv, NEW h \in Host, slips[h] = 0,
           SendTask(h) \/ SendIsLost(h)
    PROVE  ListedOK(h)' /\ RankedOK(h)'
<1>0. TypeOK /\ CycleOK(h) /\ ListedOK(h) /\ RankedOK(h)
  BY DEF CycleInv, TypeInv, OrderInv
<1>1. PICK t \in todo[h] : /\ Best(h, t) /\ NextTask(h, t)
                           /\ tasksMap' = [tasksMap EXCEPT ![h][t] = "waiting"]
  BY DEF SendTask, SendIsLost, Sent
<1>2. /\ t \in Task /\ tasksMap'[h] = [tasksMap[h] EXCEPT ![t] = "waiting"]
      /\ tasksMap[h] \in [Task -> STATUS \cup {Missing}]
      /\ original' = original
  BY <1>0, <1>1 DEF SendTask, SendIsLost, Sent, TypeOK, TasksMap
<1>3. tasksMap'[h][t] = "waiting" /\ \A u \in Task : u # t => tasksMap'[h][u] = tasksMap[h][u]
  BY <1>2
<1>4. todo'[h] = {} \/ todo'[h] = todo[h] \ {t}
  BY <1>0, <1>1 DEF NextTask, TypeOK
<1>5. FindRunnable(original[h]) \subseteq Task
  BY DEF FindRunnable
<1>6. ListedOK(h)'
  <2>1. ASSUME NEW v \in todo'[h], NEW u \in FindRunnable(original[h]),
               QueueName[u] = QueueName[v], tasksMap'[h][u] # "waiting"
        PROVE  u \in todo'[h]
    <3>1. u # t /\ u \in Task /\ tasksMap[h][u] # "waiting"
      BY <1>3, <1>5, <2>1
    <3>2. v \in todo[h] /\ todo'[h] = todo[h] \ {t}
      BY <1>4
    <3> QED
      BY <1>0, <2>1, <3>1, <3>2 DEF ListedOK
  <2> QED
    BY <1>2, <2>1 DEF ListedOK
<1>7. RankedOK(h)'
  <2> SUFFICES ASSUME NEW v \in FindRunnable(original[h]), NEW u \in FindRunnable(original[h]),
                      QueueName[v] = QueueName[u],
                      tasksMap'[h][v] = "waiting", tasksMap'[h][u] # "waiting"
               PROVE  LET rt == Rank(original[h], v)  ru == Rank(original[h], u) IN
                      /\ ru[1] => rt[1]
                      /\ ru[1] = rt[1] => ru[2] <= rt[2]
    BY <1>2 DEF RankedOK
  <2>1. u # t /\ u \in Task /\ v \in Task /\ tasksMap[h][u] # "waiting"
    BY <1>3, <1>5
  <2>2. CASE v = t
    <3>1. u \in todo[h]
      BY <1>0, <2>1, <2>2 DEF ListedOK
    <3>2. ~Outranks(tasksMap[h], stamps[h], u, t)
      BY <1>1, <3>1 DEF Best
    <3> QED
      BY <2>2, <3>1, <3>2, RankKept
  <2>3. CASE v # t
    <3>1. tasksMap[h][v] = "waiting"
      BY <1>3, <2>1, <2>3
    <3> QED
      BY <1>0, <2>1, <3>1 DEF RankedOK
  <2> QED
    BY <2>2, <2>3
<1> QED
  BY <1>6, <1>7

LEMMA OrderHost ==
    ASSUME CycleInv, OrderInv, NEW h \in Host, HostStep(h), slips'[h] = 0
    PROVE  ListedOK(h)' /\ RankedOK(h)'
<1>0. TypeOK /\ CycleOK(h) /\ \A t \in Task : status[t] # "retrying"
  BY DEF CycleInv, TypeInv
<1>1. CASE EmptyCycle(h) \/ PersistTask(h)
  BY <1>1, OrderFrame DEF EmptyCycle, PersistTask, vars
<1>2. CASE FetchAndPlan(h)
  <2>1. PICK F \in FetchTasks(status, created) :
          /\ original' = [original EXCEPT ![h] = BuildMap(status, F)]
          /\ tasksMap' = [tasksMap EXCEPT ![h] = PropagateFailures(BuildMap(status, F))]
    BY <1>2 DEF FetchAndPlan
  <2>2. original'[h] = BuildMap(status, F) /\ tasksMap'[h] = original'[h]
    BY <1>0, <2>1, FetchedMap DEF TypeOK
  <2>3. todo'[h] = {}
    <3>1. pc[h] = "idle" /\ todo' = todo /\ tasksMap[h] = EmptyMap
      BY <1>0, <1>2 DEF FetchAndPlan, CycleOK
    <3>2. \A t \in todo[h] : t \in Task /\ EmptyMap[t] = "pending"
      BY <1>0, <3>1 DEF CycleOK, TypeOK
    <3> QED
      BY <3>1, <3>2 DEF EmptyMap, Missing
  <2>4. \A t \in FindRunnable(original'[h]) : tasksMap'[h][t] # "waiting"
    BY <2>2 DEF FindRunnable
  <2> QED
    BY <2>3, <2>4 DEF ListedOK, RankedOK
<1>3. CASE VisitQueue(h) \/ VisitFails(h)
  <2>1. PICK q \in queues[h] : \E slots : Visit(h, q, slots)
    BY <1>3 DEF VisitQueue, VisitFails
  <2>2. UNCHANGED <<tasksMap, original, slips>>
    BY <2>1 DEF Visit
  <2>3. RankedOK(h)'
    BY <2>2 DEF OrderInv, RankedOK
  <2>4. \/ todo'[h] = {}
        \/ todo'[h] = {t \in FindRunnable(tasksMap[h]) : QueueName[t] = q}
    BY <1>0, <2>1 DEF Visit, TypeOK
  <2>5. ASSUME NEW u \in FindRunnable(original[h]), tasksMap[h][u] # "waiting"
        PROVE  u \in FindRunnable(tasksMap[h])
    <3>1. u \in Task /\ original[h][u] = "pending" /\ DependsOn[u] = {}
      BY <1>0, RunnableIndependent DEF CycleOK
    <3>2. tasksMap[h][u] = "pending"
      BY <1>0, <2>5, <3>1 DEF CycleOK
    <3> QED
      BY <3>1, <3>2 DEF FindRunnable
  <2>6. ListedOK(h)'
    BY <2>2, <2>4, <2>5 DEF ListedOK
  <2> QED
    BY <2>3, <2>6
<1>4. CASE SendTask(h) \/ SendIsLost(h)
  BY <1>4, OrderSend DEF SendTask, SendIsLost, Sent
<1>5. CASE SendFails(h) \/ AbortCycle(h)
  BY <1>0, <1>5 DEF SendFails, AbortCycle, Slip, TypeOK
<1>6. CASE UpdateParent(h)
  BY <1>6, ParentsUntouched, OrderFrame DEF UpdateParent
<1>7. CASE FinishCycle(h)
  <2>1. tasksMap'[h] = EmptyMap /\ todo'[h] = {}
    BY <1>0, <1>7 DEF FinishCycle, EndCycle, TypeOK
  <2>2. \A t \in Task : tasksMap'[h][t] # "waiting"
    BY <2>1 DEF EmptyMap, Missing
  <2>3. FindRunnable(original'[h]) \subseteq Task
    BY DEF FindRunnable
  <2> QED
    BY <2>1, <2>2, <2>3 DEF ListedOK, RankedOK
<1> QED
  BY <1>1, <1>2, <1>3, <1>4, <1>5, <1>6, <1>7 DEF HostStep, CycleStep

\* A host's cycle is its own.
LEMMA HostsApart ==
    ASSUME TypeOK, NEW h \in Host, HostStep(h), NEW g \in Host \ {h}
    PROVE  /\ tasksMap'[g] = tasksMap[g] /\ original'[g] = original[g]
           /\ todo'[g] = todo[g] /\ slips'[g] = slips[g]
BY DEF HostStep, CycleStep, EmptyCycle, vars, FetchAndPlan, VisitQueue, VisitFails, Visit,
  SendTask, SendIsLost, Sent, SendFails, NextTask, UpdateParent, PersistTask, FinishCycle, AbortCycle, EndCycle,
  Slip, TypeOK

LEMMA OrderStep == CycleInv /\ OrderInv /\ [Next]_vars => OrderInv'
<1> SUFFICES ASSUME CycleInv, OrderInv, [Next]_vars, NEW g \in Host, slips'[g] = 0
             PROVE  ListedOK(g)' /\ RankedOK(g)'
  BY DEF OrderInv
<1>0. TypeOK
  BY DEF CycleInv, TypeInv
<1>1. CASE UNCHANGED <<cycleVars, slips>>
  BY <1>1, OrderFrame
<1>2. ASSUME NEW h \in Host, HostStep(h) PROVE ListedOK(g)' /\ RankedOK(g)'
  <2>1. CASE g = h
    BY <1>2, <2>1, OrderHost
  <2>2. CASE g # h
    BY <1>0, <1>2, <2>2, HostsApart, OrderFrame
  <2> QED
    BY <2>1, <2>2
<1>3. Next => UNCHANGED <<cycleVars, slips>> \/ \E h \in Host : HostStep(h)
  BY DEF Next, UserStep, Submit, TaskStop, TaskRetry, WorkerStep, HandlerStep, WorkerFault,
    ServiceRegister, WorkerLaunch, Receive, CheckStatus, CheckCapacity, Spawn, Ack, CheckFails,
    CapacityFails, SpawnFails, ConnectionLost, WorkerCrash, SlotsExpire, StatusExpires,
    ProcStep, TaskStep, Report, ReportRunning, ReportSuccess, ReportFailure, EnterRunSet,
    LeaveRunSet, ReportFails, Die
<1> QED
  BY <1>1, <1>2, <1>3 DEF vars

(* A cycle without failed sends publishes the best ranked tasks of a queue: *)
(* it passes over none for one that ranks lower, although its slots run out *)
(* and its own publications change the map it ranks them by.                *)
THEOREM BestFirstCorrect == Spec => []BestFirst
<1>1. Init => OrderInv
  BY DEF Init, OrderInv, ListedOK, RankedOK, EmptyMap, FindRunnable, Missing
<1>2. OrderInv => BestFirst
  BY DEF OrderInv, RankedOK, BestFirst
<1> QED
  BY <1>1, <1>2, CycleCorrect, OrderStep, PTL DEF Spec
=============================================================================
