-------------------------- MODULE TaskDeliveryProofs --------------------------
(***************************************************************************)
(* What happens to a published message, proved for every number of tasks,  *)
(* hosts, workers and processes: it is in one place at a time until the    *)
(* broker takes it back, so it starts one process; a task stopped before a *)
(* worker looked at it is never looked at afterwards; the run sets leak no *)
(* slot; no message and no WAITING task is lost; what a task reported      *)
(* stays; executions are bounded; and the whole implements TaskLife.       *)
(***************************************************************************)
EXTENDS TaskPipelineProofs

USE DEF dbVars, cycleVars, hostVars, brokerVars, handlerVars, procVars

(* A handler has a message from its delivery to its answer, and will still  *)
(* start a process for it until it has.                                     *)
Busy(w)    == wpc[w] \in {"check", "capacity", "spawn", "ack"}
Holding(w) == wpc[w] \in {"check", "capacity", "spawn"}
Started(p) == ppc[p] # "free"

HandlerInv ==
    \A w \in Worker :
        /\ Busy(w) => msg[w] \in Message /\ QueueName[msg[w].task] = Serves[w]
        /\ unacked[w] => Busy(w)

\* No message is newer than its host's last one for its task.
FreshInv ==
    /\ \A m \in ready \cup redelivered : m.seq <= sent[m.host][m.task]
    /\ \A w \in Worker : Busy(w) => msg[w].seq <= sent[msg[w].host][msg[w].task]
    /\ \A p \in Proc : Started(p) => /\ pmsg[p] \in Message
                                     /\ pmsg[p].seq <= sent[pmsg[p].host][pmsg[p].task]

\* A message the broker never took back is in one place.
OnceInv ==
    /\ \A m \in ready \ redelivered :
          /\ \A w \in Worker : Busy(w) => msg[w] # m
          /\ \A p \in Proc : Started(p) => pmsg[p] # m
    /\ \A w \in Worker, p \in Proc :
          Holding(w) /\ Started(p) /\ msg[w] = pmsg[p] => msg[w] \in redelivered
    /\ \A v, w \in Worker :
          v # w /\ Busy(v) /\ Busy(w) /\ msg[v] = msg[w] => msg[w] \in redelivered
    /\ \A p, q \in Proc :
          p # q /\ Started(p) /\ Started(q) /\ pmsg[p] = pmsg[q] => pmsg[p] \in redelivered

MessageInv == TypeInv /\ HandlerInv /\ FreshInv /\ OnceInv

LEMMA MessageInit == Init => MessageInv
<1> SUFFICES ASSUME Init PROVE MessageInv
  OBVIOUS
<1>1. /\ ready = {} /\ redelivered = {}
      /\ \A w \in Worker : ~Busy(w) /\ ~Holding(w) /\ ~unacked[w]
      /\ \A p \in Proc : ~Started(p)
  BY DEF Init, Busy, Holding, Started
<1> QED
  BY <1>1, TypeInit DEF MessageInv, HandlerInv, FreshInv, OnceInv

-----------------------------------------------------------------------------
\* A step that starts no process and gives no handler a message.
LEMMA MessageFrame ==
    ASSUME MessageInv, TypeInv', UNCHANGED sent,
           ready' \ redelivered' \subseteq ready \ redelivered,
           redelivered \subseteq redelivered',
           \A m \in ready' \cup redelivered' :
              m \in ready \cup redelivered \/ \E w \in Worker : Busy(w) /\ m = msg[w],
           \A w \in Worker : Busy(w)' => Busy(w) /\ msg'[w] = msg[w],
           \A w \in Worker : Holding(w)' => Holding(w),
           \A w \in Worker : unacked'[w] => Busy(w)',
           \A p \in Proc : Started(p)' => Started(p) /\ pmsg'[p] = pmsg[p]
    PROVE  MessageInv'
<1>1. HandlerInv'
  BY DEF MessageInv, HandlerInv
<1>2. FreshInv'
  BY DEF MessageInv, FreshInv
<1>3. OnceInv'
  <2>1. \A w \in Worker : Holding(w)' => Busy(w)'
    BY DEF Holding, Busy
  <2> QED
    BY <2>1 DEF MessageInv, OnceInv
<1> QED
  BY <1>1, <1>2, <1>3 DEF MessageInv

\* A host publishes: the broker gets one new message, or loses it at once.
CountsSend(h, t) == sent' = [sent EXCEPT ![h][t] = @ + 1]
Sends(h, t) ==
    /\ CountsSend(h, t)
    /\ \/ ready' = ready \cup {Publication(h, t)} /\ UNCHANGED lost
       \/ lost' = lost \cup {Publication(h, t)} /\ UNCHANGED ready

LEMMA SendStep ==
    ASSUME NEW h \in Host, HostStep(h)
    PROVE  UNCHANGED <<ready, sent, lost>> \/ \E t \in todo[h] : Sends(h, t)
BY DEF Sends, CountsSend, Publish, HostStep, CycleStep, EmptyCycle, vars, FetchAndPlan,
  VisitQueue, VisitFails, Visit, SendTask, SendIsLost, Sent, SendFails, UpdateParent,
  PersistTask, FinishCycle, AbortCycle, EndCycle

LEMMA MessagePublish ==
    ASSUME MessageInv, TypeInv', NEW h \in Host, NEW t \in Task, Sends(h, t),
           UNCHANGED <<redelivered, unacked, handlerVars, procVars>>
    PROVE  MessageInv'
<1> DEFINE new == Publication(h, t)
<1>1. TypeOK
  BY DEF MessageInv, TypeInv
<1>2. /\ ready' \subseteq ready \cup {new} /\ ready \subseteq ready'
      /\ new.seq = sent[h][t] + 1
      /\ new.task = t /\ new.host = h /\ sent[h][t] \in Nat
  BY <1>1 DEF Sends, Publication, TypeOK
<1>3. \A m \in Message : m.seq <= sent[m.host][m.task]
                         => m # new /\ m.seq <= sent'[m.host][m.task]
  <2> SUFFICES ASSUME NEW m \in Message, m.seq <= sent[m.host][m.task]
               PROVE  m # new /\ m.seq <= sent'[m.host][m.task]
    OBVIOUS
  <2>1. m.host \in Host /\ m.task \in Task /\ m.seq \in Nat
    BY DEF Message
  <2>2. sent'[m.host][m.task] = sent[m.host][m.task]
        \/ (m.host = h /\ m.task = t /\ sent'[h][t] = sent[h][t] + 1)
    BY <1>1, <2>1 DEF Sends, CountsSend, TypeOK
  <2> QED
    BY <1>1, <1>2, <2>1, <2>2 DEF TypeOK
<1> HIDE DEF new
<1>4. HandlerInv'
  BY DEF MessageInv, HandlerInv, Busy
<1>5. FreshInv'
  <2>1. new.seq <= sent'[new.host][new.task]
    BY <1>1, <1>2 DEF Sends, CountsSend, TypeOK
  <2>2. ready \cup redelivered \subseteq Message
    BY <1>1 DEF TypeOK
  <2>3. \A w \in Worker : Busy(w) => msg[w] \in Message
    BY DEF MessageInv, HandlerInv
  <2> QED
    BY <1>2, <1>3, <2>1, <2>2, <2>3 DEF MessageInv, FreshInv, Busy, Started
<1>6. OnceInv'
  <2>1. \A w \in Worker : Busy(w) => msg[w] # new
    BY <1>3 DEF MessageInv, HandlerInv, FreshInv
  <2>2. \A p \in Proc : Started(p) => pmsg[p] # new
    BY <1>3 DEF MessageInv, FreshInv
  <2> QED
    BY <1>2, <2>1, <2>2 DEF MessageInv, OnceInv, Busy, Holding, Started
<1> QED
  BY <1>4, <1>5, <1>6 DEF MessageInv

LEMMA MessageReceive ==
    ASSUME MessageInv, TypeInv', NEW w \in Worker, Receive(w)
    PROVE  MessageInv'
<1>0. TypeOK
  BY DEF MessageInv, TypeInv
<1>1. PICK m \in ready : /\ QueueName[m.task] = Serves[w]
                         /\ ready' = ready \ {m}
                         /\ msg' = [msg EXCEPT ![w] = m]
  BY DEF Receive
<1>2. m \in Message /\ msg'[w] = m /\ \A v \in Worker \ {w} : msg'[v] = msg[v]
  BY <1>0, <1>1 DEF TypeOK
<1>3. /\ Busy(w)' /\ Holding(w)' /\ ~Busy(w)
      /\ \A v \in Worker \ {w} : Busy(v)' = Busy(v) /\ Holding(v)' = Holding(v)
  BY <1>0 DEF Receive, TypeOK, Busy, Holding
<1>4. UNCHANGED <<sent, redelivered, ppc, pmsg>>
  BY DEF Receive
<1>5. HandlerInv'
  <2>1. \A v \in Worker \ {w} : unacked'[v] = unacked[v]
    BY <1>0 DEF Receive, TypeOK
  <2> QED
    BY <1>1, <1>2, <1>3, <2>1 DEF MessageInv, HandlerInv
<1>6. FreshInv'
  BY <1>1, <1>2, <1>3, <1>4 DEF MessageInv, FreshInv, Started
<1>7. OnceInv'
  <2>1. \A v \in Worker \ {w} : Busy(v) /\ msg[v] = m => m \in redelivered
    BY <1>1 DEF MessageInv, OnceInv
  <2>2. \A p \in Proc : Started(p) /\ pmsg[p] = m => m \in redelivered
    BY <1>1 DEF MessageInv, OnceInv
  <2> QED
    BY <1>1, <1>2, <1>3, <1>4, <2>1, <2>2 DEF MessageInv, OnceInv, Started
<1> QED
  BY <1>5, <1>6, <1>7 DEF MessageInv

\* The handler puts its message back and takes no other.
LEMMA MessageRequeue ==
    ASSUME MessageInv, TypeInv', NEW w \in Worker, Holding(w), Settle(w, TRUE),
           wpc' = [wpc EXCEPT ![w] = "idle"], UNCHANGED <<sent, ppc, pmsg>>
    PROVE  MessageInv'
<1>0. TypeOK
  BY DEF MessageInv, TypeInv
<1>1. /\ ~Busy(w)' /\ ~Holding(w)'
      /\ \A v \in Worker \ {w} : Busy(v)' = Busy(v) /\ Holding(v)' = Holding(v)
  BY <1>0 DEF TypeOK, Busy, Holding
<1>2. /\ ready' \subseteq ready \cup {msg[w]} /\ redelivered' = redelivered
      /\ \A v \in Worker \ {w} : msg'[v] = msg[v] /\ unacked'[v] = unacked[v]
      /\ unacked'[w] = FALSE
  BY <1>0 DEF Settle, TypeOK
<1>3. Busy(w)
  BY DEF Busy, Holding
<1>4. HandlerInv'
  BY <1>1, <1>2 DEF MessageInv, HandlerInv
<1>5. FreshInv'
  BY <1>1, <1>2, <1>3 DEF MessageInv, FreshInv, Started
<1>6. OnceInv'
  <2>1. \A v \in Worker \ {w} : Busy(v) /\ msg[v] = msg[w] => msg[w] \in redelivered
    BY <1>3 DEF MessageInv, OnceInv
  <2>2. \A p \in Proc : Started(p) /\ pmsg[p] = msg[w] => msg[w] \in redelivered
    BY DEF MessageInv, OnceInv
  <2> QED
    BY <1>1, <1>2, <2>1, <2>2 DEF MessageInv, OnceInv, Started
<1> QED
  BY <1>4, <1>5, <1>6 DEF MessageInv

LEMMA MessageSpawn ==
    ASSUME MessageInv, TypeInv', NEW w \in Worker, Spawn(w)
    PROVE  MessageInv'
<1>0. TypeOK
  BY DEF MessageInv, TypeInv
<1>1. PICK p \in Proc : ppc[p] = "free" /\ p = CHOOSE q \in Proc : ppc[q] = "free"
  BY DEF Spawn
<1>2. /\ ppc' = [ppc EXCEPT ![p] = "starting"] /\ pmsg' = [pmsg EXCEPT ![p] = msg[w]]
      /\ wpc' = [wpc EXCEPT ![w] = "ack"] /\ Holding(w)
      /\ UNCHANGED <<sent, ready, redelivered, unacked, msg>>
  BY <1>1 DEF Spawn, Holding
<1>3. /\ ~Started(p) /\ Started(p)' /\ pmsg'[p] = msg[w]
      /\ \A q \in Proc \ {p} : Started(q)' = Started(q) /\ pmsg'[q] = pmsg[q]
  <2>1. ppc'[p] = "starting" /\ pmsg'[p] = msg[w]
    BY <1>0, <1>1, <1>2 DEF TypeOK
  <2>2. \A q \in Proc \ {p} : ppc'[q] = ppc[q] /\ pmsg'[q] = pmsg[q]
    BY <1>0, <1>2 DEF TypeOK
  <2> QED
    BY <1>1, <2>1, <2>2 DEF Started
<1>4. /\ Busy(w) /\ Busy(w)' /\ ~Holding(w)'
      /\ \A v \in Worker \ {w} : Busy(v)' = Busy(v) /\ Holding(v)' = Holding(v)
  BY <1>0, <1>2 DEF TypeOK, Busy, Holding
<1>5. HandlerInv'
  BY <1>2, <1>4 DEF MessageInv, HandlerInv
<1>6. FreshInv'
  <2>1. msg[w] \in Message /\ msg[w].seq <= sent[msg[w].host][msg[w].task]
    BY <1>4 DEF MessageInv, HandlerInv, FreshInv
  <2> QED
    BY <1>2, <1>3, <1>4, <2>1 DEF MessageInv, FreshInv
<1>7. OnceInv'
  <2>1. \A m \in ready \ redelivered : m # msg[w]
    BY <1>4 DEF MessageInv, OnceInv
  <2>2. \A v \in Worker \ {w} : Busy(v) /\ msg[v] = msg[w] => msg[w] \in redelivered
    BY <1>4 DEF MessageInv, OnceInv
  <2>3. \A q \in Proc : Started(q) /\ pmsg[q] = msg[w] => msg[w] \in redelivered
    BY <1>2 DEF MessageInv, OnceInv
  <2>4. \A v \in Worker : Holding(v) => Busy(v)
    BY DEF Holding, Busy
  <2> QED
    BY <1>2, <1>3, <1>4, <2>1, <2>2, <2>3, <2>4 DEF MessageInv, OnceInv
<1> QED
  BY <1>5, <1>6, <1>7 DEF MessageInv

\* The broker takes a delivery back, from a handler that lives or dies.
LEMMA MessageBack ==
    ASSUME MessageInv, TypeInv', NEW w \in Worker, ConnectionLost(w) \/ WorkerCrash(w)
    PROVE  MessageInv'
<1>0. TypeOK
  BY DEF MessageInv, TypeInv
<1>1. unacked[w] => Busy(w)
  BY DEF MessageInv, HandlerInv
<1>2. /\ ready' \ redelivered' \subseteq ready \ redelivered
      /\ redelivered \subseteq redelivered'
      /\ \A m \in ready' \cup redelivered' :
            m \in ready \cup redelivered \/ (Busy(w) /\ m = msg[w])
  <2>1. CASE unacked[w]
    BY <1>1, <2>1 DEF ConnectionLost, WorkerCrash
  <2>2. CASE ~unacked[w]
    BY <2>2 DEF ConnectionLost, WorkerCrash
  <2> QED
    BY <2>1, <2>2
<1>3. UNCHANGED <<sent, ppc, pmsg>>
  BY DEF ConnectionLost, WorkerCrash
<1>4. \A v \in Worker : /\ Busy(v)' => Busy(v) /\ msg'[v] = msg[v]
                        /\ Holding(v)' => Holding(v)
  BY <1>0 DEF ConnectionLost, WorkerCrash, TypeOK, Busy, Holding
<1>5. \A v \in Worker : unacked'[v] => Busy(v)'
  <2>1. \A v \in Worker : unacked'[v] => v # w /\ unacked[v]
    BY <1>0 DEF ConnectionLost, WorkerCrash, TypeOK
  <2>2. \A v \in Worker \ {w} : Busy(v) => Busy(v)'
    BY <1>0 DEF ConnectionLost, WorkerCrash, TypeOK, Busy
  <2> QED
    BY <2>1, <2>2 DEF MessageInv, HandlerInv
<1> QED
  BY <1>2, <1>3, <1>4, <1>5, MessageFrame DEF Started

LEMMA MessageWorker ==
    ASSUME MessageInv, TypeInv', NEW w \in Worker, WorkerStep(w)
    PROVE  MessageInv'
<1>0. TypeOK /\ HandlerInv
  BY DEF MessageInv, TypeInv
<1>1. CASE Receive(w)
  BY <1>1, MessageReceive
<1>2. CASE CheckCapacity(w) /\ wpc' = [wpc EXCEPT ![w] = "idle"] /\ Settle(w, TRUE)
  BY <1>2, MessageRequeue DEF CheckCapacity, Holding
<1>3. CASE SpawnFails(w) \/ CapacityFails(w)
  BY <1>3, MessageRequeue DEF SpawnFails, CapacityFails, Holding
<1>4. CASE Spawn(w)
  BY <1>4, MessageSpawn
<1>5. CASE ConnectionLost(w) \/ WorkerCrash(w)
  BY <1>5, MessageBack
<1>6. CASE Ack(w)
  <2>1. /\ UNCHANGED <<sent, ready, redelivered, ppc, pmsg>>
        /\ wpc' = [wpc EXCEPT ![w] = "idle"] /\ unacked' = [unacked EXCEPT ![w] = FALSE]
        /\ msg' = [msg EXCEPT ![w] = NoMsg]
    BY <1>6 DEF Ack, Settle
  <2>2. \A v \in Worker : /\ Busy(v)' => Busy(v) /\ msg'[v] = msg[v]
                          /\ Holding(v)' => Holding(v)
                          /\ unacked'[v] => Busy(v)'
    BY <1>0, <2>1 DEF TypeOK, HandlerInv, Busy, Holding
  <2> QED
    BY <2>1, <2>2, MessageFrame DEF Started
<1>7. CASE \/ CheckStatus(w) \/ CheckFails(w) \/ WorkerLaunch(w)
           \/ CheckCapacity(w) /\ wpc' = [wpc EXCEPT ![w] = "spawn"]
                               /\ UNCHANGED <<brokerVars, msg>>
  <2>1. UNCHANGED <<sent, ready, redelivered, unacked, msg, ppc, pmsg>>
    BY <1>7 DEF CheckStatus, CheckFails, WorkerLaunch, CheckCapacity
  <2>2. \A v \in Worker : (Busy(v)' <=> Busy(v)) /\ (Holding(v)' => Holding(v))
    BY <1>0, <1>7 DEF CheckStatus, CheckFails, WorkerLaunch, CheckCapacity, TypeOK,
      Busy, Holding
  <2> QED
    BY <1>0, <2>1, <2>2, MessageFrame DEF Started, HandlerInv
<1>8. CASE ServiceRegister(w) \/ SlotsExpire(w) \/ \E t \in Task : StatusExpires(w, t)
  <2>1. UNCHANGED <<sent, ready, redelivered, unacked, msg, wpc, ppc, pmsg>>
    BY <1>8 DEF ServiceRegister, SlotsExpire, StatusExpires
  <2> QED
    BY <1>0, <2>1, MessageFrame DEF Started, HandlerInv, Busy, Holding
<1>9. CheckCapacity(w)
      => \/ wpc' = [wpc EXCEPT ![w] = "idle"] /\ Settle(w, TRUE)
         \/ wpc' = [wpc EXCEPT ![w] = "spawn"] /\ UNCHANGED <<brokerVars, msg>>
  BY DEF CheckCapacity
<1> QED
  BY <1>1, <1>2, <1>3, <1>4, <1>5, <1>6, <1>7, <1>8, <1>9
  DEF WorkerStep, HandlerStep, WorkerFault

\* The processes that have been started keep the message they started for.
LEMMA MessageProc ==
    ASSUME MessageInv, TypeInv', NEW p \in Proc, ProcStep(p)
    PROVE  MessageInv'
<1>0. TypeOK /\ HandlerInv
  BY DEF MessageInv, TypeInv
<1>1. UNCHANGED <<sent, ready, redelivered, unacked, msg, wpc, pmsg>>
  BY DEF ProcStep, TaskStep, Report, ReportRunning, ReportSuccess, ReportFailure,
    EnterRunSet, LeaveRunSet, ReportFails, Die
<1>2. \A q \in Proc : Started(q)' => Started(q)
  BY <1>0 DEF ProcStep, TaskStep, Report, ReportRunning, ReportSuccess, ReportFailure,
    EnterRunSet, LeaveRunSet, ReportFails, Die, Started, TypeOK
<1> QED
  BY <1>0, <1>1, <1>2, MessageFrame DEF HandlerInv, Busy, Holding

LEMMA MessageHost ==
    ASSUME MessageInv, TypeInv', NEW h \in Host, HostStep(h)
    PROVE  MessageInv'
<1>0. TypeOK /\ HandlerInv
  BY DEF MessageInv, TypeInv
<1>1. UNCHANGED <<redelivered, unacked, handlerVars, procVars>>
  BY DEF HostStep, CycleStep, EmptyCycle, vars, FetchAndPlan, VisitQueue, VisitFails,
    Visit, SendTask, SendIsLost, Sent, SendFails, UpdateParent, PersistTask, FinishCycle,
    AbortCycle, EndCycle
<1>2. UNCHANGED <<ready, sent>> \/ \E t \in todo[h] : Sends(h, t)
  BY SendStep
<1>3. CASE UNCHANGED <<ready, sent>>
  BY <1>0, <1>1, <1>3, MessageFrame DEF HandlerInv, Busy, Holding, Started
<1>4. ASSUME NEW t \in todo[h], Sends(h, t) PROVE MessageInv'
  <2>1. t \in Task
    BY <1>0 DEF TypeOK
  <2> QED
    BY <1>1, <1>4, <2>1, MessagePublish
<1> QED
  BY <1>2, <1>3, <1>4

LEMMA MessageStep == MessageInv /\ [Next]_vars => MessageInv'
<1> SUFFICES ASSUME MessageInv, [Next]_vars PROVE MessageInv'
  OBVIOUS
<1>0. TypeInv' /\ HandlerInv
  BY TypeStep DEF MessageInv
<1>1. CASE UNCHANGED vars \/ \E t \in Task : UserStep(t)
  <2>1. UNCHANGED <<sent, ready, redelivered, unacked, wpc, msg, ppc, pmsg>>
    BY <1>1 DEF vars, UserStep, Submit, TaskStop, TaskRetry
  <2> QED
    BY <1>0, <2>1, MessageFrame DEF HandlerInv, Busy, Holding, Started
<1>2. ASSUME NEW h \in Host, HostStep(h) PROVE MessageInv'
  BY <1>0, <1>2, MessageHost
<1>3. ASSUME NEW w \in Worker, WorkerStep(w) PROVE MessageInv'
  BY <1>0, <1>3, MessageWorker
<1>4. ASSUME NEW p \in Proc, ProcStep(p) PROVE MessageInv'
  BY <1>0, <1>4, MessageProc
<1> QED
  BY <1>1, <1>2, <1>3, <1>4 DEF Next

LEMMA MessageCorrect == Spec => []MessageInv
BY MessageInit, MessageStep, PTL DEF Spec

(* Whatever crashes, disconnects or fails to publish, two processes are     *)
(* started for one message only if the broker took it back in between.      *)
THEOREM NoDuplicateExecutionCorrect == Spec => []NoDuplicateExecution
<1>1. MessageInv => NoDuplicateExecution
  BY DEF MessageInv, OnceInv, NoDuplicateExecution, Started
<1> QED
  BY <1>1, MessageCorrect, PTL

-----------------------------------------------------------------------------
(* A stop that comes before any worker has looked at the task.              *)
LEMMA StopSurvivesHost ==
    ASSUME CycleInv, NEW t \in Task, status[t] = "stopped", NEW h \in Host, HostStep(h)
    PROVE  status'[t] = "stopped" /\ UNCHANGED <<statusCache, wpc, msg, pmsg>>
<1>0. TypeOK
  BY DEF CycleInv, TypeInv
<1>1. CASE PersistTask(h)
  <2>1. PICK u \in Task :
          status' = [status EXCEPT ![u] = IF @ = "pending" THEN "waiting" ELSE @]
    BY <1>1, PersistWritesWaiting
  <2>2. status'[t] = "stopped"
    BY <1>0, <2>1 DEF TypeOK, TasksMap
  <2> QED
    BY <1>1, <2>2 DEF PersistTask
<1>2. CASE ~PersistTask(h)
  BY <1>2 DEF HostStep, CycleStep, EmptyCycle, vars, FetchAndPlan, VisitQueue, VisitFails,
    Visit, SendTask, SendIsLost, Sent, SendFails, UpdateParent, FinishCycle, AbortCycle,
    EndCycle
<1> QED
  BY <1>1, <1>2

LEMMA StopSurvivesWorker ==
    ASSUME MessageInv, NEW t \in Task, status[t] = "stopped", Unseen(t),
           QueueName[t] \notin SystemQueue, faults' = faults,
           NEW w \in Worker, WorkerStep(w)
    PROVE  status'[t] = "stopped" /\ Unseen(t)'
<1>0. TypeOK /\ HandlerInv
  BY DEF MessageInv, TypeInv
<1>1. faults \in Nat
  BY <1>0 DEF TypeOK
<1>2. status' = status
  BY DEF WorkerStep, HandlerStep, WorkerFault, ServiceRegister, WorkerLaunch,
    Receive, CheckStatus, CheckCapacity, Spawn, Ack, CheckFails, CapacityFails, SpawnFails,
    ConnectionLost, WorkerCrash, SlotsExpire, StatusExpires
<1>3. CASE CheckStatus(w)
  <2> DEFINE u == msg[w].task
  <2>1. u \in Task /\ QueueName[u] = Serves[w]
    BY <1>0, <1>3 DEF CheckStatus, HandlerInv, Busy, Message
  <2>2. UNCHANGED <<msg, pmsg>> /\ \A v \in Worker \ {w} : statusCache'[v] = statusCache[v]
                                                     /\ wpc'[v] = wpc[v]
    BY <1>0, <1>3 DEF CheckStatus, TypeOK
  <2>3. CASE u = t
    <3>1. KnownStatus(w, t) = "stopped"
      BY <2>3 DEF Unseen, KnownStatus
    <3>2. wpc'[w] = "ack" /\ statusCache'[w][t] = "stopped"
      BY <1>0, <1>3, <2>1, <2>3, <3>1 DEF CheckStatus, TypeOK, TasksMap
    <3>3. \A x \in Worker : wpc'[x] \in {"capacity", "spawn"} => msg'[x].task # t
      BY <2>2, <3>2 DEF Unseen
    <3>4. \A x \in Worker : statusCache'[x][t] \in {Missing, "stopped"}
      BY <2>2, <3>2 DEF Unseen
    <3> QED
      BY <1>2, <2>2, <3>3, <3>4 DEF Unseen, ProcsOf
  <2>4. CASE u # t
    <3>1. statusCache'[w][t] = statusCache[w][t]
      BY <1>0, <1>3, <2>1, <2>4 DEF CheckStatus, TypeOK, TasksMap
    <3> QED
      BY <1>2, <2>2, <2>4, <3>1 DEF Unseen, ProcsOf
  <2> QED
    BY <2>3, <2>4
<1>4. CASE CheckCapacity(w)
  <2>1. wpc[w] = "capacity" /\ UNCHANGED <<statusCache, pmsg>>
    BY <1>4 DEF CheckCapacity
  <2>2. \A v \in Worker : /\ wpc'[v] \in {"capacity", "spawn"} => wpc[v] \in {"capacity", "spawn"}
                                                       /\ msg'[v] = msg[v]
    BY <1>0, <1>4 DEF CheckCapacity, Settle, TypeOK
  <2> QED
    BY <1>2, <2>1, <2>2 DEF Unseen, ProcsOf
<1>5. CASE Spawn(w)
  <2>1. /\ UNCHANGED <<statusCache, msg>> /\ msg[w].task # t
        /\ \A v \in Worker : wpc'[v] \in {"capacity", "spawn"} => wpc[v] \in {"capacity", "spawn"}
    BY <1>0, <1>5 DEF Spawn, Unseen, TypeOK
  <2>2. PICK p : pmsg' = [pmsg EXCEPT ![p] = msg[w]]
    BY <1>5 DEF Spawn
  <2>3. ProcsOf(t)' = {}
    BY <1>0, <2>1, <2>2 DEF Unseen, ProcsOf, TypeOK
  <2> QED
    BY <1>2, <2>1, <2>3 DEF Unseen
<1>6. CASE \/ ServiceRegister(w) \/ WorkerLaunch(w) \/ Receive(w) \/ Ack(w)
           \/ SlotsExpire(w) \/ \E u \in Task : StatusExpires(w, u)
  <2>1. pmsg' = pmsg
    BY <1>6 DEF ServiceRegister, WorkerLaunch, Receive, Ack, SlotsExpire, StatusExpires
  <2>2. \A v \in Worker : statusCache'[v][t] \in {statusCache[v][t], Missing}
    <3>1. CASE \E u \in Task : StatusExpires(w, u)
      BY <1>0, <3>1 DEF StatusExpires, TypeOK, TasksMap
    <3>2. CASE ~\E u \in Task : StatusExpires(w, u)
      BY <1>6, <3>2 DEF ServiceRegister, WorkerLaunch, Receive, Ack, SlotsExpire
    <3> QED
      BY <3>1, <3>2
  <2>3. \A v \in Worker : wpc'[v] \in {"capacity", "spawn"}
                          => wpc[v] \in {"capacity", "spawn"} /\ msg'[v] = msg[v]
    <3>1. \A v \in Worker \ {w} : wpc'[v] = wpc[v] /\ msg'[v] = msg[v]
      BY <1>0, <1>6 DEF ServiceRegister, WorkerLaunch, Receive, Ack, Settle,
        SlotsExpire, StatusExpires, TypeOK
    <3>2. CASE WorkerLaunch(w) \/ Receive(w) \/ Ack(w)
      <4>1. wpc'[w] \in {"idle", "check"}
        BY <1>0, <3>2 DEF WorkerLaunch, Receive, Ack, TypeOK
      <4> QED
        BY <3>1, <4>1
    <3>3. CASE ServiceRegister(w) \/ SlotsExpire(w) \/ \E u \in Task : StatusExpires(w, u)
      BY <3>3 DEF ServiceRegister, SlotsExpire, StatusExpires
    <3> QED
      BY <1>6, <3>2, <3>3
  <2> QED
    BY <1>2, <2>1, <2>2, <2>3 DEF Unseen, ProcsOf
<1>7. WorkerFault(w) => faults' = faults + 1
  BY DEF WorkerFault, CheckFails, CapacityFails, SpawnFails, ConnectionLost,
    WorkerCrash
<1> QED
  BY <1>1, <1>3, <1>4, <1>5, <1>6, <1>7 DEF WorkerStep, HandlerStep

LEMMA StopStep ==
    ASSUME CycleInv, MessageInv, [Next]_vars, NEW t \in Task, status[t] = "stopped",
           Unseen(t), QueueName[t] \notin SystemQueue, asks'[t] = asks[t], faults' = faults
    PROVE  status'[t] = "stopped" /\ Unseen(t)'
<1>0. TypeOK
  BY DEF CycleInv, TypeInv
<1>1. CASE UNCHANGED vars
  BY <1>1 DEF vars, Unseen, ProcsOf
<1>2. ASSUME NEW u \in Task, UserStep(u) PROVE status'[t] = "stopped" /\ Unseen(t)'
  <2>1. UNCHANGED <<statusCache, wpc, msg, pmsg>>
    BY <1>2 DEF UserStep, Submit, TaskStop, TaskRetry
  <2>2. status'[t] = "stopped"
    <3>1. asks[t] \in Nat
      BY <1>0 DEF TypeOK
    <3> QED
      BY <1>0, <1>2, <3>1 DEF UserStep, Submit, TaskStop, TaskRetry, TypeOK, TasksMap
  <2> QED
    BY <2>1, <2>2 DEF Unseen, ProcsOf
<1>3. ASSUME NEW h \in Host, HostStep(h) PROVE status'[t] = "stopped" /\ Unseen(t)'
  BY <1>3, StopSurvivesHost DEF Unseen, ProcsOf
<1>4. ASSUME NEW w \in Worker, WorkerStep(w) PROVE status'[t] = "stopped" /\ Unseen(t)'
  BY <1>4, StopSurvivesWorker
<1>5. ASSUME NEW p \in Proc, ProcStep(p) PROVE status'[t] = "stopped" /\ Unseen(t)'
  <2>1. UNCHANGED <<statusCache, wpc, msg, pmsg>> /\ pmsg[p].task # t
    BY <1>5 DEF ProcStep, TaskStep, Report, ReportRunning, ReportSuccess, ReportFailure,
      EnterRunSet, LeaveRunSet, ReportFails, Die, Unseen, ProcsOf
  <2>2. status'[t] = status[t]
    BY <1>0, <1>5, <2>1 DEF ProcStep, TaskStep, Report, ReportRunning, ReportSuccess,
      ReportFailure, EnterRunSet, LeaveRunSet, ReportFails, Die, TypeOK, TasksMap
  <2> QED
    BY <2>1, <2>2 DEF Unseen, ProcsOf
<1> QED
  BY <1>1, <1>2, <1>3, <1>4, <1>5 DEF Next

(* A stop wins against every scheduling cycle, message and redelivery that  *)
(* is still under way, if no worker has looked at the task yet.             *)
THEOREM StopIsFinalCorrect == Spec => StopIsFinal
<1>1. CycleInv /\ MessageInv /\ [Next]_vars
      => [\A t \in Task :
            /\ status[t] = "stopped" /\ Unseen(t) /\ QueueName[t] \notin SystemQueue
            /\ asks'[t] = asks[t] /\ faults' = faults
            => status'[t] = "stopped" /\ Unseen(t)']_vars
  BY StopStep
<1> QED
  BY <1>1, CycleCorrect, MessageCorrect, PTL DEF Spec, StopIsFinal

-----------------------------------------------------------------------------
(* What each kind of step leaves alone.                                     *)
LEMMA UserFrame ==
    ASSUME NEW u \in Task, UserStep(u)
    PROVE  UNCHANGED <<hostVars, brokerVars, handlerVars, indexed, run, faults, procVars>>
BY DEF UserStep, Submit, TaskStop, TaskRetry

LEMMA HostFrame ==
    ASSUME NEW h \in Host, HostStep(h)
    PROVE  UNCHANGED <<created, clock, asks, unacked, redelivered, handlerVars, indexed,
                       run, procVars>>
BY DEF HostStep, CycleStep, EmptyCycle, vars, FetchAndPlan, VisitQueue, VisitFails, Visit,
  SendTask, SendIsLost, Sent, SendFails, UpdateParent, PersistTask, FinishCycle,
  AbortCycle, EndCycle

LEMMA WorkerFrame ==
    ASSUME NEW w \in Worker, WorkerStep(w)
    PROVE  UNCHANGED <<dbVars, hostVars>>
BY DEF WorkerStep, HandlerStep, WorkerFault, ServiceRegister, WorkerLaunch, Receive,
  CheckStatus, CheckCapacity, Spawn, Ack, CheckFails, CapacityFails, SpawnFails,
  ConnectionLost, WorkerCrash, SlotsExpire, StatusExpires

LEMMA ProcFrame ==
    ASSUME NEW p \in Proc, ProcStep(p)
    PROVE  UNCHANGED <<created, clock, asks, hostVars, brokerVars, handlerVars, indexed,
                       pmsg, pworker>>
BY DEF ProcStep, TaskStep, Report, ReportRunning, ReportSuccess, ReportFailure,
  EnterRunSet, LeaveRunSet, ReportFails, Die

\* Every fault is counted: a cycle slips and the broker takes a message back
\* only in steps that count one.
LEMMA FaultStep ==
    ASSUME TypeOK, [Next]_vars
    PROVE  \/ faults' = faults /\ UNCHANGED <<slips, redelivered>>
           \/ faults' = faults + 1 /\ faults < MaxFaults
<1>1. CASE UNCHANGED vars
  BY <1>1 DEF vars
<1>2. ASSUME NEW u \in Task, UserStep(u)
      PROVE  faults' = faults /\ UNCHANGED <<slips, redelivered>>
  BY <1>2, UserFrame
<1>3. ASSUME NEW h \in Host, HostStep(h)
      PROVE  \/ faults' = faults /\ UNCHANGED <<slips, redelivered>>
             \/ faults' = faults + 1 /\ faults < MaxFaults
  BY <1>3 DEF HostStep, CycleStep, EmptyCycle, vars, FetchAndPlan, VisitQueue, VisitFails,
    Visit, SendTask, SendIsLost, Sent, SendFails, Slip, UpdateParent, PersistTask,
    FinishCycle, AbortCycle, EndCycle
<1>4. ASSUME NEW w \in Worker, WorkerStep(w)
      PROVE  \/ faults' = faults /\ UNCHANGED <<slips, redelivered>>
             \/ faults' = faults + 1 /\ faults < MaxFaults
  <2>1. CASE ServiceRegister(w)
    BY <2>1 DEF ServiceRegister
  <2>2. CASE WorkerFault(w)
    BY <2>2 DEF WorkerFault, CheckFails, CapacityFails, SpawnFails, ConnectionLost, WorkerCrash
  <2>3. CASE HandlerStep(w) \/ SlotsExpire(w) \/ \E t \in Task : StatusExpires(w, t)
    BY <2>3 DEF HandlerStep, WorkerLaunch, Receive, CheckStatus, CheckCapacity, Settle,
      Spawn, Ack, SlotsExpire, StatusExpires
  <2> QED
    BY <1>4, <2>1, <2>2, <2>3 DEF WorkerStep
<1>5. ASSUME NEW p \in Proc, ProcStep(p)
      PROVE  \/ faults' = faults /\ UNCHANGED <<slips, redelivered>>
             \/ faults' = faults + 1 /\ faults < MaxFaults
  BY <1>5 DEF ProcStep, TaskStep, Report, ReportRunning, ReportSuccess, ReportFailure,
    EnterRunSet, LeaveRunSet, ReportFails, Die
<1> QED
  BY <1>1, <1>2, <1>3, <1>4, <1>5 DEF Next

FaultInv ==
    /\ TypeInv
    /\ faults <= MaxFaults
    /\ faults = 0 => redelivered = {} /\ \A h \in Host : slips[h] = 0

LEMMA FaultCorrect == Spec => []FaultInv
<1>1. Init => FaultInv
  BY TypeInit, PipelineAssumption DEF Init, FaultInv
<1>2. ASSUME FaultInv, [Next]_vars PROVE FaultInv'
  <2>1. TypeInv' /\ TypeOK /\ faults \in Nat /\ MaxFaults \in Nat
    BY <1>2, TypeStep, PipelineAssumption DEF FaultInv, TypeInv, TypeOK
  <2>2. CASE faults' = faults /\ UNCHANGED <<slips, redelivered>>
    BY <1>2, <2>1, <2>2 DEF FaultInv
  <2>3. CASE faults' = faults + 1 /\ faults < MaxFaults
    BY <2>1, <2>3 DEF FaultInv
  <2> QED
    BY <1>2, <2>1, <2>2, <2>3, FaultStep
<1> QED
  BY <1>1, <1>2, PTL DEF Spec

-----------------------------------------------------------------------------
\* The run set of a worker, without redis errors, kills or re-registrations.
SlotInv == faults = 0 => NoSlotLeak

LEMMA SlotWorker ==
    ASSUME TypeOK, NoSlotLeak, NEW w \in Worker, WorkerStep(w)
    PROVE  NoSlotLeak'
<1>1. CASE ServiceRegister(w) \/ WorkerLaunch(w)
  <2>1. run' = [run EXCEPT ![w] = {}] /\ UNCHANGED <<ppc, pworker>>
    BY <1>1 DEF ServiceRegister, WorkerLaunch
  <2>2. \A v \in Worker : run'[v] \subseteq run[v]
    BY <2>1 DEF TypeOK
  <2> QED
    BY <2>1, <2>2 DEF NoSlotLeak
<1>2. CASE Spawn(w)
  <2>1. PICK p \in Proc : /\ ppc[p] = "free" /\ ppc' = [ppc EXCEPT ![p] = "starting"]
                          /\ pworker' = [pworker EXCEPT ![p] = w]
    BY <1>2 DEF Spawn
  <2>2. run' = run /\ \A v \in Worker : p \notin run[v]
    BY <1>2, <2>1 DEF Spawn, NoSlotLeak
  <2>3. \A q \in Proc \ {p} : ppc'[q] = ppc[q] /\ pworker'[q] = pworker[q]
    BY <2>1 DEF TypeOK
  <2>4. \A v \in Worker : run[v] \subseteq Proc \ {p}
    BY <2>2 DEF TypeOK
  <2> QED
    BY <2>2, <2>3, <2>4 DEF NoSlotLeak
<1>3. CASE ~(ServiceRegister(w) \/ WorkerLaunch(w) \/ Spawn(w))
  <2>1. UNCHANGED <<run, ppc, pworker>>
    BY <1>3 DEF WorkerStep, HandlerStep, WorkerFault, Receive, CheckStatus, CheckCapacity, Ack,
      CheckFails, CapacityFails, SpawnFails, ConnectionLost, WorkerCrash, SlotsExpire,
      StatusExpires
  <2> QED
    BY <2>1 DEF NoSlotLeak
<1> QED
  BY <1>1, <1>2, <1>3

LEMMA SlotProc ==
    ASSUME TypeOK, NoSlotLeak, NEW p \in Proc, ProcStep(p), faults' = faults
    PROVE  NoSlotLeak'
<1>0. pworker' = pworker /\ faults \in Nat
  BY ProcFrame DEF TypeOK
<1>1. \A q \in Proc \ {p} : ppc'[q] = ppc[q]
  BY DEF ProcStep, TaskStep, Report, ReportRunning, ReportSuccess, ReportFailure, EnterRunSet,
    LeaveRunSet, ReportFails, Die, TypeOK
<1>2. \A v \in Worker : run[v] \subseteq Proc
  BY DEF TypeOK
<1>3. CASE EnterRunSet(p)
  <2>1. run' = [run EXCEPT ![pworker[p]] = @ \cup {p}] /\ ppc'[p] = "running"
    BY <1>0, <1>3 DEF EnterRunSet, TypeOK
  <2>2. \A v \in Worker : run'[v] = run[v] \/ (v = pworker[p] /\ run'[v] = run[v] \cup {p})
    BY <2>1 DEF TypeOK
  <2> QED
    BY <1>0, <1>1, <1>2, <2>1, <2>2 DEF NoSlotLeak
<1>4. CASE LeaveRunSet(p)
  <2>1. run' = [run EXCEPT ![pworker[p]] = @ \ {p}]
    BY <1>0, <1>4 DEF LeaveRunSet
  <2>2. \A v \in Worker : IF v = pworker[p] THEN run'[v] = run[v] \ {p} ELSE run'[v] = run[v]
    BY <2>1 DEF TypeOK
  <2>3. \A v \in Worker : p \notin run'[v]
    BY <2>2 DEF NoSlotLeak
  <2> QED
    BY <1>0, <1>1, <1>2, <2>2, <2>3 DEF NoSlotLeak
<1>5. CASE ReportRunning(p) \/ ReportSuccess(p) \/ ReportFailure(p)
  <2>1. /\ run' = run
        /\ (ppc[p] = "starting" /\ ppc'[p] = "entering") \/ ppc'[p] = "leaving"
    BY <1>5 DEF ReportRunning, ReportSuccess, ReportFailure, Report, TypeOK
  <2>2. ppc[p] = "starting" => \A v \in Worker : p \notin run[v]
    BY DEF NoSlotLeak
  <2> QED
    BY <1>0, <1>1, <1>2, <2>1, <2>2 DEF NoSlotLeak
<1>6. ~ReportFails(p) /\ ~Die(p)
  BY <1>0 DEF ReportFails, Die
<1> QED
  BY <1>3, <1>4, <1>5, <1>6 DEF ProcStep, TaskStep

LEMMA SlotStep == TypeInv /\ SlotInv /\ [Next]_vars => SlotInv'
<1> SUFFICES ASSUME TypeInv, SlotInv, [Next]_vars, faults' = 0 PROVE NoSlotLeak'
  BY DEF SlotInv
<1>0. TypeOK
  BY DEF TypeInv
<1>1. faults' = faults /\ NoSlotLeak
  <2>1. faults \in Nat
    BY <1>0 DEF TypeOK
  <2> QED
    BY <1>0, <2>1, FaultStep DEF SlotInv
<1>2. CASE UNCHANGED <<run, ppc, pworker>>
  BY <1>1, <1>2 DEF NoSlotLeak
<1>3. ASSUME NEW w \in Worker, WorkerStep(w) PROVE NoSlotLeak'
  BY <1>0, <1>1, <1>3, SlotWorker
<1>4. ASSUME NEW p \in Proc, ProcStep(p) PROVE NoSlotLeak'
  BY <1>0, <1>1, <1>4, SlotProc
<1> QED
  BY <1>2, <1>3, <1>4, UserFrame, HostFrame DEF Next, vars

(* As long as nothing has failed, the run set of a worker holds exactly     *)
(* processes of that worker that are inside execute_task's try, in any      *)
(* order of their entering and leaving and across launches of the worker.   *)
THEOREM NoSlotLeakCorrect == Spec => [](faults = 0 => NoSlotLeak)
<1>1. Init => SlotInv
  BY DEF Init, SlotInv, NoSlotLeak
<1>2. SlotInv <=> (faults = 0 => NoSlotLeak)
  BY DEF SlotInv
<1> QED
  BY <1>1, <1>2, TypeCorrect, SlotStep, PTL DEF Spec

-----------------------------------------------------------------------------
(* How one task fares in one step: what can ask for it, write its status,   *)
(* cache it, start a process for it, or move its messages.                  *)
Asks(t) == Submit(t) \/ TaskRetry(t)

LEMMA AskStep ==
    ASSUME TypeOK, [Next]_vars, NEW t \in Task
    PROVE  asks'[t] = asks[t] \/ (Asks(t) /\ asks'[t] = asks[t] + 1 /\ asks'[t] <= MaxAsks[t])
<1>1. CASE UNCHANGED asks
  BY <1>1
<1>2. ASSUME NEW u \in Task, UserStep(u)
      PROVE  asks'[t] = asks[t] \/ (Asks(t) /\ asks'[t] = asks[t] + 1 /\ asks'[t] <= MaxAsks[t])
  <2>1. asks[t] \in Nat /\ MaxAsks[t] \in Nat
    BY PipelineAssumption DEF TypeOK
  <2>2. CASE u = t
    BY <1>2, <2>1, <2>2 DEF UserStep, Submit, TaskStop, TaskRetry, Asks, TypeOK
  <2>3. CASE u # t
    BY <1>2, <2>1, <2>3 DEF UserStep, Submit, TaskStop, TaskRetry, TypeOK
  <2> QED
    BY <2>2, <2>3
<1> QED
  BY <1>1, <1>2, HostFrame, WorkerFrame, ProcFrame DEF Next, vars

\* The writers of a status, for a task that is not asked for in this step.
Stopped(t)   == status[t] \notin FINAL_STATUS \cup {Missing} /\ status'[t] = "stopped"
Persists(t)  == /\ status[t] = "pending" /\ status'[t] = "waiting"
                /\ \E h \in Host : original[h][t] = "pending" /\ tasksMap[h][t] = "waiting"
Reports(t)   == \E p \in ProcsOf(t) :
                   \/ ppc[p] = "starting" /\ status'[t] = "running"
                   \/ ppc[p] = "running" /\ status'[t] \in {"success", "failed"}
                      /\ ppc'[p] = "leaving"

LEMMA StatusStep ==
    ASSUME CycleInv, [Next]_vars, NEW t \in Task, asks'[t] = asks[t]
    PROVE  status'[t] = status[t] \/ Stopped(t) \/ Persists(t) \/ Reports(t)
<1>0. TypeOK
  BY DEF CycleInv, TypeInv
<1>1. CASE UNCHANGED status
  BY <1>1
<1>2. ASSUME NEW u \in Task, UserStep(u) PROVE status'[t] = status[t] \/ Stopped(t)
  <2>1. asks[t] \in Nat
    BY <1>0 DEF TypeOK
  <2>2. CASE u = t
    BY <1>0, <1>2, <2>1, <2>2
    DEF UserStep, Submit, TaskStop, TaskRetry, Stopped, TypeOK, TasksMap
  <2>3. CASE u # t
    BY <1>0, <1>2, <2>3 DEF UserStep, Submit, TaskStop, TaskRetry, TypeOK, TasksMap
  <2> QED
    BY <2>2, <2>3
<1>3. ASSUME NEW h \in Host, HostStep(h) PROVE status'[t] = status[t] \/ Persists(t)
  <2>1. CASE PersistTask(h)
    <3>1. PICK u \in saving[h] :
            /\ u \in Task /\ original[h][u] = "pending" /\ tasksMap[h][u] = "waiting"
            /\ status' = [status EXCEPT ![u] = IF @ = "pending" THEN "waiting" ELSE @]
      BY <2>1, PersistWritesWaiting
    <3> QED
      BY <1>0, <3>1 DEF Persists, TypeOK, TasksMap
  <2>2. CASE ~PersistTask(h)
    BY <1>3, <2>2 DEF HostStep, CycleStep, EmptyCycle, vars, FetchAndPlan, VisitQueue,
      VisitFails, Visit, SendTask, SendIsLost, Sent, SendFails, UpdateParent, FinishCycle,
      AbortCycle, EndCycle
  <2> QED
    BY <2>1, <2>2
<1>4. ASSUME NEW p \in Proc, ProcStep(p) PROVE status'[t] = status[t] \/ Reports(t)
  <2>1. ASSUME NEW from, NEW value, NEW to, Report(p, from, value, to)
        PROVE  \/ status'[t] = status[t]
               \/ p \in ProcsOf(t) /\ ppc[p] = from /\ status'[t] = value /\ ppc'[p] = to
    BY <1>0, <2>1 DEF Report, ProcsOf, TypeOK, TasksMap
  <2>2. CASE ReportRunning(p) \/ ReportSuccess(p) \/ ReportFailure(p)
    BY <2>1, <2>2 DEF ReportRunning, ReportSuccess, ReportFailure, Reports
  <2>3. CASE EnterRunSet(p) \/ LeaveRunSet(p) \/ ReportFails(p) \/ Die(p)
    BY <2>3 DEF EnterRunSet, LeaveRunSet, ReportFails, Die
  <2> QED
    BY <1>4, <2>2, <2>3 DEF ProcStep, TaskStep
<1> QED
  BY <1>1, <1>2, <1>3, <1>4, WorkerFrame DEF Next, vars

\* A cached status is the one the worker found in the database.
LEMMA CacheStep ==
    ASSUME TypeOK, [Next]_vars, NEW v \in Worker, NEW t \in Task
    PROVE  statusCache'[v][t] \in {statusCache[v][t], Missing, status[t]}
<1>1. CASE UNCHANGED statusCache
  BY <1>1
<1>2. ASSUME NEW w \in Worker, WorkerStep(w)
      PROVE  statusCache'[v][t] \in {statusCache[v][t], Missing, status[t]}
  <2>1. CASE CheckStatus(w)
    <3> DEFINE u == msg[w].task
    <3>1. \/ UNCHANGED statusCache
          \/ statusCache' = [statusCache EXCEPT ![w][u] = KnownStatus(w, u)]
      BY <2>1 DEF CheckStatus
    <3>2. statusCache[w] \in [Task -> STATUS \cup {Missing}]
      BY DEF TypeOK, TasksMap
    <3>3. (v = w /\ u = t) \/ statusCache'[v][t] = statusCache[v][t]
      BY <3>1, <3>2 DEF TypeOK, TasksMap
    <3>4. v = w /\ u = t => statusCache'[v][t] \in {statusCache[v][t], KnownStatus(v, t)}
      BY <3>1, <3>2 DEF TypeOK, TasksMap
    <3> QED
      BY <3>3, <3>4 DEF KnownStatus
  <2>2. CASE WorkerCrash(w)
    BY <2>2 DEF WorkerCrash, EmptyMap, TypeOK, TasksMap
  <2>3. ASSUME NEW u \in Task, StatusExpires(w, u)
        PROVE  statusCache'[v][t] \in {statusCache[v][t], Missing, status[t]}
    BY <2>3 DEF StatusExpires, TypeOK, TasksMap
  <2>4. CASE ~(CheckStatus(w) \/ WorkerCrash(w) \/ \E u \in Task : StatusExpires(w, u))
    BY <1>2, <2>4 DEF WorkerStep, HandlerStep, WorkerFault, ServiceRegister, WorkerLaunch,
      Receive, CheckCapacity, Spawn, Ack, CheckFails, CapacityFails, SpawnFails,
      ConnectionLost, SlotsExpire
  <2> QED
    BY <2>1, <2>2, <2>3, <2>4
<1> QED
  BY <1>1, <1>2, UserFrame, HostFrame, ProcFrame DEF Next, vars

\* The processes of a task stay its processes; only a handler holding one of
\* its messages starts another.
SpawnsFor(t) == \E w \in Worker : Spawn(w) /\ msg[w].task = t

LEMMA ProcsStep ==
    ASSUME TypeOK, [Next]_vars, NEW t \in Task, NEW p \in ProcsOf(t)'
    PROVE  \/ p \in ProcsOf(t)
           \/ ppc'[p] = "starting" /\ SpawnsFor(t)
<1>0. p \in Proc /\ pmsg'[p].task = t
  BY DEF ProcsOf
<1>1. CASE UNCHANGED pmsg
  BY <1>0, <1>1 DEF ProcsOf
<1>2. ASSUME NEW w \in Worker, WorkerStep(w)
      PROVE  p \in ProcsOf(t) \/ (ppc'[p] = "starting" /\ SpawnsFor(t))
  <2>1. CASE Spawn(w)
    <3>1. PICK q \in Proc : /\ ppc' = [ppc EXCEPT ![q] = "starting"]
                            /\ pmsg' = [pmsg EXCEPT ![q] = msg[w]]
      BY <2>1 DEF Spawn
    <3>2. CASE p = q
      BY <1>0, <2>1, <3>1, <3>2 DEF SpawnsFor, TypeOK
    <3>3. CASE p # q
      BY <1>0, <3>1, <3>3 DEF ProcsOf, TypeOK
    <3> QED
      BY <3>2, <3>3
  <2>2. CASE ~Spawn(w)
    <3>1. pmsg' = pmsg
      BY <1>2, <2>2 DEF WorkerStep, HandlerStep, WorkerFault, ServiceRegister, WorkerLaunch,
        Receive, CheckStatus, CheckCapacity, Ack, CheckFails, CapacityFails, SpawnFails,
        ConnectionLost, WorkerCrash, SlotsExpire, StatusExpires
    <3> QED
      BY <1>0, <3>1 DEF ProcsOf
  <2> QED
    BY <2>1, <2>2
<1> QED
  BY <1>1, <1>2, UserFrame, HostFrame, ProcFrame DEF Next, vars

\* A message gets to the broker from a host or back from a busy handler, and
\* to a handler from the broker.
IsSent(m) == \E h \in Host : m.task \in todo[h] /\ m = Publication(h, m.task)

LEMMA ReadyStep ==
    ASSUME TypeOK, HandlerInv, [Next]_vars, NEW m \in ready'
    PROVE  m \in ready \/ IsSent(m) \/ \E w \in Worker : Busy(w) /\ msg[w] = m
<1>1. CASE UNCHANGED ready
  BY <1>1
<1>2. ASSUME NEW h \in Host, HostStep(h) PROVE m \in ready \/ IsSent(m)
  BY <1>2, SendStep DEF Sends, IsSent, Publication
<1>3. ASSUME NEW w \in Worker, WorkerStep(w) PROVE m \in ready \/ (Busy(w) /\ msg[w] = m)
  <2>1. unacked[w] => Busy(w)
    BY DEF HandlerInv
  <2> QED
    BY <1>3, <2>1 DEF WorkerStep, HandlerStep, WorkerFault, ServiceRegister, WorkerLaunch,
      Receive, CheckStatus, CheckCapacity, Settle, Spawn, Ack, CheckFails, CapacityFails,
      SpawnFails, ConnectionLost, WorkerCrash, SlotsExpire, StatusExpires
<1> QED
  BY <1>1, <1>2, <1>3, UserFrame, ProcFrame DEF Next, vars

LEMMA MsgStep ==
    ASSUME TypeOK, [Next]_vars, NEW v \in Worker, Busy(v)'
    PROVE  (Busy(v) /\ msg'[v] = msg[v]) \/ msg'[v] \in ready
<1>1. CASE UNCHANGED <<wpc, msg>>
  BY <1>1 DEF Busy
<1>2. ASSUME NEW w \in Worker, WorkerStep(w)
      PROVE  (Busy(v) /\ msg'[v] = msg[v]) \/ msg'[v] \in ready
  <2>1. CASE v # w
    <3>1. wpc'[v] = wpc[v] /\ msg'[v] = msg[v]
      BY <1>2, <2>1 DEF WorkerStep, HandlerStep, WorkerFault, ServiceRegister, WorkerLaunch,
        Receive, CheckStatus, CheckCapacity, Settle, Spawn, Ack, CheckFails, CapacityFails,
        SpawnFails, ConnectionLost, WorkerCrash, SlotsExpire, StatusExpires, TypeOK
    <3> QED
      BY <3>1 DEF Busy
  <2>2. CASE v = w
    <3>1. CASE Receive(w)
      BY <2>2, <3>1 DEF Receive, TypeOK
    <3>2. CASE CheckStatus(w) \/ CheckFails(w) \/ CheckCapacity(w) \/ Spawn(w)
      BY <2>2, <3>2 DEF CheckStatus, CheckFails, CheckCapacity, Settle, Spawn, Busy, TypeOK
    <3>3. CASE \/ WorkerLaunch(w) \/ Ack(w) \/ CapacityFails(w) \/ SpawnFails(w)
               \/ WorkerCrash(w)
      BY <2>2, <3>3 DEF WorkerLaunch, Ack, CapacityFails, SpawnFails, WorkerCrash, Busy, TypeOK
    <3>4. CASE \/ ServiceRegister(w) \/ ConnectionLost(w) \/ SlotsExpire(w)
               \/ \E t \in Task : StatusExpires(w, t)
      BY <2>2, <3>4 DEF ServiceRegister, ConnectionLost, SlotsExpire, StatusExpires, Busy
    <3> QED
      BY <1>2, <3>1, <3>2, <3>3, <3>4 DEF WorkerStep, HandlerStep, WorkerFault
  <2> QED
    BY <2>1, <2>2
<1> QED
  BY <1>1, <1>2, UserFrame, HostFrame, ProcFrame DEF Next, vars

-----------------------------------------------------------------------------
(* A task nobody has asked for has left no trace.                           *)
Untouched(t) ==
    /\ status[t] = Missing
    /\ \A h \in Host : tasksMap[h][t] = Missing /\ sent[h][t] = 0
    /\ \A m \in ready : m.task # t
    /\ \A w \in Worker : /\ Busy(w) => msg[w].task # t
                         /\ statusCache[w][t] = Missing
    /\ ProcsOf(t) = {}

AskedInv == \A t \in Task : asks[t] <= MaxAsks[t] /\ (asks[t] = 0 => Untouched(t))

LEMMA AskedInit == Init => AskedInv
<1> SUFFICES ASSUME Init, NEW t \in Task PROVE asks[t] <= MaxAsks[t] /\ Untouched(t)
  BY DEF AskedInv
<1>1. asks[t] <= MaxAsks[t]
  BY PipelineAssumption DEF Init
<1>2. ProcsOf(t) = {}
  BY TaskAssumption DEF Init, ProcsOf, NoMsg
<1> QED
  BY <1>1, <1>2 DEF Init, Untouched, EmptyMap, Busy

\* The map and the publications of a task not in the database and not in the map.
LEMMA UntouchedByHost ==
    ASSUME CycleInv, [Next]_vars, NEW t \in Task, status[t] = Missing, NEW g \in Host,
           tasksMap[g][t] = Missing, sent[g][t] = 0
    PROVE  tasksMap'[g][t] = Missing /\ sent'[g][t] = 0
<1>0. TypeOK /\ CycleOK(g) /\ \A u \in Task : status[u] # "retrying"
  BY DEF CycleInv, TypeInv
<1>1. CASE UNCHANGED hostVars
  BY <1>1
<1>2. ASSUME NEW h \in Host, HostStep(h) PROVE tasksMap'[g][t] = Missing /\ sent'[g][t] = 0
  <2>1. CASE g # h
    <3>1. tasksMap'[g] = tasksMap[g]
      BY <1>0, <1>2, <2>1, HostsApart
    <3>2. sent'[g] = sent[g]
      BY <1>0, <1>2, <2>1, SendStep DEF Sends, CountsSend, TypeOK
    <3> QED
      BY <3>1, <3>2
  <2>2. CASE FetchAndPlan(h) /\ g = h
    <3>1. PICK F \in FetchTasks(status, created) :
            tasksMap' = [tasksMap EXCEPT ![h] = PropagateFailures(BuildMap(status, F))]
      BY <2>2 DEF FetchAndPlan
    <3>2. tasksMap'[h] = BuildMap(status, F)
      BY <1>0, <3>1, FetchedMap DEF TypeOK
    <3> QED
      BY <2>2, <3>2 DEF FetchAndPlan, BuildMap
  <2>3. CASE (SendTask(h) \/ SendIsLost(h) \/ SendFails(h)) /\ g = h
    <3>1. PICK u \in todo[h] :
            /\ CountsSend(h, u) \/ sent' = sent
            /\ tasksMap' = tasksMap \/ tasksMap' = [tasksMap EXCEPT ![h][u] = "waiting"]
      BY <2>3 DEF CountsSend, Publish, SendTask, SendIsLost, Sent, SendFails
    <3>2. u # t /\ u \in Task
      BY <1>0, <2>3 DEF CycleOK, TypeOK, Missing
    <3>3. tasksMap'[h][t] = tasksMap[h][t]
      BY <1>0, <3>1, <3>2 DEF TypeOK, TasksMap
    <3>4. sent'[h][t] = sent[h][t]
      BY <1>0, <3>1, <3>2 DEF Sends, CountsSend, TypeOK
    <3> QED
      BY <2>3, <3>3, <3>4
  <2>4. CASE (FinishCycle(h) \/ AbortCycle(h)) /\ g = h
    BY <1>0, <2>4 DEF FinishCycle, AbortCycle, EndCycle, EmptyMap, TypeOK
  <2>5. CASE VisitQueue(h) \/ VisitFails(h) \/ PersistTask(h) \/ EmptyCycle(h)
    BY <2>5 DEF VisitQueue, VisitFails, Visit, PersistTask, EmptyCycle, vars
  <2>6. CASE UpdateParent(h)
    BY <2>6, ParentsUntouched DEF UpdateParent
  <2> QED
    BY <1>2, <2>1, <2>2, <2>3, <2>4, <2>5, <2>6 DEF HostStep, CycleStep
<1> QED
  BY <1>1, <1>2, UserFrame, WorkerFrame, ProcFrame DEF Next, vars

LEMMA AskedStep == CycleInv /\ HandlerInv /\ AskedInv /\ [Next]_vars => AskedInv'
<1> SUFFICES ASSUME CycleInv, HandlerInv, AskedInv, [Next]_vars, NEW t \in Task
             PROVE  asks'[t] <= MaxAsks[t] /\ (asks'[t] = 0 => Untouched(t)')
  BY DEF AskedInv
<1>0. TypeOK /\ asks[t] \in Nat
  BY DEF CycleInv, TypeInv, TypeOK
<1>1. asks'[t] <= MaxAsks[t]
  BY <1>0, AskStep DEF AskedInv
<1>2. ASSUME asks'[t] = 0 PROVE Untouched(t)'
  <2>1. asks'[t] = asks[t] /\ Untouched(t)
    BY <1>0, <1>2, AskStep DEF AskedInv
  <2>2. status'[t] = Missing
    BY <2>1, StatusStep DEF Untouched, Stopped, Persists, Reports, Missing
  <2>3. \A h \in Host : tasksMap'[h][t] = Missing /\ sent'[h][t] = 0
    BY <2>1, UntouchedByHost DEF Untouched
  <2>4. ASSUME NEW m \in ready', m.task = t PROVE FALSE
    <3>1. ~IsSent(m)
      <4>1. \A h \in Host : t \notin todo[h]
        BY <2>1 DEF CycleInv, CycleOK, Untouched, Missing
      <4> QED
        BY <2>4, <4>1 DEF IsSent
    <3> QED
      BY <1>0, <2>1, <2>4, <3>1, ReadyStep DEF Untouched
  <2>5. ASSUME NEW w \in Worker, Busy(w)' PROVE msg'[w].task # t
    BY <1>0, <2>1, <2>5, MsgStep DEF Untouched
  <2>6. \A w \in Worker : statusCache'[w][t] = Missing
    BY <1>0, <2>1, CacheStep DEF Untouched
  <2>7. ProcsOf(t)' = {}
    <3>1. ~SpawnsFor(t)
      BY <2>1 DEF SpawnsFor, Untouched, Spawn, Busy
    <3>2. ASSUME NEW p \in ProcsOf(t)' PROVE FALSE
      BY <1>0, <2>1, <3>1, <3>2, ProcsStep DEF Untouched
    <3> QED
      BY <3>2
  <2> QED
    BY <2>2, <2>3, <2>4, <2>5, <2>6, <2>7 DEF Untouched
<1> QED
  BY <1>1, <1>2

-----------------------------------------------------------------------------
(* What a cycle is about to persist as WAITING it has published.            *)
SentInv == \A h \in Host, t \in Task :
    original[h][t] = "pending" /\ tasksMap[h][t] = "waiting" => sent[h][t] > 0

LEMMA SentStep == CycleInv /\ SentInv /\ [Next]_vars => SentInv'
<1> SUFFICES ASSUME CycleInv, SentInv, [Next]_vars, NEW g \in Host, NEW t \in Task,
                    original'[g][t] = "pending", tasksMap'[g][t] = "waiting"
             PROVE  sent'[g][t] > 0
  BY DEF SentInv
<1>0. TypeOK /\ CycleOK(g) /\ \A u \in Task : status[u] # "retrying"
  BY DEF CycleInv, TypeInv
<1>1. CASE UNCHANGED hostVars
  BY <1>1 DEF SentInv
<1>2. ASSUME NEW h \in Host, HostStep(h) PROVE sent'[g][t] > 0
  <2>1. sent[g][t] \in Nat /\ (sent'[g][t] = sent[g][t] \/ sent'[g][t] = sent[g][t] + 1)
    <3>1. sent' = sent \/ \E u \in todo[h] : CountsSend(h, u)
      BY <1>2, SendStep DEF Sends
    <3>2. ASSUME NEW u \in todo[h], CountsSend(h, u)
          PROVE  sent'[g][t] = sent[g][t] \/ sent'[g][t] = sent[g][t] + 1
      BY <1>0, <3>2 DEF Sends, CountsSend, TypeOK
    <3> QED
      BY <1>0, <3>1, <3>2 DEF TypeOK
  <2>2. CASE original'[g][t] = original[g][t] /\ tasksMap'[g][t] = tasksMap[g][t]
    BY <2>1, <2>2 DEF SentInv
  <2>3. CASE SendTask(h) \/ SendIsLost(h)
    <3>1. PICK u \in todo[h] :
            CountsSend(h, u) /\ tasksMap' = [tasksMap EXCEPT ![h][u] = "waiting"]
      BY <2>3 DEF CountsSend, Publish, SendTask, SendIsLost, Sent
    <3>2. original' = original /\ u \in Task
      BY <1>0, <2>3 DEF SendTask, SendIsLost, Sent, TypeOK
    <3>3. CASE g = h /\ t = u
      BY <1>0, <2>1, <3>1, <3>3 DEF Sends, CountsSend, TypeOK
    <3>4. CASE ~(g = h /\ t = u)
      <4>1. tasksMap'[g][t] = tasksMap[g][t]
        BY <1>0, <3>1, <3>2, <3>4 DEF TypeOK, TasksMap
      <4> QED
        BY <2>2, <3>2, <4>1
    <3> QED
      BY <3>3, <3>4
  <2>4. CASE g # h
    BY <1>0, <1>2, <2>2, <2>4, HostsApart
  <2>5. CASE FetchAndPlan(h) /\ g = h
    <3>1. PICK F \in FetchTasks(status, created) :
            /\ original' = [original EXCEPT ![h] = BuildMap(status, F)]
            /\ tasksMap' = [tasksMap EXCEPT ![h] = PropagateFailures(BuildMap(status, F))]
      BY <2>5 DEF FetchAndPlan
    <3>2. original'[h] = tasksMap'[h]
      BY <1>0, <3>1, FetchedMap DEF TypeOK
    <3> QED
      BY <2>5, <3>2
  <2>6. CASE (FinishCycle(h) \/ AbortCycle(h)) /\ g = h
    BY <1>0, <2>6 DEF FinishCycle, AbortCycle, EndCycle, EmptyMap, Missing, TypeOK
  <2>7. CASE VisitQueue(h) \/ VisitFails(h) \/ SendFails(h) \/ PersistTask(h) \/ EmptyCycle(h)
    BY <2>2, <2>7 DEF VisitQueue, VisitFails, Visit, SendFails, PersistTask, EmptyCycle, vars
  <2>8. CASE UpdateParent(h)
    BY <2>2, <2>8, ParentsUntouched DEF UpdateParent
  <2> QED
    BY <1>2, <2>3, <2>4, <2>5, <2>6, <2>7, <2>8 DEF HostStep, CycleStep
<1> QED
  BY <1>1, <1>2, UserFrame, WorkerFrame, ProcFrame DEF Next, vars

-----------------------------------------------------------------------------
(* A published task that has not begun: the broker has a message of it or   *)
(* will get it back, or a process has it and has not reported.              *)
Solid(t) ==
    \/ \E m \in ready : m.task = t
    \/ \E w \in Worker : unacked[w] /\ Holding(w) /\ msg[w].task = t
    \/ \E p \in ProcsOf(t) : ppc[p] \in {"starting", "dead"}

\* A task that was asked for once and is PENDING or WAITING has not begun: so
\* no handler takes it for stopped, and no process of it has reported.
Early(t) == asks[t] = 1 /\ status[t] \in {"pending", "waiting"}

EarlyOK(t) ==
    /\ \A w \in Worker : statusCache[w][t] \in {Missing, "pending", "waiting"}
    /\ \A p \in ProcsOf(t) : ppc[p] \in {"starting", "dead"}
    /\ status[t] = "waiting" \/ (\E h \in Host : sent[h][t] > 0)
       => Solid(t) \/ NeverArrived(t)

EarlyInv == \A t \in Task : Early(t) => EarlyOK(t)

CarriedInv == CycleInv /\ MessageInv /\ AskedInv /\ SentInv /\ EarlyInv

\* The broker keeps a message until a handler takes it.
LEMMA SolidReady ==
    ASSUME TypeOK, [Next]_vars, NEW m \in ready
    PROVE  m \in ready' \/ \E w \in Worker : unacked'[w] /\ Holding(w)' /\ msg'[w] = m
<1>1. CASE ready \subseteq ready'
  BY <1>1
<1>2. ASSUME NEW h \in Host, HostStep(h) PROVE ready \subseteq ready'
  BY <1>2, SendStep DEF Sends
<1>3. ASSUME NEW w \in Worker, WorkerStep(w)
      PROVE  m \in ready' \/ (unacked'[w] /\ Holding(w)' /\ msg'[w] = m)
  <2>1. CASE Receive(w)
    <3>1. PICK n \in ready : ready' = ready \ {n} /\ msg' = [msg EXCEPT ![w] = n]
      BY <2>1 DEF Receive
    <3>2. unacked'[w] /\ Holding(w)' /\ msg'[w] = n
      BY <2>1, <3>1 DEF Receive, Holding, TypeOK
    <3> QED
      BY <3>1, <3>2
  <2>2. CASE ~Receive(w)
    BY <1>3, <2>2 DEF WorkerStep, HandlerStep, WorkerFault, ServiceRegister, WorkerLaunch,
      CheckStatus, CheckCapacity, Settle, Spawn, Ack, CheckFails, CapacityFails, SpawnFails,
      ConnectionLost, WorkerCrash, SlotsExpire, StatusExpires
  <2> QED
    BY <2>1, <2>2
<1> QED
  BY <1>1, <1>2, <1>3, UserFrame, ProcFrame DEF Next, vars

\* A worker component leaves the deliveries of the others alone.
LEMMA HandlersApart ==
    ASSUME TypeOK, NEW w \in Worker, WorkerStep(w), NEW v \in Worker \ {w}
    PROVE  wpc'[v] = wpc[v] /\ msg'[v] = msg[v] /\ unacked'[v] = unacked[v]
<1>1. CASE HandlerStep(w)
  BY <1>1 DEF HandlerStep, WorkerLaunch, Receive, CheckStatus, CheckCapacity, Settle, Spawn,
    Ack, TypeOK
<1>2. CASE WorkerFault(w)
  BY <1>2 DEF WorkerFault, CheckFails, CapacityFails, SpawnFails, Settle, ConnectionLost,
    WorkerCrash, TypeOK
<1>3. CASE ServiceRegister(w) \/ SlotsExpire(w) \/ \E t \in Task : StatusExpires(w, t)
  BY <1>3 DEF ServiceRegister, SlotsExpire, StatusExpires
<1> QED
  BY <1>1, <1>2, <1>3 DEF WorkerStep

\* A handler of an early task goes on to start a process for it or returns its
\* message to the broker.
LEMMA SolidHandler ==
    ASSUME TypeOK, HandlerInv, [Next]_vars, NEW t \in Task, NEW v \in Worker,
           unacked[v], Holding(v), msg[v].task = t,
           statusCache[v][t] \in {Missing, "pending", "waiting"},
           status[t] \in {"pending", "waiting"}
    PROVE  Solid(t)'
<1>1. CASE UNCHANGED <<unacked, wpc, msg>>
  BY <1>1 DEF Solid, Holding
<1>2. ASSUME NEW w \in Worker, WorkerStep(w) PROVE Solid(t)'
  <2>1. CASE w # v
    <3>1. wpc'[v] = wpc[v] /\ msg'[v] = msg[v] /\ unacked'[v] = unacked[v]
      BY <1>2, <2>1, HandlersApart
    <3> QED
      BY <3>1 DEF Solid, Holding
  <2>2. CASE w = v /\ (CheckStatus(w) \/ CheckFails(w))
    <3>1. KnownStatus(w, t) # "stopped"
      BY <2>2 DEF KnownStatus
    <3>2. UNCHANGED <<unacked, msg>> /\ wpc'[w] = "capacity"
      BY <2>2, <3>1 DEF CheckStatus, CheckFails, TypeOK
    <3> QED
      BY <2>2, <3>2 DEF Solid, Holding
  <2>3. CASE w = v /\ CheckCapacity(w) /\ wpc' = [wpc EXCEPT ![w] = "spawn"]
             /\ UNCHANGED <<brokerVars, msg>>
    BY <2>3 DEF Solid, Holding, TypeOK
  <2>4. CASE w = v /\ (Settle(w, TRUE) \/ ConnectionLost(w) \/ WorkerCrash(w))
    <3>1. msg[v] \in ready'
      BY <2>4 DEF Settle, ConnectionLost, WorkerCrash
    <3> QED
      BY <3>1 DEF Solid
  <2>5. CASE w = v /\ Spawn(w)
    <3>1. PICK p \in Proc : /\ ppc' = [ppc EXCEPT ![p] = "starting"]
                            /\ pmsg' = [pmsg EXCEPT ![p] = msg[w]]
      BY <2>5 DEF Spawn
    <3>2. ppc'[p] = "starting" /\ pmsg'[p].task = t
      BY <2>5, <3>1 DEF TypeOK
    <3> QED
      BY <3>2 DEF Solid, ProcsOf
  <2>6. CASE w = v /\ (Receive(w) \/ WorkerLaunch(w) \/ Ack(w))
    BY <2>6 DEF Receive, WorkerLaunch, Ack, Holding
  <2>7. CASE ServiceRegister(w) \/ SlotsExpire(w) \/ \E u \in Task : StatusExpires(w, u)
    BY <1>1, <2>7 DEF ServiceRegister, SlotsExpire, StatusExpires
  <2>8. CheckCapacity(w) => \/ wpc' = [wpc EXCEPT ![w] = "spawn"] /\ UNCHANGED <<brokerVars, msg>>
                            \/ Settle(w, TRUE)
    BY DEF CheckCapacity
  <2>9. SpawnFails(w) \/ CapacityFails(w) => Settle(w, TRUE)
    BY DEF SpawnFails, CapacityFails
  <2> QED
    BY <1>2, <2>1, <2>2, <2>3, <2>4, <2>5, <2>6, <2>7, <2>8, <2>9
    DEF WorkerStep, HandlerStep, WorkerFault
<1> QED
  BY <1>1, <1>2, UserFrame, HostFrame, ProcFrame DEF Next, vars

\* A worker component leaves the processes that have been started alone.
LEMMA StartedKept ==
    ASSUME TypeOK, NEW w \in Worker, WorkerStep(w), NEW p \in Proc, Started(p)
    PROVE  ppc'[p] = ppc[p] /\ pmsg'[p] = pmsg[p]
<1>1. CASE Spawn(w)
  <2>1. PICK q \in Proc : /\ ppc[q] = "free" /\ ppc' = [ppc EXCEPT ![q] = "starting"]
                          /\ pmsg' = [pmsg EXCEPT ![q] = msg[w]]
    BY <1>1 DEF Spawn
  <2> QED
    BY <2>1 DEF Started, TypeOK
<1>2. CASE ~Spawn(w)
  BY <1>2 DEF WorkerStep, HandlerStep, WorkerFault, ServiceRegister, WorkerLaunch,
    Receive, CheckStatus, CheckCapacity, Ack, CheckFails, CapacityFails, SpawnFails,
    ConnectionLost, WorkerCrash, SlotsExpire, StatusExpires
<1> QED
  BY <1>1, <1>2

\* A process of a task that does not report stays where it was, or dies.
LEMMA ProcWaits ==
    ASSUME TypeOK, [Next]_vars, NEW t \in Task, NEW p \in ProcsOf(t),
           ppc[p] \in {"starting", "dead"}, status'[t] \in {"pending", "waiting"}
    PROVE  p \in ProcsOf(t)' /\ ppc'[p] \in {"starting", "dead"}
<1>0. p \in Proc /\ pmsg[p].task = t
  BY DEF ProcsOf
<1>1. CASE UNCHANGED <<ppc, pmsg>>
  BY <1>0, <1>1 DEF ProcsOf
<1>2. ASSUME NEW w \in Worker, WorkerStep(w) PROVE ppc'[p] = ppc[p] /\ pmsg'[p] = pmsg[p]
  BY <1>0, <1>2, StartedKept DEF Started
<1>3. ASSUME NEW q \in Proc, ProcStep(q)
      PROVE  pmsg'[p] = pmsg[p] /\ ppc'[p] \in {"starting", "dead"}
  <2>1. CASE q # p
    BY <1>0, <1>3, <2>1, ProcFrame DEF ProcStep, TaskStep, Report, ReportRunning,
      ReportSuccess, ReportFailure, EnterRunSet, LeaveRunSet, ReportFails, Die, TypeOK
  <2>2. CASE q = p
    <3>1. ~ReportRunning(p)
      BY <1>0 DEF ReportRunning, Report, TypeOK, TasksMap
    <3> QED
      BY <1>0, <1>3, <2>2, <3>1, ProcFrame DEF ProcStep, TaskStep, Report, ReportSuccess,
        ReportFailure, EnterRunSet, LeaveRunSet, ReportFails, Die, TypeOK
  <2> QED
    BY <2>1, <2>2
<1> QED
  BY <1>0, <1>1, <1>2, <1>3, UserFrame, HostFrame DEF Next, vars, ProcsOf

LEMMA SolidStays ==
    ASSUME TypeOK, HandlerInv, [Next]_vars, NEW t \in Task, EarlyOK(t), Solid(t),
           status[t] \in {"pending", "waiting"}, status'[t] \in {"pending", "waiting"}
    PROVE  Solid(t)'
<1>1. ASSUME NEW m \in ready, m.task = t PROVE Solid(t)'
  BY <1>1, SolidReady DEF Solid
<1>2. ASSUME NEW w \in Worker, unacked[w], Holding(w), msg[w].task = t PROVE Solid(t)'
  BY <1>2, SolidHandler DEF EarlyOK
<1>3. ASSUME NEW p \in ProcsOf(t), ppc[p] \in {"starting", "dead"} PROVE Solid(t)'
  BY <1>3, ProcWaits DEF Solid
<1> QED
  BY <1>1, <1>2, <1>3 DEF Solid

\* A lost message stays lost, and only a host loses one, the one it sends.
LEMMA LossStep ==
    ASSUME [Next]_vars
    PROVE  \/ lost' = lost
           \/ \E h \in Host : \E t \in todo[h] :
                 /\ CountsSend(h, t) /\ lost' = lost \cup {Publication(h, t)}
                 /\ UNCHANGED <<ready, wpc, msg>>
<1>1. ASSUME NEW h \in Host, HostStep(h), lost' # lost
      PROVE  \E t \in todo[h] : /\ CountsSend(h, t) /\ lost' = lost \cup {Publication(h, t)}
                                /\ UNCHANGED <<ready, wpc, msg>>
  BY <1>1, SendStep, HostFrame DEF Sends
<1> QED
  BY <1>1, UserFrame, WorkerFrame, ProcFrame DEF Next, vars

\* A count that grows is that of the message sent, which arrives or is lost.
LEMMA SentStepFrom ==
    ASSUME TypeOK, [Next]_vars, NEW t \in Task, NEW h \in Host
    PROVE  \/ sent'[h][t] = sent[h][t]
           \/ /\ sent'[h][t] = sent[h][t] + 1
              /\ Publication(h, t) \in ready' \cup lost'
<1>1. CASE UNCHANGED sent
  BY <1>1
<1>2. ASSUME NEW g \in Host, NEW u \in todo[g], Sends(g, u)
      PROVE  \/ sent'[h][t] = sent[h][t]
             \/ /\ sent'[h][t] = sent[h][t] + 1
                /\ Publication(h, t) \in ready' \cup lost'
  <2>1. CASE g = h /\ u = t
    BY <1>2, <2>1 DEF Sends, CountsSend, TypeOK
  <2>2. CASE ~(g = h /\ u = t)
    BY <1>2, <2>2 DEF Sends, CountsSend, TypeOK
  <2> QED
    BY <2>1, <2>2
<1> QED
  BY <1>1, <1>2, SendStep, UserFrame, WorkerFrame, ProcFrame DEF Next, vars

\* An early task either was early before, or has just been asked for.
LEMMA EarlyFrom ==
    ASSUME CycleInv, AskedInv, [Next]_vars, NEW t \in Task, Early(t)'
    PROVE  Early(t) \/ (Untouched(t) /\ Submit(t))
<1>0. TypeOK /\ asks[t] \in Nat
  BY DEF CycleInv, TypeInv, TypeOK
<1>1. CASE asks'[t] = asks[t]
  <2>1. status[t] \in {"pending", "waiting"}
    BY <1>1, StatusStep DEF Early, Stopped, Persists, Reports
  <2> QED
    BY <1>1, <2>1 DEF Early
<1>2. CASE asks'[t] # asks[t]
  <2>1. asks[t] = 0 /\ (Submit(t) \/ TaskRetry(t))
    BY <1>0, <1>2, AskStep DEF Early, Asks
  <2>2. Untouched(t)
    BY <2>1 DEF AskedInv
  <2> QED
    BY <2>1, <2>2 DEF TaskRetry, Untouched, Missing
<1> QED
  BY <1>1, <1>2

LEMMA EarlyStep == CarriedInv /\ [Next]_vars => EarlyInv'
<1> SUFFICES ASSUME CarriedInv, [Next]_vars, NEW t \in Task, Early(t)' PROVE EarlyOK(t)'
  BY DEF EarlyInv
<1>0. TypeOK /\ HandlerInv /\ CycleInv /\ AskedInv
  BY DEF CarriedInv, CycleInv, MessageInv, TypeInv
<1>1. CASE Untouched(t) /\ Submit(t)
  <2>1. UNCHANGED <<statusCache, pmsg, ppc, sent>> /\ status'[t] = "pending"
    BY <1>0, <1>1 DEF Submit, TypeOK, TasksMap
  <2> QED
    BY <1>1, <2>1 DEF Untouched, EarlyOK, ProcsOf
<1>2. CASE Early(t)
  <2>1. EarlyOK(t) /\ status[t] \in {"pending", "waiting"} /\ status'[t] \in {"pending", "waiting"}
    BY <1>2 DEF CarriedInv, EarlyInv, Early
  <2>2. \A w \in Worker : statusCache'[w][t] \in {Missing, "pending", "waiting"}
    BY <1>0, <2>1, CacheStep DEF EarlyOK
  <2>3. ASSUME NEW p \in ProcsOf(t)' PROVE ppc'[p] \in {"starting", "dead"}
    <3>1. CASE p \in ProcsOf(t)
      BY <1>0, <2>1, <3>1, ProcWaits DEF EarlyOK
    <3>2. CASE p \notin ProcsOf(t)
      BY <1>0, <3>2, ProcsStep
    <3> QED
      BY <3>1, <3>2
  <2>4. CASE \E h \in Host : sent'[h][t] # sent[h][t]
    <3>1. PICK h \in Host : Publication(h, t) \in ready' \cup lost'
      BY <1>0, <2>4, SentStepFrom
    <3>2. Solid(t)' \/ NeverArrived(t)'
      BY <3>1 DEF Solid, NeverArrived, Publication
    <3> QED
      BY <2>2, <2>3, <3>2 DEF EarlyOK
  <2>5. CASE \A h \in Host : sent'[h][t] = sent[h][t]
    <3> SUFFICES ASSUME status'[t] = "waiting" \/ \E h \in Host : sent[h][t] > 0
                 PROVE  Solid(t)' \/ NeverArrived(t)'
      BY <2>2, <2>3, <2>5 DEF EarlyOK
    <3>1. status[t] = "waiting" \/ \E h \in Host : sent[h][t] > 0
      <4>1. asks'[t] = asks[t]
        BY <1>2 DEF Early
      <4>2. status'[t] = "waiting" => status[t] = "waiting" \/ Persists(t)
        BY <1>0, <4>1, StatusStep DEF Stopped, Reports
      <4> QED
        BY <4>2 DEF Persists, CarriedInv, SentInv
    <3>2. NeverArrived(t) => NeverArrived(t)'
      BY LossStep DEF NeverArrived
    <3> QED
      BY <1>0, <2>1, <3>1, <3>2, SolidStays DEF EarlyOK
  <2> QED
    BY <2>4, <2>5
<1> QED
  BY <1>0, <1>1, <1>2, EarlyFrom

LEMMA CarriedCorrect == Spec => []CarriedInv
<1>1. Init => CarriedInv
  <2>1. Init => SentInv /\ EarlyInv
    BY DEF Init, SentInv, EarlyInv, Early, EmptyMap, Missing
  <2> QED
    BY <2>1, CycleInit, MessageInit, AskedInit DEF CarriedInv
<1>2. CarriedInv /\ [Next]_vars => CarriedInv'
  BY CycleStepInv, MessageStep, AskedStep, SentStep, EarlyStep DEF CarriedInv, MessageInv
<1> QED
  BY <1>1, <1>2, PTL DEF Spec

(* A WAITING task that was asked for once is carried, however many hosts    *)
(* published it and whatever crashed, disconnected or failed in between,    *)
(* unless the broker never got a publication of it that was reported sent.  *)
THEOREM WaitingIsCarriedCorrect == Spec => []WaitingIsCarried
<1>1. CarriedInv => WaitingIsCarried
  BY DEF CarriedInv, EarlyInv, Early, EarlyOK, Solid, Holding, WaitingIsCarried, Carrier
<1> QED
  BY <1>1, CarriedCorrect, PTL

-----------------------------------------------------------------------------
(* A reported task: the process that reported it is past its report.        *)
Past(p) == ppc[p] \in {"leaving", "done", "dead"}

EndInv == \A t \in Task :
    status[t] \in {"success", "failed"} => \E p \in ProcsOf(t) : Past(p)

LEMMA PastStays ==
    ASSUME TypeOK, [Next]_vars, NEW t \in Task, NEW p \in ProcsOf(t), Started(p)
    PROVE  p \in ProcsOf(t)' /\ (Past(p) => Past(p)')
<1>0. p \in Proc /\ pmsg[p].task = t
  BY DEF ProcsOf
<1> SUFFICES pmsg'[p] = pmsg[p] /\ (Past(p) => Past(p)')
  BY <1>0 DEF ProcsOf
<1>1. CASE UNCHANGED <<ppc, pmsg>>
  BY <1>1 DEF Past
<1>2. ASSUME NEW w \in Worker, WorkerStep(w) PROVE ppc'[p] = ppc[p] /\ pmsg'[p] = pmsg[p]
  BY <1>0, <1>2, StartedKept
<1>3. ASSUME NEW q \in Proc, ProcStep(q)
      PROVE  pmsg'[p] = pmsg[p] /\ (Past(p) => Past(p)')
  BY <1>0, <1>3, ProcFrame DEF ProcStep, TaskStep, Report, ReportRunning, ReportSuccess,
    ReportFailure, EnterRunSet, LeaveRunSet, ReportFails, Die, Past, TypeOK
<1> QED
  BY <1>1, <1>2, <1>3, UserFrame, HostFrame DEF Next, vars, Past

LEMMA EndStep == CycleInv /\ EndInv /\ [Next]_vars => EndInv'
<1> SUFFICES ASSUME CycleInv, EndInv, [Next]_vars, NEW t \in Task,
                    status'[t] \in {"success", "failed"}
             PROVE  \E p \in ProcsOf(t)' : Past(p)'
  BY DEF EndInv
<1>0. TypeOK /\ asks[t] \in Nat
  BY DEF CycleInv, TypeInv, TypeOK
<1>1. asks'[t] = asks[t]
  <2>1. Asks(t) => status'[t] = "pending"
    BY <1>0 DEF Asks, Submit, TaskRetry, TypeOK, TasksMap
  <2> QED
    BY <1>0, <2>1, AskStep
<1>2. CASE status'[t] = status[t]
  <2>1. PICK p \in ProcsOf(t) : Past(p)
    BY <1>2 DEF EndInv
  <2> QED
    BY <1>0, <2>1, PastStays DEF Past, Started
<1>3. CASE Reports(t)
  <2>1. PICK p \in ProcsOf(t) : ppc[p] = "running" /\ ppc'[p] = "leaving"
    BY <1>3 DEF Reports
  <2>2. p \in ProcsOf(t)' /\ Past(p)'
    BY <1>0, <2>1, PastStays DEF Past, Started
  <2> QED
    BY <2>2
<1> QED
  BY <1>1, <1>2, <1>3, StatusStep DEF Stopped, Persists

LEMMA EndCorrect == Spec => []EndInv
<1>1. Init => EndInv
  BY DEF Init, EndInv, EmptyMap, Missing
<1> QED
  BY <1>1, CycleCorrect, EndStep, PTL DEF Spec

\* One message of the task was published, and the broker delivered it once.
PublishedOnce(t) ==
    /\ \A g, h \in Host : sent[g][t] > 0 /\ sent[h][t] > 0 => g = h
    /\ \A h \in Host : sent[h][t] <= 1
    /\ \A m \in redelivered : m.task # t

LEMMA OneProcess ==
    ASSUME MessageInv, NEW t \in Task, PublishedOnce(t), NEW p \in ProcsOf(t), Started(p),
           NEW q \in ProcsOf(t), Started(q)
    PROVE  p = q
<1>0. TypeOK /\ p \in Proc /\ q \in Proc /\ pmsg[p].task = t /\ pmsg[q].task = t
  BY DEF MessageInv, TypeInv, ProcsOf
<1>1. ASSUME NEW x \in Proc, Started(x), pmsg[x].task = t
      PROVE  /\ pmsg[x] \in Message /\ pmsg[x].host \in Host
             /\ sent[pmsg[x].host][t] > 0 /\ pmsg[x].seq = 1
  <2>1. pmsg[x] \in Message /\ pmsg[x].seq <= sent[pmsg[x].host][t]
    BY <1>1 DEF MessageInv, FreshInv
  <2>2. pmsg[x].host \in Host /\ pmsg[x].seq \in Nat \ {0}
    BY <2>1 DEF Message
  <2>3. sent[pmsg[x].host][t] \in Nat /\ sent[pmsg[x].host][t] <= 1
    BY <1>0, <2>2 DEF TypeOK, PublishedOnce
  <2> QED
    BY <2>1, <2>2, <2>3
<1>2. pmsg[p].host = pmsg[q].host /\ pmsg[p].seq = pmsg[q].seq
  BY <1>0, <1>1 DEF PublishedOnce
<1>3. pmsg[p] \in Message /\ pmsg[q] \in Message
  BY <1>0, <1>1
<1>4. pmsg[p] = pmsg[q]
  BY <1>0, <1>2, <1>3 DEF Message
<1>5. pmsg[p] \notin redelivered
  BY <1>0 DEF PublishedOnce
<1> QED
  BY <1>0, <1>4, <1>5 DEF MessageInv, OnceInv

LEMMA ReportedStays ==
    ASSUME CycleInv, MessageInv, EndInv, [Next]_vars, NEW t \in Task, PublishedOnce(t),
           status[t] \in {"success", "failed"}, asks'[t] = asks[t]
    PROVE  status'[t] = status[t]
<1>1. PICK p \in ProcsOf(t) : Past(p)
  BY DEF EndInv
<1>2. ~Reports(t)
  <2> SUFFICES ASSUME NEW q \in ProcsOf(t), ppc[q] \in {"starting", "running"} PROVE FALSE
    BY DEF Reports
  <2>1. p = q
    BY <1>1, OneProcess DEF Past, Started
  <2> QED
    BY <1>1, <2>1 DEF Past
<1> QED
  BY <1>2, StatusStep DEF Stopped, Persists, FINAL_STATUS

(* A task of which one message was published and delivered once keeps the   *)
(* SUCCESS or FAILED it reported until it is asked for again: no scheduling *)
(* cycle, stop or other process can overwrite it, whatever fails.           *)
THEOREM ReportedIsKept ==
    Spec => [][\A t \in Task : /\ status[t] \in {"success", "failed"}
                               /\ asks'[t] = asks[t] /\ PublishedOnce(t)
                               => status'[t] = status[t]]_vars
<1>1. CycleInv /\ MessageInv /\ EndInv /\ [Next]_vars
      => [\A t \in Task : /\ status[t] \in {"success", "failed"}
                          /\ asks'[t] = asks[t] /\ PublishedOnce(t)
                          => status'[t] = status[t]]_vars
  BY ReportedStays
<1> QED
  BY <1>1, CycleCorrect, MessageCorrect, EndCorrect, PTL DEF Spec

\* With one host, no faults and no retries, that is every task.
LEMMA OncePublished ==
    ASSUME FaultInv, AskedInv, DispatchBound, NEW only, Host = {only}, MaxFaults = 0,
           \A t \in Task : MaxAsks[t] <= 1, NEW t \in Task
    PROVE  PublishedOnce(t)
<1>0. TypeOK /\ faults \in Nat
  BY DEF FaultInv, TypeInv, TypeOK
<1>1. redelivered = {} /\ slips[only] = 0
  BY <1>0 DEF FaultInv
<1>2. sent[only][t] <= asks[t] + slips[only] /\ asks[t] <= MaxAsks[t] /\ MaxAsks[t] <= 1
  BY DEF DispatchBound, AskedInv
<1>3. sent[only][t] \in Nat /\ asks[t] \in Nat /\ MaxAsks[t] \in Nat
  BY <1>0, PipelineAssumption DEF TypeOK
<1>4. sent[only][t] <= 1
  BY <1>1, <1>2, <1>3
<1> QED
  BY <1>1, <1>4 DEF PublishedOnce

(* Where one host schedules, nothing fails and nobody asks twice, a task    *)
(* that reported SUCCESS or FAILED keeps that status.                       *)
THEOREM ReportedIsFinalCorrect ==
    ASSUME NEW only, Host = {only}, MaxFaults = 0, \A t \in Task : MaxAsks[t] <= 1
    PROVE  Spec => ReportedIsFinal
<1>1. CycleInv /\ MessageInv /\ EndInv /\ FaultInv /\ AskedInv /\ DispatchBound /\ [Next]_vars
      => [\A t \in Task : status[t] \in {"success", "failed"} /\ asks'[t] = asks[t]
                          => status'[t] = status[t]]_vars
  BY ReportedStays, OncePublished
<1>2. CarriedInv => AskedInv
  BY DEF CarriedInv
<1> QED
  BY <1>1, <1>2, CycleCorrect, MessageCorrect, EndCorrect, FaultCorrect, CarriedCorrect,
    DispatchBoundCorrect, PTL DEF Spec, ReportedIsFinal

-----------------------------------------------------------------------------
(* No message is lost: until it has started a process, the broker has it or *)
(* awaits the answer to it, unless the users may stop its task.             *)
UsedBy(m) == \E p \in Proc : Started(p) /\ pmsg[p] = m

Kept(m) ==
    \/ m \in ready
    \/ \E w \in Worker : unacked[w] /\ Holding(w) /\ msg[w] = m
    \/ UsedBy(m)
    \/ m.task \in Stoppable
    \/ m \in lost

KeptInv == \A m \in Message : m.seq <= sent[m.host][m.task] => Kept(m)

\* What never reached the broker is with nobody.
GoneInv == \A m \in lost : /\ m.seq <= sent[m.host][m.task] /\ m \notin ready
                          /\ \A w \in Worker : Busy(w) => msg[w] # m

\* A handler that awaits no answer has a message the broker took back.
LostInv == \A w \in Worker : Busy(w) => unacked[w] \/ msg[w] \in redelivered

\* Only a task that may be stopped is known to be stopped.
StopInv == \A t \in Task :
    /\ status[t] = "stopped" => t \in Stoppable
    /\ \A w \in Worker : statusCache[w][t] = "stopped" => t \in Stoppable

LifeInv == CarriedInv /\ GoneInv /\ LostInv /\ StopInv /\ KeptInv

LEMMA GoneStep == MessageInv /\ GoneInv /\ [Next]_vars => GoneInv'
<1> SUFFICES ASSUME MessageInv, GoneInv, [Next]_vars, NEW m \in lost'
             PROVE  /\ m.seq <= sent'[m.host][m.task] /\ m \notin ready'
                    /\ \A w \in Worker : Busy(w)' => msg'[w] # m
  BY DEF GoneInv
<1>0. /\ TypeOK /\ HandlerInv /\ lost \subseteq Message /\ ready \subseteq Message
      /\ \A n \in Message : n.host \in Host /\ n.task \in Task /\ n.seq \in Nat
      /\ \A h \in Host, t \in Task : sent[h][t] \in Nat
  BY DEF MessageInv, TypeInv, TypeOK, Message
<1>1. CASE m \in lost
  <2>1. m \in Message /\ m.seq <= sent[m.host][m.task]
    BY <1>0, <1>1 DEF GoneInv
  <2>2. m.seq <= sent'[m.host][m.task]
    BY <1>0, <2>1, SentStepFrom
  <2>3. ~IsSent(m)
    <3> SUFFICES ASSUME NEW h \in Host, m = Publication(h, m.task) PROVE FALSE
      BY DEF IsSent
    <3>1. m.host = h /\ m.seq = sent[h][m.task] + 1
      BY DEF Publication
    <3> QED
      BY <1>0, <2>1, <3>1
  <2>4. m \notin ready'
    BY <1>0, <1>1, <2>3, ReadyStep DEF GoneInv
  <2>5. \A w \in Worker : Busy(w)' => msg'[w] # m
    BY <1>0, <1>1, MsgStep DEF GoneInv
  <2> QED
    BY <2>2, <2>4, <2>5
<1>2. CASE m \notin lost
  <2>0. PICK h \in Host : \E t \in todo[h] : /\ CountsSend(h, t) /\ m = Publication(h, t)
                                            /\ UNCHANGED <<ready, wpc, msg>>
    BY <1>2, LossStep
  <2>1. PICK t \in todo[h] : /\ CountsSend(h, t) /\ m = Publication(h, t)
                            /\ UNCHANGED <<ready, wpc, msg>>
    BY <2>0
  <2>2. /\ t \in Task /\ m.host = h /\ m.task = t /\ m.seq = sent[h][t] + 1
        /\ sent'[h][t] = sent[h][t] + 1
    BY <1>0, <2>1 DEF Publication, CountsSend, TypeOK
  <2>3. ~(m.seq <= sent[m.host][m.task])
    BY <1>0, <2>2
  <2>4. m \notin ready'
    BY <2>1, <2>3 DEF MessageInv, FreshInv
  <2>5. \A w \in Worker : Busy(w)' => msg'[w] # m
    BY <2>1, <2>3 DEF MessageInv, FreshInv, Busy
  <2> QED
    BY <1>0, <2>2, <2>4, <2>5
<1> QED
  BY <1>1, <1>2

LEMMA LostStep == MessageInv /\ LostInv /\ [Next]_vars => LostInv'
<1> SUFFICES ASSUME MessageInv, LostInv, [Next]_vars, NEW v \in Worker, Busy(v)'
             PROVE  unacked'[v] \/ msg'[v] \in redelivered'
  BY DEF LostInv
<1>0. TypeOK
  BY DEF MessageInv, TypeInv
<1>1. CASE UNCHANGED <<wpc, msg, unacked, redelivered>>
  BY <1>1 DEF LostInv, Busy
<1>2. ASSUME NEW w \in Worker, WorkerStep(w) PROVE unacked'[v] \/ msg'[v] \in redelivered'
  <2>1. CASE v # w
    <3>1. wpc'[v] = wpc[v] /\ msg'[v] = msg[v] /\ unacked'[v] = unacked[v]
      BY <1>0, <1>2, <2>1, HandlersApart
    <3>2. redelivered \subseteq redelivered'
      BY <1>2 DEF WorkerStep, HandlerStep, WorkerFault, ServiceRegister, WorkerLaunch,
        Receive, CheckStatus, CheckCapacity, Settle, Spawn, Ack, CheckFails, CapacityFails,
        SpawnFails, ConnectionLost, WorkerCrash, SlotsExpire, StatusExpires
    <3> QED
      BY <3>1, <3>2 DEF LostInv, Busy
  <2>2. CASE v = w /\ Receive(w)
    BY <1>0, <2>2 DEF Receive, TypeOK
  <2>3. CASE v = w /\ ConnectionLost(w)
    BY <2>3 DEF ConnectionLost
  <2>4. CASE \/ CheckStatus(w) \/ CheckFails(w) \/ Spawn(w)
             \/ CheckCapacity(w) /\ wpc' = [wpc EXCEPT ![w] = "spawn"]
                                 /\ UNCHANGED <<brokerVars, msg>>
    <3>1. Busy(w) /\ UNCHANGED <<msg, unacked, redelivered>>
      BY <2>4 DEF CheckStatus, CheckFails, Spawn, CheckCapacity, Busy
    <3>2. v # w => wpc'[v] = wpc[v]
      BY <1>0, <1>2, HandlersApart
    <3> QED
      BY <3>1, <3>2 DEF LostInv, Busy
  <2>5. CASE v = w /\ (wpc' = [wpc EXCEPT ![w] = "idle"] \/ wpc' = [wpc EXCEPT ![w] = "down"])
    BY <1>0, <2>5 DEF Busy, TypeOK
  <2>6. CASE ServiceRegister(w) \/ SlotsExpire(w) \/ \E t \in Task : StatusExpires(w, t)
    BY <1>1, <2>6 DEF ServiceRegister, SlotsExpire, StatusExpires
  <2>7. /\ WorkerLaunch(w) \/ Ack(w) \/ CapacityFails(w) \/ SpawnFails(w)
           => wpc' = [wpc EXCEPT ![w] = "idle"]
        /\ WorkerCrash(w) => wpc' = [wpc EXCEPT ![w] = "down"]
        /\ CheckCapacity(w) => \/ wpc' = [wpc EXCEPT ![w] = "idle"]
                               \/ wpc' = [wpc EXCEPT ![w] = "spawn"]
                                  /\ UNCHANGED <<brokerVars, msg>>
    BY DEF WorkerLaunch, Ack, CapacityFails, SpawnFails, WorkerCrash, CheckCapacity
  <2> QED
    BY <1>2, <2>1, <2>2, <2>3, <2>4, <2>5, <2>6, <2>7 DEF WorkerStep, HandlerStep, WorkerFault
<1> QED
  BY <1>1, <1>2, UserFrame, HostFrame, ProcFrame DEF Next, vars

LEMMA StopInvStep == CycleInv /\ StopInv /\ [Next]_vars => StopInv'
<1> SUFFICES ASSUME CycleInv, StopInv, [Next]_vars, NEW t \in Task
             PROVE  /\ status'[t] = "stopped" => t \in Stoppable
                    /\ \A w \in Worker : statusCache'[w][t] = "stopped" => t \in Stoppable
  BY DEF StopInv
<1>0. TypeOK /\ asks[t] \in Nat
  BY DEF CycleInv, TypeInv, TypeOK
<1>1. status'[t] = "stopped" => t \in Stoppable
  <2>1. CASE UNCHANGED status
    BY <2>1 DEF StopInv
  <2>2. ASSUME NEW u \in Task, UserStep(u), status'[t] = "stopped" PROVE t \in Stoppable
    BY <1>0, <2>2 DEF UserStep, Submit, TaskStop, TaskRetry, StopInv, TypeOK, TasksMap
  <2>3. ASSUME NEW h \in Host, HostStep(h), status'[t] = "stopped" PROVE status[t] = "stopped"
    <3>1. CASE PersistTask(h)
      <4>1. PICK u \in saving[h] :
              /\ u \in Task /\ original[h][u] = "pending" /\ tasksMap[h][u] = "waiting"
              /\ status' = [status EXCEPT ![u] = IF @ = "pending" THEN "waiting" ELSE @]
        BY <3>1, PersistWritesWaiting
      <4> QED
        BY <1>0, <2>3, <4>1 DEF TypeOK, TasksMap
    <3>2. CASE ~PersistTask(h)
      BY <2>3, <3>2 DEF HostStep, CycleStep, EmptyCycle, vars, FetchAndPlan, VisitQueue,
        VisitFails, Visit, SendTask, SendIsLost, Sent, SendFails, UpdateParent,
        FinishCycle, AbortCycle, EndCycle
    <3> QED
      BY <3>1, <3>2
  <2>4. ASSUME NEW p \in Proc, ProcStep(p), status'[t] = "stopped" PROVE status[t] = "stopped"
    BY <1>0, <2>4 DEF ProcStep, TaskStep, Report, ReportRunning, ReportSuccess, ReportFailure,
      EnterRunSet, LeaveRunSet, ReportFails, Die, TypeOK, TasksMap
  <2> QED
    BY <2>1, <2>2, <2>3, <2>4, WorkerFrame DEF Next, vars, StopInv
<1>2. \A w \in Worker : statusCache'[w][t] = "stopped" => t \in Stoppable
  BY <1>0, CacheStep DEF StopInv, Missing
<1> QED
  BY <1>1, <1>2

\* A handler whose answer the broker awaits starts a process for its message,
\* gives it back, or knows its task to be stopped.
LEMMA KeptHandler ==
    ASSUME TypeOK, StopInv, HandlerInv, [Next]_vars, NEW v \in Worker, unacked[v], Holding(v),
           NEW m, m = msg[v]
    PROVE  Kept(m)'
<1>0. m.task \in Task
  BY DEF HandlerInv, Holding, Busy, Message
<1>1. CASE UNCHANGED <<unacked, wpc, msg>>
  BY <1>1 DEF Kept, Holding
<1>2. ASSUME NEW w \in Worker, WorkerStep(w) PROVE Kept(m)'
  <2>1. CASE w # v
    <3>1. wpc'[v] = wpc[v] /\ msg'[v] = msg[v] /\ unacked'[v] = unacked[v]
      BY <1>2, <2>1, HandlersApart
    <3> QED
      BY <3>1 DEF Kept, Holding
  <2>2. CASE w = v /\ (CheckStatus(w) \/ CheckFails(w))
    <3>1. CASE KnownStatus(w, m.task) = "stopped"
      BY <1>0, <3>1 DEF KnownStatus, StopInv, Kept
    <3>2. CASE KnownStatus(w, m.task) # "stopped"
      <4>1. UNCHANGED <<unacked, msg>> /\ wpc'[w] = "capacity"
        BY <2>2, <3>2 DEF CheckStatus, CheckFails, TypeOK
      <4> QED
        BY <2>2, <4>1 DEF Kept, Holding
    <3> QED
      BY <3>1, <3>2
  <2>3. CASE w = v /\ CheckCapacity(w) /\ wpc' = [wpc EXCEPT ![w] = "spawn"]
             /\ UNCHANGED <<brokerVars, msg>>
    BY <2>3 DEF Kept, Holding, TypeOK
  <2>4. CASE w = v /\ (Settle(w, TRUE) \/ ConnectionLost(w) \/ WorkerCrash(w))
    BY <2>4 DEF Kept, Settle, ConnectionLost, WorkerCrash
  <2>5. CASE w = v /\ Spawn(w)
    <3>1. PICK p \in Proc : /\ ppc' = [ppc EXCEPT ![p] = "starting"]
                            /\ pmsg' = [pmsg EXCEPT ![p] = msg[w]]
      BY <2>5 DEF Spawn
    <3>2. ppc'[p] = "starting" /\ pmsg'[p] = m
      BY <2>5, <3>1 DEF TypeOK
    <3> QED
      BY <3>2 DEF Kept, UsedBy, Started
  <2>6. CASE w = v /\ (Receive(w) \/ WorkerLaunch(w) \/ Ack(w))
    BY <2>6 DEF Receive, WorkerLaunch, Ack, Holding
  <2>7. CASE ServiceRegister(w) \/ SlotsExpire(w) \/ \E u \in Task : StatusExpires(w, u)
    BY <1>1, <2>7 DEF ServiceRegister, SlotsExpire, StatusExpires
  <2>8. CheckCapacity(w) => \/ wpc' = [wpc EXCEPT ![w] = "spawn"] /\ UNCHANGED <<brokerVars, msg>>
                            \/ Settle(w, TRUE)
    BY DEF CheckCapacity
  <2>9. SpawnFails(w) \/ CapacityFails(w) => Settle(w, TRUE)
    BY DEF SpawnFails, CapacityFails
  <2> QED
    BY <1>2, <2>1, <2>2, <2>3, <2>4, <2>5, <2>6, <2>7, <2>8, <2>9
    DEF WorkerStep, HandlerStep, WorkerFault
<1> QED
  BY <1>1, <1>2, UserFrame, HostFrame, ProcFrame DEF Next, vars

\* A process that was started for a message stays the one.
LEMMA UsedStays ==
    ASSUME TypeOK, [Next]_vars, NEW m, UsedBy(m)
    PROVE  UsedBy(m)'
<1>1. PICK p \in Proc : Started(p) /\ pmsg[p] = m
  BY DEF UsedBy
<1>2. CASE UNCHANGED <<ppc, pmsg>>
  BY <1>1, <1>2 DEF UsedBy, Started
<1>3. ASSUME NEW w \in Worker, WorkerStep(w) PROVE ppc'[p] = ppc[p] /\ pmsg'[p] = pmsg[p]
  BY <1>1, <1>3, StartedKept
<1>4. ASSUME NEW q \in Proc, ProcStep(q) PROVE Started(p)' /\ pmsg'[p] = pmsg[p]
  BY <1>1, <1>4, ProcFrame DEF ProcStep, TaskStep, Report, ReportRunning, ReportSuccess,
    ReportFailure, EnterRunSet, LeaveRunSet, ReportFails, Die, Started, TypeOK
<1> QED
  BY <1>1, <1>2, <1>3, <1>4, UserFrame, HostFrame DEF Next, vars, UsedBy, Started

LEMMA KeptStep == MessageInv /\ StopInv /\ KeptInv /\ [Next]_vars => KeptInv'
<1> SUFFICES ASSUME MessageInv, StopInv, KeptInv, [Next]_vars, NEW m \in Message,
                    m.seq <= sent'[m.host][m.task]
             PROVE  Kept(m)'
  BY DEF KeptInv
<1>0. /\ TypeOK /\ HandlerInv /\ m.host \in Host /\ m.task \in Task /\ m.seq \in Nat
      /\ sent[m.host][m.task] \in Nat
  BY DEF MessageInv, TypeInv, TypeOK, Message
<1>1. CASE m.seq <= sent[m.host][m.task]
  <2>1. Kept(m)
    BY <1>1 DEF KeptInv
  <2>2. CASE m \in ready
    BY <1>0, <2>2, SolidReady DEF Kept
  <2>3. ASSUME NEW w \in Worker, unacked[w], Holding(w), msg[w] = m PROVE Kept(m)'
    BY <1>0, <2>3, KeptHandler
  <2>4. CASE UsedBy(m)
    BY <1>0, <2>4, UsedStays DEF Kept
  <2>5. CASE m \in lost
    BY <2>5, LossStep DEF Kept
  <2> QED
    BY <2>1, <2>2, <2>3, <2>4, <2>5 DEF Kept
<1>2. CASE m.seq > sent[m.host][m.task]
  <2>1. /\ sent'[m.host][m.task] = sent[m.host][m.task] + 1
        /\ Publication(m.host, m.task) \in ready' \cup lost'
    BY <1>0, <1>2, SentStepFrom
  <2>2. m.seq = sent[m.host][m.task] + 1
    BY <1>0, <1>2, <2>1
  <2>3. m = Publication(m.host, m.task)
    BY <2>2 DEF Message, Publication
  <2> QED
    BY <2>1, <2>3 DEF Kept
<1> QED
  BY <1>0, <1>1, <1>2

LEMMA LifeCorrect == Spec => []LifeInv
<1>1. Init => GoneInv /\ LostInv /\ StopInv /\ KeptInv
  BY DEF Init, GoneInv, LostInv, StopInv, KeptInv, Busy, EmptyMap, Missing, Message
<1>2. GoneInv /\ LostInv /\ StopInv /\ KeptInv /\ CarriedInv /\ [Next]_vars
      => (GoneInv /\ LostInv /\ StopInv /\ KeptInv)'
  BY GoneStep, LostStep, StopInvStep, KeptStep DEF CarriedInv
<1>3. LifeInv <=> CarriedInv /\ GoneInv /\ LostInv /\ StopInv /\ KeptInv
  BY DEF LifeInv
<1> QED
  BY <1>1, <1>2, <1>3, CarriedCorrect, PTL DEF Spec

(* Every message that reached the broker has started a process or still     *)
(* can start one, through any crashes, lost connections and nacks, unless   *)
(* the users may stop its task.  What a host counted as sent and the broker *)
(* never got is in lost, and only that is.                                  *)
THEOREM NoMessageLost ==
    Spec => [](\A m \in Message : m.seq <= sent[m.host][m.task]
               => \/ m \in Offered \/ UsedBy(m) \/ m.task \in Stoppable
                  \/ m \in lost /\ m \notin Offered)
<1>1. LifeInv => \A m \in Message : m.seq <= sent[m.host][m.task]
                    => \/ m \in Offered \/ UsedBy(m) \/ m.task \in Stoppable
                       \/ m \in lost /\ m \notin Offered
  BY DEF LifeInv, KeptInv, Kept, Offered, Holding
<1> QED
  BY <1>1, LifeCorrect, PTL

-----------------------------------------------------------------------------
(* Refinement: each step of TaskPipeline is a step of TaskLife.             *)
Stages == [p \in Proc |-> StageOf[ppc[p]]]

LEMMA LifeInit == Init => Life!Init
<1> SUFFICES ASSUME Init PROVE Life!Init
  OBVIOUS
<1>1. Offered = {}
  BY DEF Init, Offered
<1>2. [p \in Proc |-> StageOf[ppc[p]]] = [p \in Proc |-> "none"]
  BY DEF Init, StageOf
<1> QED
  BY <1>1, <1>2 DEF Init, Life!Init, EmptyMap, Missing

LEMMA OfferedKept ==
    ASSUME UNCHANGED <<ready, msg>>, \A v \in Worker : Holding(v)' <=> Holding(v)
    PROVE  UNCHANGED Offered
BY DEF Offered, Holding

LEMMA LifeUser ==
    ASSUME NEW t \in Task, UserStep(t)
    PROVE  Life!Next
<1>1. UNCHANGED <<ready, wpc, msg, slips, sent, lost, redelivered, ppc, pmsg>>
  BY UserFrame
<1>2. UNCHANGED Offered
  BY <1>1, OfferedKept DEF Holding
<1>3. CASE Submit(t) \/ TaskRetry(t)
  <2>1. Life!Ask(t)
    BY <1>1, <1>2, <1>3
    DEF Submit, TaskRetry, Life!Ask, Life!Becomes, Life!offerVars, Life!execVars
  <2> QED
    BY <2>1 DEF Life!Next
<1>4. CASE TaskStop(t)
  <2>1. Life!Stop(t)
    BY <1>1, <1>2, <1>4 DEF TaskStop, Life!Stop, Life!Becomes, Life!offerVars,
      Life!execVars, FINAL_STATUS, Missing
  <2> QED
    BY <2>1 DEF Life!Next
<1> QED
  BY <1>3, <1>4 DEF UserStep

LEMMA LifeHost ==
    ASSUME LifeInv, DispatchBound', NEW h \in Host, HostStep(h)
    PROVE  Life!Next
<1>0. /\ TypeOK /\ CycleInv /\ AskedInv /\ SentInv
      /\ UNCHANGED <<asks, redelivered, wpc, msg, ppc, pmsg>>
  BY HostFrame DEF LifeInv, CarriedInv, CycleInv, TypeInv
<1>1. ready' = ready => UNCHANGED Offered
  BY <1>0, OfferedKept DEF Holding
<1>2. ASSUME NEW t \in todo[h], Sends(h, t), status' = status,
             Slip(h) \/ UNCHANGED slips
      PROVE  Life!Next
  <2>1. t \in Task /\ sent[h][t] \in Nat
    BY <1>0 DEF TypeOK
  <2>2. asks[t] > 0
    <3>1. tasksMap[h][t] # Missing
      BY <1>0 DEF CycleInv, CycleOK, Missing
    <3>2. asks[t] \in Nat /\ asks[t] # 0
      BY <1>0, <2>1, <3>1 DEF AskedInv, Untouched, TypeOK
    <3> QED
      BY <3>2
  <2>3. sent' = [sent EXCEPT ![h][t] = @ + 1] /\ sent'[h][t] = sent[h][t] + 1
    BY <1>0, <1>2, <2>1 DEF Sends, CountsSend, TypeOK
  <2>4. LET new == [task |-> t, host |-> h, seq |-> sent'[h][t]]
        IN  \/ Offered' = Offered \cup {new} /\ UNCHANGED lost
            \/ lost' = lost \cup {new} /\ UNCHANGED Offered
    <3>1. Publication(h, t) = [task |-> t, host |-> h, seq |-> sent'[h][t]]
      BY <2>3 DEF Publication
    <3>2. CASE ready' = ready
      BY <1>1, <1>2, <3>1, <3>2 DEF Sends, Offered
    <3>3. CASE ready' # ready
      BY <1>0, <1>2, <3>1, <3>3 DEF Sends, Offered
    <3> QED
      BY <3>2, <3>3
  <2>5. sent'[h][t] <= asks[t] + slips'[h]
    BY <1>0, <2>1 DEF DispatchBound
  <2>6. Life!Offer(h, t)
    BY <1>0, <1>2, <2>2, <2>3, <2>4, <2>5
    DEF Slip, Life!Offer, Life!Suffers, Life!docVars, Life!execVars
  <2> QED
    BY <2>1, <2>6 DEF Life!Next
<1>3. ASSUME UNCHANGED <<status, sent, lost, ready>>, Slip(h) \/ UNCHANGED slips PROVE Life!Next
  <2>1. CASE Slip(h)
    <3>1. Life!Trouble(h)
      BY <1>0, <1>1, <1>3, <2>1
      DEF Slip, Life!Trouble, Life!Suffers, Life!docVars, Life!execVars
    <3> QED
      BY <3>1 DEF Life!Next
  <2>2. CASE UNCHANGED slips
    <3>1. Life!Internal
      BY <1>0, <1>1, <1>3, <2>2
      DEF Life!Internal, Life!vars, Life!docVars, Life!offerVars, Life!execVars
    <3> QED
      BY <3>1 DEF Life!Next
  <2> QED
    BY <1>3, <2>1, <2>2
<1>4. CASE PersistTask(h)
  <2>0. UNCHANGED <<sent, lost, ready, slips>>
    BY <1>4 DEF PersistTask
  <2>1. PICK u \in saving[h] :
          /\ u \in Task /\ original[h][u] = "pending" /\ tasksMap[h][u] = "waiting"
          /\ status' = [status EXCEPT ![u] = IF @ = "pending" THEN "waiting" ELSE @]
    BY <1>0, <1>4, PersistWritesWaiting
  <2>2. CASE status[u] = "pending"
    <3>1. Life!Accept(u)
      BY <1>0, <1>1, <2>0, <2>1, <2>2
      DEF SentInv, Life!Accept, Life!Becomes, Life!offerVars, Life!execVars
    <3> QED
      BY <2>1, <3>1 DEF Life!Next
  <2>3. CASE status[u] # "pending"
    <3>1. status' = status
      BY <1>0, <2>1, <2>3 DEF TypeOK, TasksMap
    <3> QED
      BY <1>3, <2>0, <3>1
  <2> QED
    BY <2>2, <2>3
<1>5. CASE ~PersistTask(h)
  <2>1. status' = status /\ (Slip(h) \/ UNCHANGED slips)
    BY <1>5 DEF HostStep, CycleStep, EmptyCycle, vars, FetchAndPlan, VisitQueue, VisitFails,
      Visit, SendTask, SendIsLost, Sent, SendFails, UpdateParent, FinishCycle, AbortCycle,
      EndCycle
  <2>2. UNCHANGED <<ready, sent, lost>> \/ \E t \in todo[h] : Sends(h, t)
    BY SendStep
  <2> QED
    BY <1>2, <1>3, <2>1, <2>2
<1> QED
  BY <1>4, <1>5

LEMMA LifeProc ==
    ASSUME TypeOK, NEW p \in Proc, ProcStep(p)
    PROVE  Life!Next
<1>0. UNCHANGED <<asks, slips, sent, lost, ready, redelivered, wpc, msg, pmsg>>
  BY ProcFrame
<1>1. UNCHANGED Offered
  BY <1>0, OfferedKept DEF Holding
<1>s. /\ StageOf["starting"] = "new" /\ StageOf["entering"] = "running"
      /\ StageOf["running"] = "running" /\ StageOf["leaving"] = "over"
      /\ StageOf["done"] = "over" /\ StageOf["dead"] = "over"
  BY DEF StageOf
<1>2. ASSUME NEW to, ppc' = [ppc EXCEPT ![p] = to]
      PROVE  Stages' = [Stages EXCEPT ![p] = StageOf[to]] /\ Stages[p] = StageOf[ppc[p]]
  BY <1>2 DEF Stages, TypeOK
<1>3. CASE ReportRunning(p)
  <2>1. /\ ppc[p] = "starting" /\ ppc' = [ppc EXCEPT ![p] = "entering"]
        /\ status' = [status EXCEPT ![pmsg[p].task] = "running"]
    BY <1>3 DEF ReportRunning, Report
  <2>2. Stages' = [Stages EXCEPT ![p] = "running"] /\ Stages[p] = "new"
    BY <1>s, <1>2, <2>1
  <2>3. Life!Begin(p)
    BY <1>0, <1>1, <2>1, <2>2 DEF Stages, Life!Begin, Life!Moves, Life!Becomes, Life!offerVars
  <2> QED
    BY <2>3 DEF Life!Next
<1>4. CASE ReportSuccess(p) \/ ReportFailure(p)
  <2>1. /\ ppc[p] = "running" /\ ppc' = [ppc EXCEPT ![p] = "leaving"]
        /\ \E s \in {"success", "failed"} : status' = [status EXCEPT ![pmsg[p].task] = s]
    BY <1>4 DEF ReportSuccess, ReportFailure, Report
  <2>2. Stages' = [Stages EXCEPT ![p] = "over"] /\ Stages[p] = "running"
    <3>1. ppc' = [ppc EXCEPT ![p] = "leaving"] /\ ppc[p] = "running"
      BY <2>1
    <3>2. Stages' = [Stages EXCEPT ![p] = StageOf["leaving"]] /\ Stages[p] = StageOf[ppc[p]]
      BY <1>2, <3>1
    <3> QED
      BY <1>s, <3>1, <3>2
  <2>3. Life!Report(p)
    BY <1>0, <1>1, <2>1, <2>2 DEF Stages, Life!Report, Life!Moves, Life!Becomes, Life!offerVars
  <2> QED
    BY <2>3 DEF Life!Next
<1>5. ASSUME status' = status, Stages' = Stages PROVE Life!Next
  <2>1. Life!Internal
    BY <1>0, <1>1, <1>5
    DEF Stages, Life!Internal, Life!vars, Life!docVars, Life!offerVars, Life!execVars
  <2> QED
    BY <2>1 DEF Life!Next
<1>6. ASSUME status' = status, Stages[p] \in {"new", "running"},
             Stages' = [Stages EXCEPT ![p] = "over"]
      PROVE  Life!Next
  <2>1. Life!Vanish(p)
    BY <1>0, <1>1, <1>6 DEF Stages, Life!Vanish, Life!Moves, Life!docVars, Life!offerVars
  <2> QED
    BY <2>1 DEF Life!Next
<1>7. CASE EnterRunSet(p) \/ LeaveRunSet(p)
  <2>1. /\ status' = status
        /\ \/ ppc[p] = "entering" /\ ppc' = [ppc EXCEPT ![p] = "running"]
           \/ ppc[p] = "leaving" /\ ppc' = [ppc EXCEPT ![p] = "done"]
    BY <1>7 DEF EnterRunSet, LeaveRunSet
  <2>2. Stages' = [Stages EXCEPT ![p] = Stages[p]]
    BY <1>s, <1>2, <2>1
  <2>3. Stages' = Stages
    BY <2>2 DEF Stages
  <2> QED
    BY <1>5, <2>1, <2>3
<1>8. CASE ReportFails(p) \/ Die(p)
  <2>1. /\ status' = status /\ ppc[p] \in Live
        /\ ppc' = [ppc EXCEPT ![p] = "leaving"] \/ ppc' = [ppc EXCEPT ![p] = "dead"]
    BY <1>8 DEF ReportFails, Die, Live, TypeOK
  <2>2. Stages' = [Stages EXCEPT ![p] = "over"] /\ Stages[p] = StageOf[ppc[p]]
    BY <1>s, <1>2, <2>1
  <2>3. CASE ppc[p] = "leaving"
    <3>1. Stages' = Stages
      BY <1>s, <2>2, <2>3 DEF Stages
    <3> QED
      BY <1>5, <2>1, <3>1
  <2>4. CASE ppc[p] # "leaving"
    <3>1. Stages[p] \in {"new", "running"}
      BY <1>s, <2>1, <2>2, <2>4 DEF Live
    <3> QED
      BY <1>6, <2>1, <2>2, <3>1
  <2> QED
    BY <2>3, <2>4
<1> QED
  BY <1>3, <1>4, <1>7, <1>8 DEF ProcStep, TaskStep

LEMMA UsedShows == ASSUME TypeOK, NEW m, UsedBy(m) PROVE Life!Used(m)
<1>1. PICK p \in Proc : ppc[p] # "free" /\ pmsg[p] = m
  BY DEF UsedBy, Started
<1>2. \A s \in Live \cup {"done", "dead"} : StageOf[s] # "none"
  BY DEF StageOf, Live
<1>3. ppc[p] \in Live \cup {"done", "dead"}
  BY <1>1 DEF TypeOK
<1> QED
  BY <1>1, <1>2, <1>3 DEF Life!Used

\* A handler gives up its message, or gives it back.
LEMMA OfferedLess ==
    ASSUME NEW w \in Worker, Holding(w), ~Holding(w)',
           \A v \in Worker \ {w} : (Holding(v)' <=> Holding(v)) /\ msg'[v] = msg[v],
           ready \subseteq ready', ready' \subseteq ready \cup {msg[w]}
    PROVE  Offered' = Offered \/ Offered' = Offered \ {msg[w]}
<1>1. Offered' \subseteq Offered /\ Offered \subseteq Offered' \cup {msg[w]}
  BY DEF Offered, Holding
<1> QED
  BY <1>1

\* What a handler gives up has been used, unless its task may be stopped.
LEMMA LifeLess ==
    ASSUME LifeInv, KeptInv', NEW w \in Worker, Holding(w),
           UNCHANGED <<status, asks, slips, sent, lost, redelivered, ppc, pmsg>>,
           Offered' = Offered \/ Offered' = Offered \ {msg[w]},
           msg[w].task \in Stoppable \/ ~unacked[w]
    PROVE  Life!Next
<1>0. TypeOK /\ MessageInv /\ GoneInv /\ LostInv /\ Busy(w)
  BY DEF LifeInv, CarriedInv, MessageInv, TypeInv, Holding, Busy
<1>1. CASE Offered' = Offered
  <2>1. Life!Internal
    BY <1>1 DEF Life!Internal, Life!vars, Life!docVars, Life!offerVars, Life!execVars
  <2> QED
    BY <2>1 DEF Life!Next
<1>2. CASE Offered' # Offered
  <2>1. PICK m : m = msg[w]
    OBVIOUS
  <2>2. /\ Offered' = Offered \ {m} /\ m \in Offered
        /\ m \in Message /\ m.seq <= sent'[m.host][m.task]
    BY <1>0, <1>2, <2>1 DEF MessageInv, HandlerInv, FreshInv
  <2>3. Kept(m)' /\ m \notin Offered' /\ m \notin lost'
    BY <1>0, <2>1, <2>2 DEF KeptInv, GoneInv
  <2>4. m.task \in Stoppable \/ UsedBy(m)
    BY <2>3 DEF Kept, UsedBy, Started, Offered, Holding
  <2>5. UsedBy(m) => Life!Used(m)
    BY <1>0, UsedShows
  <2>6. m.task \in Stoppable \/ m \in redelivered
    BY <1>0, <2>1 DEF LostInv
  <2>7. Life!Discard(m)
    BY <2>2, <2>4, <2>5, <2>6 DEF Life!Discard, Life!docVars, Life!execVars
  <2> QED
    BY <2>2, <2>7 DEF Life!Next
<1> QED
  BY <1>1, <1>2

\* The broker takes a delivery back.
LEMMA LifeBack ==
    ASSUME LifeInv, NEW w \in Worker, unacked[w],
           UNCHANGED <<status, asks, slips, sent, lost, ppc, pmsg>>,
           redelivered' = redelivered \cup {msg[w]}, ready' = ready \cup {msg[w]},
           Holding(w)' => Holding(w) /\ msg'[w] = msg[w],
           \A v \in Worker \ {w} : (Holding(v)' <=> Holding(v)) /\ msg'[v] = msg[v]
    PROVE  Life!Next
<1>0. TypeOK /\ MessageInv /\ GoneInv /\ KeptInv /\ Busy(w)
  BY DEF LifeInv, CarriedInv, MessageInv, TypeInv, HandlerInv
<1>1. PICK m : m = msg[w]
  OBVIOUS
<1>2. /\ m = [task |-> m.task, host |-> m.host, seq |-> m.seq]
      /\ m.task \in Task /\ m.host \in Host /\ m \in Message
      /\ m.seq \in 1..sent[m.host][m.task]
  <2>1. m \in Message /\ m.seq <= sent[m.host][m.task]
    BY <1>0, <1>1 DEF MessageInv, HandlerInv, FreshInv
  <2>2. m.task \in Task /\ m.host \in Host /\ m.seq \in Nat \ {0}
    BY <2>1 DEF Message
  <2>3. sent[m.host][m.task] \in Nat
    BY <1>0, <2>2 DEF TypeOK
  <2> QED
    BY <2>1, <2>2, <2>3 DEF Message
<1>3. Offered' = Offered \cup {m}
  <2>1. Offered' \subseteq Offered \cup {m}
    BY <1>1 DEF Offered, Holding
  <2>2. Offered \cup {m} \subseteq Offered'
    BY <1>1 DEF Offered, Holding
  <2> QED
    BY <2>1, <2>2
<1>4. Kept(m) /\ m \notin lost
  BY <1>0, <1>1, <1>2 DEF KeptInv, GoneInv
<1>5. UsedBy(m) => Life!Used(m)
  BY <1>0, UsedShows
<1>6. Life!TakeBack(m)
  BY <1>1, <1>3, <1>4, <1>5
  DEF Kept, Offered, Holding, Life!TakeBack, Life!docVars, Life!execVars
<1> QED
  BY <1>2, <1>6 DEF Life!Next

LEMMA LifeSpawn ==
    ASSUME LifeInv, NEW w \in Worker, Spawn(w)
    PROVE  Life!Next
<1>0. TypeOK /\ MessageInv
  BY DEF LifeInv, CarriedInv, MessageInv, TypeInv
<1>1. PICK p \in Proc : ppc[p] = "free" /\ p = CHOOSE q \in Proc : ppc[q] = "free"
  BY DEF Spawn
<1>2. PICK m : m = msg[w]
  OBVIOUS
<1>3. /\ ppc' = [ppc EXCEPT ![p] = "starting"] /\ pmsg' = [pmsg EXCEPT ![p] = m]
      /\ wpc' = [wpc EXCEPT ![w] = "ack"] /\ Holding(w)
      /\ UNCHANGED <<status, asks, slips, sent, lost, ready, redelivered, msg>>
  BY <1>1, <1>2 DEF Spawn, Holding
<1>4. ~Holding(w)' /\ \A v \in Worker \ {w} : Holding(v)' <=> Holding(v)
  BY <1>0, <1>3 DEF Holding, TypeOK
<1>5. Offered' = Offered \/ Offered' = Offered \ {m}
  BY <1>2, <1>3, <1>4, OfferedLess
<1>6. m \in Offered
  BY <1>2, <1>3 DEF Offered, Holding
<1>7. m \in Offered' => m \in redelivered
  <2>1. Busy(w) /\ \A v \in Worker : Holding(v) => Busy(v)
    BY <1>3 DEF Holding, Busy
  <2>2. m \in Offered' => m \in ready \/ \E v \in Worker \ {w} : Holding(v) /\ msg[v] = m
    BY <1>3, <1>4 DEF Offered, Holding
  <2> QED
    BY <1>0, <1>2, <2>1, <2>2 DEF MessageInv, OnceInv
<1>8. Stages' = [Stages EXCEPT ![p] = "new"] /\ Stages[p] = "none"
  <2>1. StageOf["starting"] = "new" /\ StageOf["free"] = "none"
    BY DEF StageOf
  <2> QED
    BY <1>0, <1>1, <1>3, <2>1 DEF Stages, TypeOK
<1>9. Life!Start(p, m)
  BY <1>3, <1>5, <1>6, <1>7, <1>8 DEF Stages, Life!Start, Life!Moves, Life!docVars
<1> QED
  BY <1>6, <1>9 DEF Life!Next

LEMMA LifeWorker ==
    ASSUME LifeInv, KeptInv', NEW w \in Worker, WorkerStep(w)
    PROVE  Life!Next
<1>0. /\ TypeOK /\ MessageInv /\ StopInv
      /\ UNCHANGED <<status, asks, slips, sent, lost>>
  BY WorkerFrame DEF LifeInv, CarriedInv, MessageInv, TypeInv
<1>1. \A v \in Worker \ {w} : (Holding(v)' <=> Holding(v)) /\ msg'[v] = msg[v]
  BY <1>0, HandlersApart DEF Holding
<1>2. ASSUME UNCHANGED <<redelivered, ppc, pmsg>>, UNCHANGED Offered PROVE Life!Next
  <2>1. Life!Internal
    BY <1>0, <1>2 DEF Life!Internal, Life!vars, Life!docVars, Life!offerVars, Life!execVars
  <2> QED
    BY <2>1 DEF Life!Next
<1>3. CASE \/ ServiceRegister(w) \/ WorkerLaunch(w) \/ CheckFails(w) \/ Ack(w)
           \/ SlotsExpire(w) \/ \E t \in Task : StatusExpires(w, t)
           \/ CheckStatus(w) /\ wpc' = [wpc EXCEPT ![w] = "capacity"]
           \/ CheckCapacity(w) /\ wpc' = [wpc EXCEPT ![w] = "spawn"]
                               /\ UNCHANGED <<brokerVars, msg>>
  <2>1. UNCHANGED <<ready, redelivered, ppc, pmsg>>
    BY <1>3 DEF ServiceRegister, WorkerLaunch, CheckFails, Ack, Settle, SlotsExpire,
      StatusExpires, CheckStatus, CheckCapacity
  <2>2. (Holding(w)' <=> Holding(w)) /\ (Holding(w) => msg'[w] = msg[w])
    BY <1>0, <1>3 DEF ServiceRegister, WorkerLaunch, CheckFails, Ack, Settle, SlotsExpire,
      StatusExpires, CheckStatus, CheckCapacity, Holding, TypeOK
  <2>3. Offered' = Offered
    BY <1>1, <2>1, <2>2 DEF Offered, Holding
  <2> QED
    BY <1>2, <2>1, <2>3
<1>4. CASE Receive(w)
  <2>1. PICK m \in ready : ready' = ready \ {m} /\ msg' = [msg EXCEPT ![w] = m]
    BY <1>4 DEF Receive
  <2>2. ~Holding(w) /\ Holding(w)' /\ msg'[w] = m
    BY <1>0, <1>4, <2>1 DEF Receive, Holding, TypeOK
  <2>3. Offered' = Offered
    BY <1>1, <2>1, <2>2 DEF Offered, Holding
  <2> QED
    BY <1>2, <1>4, <2>3 DEF Receive
<1>5. CASE CheckStatus(w) /\ wpc' # [wpc EXCEPT ![w] = "capacity"]
  <2>1. /\ KnownStatus(w, msg[w].task) = "stopped" /\ wpc' = [wpc EXCEPT ![w] = "ack"]
        /\ Holding(w) /\ UNCHANGED <<brokerVars, msg, procVars>>
    BY <1>5 DEF CheckStatus, Holding
  <2>2. ~Holding(w)'
    BY <1>0, <2>1 DEF Holding, TypeOK
  <2>3. msg[w].task \in Task
    BY <1>0, <2>1 DEF MessageInv, HandlerInv, Holding, Busy, Message
  <2>4. msg[w].task \in Stoppable
    BY <1>0, <2>1, <2>3 DEF KnownStatus, StopInv
  <2>5. Offered' = Offered \/ Offered' = Offered \ {msg[w]}
    BY <1>1, <2>1, <2>2, OfferedLess
  <2> QED
    BY <1>0, <2>1, <2>4, <2>5, LifeLess
<1>6. CASE Holding(w) /\ Settle(w, TRUE) /\ wpc' = [wpc EXCEPT ![w] = "idle"]
           /\ UNCHANGED <<ppc, pmsg>>
  <2>1. ~Holding(w)' /\ redelivered' = redelivered
    BY <1>0, <1>6 DEF Holding, TypeOK, Settle
  <2>2. ready' = IF unacked[w] THEN ready \cup {msg[w]} ELSE ready
    BY <1>6 DEF Settle
  <2>3. Offered' = Offered \/ Offered' = Offered \ {msg[w]}
    BY <1>1, <1>6, <2>1, <2>2, OfferedLess
  <2>4. CASE unacked[w]
    <3>1. msg[w] \in Offered'
      BY <2>2, <2>4 DEF Offered
    <3> QED
      BY <1>2, <1>6, <2>1, <2>3, <3>1
  <2>5. CASE ~unacked[w]
    BY <1>0, <1>6, <2>1, <2>3, <2>5, LifeLess
  <2> QED
    BY <2>4, <2>5
<1>7. CASE ConnectionLost(w) \/ (WorkerCrash(w) /\ unacked[w])
  <2>1. /\ unacked[w] /\ ready' = ready \cup {msg[w]}
        /\ redelivered' = redelivered \cup {msg[w]} /\ UNCHANGED <<ppc, pmsg>>
    BY <1>7 DEF ConnectionLost, WorkerCrash
  <2>2. Holding(w)' => Holding(w) /\ msg'[w] = msg[w]
    BY <1>0, <1>7 DEF ConnectionLost, WorkerCrash, Holding, TypeOK
  <2> QED
    BY <1>0, <1>1, <2>1, <2>2, LifeBack
<1>8. CASE WorkerCrash(w) /\ ~unacked[w]
  <2>1. ~Holding(w)' /\ UNCHANGED <<ready, redelivered, ppc, pmsg>>
    BY <1>0, <1>8 DEF WorkerCrash, Holding, TypeOK
  <2>2. CASE Holding(w)
    <3>1. Offered' = Offered \/ Offered' = Offered \ {msg[w]}
      BY <1>1, <2>1, <2>2, OfferedLess
    <3> QED
      BY <1>0, <1>8, <2>1, <2>2, <3>1, LifeLess
  <2>3. CASE ~Holding(w)
    <3>1. Offered' = Offered
      BY <1>1, <2>1, <2>3 DEF Offered, Holding
    <3> QED
      BY <1>2, <2>1, <3>1
  <2> QED
    BY <2>2, <2>3
<1>9. /\ CapacityFails(w) \/ SpawnFails(w)
         => /\ Holding(w) /\ Settle(w, TRUE) /\ wpc' = [wpc EXCEPT ![w] = "idle"]
            /\ UNCHANGED <<ppc, pmsg>>
      /\ CheckCapacity(w)
         => \/ wpc' = [wpc EXCEPT ![w] = "spawn"] /\ UNCHANGED <<brokerVars, msg>>
            \/ /\ Holding(w) /\ Settle(w, TRUE) /\ wpc' = [wpc EXCEPT ![w] = "idle"]
               /\ UNCHANGED <<ppc, pmsg>>
  BY DEF CapacityFails, SpawnFails, CheckCapacity, Holding
<1> QED
  BY <1>3, <1>4, <1>5, <1>6, <1>7, <1>8, <1>9, LifeSpawn
  DEF WorkerStep, HandlerStep, WorkerFault

(* The pipeline does what TaskLife promises: for every number of tasks,     *)
(* hosts, workers and processes, and whatever crashes or is lost.           *)
THEOREM ImplementsTaskLifeCorrect == Spec => ImplementsTaskLife
<1>1. LifeInv /\ DispatchBound' /\ KeptInv' /\ [Next]_vars => [Life!Next]_Life!vars
  <2> SUFFICES ASSUME LifeInv, DispatchBound', KeptInv', [Next]_vars
               PROVE  Life!Next \/ UNCHANGED Life!vars
    OBVIOUS
  <2>1. CASE UNCHANGED vars
    <3>1. UNCHANGED <<dbVars, hostVars, brokerVars, handlerVars, procVars>>
      BY <2>1 DEF vars
    <3>2. UNCHANGED Offered
      BY <3>1 DEF Offered
    <3> QED
      BY <3>1, <3>2 DEF Life!vars, Life!docVars, Life!offerVars, Life!execVars
  <2>2. TypeOK
    BY DEF LifeInv, CarriedInv, CycleInv, TypeInv
  <2> QED
    BY <2>1, <2>2, LifeUser, LifeHost, LifeWorker, LifeProc DEF Next
<1>2. LifeInv => KeptInv
  BY DEF LifeInv
<1> QED
  BY <1>1, <1>2, LifeInit, LifeCorrect, DispatchBoundCorrect, PTL
  DEF Spec, ImplementsTaskLife, Life!Spec

-----------------------------------------------------------------------------
(* What the scheduler's blindness to finished tasks costs.                  *)
DependentInv == \A t \in Task :
    DependsOn[t] # {} => status[t] \in {Missing, "pending", "stopped"}

LEMMA NoDependentStarts ==
    ASSUME MessageInv, IndependentInv, NEW p \in Proc, Started(p)
    PROVE  pmsg[p].task \in Task /\ DependsOn[pmsg[p].task] = {}
<1>1. pmsg[p] \in Message /\ pmsg[p].seq <= sent[pmsg[p].host][pmsg[p].task]
  BY DEF MessageInv, FreshInv
<1>2. pmsg[p].task \in Task /\ pmsg[p].host \in Host /\ pmsg[p].seq \in Nat \ {0}
  BY <1>1 DEF Message
<1>3. sent[pmsg[p].host][pmsg[p].task] \in Nat
  BY <1>2 DEF MessageInv, TypeInv, TypeOK
<1>4. sent[pmsg[p].host][pmsg[p].task] > 0
  BY <1>1, <1>2, <1>3
<1> QED
  BY <1>2, <1>4 DEF IndependentInv

LEMMA DependentStep ==
    CarriedInv /\ IndependentInv /\ DependentInv /\ [Next]_vars => DependentInv'
<1> SUFFICES ASSUME CarriedInv, IndependentInv, DependentInv, [Next]_vars, NEW t \in Task,
                    DependsOn[t] # {}
             PROVE  status'[t] \in {Missing, "pending", "stopped"}
  BY DEF DependentInv
<1>0. TypeOK /\ CycleInv /\ MessageInv /\ SentInv /\ asks[t] \in Nat
  BY DEF CarriedInv, CycleInv, TypeInv, TypeOK
<1>1. CASE asks'[t] # asks[t]
  BY <1>0, <1>1, AskStep DEF Asks, Submit, TaskRetry, TypeOK, TasksMap
<1>2. CASE asks'[t] = asks[t]
  <2>1. ~Persists(t)
    BY <1>0 DEF Persists, SentInv, IndependentInv
  <2>2. ~Reports(t)
    BY <1>0, NoDependentStarts DEF Reports, ProcsOf, Started
  <2> QED
    BY <1>0, <1>2, <2>1, <2>2, StatusStep DEF Stopped, DependentInv
<1> QED
  BY <1>1, <1>2

(* A task with a dependency never runs: no host ever publishes it, no       *)
(* process is started for it, and it stays PENDING until it is stopped,     *)
(* also when all its dependencies have succeeded.                           *)
THEOREM DependentsNeverRun ==
    Spec => [](\A t \in Task : DependsOn[t] # {} =>
                  /\ status[t] \in {Missing, "pending", "stopped"}
                  /\ \A h \in Host : sent[h][t] = 0
                  /\ \A p \in ProcsOf(t) : ppc[p] = "free")
<1>1. Init => DependentInv
  BY DEF Init, DependentInv, EmptyMap
<1>2. CarriedInv /\ IndependentInv /\ DependentInv
      => \A t \in Task : DependsOn[t] # {} =>
            /\ status[t] \in {Missing, "pending", "stopped"}
            /\ \A h \in Host : sent[h][t] = 0
            /\ \A p \in ProcsOf(t) : ppc[p] = "free"
  <2> SUFFICES ASSUME CarriedInv, IndependentInv, DependentInv, NEW t \in Task,
                      DependsOn[t] # {}
               PROVE  /\ status[t] \in {Missing, "pending", "stopped"}
                      /\ \A h \in Host : sent[h][t] = 0
                      /\ \A p \in ProcsOf(t) : ppc[p] = "free"
    OBVIOUS
  <2>1. \A h \in Host : sent[h][t] \in Nat
    BY DEF CarriedInv, CycleInv, TypeInv, TypeOK
  <2>2. \A p \in ProcsOf(t) : ~Started(p)
    BY NoDependentStarts DEF CarriedInv, ProcsOf
  <2> QED
    BY <2>1, <2>2 DEF DependentInv, IndependentInv, Started
<1> QED
  BY <1>1, <1>2, CarriedCorrect, IndependentCorrect, DependentStep, PTL DEF Spec

-----------------------------------------------------------------------------
(* How often a task is executed: once per ask and per slip of each host, but *)
(* for the messages the broker took back.                                    *)
Executions(h, t) ==
    {p \in Proc : /\ Started(p) /\ pmsg[p].host = h /\ pmsg[p].task = t
                  /\ pmsg[p] \notin redelivered}

LEMMA ExecutionsCounted ==
    ASSUME MessageInv, DispatchBound, NEW h \in Host, NEW t \in Task
    PROVE  /\ IsFiniteSet(Executions(h, t))
           /\ Cardinality(Executions(h, t)) <= asks[t] + slips[h]
<1>0. TypeOK
  BY DEF MessageInv, TypeInv
<1>1. PICK n \in Nat : n = asks[t] + slips[h]
  BY <1>0 DEF TypeOK
<1> DEFINE f == [p \in Executions(h, t) |-> pmsg[p].seq]
<1>2. ASSUME NEW p \in Executions(h, t)
      PROVE  pmsg[p] \in Message /\ pmsg[p].seq \in 1..n
  <2>1. pmsg[p] \in Message /\ pmsg[p].seq <= sent[h][t]
    BY <1>2 DEF Executions, MessageInv, FreshInv
  <2>2. sent[h][t] <= n /\ sent[h][t] \in Nat
    BY <1>0, <1>1 DEF DispatchBound, TypeOK
  <2>3. pmsg[p].seq \in Nat \ {0}
    BY <2>1 DEF Message
  <2> QED
    BY <2>1, <2>2, <2>3
<1>3. ASSUME NEW p \in Executions(h, t), NEW q \in Executions(h, t), pmsg[p].seq = pmsg[q].seq
      PROVE  p = q
  <2>1. pmsg[p] = pmsg[q]
    BY <1>2, <1>3 DEF Executions, Message
  <2> QED
    BY <2>1 DEF Executions, MessageInv, OnceInv
<1>4. f \in Injection(Executions(h, t), 1..n)
  BY <1>2, <1>3 DEF Injection, IsInjective
<1> HIDE DEF f
<1>5. IsFiniteSet(1..n) /\ Cardinality(1..n) = n
  BY FS_Interval
<1> QED
  BY <1>1, <1>4, <1>5, FS_Injection

(* Whatever fails, the messages of a host that the broker did not take back *)
(* start at most one process of a task for each time the task was asked for *)
(* and each publish or cycle of that host that failed.                      *)
THEOREM ExecutionsBounded ==
    Spec => [](\A h \in Host, t \in Task :
                  Cardinality(Executions(h, t)) <= asks[t] + slips[h])
<1>1. MessageInv /\ DispatchBound
      => \A h \in Host, t \in Task : Cardinality(Executions(h, t)) <= asks[t] + slips[h]
  BY ExecutionsCounted
<1> QED
  BY <1>1, MessageCorrect, DispatchBoundCorrect, PTL
=============================================================================
