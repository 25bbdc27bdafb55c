-------------------------- MODULE ThreadPoolProofs --------------------------
(***************************************************************************)
(* Proofs about ThreadPool for any threads, clients, queue size, retries   *)
(* and number of calls: where a task is, what its status says, what the    *)
(* counters count, and that its attempts follow RetryPool.                 *)
(***************************************************************************)
EXTENDS ThreadPoolProperties, FiniteSetTheorems, TLAPS

-----------------------------------------------------------------------------
(* The inductive invariant.                                                 *)

Active(w) == Holds(w) /\ wpc[w] # "done"
InQueue(t) == \E i \in 1..Len(taskQueue) : taskQueue[i] = t
InHand(t) == \E w \in Thread : Active(w) /\ hand[w] = t

\* The lock is with the client that is in submit, and a worker with a task is
\* between get and task_done, or was ended by the function.
OwnInv ==
    /\ \A c \in Client : cpc[c] \in {"put", "count"} <=> lock = c
    /\ \A w \in Thread : Holds(w) <=> wpc[w] \notin {"new", "check", "get", "exit"}
    /\ \A c \in Client : cpc[c] \in {"put", "count"} => total < MaxTasks

\* A task is given to the pool when put accepted it, one step before it counts.
Given(t) == t < total \/ (t = total /\ \E c \in Client : cpc[c] = "count")

Distinct == \A i, j \in 1..Len(taskQueue) : taskQueue[i] = taskQueue[j] => i = j

\* One place for each task, and it was given to the pool.
ThreadPlaceInv ==
    /\ Distinct
    /\ \A t \in Task : ~(InQueue(t) /\ InHand(t))
    /\ \A v, w \in Thread : Active(v) /\ Active(w) /\ hand[v] = hand[w] => v = w
    /\ \A t \in Task : InQueue(t) \/ InHand(t) => Given(t)

\* What the status of a task says about where it is.
StatusInv ==
    /\ \A t \in Task : InQueue(t) => status[t] \in {"pending", "retrying"}
    /\ \A w \in Thread :
          /\ wpc[w] = "start" => status[hand[w]] \in {"pending", "retrying"}
          /\ wpc[w] \in {"run", "returned", "raised"} => status[hand[w]] = "running"
          /\ wpc[w] = "putback" => status[hand[w]] = "retrying"
    /\ \A t \in Task : t >= total => status[t] \in {"none", "pending"}
    /\ \A c \in Client : cpc[c] = "put" => status[total] = "pending"

\* No task the pool was given is forgotten.
KeptInv == \A t \in Task : Given(t) => Ended(t) \/ t \in dropped \/ InQueue(t) \/ InHand(t)

Holders    == {w \in Thread : Holds(w) /\ wpc[w] # "dead"}
EndedTasks == {t \in Task : Ended(t)}

\* The counters: what join waits for, and what get_progress divides.
CountInv ==
    /\ unfinished = Len(taskQueue) + Cardinality(Holders)
    /\ completed = Cardinality(EndedTasks)

Inv == ThreadTypeOK /\ OwnInv /\ ThreadPlaceInv /\ StatusInv /\ KeptInv /\ CountInv

-----------------------------------------------------------------------------
(* The queue, and a worker's hand, after a step.                            *)

LEMMA HeadAndTail ==
    ASSUME NEW S, NEW q \in Seq(S), q # <<>>
    PROVE  /\ Len(q) \in Nat \ {0} /\ q[1] = Head(q) /\ Head(q) \in S
           /\ Tail(q) \in Seq(S) /\ Len(Tail(q)) = Len(q) - 1
           /\ \A i \in 1..Len(Tail(q)) : i + 1 \in 2..Len(q) /\ Tail(q)[i] = q[i + 1]
  OBVIOUS

LEMMA Appended ==
    ASSUME NEW S, NEW q \in Seq(S), NEW e \in S
    PROVE  /\ Append(q, e) \in Seq(S) /\ Len(q) \in Nat /\ Len(Append(q, e)) = Len(q) + 1
           /\ \A i \in 1..Len(q) : Append(q, e)[i] = q[i]
           /\ Append(q, e)[Len(q) + 1] = e
  OBVIOUS

\* Taking the oldest task out leaves the others in.
LEMMA TailContents ==
    ASSUME taskQueue \in Seq(Task), taskQueue # <<>>, taskQueue' = Tail(taskQueue)
    PROVE  /\ Head(taskQueue) \in Task /\ InQueue(Head(taskQueue))
           /\ \A t : InQueue(t)' => InQueue(t)
           /\ \A t : InQueue(t) /\ t # Head(taskQueue) => InQueue(t)'
<1>1. /\ Len(taskQueue) \in Nat \ {0} /\ taskQueue[1] = Head(taskQueue) /\ Head(taskQueue) \in Task
      /\ Len(taskQueue') = Len(taskQueue) - 1
      /\ \A i \in 1..Len(taskQueue') : i + 1 \in 2..Len(taskQueue) /\ taskQueue'[i] = taskQueue[i + 1]
  BY HeadAndTail
<1>2. InQueue(Head(taskQueue))
  <2>1. 1 \in 1..Len(taskQueue)
    BY <1>1
  <2> QED
    BY <1>1, <2>1 DEF InQueue
<1>3. ASSUME NEW t, NEW i \in 1..Len(taskQueue'), taskQueue'[i] = t PROVE InQueue(t)
  <2>1. i + 1 \in 1..Len(taskQueue)
    BY <1>1, <1>3
  <2> QED
    BY <1>1, <1>3, <2>1 DEF InQueue
<1>4. ASSUME NEW t, NEW i \in 1..Len(taskQueue), taskQueue[i] = t, t # Head(taskQueue)
      PROVE  InQueue(t)'
  <2>1. i - 1 \in 1..Len(taskQueue') /\ (i - 1) + 1 = i
    BY <1>1, <1>4
  <2>2. taskQueue'[i - 1] = t
    BY <1>1, <1>4, <2>1
  <2> QED
    BY <2>1, <2>2 DEF InQueue
<1> QED
  BY <1>1, <1>2, <1>3, <1>4 DEF InQueue

LEMMA AppendContents ==
    ASSUME taskQueue \in Seq(Task), NEW e \in Task, taskQueue' = Append(taskQueue, e)
    PROVE  InQueue(e)' /\ \A t : InQueue(t)' <=> InQueue(t) \/ t = e
<1>1. /\ Len(taskQueue) \in Nat /\ Len(taskQueue') = Len(taskQueue) + 1
      /\ \A i \in 1..Len(taskQueue) : taskQueue'[i] = taskQueue[i]
      /\ taskQueue'[Len(taskQueue) + 1] = e
  BY Appended
<1>2. InQueue(e)'
  <2>1. Len(taskQueue) + 1 \in 1..Len(taskQueue')
    BY <1>1
  <2> QED
    BY <1>1, <2>1 DEF InQueue
<1>3. ASSUME NEW t, NEW i \in 1..Len(taskQueue'), taskQueue'[i] = t PROVE InQueue(t) \/ t = e
  <2>1. i \in 1..Len(taskQueue) \/ i = Len(taskQueue) + 1
    BY <1>1, <1>3
  <2> QED
    BY <1>1, <1>3, <2>1 DEF InQueue
<1>4. ASSUME NEW t, NEW i \in 1..Len(taskQueue), taskQueue[i] = t PROVE InQueue(t)'
  <2>1. i \in 1..Len(taskQueue') /\ taskQueue'[i] = t
    BY <1>1, <1>4
  <2> QED
    BY <2>1 DEF InQueue
<1> QED
  BY <1>2, <1>3, <1>4 DEF InQueue

LEMMA AtMostOne ==
    ASSUME NEW S, \A x, y \in S : x = y
    PROVE  Cardinality(S) \in 0..1 /\ (S = {} => Cardinality(S) = 0)
<1>1. CASE S = {}
  BY <1>1, FS_EmptySet
<1>2. CASE S # {}
  <2>1. PICK x \in S : TRUE
    BY <1>2
  <2>2. S = {x}
    BY <2>1
  <2>3. Cardinality({x}) = 1
    BY FS_Singleton
  <2> QED
    BY <1>2, <2>2, <2>3
<1> QED
  BY <1>1, <1>2

LEMMA TailDistinct ==
    ASSUME taskQueue \in Seq(Task), taskQueue # <<>>, taskQueue' = Tail(taskQueue), Distinct
    PROVE  Distinct' /\ \A t : InQueue(t)' => t # Head(taskQueue)
<1>1. /\ Len(taskQueue) \in Nat \ {0} /\ taskQueue[1] = Head(taskQueue)
      /\ Len(taskQueue') = Len(taskQueue) - 1
      /\ \A i \in 1..Len(taskQueue') : i + 1 \in 2..Len(taskQueue) /\ taskQueue'[i] = taskQueue[i + 1]
  BY HeadAndTail
<1>2. ASSUME NEW i \in 1..Len(taskQueue'), NEW j \in 1..Len(taskQueue'), taskQueue'[i] = taskQueue'[j]
      PROVE  i = j
  <2>1. i + 1 \in 1..Len(taskQueue) /\ j + 1 \in 1..Len(taskQueue)
    BY <1>1
  <2>2. i + 1 = j + 1
    BY <1>1, <1>2, <2>1 DEF Distinct
  <2> QED
    BY <1>1, <2>2
<1>3. ASSUME NEW i \in 1..Len(taskQueue'), taskQueue'[i] = taskQueue[1] PROVE FALSE
  <2>1. 1 \in 1..Len(taskQueue) /\ i + 1 \in 1..Len(taskQueue) /\ i + 1 # 1
    BY <1>1
  <2> QED
    BY <1>1, <1>3, <2>1 DEF Distinct
<1> QED
  BY <1>1, <1>2, <1>3 DEF Distinct, InQueue

LEMMA AppendDistinct ==
    ASSUME taskQueue \in Seq(Task), NEW e \in Task, taskQueue' = Append(taskQueue, e),
           Distinct, ~InQueue(e)
    PROVE  Distinct'
<1>1. /\ Len(taskQueue) \in Nat /\ Len(taskQueue') = Len(taskQueue) + 1
      /\ \A i \in 1..Len(taskQueue) : taskQueue'[i] = taskQueue[i] /\ taskQueue[i] # e
      /\ taskQueue'[Len(taskQueue) + 1] = e
  BY Appended DEF InQueue
<1>2. \A i \in 1..Len(taskQueue') : i \in 1..Len(taskQueue) \/ i = Len(taskQueue) + 1
  BY <1>1
<1> QED
  BY <1>1, <1>2 DEF Distinct

LEMMA HoldersFinite == IsFiniteSet(Holders) /\ Cardinality(Holders) \in Nat
  BY PoolAssumption, FS_Subset, FS_CardinalityType DEF Holders

\* What the counters are, as numbers.
LEMMA Counters ==
    ASSUME Inv
    PROVE  /\ Len(taskQueue) \in Nat /\ Cardinality(Holders) \in Nat
           /\ unfinished = Len(taskQueue) + Cardinality(Holders)
           /\ completed = Cardinality(EndedTasks)
<1>1. Len(taskQueue) \in Nat
  BY DEF Inv, ThreadTypeOK
<1> QED
  BY <1>1, HoldersFinite DEF Inv, CountInv

LEMMA TaskFinite == IsFiniteSet(Task)
  BY PoolAssumption, FS_Interval DEF Task

-----------------------------------------------------------------------------
(* Types.                                                                   *)

LEMMA ThreadTypeInit == ThreadInit => ThreadTypeOK
<1> SUFFICES ASSUME ThreadInit PROVE ThreadTypeOK
  OBVIOUS
<1>1. /\ isRunning \in BOOLEAN /\ taskQueue \in Seq(Task) /\ unfinished \in Nat
      /\ lock \in Client \cup {None} /\ completed \in Nat /\ total \in 0..MaxTasks
      /\ dropped \subseteq Task
  <2>1. isRunning \in BOOLEAN /\ taskQueue \in Seq(Task) /\ unfinished \in Nat
    <3>1. taskQueue = <<>> /\ <<>> \in Seq(Task)
      BY DEF ThreadInit
    <3>2. isRunning = FALSE /\ unfinished = 0
      BY DEF ThreadInit
    <3> QED
      BY <3>1, <3>2
  <2>2. lock \in Client \cup {None} /\ completed \in Nat /\ total \in 0..MaxTasks
    BY PoolAssumption DEF ThreadInit
  <2>3. dropped \subseteq Task
    BY DEF ThreadInit
  <2> QED
    BY <2>1, <2>2, <2>3
<1>2. /\ status \in [Task -> {"none", "pending", "running", "retrying"} \cup Final]
      /\ retries \in [Task -> Nat]
  BY DEF ThreadInit
<1>3. /\ wpc \in [Thread -> {"new", "check", "get", "start", "run", "returned", "raised",
                            "putback", "done", "unwinding", "exit", "dead"}]
      /\ hand \in [Thread -> Task \cup {None}]
  BY DEF ThreadInit
<1>4. cpc \in [Client -> {"idle", "put", "count", "join", "drain"}] /\ calls \in [Client -> Nat]
  BY DEF ThreadInit
<1> QED
  BY <1>1, <1>2, <1>3, <1>4 DEF ThreadTypeOK

LEMMA TypeWorker ==
    ASSUME Inv, NEW w \in Thread, WorkerStep(w)
    PROVE  ThreadTypeOK'
<1> USE DEF ThreadTypeOK, queued, records, clients, Goto, Record, Final
<1> ThreadTypeOK
  BY DEF Inv
<1>1. CASE CheckRunning(w) \/ GetTimesOut(w) \/ FuncEnds(w)
  BY <1>1 DEF CheckRunning, GetTimesOut, FuncEnds
<1>2. CASE Get(w)
  <2>1. Head(taskQueue) \in Task /\ taskQueue' \in Seq(Task)
    BY <1>2, HeadAndTail DEF Get
  <2>2. hand' \in [Thread -> Task \cup {None}]
    BY <1>2, <2>1 DEF Get
  <2> QED
    BY <1>2, <2>1, <2>2 DEF Get
<1>3. wpc[w] \in {"start", "run", "returned", "raised", "putback", "done"} => hand[w] \in Task
  BY DEF Inv, OwnInv, Holds
<1>4. CASE StartTask(w)
  BY <1>3, <1>4 DEF StartTask
<1>5. CASE RecordSuccess(w)
  BY <1>3, <1>5 DEF RecordSuccess
<1>6. CASE RecordFailure(w)
  <2>1. hand[w] \in Task
    BY <1>3, <1>6 DEF RecordFailure
  <2>2. retries' \in [Task -> Nat]
    BY <1>6, <2>1 DEF RecordFailure
  <2>3. status' \in [Task -> {"none", "pending", "running", "retrying"} \cup Final]
    BY <1>6, <2>1 DEF RecordFailure
  <2>4. wpc' \in [Thread -> {"new", "check", "get", "start", "run", "returned", "raised",
                             "putback", "done", "unwinding", "exit", "dead"}]
    BY <1>6 DEF RecordFailure
  <2>5. completed' \in Nat
    BY <1>6 DEF RecordFailure
  <2> QED
    BY <1>6, <2>2, <2>3, <2>4, <2>5 DEF RecordFailure
<1>7. CASE PutBack(w)
  <2>1. taskQueue' \in Seq(Task)
    BY <1>3, <1>7, Appended DEF PutBack, Put
  <2> QED
    BY <1>7, <2>1 DEF PutBack, Put
<1>8. CASE TaskDone(w) \/ ThreadDies(w)
  <2>1. w \in Holders
    BY <1>8 DEF TaskDone, ThreadDies, Holders, Inv, OwnInv
  <2>2. Cardinality(Holders) # 0
    BY <2>1, HoldersFinite, FS_EmptySet
  <2>3. unfinished # 0
    <3>1. unfinished = Len(taskQueue) + Cardinality(Holders)
      BY DEF Inv, CountInv
    <3>2. Len(taskQueue) \in Nat
      OBVIOUS
    <3> QED
      BY <2>2, <3>1, <3>2, HoldersFinite
  <2>4. unfinished' \in Nat /\ hand' \in [Thread -> Task \cup {None}]
    BY <1>8, <2>3 DEF TaskDone, ThreadDies
  <2> QED
    BY <1>8, <2>4 DEF TaskDone, ThreadDies
<1> QED
  BY <1>1, <1>2, <1>4, <1>5, <1>6, <1>7, <1>8 DEF WorkerStep

LEMMA TypeClient ==
    ASSUME Inv, NEW c \in Client, ClientStep(c)
    PROVE  ThreadTypeOK'
<1> USE DEF ThreadTypeOK, queued, records, workers, clients, Final
<1> ThreadTypeOK
  BY DEF Inv
<1>1. cpc[c] \in {"put", "count"} => total < MaxTasks /\ total \in Task
  BY PoolAssumption DEF Inv, OwnInv, Task
<1>2. CASE Submit(c)
  <2>1. total \in Task
    BY <1>2, PoolAssumption DEF Submit, Task
  <2> QED
    BY <1>2, <2>1 DEF Submit, Call, Enter, Record
<1>3. CASE PutTask(c)
  <2>1. taskQueue' \in Seq(Task)
    BY <1>1, <1>3, Appended DEF PutTask, Put, Leave
  <2> QED
    BY <1>3, <2>1 DEF PutTask, Put, Leave
<1>4. CASE CountTask(c)
  <2>1. total' \in 0..MaxTasks
    BY <1>1, <1>4, PoolAssumption DEF CountTask, Leave
  <2> QED
    BY <1>4, <2>1 DEF CountTask, Leave
<1>5. CASE PutTimesOut(c)
  BY <1>5 DEF PutTimesOut, Leave
<1>6. CASE Start(c)
  <2>1. wpc' \in [Thread -> {"new", "check", "get", "start", "run", "returned", "raised",
                             "putback", "done", "unwinding", "exit", "dead"}]
    BY <1>6 DEF Start
  <2>2. cpc' \in [Client -> {"idle", "put", "count", "join", "drain"}] /\ calls' \in [Client -> Nat]
    BY <1>6 DEF Start, Call
  <2> QED
    BY <1>6, <2>1, <2>2 DEF Start
<1>7. CASE WaitCompletion(c) \/ Shutdown(c)
  <2>1. cpc' \in [Client -> {"idle", "put", "count", "join", "drain"}] /\ calls' \in [Client -> Nat]
    <3>1. Call(c, "join") \/ Call(c, "drain")
      BY <1>7 DEF WaitCompletion, Shutdown
    <3>2. calls' = [calls EXCEPT ![c] = @ + 1]
      BY <3>1 DEF Call
    <3>3. cpc' = [cpc EXCEPT ![c] = "join"] \/ cpc' = [cpc EXCEPT ![c] = "drain"]
      BY <3>1 DEF Call
    <3>4. /\ cpc \in [Client -> {"idle", "put", "count", "join", "drain"}]
          /\ calls \in [Client -> Nat]
      OBVIOUS
    <3> HIDE DEF ThreadTypeOK
    <3>5. calls' \in [Client -> Nat]
      BY <3>2, <3>4
    <3>6. cpc' \in [Client -> {"idle", "put", "count", "join", "drain"}]
      BY <3>3, <3>4
    <3> QED
      BY <3>5, <3>6
  <2> QED
    BY <1>7, <2>1 DEF WaitCompletion, Shutdown
<1>8. CASE JoinReturns(c) \/ DrainEnds(c)
  BY <1>8 DEF JoinReturns, DrainEnds, Leave
<1>9. CASE Drain(c)
  <2>1. Head(taskQueue) \in Task /\ taskQueue' \in Seq(Task) /\ Len(taskQueue) \in Nat \ {0}
    BY <1>9, HeadAndTail DEF Drain
  <2>2. unfinished # 0
    <3>1. unfinished = Len(taskQueue) + Cardinality(Holders)
      BY DEF Inv, CountInv
    <3> QED
      BY <2>1, <3>1, HoldersFinite
  <2> QED
    BY <1>9, <2>1, <2>2 DEF Drain, DrainDone
<1> QED
  BY <1>2, <1>3, <1>4, <1>5, <1>6, <1>7, <1>8, <1>9 DEF ClientStep, ClientReturns

-----------------------------------------------------------------------------
(* The rest of the invariant, over the steps.                               *)

Rest == OwnInv /\ ThreadPlaceInv /\ StatusInv /\ KeptInv /\ CountInv

\* A step that moves threads and clients where no task is concerned.
Quiet ==
    /\ UNCHANGED <<queued, lock, records, total, hand, dropped>>
    /\ \A w \in Thread :
          \/ wpc'[w] = wpc[w]
          \/ {wpc[w], wpc'[w]} \subseteq {"new", "check", "get", "exit"}
          \/ wpc[w] = "run" /\ wpc'[w] \in {"returned", "raised", "unwinding"}
    /\ \A c \in Client : cpc'[c] = cpc[c] \/ {cpc[c], cpc'[c]} \subseteq {"idle", "join", "drain"}

\* A step of worker w, or of client c, alone.
OnlyWorker(w) == \A v \in Thread : v # w => wpc'[v] = wpc[v] /\ hand'[v] = hand[v]
OnlyClient(c) == \A d \in Client : d # c => cpc'[d] = cpc[d]

LEMMA ThreadQuietStep ==
    ASSUME Inv, Quiet
    PROVE  Rest'
<1> USE DEF Inv, Quiet, queued, records
<1>1. \A t : InQueue(t)' <=> InQueue(t)
  BY DEF InQueue
<1>2. \A w \in Thread : /\ Holds(w)' <=> Holds(w)
                        /\ Active(w)' <=> Active(w)
  BY DEF Holds, Active
<1>3. \A t : InHand(t)' <=> InHand(t)
  BY <1>2 DEF InHand
<1>4. \A c \in Client : cpc'[c] \in {"put", "count"} \/ cpc[c] \in {"put", "count"} => cpc'[c] = cpc[c]
  OBVIOUS
<1>5. \A t : Given(t)' <=> Given(t)
  BY <1>4 DEF Given
<1>6. OwnInv'
  BY <1>2, <1>4 DEF OwnInv
<1>7. ThreadPlaceInv'
  BY <1>1, <1>2, <1>3, <1>5 DEF ThreadPlaceInv, Distinct
<1>8. StatusInv'
  BY <1>1, <1>4 DEF StatusInv
<1>9. KeptInv'
  BY <1>1, <1>3, <1>5 DEF KeptInv, Ended
<1>10. CountInv'
  BY <1>2 DEF CountInv, EndedTasks, Ended, Holders
<1> QED
  BY <1>6, <1>7, <1>8, <1>9, <1>10 DEF Rest

LEMMA GetStep ==
    ASSUME Inv, NEW w \in Thread, Get(w)
    PROVE  Rest'
<1> USE DEF Inv, ThreadTypeOK
<1>1. /\ wpc[w] = "get" /\ taskQueue # <<>> /\ taskQueue' = Tail(taskQueue)
      /\ UNCHANGED <<unfinished, lock, status, retries, completed, total, cpc, dropped>>
  BY DEF Get, records, clients
<1> SUFFICES ASSUME NEW h \in Task, h = Head(taskQueue) PROVE Rest'
  BY <1>1, TailContents
<1>2. h # None /\ hand'[w] = h /\ wpc'[w] = "start" /\ OnlyWorker(w)
  BY <1>1, PoolAssumption DEF Get, Goto, OnlyWorker, Task
<1>3. /\ InQueue(h) /\ ~InQueue(h)' /\ Distinct'
      /\ \A t : InQueue(t)' => InQueue(t)
      /\ \A t : InQueue(t) /\ t # h => InQueue(t)'
  BY <1>1, TailContents, TailDistinct DEF ThreadPlaceInv
<1>4. ~Holds(w) /\ Holds(w)' /\ ~Active(w) /\ Active(w)'
  BY <1>1, <1>2 DEF OwnInv, Holds, Active
<1>5. \A v \in Thread : v # w => (Holds(v)' <=> Holds(v)) /\ (Active(v)' <=> Active(v))
  BY <1>2 DEF OnlyWorker, Holds, Active
<1>6. \A t : InHand(t)' <=> InHand(t) \/ t = h
  BY <1>2, <1>4, <1>5 DEF InHand, OnlyWorker
<1>7. \A t : Given(t)' <=> Given(t)
  BY <1>1 DEF Given
<1>8. OwnInv'
  BY <1>1, <1>2, <1>4, <1>5 DEF OwnInv, OnlyWorker
<1>9. ThreadPlaceInv'
  <2>1. \A t \in Task : ~(InQueue(t)' /\ InHand(t)')
    BY <1>3, <1>6 DEF ThreadPlaceInv
  <2>2. \A v \in Thread : v # w /\ Active(v)' => hand'[v] # h
    BY <1>2, <1>3, <1>5 DEF ThreadPlaceInv, OnlyWorker, InHand
  <2>3. \A u, v \in Thread : Active(u)' /\ Active(v)' /\ hand'[u] = hand'[v] => u = v
    BY <1>2, <1>5, <2>2 DEF ThreadPlaceInv, OnlyWorker
  <2>4. \A t \in Task : InQueue(t)' \/ InHand(t)' => Given(t)'
    BY <1>3, <1>6, <1>7 DEF ThreadPlaceInv
  <2> QED
    BY <1>3, <2>1, <2>3, <2>4 DEF ThreadPlaceInv
<1>10. StatusInv'
  <2>1. status[h] \in {"pending", "retrying"}
    BY <1>3 DEF StatusInv
  <2>2. \A v \in Thread :
          /\ wpc'[v] = "start" => status[hand'[v]] \in {"pending", "retrying"}
          /\ wpc'[v] \in {"run", "returned", "raised"} => status[hand'[v]] = "running"
          /\ wpc'[v] = "putback" => status[hand'[v]] = "retrying"
    <3> TAKE v \in Thread
    <3>1. CASE v = w
      BY <1>2, <2>1, <3>1
    <3>2. CASE v # w
      <4>1. wpc'[v] = wpc[v] /\ hand'[v] = hand[v]
        BY <1>2, <3>2 DEF OnlyWorker
      <4> QED
        BY <4>1 DEF StatusInv
    <3> QED
      BY <3>1, <3>2
  <2> QED
    BY <1>1, <1>3, <2>2 DEF StatusInv
<1>11. KeptInv'
  BY <1>1, <1>3, <1>6, <1>7 DEF KeptInv, Ended
<1>12. CountInv'
  <2>1. Holders' = Holders \cup {w} /\ w \notin Holders
    BY <1>2, <1>4, <1>5 DEF Holders, OnlyWorker
  <2>2. Cardinality(Holders') = Cardinality(Holders) + 1
    BY <2>1, HoldersFinite, FS_AddElement
  <2>3. Len(taskQueue') = Len(taskQueue) - 1 /\ Len(taskQueue) \in Nat
    BY <1>1, HeadAndTail
  <2>4. unfinished' = Len(taskQueue') + Cardinality(Holders')
    BY <1>1, <2>2, <2>3, Counters DEF CountInv
  <2> QED
    BY <1>1, <2>4 DEF CountInv, EndedTasks, Ended
<1> QED
  BY <1>8, <1>9, <1>10, <1>11, <1>12 DEF Rest

\* A worker thread writes the status of its task.
LEMMA HandStatus ==
    ASSUME Inv, NEW w \in Thread, NEW t \in Task, hand[w] = t,
           wpc[w] \in {"start", "returned", "raised"}, LockFree
    PROVE  /\ InHand(t) /\ ~InQueue(t) /\ t < total
           /\ \A v \in Thread : v # w /\ Active(v) => hand[v] # t
           /\ \A c \in Client : cpc[c] \notin {"put", "count"}
           /\ status[t] \in {"pending", "retrying", "running"}
<1> USE DEF Inv, ThreadTypeOK
<1>1. Active(w)
  BY DEF OwnInv, Active
<1>2. InHand(t)
  BY <1>1 DEF InHand
<1>3. \A c \in Client : cpc[c] \notin {"put", "count"}
  BY PoolAssumption DEF OwnInv, LockFree
<1>4. t < total
  BY <1>2, <1>3 DEF ThreadPlaceInv, Given
<1> QED
  BY <1>1, <1>2, <1>3, <1>4 DEF ThreadPlaceInv, StatusInv

\* StartTask, RecordSuccess and RecordFailure: the worker keeps its task, and
\* its status says what it does with it.
LEMMA RecordStep ==
    ASSUME Inv, NEW w \in Thread, NEW t \in Task, hand[w] = t,
           wpc[w] \in {"start", "returned", "raised"}, LockFree,
           NEW s, NEW label, status' = [status EXCEPT ![t] = s], wpc' = [wpc EXCEPT ![w] = label],
           \/ s = "running" /\ label = "run" /\ completed' = completed
           \/ s = "retrying" /\ label = "putback" /\ completed' = completed
           \/ s \in Final /\ label = "done" /\ completed' = completed + 1,
           UNCHANGED <<queued, lock, total, hand, cpc, dropped>>
    PROVE  Rest'
<1> USE DEF Inv, ThreadTypeOK, queued
<1>1. /\ InHand(t) /\ ~InQueue(t) /\ t < total
      /\ \A v \in Thread : v # w /\ Active(v) => hand[v] # t
      /\ \A c \in Client : cpc[c] \notin {"put", "count"}
      /\ status[t] \in {"pending", "retrying", "running"}
  BY HandStatus
<1>2. /\ \A i : InQueue(i)' <=> InQueue(i)
      /\ \A i : Given(i)' <=> Given(i)
      /\ \A v \in Thread : Holds(v)' <=> Holds(v)
  BY DEF InQueue, Given, Holds
<1>3. \A v \in Thread : v # w => wpc'[v] = wpc[v] /\ (Active(v)' <=> Active(v))
  BY DEF Active, Holds
<1>4. wpc'[w] = label /\ Active(w) /\ (Active(w)' <=> label # "done")
  BY DEF OwnInv, Active, Holds
<1>5. status'[t] = s /\ \A i \in Task : i # t => status'[i] = status[i]
  OBVIOUS
<1>6. \A i : InHand(i)' => InHand(i)
  BY <1>3, <1>4 DEF InHand
<1>7. \A i : InHand(i) /\ i # t => InHand(i)'
  BY <1>3 DEF InHand
<1>8. label # "done" => InHand(t)'
  BY <1>4 DEF InHand
<1>9. OwnInv'
  BY <1>2, <1>3, <1>4 DEF OwnInv
<1>10. ThreadPlaceInv'
  <2>1. \A u, v \in Thread : Active(u)' /\ Active(v)' /\ hand[u] = hand[v] => u = v
    BY <1>3, <1>4 DEF ThreadPlaceInv
  <2> QED
    BY <1>2, <1>6, <2>1 DEF ThreadPlaceInv, Distinct
<1>11. StatusInv'
  <2>1. ASSUME NEW v \in Thread
        PROVE  /\ wpc'[v] = "start" => status'[hand[v]] \in {"pending", "retrying"}
               /\ wpc'[v] \in {"run", "returned", "raised"} => status'[hand[v]] = "running"
               /\ wpc'[v] = "putback" => status'[hand[v]] = "retrying"
    <3>1. CASE v = w
      BY <1>4, <1>5, <3>1
    <3>2. CASE v # w
      <4>1. wpc[v] \in {"start", "run", "returned", "raised", "putback"} => hand[v] \in Task \ {t}
        BY <1>1, <3>2 DEF OwnInv, Holds, Active
      <4> QED
        BY <1>3, <1>5, <3>2, <4>1 DEF StatusInv
    <3> QED
      BY <3>1, <3>2
  <2>2. \A i \in Task : InQueue(i)' => status'[i] \in {"pending", "retrying"}
    BY <1>1, <1>2, <1>5 DEF StatusInv
  <2>3. \A i \in Task : i >= total => status'[i] \in {"none", "pending"}
    BY <1>1, <1>5 DEF StatusInv, Task
  <2> QED
    BY <1>1, <2>1, <2>2, <2>3 DEF StatusInv
<1>12. KeptInv'
  <2>1. \A i \in Task : i # t => (Ended(i)' <=> Ended(i))
    BY <1>5 DEF Ended
  <2>2. Ended(t)' \/ InHand(t)'
    BY <1>5, <1>8 DEF Ended
  <2> QED
    BY <1>2, <1>7, <2>1, <2>2 DEF KeptInv
<1>13. CountInv'
  <2>1. Holders' = Holders
    BY <1>2, <1>3, <1>4 DEF Holders
  <2>2. unfinished' = Len(taskQueue') + Cardinality(Holders')
    BY <2>1, Counters
  <2>3. t \notin EndedTasks
    BY <1>1 DEF EndedTasks, Ended, Final
  <2>4. CASE s \in Final
    <3>1. Ended(t)' /\ \A i \in Task : i # t => (Ended(i)' <=> Ended(i))
      BY <1>5, <2>4 DEF Ended
    <3>2. EndedTasks' = EndedTasks \cup {t}
      BY <3>1 DEF EndedTasks
    <3>3. IsFiniteSet(EndedTasks)
      BY TaskFinite, FS_Subset DEF EndedTasks
    <3>4. Cardinality(EndedTasks') = Cardinality(EndedTasks) + 1
      BY <2>3, <3>2, <3>3, FS_AddElement
    <3> QED
      BY <2>2, <2>4, <3>4, Counters DEF CountInv, Final
  <2>5. CASE s \notin Final
    <3>1. \A i \in Task : Ended(i)' <=> Ended(i)
      BY <1>1, <1>5, <2>5 DEF Ended, Final
    <3>2. EndedTasks' = EndedTasks
      BY <3>1 DEF EndedTasks
    <3> QED
      BY <2>2, <2>5, <3>2, Counters DEF CountInv
  <2> QED
    BY <2>4, <2>5
<1> QED
  BY <1>9, <1>10, <1>11, <1>12, <1>13 DEF Rest

LEMMA PutBackStep ==
    ASSUME Inv, NEW w \in Thread, PutBack(w)
    PROVE  Rest'
<1> USE DEF Inv, ThreadTypeOK
<1>1. /\ wpc[w] = "putback" /\ taskQueue' = Append(taskQueue, hand[w]) /\ unfinished' = unfinished + 1
      /\ UNCHANGED <<lock, status, retries, completed, total, hand, cpc, dropped>>
      /\ wpc' = [wpc EXCEPT ![w] = "done"]
  BY DEF PutBack, Put, Goto, records, clients
<1>2. hand[w] \in Task /\ Active(w)
  BY <1>1 DEF OwnInv, Holds, Active
<1> SUFFICES ASSUME NEW t \in Task, t = hand[w] PROVE Rest'
  BY <1>2
<1>3. /\ InHand(t) /\ ~InQueue(t) /\ Given(t) /\ status[t] = "retrying"
      /\ \A v \in Thread : v # w /\ Active(v) => hand[v] # t
  BY <1>1, <1>2 DEF ThreadPlaceInv, StatusInv, InHand
<1>4. (\A i : InQueue(i)' <=> InQueue(i) \/ i = t) /\ Distinct'
  BY <1>1, <1>3, AppendContents, AppendDistinct DEF ThreadPlaceInv
<1>5. wpc'[w] = "done" /\ \A v \in Thread : v # w => wpc'[v] = wpc[v]
  BY <1>1
<1>6. (\A v \in Thread : Holds(v)' <=> Holds(v)) /\ (\A i : Given(i)' <=> Given(i))
  BY <1>1 DEF Holds, Given
<1>7. ~Active(w)' /\ \A v \in Thread : v # w => (Active(v)' <=> Active(v))
  BY <1>5, <1>6 DEF Active
<1>8. (\A i : InHand(i)' <=> InHand(i) /\ i # t)
  BY <1>1, <1>3, <1>7 DEF InHand
<1>9. OwnInv'
  BY <1>1, <1>5, <1>6 DEF OwnInv
<1>10. ThreadPlaceInv'
  <2>1. \A u, v \in Thread : Active(u)' /\ Active(v)' /\ hand'[u] = hand'[v] => u = v
    BY <1>1, <1>7 DEF ThreadPlaceInv
  <2> QED
    BY <1>3, <1>4, <1>6, <1>8, <2>1 DEF ThreadPlaceInv
<1>11. StatusInv'
  <2>1. \A i \in Task : InQueue(i)' => status'[i] \in {"pending", "retrying"}
    BY <1>1, <1>3, <1>4 DEF StatusInv
  <2> QED
    BY <1>1, <1>5, <2>1 DEF StatusInv
<1>12. KeptInv'
  BY <1>1, <1>4, <1>6, <1>8 DEF KeptInv, Ended
<1>13. CountInv'
  <2>1. Holders' = Holders
    BY <1>1, <1>5, <1>6 DEF Holders
  <2>2. Len(taskQueue') = Len(taskQueue) + 1 /\ Len(taskQueue) \in Nat
    BY <1>1, <1>2, Appended
  <2>3. unfinished' = Len(taskQueue') + Cardinality(Holders')
    BY <1>1, <2>1, <2>2, Counters DEF CountInv
  <2> QED
    BY <1>1, <2>3 DEF CountInv, EndedTasks, Ended
<1> QED
  BY <1>9, <1>10, <1>11, <1>12, <1>13 DEF Rest

LEMMA TaskDoneStep ==
    ASSUME Inv, NEW w \in Thread, TaskDone(w)
    PROVE  Rest'
<1> USE DEF Inv, ThreadTypeOK
<1>1. /\ wpc[w] = "done" /\ unfinished' = unfinished - 1
      /\ hand'[w] = None /\ wpc'[w] = "check" /\ OnlyWorker(w)
      /\ UNCHANGED <<taskQueue, lock, status, retries, completed, total, cpc, dropped>>
  BY DEF TaskDone, Goto, OnlyWorker, records, clients
<1>2. Holds(w) /\ ~Holds(w)' /\ ~Active(w) /\ ~Active(w)'
  BY <1>1 DEF OwnInv, Holds, Active
<1>3. \A v \in Thread : v # w => (Holds(v)' <=> Holds(v)) /\ (Active(v)' <=> Active(v))
  BY <1>1 DEF OnlyWorker, Holds, Active
<1>4. \A t : /\ InHand(t)' <=> InHand(t)
             /\ InQueue(t)' <=> InQueue(t)
             /\ Given(t)' <=> Given(t)
  BY <1>1, <1>2, <1>3 DEF InHand, InQueue, Given, OnlyWorker
<1>5. OwnInv'
  BY <1>1, <1>2, <1>3 DEF OwnInv, OnlyWorker
<1>6. ThreadPlaceInv'
  <2>1. \A u, v \in Thread : Active(u)' /\ Active(v)' /\ hand'[u] = hand'[v] => u = v
    BY <1>1, <1>2, <1>3 DEF ThreadPlaceInv, OnlyWorker
  <2> QED
    BY <1>1, <1>4, <2>1 DEF ThreadPlaceInv, Distinct
<1>7. StatusInv'
  <2>1. \A v \in Thread : v # w => wpc'[v] = wpc[v] /\ hand'[v] = hand[v]
    BY <1>1 DEF OnlyWorker
  <2> QED
    BY <1>1, <1>4, <2>1 DEF StatusInv
<1>8. KeptInv'
  BY <1>1, <1>4 DEF KeptInv, Ended
<1>9. CountInv'
  <2>1. Holders' = Holders \ {w} /\ w \in Holders
    BY <1>1, <1>2, <1>3 DEF Holders, OnlyWorker
  <2>2. Cardinality(Holders') = Cardinality(Holders) - 1
    BY <2>1, HoldersFinite, FS_RemoveElement
  <2>3. Len(taskQueue) \in Nat
    OBVIOUS
  <2>4. unfinished' = Len(taskQueue') + Cardinality(Holders')
    BY <1>1, <2>2, <2>3, Counters DEF CountInv
  <2> QED
    BY <1>1, <2>4 DEF CountInv, EndedTasks, Ended
<1> QED
  BY <1>5, <1>6, <1>7, <1>8, <1>9 DEF Rest

\* The thread that dies keeps its task in hand, where nobody takes it up again.
LEMMA ThreadDiesStep ==
    ASSUME Inv, NEW w \in Thread, ThreadDies(w)
    PROVE  Rest'
<1> USE DEF Inv, ThreadTypeOK
<1>1. /\ wpc[w] = "unwinding" /\ unfinished' = unfinished - 1 /\ wpc'[w] = "dead"
      /\ \A v \in Thread : v # w => wpc'[v] = wpc[v]
      /\ UNCHANGED <<taskQueue, lock, status, retries, completed, total, hand, cpc, dropped>>
  BY DEF ThreadDies, Goto, records, clients
<1>2. Holds(w) /\ \A v \in Thread : (Holds(v)' <=> Holds(v)) /\ (Active(v)' <=> Active(v))
  BY <1>1 DEF OwnInv, Holds, Active
<1>3. \A t : /\ InHand(t)' <=> InHand(t)
             /\ InQueue(t)' <=> InQueue(t)
             /\ Given(t)' <=> Given(t)
  BY <1>1, <1>2 DEF InHand, InQueue, Given
<1>4. OwnInv'
  BY <1>1, <1>2 DEF OwnInv
<1>5. ThreadPlaceInv'
  BY <1>1, <1>2, <1>3 DEF ThreadPlaceInv, Distinct
<1>6. StatusInv'
  BY <1>1, <1>3 DEF StatusInv
<1>7. KeptInv'
  BY <1>1, <1>3 DEF KeptInv, Ended
<1>8. CountInv'
  <2>1. Holders' = Holders \ {w} /\ w \in Holders
    BY <1>1, <1>2 DEF Holders
  <2>2. Cardinality(Holders') = Cardinality(Holders) - 1
    BY <2>1, HoldersFinite, FS_RemoveElement
  <2>3. Len(taskQueue) \in Nat
    OBVIOUS
  <2>4. unfinished' = Len(taskQueue') + Cardinality(Holders')
    BY <1>1, <2>2, <2>3, Counters DEF CountInv
  <2> QED
    BY <1>1, <2>4 DEF CountInv, EndedTasks, Ended
<1> QED
  BY <1>4, <1>5, <1>6, <1>7, <1>8 DEF Rest

-----------------------------------------------------------------------------
(* Submissions and the drain of shutdown.                                   *)

\* A step of a client leaves the workers alone.
LEMMA HandsStay ==
    ASSUME UNCHANGED workers
    PROVE  /\ UNCHANGED <<wpc, hand>> /\ Holders' = Holders
           /\ \A w \in Thread : (Holds(w)' <=> Holds(w)) /\ (Active(w)' <=> Active(w))
           /\ \A t : InHand(t)' <=> InHand(t)
  BY DEF workers, Holders, Holds, Active, InHand

LEMMA SubmitStep ==
    ASSUME Inv, NEW c \in Client, Submit(c)
    PROVE  Rest'
<1> USE DEF Inv, ThreadTypeOK
<1>1. /\ cpc[c] = "idle" /\ cpc'[c] = "put" /\ OnlyClient(c)
      /\ lock = None /\ lock' = c /\ total < MaxTasks
      /\ status' = [status EXCEPT ![total] = "pending"]
      /\ UNCHANGED <<taskQueue, unfinished, retries, completed, total, dropped>>
  BY DEF Submit, Call, Enter, Record, OnlyClient, queued
<1>2. UNCHANGED workers /\ total \in Task
  BY <1>1, PoolAssumption DEF Submit, Task
<1>3. \A d \in Client : cpc[d] \notin {"put", "count"}
  BY <1>1, PoolAssumption DEF OwnInv
<1>4. \A d \in Client : cpc'[d] \in {"put", "count"} <=> d = c
  BY <1>1, <1>3 DEF OnlyClient
<1>5. \A t : (InQueue(t)' <=> InQueue(t)) /\ (Given(t)' <=> Given(t))
  <2>1. \A d \in Client : cpc[d] # "count" /\ cpc'[d] # "count"
    BY <1>1, <1>3, <1>4
  <2> QED
    BY <1>1, <2>1 DEF InQueue, Given
<1>6. \A t \in Task : InQueue(t) \/ InHand(t) => t < total
  BY <1>3 DEF ThreadPlaceInv, Given
<1>7. status'[total] = "pending" /\ \A t \in Task : t # total => status'[t] = status[t]
  BY <1>1, <1>2
<1>8. OwnInv'
  BY <1>1, <1>2, <1>4, HandsStay DEF OwnInv
<1>9. ThreadPlaceInv'
  BY <1>1, <1>2, <1>5, HandsStay DEF ThreadPlaceInv, Distinct
<1>10. StatusInv'
  <2>1. \A t \in Task : InQueue(t)' => status'[t] \in {"pending", "retrying"}
    BY <1>5, <1>6, <1>7 DEF StatusInv, Task
  <2>2. ASSUME NEW w \in Thread, wpc[w] \in {"start", "run", "returned", "raised", "putback"}
        PROVE  status'[hand[w]] = status[hand[w]]
    <3>1. Active(w) /\ hand[w] \in Task
      BY <2>2 DEF OwnInv, Active, Holds
    <3>2. hand[w] < total
      BY <1>6, <3>1 DEF InHand
    <3> QED
      BY <1>7, <3>1, <3>2 DEF Task
  <2>3. \A w \in Thread :
          /\ wpc'[w] = "start" => status'[hand'[w]] \in {"pending", "retrying"}
          /\ wpc'[w] \in {"run", "returned", "raised"} => status'[hand'[w]] = "running"
          /\ wpc'[w] = "putback" => status'[hand'[w]] = "retrying"
    BY <1>2, <2>2, HandsStay DEF StatusInv
  <2>4. \A t \in Task : t >= total => status'[t] \in {"none", "pending"}
    BY <1>7 DEF StatusInv
  <2> QED
    BY <1>1, <1>7, <2>1, <2>3, <2>4 DEF StatusInv
<1>11. \A t \in Task : Ended(t)' <=> Ended(t)
  <2>1. ~Ended(total) /\ ~Ended(total)'
    BY <1>1, <1>2, <1>7 DEF StatusInv, Ended, Final
  <2>2. \A t \in Task : t # total => (Ended(t)' <=> Ended(t))
    BY <1>7 DEF Ended
  <2> QED
    BY <1>1, <2>1, <2>2 DEF Ended
<1>12. KeptInv'
  BY <1>1, <1>2, <1>5, <1>11, HandsStay DEF KeptInv
<1>13. CountInv'
  BY <1>1, <1>2, <1>11, HandsStay DEF CountInv, EndedTasks
<1> QED
  BY <1>8, <1>9, <1>10, <1>12, <1>13 DEF Rest

LEMMA PutTaskStep ==
    ASSUME Inv, NEW c \in Client, PutTask(c)
    PROVE  Rest'
<1> USE DEF Inv, ThreadTypeOK
<1>1. /\ cpc[c] = "put" /\ cpc'[c] = "count" /\ OnlyClient(c)
      /\ taskQueue' = Append(taskQueue, total) /\ unfinished' = unfinished + 1
      /\ UNCHANGED <<lock, status, retries, completed, total, dropped>>
  BY DEF PutTask, Leave, Put, OnlyClient, records
<1>2. UNCHANGED workers /\ total \in Task /\ lock = c
  BY <1>1, PoolAssumption DEF PutTask, Task, OwnInv
<1>3. \A d \in Client : d # c => cpc[d] \notin {"put", "count"}
  BY <1>2 DEF OwnInv
<1>4. \A t \in Task : /\ Given(t) => t < total
                      /\ Given(t)' <=> t < total \/ t = total
  BY <1>1, <1>3 DEF Given, OnlyClient
<1>5. \A t \in Task : InQueue(t) \/ InHand(t) => t < total
  BY <1>4 DEF ThreadPlaceInv
<1>6. ~InQueue(total) /\ ~InHand(total)
  BY <1>2, <1>5 DEF Task
<1>7. (\A t : InQueue(t)' <=> InQueue(t) \/ t = total) /\ Distinct'
  BY <1>1, <1>2, <1>6, AppendContents, AppendDistinct DEF ThreadPlaceInv
<1>8. OwnInv'
  BY <1>1, <1>2, HandsStay DEF OwnInv, OnlyClient
<1>9. ThreadPlaceInv'
  <2>1. \A t \in Task : ~(InQueue(t)' /\ InHand(t)')
    BY <1>2, <1>6, <1>7, HandsStay DEF ThreadPlaceInv
  <2>2. \A t \in Task : InQueue(t)' \/ InHand(t)' => Given(t)'
    BY <1>2, <1>4, <1>5, <1>7, HandsStay
  <2> QED
    BY <1>2, <1>7, <2>1, <2>2, HandsStay DEF ThreadPlaceInv
<1>10. StatusInv'
  <2>1. \A t \in Task : InQueue(t)' => status'[t] \in {"pending", "retrying"}
    BY <1>1, <1>7 DEF StatusInv
  <2>2. \A d \in Client : cpc'[d] # "put"
    BY <1>1, <1>3 DEF OnlyClient
  <2> QED
    BY <1>1, <1>2, <2>1, <2>2, HandsStay DEF StatusInv
<1>11. KeptInv'
  <2>1. ASSUME NEW t \in Task, Given(t)' PROVE Ended(t)' \/ t \in dropped' \/ InQueue(t)' \/ InHand(t)'
    <3>1. CASE t = total
      BY <1>7, <3>1
    <3>2. CASE t < total
      <4>1. Given(t)
        BY <3>2 DEF Given
      <4> QED
        BY <1>1, <1>2, <1>7, <4>1, HandsStay DEF KeptInv, Ended
    <3> QED
      BY <1>4, <2>1, <3>1, <3>2
  <2> QED
    BY <2>1 DEF KeptInv
<1>12. CountInv'
  <2>1. Len(taskQueue') = Len(taskQueue) + 1 /\ Len(taskQueue) \in Nat
    BY <1>1, <1>2, Appended
  <2>2. unfinished' = Len(taskQueue') + Cardinality(Holders')
    BY <1>1, <1>2, <2>1, HandsStay, Counters
  <2> QED
    BY <1>1, <2>2 DEF CountInv, EndedTasks, Ended
<1> QED
  BY <1>8, <1>9, <1>10, <1>11, <1>12 DEF Rest

LEMMA CountTaskStep ==
    ASSUME Inv, NEW c \in Client, CountTask(c)
    PROVE  Rest'
<1> USE DEF Inv, ThreadTypeOK
<1>1. /\ cpc[c] = "count" /\ cpc'[c] = "idle" /\ OnlyClient(c)
      /\ total' = total + 1 /\ lock' = None
      /\ UNCHANGED <<taskQueue, unfinished, status, retries, completed, dropped>>
  BY DEF CountTask, Leave, OnlyClient, queued, records
<1>2. UNCHANGED workers /\ total \in Task /\ lock = c
  BY <1>1, PoolAssumption DEF CountTask, Task, OwnInv
<1>3. \A d \in Client : d # c => cpc[d] \notin {"put", "count"}
  BY <1>2 DEF OwnInv
<1>4. \A d \in Client : cpc'[d] \notin {"put", "count"}
  BY <1>1, <1>3 DEF OnlyClient
<1>5. \A t \in Task : (InQueue(t)' <=> InQueue(t)) /\ (Given(t)' <=> Given(t))
  BY <1>1, <1>4 DEF InQueue, Given, Task
<1>6. OwnInv'
  BY <1>1, <1>2, <1>4, PoolAssumption, HandsStay DEF OwnInv
<1>7. ThreadPlaceInv'
  BY <1>1, <1>2, <1>5, HandsStay DEF ThreadPlaceInv, Distinct
<1>8. StatusInv'
  <2>1. \A t \in Task : t >= total' => t >= total
    BY <1>1 DEF Task
  <2> QED
    BY <1>1, <1>2, <1>4, <1>5, <2>1, HandsStay DEF StatusInv
<1>9. KeptInv'
  BY <1>1, <1>2, <1>5, HandsStay DEF KeptInv, Ended
<1>10. CountInv'
  BY <1>1, <1>2, HandsStay DEF CountInv, EndedTasks, Ended
<1> QED
  BY <1>6, <1>7, <1>8, <1>9, <1>10 DEF Rest

LEMMA PutTimesOutStep ==
    ASSUME Inv, NEW c \in Client, PutTimesOut(c)
    PROVE  Rest'
<1> USE DEF Inv, ThreadTypeOK
<1>1. /\ cpc[c] = "put" /\ cpc'[c] = "idle" /\ OnlyClient(c) /\ lock' = None
      /\ UNCHANGED <<taskQueue, unfinished, status, retries, completed, total, dropped>>
  BY DEF PutTimesOut, Leave, OnlyClient, queued, records
<1>2. UNCHANGED workers /\ lock = c
  BY <1>1 DEF PutTimesOut, OwnInv
<1>3. \A d \in Client : d # c => cpc[d] \notin {"put", "count"}
  BY <1>2 DEF OwnInv
<1>4. \A d \in Client : cpc[d] # "count" /\ cpc'[d] \notin {"put", "count"}
  BY <1>1, <1>3 DEF OnlyClient
<1>5. \A t : (InQueue(t)' <=> InQueue(t)) /\ (Given(t)' <=> Given(t))
  BY <1>1, <1>4 DEF InQueue, Given
<1>6. OwnInv'
  BY <1>1, <1>2, <1>4, PoolAssumption, HandsStay DEF OwnInv
<1>7. ThreadPlaceInv'
  BY <1>1, <1>2, <1>5, HandsStay DEF ThreadPlaceInv, Distinct
<1>8. StatusInv'
  BY <1>1, <1>2, <1>4, <1>5, HandsStay DEF StatusInv
<1>9. KeptInv'
  BY <1>1, <1>2, <1>5, HandsStay DEF KeptInv, Ended
<1>10. CountInv'
  BY <1>1, <1>2, HandsStay DEF CountInv, EndedTasks, Ended
<1> QED
  BY <1>6, <1>7, <1>8, <1>9, <1>10 DEF Rest

LEMMA DrainStep ==
    ASSUME Inv, NEW c \in Client, Drain(c)
    PROVE  Rest'
<1> USE DEF Inv, ThreadTypeOK
<1>1. /\ taskQueue # <<>> /\ taskQueue' = Tail(taskQueue) /\ unfinished' = unfinished - 1
      /\ dropped' = dropped \cup {Head(taskQueue)}
      /\ UNCHANGED <<lock, status, retries, completed, total, cpc>> /\ UNCHANGED workers
  BY DEF Drain, DrainDone, records, clients
<1>2. /\ Distinct'
      /\ \A t : InQueue(t)' => InQueue(t)
      /\ \A t : InQueue(t) /\ t # Head(taskQueue) => InQueue(t)'
  BY <1>1, TailContents, TailDistinct DEF ThreadPlaceInv
<1>3. \A t : Given(t)' <=> Given(t)
  BY <1>1 DEF Given
<1>4. OwnInv'
  BY <1>1, HandsStay DEF OwnInv
<1>5. ThreadPlaceInv'
  BY <1>1, <1>2, <1>3, HandsStay DEF ThreadPlaceInv
<1>6. StatusInv'
  BY <1>1, <1>2, HandsStay DEF StatusInv
<1>7. KeptInv'
  BY <1>1, <1>2, <1>3, HandsStay DEF KeptInv, Ended
<1>8. CountInv'
  <2>1. Len(taskQueue') = Len(taskQueue) - 1
    BY <1>1, HeadAndTail
  <2>2. UNCHANGED workers
    BY <1>1
  <2>3. Holders' = Holders
    BY <2>2, HandsStay
  <2>4. unfinished' = unfinished - 1
    BY <1>1
  <2>5. Cardinality(Holders)' = Cardinality(Holders)
    BY <2>3
  <2>6. unfinished' = Len(taskQueue)' + Cardinality(Holders)'
    <3> HIDE DEF Inv, ThreadTypeOK
    <3> QED
      BY <2>1, <2>4, <2>5, Counters
  <2> QED
    BY <1>1, <2>6 DEF CountInv, EndedTasks, Ended
<1> QED
  BY <1>4, <1>5, <1>6, <1>7, <1>8 DEF Rest

-----------------------------------------------------------------------------
(* The invariant holds in every state.                                      *)

LEMMA InvInit == ThreadInit => Inv
<1> SUFFICES ASSUME ThreadInit PROVE Inv
  OBVIOUS
<1> USE DEF ThreadInit
<1>1. ThreadTypeOK
  BY ThreadTypeInit
<1>2. Len(taskQueue) = 0 /\ 1..0 = {} /\ \A t : ~InQueue(t)
  BY DEF InQueue
<1>3. \A w \in Thread : ~Holds(w) /\ ~Active(w)
  BY DEF Holds, Active
<1>4. \A t : ~InHand(t)
  BY <1>3 DEF InHand
<1>5. OwnInv
  BY <1>3, PoolAssumption DEF OwnInv
<1>6. ThreadPlaceInv
  BY <1>2, <1>3, <1>4 DEF ThreadPlaceInv, Distinct
<1>7. StatusInv
  BY <1>2 DEF StatusInv
<1>8. \A t \in Task : ~Given(t)
  BY DEF Given, Task
<1>9. CountInv
  <2>1. Holders = {} /\ EndedTasks = {}
    BY <1>3 DEF Holders, EndedTasks, Ended, Final
  <2> QED
    BY <1>2, <2>1, FS_EmptySet DEF CountInv
<1> QED
  BY <1>1, <1>5, <1>6, <1>7, <1>8, <1>9 DEF Inv, KeptInv

LEMMA WorkerKeepsRest ==
    ASSUME Inv, NEW w \in Thread, WorkerStep(w)
    PROVE  Rest'
<1> USE DEF Inv, ThreadTypeOK
<1>1. CASE CheckRunning(w) \/ GetTimesOut(w) \/ FuncEnds(w)
  <2>1. UNCHANGED <<queued, lock, records, total, hand, cpc, dropped>>
    BY <1>1 DEF CheckRunning, GetTimesOut, FuncEnds, clients
  <2>2. \A v \in Thread : v # w => wpc'[v] = wpc[v]
    BY <1>1 DEF CheckRunning, GetTimesOut, FuncEnds, Goto
  <2>3. \/ {wpc[w], wpc'[w]} \subseteq {"new", "check", "get", "exit"}
        \/ wpc[w] = "run" /\ wpc'[w] \in {"returned", "raised", "unwinding"}
    BY <1>1 DEF CheckRunning, GetTimesOut, FuncEnds, Goto
  <2> QED
    BY <2>1, <2>2, <2>3, ThreadQuietStep DEF Quiet
<1>2. CASE Get(w)
  BY <1>2, GetStep
<1>3. wpc[w] \in {"start", "returned", "raised"} => hand[w] \in Task
  BY DEF OwnInv, Holds
<1>4. CASE StartTask(w)
  <2>1. completed' = completed /\ UNCHANGED <<queued, lock, total, hand, cpc, dropped>>
    BY <1>4 DEF StartTask, clients
  <2> QED
    BY <1>3, <1>4, <2>1, RecordStep DEF StartTask, Record, Goto
<1>5. CASE RecordSuccess(w)
  <2>1. completed' = completed + 1 /\ UNCHANGED <<queued, lock, total, hand, cpc, dropped>>
    BY <1>5 DEF RecordSuccess, clients
  <2> QED
    BY <1>3, <1>5, <2>1, RecordStep DEF RecordSuccess, Record, Goto, Final
<1>6. CASE RecordFailure(w)
  <2>1. UNCHANGED <<queued, lock, total, hand, cpc, dropped>> /\ wpc[w] = "raised" /\ LockFree
    BY <1>6 DEF RecordFailure, clients
  <2>2. CASE Record(hand[w], "retrying") /\ Goto(w, "putback") /\ UNCHANGED completed
    BY <1>3, <2>1, <2>2, RecordStep DEF Record, Goto
  <2>3. CASE Record(hand[w], "failed") /\ Goto(w, "done") /\ completed' = completed + 1
    BY <1>3, <2>1, <2>3, RecordStep DEF Record, Goto, Final
  <2> QED
    BY <1>6, <2>2, <2>3 DEF RecordFailure
<1>7. CASE PutBack(w)
  BY <1>7, PutBackStep
<1>8. CASE TaskDone(w) \/ ThreadDies(w)
  BY <1>8, TaskDoneStep, ThreadDiesStep
<1> QED
  BY <1>1, <1>2, <1>4, <1>5, <1>6, <1>7, <1>8 DEF WorkerStep

LEMMA ClientKeepsRest ==
    ASSUME Inv, NEW c \in Client, ClientStep(c)
    PROVE  Rest'
<1> USE DEF Inv, ThreadTypeOK
<1>1. CASE WaitCompletion(c) \/ Shutdown(c) \/ JoinReturns(c) \/ DrainEnds(c)
  <2>1. UNCHANGED <<queued, lock, records, total, hand, wpc, dropped>>
    BY <1>1 DEF WaitCompletion, Shutdown, JoinReturns, DrainEnds, workers
  <2>2. \A d \in Client : d # c => cpc'[d] = cpc[d]
    BY <1>1 DEF WaitCompletion, Shutdown, JoinReturns, DrainEnds, Call, Leave
  <2>3. {cpc[c], cpc'[c]} \subseteq {"idle", "join", "drain"}
    BY <1>1 DEF WaitCompletion, Shutdown, JoinReturns, DrainEnds, Call, Leave
  <2> QED
    BY <2>1, <2>2, <2>3, ThreadQuietStep DEF Quiet
<1>2. CASE Start(c)
  <2>1. UNCHANGED <<queued, lock, records, total, hand, dropped>>
    BY <1>2 DEF Start
  <2>2. \A w \in Thread : wpc'[w] = wpc[w] \/ (wpc[w] = "new" /\ wpc'[w] = "check")
    BY <1>2 DEF Start
  <2>3. \A d \in Client : cpc'[d] = cpc[d]
    BY <1>2 DEF Start, Call
  <2> QED
    BY <2>1, <2>2, <2>3, ThreadQuietStep DEF Quiet
<1> QED
  BY <1>1, <1>2, SubmitStep, PutTaskStep, CountTaskStep, PutTimesOutStep, DrainStep
  DEF ClientStep, ClientReturns

LEMMA InvStep == Inv /\ [ThreadNext]_tpVars => Inv'
<1> SUFFICES ASSUME Inv, [ThreadNext]_tpVars PROVE Inv'
  OBVIOUS
<1>1. CASE UNCHANGED tpVars
  <2>1. ThreadTypeOK'
    BY <1>1 DEF Inv, ThreadTypeOK, tpVars
  <2>2. Rest'
    BY <1>1, ThreadQuietStep DEF Quiet, tpVars, queued, records
  <2> QED
    BY <2>1, <2>2 DEF Inv, Rest
<1>2. CASE ThreadNext
  <2>1. ThreadTypeOK'
    BY <1>2, TypeWorker, TypeClient DEF ThreadNext
  <2>2. Rest'
    BY <1>2, WorkerKeepsRest, ClientKeepsRest DEF ThreadNext
  <2> QED
    BY <2>1, <2>2 DEF Inv, Rest
<1> QED
  BY <1>1, <1>2

LEMMA InvCorrect == ThreadSpec => []Inv
  BY InvInit, InvStep, PTL DEF ThreadSpec

(* Every variable of the thread pool keeps its type; in particular the       *)
(* count of unfinished tasks never becomes negative.                         *)
THEOREM ThreadTypeOKCorrect == ThreadSpec => []ThreadTypeOK
<1>1. Inv => ThreadTypeOK
  BY DEF Inv
<1> QED
  BY <1>1, InvCorrect, PTL

(* For any number of threads and clients: a task is at one place, once in    *)
(* the queue or with one worker, so no two attempts of it run at a time.     *)
THEOREM OnePlaceCorrect == ThreadSpec => []OnePlace
<1>1. Inv => OnePlace
  <2> SUFFICES ASSUME Inv, NEW t \in Task
               PROVE  Cardinality({i \in DOMAIN taskQueue : taskQueue[i] = t})
                      + Cardinality({w \in Thread : hand[w] = t /\ wpc[w] # "done"}) <= 1
    BY DEF OnePlace
  <2> DEFINE P == {i \in DOMAIN taskQueue : taskQueue[i] = t}
             H == {w \in Thread : hand[w] = t /\ wpc[w] # "done"}
  <2>1. DOMAIN taskQueue = 1..Len(taskQueue)
    BY DEF Inv, ThreadTypeOK
  <2>2. \A i, j \in P : i = j
    BY <2>1 DEF Inv, ThreadPlaceInv, Distinct
  <2>3. \A w \in H : Active(w) /\ hand[w] = t
    BY PoolAssumption DEF Active, Holds, Task
  <2>4. \A v, w \in H : v = w
    BY <2>3 DEF Inv, ThreadPlaceInv
  <2>5. P = {} \/ H = {}
    BY <2>1, <2>3 DEF Inv, ThreadPlaceInv, InQueue, InHand
  <2>6. Cardinality(P) \in 0..1 /\ (P = {} => Cardinality(P) = 0)
    BY <2>2, AtMostOne
  <2>7. Cardinality(H) \in 0..1 /\ (H = {} => Cardinality(H) = 0)
    BY <2>4, AtMostOne
  <2> HIDE DEF P, H
  <2>8. Cardinality(P) + Cardinality(H) <= 1
    BY <2>5, <2>6, <2>7
  <2> QED
    BY <2>8 DEF P, H
<1> QED
  BY <1>1, InvCorrect, PTL

(* For any number of threads and clients: get_progress never exceeds 100%,   *)
(* as no task ends before submit has counted it.                             *)
THEOREM CompletedWithinTotalCorrect == ThreadSpec => []CompletedWithinTotal
<1>1. Inv => CompletedWithinTotal
  <2> SUFFICES ASSUME Inv PROVE completed <= total
    BY DEF CompletedWithinTotal
  <2>1. total \in Nat
    BY PoolAssumption DEF Inv, ThreadTypeOK
  <2>2. EndedTasks \subseteq 0..(total - 1)
    BY <2>1 DEF Inv, StatusInv, EndedTasks, Ended, Final, Task
  <2>3. IsFiniteSet(0..(total - 1)) /\ Cardinality(0..(total - 1)) = total
    BY <2>1, FS_Interval
  <2>4. Cardinality(EndedTasks) <= total
    BY <2>2, <2>3, FS_Subset
  <2> QED
    BY <2>4, Counters
<1> QED
  BY <1>1, InvCorrect, PTL

(* For any number of threads and clients: when task_queue.join() lets        *)
(* wait_completion return, every accepted task has ended, was dropped by     *)
(* shutdown or ended the thread that executed it.                            *)
THEOREM WaitSeesAllCorrect == ThreadSpec => WaitSeesAll
<1> DEFINE Step == \A c \in Client : cpc[c] = "join" /\ cpc'[c] = "idle" =>
                       \A t \in Accepted : Ended(t) \/ t \in dropped \/ Abandoned(t)
<1>1. Inv /\ [ThreadNext]_tpVars => [Step]_tpVars
  <2> SUFFICES ASSUME Inv, ThreadNext, NEW c \in Client, cpc[c] = "join", cpc'[c] = "idle",
                      NEW t \in Accepted
               PROVE  Ended(t) \/ t \in dropped \/ Abandoned(t)
    OBVIOUS
  <2>1. unfinished = 0
    <3>1. ASSUME NEW w \in Thread, WorkerStep(w) PROVE UNCHANGED cpc
      BY <3>1 DEF WorkerStep, CheckRunning, Get, GetTimesOut, StartTask, FuncEnds, RecordSuccess,
         RecordFailure, PutBack, TaskDone, ThreadDies, clients
    <3>2. ASSUME NEW d \in Client, ClientStep(d) PROVE d = c /\ JoinReturns(c)
      <4>1. d = c
        BY <3>2 DEF ClientStep, ClientReturns, Submit, Start, WaitCompletion, Shutdown, PutTask,
           CountTask, PutTimesOut, JoinReturns, Drain, DrainEnds, Call, Leave, clients,
           Inv, ThreadTypeOK
      <4> QED
        BY <3>2, <4>1 DEF ClientStep, ClientReturns, Submit, Start, WaitCompletion, Shutdown,
           PutTask, CountTask, PutTimesOut, Drain, DrainEnds, Call, Leave
    <3> QED
      BY <3>1, <3>2 DEF ThreadNext, JoinReturns
  <2>2. Len(taskQueue) = 0 /\ Cardinality(Holders) = 0
    BY <2>1, Counters
  <2>3. ~InQueue(t) /\ Holders = {}
    BY <2>2, HoldersFinite, FS_EmptySet DEF InQueue
  <2>4. InHand(t) => Abandoned(t)
    BY <2>3 DEF InHand, Active, Holders, Abandoned
  <2> QED
    BY <2>3, <2>4 DEF Inv, KeptInv, Given, Accepted
<1> QED
  BY <1>1, InvCorrect, PTL DEF ThreadSpec, WaitSeesAll

-----------------------------------------------------------------------------
(* The refinement of RetryPool.                                             *)

LEMMA RefinementStep == Inv /\ [ThreadNext]_tpVars => [Promise!Next]_<<status, retries>>
<1> SUFFICES ASSUME Inv, [ThreadNext]_tpVars PROVE [Promise!Next]_<<status, retries>>
  OBVIOUS
<1> USE DEF Inv, ThreadTypeOK, Promise!Next, Promise!Becomes
<1>1. CASE UNCHANGED <<status, retries>>
  BY <1>1
<1>2. ASSUME NEW w \in Thread, WorkerStep(w) PROVE [Promise!Next]_<<status, retries>>
  <2>1. wpc[w] \in {"start", "returned", "raised"} => hand[w] \in Task
    BY DEF OwnInv, Holds
  <2>2. CASE StartTask(w)
    <3>1. Promise!Attempt(hand[w])
      BY <2>1, <2>2 DEF StartTask, Record, StatusInv, Promise!Attempt
    <3> QED
      BY <2>1, <2>2, <3>1 DEF StartTask
  <2>3. CASE RecordSuccess(w)
    <3>1. Promise!Succeed(hand[w])
      BY <2>1, <2>3 DEF RecordSuccess, Record, StatusInv, Promise!Succeed
    <3> QED
      BY <2>1, <2>3, <3>1 DEF RecordSuccess
  <2>4. CASE RecordFailure(w)
    <3>1. hand[w] \in Task /\ status[hand[w]] = "running"
      BY <2>1, <2>4 DEF RecordFailure, StatusInv
    <3>2. retries[hand[w]] \in Nat /\ MaxRetries[hand[w]] \in Nat
      BY <3>1, PoolAssumption
    <3>3. HasRetry(hand[w]) <=> retries[hand[w]] < MaxRetries[hand[w]]
      BY <3>2 DEF HasRetry
    <3>4. Promise!Fail(hand[w])
      BY <2>4, <3>1, <3>3 DEF RecordFailure, Record, Promise!Fail
    <3> QED
      BY <3>1, <3>4
  <2>5. CASE ~(StartTask(w) \/ RecordSuccess(w) \/ RecordFailure(w))
    BY <1>2, <2>5 DEF WorkerStep, CheckRunning, Get, GetTimesOut, FuncEnds, PutBack, TaskDone,
       ThreadDies, records
  <2> QED
    BY <2>2, <2>3, <2>4, <2>5
<1>3. ASSUME NEW c \in Client, ClientStep(c) PROVE [Promise!Next]_<<status, retries>>
  <2>1. CASE Submit(c)
    <3>1. /\ total \in Task /\ status' = [status EXCEPT ![total] = "pending"] /\ retries' = retries
      BY <2>1, PoolAssumption DEF Submit, Record, Task
    <3>2. status[total] \in {"none", "pending"}
      BY <3>1 DEF StatusInv, Task
    <3>3. CASE status[total] = "none"
      <4>1. Promise!Submit(total)
        BY <3>1, <3>3 DEF Promise!Submit
      <4> QED
        BY <3>1, <4>1
    <3>4. CASE status[total] = "pending"
      <4>1. status' = status
        BY <3>1, <3>4
      <4> QED
        BY <3>1, <4>1
    <3> QED
      BY <3>2, <3>3, <3>4
  <2>2. CASE ~Submit(c)
    BY <1>3, <2>2 DEF ClientStep, ClientReturns, Start, WaitCompletion, Shutdown, PutTask,
       CountTask, PutTimesOut, JoinReturns, Drain, DrainEnds, records
  <2> QED
    BY <2>1, <2>2
<1> QED
  BY <1>1, <1>2, <1>3 DEF ThreadNext, tpVars

(* For any number of threads and clients: statuses and retry counts change   *)
(* as RetryPool says, an attempt at a time and max_retries + 1 at most.      *)
THEOREM ImplementsRetryPoolCorrect == ThreadSpec => ImplementsRetryPool
<1>1. ThreadInit => Promise!Init
  BY DEF ThreadInit, Promise!Init
<1> QED
  BY <1>1, RefinementStep, InvCorrect, PTL DEF ThreadSpec, ImplementsRetryPool, Promise!Spec
=============================================================================
