------------------------- MODULE JobSchedulerProofs -------------------------
(***************************************************************************)
(* Proofs about JobScheduler for any hosts, jobs, modes and faults.        *)
(***************************************************************************)
EXTENDS JobSchedulerProperties, TLAPS

-----------------------------------------------------------------------------
(* The section a host is in, and what its list of due jobs says.            *)

SectionInv ==
    /\ clock \in 0..MaxTime
    /\ \A h \in Host : \A j \in due[h] : seen[h][j] \in 0..clock
    /\ \A h \in Host : pc[h] # "list" =>
          /\ current[h] \in Job /\ current[h] \notin due[h]
          /\ pc[h] \in {"refresh", "execute"} => seen[h][current[h]] \in 0..clock
          /\ pc[h] = "write" => planned[h] \in Nat

TypeInv == TypeOK /\ SectionInv

\* A lock nothing has touched is held by the one host that looks after it, with
\* one refresh thread at most.
KeeperAt(h, k) ==
    /\ Keeps(h, k) => lock[k] = Held(h)
    /\ Inside(h, k) => leaving[h][k] = 0 /\ (k \in refreshing[h] <=> pc[h] # "refresh")
    /\ leaving[h][k] <= 1 /\ (k \in refreshing[h] => leaving[h][k] = 0)

KeeperInv == \A h \in Host, k \in Key : k \notin abused => KeeperAt(h, k)

\* Only a job with a lock is about to have a refresh thread, and a failed job's
\* lock counts as touched.
SectionLockInv ==
    \A h \in Host :
        /\ pc[h] = "refresh" => Locks(current[h])
        /\ pc[h] \in {"failed", "cleanup"} => LockKey(h, current[h]) \in abused

LockInv == KeeperInv /\ SectionLockInv

-----------------------------------------------------------------------------
(* Types and sections.                                                      *)

LockDoc == [owner : Host \cup {None}, fresh : BOOLEAN]

LEMMA LockKeyType ==
    ASSUME NEW h \in Host, NEW j \in Job
    PROVE  LockKey(h, j) \in Key
  BY DEF LockKey, Key

LEMMA LockTypes ==
    /\ Free \in LockDoc /\ Free.fresh = FALSE /\ Free.owner = None
    /\ \A h \in Host : /\ Held(h) \in LockDoc /\ Held(h) # Free
                       /\ Held(h).fresh = TRUE /\ Held(h).owner = h
  BY DEF Free, Held, LockDoc

LEMMA FaultType ==
    ASSUME errs \in [Host -> Nat], NEW h \in Host, Fault(h)
    PROVE  errs' \in [Host -> Nat] /\ \A g \in Host : errs'[g] >= errs[g]
<1>1. errs' = [errs EXCEPT ![h] = @ + 1]
  BY DEF Fault
<1> QED
  BY <1>1

LEMMA DeleteType ==
    ASSUME errs \in [Host -> Nat], lock \in [Key -> LockDoc], NEW h \in Host, NEW k \in Key,
           DeleteLock(h, k)
    PROVE  lock' \in [Key -> LockDoc] /\ errs' \in [Host -> Nat]
<1>1. CASE lock' = [lock EXCEPT ![k] = Free] /\ UNCHANGED errs
  BY <1>1, LockTypes
<1>2. CASE Fault(h) /\ UNCHANGED lock
  BY <1>2, FaultType
<1> QED
  BY <1>1, <1>2 DEF DeleteLock

LEMMA SetFresh ==
    ASSUME lock \in [Key -> LockDoc], NEW k \in Key, NEW b \in BOOLEAN,
           lock' = [lock EXCEPT ![k].fresh = b]
    PROVE  /\ lock' \in [Key -> LockDoc]
           /\ lock'[k].owner = lock[k].owner /\ lock'[k].fresh = b
           /\ \A m \in Key : m # k => lock'[m] = lock[m]
<1>1. lock[k] \in LockDoc
  OBVIOUS
<1>2. lock' = [lock EXCEPT ![k] = [lock[k] EXCEPT !.fresh = b]]
  OBVIOUS
<1>3. [lock[k] EXCEPT !.fresh = b] = [owner |-> lock[k].owner, fresh |-> b]
  BY <1>1 DEF LockDoc
<1>4. [owner |-> lock[k].owner, fresh |-> b] \in LockDoc
  BY <1>1 DEF LockDoc
<1> HIDE DEF LockDoc
<1> QED
  BY <1>2, <1>3, <1>4

LEMMA CountUp ==
    ASSUME NEW S, NEW f \in [S -> Nat], NEW x \in S
    PROVE  [f EXCEPT ![x] = @ + 1] \in [S -> Nat]
  OBVIOUS

\* Writing a next execution time keeps the types of the job and of the history.
LEMMA SetNextType ==
    ASSUME TypeOK, NEW j \in Job, NEW t \in Nat, SetNext(j, t)
    PROVE  /\ next' \in [Job -> Nat \cup {None}]
           /\ setback' \in [Job -> [0..MaxTime -> Nat]]
<1>1. next' \in [Job -> Nat \cup {None}]
  BY DEF SetNext, TypeOK
<1>2. CASE setback' = setback
  BY <1>1, <1>2 DEF TypeOK
<1>3. CASE t <= MaxTime /\ setback' = [setback EXCEPT ![j][t] = @ + 1]
  <2>1. t \in 0..MaxTime /\ setback[j] \in [0..MaxTime -> Nat]
    BY <1>3, JobAssumption DEF TypeOK
  <2>2. [setback[j] EXCEPT ![t] = @ + 1] \in [0..MaxTime -> Nat]
    BY <2>1, CountUp
  <2>3. setback' = [setback EXCEPT ![j] = [setback[j] EXCEPT ![t] = @ + 1]]
    BY <1>3
  <2> QED
    BY <1>1, <2>2, <2>3 DEF TypeOK
<1> QED
  BY <1>2, <1>3 DEF SetNext, Executed

\* The history gets one more execution by h of due time d of job j.
Counts(h, j, d) == ran' = [ran EXCEPT ![h][j][d] = @ + 1]

LEMMA CountRan ==
    ASSUME TypeOK,
           NEW h \in Host, NEW j \in Job, NEW d \in 0..MaxTime,
           Counts(h, j, d)
    PROVE  /\ ran' \in [Host -> [Job -> [0..MaxTime -> Nat]]]
           /\ ran'[h][j][d] = ran[h][j][d] + 1
           /\ \A g \in Host, i \in Job, e \in 0..MaxTime :
                g # h \/ i # j \/ e # d => ran'[g][i][e] = ran[g][i][e]
<1> DEFINE row == [ran[h][j] EXCEPT ![d] = @ + 1]
           all == [ran[h] EXCEPT ![j] = row]
<1>1. /\ ran \in [Host -> [Job -> [0..MaxTime -> Nat]]]
      /\ ran[h] \in [Job -> [0..MaxTime -> Nat]] /\ ran[h][j] \in [0..MaxTime -> Nat]
  BY DEF TypeOK
<1>2. /\ row \in [0..MaxTime -> Nat] /\ row[d] = ran[h][j][d] + 1
      /\ \A e \in 0..MaxTime : e # d => row[e] = ran[h][j][e]
  BY <1>1
<1>3. ran' = [ran EXCEPT ![h] = all]
  BY DEF Counts
<1> HIDE DEF row
<1>4. all \in [Job -> [0..MaxTime -> Nat]] /\ all[j] = row /\ \A i \in Job : i # j => all[i] = ran[h][i]
  BY <1>1, <1>2
<1> HIDE DEF all
<1>5. ran' \in [Host -> [Job -> [0..MaxTime -> Nat]]] /\ ran'[h] = all
      /\ \A g \in Host : g # h => ran'[g] = ran[g]
  BY <1>1, <1>3, <1>4
<1>6. ASSUME NEW g \in Host, NEW i \in Job, NEW e \in 0..MaxTime, g # h \/ i # j \/ e # d
      PROVE  ran'[g][i][e] = ran[g][i][e]
  BY <1>2, <1>4, <1>5, <1>6
<1> QED
  BY <1>2, <1>4, <1>5, <1>6

LEMMA TypeInit == Init => TypeInv
<1> SUFFICES ASSUME Init PROVE TypeInv
  OBVIOUS
<1>1. lock \in [Key -> LockDoc]
  BY LockTypes DEF Init
<1>2. /\ ran \in [Host -> [Job -> [0..MaxTime -> Nat]]]
      /\ leaving \in [Host -> [Key -> Nat]]
      /\ seen \in [Host -> [Job -> Nat \cup {None}]]
      /\ setback \in [Job -> [0..MaxTime -> Nat]]
      /\ planned \in [Host -> Nat \cup {None}]
      /\ adding \in [Job -> Nat \cup {None}] /\ adds \in [Job -> Nat]
  BY DEF Init
<1>3. /\ clock \in Nat /\ next \in [Job -> Nat \cup {None}] /\ active \in [Host -> BOOLEAN]
      /\ due \in [Host -> SUBSET Job] /\ current \in [Host -> Job \cup {None}]
      /\ pc \in [Host -> {"list", "refresh", "execute", "update", "write", "stop", "failed", "cleanup"}]
      /\ refreshing \in [Host -> SUBSET Key] /\ errs \in [Host -> Nat] /\ abused \subseteq Key
  BY DEF Init
<1>4. SectionInv
  BY JobAssumption DEF Init, SectionInv
<1> QED
  BY <1>1, <1>2, <1>3, <1>4 DEF TypeInv, TypeOK, LockDoc

LEMMA TypeUsers ==
    ASSUME TypeOK, UserStep \/ Tick
    PROVE  TypeOK'
<1> USE DEF TypeOK, jobs, docs, loop, thread, log, LockDoc
<1>1. CASE Tick
  BY <1>1 DEF Tick
<1>2. ASSUME NEW j \in Job, AddScheduledJob(j) PROVE TypeOK'
  <2>1. adding[j] \in Nat /\ adding' \in [Job -> Nat \cup {None}]
    BY <1>2 DEF AddScheduledJob
  <2>2. next' \in [Job -> Nat \cup {None}] /\ setback' \in [Job -> [0..MaxTime -> Nat]]
    BY <1>2, <2>1, SetNextType DEF AddScheduledJob
  <2> QED
    BY <1>2, <2>1, <2>2 DEF AddScheduledJob
<1>7. ASSUME NEW j \in Job, PlanScheduledJob(j) PROVE TypeOK'
  <2>1. adding' \in [Job -> Nat \cup {None}] /\ adds' \in [Job -> Nat]
    BY <1>7 DEF PlanScheduledJob, NextExecutionTime
  <2> QED
    BY <1>7, <2>1 DEF PlanScheduledJob
<1>3. ASSUME NEW h \in Host, NEW j \in Job, RemoveScheduledJob(h, j) PROVE TypeOK'
  <2>1. lock' \in [Key -> LockDoc]
    BY <1>3, LockTypes DEF RemoveScheduledJob
  <2>2. abused' \subseteq Key /\ next' \in [Job -> Nat \cup {None}] /\ errs' \in [Host -> Nat]
    BY <1>3 DEF RemoveScheduledJob, Abuse, Fault, Key
  <2> QED
    BY <1>3, <2>1, <2>2 DEF RemoveScheduledJob
<1>4. ASSUME NEW h \in Host, StartScheduler(h) PROVE TypeOK'
  <2>1. lock' \in [Key -> LockDoc] /\ active' \in [Host -> BOOLEAN]
    BY <1>4, LockTypes DEF StartScheduler
  <2> QED
    BY <1>4, <2>1 DEF StartScheduler
<1>5. ASSUME NEW h \in Host, StopScheduler(h) PROVE TypeOK'
  <2>1. active' \in [Host -> BOOLEAN] /\ errs' \in [Host -> Nat]
    BY <1>5 DEF StopScheduler, Fault
  <2> QED
    BY <1>5, <2>1 DEF StopScheduler
<1>6. ASSUME NEW h \in Host, JoinTimesOut(h) PROVE TypeOK'
  <2>1. leaving' \in [Host -> [Key -> Nat]] /\ refreshing' \in [Host -> SUBSET Key] /\ abused' \subseteq Key
    BY <1>6 DEF JoinTimesOut, Abuse
  <2> QED
    BY <1>6, <2>1 DEF JoinTimesOut
<1> QED
  BY <1>1, <1>2, <1>3, <1>4, <1>5, <1>6, <1>7 DEF UserStep

LEMMA TypeList ==
    ASSUME TypeOK, NEW h \in Host, FindDueJobs(h) \/ NothingDue(h) \/ LeaveLoop(h)
    PROVE  TypeOK'
<1> USE DEF TypeOK, jobs, docs, thread, log
<1>1. CASE FindDueJobs(h)
  <2>1. due' \in [Host -> SUBSET Job] /\ seen' \in [Host -> [Job -> Nat \cup {None}]]
    BY <1>1 DEF FindDueJobs
  <2> QED
    BY <1>1, <2>1 DEF FindDueJobs
<1>2. CASE NothingDue(h)
  BY <1>2 DEF NothingDue, vars, jobs, docs, loop, thread, log
<1>3. CASE LeaveLoop(h)
  BY <1>3 DEF LeaveLoop
<1> QED
  BY <1>1, <1>2, <1>3

LEMMA TypeTry ==
    ASSUME TypeOK, NEW h \in Host, NEW j \in Job,
           SkipJob(h, j) \/ EnterUnrestricted(h, j) \/ AcquireJobLock(h, j) \/ AcquireFails(h, j)
    PROVE  TypeOK'
<1> USE DEF TypeOK, jobs, thread, LockDoc
<1>0. Try(h, j)
  BY DEF SkipJob, EnterUnrestricted, AcquireJobLock, AcquireFails
<1>1. /\ due' \in [Host -> SUBSET Job]
      /\ UNCHANGED <<clock, next, adding, adds, setback, active, seen, planned>>
      /\ UNCHANGED <<refreshing, leaving, ran>>
  BY <1>0 DEF Try
<1>2. LockKey(h, j) \in Key
  BY LockKeyType
<1>3. [lock EXCEPT ![LockKey(h, j)] = Held(h)] \in [Key -> LockDoc]
  BY <1>2, LockTypes
<1>4. CASE SkipJob(h, j)
  BY <1>1, <1>4 DEF SkipJob
<1>5. CASE EnterUnrestricted(h, j)
  BY <1>1, <1>5 DEF EnterUnrestricted, Goto
<1>6. CASE AcquireJobLock(h, j)
  BY <1>1, <1>3, <1>6 DEF AcquireJobLock, Goto
<1>7. CASE AcquireFails(h, j)
  <2>1. lock' \in [Key -> LockDoc]
    BY <1>3, <1>7 DEF AcquireFails
  <2>2. errs' \in [Host -> Nat]
    BY <1>7, FaultType DEF AcquireFails
  <2> QED
    BY <1>1, <1>7, <2>1, <2>2 DEF AcquireFails
<1> QED
  BY <1>4, <1>5, <1>6, <1>7

LEMMA TypeSection ==
    ASSUME TypeInv, NEW h \in Host,
           \/ StartLockRefresh(h) \/ ExecuteJobFunction(h)
           \/ PlanJobSchedule(h) \/ UpdateJobSchedule(h)
           \/ StopLockRefresh(h) \/ CleanupAfterFailure(h) \/ JobFails(h)
    PROVE  TypeOK'
<1> DEFINE k == LockKey(h, current[h])
<1>1. pc[h] # "list"
  BY DEF StartLockRefresh, ExecuteJobFunction, PlanJobSchedule, UpdateJobSchedule,
         StopLockRefresh, CleanupAfterFailure, JobFails
<1>2. current[h] \in Job
  BY <1>1 DEF TypeInv, SectionInv
<1>3. k \in Key
  BY <1>2, LockKeyType
<1> HIDE DEF k
<1> USE DEF TypeInv, TypeOK, jobs, docs, thread, log, LockDoc, Goto
<1>4. CASE StartLockRefresh(h)
  <2>1. refreshing' \in [Host -> SUBSET Key]
    BY <1>3, <1>4 DEF StartLockRefresh, k
  <2> QED
    BY <1>4, <2>1 DEF StartLockRefresh
<1>5. CASE ExecuteJobFunction(h)
  <2>1. seen[h][current[h]] \in 0..MaxTime
    BY <1>1, <1>5, JobAssumption DEF SectionInv, ExecuteJobFunction
  <2>2. ran' \in [Host -> [Job -> [0..MaxTime -> Nat]]]
    BY <1>2, <1>5, <2>1, CountRan DEF ExecuteJobFunction, Counts
  <2>3. seen' \in [Host -> [Job -> Nat \cup {None}]]
    BY <1>2, <1>5 DEF ExecuteJobFunction
  <2> QED
    BY <1>5, <2>2, <2>3 DEF ExecuteJobFunction
<1>10. CASE PlanJobSchedule(h)
  <2>1. planned' \in [Host -> Nat \cup {None}]
    BY <1>10 DEF PlanJobSchedule, NextExecutionTime
  <2> QED
    BY <1>10, <2>1 DEF PlanJobSchedule
<1>6. CASE UpdateJobSchedule(h)
  <2>1. planned[h] \in Nat
    BY <1>1, <1>6 DEF SectionInv, UpdateJobSchedule
  <2>2. next' \in [Job -> Nat \cup {None}] /\ setback' \in [Job -> [0..MaxTime -> Nat]]
    BY <1>2, <1>6, <2>1, SetNextType DEF UpdateJobSchedule
  <2>3. /\ planned' \in [Host -> Nat \cup {None}] /\ current' \in [Host -> Job \cup {None}]
        /\ pc' \in [Host -> {"list", "refresh", "execute", "update", "write", "stop",
                             "failed", "cleanup"}]
    BY <1>2, <1>6 DEF UpdateJobSchedule
  <2> QED
    BY <1>6, <2>2, <2>3 DEF UpdateJobSchedule
<1>7. CASE StopLockRefresh(h)
  <2>1. refreshing' \in [Host -> SUBSET Key] /\ leaving' \in [Host -> [Key -> Nat]]
    BY <1>3, <1>7 DEF StopLockRefresh, Leave, k
  <2>2. pc' \in [Host -> {"list", "refresh", "execute", "update", "write", "stop", "failed", "cleanup"}]
    BY <1>7 DEF StopLockRefresh
  <2>3. current' \in [Host -> Job \cup {None}]
    BY <1>2, <1>7 DEF StopLockRefresh
  <2> QED
    BY <1>7, <2>1, <2>2, <2>3 DEF StopLockRefresh
<1>8. CASE CleanupAfterFailure(h)
  <2>1. lock' \in [Key -> LockDoc] /\ errs' \in [Host -> Nat]
    BY <1>3, <1>8, DeleteType DEF CleanupAfterFailure, k
  <2>2. current' \in [Host -> Job \cup {None}]
    BY <1>8 DEF CleanupAfterFailure
  <2> QED
    BY <1>8, <2>1, <2>2 DEF CleanupAfterFailure
<1>9. CASE JobFails(h)
  <2>1. abused' \subseteq Key /\ errs' \in [Host -> Nat]
    BY <1>3, <1>9, FaultType DEF JobFails, Abuse, k
  <2>2. planned' \in [Host -> Nat \cup {None}]
    BY <1>9 DEF JobFails
  <2> QED
    BY <1>9, <2>1, <2>2 DEF JobFails
<1> QED
  BY <1>4, <1>5, <1>6, <1>7, <1>8, <1>9, <1>10

LEMMA TypeThreads ==
    ASSUME TypeOK, NEW h \in Host, NEW k \in Key, ThreadStep(h, k)
    PROVE  TypeOK'
<1> USE DEF TypeOK, jobs, docs, loop, thread, log, LockDoc
<1>1. CASE RefreshLock(h, k)
  <2>1. lock' \in [Key -> LockDoc]
    BY <1>1, SetFresh DEF RefreshLock
  <2> QED
    BY <1>1, <2>1 DEF RefreshLock
<1>2. CASE RefreshEnds(h, k)
  <2>1. refreshing' \in [Host -> SUBSET Key] /\ leaving' \in [Host -> [Key -> Nat]]
    BY <1>2 DEF RefreshEnds, Leave
  <2>2. errs' \in [Host -> Nat] /\ abused' \subseteq Key
    BY <1>2, FaultType DEF RefreshEnds, Abuse
  <2> QED
    BY <1>2, <2>1, <2>2 DEF RefreshEnds
<1>3. CASE RefreshExits(h, k)
  <2>1. leaving' \in [Host -> [Key -> Nat]]
    BY <1>3 DEF RefreshExits
  <2>2. lock' \in [Key -> LockDoc] /\ errs' \in [Host -> Nat]
    BY <1>3, DeleteType DEF RefreshExits
  <2> QED
    BY <1>3, <2>1, <2>2 DEF RefreshExits
<1> QED
  BY <1>1, <1>2, <1>3 DEF ThreadStep

LEMMA TypeEnvironment ==
    ASSUME TypeOK, \/ \E k \in Key : LockExpires(k) \/ TtlDeletes(k)
                   \/ \E h \in Host : Crash(h)
    PROVE  TypeOK'
<1> USE DEF TypeOK, jobs, docs, loop, thread, log, LockDoc
<1>1. ASSUME NEW k \in Key, LockExpires(k) PROVE TypeOK'
  <2>1. errs' \in [Host -> Nat] /\ abused' \subseteq Key
    BY <1>1, FaultType DEF LockExpires, Abuse
  <2>2. lock' \in [Key -> LockDoc]
    BY <1>1, SetFresh DEF LockExpires
  <2> QED
    BY <1>1, <2>1, <2>2 DEF LockExpires
<1>2. ASSUME NEW k \in Key, TtlDeletes(k) PROVE TypeOK'
  <2>1. lock' \in [Key -> LockDoc]
    BY <1>2, LockTypes DEF TtlDeletes
  <2> QED
    BY <1>2, <2>1 DEF TtlDeletes
<1>3. ASSUME NEW h \in Host, Crash(h) PROVE TypeOK'
  <2>1. active' \in [Host -> BOOLEAN] /\ due' \in [Host -> SUBSET Job]
    BY <1>3 DEF Crash
  <2>4. current' \in [Host -> Job \cup {None}] /\ errs' \in [Host -> Nat]
    BY <1>3, FaultType DEF Crash
  <2>3. planned' \in [Host -> Nat \cup {None}]
    BY <1>3 DEF Crash
  <2>2. /\ pc' \in [Host -> {"list", "refresh", "execute", "update", "write", "stop", "failed", "cleanup"}]
        /\ refreshing' \in [Host -> SUBSET Key] /\ leaving' \in [Host -> [Key -> Nat]]
    BY <1>3 DEF Crash, Goto
  <2> QED
    BY <1>3, <2>1, <2>2, <2>3, <2>4 DEF Crash
<1> QED
  BY <1>1, <1>2, <1>3

LEMMA TypeOKStep == TypeInv /\ [Next]_vars => TypeOK'
<1> SUFFICES ASSUME TypeInv, [Next]_vars PROVE TypeOK'
  OBVIOUS
<1> TypeOK
  BY DEF TypeInv
<1>1. CASE UNCHANGED vars
  BY <1>1 DEF TypeOK, vars, jobs, docs, loop, thread, log
<1>2. CASE Next
  BY <1>2, TypeUsers, TypeList, TypeTry, TypeSection, TypeThreads, TypeEnvironment
  DEF Next, LoopStep, HostFault
<1> QED
  BY <1>1, <1>2

\* A host starts with a job of its list, and the clock does not go back.
LEMMA SectionStep == TypeInv /\ [Next]_vars => SectionInv'
<1> SUFFICES ASSUME TypeInv, [Next]_vars PROVE SectionInv'
  OBVIOUS
<1> USE DEF TypeInv, TypeOK, SectionInv
<1>1. ASSUME UNCHANGED <<clock, loop>> PROVE SectionInv'
  BY <1>1 DEF loop
<1>2. CASE UNCHANGED vars
  BY <1>1, <1>2 DEF vars, docs, loop, thread, log
<1>3. ASSUME UserStep \/ \E k \in Key : LockExpires(k) \/ TtlDeletes(k)
      PROVE  SectionInv'
  BY <1>1, <1>3 DEF UserStep, PlanScheduledJob, AddScheduledJob, RemoveScheduledJob, StartScheduler, StopScheduler,
                    JoinTimesOut, LockExpires, TtlDeletes
<1>4. ASSUME NEW h \in Host, NEW k \in Key, ThreadStep(h, k) PROVE SectionInv'
  BY <1>1, <1>4 DEF ThreadStep, RefreshLock, RefreshEnds, RefreshExits
<1>5. CASE Tick
  <2>1. /\ clock' = clock + 1 /\ clock' <= MaxTime
        /\ UNCHANGED <<due, seen, pc, current, planned>>
    BY <1>5, JobAssumption DEF Tick, loop
  <2>2. clock' \in 0..MaxTime /\ \A i \in 0..clock : i \in 0..clock'
    BY <2>1, JobAssumption
  <2> QED
    BY <2>1, <2>2
<1>6. ASSUME NEW h \in Host, FindDueJobs(h) \/ NothingDue(h) \/ LeaveLoop(h) PROVE SectionInv'
  <2>1. CASE FindDueJobs(h)
    <3>1. /\ due'[h] = {j \in Job : IsDue(j)} /\ UNCHANGED <<clock, pc, current, planned>>
          /\ pc[h] = "list" /\ \A j \in due'[h] : seen'[h][j] = next[j]
          /\ \A g \in Host : g # h => due'[g] = due[g] /\ seen'[g] = seen[g]
      BY <2>1 DEF FindDueJobs
    <3>2. \A j \in due'[h] : next[j] \in 0..clock
      BY <3>1 DEF IsDue
    <3> QED
      BY <3>1, <3>2
  <2>2. CASE NothingDue(h)
    BY <1>1, <2>2 DEF NothingDue, vars
  <2>3. CASE LeaveLoop(h)
    BY <2>3 DEF LeaveLoop
  <2> QED
    BY <1>6, <2>1, <2>2, <2>3
<1>7. ASSUME NEW h \in Host, NEW j \in Job,
             SkipJob(h, j) \/ EnterUnrestricted(h, j) \/ AcquireJobLock(h, j) \/ AcquireFails(h, j)
      PROVE  SectionInv'
  <2>1. /\ j \in due[h] /\ due' = [due EXCEPT ![h] = @ \ {j}]
        /\ seen' = seen /\ clock' = clock /\ planned' = planned
    BY <1>7 DEF SkipJob, EnterUnrestricted, AcquireJobLock, AcquireFails, Try
  <2>2. \A g \in Host : due'[g] \subseteq due[g] /\ j \notin due'[h]
    BY <2>1
  <2>3. CASE SkipJob(h, j) \/ AcquireFails(h, j)
    <3>1. UNCHANGED <<pc, current>>
      BY <2>3 DEF SkipJob, AcquireFails
    <3> QED
      BY <2>1, <2>2, <3>1
  <2>4. CASE EnterUnrestricted(h, j) \/ AcquireJobLock(h, j)
    <3>1. /\ current' = [current EXCEPT ![h] = j] /\ pc'[h] \in {"refresh", "execute"}
          /\ \A g \in Host : g # h => pc'[g] = pc[g]
      BY <2>4 DEF EnterUnrestricted, AcquireJobLock, Goto
    <3> QED
      BY <2>1, <2>2, <3>1
  <2> QED
    BY <1>7, <2>3, <2>4
<1>8. ASSUME NEW h \in Host,
             \/ StartLockRefresh(h) \/ ExecuteJobFunction(h) \/ PlanJobSchedule(h)
             \/ UpdateJobSchedule(h) \/ JobFails(h)
      PROVE  SectionInv'
  <2>1. CASE StartLockRefresh(h)
    BY <2>1 DEF StartLockRefresh, Goto
  <2>2. CASE ExecuteJobFunction(h)
    BY <2>2 DEF ExecuteJobFunction, Goto
  <2>3. CASE PlanJobSchedule(h)
    <3>1. planned'[h] \in Nat
      BY <2>3 DEF PlanJobSchedule, NextExecutionTime
    <3> QED
      BY <2>3, <3>1 DEF PlanJobSchedule, Goto
  <2>4. CASE UpdateJobSchedule(h)
    <3>1. /\ UNCHANGED <<clock, due, seen>> /\ pc'[h] \in {"list", "stop"}
          /\ pc'[h] = "stop" => current'[h] = current[h] /\ pc[h] = "write"
          /\ \A g \in Host : g # h => /\ pc'[g] = pc[g] /\ current'[g] = current[g]
                                      /\ planned'[g] = planned[g]
      BY <2>4 DEF UpdateJobSchedule, Goto
    <3> QED
      BY <3>1
  <2>5. CASE JobFails(h)
    BY <2>5 DEF JobFails, Goto
  <2> QED
    BY <1>8, <2>1, <2>2, <2>3, <2>4, <2>5
<1>9. ASSUME NEW h \in Host, StopLockRefresh(h) \/ CleanupAfterFailure(h) \/ Crash(h)
      PROVE  SectionInv'
  <2>1. CASE StopLockRefresh(h)
    BY <2>1 DEF StopLockRefresh, Goto
  <2>2. CASE CleanupAfterFailure(h)
    BY <2>2 DEF CleanupAfterFailure, Goto
  <2>3. CASE Crash(h)
    BY <2>3 DEF Crash, Goto
  <2> QED
    BY <1>9, <2>1, <2>2, <2>3
<1> QED
  BY <1>2, <1>3, <1>4, <1>5, <1>6, <1>7, <1>8, <1>9 DEF Next, LoopStep, HostFault

LEMMA TypeInvCorrect == Spec => []TypeInv
<1>1. TypeInv /\ [Next]_vars => TypeInv'
  BY TypeOKStep, SectionStep DEF TypeInv
<1> QED
  BY <1>1, TypeInit, PTL DEF Spec

(* Every variable keeps its type.                                           *)
THEOREM TypeOKCorrect == Spec => []TypeOK
<1>1. TypeInv => TypeOK
  BY DEF TypeInv
<1> QED
  BY <1>1, TypeInvCorrect, PTL

-----------------------------------------------------------------------------
(* Who looks after a lock.                                                  *)

\* An expired or deleted lock that nothing touched has nobody looking after it.
LEMMA NotFresh ==
    ASSUME KeeperInv, NEW g \in Host, NEW k \in Key, k \notin abused, ~lock[k].fresh
    PROVE  ~Keeps(g, k)
  BY LockTypes DEF KeeperInv, KeeperAt

\* A step that leaves what host g does with lock k alone.
LEMMA KeeperFrame ==
    ASSUME NEW g \in Host, NEW k \in Key, KeeperAt(g, k),
           Keeps(g, k) => lock'[k] = lock[k],
           Inside(g, k)' => Inside(g, k) /\ (pc'[g] = "refresh" <=> pc[g] = "refresh"),
           k \in refreshing'[g] <=> k \in refreshing[g],
           leaving'[g][k] = leaving[g][k]
    PROVE  KeeperAt(g, k)'
<1>1. Keeps(g, k)' => Keeps(g, k)
  BY DEF Keeps
<1>2. (Keeps(g, k) => lock[k] = Held(g))' 
  BY <1>1 DEF KeeperAt, Held
<1> QED
  BY <1>2 DEF KeeperAt

LEMMA NobodyKeeps ==
    ASSUME NEW g \in Host, NEW k \in Key, leaving'[g][k] \in Nat, ~Keeps(g, k)'
    PROVE  KeeperAt(g, k)'
  BY DEF KeeperAt, Keeps

\* The section of a host depends on its own loop only.
LEMMA InsideFrame ==
    ASSUME NEW g \in Host, NEW k \in Key, pc'[g] = pc[g], current'[g] = current[g]
    PROVE  Inside(g, k)' <=> Inside(g, k)
  BY DEF Inside, Locks, LockKey

\* Leave stops at most one thread, and counts it as leaving.
LEMMA LeaveEffect ==
    ASSUME TypeOK, NEW h \in Host, NEW m \in Key, Leave(h, m)
    PROVE  /\ \A g \in Host : g # h => refreshing'[g] = refreshing[g] /\ leaving'[g] = leaving[g]
           /\ refreshing'[h] = refreshing[h] \ {m}
           /\ \A k \in Key : k # m \/ m \notin refreshing[h] => leaving'[h][k] = leaving[h][k]
           /\ m \in refreshing[h] => leaving'[h][m] = leaving[h][m] + 1
<1>1. refreshing' = [refreshing EXCEPT ![h] = @ \ {m}]
  BY DEF Leave
<1>2. CASE m \in refreshing[h]
  <2>1. leaving' = [leaving EXCEPT ![h] = [leaving[h] EXCEPT ![m] = @ + 1]]
    BY <1>2 DEF Leave
  <2> QED
    BY <1>1, <1>2, <2>1 DEF TypeOK
<1>3. CASE m \notin refreshing[h]
  BY <1>1, <1>3 DEF Leave, TypeOK
<1> QED
  BY <1>2, <1>3

\* A lock that nothing touched and that host h stops refreshing is left to one
\* leaving thread.
LEMMA KeeperLeaves ==
    ASSUME TypeOK, NEW h \in Host, NEW m \in Key, Leave(h, m), NEW k \in Key, KeeperAt(h, k),
           lock'[k] = lock[k],
           Inside(h, k)' => k # m /\ Inside(h, k) /\ (pc'[h] = "refresh" <=> pc[h] = "refresh")
    PROVE  KeeperAt(h, k)'
<1>1. CASE k # m \/ m \notin refreshing[h]
  BY <1>1, LeaveEffect, KeeperFrame
<1>2. CASE k = m /\ m \in refreshing[h]
  <2>1. k \notin refreshing'[h] /\ leaving'[h][k] = leaving[h][k] + 1 /\ leaving[h][k] = 0
    BY <1>2, LeaveEffect DEF KeeperAt
  <2>2. lock'[k] = Held(h)
    BY <1>2 DEF KeeperAt, Keeps
  <2>3. ~Inside(h, k)'
    BY <1>2
  <2>4. (Keeps(h, k) => lock[k] = Held(h))'
    BY <2>2 DEF Held
  <2> QED
    BY <2>1, <2>3, <2>4 DEF KeeperAt
<1> QED
  BY <1>1, <1>2

\* Between the execution and the release of the lock nothing happens to it.
LEMMA UpdateEffect ==
    ASSUME TypeInv, NEW h \in Host,
           ExecuteJobFunction(h) \/ PlanJobSchedule(h) \/ UpdateJobSchedule(h)
    PROVE  /\ UNCHANGED <<lock, refreshing, leaving, abused, errs>>
           /\ pc'[h] \notin {"refresh", "failed", "cleanup"} /\ pc[h] # "refresh"
           /\ \A g \in Host, k \in Key : Inside(g, k)' <=> Inside(g, k)
<1> USE DEF TypeInv, TypeOK
<1>1. CASE ExecuteJobFunction(h) \/ PlanJobSchedule(h)
  <2>1. /\ UNCHANGED <<lock, refreshing, leaving, abused, errs, current>>
        /\ pc[h] \in {"execute", "update"} /\ pc'[h] \in {"update", "write"}
        /\ \A g \in Host : g # h => pc'[g] = pc[g]
    BY <1>1 DEF ExecuteJobFunction, PlanJobSchedule, docs, thread, log, Goto
  <2> QED
    BY <2>1 DEF Inside, Locks, LockKey
<1>2. CASE UpdateJobSchedule(h)
  <2>1. /\ UNCHANGED <<lock, refreshing, leaving, abused, errs>> /\ pc[h] = "write"
        /\ \A g \in Host : g # h => pc'[g] = pc[g] /\ current'[g] = current[g]
    BY <1>2 DEF UpdateJobSchedule, thread, log, Goto
  <2>2. CASE Locks(current[h])
    <3>1. pc'[h] = "stop" /\ current'[h] = current[h]
      BY <1>2, <2>2 DEF UpdateJobSchedule, Goto
    <3> QED
      BY <2>1, <3>1 DEF Inside, Locks, LockKey
  <2>3. CASE ~Locks(current[h])
    <3>1. pc'[h] = "list"
      BY <1>2, <2>3 DEF UpdateJobSchedule, Goto
    <3> QED
      BY <2>1, <2>3, <3>1 DEF Inside, Locks, LockKey
  <2> QED
    BY <2>2, <2>3
<1> QED
  BY <1>1, <1>2

LEMMA DeleteEffect ==
    ASSUME TypeOK, NEW h \in Host, NEW m \in Key, DeleteLock(h, m)
    PROVE  \A k \in Key : k # m => lock'[k] = lock[k]
  BY DEF DeleteLock, TypeOK

LEMMA LockInit == Init => LockInv
<1> SUFFICES ASSUME Init PROVE LockInv
  OBVIOUS
<1>1. ASSUME NEW h \in Host, NEW k \in Key PROVE KeeperAt(h, k)
  BY <1>1 DEF Init, KeeperAt, Keeps, Inside
<1> QED
  BY <1>1 DEF Init, LockInv, KeeperInv, SectionLockInv

LEMMA KeeperUsers ==
    ASSUME TypeInv, LockInv, UserStep \/ Tick
    PROVE  KeeperInv'
<1> USE DEF TypeInv, TypeOK, LockInv, KeeperInv
<1> SUFFICES ASSUME NEW g \in Host, NEW k \in Key, k \notin abused' PROVE KeeperAt(g, k)'
  OBVIOUS
<1>1. UNCHANGED <<pc, current>> /\ abused \subseteq abused'
  BY DEF UserStep, Tick, PlanScheduledJob, AddScheduledJob, RemoveScheduledJob, StartScheduler, StopScheduler,
         JoinTimesOut, loop, log, Abuse
<1>2. KeeperAt(g, k) /\ (Inside(g, k)' <=> Inside(g, k))
  BY <1>1, InsideFrame
<1>3. CASE UNCHANGED <<lock, refreshing, leaving>>
  BY <1>1, <1>2, <1>3, KeeperFrame
<1>4. CASE Tick \/ \E j \in Job : PlanScheduledJob(j) \/ AddScheduledJob(j)
  BY <1>3, <1>4 DEF Tick, PlanScheduledJob, AddScheduledJob, jobs, docs, thread
<1>5. ASSUME NEW h \in Host, NEW j \in Job, RemoveScheduledJob(h, j) PROVE KeeperAt(g, k)'
  <2>1. lock'[k] = lock[k] /\ UNCHANGED <<refreshing, leaving>>
    BY <1>5 DEF RemoveScheduledJob, Abuse, thread
  <2> QED
    BY <1>1, <1>2, <2>1, KeeperFrame
<1>6. ASSUME NEW h \in Host, StartScheduler(h) PROVE KeeperAt(g, k)'
  <2>1. Keeps(g, k) => lock[k].fresh
    BY <1>1, NotFresh
  <2>2. Keeps(g, k) => lock'[k] = lock[k]
    BY <1>6, <2>1 DEF StartScheduler
  <2>3. UNCHANGED <<refreshing, leaving>>
    BY <1>6 DEF StartScheduler, thread
  <2> QED
    BY <1>1, <1>2, <2>2, <2>3, KeeperFrame
<1>7. ASSUME NEW h \in Host, StopScheduler(h) PROVE KeeperAt(g, k)'
  BY <1>3, <1>7 DEF StopScheduler, jobs, docs, thread
<1>8. ASSUME NEW h \in Host, JoinTimesOut(h) PROVE KeeperAt(g, k)'
  <2>1. k \notin refreshing[h] /\ lock' = lock
    BY <1>8 DEF JoinTimesOut, Abuse, jobs, docs
  <2>2. (k \in refreshing'[g] <=> k \in refreshing[g]) /\ leaving'[g][k] = leaving[g][k]
    BY <1>8, <2>1 DEF JoinTimesOut
  <2> QED
    BY <1>1, <1>2, <2>1, <2>2, KeeperFrame
<1> QED
  BY <1>4, <1>5, <1>6, <1>7, <1>8 DEF UserStep

LEMMA KeeperTry ==
    ASSUME TypeInv, LockInv, NEW h \in Host, NEW j \in Job,
           SkipJob(h, j) \/ EnterUnrestricted(h, j) \/ AcquireJobLock(h, j) \/ AcquireFails(h, j)
    PROVE  KeeperInv'
<1> USE DEF TypeInv, TypeOK, LockInv, KeeperInv
<1> SUFFICES ASSUME NEW g \in Host, NEW k \in Key, k \notin abused' PROVE KeeperAt(g, k)'
  OBVIOUS
<1> DEFINE m == LockKey(h, j)
<1>1. UNCHANGED <<refreshing, leaving, abused>> /\ pc[h] = "list"
  BY DEF SkipJob, EnterUnrestricted, AcquireJobLock, AcquireFails, Try, thread
<1>2. KeeperAt(g, k) /\ m \in Key /\ (~lock[k].fresh => ~Keeps(g, k))
  BY <1>1, LockKeyType, NotFresh
<1>3. ~Inside(h, k)
  BY <1>1 DEF Inside
<1>4. CASE SkipJob(h, j)
  <2>1. UNCHANGED <<lock, pc, current>>
    BY <1>4 DEF SkipJob
  <2> QED
    BY <1>1, <1>2, <2>1, InsideFrame, KeeperFrame
<1>5. CASE AcquireFails(h, j)
  <2>1. UNCHANGED <<pc, current>> /\ ~lock[m].fresh /\ \A l \in Key : l # m => lock'[l] = lock[l]
    BY <1>5, <1>2 DEF AcquireFails, Taken
  <2>2. Keeps(g, k) => lock'[k] = lock[k]
    BY <1>2, <2>1
  <2> QED
    BY <1>1, <1>2, <2>1, <2>2, InsideFrame, KeeperFrame
<1>6. CASE EnterUnrestricted(h, j)
  <2>1. UNCHANGED lock /\ \A f \in Host : f # h => pc'[f] = pc[f] /\ current'[f] = current[f]
    BY <1>6 DEF EnterUnrestricted, Goto
  <2>2. current'[h] = j /\ ~Locks(j)
    BY <1>6 DEF EnterUnrestricted
  <2>3. Inside(g, k)' => Inside(g, k) /\ g # h
    BY <2>1, <2>2, InsideFrame DEF Inside, Locks
  <2> QED
    BY <1>1, <1>2, <2>1, <2>3, KeeperFrame
<1>7. CASE AcquireJobLock(h, j)
  <2>1. /\ ~lock[m].fresh /\ lock' = [lock EXCEPT ![m] = Held(h)]
        /\ \A f \in Host : f # h => pc'[f] = pc[f] /\ current'[f] = current[f]
        /\ pc'[h] = "refresh" /\ current'[h] = j
    BY <1>7 DEF AcquireJobLock, Taken, Goto
  <2>2. Keeps(g, k) => lock'[k] = lock[k]
    BY <1>2, <2>1
  <2>3. CASE g # h
    BY <1>1, <1>2, <2>1, <2>2, <2>3, InsideFrame, KeeperFrame
  <2>4. CASE g = h /\ k # m
    <3>1. ~Inside(g, k)'
      BY <2>1, <2>4 DEF Inside, LockKey
    <3> QED
      BY <1>1, <1>2, <2>2, <3>1, KeeperFrame
  <2>5. CASE g = h /\ k = m
    <3>1. ~Keeps(h, k) /\ leaving[h][k] \in Nat
      BY <1>2, <2>1, <2>5
    <3>2. k \notin refreshing[h] /\ leaving[h][k] = 0
      BY <3>1 DEF Keeps
    <3>3. lock'[k] = Held(h)
      BY <2>1, <2>5
    <3>4. (Keeps(h, k) => lock[k] = Held(h))'
      BY <3>3 DEF Held
    <3>5. (leaving[h][k] = 0)' /\ (k \notin refreshing[h])' /\ (pc[h] = "refresh")'
      BY <1>1, <2>1, <3>2
    <3> QED
      BY <2>5, <3>4, <3>5 DEF KeeperAt
  <2> QED
    BY <2>3, <2>4, <2>5
<1> QED
  BY <1>4, <1>5, <1>6, <1>7

LEMMA KeeperSection ==
    ASSUME TypeInv, LockInv, NEW h \in Host,
           \/ StartLockRefresh(h) \/ ExecuteJobFunction(h)
           \/ PlanJobSchedule(h) \/ UpdateJobSchedule(h)
           \/ StopLockRefresh(h) \/ CleanupAfterFailure(h) \/ JobFails(h)
    PROVE  KeeperInv'
<1> USE DEF TypeInv, TypeOK, LockInv, KeeperInv
<1> DEFINE m == LockKey(h, current[h])
<1>1. pc[h] # "list" /\ abused \subseteq abused'
  BY DEF StartLockRefresh, ExecuteJobFunction, PlanJobSchedule, UpdateJobSchedule,
         StopLockRefresh, CleanupAfterFailure, JobFails, log, Abuse
<1>2. m \in Key
  BY <1>1, LockKeyType DEF SectionInv
<1> SUFFICES ASSUME NEW g \in Host, NEW k \in Key, k \notin abused' PROVE KeeperAt(g, k)'
  OBVIOUS
<1>3. KeeperAt(g, k)
  BY <1>1
<1>4. \A f \in Host : f # h => pc'[f] = pc[f] /\ current'[f] = current[f]
  BY DEF StartLockRefresh, ExecuteJobFunction, PlanJobSchedule, UpdateJobSchedule,
         StopLockRefresh, CleanupAfterFailure, JobFails, Goto
<1>5. CASE StartLockRefresh(h)
  <2>1. UNCHANGED <<lock, current, leaving>> /\ pc[h] = "refresh" /\ pc'[h] = "execute"
    BY <1>5 DEF StartLockRefresh, jobs, docs, Goto
  <2>2. refreshing' = [refreshing EXCEPT ![h] = @ \cup {m}]
    BY <1>5 DEF StartLockRefresh
  <2>3. CASE g # h
    BY <1>3, <1>4, <2>1, <2>2, <2>3, InsideFrame, KeeperFrame
  <2>4. CASE g = h /\ k # m
    <3>1. ~Inside(g, k)'
      BY <2>1, <2>4 DEF Inside, LockKey
    <3> QED
      BY <1>3, <2>1, <2>2, <2>4, <3>1, KeeperFrame
  <2>5. CASE g = h /\ k = m
    <3>1. Inside(h, k)
      BY <2>1, <2>5 DEF Inside, SectionLockInv
    <3>2. lock[k] = Held(h) /\ leaving[h][k] = 0
      BY <1>3, <2>5, <3>1 DEF KeeperAt, Keeps
    <3>3. k \in refreshing'[h]
      BY <2>2, <2>5
    <3>4. (Keeps(h, k) => lock[k] = Held(h))'
      BY <2>1, <3>2 DEF Held
    <3>5. (leaving[h][k] = 0)' /\ (k \in refreshing[h])' /\ (pc[h] # "refresh")'
      BY <2>1, <3>2, <3>3
    <3> QED
      BY <2>5, <3>4, <3>5 DEF KeeperAt
  <2> QED
    BY <2>3, <2>4, <2>5
<1>6. CASE ExecuteJobFunction(h) \/ PlanJobSchedule(h) \/ UpdateJobSchedule(h)
  <2>1. /\ UNCHANGED <<lock, refreshing, leaving>>
        /\ pc'[h] # "refresh" /\ pc[h] # "refresh" /\ (Inside(g, k)' <=> Inside(g, k))
    BY <1>6, UpdateEffect
  <2>2. Inside(g, k)' => Inside(g, k) /\ (pc'[g] = "refresh" <=> pc[g] = "refresh")
    BY <1>4, <2>1
  <2> QED
    BY <1>3, <2>1, <2>2, KeeperFrame
<1>7. CASE JobFails(h)
  <2>1. /\ UNCHANGED <<lock, current, refreshing, leaving>> /\ k # m
        /\ pc'[h] \in {"failed", "cleanup"}
    BY <1>7 DEF JobFails, jobs, docs, thread, Goto, Abuse
  <2>2. Inside(g, k)' => g # h /\ Inside(g, k)
    BY <1>4, <2>1 DEF Inside, LockKey, Locks
  <2> QED
    BY <1>3, <1>4, <2>1, <2>2, KeeperFrame
<1>8. CASE StopLockRefresh(h)
  <2>1. lock' = lock /\ Leave(h, m) /\ UNCHANGED abused
    BY <1>8 DEF StopLockRefresh, jobs, docs, log
  <2>2. CASE g # h
    <3>1. refreshing'[g] = refreshing[g] /\ leaving'[g] = leaving[g]
      BY <1>2, <2>1, <2>2, LeaveEffect
    <3> QED
      BY <1>3, <1>4, <2>1, <2>2, <3>1, InsideFrame, KeeperFrame
  <2>3. CASE g = h
    <3>1. CASE pc[h] = "stop"
      <4>1. ~Inside(h, k)'
        BY <1>8, <3>1 DEF StopLockRefresh, Goto, Inside
      <4> QED
        BY <1>2, <1>3, <2>1, <2>3, <4>1, KeeperLeaves
    <3>2. CASE pc[h] = "failed"
      <4>1. k # m /\ pc'[h] = "cleanup" /\ current' = current
        BY <1>8, <2>1, <3>2 DEF StopLockRefresh, Goto, SectionLockInv
      <4>2. Inside(h, k)' => Inside(h, k)
        BY <3>2, <4>1 DEF Inside, LockKey, Locks
      <4> QED
        BY <1>2, <1>3, <2>1, <2>3, <3>2, <4>1, <4>2, KeeperLeaves
    <3> QED
      BY <1>8, <3>1, <3>2 DEF StopLockRefresh
  <2> QED
    BY <2>2, <2>3
<1>9. CASE CleanupAfterFailure(h)
  <2>1. UNCHANGED <<refreshing, leaving, abused>> /\ pc'[h] = "list"
    BY <1>9 DEF CleanupAfterFailure, thread, Goto
  <2>2. k # m
    BY <1>9, <2>1 DEF CleanupAfterFailure, SectionLockInv
  <2>3. lock'[k] = lock[k]
    BY <1>2, <1>9, <2>2, DeleteEffect DEF CleanupAfterFailure
  <2>4. Inside(g, k)' => g # h /\ Inside(g, k)
    BY <1>4, <2>1 DEF Inside, LockKey, Locks
  <2> QED
    BY <1>3, <1>4, <2>1, <2>3, <2>4, KeeperFrame
<1> QED
  BY <1>5, <1>6, <1>7, <1>8, <1>9

LEMMA KeeperThreads ==
    ASSUME TypeInv, LockInv, NEW h \in Host, NEW m \in Key, ThreadStep(h, m)
    PROVE  KeeperInv'
<1> USE DEF TypeInv, TypeOK, LockInv, KeeperInv
<1>1. UNCHANGED <<pc, current>> /\ abused \subseteq abused'
  BY DEF ThreadStep, RefreshLock, RefreshEnds, RefreshExits, loop, log, Abuse
<1> SUFFICES ASSUME NEW g \in Host, NEW k \in Key, k \notin abused' PROVE KeeperAt(g, k)'
  OBVIOUS
<1>2. KeeperAt(g, k) /\ KeeperAt(h, k) /\ (Inside(g, k)' <=> Inside(g, k))
  BY <1>1, InsideFrame
<1>3. CASE RefreshLock(h, m)
  <2>1. UNCHANGED <<refreshing, leaving, abused>> /\ ~lock[m].fresh
    BY <1>3 DEF RefreshLock, thread, log
  <2>2. Keeps(g, k) => k # m
    BY <2>1, NotFresh
  <2>3. Keeps(g, k) => lock'[k] = lock[k]
    BY <1>3, <2>2, SetFresh DEF RefreshLock, LockDoc
  <2> QED
    BY <1>1, <1>2, <2>1, <2>3, KeeperFrame
<1>4. CASE RefreshEnds(h, m)
  <2>1. lock' = lock /\ Leave(h, m)
    BY <1>4 DEF RefreshEnds, jobs, docs
  <2>2. k # m
    <3>1. SUFFICES ASSUME k = m PROVE FALSE
      OBVIOUS
    <3>2. lock[k].owner = None
      BY <1>4, <3>1 DEF RefreshEnds, Abuse
    <3>3. lock[k] = Held(h)
      BY <1>2, <1>4, <3>1 DEF RefreshEnds, KeeperAt, Keeps
    <3> QED
      BY <3>2, <3>3, LockTypes, JobAssumption
  <2>3. (k \in refreshing'[g] <=> k \in refreshing[g]) /\ leaving'[g][k] = leaving[g][k]
    <3>1. CASE g = h
      BY <2>1, <2>2, <3>1, LeaveEffect
    <3>2. CASE g # h
      <4>1. refreshing'[g] = refreshing[g] /\ leaving'[g] = leaving[g]
        BY <2>1, <3>2, LeaveEffect
      <4> QED
        BY <4>1
    <3> QED
      BY <3>1, <3>2
  <2> QED
    BY <1>1, <1>2, <2>1, <2>3, KeeperFrame
<1>5. CASE RefreshExits(h, m)
  <2>1. /\ UNCHANGED <<refreshing, abused>> /\ DeleteLock(h, m) /\ leaving[h][m] > 0
        /\ leaving' = [leaving EXCEPT ![h][m] = @ - 1]
    BY <1>5 DEF RefreshExits
  <2>2. CASE k # m
    <3>1. lock'[k] = lock[k]
      BY <2>1, <2>2, DeleteEffect
    <3>2. leaving'[g][k] = leaving[g][k]
      BY <2>1, <2>2
    <3> QED
      BY <1>1, <1>2, <2>1, <3>1, <3>2, KeeperFrame
  <2>3. CASE k = m /\ g # h
    <3>1. lock[k] = Held(h)
      BY <1>2, <2>1, <2>3 DEF KeeperAt, Keeps
    <3>2. ~Keeps(g, k)
      BY <1>2, <2>3, <3>1, LockTypes DEF KeeperAt
    <3> QED
      BY <1>1, <1>2, <2>1, <2>3, <3>2, KeeperFrame
  <2>4. CASE k = m /\ g = h
    <3>1. leaving[h][k] = 1 /\ ~Inside(h, k) /\ k \notin refreshing[h]
      BY <1>2, <2>1, <2>4 DEF KeeperAt
    <3>2. leaving'[h][k] = 0
      BY <2>1, <2>4, <3>1
    <3>3. ~Keeps(g, k)' /\ leaving'[g][k] \in Nat
      BY <1>2, <2>1, <2>4, <3>1, <3>2 DEF Keeps
    <3> QED
      BY <3>3, NobodyKeeps
  <2> QED
    BY <2>2, <2>3, <2>4
<1> QED
  BY <1>3, <1>4, <1>5 DEF ThreadStep

LEMMA KeeperEnvironment ==
    ASSUME TypeInv, LockInv, \/ \E m \in Key : LockExpires(m) \/ TtlDeletes(m)
                             \/ \E h \in Host : Crash(h)
    PROVE  KeeperInv'
<1> USE DEF TypeInv, TypeOK, LockInv, KeeperInv
<1> SUFFICES ASSUME NEW g \in Host, NEW k \in Key, k \notin abused' PROVE KeeperAt(g, k)'
  OBVIOUS
<1>1. abused \subseteq abused'
  BY DEF LockExpires, TtlDeletes, Crash, log, Abuse
<1>2. KeeperAt(g, k)
  BY <1>1
<1>3. ASSUME NEW m \in Key, LockExpires(m) PROVE KeeperAt(g, k)'
  <2>1. UNCHANGED <<pc, current, refreshing, leaving>>
    BY <1>3 DEF LockExpires, loop, thread
  <2>2. Keeps(g, k) => k # m
    BY <1>3 DEF LockExpires, Abuse
  <2>3. Keeps(g, k) => lock'[k] = lock[k]
    BY <1>3, <2>2, SetFresh DEF LockExpires, LockDoc
  <2> QED
    BY <1>2, <2>1, <2>3, InsideFrame, KeeperFrame
<1>4. ASSUME NEW m \in Key, TtlDeletes(m) PROVE KeeperAt(g, k)'
  <2>1. UNCHANGED <<pc, current, refreshing, leaving, abused>> /\ ~lock[m].fresh
    BY <1>4 DEF TtlDeletes, loop, thread, log
  <2>2. Keeps(g, k) => k # m
    BY <2>1, NotFresh
  <2>3. Keeps(g, k) => lock'[k] = lock[k]
    BY <1>4, <2>2 DEF TtlDeletes
  <2> QED
    BY <1>2, <2>1, <2>3, InsideFrame, KeeperFrame
<1>5. ASSUME NEW h \in Host, Crash(h) PROVE KeeperAt(g, k)'
  <2>1. /\ UNCHANGED lock /\ pc'[h] = "list"
        /\ refreshing'[h] = {} /\ leaving'[h] = [l \in Key |-> 0]
        /\ \A f \in Host : f # h => /\ pc'[f] = pc[f] /\ current'[f] = current[f]
                                    /\ refreshing'[f] = refreshing[f] /\ leaving'[f] = leaving[f]
    BY <1>5 DEF Crash, Goto, jobs, docs
  <2>2. CASE g # h
    BY <1>2, <2>1, <2>2, InsideFrame, KeeperFrame
  <2>3. CASE g = h
    <3>1. ~Keeps(h, k)' /\ leaving'[h][k] \in Nat
      BY <2>1 DEF Keeps, Inside
    <3> QED
      BY <2>3, <3>1, NobodyKeeps
  <2> QED
    BY <2>2, <2>3
<1> QED
  BY <1>3, <1>4, <1>5

LEMMA KeeperStep == TypeInv /\ LockInv /\ [Next]_vars => KeeperInv'
<1> SUFFICES ASSUME TypeInv, LockInv, [Next]_vars PROVE KeeperInv'
  OBVIOUS
<1>1. ASSUME UNCHANGED <<lock, pc, current, refreshing, leaving, abused>> PROVE KeeperInv'
  <2>1. ASSUME NEW g \in Host, NEW k \in Key, k \notin abused' PROVE KeeperAt(g, k)'
    BY <1>1, <2>1, InsideFrame, KeeperFrame DEF LockInv, KeeperInv
  <2> QED
    BY <2>1 DEF KeeperInv
<1>2. CASE UNCHANGED vars
  BY <1>1, <1>2 DEF vars, docs, loop, thread, log
<1>3. ASSUME NEW h \in Host, FindDueJobs(h) \/ NothingDue(h) \/ LeaveLoop(h) PROVE KeeperInv'
  BY <1>1, <1>3 DEF FindDueJobs, NothingDue, LeaveLoop, vars, docs, loop, thread, log
<1>4. CASE Next
  BY <1>3, <1>4, KeeperUsers, KeeperTry, KeeperSection, KeeperThreads, KeeperEnvironment
  DEF Next, LoopStep, HostFault
<1> QED
  BY <1>2, <1>4

LEMMA SectionLockStep == TypeInv /\ LockInv /\ [Next]_vars => SectionLockInv'
<1> SUFFICES ASSUME TypeInv, LockInv, [Next]_vars, NEW g \in Host
             PROVE  /\ (pc[g] = "refresh" => Locks(current[g]))'
                    /\ (pc[g] \in {"failed", "cleanup"} => LockKey(g, current[g]) \in abused)'
  BY DEF SectionLockInv
<1> USE DEF TypeInv, TypeOK, LockInv, SectionLockInv, Locks, LockKey
<1>1. CASE pc'[g] = pc[g] /\ current'[g] = current[g] /\ abused \subseteq abused'
  BY <1>1
<1>2. CASE pc'[g] \notin {"refresh", "failed", "cleanup"}
  BY <1>2
<1>3. CASE UNCHANGED vars
  BY <1>1, <1>3 DEF vars, loop, log
<1>4. CASE UserStep \/ Tick
  BY <1>1, <1>4 DEF UserStep, Tick, PlanScheduledJob, AddScheduledJob, RemoveScheduledJob, StartScheduler,
                    StopScheduler, JoinTimesOut, loop, log, Abuse
<1>5. ASSUME NEW h \in Host, NEW k \in Key, ThreadStep(h, k)
      PROVE  pc'[g] = pc[g] /\ current'[g] = current[g] /\ abused \subseteq abused'
  BY <1>5 DEF ThreadStep, RefreshLock, RefreshEnds, RefreshExits, loop, log, Abuse
<1>6. ASSUME NEW k \in Key, LockExpires(k) \/ TtlDeletes(k)
      PROVE  pc'[g] = pc[g] /\ current'[g] = current[g] /\ abused \subseteq abused'
  BY <1>6 DEF LockExpires, TtlDeletes, loop, log, Abuse
<1>7. ASSUME NEW h \in Host, FindDueJobs(h) \/ NothingDue(h) \/ LeaveLoop(h)
      PROVE  pc'[g] = pc[g] /\ current'[g] = current[g] /\ abused \subseteq abused'
  BY <1>7 DEF FindDueJobs, NothingDue, LeaveLoop, vars, loop, log
<1>8. ASSUME NEW h \in Host, NEW j \in Job, SkipJob(h, j) \/ AcquireFails(h, j)
      PROVE  pc'[g] = pc[g] /\ current'[g] = current[g] /\ abused \subseteq abused'
  BY <1>8 DEF SkipJob, AcquireFails
<1>9. ASSUME NEW h \in Host, g # h,
             \/ \E j \in Job : EnterUnrestricted(h, j) \/ AcquireJobLock(h, j)
             \/ StartLockRefresh(h) \/ ExecuteJobFunction(h) \/ PlanJobSchedule(h)
             \/ UpdateJobSchedule(h)
             \/ StopLockRefresh(h) \/ CleanupAfterFailure(h) \/ JobFails(h) \/ Crash(h)
      PROVE  pc'[g] = pc[g] /\ current'[g] = current[g] /\ abused \subseteq abused'
  BY <1>9 DEF EnterUnrestricted, AcquireJobLock, StartLockRefresh, ExecuteJobFunction,
              PlanJobSchedule, UpdateJobSchedule, StopLockRefresh, CleanupAfterFailure, JobFails, Crash, Goto,
              log, Abuse
<1>10. CASE \/ \E j \in Job : EnterUnrestricted(g, j)
            \/ StartLockRefresh(g) \/ ExecuteJobFunction(g) \/ PlanJobSchedule(g)
            \/ UpdateJobSchedule(g) \/ CleanupAfterFailure(g) \/ Crash(g)
  BY <1>2, <1>10, UpdateEffect
  DEF EnterUnrestricted, StartLockRefresh, CleanupAfterFailure, Crash, Goto
<1>11. ASSUME NEW j \in Job, AcquireJobLock(g, j)
       PROVE  pc'[g] = "refresh" /\ current'[g] = j /\ Locks(j)
  BY <1>11 DEF AcquireJobLock, Goto
<1>12. ASSUME JobFails(g)
       PROVE  /\ pc'[g] \in {"failed", "cleanup"} /\ current' = current
              /\ LockKey(g, current[g]) \in abused'
  BY <1>12 DEF JobFails, Goto, Abuse
<1>13. CASE StopLockRefresh(g)
  <2>1. CASE pc[g] = "stop"
    BY <1>2, <1>13, <2>1 DEF StopLockRefresh, Goto
  <2>2. CASE pc[g] = "failed"
    BY <1>13, <2>2 DEF StopLockRefresh, Goto, log
  <2> QED
    BY <1>13, <2>1, <2>2 DEF StopLockRefresh
<1> QED
  BY <1>1, <1>3, <1>4, <1>5, <1>6, <1>7, <1>8, <1>9, <1>10, <1>11, <1>12, <1>13
  DEF Next, LoopStep, HostFault

LEMMA LockInvCorrect == Spec => [](TypeInv /\ LockInv)
<1>1. TypeInv /\ LockInv /\ [Next]_vars => LockInv'
  BY KeeperStep, SectionLockStep DEF LockInv
<1> QED
  BY <1>1, TypeInvCorrect, LockInit, PTL DEF Spec

(* For any hosts, jobs, modes and faults: two hosts are inside the section   *)
(* one lock protects only after a failure, a removal, or a failed or stalled *)
(* refresh touched it.                                                       *)
THEOREM LockIsExclusiveCorrect == Spec => []LockIsExclusive
<1>1. LockInv => LockIsExclusive
  <2> SUFFICES ASSUME LockInv, NEW k \in Key, NEW g \in Host, NEW h \in Host,
                      Inside(g, k), Inside(h, k), k \notin abused
               PROVE  g = h
    BY DEF LockIsExclusive
  <2>1. lock[k] = Held(g) /\ lock[k] = Held(h)
    BY DEF LockInv, KeeperInv, KeeperAt, Keeps
  <2> QED
    BY <2>1, LockTypes
<1> QED
  BY <1>1, LockInvCorrect, PTL

-----------------------------------------------------------------------------
(* A fresh lock is somebody's.                                              *)

HasKeeper(k) ==
    lock[k].fresh => Keeps(lock[k].owner, k) \/ errs[lock[k].owner] > 0 \/ k \in abused

OwnedAt(k) == /\ lock[k].fresh => lock[k].owner \in Host
              /\ HasKeeper(k)

LEMMA OwnedInit == Init => \A k \in Key : OwnedAt(k)
  BY LockTypes DEF Init, OwnedAt, HasKeeper

\* No step takes back a fault, or what was touched.
LEMMA FaultsGrow ==
    ASSUME TypeOK, [Next]_vars
    PROVE  abused \subseteq abused' /\ \A g \in Host : errs'[g] >= errs[g] /\ errs'[g] \in Nat
<1> USE DEF TypeOK
<1> DEFINE Grow == abused \subseteq abused' /\ \A g \in Host : errs'[g] >= errs[g] /\ errs'[g] \in Nat
<1>1. ASSUME UNCHANGED errs PROVE \A g \in Host : errs'[g] >= errs[g] /\ errs'[g] \in Nat
  BY <1>1
<1>2. CASE UNCHANGED vars
  BY <1>1, <1>2 DEF vars, log
<1>3. CASE UserStep \/ Tick
  BY <1>1, <1>3, FaultType DEF UserStep, Tick, PlanScheduledJob, AddScheduledJob, RemoveScheduledJob, StartScheduler,
     StopScheduler, JoinTimesOut, log, Abuse
<1>4. ASSUME NEW h \in Host, LoopStep(h) PROVE Grow
  <2>1. UNCHANGED abused
    BY <1>4 DEF LoopStep, FindDueJobs, NothingDue, LeaveLoop, SkipJob, EnterUnrestricted,
       AcquireJobLock, StartLockRefresh, ExecuteJobFunction, PlanJobSchedule, UpdateJobSchedule,
       StopLockRefresh, CleanupAfterFailure, log, vars
  <2>2. UNCHANGED errs \/ Fault(h)
    BY <1>4 DEF LoopStep, FindDueJobs, NothingDue, LeaveLoop, SkipJob, EnterUnrestricted,
       AcquireJobLock, StartLockRefresh, ExecuteJobFunction, PlanJobSchedule, UpdateJobSchedule,
       StopLockRefresh, CleanupAfterFailure, DeleteLock, log, vars
  <2> QED
    BY <1>1, <2>1, <2>2, FaultType
<1>5. ASSUME NEW h \in Host, HostFault(h) PROVE Grow
  BY <1>5, FaultType DEF HostFault, JobFails, Crash, AcquireFails, Abuse
<1>6. ASSUME NEW h \in Host, NEW k \in Key, ThreadStep(h, k) PROVE Grow
  <2>1. UNCHANGED errs \/ Fault(h)
    BY <1>6 DEF ThreadStep, RefreshLock, RefreshEnds, RefreshExits, DeleteLock, log
  <2>2. abused \subseteq abused'
    BY <1>6 DEF ThreadStep, RefreshLock, RefreshEnds, RefreshExits, log, Abuse
  <2> QED
    BY <1>1, <2>1, <2>2, FaultType
<1>7. ASSUME NEW k \in Key, LockExpires(k) \/ TtlDeletes(k) PROVE Grow
  <2>1. UNCHANGED errs \/ \E h \in Host : Fault(h)
    BY <1>7 DEF LockExpires, TtlDeletes, log
  <2>2. abused \subseteq abused'
    BY <1>7 DEF LockExpires, TtlDeletes, log, Abuse
  <2> QED
    BY <1>1, <2>1, <2>2, FaultType
<1> QED
  BY <1>2, <1>3, <1>4, <1>5, <1>6, <1>7 DEF Next

\* A lock that stays as it is keeps its keeper, unless it was touched or its
\* owner met a fault.
LEMMA OwnedFrame ==
    ASSUME TypeOK, NEW k \in Key, OwnedAt(k), abused \subseteq abused',
           \A g \in Host : errs'[g] >= errs[g] /\ errs'[g] \in Nat,
           lock'[k] = lock[k],
           \A g \in Host : lock[k] = Held(g) /\ Keeps(g, k) =>
               Keeps(g, k)' \/ errs'[g] > 0 \/ k \in abused'
    PROVE  OwnedAt(k)'
<1>1. (lock[k].fresh => lock[k].owner \in Host)'
  BY DEF OwnedAt
<1>2. ASSUME lock[k].fresh, NEW g, g = lock[k].owner
      PROVE  Keeps(g, k)' \/ errs'[g] > 0 \/ k \in abused'
  <2>1. g \in Host /\ lock[k] = Held(g)
    <3>1. lock[k] \in LockDoc
      BY DEF TypeOK, LockDoc
    <3> QED
      BY <1>2, <3>1 DEF OwnedAt, LockDoc, Held
  <2>2. errs[g] \in Nat /\ errs'[g] >= errs[g] /\ errs'[g] \in Nat
    BY <2>1 DEF TypeOK
  <2> QED
    BY <1>2, <2>1, <2>2 DEF OwnedAt, HasKeeper
<1>3. HasKeeper(k)'
  BY <1>2 DEF HasKeeper
<1> QED
  BY <1>1, <1>3 DEF OwnedAt

LEMMA NotFreshOwned ==
    ASSUME NEW k \in Key, ~lock'[k].fresh
    PROVE  OwnedAt(k)'
  BY DEF OwnedAt, HasKeeper

\* Faults and touched locks only grow, whatever the step: see FaultsGrow.
Grown == abused \subseteq abused' /\ \A g \in Host : errs'[g] >= errs[g] /\ errs'[g] \in Nat

LEMMA OwnedUsers ==
    ASSUME TypeOK, Grown, NEW k \in Key, OwnedAt(k), UserStep \/ Tick
    PROVE  OwnedAt(k)'
<1> USE DEF Grown, LockDoc
<1>1. UNCHANGED <<pc, current>>
  BY DEF UserStep, Tick, PlanScheduledJob, AddScheduledJob, RemoveScheduledJob, StartScheduler, StopScheduler,
         JoinTimesOut, loop
<1>2. ASSUME lock'[k] = lock[k], UNCHANGED <<refreshing, leaving>> PROVE OwnedAt(k)'
  <2>1. \A g \in Host : Keeps(g, k) => Keeps(g, k)'
    BY <1>1, <1>2, InsideFrame DEF Keeps
  <2> QED
    BY <1>2, <2>1, OwnedFrame
<1>3. ASSUME NEW h \in Host, NEW j \in Job, RemoveScheduledJob(h, j) PROVE OwnedAt(k)'
  <2>1. lock'[k] = Free \/ lock'[k] = lock[k]
    BY <1>3 DEF RemoveScheduledJob
  <2> QED
    BY <1>2, <1>3, <2>1, LockTypes, NotFreshOwned DEF RemoveScheduledJob, thread
<1>4. ASSUME NEW h \in Host, StartScheduler(h) PROVE OwnedAt(k)'
  <2>1. lock'[k] = Free \/ lock'[k] = lock[k]
    BY <1>4 DEF StartScheduler
  <2> QED
    BY <1>2, <1>4, <2>1, LockTypes, NotFreshOwned DEF StartScheduler, thread
<1>5. ASSUME NEW h \in Host, JoinTimesOut(h) PROVE OwnedAt(k)'
  <2>1. UNCHANGED lock /\ abused' = abused \cup refreshing[h]
    BY <1>5 DEF JoinTimesOut, Abuse, jobs, docs
  <2>2. CASE k \in refreshing[h]
    <3>1. k \in abused'
      BY <2>1, <2>2
    <3> QED
      BY <2>1, <3>1, OwnedFrame
  <2>3. CASE k \notin refreshing[h]
    <3>1. \A g \in Host : /\ k \in refreshing[g] => k \in refreshing'[g]
                          /\ leaving'[g][k] = leaving[g][k]
      BY <1>5, <2>3 DEF JoinTimesOut, TypeOK
    <3>2. \A g \in Host : Keeps(g, k) => Keeps(g, k)'
      BY <1>1, <3>1, InsideFrame DEF Keeps
    <3> QED
      BY <2>1, <3>2, OwnedFrame
  <2> QED
    BY <2>2, <2>3
<1> QED
  BY <1>2, <1>3, <1>4, <1>5
  DEF UserStep, Tick, PlanScheduledJob, AddScheduledJob, StopScheduler, jobs, docs, thread

LEMMA OwnedTry ==
    ASSUME TypeOK, Grown, NEW k \in Key, OwnedAt(k), NEW h \in Host, NEW j \in Job,
           SkipJob(h, j) \/ EnterUnrestricted(h, j) \/ AcquireJobLock(h, j) \/ AcquireFails(h, j)
    PROVE  OwnedAt(k)'
<1> USE DEF Grown
<1> DEFINE m == LockKey(h, j)
<1>1. UNCHANGED <<refreshing, leaving>> /\ pc[h] = "list" /\ m \in Key
  BY LockKeyType DEF SkipJob, EnterUnrestricted, AcquireJobLock, AcquireFails, Try, thread
<1>2. \A f \in Host : f # h => pc'[f] = pc[f] /\ current'[f] = current[f]
  BY DEF SkipJob, EnterUnrestricted, AcquireJobLock, AcquireFails, Goto, TypeOK
<1>3. ASSUME NEW g \in Host, Keeps(g, k) PROVE Keeps(g, k)'
  <2>1. CASE g # h
    BY <1>1, <1>2, <1>3, <2>1, InsideFrame DEF Keeps
  <2>2. CASE g = h
    <3>1. ~Inside(g, k)
      BY <1>1, <2>2 DEF Inside
    <3> QED
      BY <1>1, <1>3, <3>1 DEF Keeps
  <2> QED
    BY <2>1, <2>2
<1>4. CASE lock'[k] = lock[k]
  BY <1>3, <1>4, OwnedFrame
<1>5. CASE AcquireJobLock(h, j) /\ k = m
  <2>1. lock'[k] = Held(h)
    BY <1>1, <1>5 DEF AcquireJobLock, TypeOK
  <2>2. lock'[k].owner = h /\ Inside(h, k)'
    <3>1. pc'[h] = "refresh" /\ current'[h] = j /\ Locks(j)
      BY <1>5 DEF AcquireJobLock, Goto, TypeOK
    <3> QED
      BY <1>5, <2>1, <3>1, LockTypes DEF Inside, LockKey, Locks
  <2> QED
    BY <2>2 DEF OwnedAt, HasKeeper, Keeps
<1>6. CASE AcquireFails(h, j) /\ k = m /\ lock'[k] # lock[k]
  <2>1. lock'[k] = Held(h) /\ errs'[h] = errs[h] + 1
    BY <1>1, <1>6 DEF AcquireFails, Fault, TypeOK
  <2>2. lock'[k].owner = h /\ errs'[h] > 0
    BY <2>1, LockTypes DEF TypeOK
  <2> QED
    BY <2>2 DEF OwnedAt, HasKeeper
<1>7. SkipJob(h, j) \/ EnterUnrestricted(h, j) \/ k # m => lock'[k] = lock[k]
  BY <1>1 DEF SkipJob, EnterUnrestricted, AcquireJobLock, AcquireFails, TypeOK
<1> QED
  BY <1>4, <1>5, <1>6, <1>7

LEMMA OwnedSection ==
    ASSUME TypeInv, LockInv, Grown, NEW k \in Key, OwnedAt(k), NEW h \in Host,
           \/ StartLockRefresh(h) \/ ExecuteJobFunction(h)
           \/ PlanJobSchedule(h) \/ UpdateJobSchedule(h)
           \/ StopLockRefresh(h) \/ CleanupAfterFailure(h) \/ JobFails(h)
    PROVE  OwnedAt(k)'
<1> USE DEF TypeInv, TypeOK, LockInv, KeeperInv, Grown
<1> DEFINE m == LockKey(h, current[h])
<1>1. pc[h] # "list"
  BY DEF StartLockRefresh, ExecuteJobFunction, PlanJobSchedule, UpdateJobSchedule,
         StopLockRefresh, CleanupAfterFailure, JobFails
<1>2. m \in Key
  BY <1>1, LockKeyType DEF SectionInv
<1>3. \A f \in Host : f # h => pc'[f] = pc[f] /\ current'[f] = current[f]
  BY DEF StartLockRefresh, ExecuteJobFunction, PlanJobSchedule, UpdateJobSchedule,
         StopLockRefresh, CleanupAfterFailure, JobFails, Goto
<1>4. ASSUME pc'[h] # "list", UNCHANGED current, NEW g \in Host, Inside(g, k)
      PROVE  Inside(g, k)'
  <2>1. CASE g # h
    BY <1>3, <1>4, <2>1, InsideFrame
  <2>2. CASE g = h
    <3> QED
      BY <1>4, <2>2 DEF Inside, LockKey, Locks
  <2> QED
    BY <2>1, <2>2
<1>5. CASE StartLockRefresh(h)
  <2>1. /\ UNCHANGED <<lock, current, leaving>> /\ pc'[h] # "list"
        /\ \A g \in Host : k \in refreshing[g] => k \in refreshing'[g]
    BY <1>5 DEF StartLockRefresh, jobs, docs, Goto
  <2> QED
    BY <1>4, <2>1, OwnedFrame DEF Keeps
<1>6. CASE JobFails(h)
  <2>1. UNCHANGED <<lock, current, refreshing, leaving>> /\ pc'[h] # "list"
    BY <1>6 DEF JobFails, docs, thread, Goto
  <2> QED
    BY <1>4, <2>1, OwnedFrame DEF Keeps
<1>9. CASE ExecuteJobFunction(h) \/ PlanJobSchedule(h) \/ UpdateJobSchedule(h)
  <2>1. UNCHANGED <<lock, refreshing, leaving>> /\ \A g \in Host : Inside(g, k)' <=> Inside(g, k)
    BY <1>9, UpdateEffect
  <2> QED
    BY <2>1, OwnedFrame DEF Keeps
<1>7. CASE StopLockRefresh(h)
  <2>1. UNCHANGED <<lock, abused>> /\ Leave(h, m)
    BY <1>7 DEF StopLockRefresh, jobs, docs, log
  <2>2. ASSUME NEW g \in Host, Keeps(g, k), k \notin abused PROVE Keeps(g, k)'
    <3>1. CASE g # h
      <4>1. refreshing'[g] = refreshing[g] /\ leaving'[g] = leaving[g]
        BY <1>2, <2>1, <3>1, LeaveEffect
      <4> QED
        BY <1>3, <2>2, <3>1, <4>1, InsideFrame DEF Keeps
    <3>2. CASE g = h /\ (k \in refreshing[h] \/ leaving[h][k] > 0)
      <4>1. refreshing'[h] = refreshing[h] \ {m}
        BY <1>2, <2>1, LeaveEffect
      <4>2. CASE k \in refreshing[h] /\ k # m
        BY <3>2, <4>1, <4>2 DEF Keeps
      <4>3. CASE k \in refreshing[h] /\ k = m
        <5>1. leaving'[h][k] = leaving[h][k] + 1
          BY <1>2, <2>1, <4>3, LeaveEffect
        <5> QED
          BY <3>2, <5>1 DEF Keeps
      <4>4. CASE k \notin refreshing[h]
        <5>1. leaving'[h][k] = leaving[h][k]
          BY <1>2, <2>1, <4>4, LeaveEffect
        <5> QED
          BY <3>2, <4>4, <5>1 DEF Keeps
      <4> QED
        BY <4>2, <4>3, <4>4
    <3>3. CASE g = h /\ k \notin refreshing[h] /\ ~(leaving[h][k] > 0)
      <4>1. Inside(h, k) /\ KeeperAt(h, k)
        BY <2>2, <3>3 DEF Keeps
      <4>2. pc[h] = "refresh"
        BY <3>3, <4>1 DEF KeeperAt
      <4> QED
        BY <1>7, <4>2 DEF StopLockRefresh
    <3> QED
      BY <3>1, <3>2, <3>3
  <2> QED
    BY <2>1, <2>2, OwnedFrame
<1>8. CASE CleanupAfterFailure(h)
  <2>1. UNCHANGED <<refreshing, leaving, abused>> /\ m \in abused
    BY <1>8 DEF CleanupAfterFailure, thread, SectionLockInv
  <2>2. CASE k = m
    <3>1. k \in abused'
      BY <2>1, <2>2
    <3>2. lock'[k] = lock[k] \/ lock'[k] = Free
      BY <1>2, <1>8, <2>2 DEF CleanupAfterFailure, DeleteLock
    <3> QED
      BY <3>1, <3>2, LockTypes, OwnedFrame, NotFreshOwned
  <2>3. CASE k # m
    <3>1. lock'[k] = lock[k]
      BY <1>2, <1>8, <2>3, DeleteEffect DEF CleanupAfterFailure
    <3>2. ~Inside(h, k)
      BY <2>3 DEF Inside
    <3>3. \A g \in Host : Keeps(g, k) => Keeps(g, k)'
      BY <1>3, <2>1, <3>2, InsideFrame DEF Keeps
    <3> QED
      BY <3>1, <3>3, OwnedFrame
  <2> QED
    BY <2>2, <2>3
<1> QED
  BY <1>5, <1>6, <1>7, <1>8, <1>9

LEMMA OwnedThreads ==
    ASSUME TypeInv, LockInv, Grown, NEW k \in Key, OwnedAt(k), NEW h \in Host, NEW m \in Key,
           ThreadStep(h, m)
    PROVE  OwnedAt(k)'
<1> USE DEF TypeInv, TypeOK, LockInv, KeeperInv, Grown
<1>1. UNCHANGED <<pc, current>>
  BY DEF ThreadStep, RefreshLock, RefreshEnds, RefreshExits, loop
<1>2. ASSUME UNCHANGED <<refreshing, leaving>> PROVE \A g \in Host : Keeps(g, k) => Keeps(g, k)'
  BY <1>1, <1>2, InsideFrame DEF Keeps
<1>3. CASE RefreshLock(h, m)
  <2>1. UNCHANGED <<refreshing, leaving, abused>> /\ ~lock[m].fresh
    BY <1>3 DEF RefreshLock, thread, log
  <2>2. CASE k # m
    <3>1. lock'[k] = lock[k]
      BY <1>3, <2>2, SetFresh DEF RefreshLock, LockDoc
    <3> QED
      BY <1>2, <2>1, <3>1, OwnedFrame
  <2>3. CASE k = m
    <3>1. k \in abused'
      BY <1>3, <2>1, <2>3, NotFresh DEF RefreshLock, Keeps
    <3>2. lock'[k].owner \in Host
      BY <1>3, <2>3, SetFresh DEF RefreshLock, LockDoc
    <3> QED
      BY <3>1, <3>2 DEF OwnedAt, HasKeeper
  <2> QED
    BY <2>2, <2>3
<1>4. CASE RefreshEnds(h, m)
  <2>1. UNCHANGED lock /\ Leave(h, m)
    BY <1>4 DEF RefreshEnds, jobs, docs
  <2>2. ASSUME NEW g \in Host, lock[k] = Held(g), Keeps(g, k), k \notin abused'
        PROVE  Keeps(g, k)'
    <3>1. k # m
      BY <1>4, <2>2, LockTypes, JobAssumption DEF RefreshEnds, Abuse
    <3>2. (k \in refreshing'[g] <=> k \in refreshing[g]) /\ leaving'[g][k] = leaving[g][k]
      <4>1. CASE g = h
        BY <2>1, <3>1, <4>1, LeaveEffect
      <4>2. CASE g # h
        <5>1. refreshing'[g] = refreshing[g] /\ leaving'[g] = leaving[g]
          BY <2>1, <4>2, LeaveEffect
        <5> QED
          BY <5>1
      <4> QED
        BY <4>1, <4>2
    <3> QED
      BY <1>1, <2>2, <3>2, InsideFrame DEF Keeps
  <2> QED
    BY <2>1, <2>2, OwnedFrame
<1>5. CASE RefreshExits(h, m)
  <2>1. /\ UNCHANGED <<refreshing, abused>> /\ DeleteLock(h, m) /\ leaving[h][m] > 0
        /\ leaving' = [leaving EXCEPT ![h][m] = @ - 1]
    BY <1>5 DEF RefreshExits
  <2>2. CASE k # m
    <3>1. lock'[k] = lock[k]
      BY <2>1, <2>2, DeleteEffect
    <3>2. \A g \in Host : leaving'[g][k] = leaving[g][k]
      BY <2>1, <2>2
    <3>3. \A g \in Host : Keeps(g, k) => Keeps(g, k)'
      BY <1>1, <2>1, <3>2, InsideFrame DEF Keeps
    <3> QED
      BY <3>1, <3>3, OwnedFrame
  <2>3. CASE k = m /\ lock'[k] = Free
    BY <2>3, LockTypes, NotFreshOwned
  <2>4. CASE k = m /\ Fault(h) /\ UNCHANGED lock
    <3>1. errs'[h] > 0
      <4>1. errs' = [errs EXCEPT ![h] = @ + 1] /\ errs[h] \in Nat
        BY <2>4 DEF Fault
      <4> QED
        BY <4>1
    <3>2. ASSUME NEW g \in Host, lock[k] = Held(g), k \notin abused' PROVE errs'[g] > 0
      <4>1. lock[k] = Held(h)
        BY <2>1, <2>4, <3>2 DEF KeeperAt, Keeps
      <4>2. Held(g).owner = g /\ Held(h).owner = h
        BY LockTypes
      <4>3. g = h
        BY <3>2, <4>1, <4>2
      <4> QED
        BY <3>1, <4>3
    <3> QED
      BY <2>4, <3>2, OwnedFrame
  <2> QED
    BY <2>1, <2>2, <2>3, <2>4 DEF DeleteLock
<1> QED
  BY <1>3, <1>4, <1>5 DEF ThreadStep

LEMMA OwnedEnvironment ==
    ASSUME TypeOK, Grown, NEW k \in Key, OwnedAt(k),
           (\E m \in Key : LockExpires(m) \/ TtlDeletes(m)) \/ \E h \in Host : Crash(h)
    PROVE  OwnedAt(k)'
<1> USE DEF TypeOK, Grown
<1>1. ASSUME NEW m \in Key, LockExpires(m) \/ TtlDeletes(m) PROVE OwnedAt(k)'
  <2>1. UNCHANGED <<pc, current, refreshing, leaving>>
    BY <1>1 DEF LockExpires, TtlDeletes, loop, thread
  <2>2. \A g \in Host : Keeps(g, k) => Keeps(g, k)'
    BY <2>1, InsideFrame DEF Keeps
  <2>3. ~lock'[k].fresh \/ lock'[k] = lock[k]
    <3>1. CASE LockExpires(m)
      BY <3>1, SetFresh DEF LockExpires, LockDoc
    <3>2. CASE TtlDeletes(m)
      BY <3>2, LockTypes DEF TtlDeletes
    <3> QED
      BY <1>1, <3>1, <3>2
  <2> QED
    BY <2>2, <2>3, OwnedFrame, NotFreshOwned
<1>2. ASSUME NEW h \in Host, Crash(h) PROVE OwnedAt(k)'
  <2>1. /\ UNCHANGED lock /\ errs'[h] > 0
        /\ \A f \in Host : f # h => /\ pc'[f] = pc[f] /\ current'[f] = current[f]
                                    /\ refreshing'[f] = refreshing[f] /\ leaving'[f] = leaving[f]
    BY <1>2 DEF Crash, Goto, jobs, docs, Fault
  <2>2. \A g \in Host : Keeps(g, k) => Keeps(g, k)' \/ errs'[g] > 0
    BY <2>1, InsideFrame DEF Keeps
  <2> QED
    BY <2>1, <2>2, OwnedFrame
<1> QED
  BY <1>1, <1>2

LEMMA OwnedStep ==
    TypeInv /\ LockInv /\ (\A k \in Key : OwnedAt(k)) /\ [Next]_vars => (\A k \in Key : OwnedAt(k))'
<1> SUFFICES ASSUME TypeInv, LockInv, [Next]_vars, NEW k \in Key, OwnedAt(k) PROVE OwnedAt(k)'
  OBVIOUS
<1>1. TypeOK /\ Grown
  BY FaultsGrow DEF TypeInv, Grown
<1>2. ASSUME UNCHANGED <<lock, pc, current, refreshing, leaving>> PROVE OwnedAt(k)'
  <2>1. \A g \in Host : Keeps(g, k) => Keeps(g, k)'
    BY <1>2, InsideFrame DEF Keeps
  <2> QED
    BY <1>1, <1>2, <2>1, OwnedFrame DEF Grown
<1>3. CASE UNCHANGED vars
  BY <1>2, <1>3 DEF vars, docs, loop, thread
<1>4. ASSUME NEW h \in Host, FindDueJobs(h) \/ NothingDue(h) \/ LeaveLoop(h) PROVE OwnedAt(k)'
  BY <1>2, <1>4 DEF FindDueJobs, NothingDue, LeaveLoop, vars, docs, loop, thread
<1>5. CASE Next
  BY <1>1, <1>4, <1>5, OwnedUsers, OwnedTry, OwnedSection, OwnedThreads, OwnedEnvironment
  DEF Next, LoopStep, HostFault
<1> QED
  BY <1>3, <1>5

(* For any hosts, jobs, modes and faults: a lock that blocks everybody else  *)
(* is looked after by its owner, or its owner met a fault, or a failure or a *)
(* removal touched it: a crash and restart leaves no other fresh lock.       *)
THEOREM LockHasKeeperCorrect == Spec => []LockHasKeeper
<1>1. (\A k \in Key : OwnedAt(k)) => LockHasKeeper
  BY DEF OwnedAt, HasKeeper, LockHasKeeper
<1> QED
  BY <1>1, OwnedInit, OwnedStep, LockInvCorrect, PTL DEF Spec

-----------------------------------------------------------------------------
(* How often a host executes a due time.                                    *)

\* Host h is about to write another next execution time of job j than d, which
\* has come.
Moving(h, j, d) ==
    /\ current[h] = j /\ d <= clock
    /\ pc[h] = "update" \/ (pc[h] = "write" /\ planned[h] > d)

\* Host h may still execute due time d of job j, if nobody writes it anew.
May(h, j, d) ==
    \/ next[j] = d /\ ~Moving(h, j, d)
    \/ j \in due[h] /\ seen[h][j] = d
    \/ pc[h] \in {"refresh", "execute"} /\ current[h] = j /\ seen[h][j] = d

OnceAt(h, j, d) ==
    /\ ran[h][j][d] <= 1 + errs[h] + setback[j][d]
    /\ May(h, j, d) => ran[h][j][d] <= errs[h] + setback[j][d]
    /\ ran[h][j][d] > 0 => d <= clock

OnceInv == \A h \in Host, j \in Job, d \in 0..MaxTime : OnceAt(h, j, d)

LEMMA OnceInit == Init => OnceInv
<1> SUFFICES ASSUME Init, NEW h \in Host, NEW j \in Job, NEW d \in 0..MaxTime PROVE OnceAt(h, j, d)
  BY DEF OnceInv
<1>1. ran[h][j][d] = 0 /\ errs[h] = 0 /\ setback[j][d] = 0
  BY DEF Init
<1> QED
  BY <1>1 DEF OnceAt

LEMMA CountTypes ==
    ASSUME TypeOK, NEW h \in Host, NEW j \in Job, NEW d \in 0..MaxTime
    PROVE  ran[h][j][d] \in Nat /\ errs[h] \in Nat /\ setback[j][d] \in Nat /\ clock \in Nat
<1>1. /\ ran[h] \in [Job -> [0..MaxTime -> Nat]] /\ errs[h] \in Nat /\ clock \in Nat
      /\ setback[j] \in [0..MaxTime -> Nat]
  BY DEF TypeOK
<1>2. ran[h][j] \in [0..MaxTime -> Nat]
  BY <1>1
<1> QED
  BY <1>1, <1>2

\* A step without an execution: what allows another one is a fault, a setback,
\* or that there was none so far.
LEMMA OnceFrame ==
    ASSUME TypeOK, TypeOK', Grown, NEW h \in Host, NEW j \in Job, NEW d \in 0..MaxTime,
           OnceAt(h, j, d), ran' = ran, clock' >= clock, setback'[j][d] >= setback[j][d],
           May(h, j, d)' => \/ May(h, j, d) \/ errs'[h] > errs[h]
                            \/ setback'[j][d] > setback[j][d] \/ ran[h][j][d] = 0
    PROVE  OnceAt(h, j, d)'
<1>1. /\ ran[h][j][d] \in Nat /\ errs[h] \in Nat /\ setback[j][d] \in Nat /\ clock \in Nat
      /\ d \in Nat
  BY CountTypes, JobAssumption
<1>2. errs'[h] \in Nat /\ errs'[h] >= errs[h]
  BY DEF Grown
<1>3. setback'[j][d] \in Nat /\ clock' \in Nat
  <2>1. setback'[j] \in [0..MaxTime -> Nat] /\ clock' \in Nat
    BY DEF TypeOK
  <2> QED
    BY <2>1
<1>4. ran'[h][j][d] = ran[h][j][d]
  OBVIOUS
<1> QED
  BY <1>1, <1>2, <1>3, <1>4 DEF OnceAt

\* A write of a next execution time leaves other jobs alone, and it counts if
\* it brings back a due time that somebody executed.
LEMMA SetNextEffect ==
    ASSUME TypeOK, NEW j \in Job, NEW t \in Nat, SetNext(j, t),
           NEW g \in Host, NEW i \in Job, NEW d \in 0..MaxTime
    PROVE  /\ setback'[i][d] >= setback[i][d]
           /\ next'[i] = d => \/ next[i] = d \/ setback'[i][d] > setback[i][d]
                              \/ ran[g][i][d] = 0
           /\ i # j => next'[i] = next[i]
           /\ i = j => next'[i] = t
<1>1. setback[i] \in [0..MaxTime -> Nat] /\ next' = [next EXCEPT ![j] = t]
  BY DEF TypeOK, SetNext
<1>2. (i # j => next'[i] = next[i]) /\ (i = j => next'[i] = t)
  BY <1>1 DEF TypeOK
<1>3. setback[i][d] \in Nat /\ ran[g][i][d] \in Nat
  BY CountTypes
<1>4. CASE setback' = [setback EXCEPT ![j][t] = @ + 1]
  <2>1. setback' = [setback EXCEPT ![j] = [setback[j] EXCEPT ![t] = @ + 1]]
    BY <1>4
  <2>2. i = j /\ d = t => setback'[i][d] = setback[i][d] + 1
    BY <1>1, <2>1 DEF TypeOK
  <2>3. i # j \/ d # t => setback'[i][d] = setback[i][d]
    BY <1>1, <2>1 DEF TypeOK
  <2> QED
    BY <1>2, <1>3, <2>2, <2>3
<1>5. CASE setback' = setback /\ ~(next[j] # t /\ \E h \in Host : Executed(h, j, t))
  <2>1. i = j /\ d = t /\ next[j] # t => ran[g][i][d] = 0
    <3>1. d <= MaxTime
      BY JobAssumption
    <3> QED
      BY <1>3, <1>5, <3>1 DEF Executed
  <2> QED
    BY <1>2, <1>3, <1>5, <2>1
<1> QED
  BY <1>4, <1>5 DEF SetNext

LEMMA OnceUsers ==
    ASSUME TypeInv, TypeOK', Grown, OnceInv, NEW g \in Host, NEW i \in Job, NEW d \in 0..MaxTime,
           \/ UserStep \/ Tick \/ \E k \in Key : LockExpires(k) \/ TtlDeletes(k)
           \/ \E h \in Host, k \in Key : ThreadStep(h, k)
    PROVE  OnceAt(g, i, d)'
<1> TypeOK /\ OnceAt(g, i, d)
  BY DEF OnceInv, TypeInv
<1>0. clock \in Nat /\ setback[i][d] \in Nat /\ d \in Nat /\ d # None
  BY CountTypes, JobAssumption
<1>1. ASSUME UNCHANGED <<setback, loop, ran>>, next'[i] \in {None, next[i]},
             clock' \in Nat, clock' >= clock
      PROVE  OnceAt(g, i, d)'
  <2>1. UNCHANGED <<due, seen, pc, current, planned>>
    BY <1>1 DEF loop
  <2>2. May(g, i, d)' => May(g, i, d)
    BY <1>0, <1>1, <2>1 DEF May, Moving
  <2>3. ran' = ran /\ setback'[i][d] >= setback[i][d]
    BY <1>0, <1>1
  <2> QED
    BY <1>1, <2>2, <2>3, OnceFrame
<1>2. ASSUME UNCHANGED <<clock, jobs, loop, ran>> PROVE OnceAt(g, i, d)'
  BY <1>0, <1>1, <1>2 DEF jobs
<1>3. ASSUME NEW j \in Job, AddScheduledJob(j) PROVE OnceAt(g, i, d)'
  <2>1. adding[j] \in Nat /\ UNCHANGED <<clock, due, seen, pc, current, planned, ran>>
    BY <1>3 DEF AddScheduledJob, loop, log, TypeOK
  <2>2. CASE UNCHANGED <<next, setback>>
    BY <1>0, <1>1, <2>1, <2>2 DEF loop
  <2>3. CASE SetNext(j, adding[j])
    <3>1. /\ setback'[i][d] >= setback[i][d]
          /\ next'[i] = d => \/ next[i] = d \/ setback'[i][d] > setback[i][d]
                             \/ ran[g][i][d] = 0
      BY <2>1, <2>3, SetNextEffect
    <3>2. May(g, i, d)' => \/ May(g, i, d) \/ setback'[i][d] > setback[i][d]
                           \/ ran[g][i][d] = 0
      BY <2>1, <3>1 DEF May, Moving
    <3>3. ran' = ran /\ clock' >= clock
      BY <1>0, <2>1
    <3> QED
      BY <3>1, <3>2, <3>3, OnceFrame
  <2> QED
    BY <1>3, <2>2, <2>3 DEF AddScheduledJob
<1>4. ASSUME NEW h \in Host, NEW j \in Job, RemoveScheduledJob(h, j) PROVE OnceAt(g, i, d)'
  BY <1>0, <1>1, <1>4 DEF RemoveScheduledJob, TypeOK
<1>5. ASSUME NEW h \in Host, StartScheduler(h) \/ StopScheduler(h) \/ JoinTimesOut(h)
      PROVE  OnceAt(g, i, d)'
  BY <1>2, <1>5 DEF StartScheduler, StopScheduler, JoinTimesOut, docs, log
<1>6. CASE Tick
  BY <1>0, <1>1, <1>6 DEF Tick, jobs, docs, log
<1>7. ASSUME NEW k \in Key, LockExpires(k) \/ TtlDeletes(k) PROVE OnceAt(g, i, d)'
  BY <1>2, <1>7 DEF LockExpires, TtlDeletes, log
<1>8. ASSUME NEW h \in Host, NEW k \in Key, ThreadStep(h, k) PROVE OnceAt(g, i, d)'
  BY <1>2, <1>8 DEF ThreadStep, RefreshLock, RefreshEnds, RefreshExits, docs, log
<1>9. ASSUME NEW j \in Job, PlanScheduledJob(j) PROVE OnceAt(g, i, d)'
  BY <1>0, <1>1, <1>9 DEF PlanScheduledJob, log
<1> QED
  BY <1>3, <1>4, <1>5, <1>6, <1>7, <1>8, <1>9 DEF UserStep

LEMMA OnceLoop ==
    ASSUME TypeInv, TypeOK', Grown, OnceInv, NEW g \in Host, NEW i \in Job, NEW d \in 0..MaxTime,
           NEW h \in Host, LoopStep(h) \/ HostFault(h), ~ExecuteJobFunction(h)
    PROVE  OnceAt(g, i, d)'
<1>1. TypeOK /\ OnceAt(g, i, d)
  BY DEF OnceInv, TypeInv
<1>2. UNCHANGED <<clock, ran>>
  BY DEF LoopStep, HostFault, FindDueJobs, NothingDue, LeaveLoop, SkipJob, EnterUnrestricted,
         AcquireJobLock, AcquireFails, Try, StartLockRefresh, PlanJobSchedule, UpdateJobSchedule,
         StopLockRefresh, CleanupAfterFailure, JobFails, Crash, vars, log
<1>0. clock \in Nat /\ setback[i][d] \in Nat /\ d \in Nat /\ d # None
  BY <1>1, CountTypes, JobAssumption
<1>3. ASSUME setback' = setback, May(g, i, d)' => May(g, i, d) \/ errs'[g] > errs[g]
      PROVE  OnceAt(g, i, d)'
  BY <1>0, <1>1, <1>2, <1>3, OnceFrame
<1> USE DEF TypeOK
<1>4. ASSUME g # h, UNCHANGED jobs PROVE OnceAt(g, i, d)'
  <2>1. /\ due'[g] = due[g] /\ seen'[g] = seen[g] /\ pc'[g] = pc[g]
        /\ current'[g] = current[g] /\ planned'[g] = planned[g]
    <3>1. CASE \E j \in Job : \/ SkipJob(h, j) \/ EnterUnrestricted(h, j)
                              \/ AcquireJobLock(h, j) \/ AcquireFails(h, j)
      BY <1>1, <1>4, <3>1 DEF SkipJob, EnterUnrestricted, AcquireJobLock, AcquireFails, Try, Goto
    <3>2. CASE FindDueJobs(h) \/ NothingDue(h) \/ LeaveLoop(h)
      BY <1>1, <1>4, <3>2 DEF FindDueJobs, NothingDue, LeaveLoop, vars, loop
    <3>3. CASE StartLockRefresh(h) \/ PlanJobSchedule(h) \/ UpdateJobSchedule(h)
      BY <1>1, <1>4, <3>3 DEF StartLockRefresh, PlanJobSchedule, UpdateJobSchedule, Goto
    <3>4. CASE StopLockRefresh(h) \/ CleanupAfterFailure(h) \/ JobFails(h) \/ Crash(h)
      BY <1>1, <1>4, <3>4 DEF StopLockRefresh, CleanupAfterFailure, JobFails, Crash, Goto
    <3> QED
      BY <3>1, <3>2, <3>3, <3>4 DEF LoopStep, HostFault
  <2>2. UNCHANGED <<next, setback>>
    BY <1>4 DEF jobs
  <2> QED
    BY <1>2, <1>3, <2>1, <2>2 DEF May, Moving
<1>5. CASE FindDueJobs(h)
  <2>1. CASE g = h
    <3>1. /\ UNCHANGED <<jobs, pc, current>> /\ pc[g] = "list"
          /\ due'[g] = {j \in Job : IsDue(j)} /\ \A j \in due'[g] : seen'[g][j] = next[j]
      BY <1>1, <1>5, <2>1 DEF FindDueJobs, docs
    <3>2. UNCHANGED <<next, setback>> /\ pc'[g] = "list"
      BY <3>1 DEF jobs
    <3> QED
      BY <1>2, <1>3, <3>1, <3>2 DEF May, Moving
  <2> QED
    BY <1>4, <1>5, <2>1 DEF FindDueJobs, docs
<1>6. CASE NothingDue(h) \/ LeaveLoop(h)
  <2>1. UNCHANGED <<jobs, pc, current, planned, seen>> /\ due'[g] \subseteq due[g]
    BY <1>1, <1>6 DEF NothingDue, LeaveLoop, vars, docs, loop
  <2>2. UNCHANGED <<next, setback>>
    BY <2>1 DEF jobs
  <2> QED
    BY <1>2, <1>3, <2>1, <2>2 DEF May, Moving
<1>7. ASSUME NEW j \in Job,
             SkipJob(h, j) \/ EnterUnrestricted(h, j) \/ AcquireJobLock(h, j) \/ AcquireFails(h, j)
      PROVE  OnceAt(g, i, d)'
  <2>1. /\ UNCHANGED <<jobs, seen>> /\ pc[h] = "list" /\ j \in due[h]
        /\ due'[g] \subseteq due[g]
        /\ UNCHANGED <<pc, current>> \/ (pc'[h] \in {"refresh", "execute"} /\ current'[h] = j)
    <3>1. Try(h, j)
      BY <1>7 DEF SkipJob, EnterUnrestricted, AcquireJobLock, AcquireFails
    <3>2. UNCHANGED <<jobs, seen>> /\ pc[h] = "list" /\ j \in due[h] /\ due'[g] \subseteq due[g]
      BY <1>1, <3>1 DEF Try
    <3>3. UNCHANGED <<pc, current>> \/ (pc'[h] \in {"refresh", "execute"} /\ current'[h] = j)
      BY <1>1, <1>7 DEF SkipJob, EnterUnrestricted, AcquireJobLock, AcquireFails, Goto
    <3> QED
      BY <3>2, <3>3
  <2>2. UNCHANGED <<next, setback>>
    BY <2>1 DEF jobs
  <2>3. CASE g = h
    BY <1>2, <1>3, <2>1, <2>2, <2>3 DEF May, Moving
  <2> QED
    BY <1>4, <2>1, <2>3
<1>8. CASE StartLockRefresh(h) \/ StopLockRefresh(h) \/ CleanupAfterFailure(h)
  <2>1. /\ UNCHANGED <<jobs, due, seen>> /\ pc[h] \notin {"update", "write"}
        /\ pc'[h] \in {"refresh", "execute"} => pc[h] = "refresh" /\ current'[h] = current[h]
    BY <1>1, <1>8 DEF StartLockRefresh, StopLockRefresh, CleanupAfterFailure, Goto, docs
  <2>2. UNCHANGED <<next, setback>>
    BY <2>1 DEF jobs
  <2>3. CASE g = h
    BY <1>2, <1>3, <2>1, <2>2, <2>3 DEF May, Moving
  <2> QED
    BY <1>4, <2>1, <2>3
<1>9. CASE PlanJobSchedule(h)
  <2>1. UNCHANGED <<jobs, due, seen, current>>
    BY <1>9 DEF PlanJobSchedule, docs
  <2>2. UNCHANGED <<next, setback>>
    BY <2>1 DEF jobs
  <2>3. CASE g = h
    <3>1. pc'[g] = "write" /\ pc[g] = "update" /\ planned'[g] = clock + 1
      BY <1>1, <1>9, <2>3 DEF PlanJobSchedule, Goto, NextExecutionTime
    <3>2. Moving(g, i, d) => Moving(g, i, d)'
      BY <1>0, <1>2, <2>1, <3>1 DEF Moving
    <3> QED
      BY <1>3, <2>1, <2>2, <3>1, <3>2 DEF May
  <2> QED
    BY <1>4, <2>1, <2>3
<1>10. CASE UpdateJobSchedule(h)
  <2>1. /\ UNCHANGED <<due, seen>> /\ pc[h] = "write" /\ current[h] \in Job /\ planned[h] \in Nat
        /\ pc'[h] \in {"list", "stop"}
        /\ \A f \in Host : f # h => /\ pc'[f] = pc[f] /\ current'[f] = current[f]
                                    /\ planned'[f] = planned[f]
    BY <1>1, <1>10 DEF UpdateJobSchedule, Goto, TypeInv, SectionInv
  <2>2. CASE next[current[h]] = None /\ UNCHANGED <<next, setback>>
    <3>1. May(g, i, d)' => May(g, i, d)
      <4>1. CASE g = h /\ i = current[h]
        BY <1>0, <2>1, <2>2, <4>1 DEF May
      <4>2. CASE g = h /\ i # current[h]
        BY <2>1, <2>2, <4>2 DEF May, Moving
      <4>3. CASE g # h
        BY <1>2, <2>1, <2>2, <4>3 DEF May, Moving
      <4> QED
        BY <4>1, <4>2, <4>3
    <3> QED
      BY <1>3, <2>2, <3>1
  <2>3. CASE SetNext(current[h], planned[h])
    <3>1. /\ setback'[i][d] >= setback[i][d]
          /\ next'[i] = d => \/ next[i] = d \/ setback'[i][d] > setback[i][d]
                             \/ ran[g][i][d] = 0
          /\ i = current[h] => next'[i] = planned[h]
      BY <1>1, <2>1, <2>3, SetNextEffect
    <3>2. May(g, i, d)' => \/ May(g, i, d) \/ setback'[i][d] > setback[i][d]
                           \/ ran[g][i][d] = 0
      <4>1. CASE g = h /\ i = current[h]
        <5>1. next'[i] = d /\ next[i] = d => ~Moving(g, i, d)
          BY <1>0, <2>1, <3>1, <4>1 DEF Moving
        <5> QED
          BY <2>1, <3>1, <4>1, <5>1 DEF May
      <4>2. CASE g = h /\ i # current[h]
        BY <2>1, <3>1, <4>2 DEF May, Moving
      <4>3. CASE g # h
        BY <1>2, <2>1, <3>1, <4>3 DEF May, Moving
      <4> QED
        BY <4>1, <4>2, <4>3
    <3>3. ran' = ran /\ clock' >= clock
      BY <1>0, <1>2
    <3> QED
      BY <1>1, <3>1, <3>2, <3>3, OnceFrame
  <2> QED
    BY <1>10, <2>2, <2>3 DEF UpdateJobSchedule
<1>11. CASE JobFails(h) \/ Crash(h)
  <2>1. UNCHANGED jobs /\ errs'[h] > errs[h]
    BY <1>1, <1>11 DEF JobFails, Crash, Fault, docs
  <2>2. setback' = setback
    BY <2>1 DEF jobs
  <2> QED
    BY <1>3, <1>4, <2>1, <2>2
<1> QED
  BY <1>5, <1>6, <1>7, <1>8, <1>9, <1>10, <1>11 DEF LoopStep, HostFault

LEMMA OnceExecute ==
    ASSUME TypeInv, OnceInv, NEW g \in Host, NEW i \in Job, NEW d \in 0..MaxTime,
           NEW h \in Host, ExecuteJobFunction(h)
    PROVE  OnceAt(g, i, d)'
<1>1. /\ current[h] \in Job /\ current[h] \notin due[h] /\ pc[h] = "execute"
      /\ seen[h][current[h]] \in 0..clock /\ clock \in 0..MaxTime
  BY DEF ExecuteJobFunction, TypeInv, SectionInv
<1>2. seen[h][current[h]] \in 0..MaxTime /\ seen[h][current[h]] <= clock
  BY <1>1, JobAssumption
<1> SUFFICES ASSUME NEW j \in Job, NEW t \in 0..MaxTime, j = current[h], t = seen[h][j]
             PROVE  OnceAt(g, i, d)'
  BY <1>1, <1>2
<1>3. /\ UNCHANGED <<clock, next, setback, due, current, planned, errs>>
      /\ pc' = [pc EXCEPT ![h] = "update"] /\ seen' = [seen EXCEPT ![h][j] = None]
      /\ Counts(h, j, t)
  BY DEF ExecuteJobFunction, jobs, docs, Goto, Counts
<1>4. /\ pc'[h] = "update" /\ \A f \in Host : f # h => pc'[f] = pc[f] /\ seen'[f] = seen[f]
      /\ seen'[h][j] = None /\ \A l \in Job : l # j => seen'[h][l] = seen[h][l]
  BY <1>3 DEF TypeInv, TypeOK
<1>5. /\ ran'[h][j][t] = ran[h][j][t] + 1
      /\ \A f \in Host, l \in Job, e \in 0..MaxTime :
              f # h \/ l # j \/ e # t => ran'[f][l][e] = ran[f][l][e]
  <2>1. TypeOK
    BY DEF TypeInv
  <2>2. Counts(h, j, t)
    BY <1>3
  <2>3. ran'[h][j][t] = ran[h][j][t] + 1
    BY <2>2, <2>1, CountRan
  <2>4. ASSUME NEW f \in Host, NEW l \in Job, NEW e \in 0..MaxTime, f # h \/ l # j \/ e # t
        PROVE  ran'[f][l][e] = ran[f][l][e]
    BY <2>2, <2>1, <2>4, CountRan
  <2> QED
    BY <2>3, <2>4
<1>6. /\ ran[g][i][d] \in Nat /\ errs[g] \in Nat /\ setback[i][d] \in Nat /\ clock \in Nat
      /\ OnceAt(g, i, d) /\ d \in Nat /\ d # None
  BY CountTypes, JobAssumption DEF TypeInv, OnceInv
<1>7. CASE g = h /\ i = j /\ d = t
  <2>1. May(g, i, d)
    BY <1>1, <1>7 DEF May
  <2>2. ran'[g][i][d] <= 1 + errs'[g] + setback'[i][d]
    BY <1>3, <1>5, <1>6, <1>7, <2>1 DEF OnceAt
  <2>3. ~May(g, i, d)'
    BY <1>1, <1>2, <1>3, <1>4, <1>6, <1>7 DEF May, Moving
  <2>4. d <= clock'
    BY <1>2, <1>3, <1>7
  <2> QED
    BY <2>2, <2>3, <2>4 DEF OnceAt
<1>8. CASE g # h \/ i # j \/ d # t
  <2>1. ran'[g][i][d] = ran[g][i][d]
    BY <1>5, <1>8
  <2>2. May(g, i, d)' => May(g, i, d) \/ ran[g][i][d] = 0
    <3>1. CASE g # h
      BY <1>3, <1>4, <3>1 DEF May, Moving
    <3>2. CASE g = h /\ i # j
      BY <1>1, <1>3, <1>4, <3>2 DEF May, Moving
    <3>3. CASE g = h /\ i = j
      <4>1. May(g, i, d)' => next[i] = d /\ ~(d <= clock)
        BY <1>1, <1>3, <1>4, <1>6, <3>3 DEF May, Moving
      <4>2. ~(d <= clock) => ran[g][i][d] = 0
        BY <1>6 DEF OnceAt
      <4> QED
        BY <4>1, <4>2
    <3> QED
      BY <3>1, <3>2, <3>3
  <2> QED
    BY <1>3, <1>6, <2>1, <2>2 DEF OnceAt
<1> QED
  BY <1>7, <1>8

LEMMA OnceStep == TypeInv /\ OnceInv /\ [Next]_vars => OnceInv'
<1> SUFFICES ASSUME TypeInv, OnceInv, [Next]_vars, NEW g \in Host, NEW i \in Job, NEW d \in 0..MaxTime
             PROVE  OnceAt(g, i, d)'
  BY DEF OnceInv
<1>1. Grown /\ TypeOK'
  BY FaultsGrow, TypeOKStep DEF TypeInv, Grown
<1>2. CASE UNCHANGED vars
  BY <1>2 DEF OnceInv, OnceAt, May, Moving, vars, jobs, docs, loop, log
<1>3. CASE Next
  BY <1>1, <1>3, OnceUsers, OnceLoop, OnceExecute DEF Next
<1> QED
  BY <1>2, <1>3

(* For any hosts, jobs, modes and faults: a host executes a due time once,   *)
(* once more per fault it met, and once more for each write that put the job *)
(* back to that time, which another host or a caller had computed before.    *)
THEOREM OncePerHostCorrect == Spec => []OncePerHost
<1>1. OnceInv => OncePerHost
  BY DEF OnceInv, OnceAt, OncePerHost
<1> QED
  BY <1>1, OnceInit, OnceStep, TypeInvCorrect, PTL DEF Spec
=============================================================================
