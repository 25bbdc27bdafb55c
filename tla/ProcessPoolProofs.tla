------------------------- MODULE ProcessPoolProofs --------------------------
(***************************************************************************)
(* Proofs about ProcessPool for any processes, users, values of            *)
(* max_workers, retries and number of tasks: what the records and the      *)
(* counters say although processes write them late or not at all, and that *)
(* the attempts of a task follow RetryPool.  At the end, what holds of the *)
(* pools and of Fixtures is carried to the instance that uses the three.   *)
(***************************************************************************)
EXTENDS MCInProcess, ThreadPoolProofs, FixturesProofs, TLAPS

-----------------------------------------------------------------------------
(* The inductive invariant.                                                 *)

Stages == {"none", "pending", "running", "retrying"} \cup Finished
Places == {"new", "check", "get", "load", "run", "putback", "save", "exit"}
TaskEntry == [id : Item, tries : Nat]
Work   == [id : Item \cup {Nothing}, tries : Nat, status : Stages]
Life   == [stage : Stages, tries : Nat]

\* A process owns its task until it has ended or is back in the pipe; until it has
\* written the record it still has it.
Owns(p) == ppc[p] \in {"load", "run", "putback"}
Has(p)  == Owns(p) \/ ppc[p] = "save"

PoolTypes ==
    /\ going \in BOOLEAN /\ closed \in BOOLEAN /\ sent \in 0..MaxSubmissions
    /\ submitting \in User \cup {Nothing} /\ crew \subseteq Process
    /\ upc \in [User -> {"idle", "count", "poll", "reap"}] /\ uses \in [User -> Nat]

DataTypes ==
    /\ pipe \subseteq TaskEntry /\ \A d \in pipe : d.tries <= MaxAttempts[d.id]
    /\ record \in [Item -> Stages] /\ life \in [Item -> Life]
    /\ doneCount \in Nat /\ counted \in [Item -> Nat]
    /\ lost \subseteq Item /\ orphaned \subseteq Item

\* What a process holds at each place.
HoldsAt(p) ==
    /\ ~Has(p) => task[p] = Idle
    /\ Has(p) => task[p].id \in Item
    /\ Owns(p) => task[p].tries <= MaxAttempts[task[p].id]
    /\ ppc[p] = "putback" => task[p].status = "retrying"
    /\ ppc[p] = "save" => task[p].status \in {"retrying"} \cup Finished

WorkTypes ==
    /\ ppc \in [Process -> Places] /\ task \in [Process -> Work]
    /\ \A p \in Process : HoldsAt(p)

\* The user that holds _submit_lock has put a task and not counted it yet.
SubmitInv ==
    /\ \A u \in User : upc[u] = "count" <=> submitting = u
    /\ \A u \in User : upc[u] = "count" => sent < MaxSubmissions

ProcessTypeInv == PoolTypes /\ DataTypes /\ WorkTypes /\ SubmitInv

ProcessGiven(t) == t < sent \/ (t = sent /\ \E u \in User : upc[u] = "count")

Unborn(t) == life[t].stage = "none" /\ life[t].tries = 0

\* One place for each task in progress, and it was submitted.
ProcessPlaceInv ==
    /\ \A d, e \in pipe : d.id = e.id => d = e
    /\ \A p, q \in Process : Owns(p) /\ Owns(q) /\ task[p].id = task[q].id => p = q
    /\ \A d \in pipe, p \in Process : Owns(p) => task[p].id # d.id
    /\ \A d \in pipe : ProcessGiven(d.id)
    /\ \A p \in Process : Owns(p) => ProcessGiven(task[p].id)
    /\ \A t \in Item : ~ProcessGiven(t) => Unborn(t)

\* What the true state of a task says about the copies of it.
InPipe(d) == life[d.id].stage \in {"pending", "retrying"} /\ life[d.id].tries = d.tries

AtWork(p) ==
    LET l == life[task[p].id] IN
    /\ Owns(p) => l.tries = task[p].tries
    /\ ppc[p] = "load" => l.stage \in {"pending", "retrying"}
    /\ ppc[p] = "run" => l.stage = "running"
    /\ ppc[p] = "putback" => l.stage = "retrying" /\ l.tries > 0
    /\ ppc[p] = "save" => \/ task[p].status = "retrying" /\ l.tries > 0
                          \/ task[p].status \in Finished /\ l.stage = task[p].status

LifeInv == (\A d \in pipe : InPipe(d)) /\ (\A p \in Process : AtWork(p))

\* The end of a task is written, or will be, unless a late report hides it.
Reports(p, t) == ppc[p] = "save" /\ task[p].id = t /\ task[p].status = life[t].stage

RecordAt(t) ==
    life[t].stage \in Finished =>
        \/ \E p \in Process : Reports(p, t)
        \/ record[t] = life[t].stage
        \/ record[t] = "retrying" /\ life[t].tries > 0

RecordInv == \A t \in Item \ lost : RecordAt(t)

\* The counter counts tasks, each once, that have ended or could not be read.
Counted == {t \in Item : counted[t] > 0}

ProcessCountInv ==
    /\ doneCount = Cardinality(Counted)
    /\ \A t \in Counted : ProcessGiven(t) /\ (life[t].stage \in Finished \/ t \in lost)
    /\ \A d \in pipe : d.id \notin Counted
    /\ \A p \in Process : Owns(p) => task[p].id \notin Counted

ProcessRest == ProcessPlaceInv /\ LifeInv /\ RecordInv /\ ProcessCountInv
ProcessInv == ProcessTypeInv /\ ProcessRest

-----------------------------------------------------------------------------
(* Records and steps.                                                       *)

LEMMA ItemType ==
    /\ Item \subseteq Nat /\ IsFiniteSet(Item)
    /\ \A n \in 0..MaxSubmissions : n < MaxSubmissions => n \in Item
<1>1. MaxSubmissions \in Nat /\ MaxSubmissions - 1 \in Int
  BY ProcessAssumption
<1> QED
  BY <1>1, FS_Interval DEF Item

LEMMA IdleIsWork == Idle \in Work /\ Idle.id = Nothing
  BY DEF Idle, Work, Stages

LEMMA WorkParts ==
    ASSUME NEW w \in Work
    PROVE  w.id \in Item \cup {Nothing} /\ w.tries \in Nat /\ w.status \in Stages
  BY DEF Work

LEMMA LifeParts ==
    ASSUME NEW l \in Life
    PROVE  l.stage \in Stages /\ l.tries \in Nat
  BY DEF Life

\* SetStatus as two records.
LEMMA StatusEffect ==
    ASSUME ProcessTypeInv, NEW p \in Process, Has(p), NEW s \in Stages, NEW n \in Nat, SetStatus(p, s, n)
    PROVE  /\ task' = [task EXCEPT ![p] = [id |-> task[p].id, tries |-> n, status |-> s]]
           /\ life' = [life EXCEPT ![task[p].id] = [stage |-> s, tries |-> n]]
           /\ [id |-> task[p].id, tries |-> n, status |-> s] \in Work
           /\ [stage |-> s, tries |-> n] \in Life
<1>1. task[p] \in Work /\ task[p].id \in Item
  BY DEF ProcessTypeInv, WorkTypes, HoldsAt
<1> DEFINE w == [id |-> task[p].id, tries |-> n, status |-> s]
           f == [task EXCEPT ![p].status = s]
<1>2. w \in Work /\ [stage |-> s, tries |-> n] \in Life
  BY <1>1 DEF Work, Life
<1>3. task \in [Process -> Work]
  BY DEF ProcessTypeInv, WorkTypes
<1>4. /\ f = [task EXCEPT ![p] = [task[p] EXCEPT !.status = s]]
      /\ [task[p] EXCEPT !.status = s] \in Work
  BY <1>1 DEF Work
<1>5. f \in [Process -> Work] /\ f[p] = [task[p] EXCEPT !.status = s]
      /\ \A q \in Process : q # p => f[q] = task[q]
  BY <1>3, <1>4
<1>6. task' = [f EXCEPT ![p].tries = n]
  BY DEF SetStatus
<1> HIDE DEF f
<1>7. task' = [f EXCEPT ![p] = [f[p] EXCEPT !.tries = n]]
  BY <1>6
<1>8. [f[p] EXCEPT !.tries = n] = w
  <2>1. [task[p] EXCEPT !.status = s] = [id |-> task[p].id, tries |-> task[p].tries, status |-> s]
    BY <1>1 DEF Work
  <2>2. f[p] = [id |-> task[p].id, tries |-> task[p].tries, status |-> s]
    BY <1>5, <2>1
  <2> QED
    BY <2>2
<1> HIDE DEF w
<1>9. task' = [task EXCEPT ![p] = w]
  BY <1>2, <1>3, <1>5, <1>7, <1>8
<1> QED
  BY <1>2, <1>9 DEF SetStatus, w

\* A step of a process: the others, the users and their lock do not notice.
LEMMA ProcessFrame ==
    ASSUME ProcessTypeInv, NEW p \in Process, ProcessStep(p)
    PROVE  /\ UNCHANGED <<pool, users>>
           /\ \A q \in Process : q # p => ppc'[q] = ppc[q] /\ task'[q] = task[q]
<1>1. UNCHANGED <<pool, users>>
  BY DEF ProcessStep, CheckGoing, GetItem, NothingToGet, LoadFails, Begin, Returns, RaisesAgain,
         RaisesForGood, ReturnToPipe, Save, SaveFails
<1>2. ppc \in [Process -> Places] /\ task \in [Process -> Work]
  BY DEF ProcessTypeInv, WorkTypes
<1>3. ASSUME NEW q \in Process, q # p PROVE ppc'[q] = ppc[q]
  <2>1. \E to : ppc' = [ppc EXCEPT ![p] = to]
    BY DEF ProcessStep, CheckGoing, GetItem, NothingToGet, LoadFails, Begin, Returns, RaisesAgain,
         RaisesForGood, ReturnToPipe, Save, SaveFails, Go
  <2> QED
    BY <1>2, <1>3, <2>1
<1>4. ASSUME NEW q \in Process, q # p PROVE task'[q] = task[q]
  <2>1. CASE CheckGoing(p) \/ NothingToGet(p) \/ ReturnToPipe(p)
    BY <2>1 DEF CheckGoing, NothingToGet, ReturnToPipe
  <2>2. CASE GetItem(p) \/ LoadFails(p) \/ Save(p) \/ SaveFails(p)
    <3>1. \E w : task' = [task EXCEPT ![p] = w]
      BY <2>2 DEF GetItem, LoadFails, Save, SaveFails
    <3> QED
      BY <1>2, <1>4, <3>1
  <2>3. CASE Begin(p) \/ Returns(p) \/ RaisesAgain(p) \/ RaisesForGood(p)
    <3>1. \E s, n : SetStatus(p, s, n)
      BY <2>3 DEF Begin, Returns, RaisesAgain, RaisesForGood
    <3> QED
      BY <1>2, <1>4, <3>1 DEF SetStatus
  <2> QED
    BY <2>1, <2>2, <2>3 DEF ProcessStep
<1> QED
  BY <1>1, <1>3, <1>4

data == <<pipe, record, tally, life, lost, orphaned>>

LEMMA GoEffect ==
    ASSUME ProcessTypeInv, NEW p \in Process, NEW from, NEW to \in Places, Go(p, from, to)
    PROVE  ppc[p] = from /\ ppc'[p] = to /\ ppc' \in [Process -> Places]
  BY DEF Go, ProcessTypeInv, WorkTypes

LEMMA TaskEffect ==
    ASSUME ProcessTypeInv, NEW p \in Process, NEW w \in Work, task' = [task EXCEPT ![p] = w]
    PROVE  task'[p] = w /\ task' \in [Process -> Work]
  BY DEF ProcessTypeInv, WorkTypes

LEMMA LifeEffect ==
    ASSUME ProcessTypeInv, NEW t \in Item, NEW l \in Life, life' = [life EXCEPT ![t] = l]
    PROVE  life'[t] = l /\ life' \in [Item -> Life] /\ \A i \in Item : i # t => life'[i] = life[i]
  BY DEF ProcessTypeInv, DataTypes

LEMMA CountEffect ==
    ASSUME ProcessTypeInv, NEW t \in Item, CountDone(t)
    PROVE  /\ doneCount' = doneCount + 1 /\ doneCount' \in Nat
           /\ counted' \in [Item -> Nat] /\ counted'[t] = counted[t] + 1
           /\ \A i \in Item : i # t => counted'[i] = counted[i]
  BY DEF ProcessTypeInv, DataTypes, CountDone

LEMMA WriteEffect ==
    ASSUME ProcessTypeInv, NEW t \in Item, NEW s \in Stages, Write(t, s)
    PROVE  record'[t] = s /\ record' \in [Item -> Stages] /\ \A i \in Item : i # t => record'[i] = record[i]
  BY DEF ProcessTypeInv, DataTypes, Write

\* What the task of a process is, as far as the types know it.
LEMMA TaskParts ==
    ASSUME ProcessTypeInv, NEW p \in Process
    PROVE  /\ task[p] \in Work /\ task[p].tries \in Nat /\ task[p].status \in Stages
           /\ Has(p) => task[p].id \in Item
           /\ ~Has(p) => task[p] = Idle
           /\ \A i \in Item : MaxAttempts[i] \in Nat
  BY WorkParts, ProcessAssumption DEF ProcessTypeInv, WorkTypes, HoldsAt

-----------------------------------------------------------------------------
(* What each action of a process does.                                      *)

\* It finds nothing to do, or that the pool is stopped.
Looks(p) ==
    /\ ppc[p] \in {"check", "get"} /\ ppc'[p] \in {"check", "get", "exit"}
    /\ UNCHANGED <<task, data>>

Takes(p, d) ==
    /\ d \in pipe /\ ppc[p] = "get" /\ ppc'[p] = "load"
    /\ task'[p] = [id |-> d.id, tries |-> d.tries, status |-> "none"]
    /\ pipe' = pipe \ {d} /\ UNCHANGED <<record, tally, life, lost, orphaned>>

Loses(p) ==
    /\ ppc[p] = "load" /\ ppc'[p] = "check" /\ task'[p] = Idle
    /\ CountDone(task[p].id) /\ lost' = lost \cup {task[p].id}
    /\ UNCHANGED <<pipe, record, life, orphaned>>

\* It gives its task a status, in life and in its own copy.
Marks(p, s, n) ==
    /\ task'[p] = [id |-> task[p].id, tries |-> n, status |-> s]
    /\ life' = [life EXCEPT ![task[p].id] = [stage |-> s, tries |-> n]]
    /\ UNCHANGED <<pipe, lost, orphaned>>

Begins(p) ==
    /\ ppc[p] = "load" /\ ppc'[p] = "run" /\ Marks(p, "running", task[p].tries)
    /\ Write(task[p].id, "running") /\ UNCHANGED tally

Retries(p) ==
    /\ ppc[p] = "run" /\ ppc'[p] = "putback" /\ Marks(p, "retrying", task[p].tries + 1)
    /\ task[p].tries + 1 <= MaxAttempts[task[p].id] /\ UNCHANGED <<record, tally>>

Ends(p, s, n) ==
    /\ ppc[p] = "run" /\ ppc'[p] = "save" /\ Marks(p, s, n)
    /\ \/ s = "success" /\ n = task[p].tries
       \/ s = "failed" /\ n = task[p].tries + 1 /\ ~(task[p].tries + 1 <= MaxAttempts[task[p].id])
    /\ CountDone(task[p].id) /\ UNCHANGED record

PutsBack(p) ==
    /\ ppc[p] = "putback" /\ ppc'[p] = "save"
    /\ pipe' = pipe \cup {[id |-> task[p].id, tries |-> task[p].tries]}
    /\ UNCHANGED <<task, record, tally, life, lost, orphaned>>

Saves(p) ==
    /\ ppc[p] = "save" /\ ppc'[p] = "check" /\ task'[p] = Idle
    /\ Write(task[p].id, task[p].status) /\ UNCHANGED <<pipe, tally, life, lost, orphaned>>

Breaks(p) ==
    /\ ppc[p] = "save" /\ ppc'[p] = "exit" /\ task'[p] = Idle
    /\ lost' = lost \cup {task[p].id} /\ UNCHANGED <<pipe, record, tally, life, orphaned>>

Does(p) ==
    \/ Looks(p) \/ Loses(p) \/ Begins(p) \/ Retries(p) \/ PutsBack(p) \/ Saves(p) \/ Breaks(p)
    \/ \E d \in pipe : Takes(p, d)
    \/ \E s \in Finished, n \in Nat : Ends(p, s, n)

LEMMA ProcessDoes ==
    ASSUME ProcessTypeInv, NEW p \in Process, ProcessStep(p)
    PROVE  Does(p) /\ ppc' \in [Process -> Places] /\ task' \in [Process -> Work]
<1> USE DEF Places
<1>1. CASE CheckGoing(p) \/ NothingToGet(p)
  <2>1. (ppc[p] = "check" \/ ppc[p] = "get") /\ (ppc'[p] = "get" \/ ppc'[p] = "exit" \/ ppc'[p] = "check")
        /\ ppc' \in [Process -> Places]
    BY <1>1, GoEffect DEF CheckGoing, NothingToGet
  <2>2. UNCHANGED <<task, data>>
    BY <1>1 DEF CheckGoing, NothingToGet, data
  <2> QED
    BY <2>1, <2>2 DEF Does, Looks, ProcessTypeInv, WorkTypes
<1>2. CASE GetItem(p)
  <2>1. ppc[p] = "get" /\ ppc'[p] = "load" /\ ppc' \in [Process -> Places]
    BY <1>2, GoEffect DEF GetItem
  <2>2. PICK d \in pipe :
           /\ pipe' = pipe \ {d}
           /\ task' = [task EXCEPT ![p] = [id |-> d.id, tries |-> d.tries, status |-> "none"]]
    BY <1>2 DEF GetItem
  <2>3. [id |-> d.id, tries |-> d.tries, status |-> "none"] \in Work
    BY DEF ProcessTypeInv, DataTypes, TaskEntry, Work, Stages
  <2>4. /\ task'[p] = [id |-> d.id, tries |-> d.tries, status |-> "none"]
        /\ task' \in [Process -> Work]
    BY <2>2, <2>3, TaskEffect
  <2>5. UNCHANGED <<record, tally, life, lost, orphaned>>
    BY <1>2 DEF GetItem
  <2> QED
    BY <2>1, <2>2, <2>4, <2>5 DEF Does, Takes
<1>3. CASE LoadFails(p) \/ Save(p) \/ SaveFails(p)
  <2>1. ppc' \in [Process -> Places]
    BY <1>3, GoEffect DEF LoadFails, Save, SaveFails
  <2>2. task'[p] = Idle /\ task' \in [Process -> Work]
    BY <1>3, TaskEffect, IdleIsWork DEF LoadFails, Save, SaveFails
  <2>3. CASE LoadFails(p)
    BY <2>1, <2>2, <2>3, GoEffect DEF LoadFails, Does, Loses
  <2>4. CASE Save(p)
    BY <2>1, <2>2, <2>4, GoEffect DEF Save, Report, Does, Saves
  <2>5. CASE SaveFails(p)
    BY <2>1, <2>2, <2>5, GoEffect DEF SaveFails, Does, Breaks
  <2> QED
    BY <1>3, <2>1, <2>2, <2>3, <2>4, <2>5
<1>4. ASSUME NEW s \in Stages, NEW n \in Nat, SetStatus(p, s, n), Has(p), UNCHANGED <<pipe, lost, orphaned>>
      PROVE  Marks(p, s, n) /\ task' \in [Process -> Work]
  BY <1>4, StatusEffect, TaskEffect DEF Marks
<1>5. CASE Begin(p)
  <2>1. ppc[p] = "load" /\ ppc'[p] = "run" /\ ppc' \in [Process -> Places]
    BY <1>5, GoEffect DEF Begin
  <2>2. Has(p) /\ task[p].tries \in Nat /\ "running" \in Stages
    BY <2>1, TaskParts DEF Has, Owns, Stages
  <2>3. Marks(p, "running", task[p].tries) /\ task' \in [Process -> Work]
    BY <1>4, <1>5, <2>2 DEF Begin
  <2> QED
    BY <1>5, <2>1, <2>3 DEF Begin, Does, Begins
<1>6. CASE RaisesAgain(p)
  <2>1. ppc[p] = "run" /\ ppc'[p] = "putback" /\ ppc' \in [Process -> Places]
    BY <1>6, GoEffect DEF RaisesAgain
  <2>2. Has(p) /\ task[p].tries + 1 \in Nat /\ "retrying" \in Stages
    BY <2>1, TaskParts DEF Has, Owns, Stages
  <2>3. Marks(p, "retrying", task[p].tries + 1) /\ task' \in [Process -> Work]
    BY <1>4, <1>6, <2>2 DEF RaisesAgain
  <2> QED
    BY <1>6, <2>1, <2>3 DEF RaisesAgain, MayRetry, Does, Retries
<1>7. CASE Returns(p) \/ RaisesForGood(p)
  <2>1. ppc[p] = "run" /\ ppc'[p] = "save" /\ ppc' \in [Process -> Places]
    BY <1>7, GoEffect DEF Returns, RaisesForGood
  <2>2. /\ Has(p) /\ task[p].tries \in Nat /\ task[p].tries + 1 \in Nat
        /\ "success" \in Stages /\ "failed" \in Stages /\ "success" \in Finished /\ "failed" \in Finished
    BY <2>1, TaskParts DEF Has, Owns, Stages, Finished
  <2>3. CASE Returns(p)
    <3>1. Marks(p, "success", task[p].tries) /\ task' \in [Process -> Work]
      BY <1>4, <2>2, <2>3 DEF Returns
    <3>2. Ends(p, "success", task[p].tries)
      BY <2>1, <2>3, <3>1 DEF Returns, Ends
    <3> QED
      BY <2>1, <2>2, <3>1, <3>2 DEF Does
  <2>4. CASE RaisesForGood(p)
    <3>1. Marks(p, "failed", task[p].tries + 1) /\ task' \in [Process -> Work]
      BY <1>4, <2>2, <2>4 DEF RaisesForGood
    <3>2. Ends(p, "failed", task[p].tries + 1)
      BY <2>1, <2>4, <3>1 DEF RaisesForGood, MayRetry, Ends
    <3> QED
      BY <2>1, <2>2, <3>1, <3>2 DEF Does
  <2> QED
    BY <1>7, <2>3, <2>4
<1>8. CASE ReturnToPipe(p)
  <2>1. ppc[p] = "putback" /\ ppc'[p] = "save" /\ ppc' \in [Process -> Places]
    BY <1>8, GoEffect DEF ReturnToPipe
  <2> QED
    BY <1>8, <2>1 DEF ReturnToPipe, Does, PutsBack, ProcessTypeInv, WorkTypes
<1> QED
  BY <1>1, <1>2, <1>3, <1>5, <1>6, <1>7, <1>8 DEF ProcessStep

-----------------------------------------------------------------------------
(* Types.                                                                   *)

LEMMA OthersHold ==
    ASSUME ProcessTypeInv, NEW p \in Process, ProcessStep(p)
    PROVE  \A q \in Process : q # p =>
              /\ (Owns(q)' <=> Owns(q)) /\ (Has(q)' <=> Has(q)) /\ (HoldsAt(q)' <=> HoldsAt(q))
              /\ task'[q] = task[q] /\ ppc'[q] = ppc[q]
<1>1. ASSUME NEW q \in Process, q # p PROVE task'[q] = task[q] /\ ppc'[q] = ppc[q]
  BY <1>1, ProcessFrame
<1> QED
  BY <1>1 DEF Owns, Has, HoldsAt

LEMMA TypeProcessWork ==
    ASSUME ProcessTypeInv, NEW p \in Process, ProcessStep(p)
    PROVE  WorkTypes'
<1>1. Does(p) /\ ppc' \in [Process -> Places] /\ task' \in [Process -> Work]
  BY ProcessDoes
<1>2. /\ HoldsAt(p) /\ task[p].tries \in Nat /\ (Has(p) => task[p].id \in Item)
  BY TaskParts DEF ProcessTypeInv, WorkTypes
<1>3. HoldsAt(p)'
  <2>1. CASE Looks(p)
    BY <1>2, <2>1 DEF Looks, HoldsAt, Has, Owns
  <2>2. CASE Loses(p) \/ Saves(p) \/ Breaks(p)
    BY <2>2 DEF Loses, Saves, Breaks, HoldsAt, Has, Owns
  <2>3. CASE Begins(p)
    <3>1. task'[p].id = task[p].id /\ task'[p].tries = task[p].tries
      BY <2>3 DEF Begins, Marks
    <3> QED
      BY <1>2, <2>3, <3>1 DEF Begins, HoldsAt, Has, Owns
  <2>4. CASE Retries(p)
    <3>1. task'[p].id = task[p].id /\ task'[p].tries = task[p].tries + 1 /\ task'[p].status = "retrying"
      BY <2>4 DEF Retries, Marks
    <3> QED
      BY <1>2, <2>4, <3>1 DEF Retries, HoldsAt, Has, Owns
  <2>5. CASE PutsBack(p)
    BY <1>2, <2>5 DEF PutsBack, HoldsAt, Has, Owns
  <2>6. ASSUME NEW d \in pipe, Takes(p, d) PROVE HoldsAt(p)'
    <3>1. task'[p].id = d.id /\ task'[p].tries = d.tries
      BY <2>6 DEF Takes
    <3>2. d.id \in Item /\ d.tries <= MaxAttempts[d.id]
      BY DEF ProcessTypeInv, DataTypes, TaskEntry
    <3> QED
      BY <2>6, <3>1, <3>2 DEF Takes, HoldsAt, Has, Owns
  <2>7. ASSUME NEW s \in Finished, NEW n \in Nat, Ends(p, s, n) PROVE HoldsAt(p)'
    <3>1. task'[p].id = task[p].id /\ task'[p].status = s
      BY <2>7 DEF Ends, Marks
    <3> QED
      BY <1>2, <2>7, <3>1 DEF Ends, HoldsAt, Has, Owns
  <2> QED
    BY <1>1, <2>1, <2>2, <2>3, <2>4, <2>5, <2>6, <2>7 DEF Does
<1> QED
  BY <1>1, <1>3, OthersHold DEF ProcessTypeInv, WorkTypes

LEMMA TypeProcessData ==
    ASSUME ProcessTypeInv, NEW p \in Process, ProcessStep(p)
    PROVE  DataTypes'
<1>1. Does(p) /\ DataTypes
  BY ProcessDoes DEF ProcessTypeInv
<1>2. Has(p) => task[p].id \in Item
  BY TaskParts
<1>3. ASSUME NEW s \in Stages, NEW n \in Nat, Marks(p, s, n), Has(p) PROVE life' \in [Item -> Life]
  <2>1. [stage |-> s, tries |-> n] \in Life
    BY DEF Life
  <2> QED
    BY <1>2, <1>3, <2>1, LifeEffect DEF Marks
<1>4. CASE Looks(p)
  BY <1>1, <1>4 DEF Looks, data, tally, DataTypes
<1>5. CASE Loses(p)
  <2>1. task[p].id \in Item
    BY <1>2, <1>5 DEF Loses, Has, Owns
  <2> QED
    BY <1>1, <1>5, <2>1, CountEffect DEF Loses, DataTypes
<1>6. CASE Begins(p)
  <2>1. task[p].id \in Item /\ Has(p) /\ "running" \in Stages /\ task[p].tries \in Nat
    BY <1>2, <1>6, TaskParts DEF Begins, Has, Owns, Stages
  <2>2. life' \in [Item -> Life]
    BY <1>3, <1>6, <2>1 DEF Begins
  <2>3. record' \in [Item -> Stages]
    BY <1>6, <2>1, WriteEffect DEF Begins
  <2> QED
    BY <1>1, <1>6, <2>2, <2>3 DEF Begins, Marks, DataTypes, tally
<1>7. CASE Retries(p)
  <2>1. Has(p) /\ "retrying" \in Stages /\ task[p].tries + 1 \in Nat
    BY <1>7, TaskParts DEF Retries, Has, Owns, Stages
  <2>2. life' \in [Item -> Life]
    BY <1>3, <1>7, <2>1 DEF Retries
  <2> QED
    BY <1>1, <1>7, <2>2 DEF Retries, Marks, DataTypes, tally
<1>8. CASE PutsBack(p)
  <2>1. task[p].id \in Item /\ task[p].tries \in Nat /\ task[p].tries <= MaxAttempts[task[p].id]
    BY <1>8, TaskParts DEF PutsBack, Has, Owns, ProcessTypeInv, WorkTypes, HoldsAt
  <2> DEFINE e == [id |-> task[p].id, tries |-> task[p].tries]
  <2>2. e \in TaskEntry /\ e.tries <= MaxAttempts[e.id]
    BY <2>1 DEF TaskEntry
  <2>3. pipe' = pipe \cup {e}
    BY <1>8 DEF PutsBack
  <2> HIDE DEF e
  <2>4. pipe' \subseteq TaskEntry /\ \A d \in pipe' : d.tries <= MaxAttempts[d.id]
    BY <1>1, <2>2, <2>3 DEF DataTypes
  <2> QED
    BY <1>1, <1>8, <2>4 DEF PutsBack, DataTypes, tally
<1>9. CASE Saves(p)
  <2>1. task[p].id \in Item /\ task[p].status \in Stages
    BY <1>2, <1>9, TaskParts DEF Saves, Has
  <2>2. record' \in [Item -> Stages]
    BY <1>9, <2>1, WriteEffect DEF Saves
  <2> QED
    BY <1>1, <1>9, <2>2 DEF Saves, DataTypes, tally
<1>10. CASE Breaks(p)
  <2>1. task[p].id \in Item
    BY <1>2, <1>10 DEF Breaks, Has
  <2> QED
    BY <1>1, <1>10, <2>1 DEF Breaks, DataTypes, tally
<1>11. ASSUME NEW d \in pipe, Takes(p, d) PROVE DataTypes'
  BY <1>1, <1>11 DEF Takes, DataTypes, tally
<1>12. ASSUME NEW s \in Finished, NEW n \in Nat, Ends(p, s, n) PROVE DataTypes'
  <2>1. task[p].id \in Item /\ Has(p) /\ s \in Stages
    BY <1>2, <1>12 DEF Ends, Has, Owns, Stages
  <2>2. life' \in [Item -> Life]
    BY <1>3, <1>12, <2>1 DEF Ends
  <2>3. doneCount' \in Nat /\ counted' \in [Item -> Nat]
    BY <1>12, <2>1, CountEffect DEF Ends
  <2> QED
    BY <1>1, <1>12, <2>2, <2>3 DEF Ends, Marks, DataTypes
<1> QED
  BY <1>1, <1>4, <1>5, <1>6, <1>7, <1>8, <1>9, <1>10, <1>11, <1>12 DEF Does

LEMMA TypeProcess ==
    ASSUME ProcessTypeInv, NEW p \in Process, ProcessStep(p)
    PROVE  ProcessTypeInv'
<1>1. UNCHANGED <<pool, users>>
  BY ProcessFrame
<1>2. PoolTypes' /\ SubmitInv'
  BY <1>1 DEF ProcessTypeInv, PoolTypes, SubmitInv, pool, users
<1> QED
  BY <1>2, TypeProcessWork, TypeProcessData DEF ProcessTypeInv

-----------------------------------------------------------------------------
(* What each action of a user does.                                         *)

\* The lock is taken with a put, and given back with the count.
Puts(u) ==
    /\ sent \in Item /\ submitting = Nothing /\ submitting' = u
    /\ upc[u] = "idle" /\ upc' = [upc EXCEPT ![u] = "count"]
    /\ Write(sent, "pending") /\ pipe' = pipe \cup {[id |-> sent, tries |-> 0]}
    /\ life' = [life EXCEPT ![sent] = [stage |-> "pending", tries |-> life[sent].tries]]
    /\ UNCHANGED <<tally, sent, ppc, task, lost, orphaned>>

Counts(u) ==
    /\ upc[u] = "count" /\ upc' = [upc EXCEPT ![u] = "idle"]
    /\ sent' = sent + 1 /\ submitting' = Nothing
    /\ UNCHANGED <<data, ppc, task>>

\* A process is terminated, or dies, with its task; it may still write the record.
Kills(p) ==
    /\ ppc' = [ppc EXCEPT ![p] = "exit"] /\ task' = [task EXCEPT ![p] = Idle]
    /\ lost' = lost \cup (Item \cap {task[p].id}) /\ orphaned' \subseteq Item
    /\ record' \in [Item -> Stages] /\ \A t \in Item \ {task[p].id} : record'[t] = record[t]
    /\ UNCHANGED <<pool, users, pipe, tally, life>>

LEMMA DiesKills ==
    ASSUME ProcessTypeInv, NEW p \in Process, Dies(p)
    PROVE  Kills(p)
<1>1. task[p].id \in Item /\ task[p].status \in Stages
  BY TaskParts DEF Dies, Has, Owns
<1>2. record' \in [Item -> Stages] /\ \A t \in Item \ {task[p].id} : record'[t] = record[t]
  <2>1. CASE UNCHANGED record
    BY <2>1 DEF ProcessTypeInv, DataTypes
  <2>2. CASE Report(p)
    BY <1>1, <2>2, WriteEffect DEF Report
  <2> QED
    BY <2>1, <2>2 DEF Dies
<1>3. orphaned' \subseteq Item
  BY <1>1 DEF Dies, ProcessTypeInv, DataTypes
<1>4. Item \cap {task[p].id} = {task[p].id}
  BY <1>1
<1> QED
  BY <1>2, <1>3, <1>4 DEF Dies, Kills

\* Steps that touch no task: a start, a wait, a shutdown and their ends.
Manages(u) ==
    /\ UNCHANGED <<data, task, sent, submitting>>
    /\ \E from \in {"idle", "poll", "reap"}, to \in {"idle", "poll", "reap"} :
          upc[u] = from /\ upc' = [upc EXCEPT ![u] = to]
    /\ \E P \in SUBSET Process :
          /\ \A q \in P : ppc[q] = "new"
          /\ ppc' = [q \in Process |-> IF q \in P THEN "check" ELSE ppc[q]]

LEMMA UserDoes ==
    ASSUME ProcessTypeInv, NEW u \in User, UserStep(u)
    PROVE  \/ Puts(u) \/ Counts(u) \/ Manages(u)
           \/ \E p \in Process : Kills(p)
<1>1. CASE SubmitItem(u)
  <2>1. sent \in Item
    BY <1>1, ItemType DEF SubmitItem, ProcessTypeInv, PoolTypes
  <2>2. life \in [Item -> Life] /\ life[sent] \in Life
    BY <2>1 DEF ProcessTypeInv, DataTypes
  <2>3. [life[sent] EXCEPT !.stage = "pending"] = [stage |-> "pending", tries |-> life[sent].tries]
    BY <2>2 DEF Life
  <2>4. life' = [life EXCEPT ![sent].stage = "pending"]
    BY <1>1 DEF SubmitItem
  <2>5. life' = [life EXCEPT ![sent] = [life[sent] EXCEPT !.stage = "pending"]]
    BY <2>1, <2>2, <2>4
  <2> QED
    BY <1>1, <2>1, <2>3, <2>5 DEF SubmitItem, Use, Puts
<1>2. CASE CountItem(u)
  BY <1>2 DEF CountItem, Back, Counts, data
<1>3. CASE StartCrew(u)
  <2>1. PICK P \in SUBSET {q \in Process : ppc[q] = "new"} :
           ppc' = [q \in Process |-> IF q \in P THEN "check" ELSE ppc[q]]
    BY <1>3 DEF StartCrew
  <2>2. P \in SUBSET Process /\ \A q \in P : ppc[q] = "new"
    OBVIOUS
  <2>3. UNCHANGED <<data, task, sent, submitting>>
    BY <1>3 DEF StartCrew, data
  <2>4. upc[u] = "idle" /\ upc' = [upc EXCEPT ![u] = "idle"]
    BY <1>3 DEF StartCrew, Use
  <2> QED
    BY <2>1, <2>2, <2>3, <2>4 DEF Manages
<1>4. CASE WaitForAll(u) \/ PollEnds(u) \/ PollTimesOut(u) \/ ShutdownPool(u) \/ CloseManager(u)
  <2>1. UNCHANGED <<data, task, sent, submitting, ppc>>
    BY <1>4 DEF WaitForAll, PollEnds, PollTimesOut, ShutdownPool, CloseManager, data, pool
  <2>2. \E from \in {"idle", "poll", "reap"}, to \in {"idle", "poll", "reap"} :
           upc[u] = from /\ upc' = [upc EXCEPT ![u] = to]
    BY <1>4 DEF WaitForAll, PollEnds, PollTimesOut, ShutdownPool, CloseManager, Use, Back
  <2>3. ppc' = [q \in Process |-> IF q \in {} THEN "check" ELSE ppc[q]]
    BY <2>1 DEF ProcessTypeInv, WorkTypes
  <2>4. {} \in SUBSET Process /\ \A q \in {} : ppc[q] = "new"
    OBVIOUS
  <2> QED
    BY <2>1, <2>2, <2>3, <2>4 DEF Manages
<1>5. CASE Terminate(u)
  <2>1. crew \subseteq Process /\ record \in [Item -> Stages] /\ orphaned \subseteq Item
    BY DEF ProcessTypeInv, PoolTypes, DataTypes
  <2> QED
    BY <1>5, <2>1 DEF Terminate, Kills
<1> QED
  BY <1>1, <1>2, <1>3, <1>4, <1>5 DEF UserStep, UserReturns

LEMMA SubmitUsers ==
    ASSUME ProcessTypeInv, NEW u \in User, UserStep(u)
    PROVE  SubmitInv' /\ sent' \in 0..MaxSubmissions /\ submitting' \in User \cup {Nothing}
<1>1. /\ sent \in 0..MaxSubmissions /\ MaxSubmissions \in Nat /\ Nothing \notin User /\ SubmitInv
      /\ submitting \in User \cup {Nothing}
      /\ upc \in [User -> {"idle", "count", "poll", "reap"}]
  BY ProcessAssumption DEF ProcessTypeInv, PoolTypes
<1>2. CASE Puts(u)
  <2>1. sent < MaxSubmissions /\ submitting = Nothing /\ submitting' = u /\ sent' = sent
    BY <1>1, <1>2 DEF Puts, Item
  <2>2. \A v \in User : upc[v] # "count"
    BY <1>1, <2>1 DEF SubmitInv
  <2>3. \A v \in User : upc'[v] = "count" <=> v = u
    BY <1>1, <1>2, <2>2 DEF Puts
  <2> QED
    BY <1>1, <2>1, <2>3 DEF SubmitInv
<1>3. CASE Counts(u)
  <2>1. sent < MaxSubmissions /\ submitting = u /\ sent' = sent + 1 /\ submitting' = Nothing
    BY <1>1, <1>3 DEF Counts, SubmitInv
  <2>2. \A v \in User : upc'[v] # "count"
    BY <1>1, <1>3, <2>1 DEF Counts, SubmitInv
  <2>3. SubmitInv'
    BY <1>1, <2>1, <2>2 DEF SubmitInv
  <2> QED
    BY <1>1, <2>1, <2>3
<1>4. CASE Manages(u)
  <2>1. UNCHANGED <<sent, submitting>> /\ \A v \in User : upc'[v] = "count" <=> upc[v] = "count"
    BY <1>1, <1>4 DEF Manages
  <2> QED
    BY <1>1, <2>1 DEF SubmitInv
<1>5. ASSUME NEW p \in Process, Kills(p)
      PROVE  SubmitInv' /\ sent' \in 0..MaxSubmissions /\ submitting' \in User \cup {Nothing}
  <2>1. UNCHANGED <<sent, submitting, upc>>
    BY <1>5 DEF Kills, pool, users
  <2> QED
    BY <1>1, <2>1 DEF SubmitInv
<1> QED
  BY <1>2, <1>3, <1>4, <1>5, UserDoes

LEMMA UseTypes ==
    ASSUME ProcessTypeInv, NEW u \in User,
           NEW to \in {"idle", "count", "poll", "reap"}, Use(u, to)
    PROVE  upc' \in [User -> {"idle", "count", "poll", "reap"}] /\ uses' \in [User -> Nat]
<1>1. /\ upc \in [User -> {"idle", "count", "poll", "reap"}] /\ uses \in [User -> Nat]
      /\ upc' = [upc EXCEPT ![u] = to] /\ uses' = [uses EXCEPT ![u] = @ + 1]
  BY DEF ProcessTypeInv, PoolTypes, Use
<1> QED
  BY <1>1

LEMMA TypeUserPool ==
    ASSUME ProcessTypeInv, NEW u \in User, UserStep(u)
    PROVE  PoolTypes'
<1>1. /\ PoolTypes /\ sent' \in 0..MaxSubmissions /\ submitting' \in User \cup {Nothing}
  BY SubmitUsers DEF ProcessTypeInv
<1>2. upc' \in [User -> {"idle", "count", "poll", "reap"}] /\ uses' \in [User -> Nat]
  <2>1. CASE \E to \in {"idle", "count", "poll", "reap"} : Use(u, to)
    BY <2>1, UseTypes
  <2>2. CASE \E from : Back(u, from)
    BY <1>1, <2>2 DEF Back, PoolTypes
  <2>3. CASE UNCHANGED users
    BY <1>1, <2>3 DEF users, PoolTypes
  <2>4. \/ \E to \in {"idle", "count", "poll", "reap"} : Use(u, to)
        \/ \E from : Back(u, from)
        \/ UNCHANGED users
    BY DEF UserStep, UserReturns, SubmitItem, CountItem, StartCrew, WaitForAll, PollEnds,
           PollTimesOut, ShutdownPool, Terminate, CloseManager
  <2> QED
    BY <2>1, <2>2, <2>3, <2>4
<1>3. going' \in BOOLEAN /\ closed' \in BOOLEAN /\ crew' \subseteq Process
  <2>1. going' \in {TRUE, FALSE, going} /\ closed' \in {TRUE, closed}
    BY DEF UserStep, UserReturns, SubmitItem, CountItem, StartCrew, WaitForAll, PollEnds,
           PollTimesOut, ShutdownPool, Terminate, CloseManager, pool
  <2>2. crew' = crew \/ crew' \in SUBSET Process
    BY DEF UserStep, UserReturns, SubmitItem, CountItem, StartCrew, WaitForAll, PollEnds,
           PollTimesOut, ShutdownPool, Terminate, CloseManager, pool
  <2> QED
    BY <1>1, <2>1, <2>2 DEF PoolTypes
<1> QED
  BY <1>1, <1>2, <1>3 DEF PoolTypes

LEMMA TypePuts ==
    ASSUME ProcessTypeInv, NEW u \in User, Puts(u)
    PROVE  DataTypes' /\ WorkTypes'
<1>1. DataTypes /\ WorkTypes /\ sent \in Item
  BY DEF Puts, ProcessTypeInv
<1> DEFINE e == [id |-> sent, tries |-> 0]
           l == [stage |-> "pending", tries |-> life[sent].tries]
<1>2. e \in TaskEntry /\ e.tries <= MaxAttempts[e.id]
  <2>1. MaxAttempts[sent] \in Nat
    BY <1>1, ProcessAssumption
  <2> QED
    BY <1>1, <2>1 DEF TaskEntry
<1>3. l \in Life
  <2>1. life[sent].tries \in Nat
    BY <1>1, LifeParts DEF DataTypes
  <2> QED
    BY <2>1 DEF Life, Stages
<1>4. pipe' = pipe \cup {e} /\ life' = [life EXCEPT ![sent] = l]
  BY DEF Puts
<1> HIDE DEF e, l
<1>5. pipe' \subseteq TaskEntry /\ \A d \in pipe' : d.tries <= MaxAttempts[d.id]
  BY <1>1, <1>2, <1>4 DEF DataTypes
<1>6. life' \in [Item -> Life]
  BY <1>1, <1>3, <1>4, LifeEffect
<1>7. record' \in [Item -> Stages]
  <2>1. "pending" \in Stages
    BY DEF Stages
  <2> QED
    BY <1>1, <2>1, WriteEffect DEF Puts
<1>8. UNCHANGED <<tally, lost, orphaned, ppc, task>>
  BY DEF Puts
<1> QED
  BY <1>1, <1>5, <1>6, <1>7, <1>8 DEF DataTypes, WorkTypes, HoldsAt, Has, Owns, tally

LEMMA TypeKills ==
    ASSUME ProcessTypeInv, NEW p \in Process, Kills(p)
    PROVE  DataTypes' /\ WorkTypes'
<1>1. DataTypes /\ ppc \in [Process -> Places] /\ task \in [Process -> Work] /\ \A q \in Process : HoldsAt(q)
  BY DEF ProcessTypeInv, WorkTypes
<1>2. ppc' = [ppc EXCEPT ![p] = "exit"] /\ task' = [task EXCEPT ![p] = Idle]
  BY DEF Kills
<1>3. ppc' \in [Process -> Places] /\ ppc'[p] = "exit" /\ \A q \in Process : q # p => ppc'[q] = ppc[q]
  BY <1>1, <1>2 DEF Places
<1>4. task' \in [Process -> Work] /\ task'[p] = Idle /\ \A q \in Process : q # p => task'[q] = task[q]
  BY <1>1, <1>2, IdleIsWork
<1>5. HoldsAt(p)'
  BY <1>3, <1>4 DEF HoldsAt, Has, Owns
<1>6. ASSUME NEW q \in Process, q # p PROVE HoldsAt(q)'
  BY <1>1, <1>3, <1>4, <1>6 DEF HoldsAt, Has, Owns
<1>7. DataTypes'
  BY <1>1 DEF Kills, DataTypes, tally
<1> QED
  BY <1>3, <1>4, <1>5, <1>6, <1>7 DEF WorkTypes

LEMMA TypeUserWork ==
    ASSUME ProcessTypeInv, NEW u \in User, UserStep(u)
    PROVE  DataTypes' /\ WorkTypes'
<1>1. DataTypes /\ ppc \in [Process -> Places] /\ task \in [Process -> Work] /\ \A p \in Process : HoldsAt(p)
  BY DEF ProcessTypeInv, WorkTypes
<1>2. CASE Puts(u)
  BY <1>2, TypePuts
<1>3. CASE Counts(u)
  BY <1>1, <1>3 DEF Counts, data, tally, DataTypes, WorkTypes, HoldsAt, Has, Owns
<1>4. CASE Manages(u)
  <2>1. UNCHANGED <<data, task>>
    BY <1>4 DEF Manages
  <2>2. PICK P \in SUBSET Process :
          /\ \A q \in P : ppc[q] = "new"
          /\ ppc' = [q \in Process |-> IF q \in P THEN "check" ELSE ppc[q]]
    BY <1>4 DEF Manages
  <2>3. ppc' \in [Process -> Places]
    BY <1>1, <2>2 DEF Places
  <2>4. ASSUME NEW q \in Process PROVE HoldsAt(q)'
    BY <1>1, <2>1, <2>2 DEF HoldsAt, Has, Owns
  <2> QED
    BY <1>1, <2>1, <2>3, <2>4 DEF WorkTypes, DataTypes, data, tally
<1>5. ASSUME NEW p \in Process, Kills(p) PROVE DataTypes' /\ WorkTypes'
  BY <1>5, TypeKills
<1> QED
  BY <1>2, <1>3, <1>4, <1>5, UserDoes

LEMMA TypeUser ==
    ASSUME ProcessTypeInv, NEW u \in User, UserStep(u)
    PROVE  ProcessTypeInv'
  BY TypeUserPool, TypeUserWork, SubmitUsers DEF ProcessTypeInv

LEMMA TypeDies ==
    ASSUME ProcessTypeInv, NEW p \in Process, Dies(p)
    PROVE  ProcessTypeInv'
<1>1. UNCHANGED <<pool, users>> /\ Kills(p)
  BY DiesKills DEF Kills
<1>2. PoolTypes' /\ SubmitInv'
  BY <1>1 DEF ProcessTypeInv, PoolTypes, SubmitInv, pool, users
<1> QED
  BY <1>1, <1>2, TypeKills DEF ProcessTypeInv

LEMMA ProcessTypeStep == ProcessTypeInv /\ [ProcessNext]_ppVars => ProcessTypeInv'
<1> SUFFICES ASSUME ProcessTypeInv, [ProcessNext]_ppVars PROVE ProcessTypeInv'
  OBVIOUS
<1>1. CASE UNCHANGED ppVars
  BY <1>1 DEF ppVars, ProcessTypeInv, PoolTypes, DataTypes, WorkTypes, SubmitInv, HoldsAt, Has, Owns
<1> QED
  BY <1>1, TypeProcess, TypeUser, TypeDies DEF ProcessNext

LEMMA ProcessTypeInit == ProcessInit => ProcessTypeInv
<1> SUFFICES ASSUME ProcessInit PROVE ProcessTypeInv
  OBVIOUS
<1>1. PoolTypes /\ SubmitInv
  <2>1. sent \in 0..MaxSubmissions
    BY ProcessAssumption DEF ProcessInit
  <2>2. upc \in [User -> {"idle", "count", "poll", "reap"}] /\ uses \in [User -> Nat]
    BY DEF ProcessInit
  <2>3. \A u \in User : upc[u] # "count" /\ submitting # u
    BY ProcessAssumption DEF ProcessInit
  <2> QED
    BY <2>1, <2>2, <2>3 DEF ProcessInit, PoolTypes, SubmitInv
<1>2. DataTypes
  <2>1. [stage |-> "none", tries |-> 0] \in Life /\ "none" \in Stages
    BY DEF Life, Stages
  <2> QED
    BY <2>1 DEF ProcessInit, DataTypes
<1>3. WorkTypes
  BY IdleIsWork DEF ProcessInit, WorkTypes, HoldsAt, Has, Owns, Places
<1> QED
  BY <1>1, <1>2, <1>3 DEF ProcessTypeInv

LEMMA TypeInvCorrect == ProcessSpec => []ProcessTypeInv
  BY ProcessTypeInit, ProcessTypeStep, PTL DEF ProcessSpec

\* The variables keep their types: no task is tried more often than it may be.
THEOREM ProcessTypeOKCorrect == ProcessSpec => []ProcessTypeOK
<1>1. ProcessTypeInv => ProcessTypeOK
  <2> SUFFICES ASSUME ProcessTypeInv PROVE ProcessTypeOK
    OBVIOUS
  <2>1. \A d \in pipe : d.id \in Item /\ d.tries \in 0..MaxAttempts[d.id]
    BY ProcessAssumption DEF ProcessTypeInv, DataTypes, TaskEntry
  <2>2. record \in [Item -> {"none", "pending", "running", "retrying"} \cup Finished]
    BY DEF ProcessTypeInv, DataTypes, Stages
  <2>3. \A p \in Process : task[p] = Idle \/ task[p].id \in Item
    BY TaskParts
  <2>4. ppc \in [Process -> {"new", "check", "get", "load", "run", "putback", "save", "exit"}]
    BY DEF ProcessTypeInv, WorkTypes, Places
  <2> QED
    BY <2>1, <2>2, <2>3, <2>4 DEF ProcessTypeInv, PoolTypes, DataTypes, ProcessTypeOK
<1> QED
  BY <1>1, TypeInvCorrect, PTL

-----------------------------------------------------------------------------
(* What a step of a process leaves of the invariant.                        *)

LEMMA GivenStays ==
    ASSUME ProcessTypeInv, NEW p \in Process, ProcessStep(p)
    PROVE  \A t : ProcessGiven(t)' <=> ProcessGiven(t)
<1>1. UNCHANGED <<sent, upc>>
  BY ProcessFrame DEF pool, users
<1> QED
  BY <1>1 DEF ProcessGiven

\* Who owns a task can still work on it.
LEMMA OwnerWorks ==
    ASSUME ProcessInv, NEW p \in Process, Owns(p)
    PROVE  /\ task[p].id \in Item /\ life[task[p].id] \in Life /\ ProcessGiven(task[p].id)
           /\ life[task[p].id].stage \notin Finished \cup {"none"}
           /\ life[task[p].id].tries = task[p].tries
           /\ task[p].id \notin Counted
<1>1. task[p].id \in Item
  BY TaskParts DEF Has, ProcessInv
<1>2. life[task[p].id].stage \in {"pending", "retrying", "running"}
  BY DEF ProcessInv, ProcessRest, LifeInv, AtWork, Owns
<1>3. life[task[p].id].tries = task[p].tries
  BY DEF ProcessInv, ProcessRest, LifeInv, AtWork
<1>4. ProcessGiven(task[p].id) /\ task[p].id \notin Counted
  BY DEF ProcessInv, ProcessRest, ProcessPlaceInv, ProcessCountInv
<1> QED
  BY <1>1, <1>2, <1>3, <1>4 DEF ProcessInv, ProcessTypeInv, DataTypes, Finished

\* The life of a task changes only while p owns it.
OnlyOwn(p) == \A t \in Item : life'[t] # life[t] => Owns(p) /\ t = task[p].id

LEMMA PlaceShrinks ==
    ASSUME ProcessInv, NEW p \in Process, ProcessStep(p), pipe' \subseteq pipe, OnlyOwn(p),
           Owns(p)' => Owns(p) /\ task'[p].id = task[p].id
    PROVE  ProcessPlaceInv'
<1>1. /\ \A t : ProcessGiven(t)' <=> ProcessGiven(t)
      /\ \A q \in Process : q # p => (Owns(q)' <=> Owns(q)) /\ task'[q] = task[q]
  BY GivenStays, OthersHold DEF ProcessInv
<1>2. \A q \in Process : Owns(q)' => Owns(q) /\ task'[q].id = task[q].id
  BY <1>1
<1>3. \A t \in Item : ~ProcessGiven(t) => Unborn(t)'
  BY OwnerWorks DEF OnlyOwn, ProcessInv, ProcessRest, ProcessPlaceInv, Unborn
<1>4. ProcessPlaceInv
  BY DEF ProcessInv, ProcessRest
<1> HIDE DEF ProcessInv
<1> QED
  BY <1>1, <1>2, <1>3, <1>4 DEF ProcessPlaceInv

LEMMA LifeElsewhere ==
    ASSUME ProcessInv, NEW p \in Process, ProcessStep(p), OnlyOwn(p),
           Owns(p) => life'[task[p].id].tries >= life[task[p].id].tries /\ life'[task[p].id].tries \in Nat
    PROVE  /\ \A q \in Process : q # p => AtWork(q)'
           /\ \A d \in pipe : InPipe(d)'
<1>1. \A q \in Process : q # p => (Owns(q)' <=> Owns(q)) /\ task'[q] = task[q] /\ ppc'[q] = ppc[q]
  BY OthersHold DEF ProcessInv
<1>2. /\ \A q \in Process : AtWork(q)
      /\ \A d \in pipe : InPipe(d) /\ d.id \in Item
  BY DEF ProcessInv, ProcessRest, LifeInv, ProcessTypeInv, DataTypes, TaskEntry
<1>3. ASSUME NEW d \in pipe PROVE InPipe(d)'
  <2>1. life'[d.id] = life[d.id]
    BY <1>2 DEF OnlyOwn, ProcessInv, ProcessRest, ProcessPlaceInv
  <2> QED
    BY <1>2, <2>1 DEF InPipe
<1>4. ASSUME NEW q \in Process, q # p PROVE AtWork(q)'
  <2>1. CASE ~Has(q)
    BY <1>1, <1>4, <2>1 DEF AtWork, Has, Owns
  <2>2. CASE Has(q) /\ life'[task[q].id] = life[task[q].id]
    BY <1>1, <1>2, <1>4, <2>2 DEF AtWork, Owns
  <2>3. CASE Has(q) /\ life'[task[q].id] # life[task[q].id]
    <3>1. task[q].id \in Item
      BY <2>3, TaskParts DEF ProcessInv
    <3>2. Owns(p) /\ task[q].id = task[p].id
      BY <2>3, <3>1 DEF OnlyOwn
    <3>3. ~Owns(q) /\ ppc[q] = "save"
      BY <1>4, <2>3, <3>2 DEF Has, ProcessInv, ProcessRest, ProcessPlaceInv
    <3>4. /\ life[task[p].id].stage \notin Finished /\ life[task[p].id].tries \in Nat
          /\ life'[task[p].id].tries >= life[task[p].id].tries /\ life'[task[p].id].tries \in Nat
      BY <3>2, OwnerWorks, LifeParts
    <3>5. task[q].status = "retrying" /\ life[task[q].id].tries > 0
      BY <1>2, <3>2, <3>3, <3>4 DEF AtWork
    <3>6. life'[task[q].id].tries > 0
      BY <3>2, <3>4, <3>5
    <3>7. task'[q] = task[q] /\ ppc'[q] = "save" /\ ~Owns(q)'
      BY <1>1, <1>4, <3>3
    <3> QED
      BY <3>5, <3>6, <3>7 DEF AtWork
  <2> QED
    BY <2>1, <2>2, <2>3
<1> QED
  BY <1>3, <1>4

\* A record that the step does not concern.
LEMMA RecordKept ==
    ASSUME ProcessTypeInv, NEW p \in Process, ProcessStep(p), NEW t \in Item, RecordAt(t), ~Reports(p, t),
           life'[t] = life[t], record'[t] = record[t]
    PROVE  RecordAt(t)'
<1>1. \A q \in Process : q # p => task'[q] = task[q] /\ ppc'[q] = ppc[q]
  BY OthersHold
<1>2. ASSUME NEW q \in Process, Reports(q, t) PROVE Reports(q, t)'
  BY <1>1, <1>2 DEF Reports
<1> QED
  BY <1>2 DEF RecordAt

LEMMA CountStays ==
    ASSUME ProcessInv, NEW p \in Process, ProcessStep(p), OnlyOwn(p), UNCHANGED tally, lost \subseteq lost',
           \A d \in pipe' : d \in pipe \/ (Owns(p) /\ d.id = task[p].id),
           Owns(p)' => \/ Owns(p) /\ task'[p].id = task[p].id
                       \/ \E d \in pipe : task'[p].id = d.id
    PROVE  ProcessCountInv'
<1>1. /\ \A t : ProcessGiven(t)' <=> ProcessGiven(t)
      /\ \A q \in Process : q # p => (Owns(q)' <=> Owns(q)) /\ task'[q] = task[q]
  BY GivenStays, OthersHold DEF ProcessInv
<1>2. doneCount' = doneCount /\ Counted' = Counted /\ ProcessCountInv
  BY DEF tally, Counted, ProcessInv, ProcessRest
<1>3. ASSUME NEW t \in Counted PROVE ProcessGiven(t)' /\ (life'[t].stage \in Finished \/ t \in lost')
  <2>1. t \in Item /\ life'[t] = life[t]
    BY OwnerWorks DEF OnlyOwn, Counted
  <2> QED
    BY <1>1, <1>2, <2>1 DEF ProcessCountInv
<1>4. \A d \in pipe' : d.id \notin Counted
  BY <1>2, OwnerWorks DEF ProcessCountInv
<1>5. ASSUME NEW q \in Process, Owns(q)' PROVE task'[q].id \notin Counted
  <2>1. CASE q = p
    BY <1>2, <1>5, <2>1 DEF ProcessCountInv
  <2>2. CASE q # p
    BY <1>1, <1>2, <1>5, <2>2 DEF ProcessCountInv
  <2> QED
    BY <2>1, <2>2
<1> QED
  BY <1>2, <1>3, <1>4, <1>5 DEF ProcessCountInv

LEMMA CountGrows ==
    ASSUME ProcessInv, NEW p \in Process, ProcessStep(p), OnlyOwn(p), Owns(p), ~Owns(p)',
           CountDone(task[p].id), pipe' = pipe, lost \subseteq lost',
           life'[task[p].id].stage \in Finished \/ task[p].id \in lost'
    PROVE  ProcessCountInv'
<1> DEFINE i == task[p].id
<1>1. /\ \A t : ProcessGiven(t)' <=> ProcessGiven(t)
      /\ \A q \in Process : q # p => (Owns(q)' <=> Owns(q)) /\ task'[q] = task[q]
  BY GivenStays, OthersHold DEF ProcessInv
<1>2. /\ i \in Item /\ ProcessGiven(i) /\ i \notin Counted /\ counted \in [Item -> Nat] /\ ProcessCountInv
      /\ doneCount \in Nat
  BY OwnerWorks DEF ProcessInv, ProcessRest, ProcessTypeInv, DataTypes
<1>3. /\ doneCount' = doneCount + 1 /\ counted'[i] = counted[i] + 1
      /\ \A t \in Item : t # i => counted'[t] = counted[t]
  BY <1>2, CountEffect DEF ProcessInv
<1>4. Counted' = Counted \cup {i}
  <2>1. counted[i] \in Nat /\ counted'[i] > 0
    BY <1>2, <1>3
  <2> QED
    BY <1>2, <1>3, <2>1 DEF Counted
<1>5. doneCount' = Cardinality(Counted')
  <2>1. IsFiniteSet(Counted)
    BY ItemType, FS_Subset DEF Counted
  <2>2. Cardinality(Counted') = Cardinality(Counted) + 1
    BY <1>2, <1>4, <2>1, FS_AddElement
  <2> QED
    BY <1>2, <1>3, <2>2 DEF ProcessCountInv
<1>6. ASSUME NEW t \in Counted' PROVE ProcessGiven(t)' /\ (life'[t].stage \in Finished \/ t \in lost')
  <2>1. CASE t = i
    BY <1>1, <1>2, <2>1
  <2>2. CASE t # i
    <3>1. t \in Counted /\ t \in Item /\ life'[t] = life[t]
      BY <1>4, <2>2 DEF OnlyOwn, Counted
    <3> QED
      BY <1>1, <1>2, <3>1 DEF ProcessCountInv
  <2> QED
    BY <2>1, <2>2
<1>7. \A d \in pipe' : d.id \notin Counted'
  BY <1>2, <1>4 DEF ProcessCountInv, ProcessInv, ProcessRest, ProcessPlaceInv
<1>8. ASSUME NEW q \in Process, Owns(q)' PROVE task'[q].id \notin Counted'
  <2>1. q # p /\ Owns(q) /\ task'[q] = task[q]
    BY <1>1, <1>8
  <2>2. task[q].id # i
    BY <2>1 DEF ProcessInv, ProcessRest, ProcessPlaceInv
  <2> QED
    BY <1>2, <1>4, <2>1, <2>2 DEF ProcessCountInv
<1> QED
  BY <1>5, <1>6, <1>7, <1>8 DEF ProcessCountInv

LEMMA MarksEffect ==
    ASSUME ProcessInv, NEW p \in Process, Owns(p), NEW s \in Stages, NEW n \in Nat, Marks(p, s, n)
    PROVE  /\ OnlyOwn(p) /\ life'[task[p].id].stage = s /\ life'[task[p].id].tries = n
           /\ task'[p].id = task[p].id /\ task'[p].tries = n /\ task'[p].status = s
           /\ UNCHANGED <<pipe, lost>>
<1>1. task[p].id \in Item /\ [stage |-> s, tries |-> n] \in Life
  BY OwnerWorks DEF Life
<1>2. life'[task[p].id] = [stage |-> s, tries |-> n] /\ \A i \in Item : i # task[p].id => life'[i] = life[i]
  BY <1>1, LifeEffect DEF Marks, ProcessInv
<1>3. OnlyOwn(p)
  BY <1>2 DEF OnlyOwn
<1> QED
  BY <1>2, <1>3 DEF Marks

-----------------------------------------------------------------------------
(* The steps of a process, one by one.                                      *)

LEMMA RestLooks ==
    ASSUME ProcessInv, NEW p \in Process, ProcessStep(p), Looks(p)
    PROVE  ProcessRest'
<1>1. /\ UNCHANGED <<task, pipe, record, tally, life, lost>> /\ ~Has(p) /\ ~Has(p)' /\ ~Owns(p) /\ ~Owns(p)'
      /\ OnlyOwn(p)
  BY DEF Looks, data, Has, Owns, OnlyOwn
<1>2. ProcessPlaceInv'
  BY <1>1, PlaceShrinks
<1>3. LifeInv'
  <2>1. AtWork(p)'
    BY <1>1 DEF AtWork, Has, Owns
  <2> QED
    BY <1>1, <2>1, LifeElsewhere DEF LifeInv
<1>4. RecordInv'
  BY <1>1, RecordKept DEF RecordInv, Reports, Has, ProcessInv, ProcessRest
<1>5. ProcessCountInv'
  BY <1>1, CountStays
<1> QED
  BY <1>2, <1>3, <1>4, <1>5 DEF ProcessRest

LEMMA RestTakes ==
    ASSUME ProcessInv, NEW p \in Process, ProcessStep(p), NEW d \in pipe, Takes(p, d)
    PROVE  ProcessRest'
<1>1. /\ UNCHANGED <<record, tally, life, lost>> /\ pipe' = pipe \ {d} /\ ~Has(p) /\ ~Owns(p) /\ Owns(p)'
      /\ ppc'[p] = "load" /\ task'[p].id = d.id /\ task'[p].tries = d.tries /\ OnlyOwn(p) /\ ~Reports(p, d.id)
  BY DEF Takes, Has, Owns, OnlyOwn, Reports
<1>2. /\ \A t : ProcessGiven(t)' <=> ProcessGiven(t)
      /\ \A q \in Process : q # p => (Owns(q)' <=> Owns(q)) /\ task'[q] = task[q]
  BY GivenStays, OthersHold DEF ProcessInv
<1>3. ProcessPlaceInv'
  <2>1. ProcessPlaceInv /\ d.id \in Item
    BY DEF ProcessInv, ProcessRest, ProcessTypeInv, DataTypes, TaskEntry
  <2>2. \A q \in Process : Owns(q)' => \/ q = p /\ task'[q].id = d.id
                                       \/ q # p /\ Owns(q) /\ task'[q].id = task[q].id /\ task[q].id # d.id
    BY <1>1, <1>2, <2>1 DEF ProcessPlaceInv
  <2>3. \A e \in pipe' : e \in pipe /\ e.id # d.id
    BY <1>1, <2>1 DEF ProcessPlaceInv
  <2>4. \A q, r \in Process : Owns(q)' /\ Owns(r)' /\ task'[q].id = task'[r].id => q = r
    BY <2>1, <2>2 DEF ProcessPlaceInv
  <2>5. \A e \in pipe', q \in Process : Owns(q)' => task'[q].id # e.id
    BY <2>1, <2>2, <2>3 DEF ProcessPlaceInv
  <2>6. \A q \in Process : Owns(q)' => ProcessGiven(task'[q].id)
    BY <2>1, <2>2 DEF ProcessPlaceInv
  <2>7. \A q \in Process : Owns(q)' => ProcessGiven(task[q].id)'
    <3>1. ASSUME NEW q \in Process, NEW t, t = task'[q].id, Owns(q)' PROVE ProcessGiven(t)'
      BY <1>2, <2>6, <3>1
    <3> QED
      BY <3>1 DEF ProcessGiven
  <2>8. \A e \in pipe' : ProcessGiven(e.id)'
    BY <1>2, <2>1, <2>3 DEF ProcessPlaceInv
  <2>9. \A t \in Item : ~ProcessGiven(t)' => Unborn(t)'
    BY <1>1, <1>2, <2>1 DEF ProcessPlaceInv, Unborn
  <2> QED
    BY <2>1, <2>3, <2>4, <2>5, <2>7, <2>8, <2>9 DEF ProcessPlaceInv
<1>4. LifeInv'
  <2>1. AtWork(p)'
    BY <1>1 DEF AtWork, Owns, ProcessInv, ProcessRest, LifeInv, InPipe
  <2> QED
    BY <1>1, <2>1, LifeElsewhere DEF LifeInv
<1>5. RecordInv'
  BY <1>1, RecordKept DEF RecordInv, Reports, Has, ProcessInv, ProcessRest
<1>6. ProcessCountInv'
  BY <1>1, CountStays
<1> QED
  BY <1>3, <1>4, <1>5, <1>6 DEF ProcessRest

LEMMA RestLoses ==
    ASSUME ProcessInv, NEW p \in Process, ProcessStep(p), Loses(p)
    PROVE  ProcessRest'
<1>1. /\ UNCHANGED <<pipe, record, life>> /\ lost' = lost \cup {task[p].id} /\ CountDone(task[p].id)
      /\ Owns(p) /\ ~Has(p)' /\ ~Owns(p)' /\ ppc[p] = "load" /\ OnlyOwn(p)
  BY DEF Loses, Has, Owns, OnlyOwn
<1>2. ProcessPlaceInv'
  BY <1>1, PlaceShrinks
<1>3. LifeInv'
  <2>1. AtWork(p)'
    BY <1>1 DEF AtWork, Has, Owns
  <2>2. life[task[p].id].tries \in Nat
    BY <1>1, OwnerWorks, LifeParts
  <2> QED
    BY <1>1, <2>1, <2>2, LifeElsewhere DEF LifeInv
<1>4. RecordInv'
  BY <1>1, RecordKept DEF RecordInv, Reports, ProcessInv, ProcessRest
<1>5. ProcessCountInv'
  BY <1>1, CountGrows
<1> QED
  BY <1>2, <1>3, <1>4, <1>5 DEF ProcessRest

LEMMA RestBegins ==
    ASSUME ProcessInv, NEW p \in Process, ProcessStep(p), Begins(p)
    PROVE  ProcessRest'
<1>1. /\ Owns(p) /\ Owns(p)' /\ ppc[p] = "load" /\ ppc'[p] = "run" /\ UNCHANGED tally
      /\ task[p].tries \in Nat /\ task[p].id \in Item /\ "running" \in Stages
  BY TaskParts DEF Begins, Owns, Has, ProcessInv, Stages
<1>2. /\ OnlyOwn(p) /\ life'[task[p].id].stage = "running" /\ life'[task[p].id].tries = task[p].tries
      /\ task'[p].id = task[p].id /\ task'[p].tries = task[p].tries /\ UNCHANGED <<pipe, lost>>
  BY <1>1, MarksEffect DEF Begins
<1>3. ProcessPlaceInv'
  BY <1>1, <1>2, PlaceShrinks
<1>4. LifeInv'
  <2>1. AtWork(p)'
    BY <1>1, <1>2 DEF AtWork
  <2>2. life'[task[p].id].tries >= life[task[p].id].tries
    BY <1>1, <1>2, OwnerWorks
  <2> QED
    BY <1>1, <1>2, <2>1, <2>2, LifeElsewhere DEF LifeInv
<1>5. RecordInv'
  <2> SUFFICES ASSUME NEW t \in Item \ lost PROVE RecordAt(t)'
    BY <1>2 DEF RecordInv
  <2>1. CASE t = task[p].id
    BY <1>2, <2>1 DEF RecordAt, Finished
  <2>2. CASE t # task[p].id
    <3>1. life'[t] = life[t] /\ record'[t] = record[t]
      BY <1>1, <1>2, <2>2, WriteEffect DEF OnlyOwn, Begins, ProcessInv, Stages
    <3> QED
      BY <1>1, <3>1, RecordKept DEF RecordInv, Reports, ProcessInv, ProcessRest
  <2> QED
    BY <2>1, <2>2
<1>6. ProcessCountInv'
  BY <1>1, <1>2, CountStays
<1> QED
  BY <1>3, <1>4, <1>5, <1>6 DEF ProcessRest

LEMMA RestRetries ==
    ASSUME ProcessInv, NEW p \in Process, ProcessStep(p), Retries(p)
    PROVE  ProcessRest'
<1>1. /\ Owns(p) /\ Owns(p)' /\ ppc[p] = "run" /\ ppc'[p] = "putback" /\ UNCHANGED <<record, tally>>
      /\ task[p].tries \in Nat /\ task[p].id \in Item /\ "retrying" \in Stages
  BY TaskParts DEF Retries, Owns, Has, ProcessInv, Stages
<1>2. /\ OnlyOwn(p) /\ life'[task[p].id].stage = "retrying" /\ life'[task[p].id].tries = task[p].tries + 1
      /\ task'[p].id = task[p].id /\ task'[p].tries = task[p].tries + 1 /\ UNCHANGED <<pipe, lost>>
  BY <1>1, MarksEffect DEF Retries
<1>3. ProcessPlaceInv'
  BY <1>1, <1>2, PlaceShrinks
<1>4. LifeInv'
  <2>1. AtWork(p)'
    BY <1>1, <1>2 DEF AtWork
  <2>2. life'[task[p].id].tries >= life[task[p].id].tries
    BY <1>1, <1>2, OwnerWorks
  <2> QED
    BY <1>1, <1>2, <2>1, <2>2, LifeElsewhere DEF LifeInv
<1>5. RecordInv'
  <2> SUFFICES ASSUME NEW t \in Item \ lost PROVE RecordAt(t)'
    BY <1>2 DEF RecordInv
  <2>1. CASE t = task[p].id
    BY <1>2, <2>1 DEF RecordAt, Finished
  <2>2. CASE t # task[p].id
    <3>1. life'[t] = life[t] /\ record'[t] = record[t]
      BY <1>1, <1>2, <2>2 DEF OnlyOwn
    <3> QED
      BY <1>1, <3>1, RecordKept DEF RecordInv, Reports, ProcessInv, ProcessRest
  <2> QED
    BY <2>1, <2>2
<1>6. ProcessCountInv'
  BY <1>1, <1>2, CountStays
<1> QED
  BY <1>3, <1>4, <1>5, <1>6 DEF ProcessRest

LEMMA RestEnds ==
    ASSUME ProcessInv, NEW p \in Process, ProcessStep(p), NEW s \in Finished, NEW n \in Nat, Ends(p, s, n)
    PROVE  ProcessRest'
<1>1. /\ Owns(p) /\ ~Owns(p)' /\ ppc[p] = "run" /\ ppc'[p] = "save" /\ UNCHANGED record
      /\ task[p].tries \in Nat /\ task[p].id \in Item /\ s \in Stages
      /\ n = task[p].tries \/ n = task[p].tries + 1
  BY TaskParts DEF Ends, Owns, Has, ProcessInv, Stages
<1>2. /\ OnlyOwn(p) /\ life'[task[p].id].stage = s /\ life'[task[p].id].tries = n
      /\ task'[p].id = task[p].id /\ task'[p].status = s /\ UNCHANGED <<pipe, lost>>
  BY <1>1, MarksEffect DEF Ends
<1>3. ProcessPlaceInv'
  BY <1>1, <1>2, PlaceShrinks
<1>4. LifeInv'
  <2>1. AtWork(p)'
    BY <1>1, <1>2 DEF AtWork
  <2>2. life'[task[p].id].tries >= life[task[p].id].tries
    BY <1>1, <1>2, OwnerWorks
  <2> QED
    BY <1>1, <1>2, <2>1, <2>2, LifeElsewhere DEF LifeInv
<1>5. RecordInv'
  <2> SUFFICES ASSUME NEW t \in Item \ lost PROVE RecordAt(t)'
    BY <1>2 DEF RecordInv
  <2>1. CASE t = task[p].id
    <3>1. Reports(p, t)'
      BY <1>1, <1>2, <2>1 DEF Reports
    <3> QED
      BY <3>1 DEF RecordAt
  <2>2. CASE t # task[p].id
    <3>1. life'[t] = life[t] /\ record'[t] = record[t]
      BY <1>1, <1>2, <2>2 DEF OnlyOwn
    <3> QED
      BY <1>1, <3>1, RecordKept DEF RecordInv, Reports, ProcessInv, ProcessRest
  <2> QED
    BY <2>1, <2>2
<1>6. ProcessCountInv'
  <2>1. CountDone(task[p].id)
    BY DEF Ends
  <2> QED
    BY <1>1, <1>2, <2>1, CountGrows
<1> QED
  BY <1>3, <1>4, <1>5, <1>6 DEF ProcessRest

LEMMA RestPutsBack ==
    ASSUME ProcessInv, NEW p \in Process, ProcessStep(p), PutsBack(p)
    PROVE  ProcessRest'
<1> DEFINE e == [id |-> task[p].id, tries |-> task[p].tries]
<1>1. /\ UNCHANGED <<task, record, tally, life, lost>> /\ pipe' = pipe \cup {e}
      /\ e.id = task[p].id /\ e.tries = task[p].tries
      /\ Owns(p) /\ ~Owns(p)' /\ ppc[p] = "putback" /\ ppc'[p] = "save" /\ OnlyOwn(p)
  BY DEF PutsBack, Owns, OnlyOwn
<1> HIDE DEF e
<1>2. /\ \A t : ProcessGiven(t)' <=> ProcessGiven(t)
      /\ \A q \in Process : Owns(q)' <=> Owns(q) /\ q # p
  BY <1>1, GivenStays, OthersHold DEF ProcessInv
<1>3. ProcessPlaceInv'
  <2>1. ProcessPlaceInv /\ e.id \in Item /\ ProcessGiven(e.id)
    BY <1>1, OwnerWorks DEF ProcessInv, ProcessRest
  <2>2. \A q \in Process : Owns(q) /\ q # p => task[q].id # e.id
    BY <1>1, <2>1 DEF ProcessPlaceInv
  <2>3. \A d \in pipe : d.id # e.id
    BY <1>1, <2>1 DEF ProcessPlaceInv
  <2>4. \A d, f \in pipe' : d.id = f.id => d = f
    BY <1>1, <2>1, <2>3 DEF ProcessPlaceInv
  <2>5. \A q, r \in Process : Owns(q)' /\ Owns(r)' /\ task'[q].id = task'[r].id => q = r
    BY <1>1, <1>2, <2>1 DEF ProcessPlaceInv
  <2>6. \A d \in pipe', q \in Process : Owns(q)' => task'[q].id # d.id
    BY <1>1, <1>2, <2>1, <2>2 DEF ProcessPlaceInv
  <2>7. \A d \in pipe' : ProcessGiven(d.id)'
    BY <1>1, <1>2, <2>1 DEF ProcessPlaceInv
  <2>8. \A q \in Process : Owns(q)' => ProcessGiven(task[q].id)'
    <3>1. ASSUME NEW q \in Process, NEW t, t = task[q].id, Owns(q)' PROVE ProcessGiven(t)'
      BY <1>2, <2>1, <3>1 DEF ProcessPlaceInv
    <3> QED
      BY <1>1, <3>1 DEF ProcessGiven
  <2>9. \A t \in Item : ~ProcessGiven(t)' => Unborn(t)'
    BY <1>1, <1>2, <2>1 DEF ProcessPlaceInv, Unborn
  <2> QED
    BY <2>4, <2>5, <2>6, <2>7, <2>8, <2>9 DEF ProcessPlaceInv
<1>4. LifeInv'
  <2>1. AtWork(p) /\ life[task[p].id].tries \in Nat
    BY <1>1, OwnerWorks, LifeParts DEF ProcessInv, ProcessRest, LifeInv
  <2>2. AtWork(p)' /\ InPipe(e)'
    <3>1. task[p].status = "retrying"
      BY <1>1 DEF ProcessInv, ProcessTypeInv, WorkTypes, HoldsAt
    <3>2. AtWork(p)'
      BY <1>1, <2>1, <3>1 DEF AtWork
    <3>3. InPipe(e)
      BY <1>1, <2>1 DEF AtWork, InPipe
    <3>4. ASSUME NEW d, d = e PROVE InPipe(d)'
      BY <1>1, <3>3, <3>4 DEF InPipe
    <3> QED
      BY <1>1, <3>2, <3>4 DEF e
  <2>3. /\ \A q \in Process : q # p => AtWork(q)'
        /\ \A d \in pipe : InPipe(d)'
    BY <1>1, <2>1, LifeElsewhere
  <2> QED
    BY <1>1, <2>2, <2>3 DEF LifeInv, e
<1>5. RecordInv'
  BY <1>1, RecordKept DEF RecordInv, Reports, ProcessInv, ProcessRest
<1>6. ProcessCountInv'
  BY <1>1, CountStays
<1> QED
  BY <1>3, <1>4, <1>5, <1>6 DEF ProcessRest

LEMMA RestSaves ==
    ASSUME ProcessInv, NEW p \in Process, ProcessStep(p), Saves(p)
    PROVE  ProcessRest'
<1>1. /\ UNCHANGED <<pipe, tally, life, lost>> /\ ppc[p] = "save" /\ ~Owns(p) /\ ~Has(p)' /\ ~Owns(p)'
      /\ Has(p) /\ OnlyOwn(p)
  BY DEF Saves, Has, Owns, OnlyOwn
<1>2. ProcessPlaceInv'
  BY <1>1, PlaceShrinks
<1>3. LifeInv'
  <2>1. AtWork(p)'
    BY <1>1 DEF AtWork, Has, Owns
  <2> QED
    BY <1>1, <2>1, LifeElsewhere DEF LifeInv
<1>4. RecordInv'
  <2> SUFFICES ASSUME NEW t \in Item \ lost PROVE RecordAt(t)'
    BY <1>1 DEF RecordInv
  <2>1. task[p].id \in Item /\ task[p].status \in Stages /\ Write(task[p].id, task[p].status)
    BY <1>1, TaskParts DEF ProcessInv, Saves
  <2>2. CASE t = task[p].id
    <3>1. record'[t] = task[p].status /\ life'[t] = life[t]
      BY <1>1, <2>1, <2>2, WriteEffect DEF ProcessInv
    <3>2. \/ task[p].status = "retrying" /\ life[t].tries > 0
          \/ task[p].status = life[t].stage
      BY <1>1, <2>2 DEF ProcessInv, ProcessRest, LifeInv, AtWork
    <3> QED
      BY <3>1, <3>2 DEF RecordAt
  <2>3. CASE t # task[p].id
    <3>1. life'[t] = life[t] /\ record'[t] = record[t]
      BY <1>1, <2>1, <2>3, WriteEffect DEF ProcessInv
    <3> QED
      BY <2>3, <3>1, RecordKept DEF RecordInv, Reports, ProcessInv, ProcessRest
  <2> QED
    BY <2>2, <2>3
<1>5. ProcessCountInv'
  BY <1>1, CountStays
<1> QED
  BY <1>2, <1>3, <1>4, <1>5 DEF ProcessRest

LEMMA RestBreaks ==
    ASSUME ProcessInv, NEW p \in Process, ProcessStep(p), Breaks(p)
    PROVE  ProcessRest'
<1>1. /\ UNCHANGED <<pipe, record, tally, life>> /\ lost' = lost \cup {task[p].id}
      /\ ~Owns(p) /\ ~Has(p)' /\ ~Owns(p)' /\ OnlyOwn(p)
  BY DEF Breaks, Has, Owns, OnlyOwn
<1>2. ProcessPlaceInv'
  BY <1>1, PlaceShrinks
<1>3. LifeInv'
  <2>1. AtWork(p)'
    BY <1>1 DEF AtWork, Has, Owns
  <2> QED
    BY <1>1, <2>1, LifeElsewhere DEF LifeInv
<1>4. RecordInv'
  BY <1>1, RecordKept DEF RecordInv, Reports, ProcessInv, ProcessRest
<1>5. ProcessCountInv'
  BY <1>1, CountStays
<1> QED
  BY <1>2, <1>3, <1>4, <1>5 DEF ProcessRest

LEMMA RestProcess ==
    ASSUME ProcessInv, NEW p \in Process, ProcessStep(p)
    PROVE  ProcessRest'
  BY ProcessDoes, RestLooks, RestTakes, RestLoses, RestBegins, RestRetries, RestEnds, RestPutsBack,
     RestSaves, RestBreaks DEF Does, ProcessInv

-----------------------------------------------------------------------------
(* The steps of a user.                                                     *)

\* Nothing happens to tasks; processes may be started.
LEMMA RestIdles ==
    ASSUME ProcessInv, UNCHANGED <<data, task>>, \A t \in Item : ProcessGiven(t)' <=> ProcessGiven(t),
           \A q \in Process : ppc'[q] = ppc[q] \/ (ppc[q] = "new" /\ ppc'[q] = "check")
    PROVE  ProcessRest'
<1>1. /\ UNCHANGED <<pipe, record, doneCount, counted, life, lost, task>>
      /\ \A q \in Process : /\ (Owns(q)' <=> Owns(q)) /\ (Has(q) => task[q].id \in Item)
                            /\ \A at \in {"load", "run", "putback", "save"} : ppc'[q] = at <=> ppc[q] = at
      /\ \A d \in pipe : d.id \in Item
      /\ ProcessPlaceInv /\ LifeInv /\ RecordInv /\ ProcessCountInv
  BY TaskParts DEF data, tally, Owns, ProcessInv, ProcessRest, ProcessTypeInv, DataTypes, TaskEntry
<1>2. ProcessPlaceInv'
  <2>1. \A q \in Process : Owns(q)' => ProcessGiven(task[q].id)'
    <3>1. ASSUME NEW q \in Process, Owns(q)', NEW t, t = task[q].id PROVE ProcessGiven(t)'
      BY <1>1, <3>1 DEF ProcessPlaceInv, Has
    <3> QED
      BY <1>1, <3>1 DEF ProcessGiven
  <2>2. \A d \in pipe : ProcessGiven(d.id)'
    BY <1>1 DEF ProcessPlaceInv
  <2>3. \A t \in Item : ~ProcessGiven(t)' => Unborn(t)'
    BY <1>1 DEF ProcessPlaceInv, Unborn
  <2> QED
    BY <1>1, <2>1, <2>2, <2>3 DEF ProcessPlaceInv
<1>3. LifeInv'
  <2>1. ASSUME NEW q \in Process PROVE AtWork(q)'
    BY <1>1 DEF LifeInv, AtWork
  <2>2. ASSUME NEW d \in pipe PROVE InPipe(d)'
    BY <1>1 DEF LifeInv, InPipe
  <2> QED
    BY <1>1, <2>1, <2>2 DEF LifeInv
<1>4. RecordInv'
  BY <1>1 DEF RecordInv, RecordAt, Reports
<1>5. ProcessCountInv'
  <2>1. Counted' = Counted
    BY <1>1 DEF Counted
  <2> QED
    BY <1>1, <2>1 DEF ProcessCountInv, Counted
<1> QED
  BY <1>2, <1>3, <1>4, <1>5 DEF ProcessRest

LEMMA RestManages ==
    ASSUME ProcessInv, NEW u \in User, Manages(u)
    PROVE  ProcessRest'
<1>1. UNCHANGED <<data, task, sent>> /\ \A v \in User : upc'[v] = "count" <=> upc[v] = "count"
  BY DEF Manages, ProcessInv, ProcessTypeInv, PoolTypes
<1>2. \A t \in Item : ProcessGiven(t)' <=> ProcessGiven(t)
  BY <1>1 DEF ProcessGiven
<1>3. \A q \in Process : ppc'[q] = ppc[q] \/ (ppc[q] = "new" /\ ppc'[q] = "check")
  BY DEF Manages
<1> QED
  BY <1>1, <1>2, <1>3, RestIdles

LEMMA RestCounts ==
    ASSUME ProcessInv, NEW u \in User, Counts(u)
    PROVE  ProcessRest'
<1>1. /\ UNCHANGED <<data, task, ppc>> /\ sent \in Nat /\ sent' = sent + 1 /\ upc[u] = "count"
      /\ \A v \in User : upc'[v] # "count"
  BY ProcessAssumption DEF Counts, ProcessInv, ProcessTypeInv, PoolTypes, SubmitInv
<1>2. ASSUME NEW t \in Item PROVE ProcessGiven(t)' <=> ProcessGiven(t)
  <2>1. t \in Nat /\ (t < sent + 1 <=> t < sent \/ t = sent)
    BY <1>1, ItemType
  <2> QED
    BY <1>1, <2>1 DEF ProcessGiven
<1> QED
  BY <1>1, <1>2, RestIdles

LEMMA RestKills ==
    ASSUME ProcessInv, NEW p \in Process, Kills(p)
    PROVE  ProcessRest'
<1>1. /\ ppc' = [ppc EXCEPT ![p] = "exit"] /\ task' = [task EXCEPT ![p] = Idle]
      /\ lost' = lost \cup (Item \cap {task[p].id})
      /\ \A t \in Item \ {task[p].id} : record'[t] = record[t]
      /\ UNCHANGED <<pipe, doneCount, counted, life, sent, upc>>
  BY DEF Kills, pool, users, tally
<1>2. /\ ppc \in [Process -> Places] /\ task \in [Process -> Work] /\ \A d \in pipe : d.id \in Item
      /\ ProcessPlaceInv /\ LifeInv /\ RecordInv /\ ProcessCountInv
  BY DEF ProcessInv, ProcessRest, ProcessTypeInv, WorkTypes, DataTypes, TaskEntry
<1>3. /\ \A t : ProcessGiven(t)' <=> ProcessGiven(t)
      /\ \A q \in Process : q # p => ppc'[q] = ppc[q] /\ task'[q] = task[q]
      /\ ppc'[p] = "exit"
  BY <1>1, <1>2 DEF ProcessGiven
<1>4. ~Owns(p)' /\ ~Has(p)' /\ \A q \in Process : Owns(q)' => q # p /\ Owns(q) /\ task'[q] = task[q]
  BY <1>3 DEF Owns, Has
<1>5. ProcessPlaceInv'
  <2>1. \A q \in Process : Owns(q)' => ProcessGiven(task'[q].id)
    BY <1>2, <1>4 DEF ProcessPlaceInv
  <2>2. \A q \in Process : Owns(q)' => ProcessGiven(task[q].id)'
    <3>1. ASSUME NEW q \in Process, Owns(q)', NEW t, t = task'[q].id PROVE ProcessGiven(t)'
      BY <1>3, <2>1, <3>1
    <3> QED
      BY <3>1 DEF ProcessGiven
  <2>3. \A t \in Item : ~ProcessGiven(t)' => Unborn(t)'
    BY <1>1, <1>2, <1>3 DEF ProcessPlaceInv, Unborn
  <2>4. \A d \in pipe' : ProcessGiven(d.id)'
    BY <1>1, <1>2, <1>3 DEF ProcessPlaceInv
  <2> QED
    BY <1>1, <1>2, <1>4, <2>2, <2>3, <2>4 DEF ProcessPlaceInv
<1>6. LifeInv'
  <2>1. ASSUME NEW q \in Process PROVE AtWork(q)'
    BY <1>1, <1>2, <1>3, <1>4 DEF LifeInv, AtWork, Owns
  <2>2. ASSUME NEW d \in pipe PROVE InPipe(d)'
    BY <1>1, <1>2 DEF LifeInv, InPipe
  <2> QED
    BY <1>1, <2>1, <2>2 DEF LifeInv
<1>7. RecordInv'
  <2> SUFFICES ASSUME NEW t \in Item \ lost' PROVE RecordAt(t)'
    BY DEF RecordInv
  <2>1. t \in Item \ lost /\ t # task[p].id
    BY <1>1
  <2>2. ASSUME NEW q \in Process, Reports(q, t) PROVE Reports(q, t)'
    BY <1>1, <1>3, <2>1, <2>2 DEF Reports
  <2> QED
    BY <1>1, <1>2, <2>1, <2>2 DEF RecordInv, RecordAt
<1>8. ProcessCountInv'
  <2>1. Counted' = Counted
    BY <1>1 DEF Counted
  <2> QED
    BY <1>1, <1>2, <1>3, <1>4, <2>1 DEF ProcessCountInv
<1> QED
  BY <1>5, <1>6, <1>7, <1>8 DEF ProcessRest

\* Nobody has met the id of the next task yet.
LEMMA NextIsNew ==
    ASSUME ProcessInv, NEW u \in User, Puts(u)
    PROVE  /\ sent \in Item /\ Unborn(sent) /\ sent \notin Counted
           /\ \A d \in pipe : d.id # sent
           /\ \A q \in Process : Has(q) => task[q].id \in Item \ {sent}
           /\ \A t \in Item : ProcessGiven(t)' <=> ProcessGiven(t) \/ t = sent
<1>1. /\ sent \in Nat /\ sent \in Item /\ sent' = sent /\ submitting = Nothing /\ Nothing \notin User
      /\ upc' = [upc EXCEPT ![u] = "count"]
      /\ upc \in [User -> {"idle", "count", "poll", "reap"}]
  BY ItemType, ProcessAssumption DEF Puts, ProcessInv, ProcessTypeInv, PoolTypes
<1>2. \A v \in User : upc[v] # "count"
  BY <1>1 DEF ProcessInv, ProcessTypeInv, SubmitInv
<1>3. ~ProcessGiven(sent)
  BY <1>1, <1>2 DEF ProcessGiven
<1>4. upc'[u] = "count"
  BY <1>1
<1>5. \A t \in Item : ProcessGiven(t)' <=> ProcessGiven(t) \/ t = sent
  BY <1>1, <1>2, <1>4 DEF ProcessGiven
<1>6. Unborn(sent) /\ sent \notin Counted /\ \A d \in pipe : d.id # sent
  BY <1>1, <1>3 DEF ProcessInv, ProcessRest, ProcessPlaceInv, ProcessCountInv
<1>7. ASSUME NEW q \in Process, Has(q) PROVE task[q].id \in Item \ {sent}
  <2>1. task[q].id \in Item
    BY <1>7, TaskParts DEF ProcessInv
  <2>2. CASE Owns(q)
    BY <1>3, <2>1, <2>2 DEF ProcessInv, ProcessRest, ProcessPlaceInv
  <2>3. CASE ppc[q] = "save"
    <3>1. \/ life[task[q].id].tries > 0
          \/ life[task[q].id].stage \in Finished
      BY <2>3 DEF ProcessInv, ProcessRest, LifeInv, AtWork
    <3>2. life[sent].tries = 0 /\ life[sent].stage \notin Finished
      BY <1>6 DEF Unborn, Finished
    <3> QED
      BY <2>1, <3>1, <3>2
  <2> QED
    BY <1>7, <2>2, <2>3 DEF Has
<1> QED
  BY <1>1, <1>5, <1>6, <1>7

LEMMA RestPuts ==
    ASSUME ProcessInv, NEW u \in User, Puts(u)
    PROVE  ProcessRest'
<1> DEFINE e == [id |-> sent, tries |-> 0]
<1>1. /\ sent \in Item /\ Unborn(sent) /\ sent \notin Counted
      /\ \A d \in pipe : d.id # sent
      /\ \A q \in Process : Has(q) => task[q].id \in Item \ {sent}
      /\ \A t \in Item : ProcessGiven(t)' <=> ProcessGiven(t) \/ t = sent
  BY NextIsNew
<1>2. /\ UNCHANGED <<doneCount, counted, ppc, task, lost>> /\ pipe' = pipe \cup {e}
      /\ e.id = sent /\ e.tries = 0
  BY DEF Puts, tally
<1>3. life'[sent].stage = "pending" /\ life'[sent].tries = 0 /\ \A t \in Item : t # sent => life'[t] = life[t]
  <2>1. [stage |-> "pending", tries |-> life[sent].tries] \in Life
    BY <1>1 DEF Unborn, Life, Stages
  <2> QED
    BY <1>1, <2>1, LifeEffect DEF Puts, Unborn, ProcessInv
<1>4. \A t \in Item : t # sent => record'[t] = record[t]
  <2>1. "pending" \in Stages
    BY DEF Stages
  <2> QED
    BY <1>1, <2>1, WriteEffect DEF Puts, ProcessInv
<1>5. /\ \A q \in Process : (Owns(q)' <=> Owns(q)) /\ (Owns(q) => Has(q)) /\ (ppc[q] = "save" => Has(q))
      /\ \A d \in pipe : d.id \in Item
      /\ ProcessPlaceInv /\ LifeInv /\ RecordInv /\ ProcessCountInv
  BY <1>2 DEF Owns, Has, ProcessInv, ProcessRest, ProcessTypeInv, DataTypes, TaskEntry
<1> HIDE DEF e
<1>6. ProcessPlaceInv'
  <2>1. \A d, f \in pipe' : d.id = f.id => d = f
    BY <1>1, <1>2, <1>5 DEF ProcessPlaceInv
  <2>2. \A q, r \in Process : Owns(q)' /\ Owns(r)' /\ task'[q].id = task'[r].id => q = r
    BY <1>2, <1>5 DEF ProcessPlaceInv
  <2>3. \A d \in pipe', q \in Process : Owns(q)' => task'[q].id # d.id
    BY <1>1, <1>2, <1>5 DEF ProcessPlaceInv
  <2>4. \A d \in pipe' : ProcessGiven(d.id)'
    BY <1>1, <1>2, <1>5 DEF ProcessPlaceInv
  <2>5. \A q \in Process : Owns(q)' => ProcessGiven(task[q].id)'
    <3>1. ASSUME NEW q \in Process, Owns(q)', NEW t, t = task[q].id PROVE ProcessGiven(t)'
      BY <1>1, <1>5, <3>1 DEF ProcessPlaceInv
    <3> QED
      BY <1>2, <3>1 DEF ProcessGiven
  <2>6. \A t \in Item : ~ProcessGiven(t)' => Unborn(t)'
    BY <1>1, <1>3, <1>5 DEF ProcessPlaceInv, Unborn
  <2> QED
    BY <2>1, <2>2, <2>3, <2>4, <2>5, <2>6, <1>2 DEF ProcessPlaceInv
<1>7. LifeInv'
  <2>1. ASSUME NEW q \in Process PROVE AtWork(q)'
    <3>1. CASE Has(q)
      <4>1. life'[task[q].id] = life[task[q].id]
        BY <1>1, <1>3, <3>1
      <4> QED
        BY <1>2, <1>5, <4>1 DEF LifeInv, AtWork
    <3>2. CASE ~Has(q)
      BY <1>2, <1>5, <3>2 DEF AtWork, Has, Owns
    <3> QED
      BY <3>1, <3>2
  <2>2. ASSUME NEW d \in pipe PROVE InPipe(d)'
    BY <1>1, <1>3, <1>5 DEF LifeInv, InPipe
  <2>3. ASSUME NEW d, d = e PROVE InPipe(d)'
    BY <1>2, <1>3, <2>3 DEF InPipe
  <2> QED
    BY <1>2, <2>1, <2>2, <2>3 DEF LifeInv
<1>8. RecordInv'
  <2> SUFFICES ASSUME NEW t \in Item \ lost PROVE RecordAt(t)'
    BY <1>2 DEF RecordInv
  <2>1. CASE t = sent
    BY <1>3, <2>1 DEF RecordAt, Finished
  <2>2. CASE t # sent
    BY <1>2, <1>3, <1>4, <1>5, <2>2 DEF RecordInv, RecordAt, Reports
  <2> QED
    BY <2>1, <2>2
<1>9. ProcessCountInv'
  <2>1. Counted' = Counted /\ \A t \in Counted : t \in Item /\ life'[t] = life[t]
    BY <1>1, <1>2, <1>3 DEF Counted
  <2> QED
    BY <1>1, <1>2, <1>5, <2>1 DEF ProcessCountInv
<1> QED
  BY <1>6, <1>7, <1>8, <1>9 DEF ProcessRest

LEMMA RestUser ==
    ASSUME ProcessInv, NEW u \in User, UserStep(u)
    PROVE  ProcessRest'
  BY UserDoes, RestPuts, RestCounts, RestManages, RestKills DEF ProcessInv

-----------------------------------------------------------------------------
LEMMA ProcessInvInit == ProcessInit => ProcessInv
<1> SUFFICES ASSUME ProcessInit PROVE ProcessInv
  OBVIOUS
<1>1. /\ pipe = {} /\ lost = {} /\ \A p \in Process : ppc[p] = "new" /\ ~Owns(p)
      /\ \A t \in Item : life[t] = [stage |-> "none", tries |-> 0] /\ counted[t] = 0
      /\ doneCount = 0
  BY DEF ProcessInit, Owns
<1>2. ProcessPlaceInv
  BY <1>1 DEF ProcessPlaceInv, Unborn
<1>3. LifeInv
  BY <1>1 DEF LifeInv, AtWork
<1>4. RecordInv
  BY <1>1 DEF RecordInv, RecordAt, Finished
<1>5. ProcessCountInv
  <2>1. Counted = {}
    BY <1>1 DEF Counted
  <2> QED
    BY <1>1, <2>1, FS_EmptySet DEF ProcessCountInv
<1> QED
  BY <1>2, <1>3, <1>4, <1>5, ProcessTypeInit DEF ProcessInv, ProcessRest

LEMMA ProcessInvStep == ProcessInv /\ [ProcessNext]_ppVars => ProcessInv'
<1> SUFFICES ASSUME ProcessInv, [ProcessNext]_ppVars PROVE ProcessRest'
  BY ProcessTypeStep DEF ProcessInv
<1>1. CASE UNCHANGED ppVars
  <2>1. UNCHANGED <<data, task, ppc, sent, upc>>
    BY <1>1 DEF ppVars, data, tally
  <2>2. \A t \in Item : ProcessGiven(t)' <=> ProcessGiven(t)
    BY <2>1 DEF ProcessGiven
  <2> QED
    BY <2>1, <2>2, RestIdles
<1> QED
  BY <1>1, RestProcess, RestUser, DiesKills, RestKills DEF ProcessNext, ProcessInv

LEMMA ProcessInvCorrect == ProcessSpec => []ProcessInv
  BY ProcessInvInit, ProcessInvStep, PTL DEF ProcessSpec

\* For any number of processes and users: the end of a task whose process could
\* write it is in its record, unless the late report of an earlier attempt hides it.
THEOREM EndIsRecordedCorrect == ProcessSpec => []EndIsRecorded
<1>1. ProcessInv => EndIsRecorded
  BY DEF ProcessInv, ProcessRest, RecordInv, RecordAt, Reports, EndIsRecorded
<1> QED
  BY <1>1, ProcessInvCorrect, PTL

LEMMA PollStep == ProcessInv /\ [ProcessNext]_ppVars =>
    [\A u \in User : PollEnds(u) =>
        \/ \A t \in Submitted : life[t].stage \in Finished \/ t \in lost
        \/ \E v \in User : upc[v] = "count"]_ppVars
<1> SUFFICES ASSUME ProcessInv, AllDone, \A v \in User : upc[v] # "count"
             PROVE  \A t \in Submitted : life[t].stage \in Finished \/ t \in lost
  BY DEF PollEnds
<1>1. ProcessCountInv /\ sent \in Nat /\ 0 \in Int /\ sent - 1 \in Int
  BY ProcessAssumption DEF ProcessInv, ProcessRest, ProcessTypeInv, PoolTypes
<1>2. \A t \in Counted : t \in Nat /\ t < sent
  BY <1>1, ItemType DEF ProcessCountInv, ProcessGiven, Counted
<1>3. Counted \subseteq 0..(sent - 1)
  BY <1>1, <1>2
<1>4. IsFiniteSet(0..(sent - 1)) /\ Cardinality(0..(sent - 1)) = sent
  BY <1>1, FS_Interval
<1>5. Cardinality(Counted) >= sent
  BY <1>1 DEF AllDone, ProcessCountInv
<1>6. Counted = 0..(sent - 1)
  <2>1. IsFiniteSet(Counted) /\ Cardinality(Counted) <= sent
        /\ (Cardinality(Counted) = sent => Counted = 0..(sent - 1))
    BY <1>3, <1>4, FS_Subset
  <2>2. Cardinality(Counted) \in Nat
    BY <2>1, FS_CardinalityType
  <2> QED
    BY <1>1, <1>5, <2>1, <2>2
<1>7. Submitted \subseteq Counted
  <2> SUFFICES ASSUME NEW t \in Item, t < sent PROVE t \in Counted
    BY DEF Submitted
  <2>1. t \in Int /\ 0 <= t
    BY ItemType
  <2>2. t \in 0..(sent - 1)
    BY <1>1, <2>1
  <2> QED
    BY <1>6, <2>2
<1> QED
  BY <1>1, <1>7 DEF ProcessCountInv

\* Two counters are enough for wait_completion: when it returns because they agree,
\* every submitted task has ended or was lost, but for one that is being submitted.
THEOREM PollSeesAllCorrect == ProcessSpec => PollSeesAll
  BY PollStep, ProcessInvCorrect, PTL DEF ProcessSpec, PollSeesAll

-----------------------------------------------------------------------------
(* Refinement: RetryPool sees the history variable life only.               *)

stageOf == [t \in Item |-> life[t].stage]
triesOf == [t \in Item |-> life[t].tries]

LEMMA LifeSeen ==
    ASSUME ProcessTypeInv, NEW i \in Item, NEW s \in Stages, NEW n \in Nat,
           life' = [life EXCEPT ![i] = [stage |-> s, tries |-> n]]
    PROVE  stageOf' = [stageOf EXCEPT ![i] = s] /\ triesOf' = [triesOf EXCEPT ![i] = n]
<1>1. [stage |-> s, tries |-> n] \in Life
  BY DEF Life
<1>2. life'[i].stage = s /\ life'[i].tries = n /\ \A t \in Item : t # i => life'[t] = life[t]
  BY <1>1, LifeEffect
<1>3. stageOf' = [stageOf EXCEPT ![i] = s]
  <2>1. \A t \in Item : life'[t].stage = IF t = i THEN s ELSE life[t].stage
    BY <1>2
  <2>2. stageOf' = [t \in Item |-> IF t = i THEN s ELSE life[t].stage]
    BY <2>1 DEF stageOf
  <2>3. [stageOf EXCEPT ![i] = s] = [t \in Item |-> IF t = i THEN s ELSE life[t].stage]
    BY DEF stageOf
  <2> QED
    BY <2>2, <2>3
<1>4. triesOf' = [triesOf EXCEPT ![i] = n]
  <2>1. \A t \in Item : life'[t].tries = IF t = i THEN n ELSE life[t].tries
    BY <1>2
  <2>2. triesOf' = [t \in Item |-> IF t = i THEN n ELSE life[t].tries]
    BY <2>1 DEF triesOf
  <2>3. [triesOf EXCEPT ![i] = n] = [t \in Item |-> IF t = i THEN n ELSE life[t].tries]
    BY DEF triesOf
  <2> QED
    BY <2>2, <2>3
<1> QED
  BY <1>3, <1>4

SubmitBar(t)  == stageOf[t] = "none" /\ stageOf' = [stageOf EXCEPT ![t] = "pending"] /\ triesOf' = triesOf
AttemptBar(t) ==
    /\ stageOf[t] \in {"pending", "retrying"}
    /\ stageOf' = [stageOf EXCEPT ![t] = "running"] /\ triesOf' = triesOf
SucceedBar(t) == stageOf[t] = "running" /\ stageOf' = [stageOf EXCEPT ![t] = "success"] /\ triesOf' = triesOf
FailBar(t) ==
    /\ stageOf[t] = "running" /\ triesOf' = [triesOf EXCEPT ![t] = triesOf[t] + 1]
    /\ stageOf' = [stageOf EXCEPT ![t] = IF triesOf[t] < MaxAttempts[t] THEN "retrying" ELSE "failed"]

LEMMA BarSteps ==
    ASSUME NEW t \in Item, SubmitBar(t) \/ AttemptBar(t) \/ SucceedBar(t) \/ FailBar(t)
    PROVE  Attempts!Next
  BY DEF SubmitBar, AttemptBar, SucceedBar, FailBar, stageOf, triesOf, Attempts!Next, Attempts!Submit,
         Attempts!Attempt, Attempts!Succeed, Attempts!Fail, Attempts!Becomes

LEMMA TriesSame ==
    ASSUME NEW i \in Item, triesOf' = [triesOf EXCEPT ![i] = life[i].tries]
    PROVE  triesOf' = triesOf
  BY DEF triesOf

LEMMA ProcessRefinementStep == ProcessInv /\ [ProcessNext]_ppVars => [Attempts!Next]_<<stageOf, triesOf>>
<1> SUFFICES ASSUME ProcessInv, [ProcessNext]_ppVars
             PROVE  Attempts!Next \/ (stageOf' = stageOf /\ triesOf' = triesOf)
  OBVIOUS
<1>1. CASE life' = life
  BY <1>1 DEF stageOf, triesOf
<1>2. ASSUME NEW p \in Process, Does(p), life' # life PROVE Attempts!Next
  <2>1. Begins(p) \/ Retries(p) \/ \E s \in Finished, n \in Nat : Ends(p, s, n)
    BY <1>2 DEF Does, Looks, Takes, Loses, PutsBack, Saves, Breaks, data
  <2>2. Owns(p)
    BY <2>1 DEF Begins, Retries, Ends, Owns
  <2> DEFINE i == task[p].id
  <2>3. /\ i \in Item /\ task[p].tries \in Nat /\ life[i].tries = task[p].tries
        /\ stageOf[i] = life[i].stage /\ triesOf[i] = life[i].tries
        /\ MaxAttempts[i] \in Nat
    BY <2>2, OwnerWorks, TaskParts DEF ProcessInv, stageOf, triesOf
  <2>4. ASSUME NEW s \in Stages, NEW n \in Nat, Marks(p, s, n)
        PROVE  stageOf' = [stageOf EXCEPT ![i] = s] /\ triesOf' = [triesOf EXCEPT ![i] = n]
    BY <2>3, <2>4, LifeSeen DEF Marks, ProcessInv
  <2> HIDE DEF i
  <2>5. CASE Begins(p)
    <3>1. life[i].stage \in {"pending", "retrying"} /\ "running" \in Stages
      BY <2>5 DEF Begins, ProcessInv, ProcessRest, LifeInv, AtWork, Stages, i
    <3>2. AttemptBar(i)
      BY <2>3, <2>4, <2>5, <3>1, TriesSame DEF Begins, AttemptBar
    <3> QED
      BY <2>3, <3>2, BarSteps
  <2>6. CASE Retries(p)
    <3>1. life[i].stage = "running" /\ "retrying" \in Stages
      BY <2>6 DEF Retries, ProcessInv, ProcessRest, LifeInv, AtWork, Stages, i
    <3>2. triesOf[i] < MaxAttempts[i]
      BY <2>3, <2>6 DEF Retries, i
    <3>3. FailBar(i)
      BY <2>3, <2>4, <2>6, <3>1, <3>2 DEF Retries, FailBar
    <3> QED
      BY <2>3, <3>3, BarSteps
  <2>7. ASSUME NEW s \in Finished, NEW n \in Nat, Ends(p, s, n) PROVE Attempts!Next
    <3>1. life[i].stage = "running" /\ s \in Stages
      BY <2>7 DEF Ends, ProcessInv, ProcessRest, LifeInv, AtWork, Stages, i
    <3>2. CASE s = "success" /\ n = task[p].tries
      <4>1. SucceedBar(i)
        BY <2>3, <2>4, <2>7, <3>1, <3>2, TriesSame DEF Ends, SucceedBar
      <4> QED
        BY <2>3, <4>1, BarSteps
    <3>3. CASE s = "failed" /\ n = task[p].tries + 1 /\ ~(task[p].tries + 1 <= MaxAttempts[task[p].id])
      <4>1. ~(triesOf[i] < MaxAttempts[i])
        BY <2>3, <3>3 DEF i
      <4>2. FailBar(i)
        BY <2>3, <2>4, <2>7, <3>1, <3>3, <4>1 DEF Ends, FailBar
      <4> QED
        BY <2>3, <4>2, BarSteps
    <3> QED
      BY <2>7, <3>2, <3>3 DEF Ends
  <2> QED
    BY <2>1, <2>5, <2>6, <2>7
<1>3. ASSUME NEW u \in User, Puts(u) PROVE Attempts!Next
  <2>1. sent \in Item /\ life[sent].stage = "none" /\ life[sent].tries \in Nat /\ "pending" \in Stages
    BY <1>3, NextIsNew DEF Unborn, Stages
  <2>2. /\ stageOf' = [stageOf EXCEPT ![sent] = "pending"]
        /\ triesOf' = [triesOf EXCEPT ![sent] = life[sent].tries]
    BY <1>3, <2>1, LifeSeen DEF Puts, ProcessInv
  <2>3. SubmitBar(sent)
    <3>1. triesOf' = triesOf
      BY <2>1, <2>2, TriesSame
    <3> QED
      BY <2>1, <2>2, <3>1 DEF SubmitBar, stageOf
  <2> QED
    BY <2>1, <2>3, BarSteps
<1>4. CASE \E p \in Process : ProcessStep(p)
  BY <1>1, <1>2, <1>4, ProcessDoes DEF ProcessInv
<1>5. CASE \E p \in Process : Dies(p)
  BY <1>1, <1>5 DEF Dies
<1>6. CASE \E u \in User : UserStep(u)
  <2>1. \/ life' = life
        \/ \E u \in User : Puts(u)
    BY <1>6, UserDoes DEF ProcessInv, Counts, Manages, Kills, data
  <2> QED
    BY <1>1, <1>3, <2>1
<1> QED
  BY <1>1, <1>4, <1>5, <1>6 DEF ProcessNext, ppVars

\* For any number of processes and users: the attempts of a task follow RetryPool,
\* one at a time and max_retries + 1 at most, whatever its record says.
THEOREM ImplementsRetriesCorrect == ProcessSpec => ImplementsRetries
<1>1. ProcessInit => Attempts!Init
  BY DEF ProcessInit, Attempts!Init
<1>2. ProcessInv /\ [ProcessNext]_ppVars =>
        [Attempts!Next]_<<[t \in Item |-> life[t].stage], [t \in Item |-> life[t].tries]>>
  BY ProcessRefinementStep DEF stageOf, triesOf
<1> QED
  BY <1>1, <1>2, ProcessInvCorrect, PTL DEF ProcessSpec, ImplementsRetries, Attempts!Spec

-----------------------------------------------------------------------------
(* The thread pool, the process pool and the fixtures of one process of the *)
(* application share no state: used together they are still the three parts *)
(* the theorems are about.                                                  *)
THEOREM InProcessComposition == MCSpec => ThreadSpec /\ ProcessSpec /\ FixtureSpec
<1>1. MCInit => ThreadInit /\ ProcessInit /\ FixtureInit
  BY DEF MCInit
<1>2. [MCNext]_mcVars => [ThreadNext]_tpVars /\ [ProcessNext]_ppVars /\ [FixtureNext]_fixtureVars
  BY DEF MCNext, mcVars
<1> QED
  BY <1>1, <1>2, PTL DEF MCSpec, ThreadSpec, ProcessSpec, FixtureSpec

(* Whichever of the three an application uses, the variables of each keep   *)
(* their types.                                                             *)
THEOREM InProcessTypeOKCorrect == MCSpec => []InProcessTypeOK
<1>1. ThreadTypeOK /\ ProcessTypeOK /\ TypeInv => InProcessTypeOK
  BY DEF InProcessTypeOK, TypeInv
<1> QED
  BY <1>1, InProcessComposition, ThreadTypeOKCorrect, ProcessTypeOKCorrect, FixtureTypeCorrect, PTL
=============================================================================
