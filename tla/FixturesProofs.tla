-------------------------- MODULE FixturesProofs ---------------------------
(***************************************************************************)
(* Proofs about Fixtures for any threads, fixtures and scopes: the types,  *)
(* that finalizers run once and for everything, what the scopes promise,   *)
(* and that what is cached can be used.                                    *)
(***************************************************************************)
EXTENDS FixturesProperties, SequenceTheorems, TLAPS

\* The lock is held exactly while fixtures are being built.
LockInv == holder = Nil <=> stack = <<>>

TypeInv == FixtureTypeOK /\ LockInv

-----------------------------------------------------------------------------
(* Types.                                                                   *)

LEMMA CacheKeyType ==
    ASSUME TypeInv, NEW t \in Worker, NEW f \in Fixture
    PROVE  CacheKey(t, f) \in KeyOf
<1>1. Scope[f] \in {"singleton", "global", "thread"}
  BY FixtureAssumption
<1>2. CASE Scope[f] = "singleton"
  BY <1>2 DEF CacheKey, KeyOf
<1>3. CASE Scope[f] = "global"
  BY <1>3 DEF CacheKey, KeyOf, TypeInv, FixtureTypeOK
<1>4. CASE Scope[f] = "thread"
  BY <1>4 DEF CacheKey, KeyOf, TypeInv, FixtureTypeOK
<1> QED
  BY <1>1, <1>2, <1>3, <1>4

LEMMA FrameType ==
    ASSUME TypeInv, NEW t \in Worker, NEW f \in Fixture
    PROVE  Frame(t, f) \in GetFixtureCall
  BY CacheKeyType, FixtureAssumption DEF Frame, GetFixtureCall

LEMMA HolderBuilds ==
    ASSUME TypeInv, NEW t \in Worker, holder = t
    PROVE  /\ Len(stack) \in Nat \ {0} /\ Len(stack) \in DOMAIN stack
           /\ Top \in GetFixtureCall /\ stack # <<>>
<1>1. stack \in Seq(GetFixtureCall) /\ stack # <<>>
  BY FixtureAssumption DEF TypeInv, FixtureTypeOK, LockInv
<1> QED
  BY <1>1 DEF Top

LEMMA SetTopType ==
    ASSUME TypeInv, NEW t \in Worker, holder = t, NEW frame \in GetFixtureCall
    PROVE  SetTop(frame) \in Seq(GetFixtureCall) /\ SetTop(frame) # <<>>
  BY HolderBuilds DEF SetTop, TypeInv, FixtureTypeOK

\* The stack without its top.
Below == SubSeq(stack, 1, Len(stack) - 1)

LEMMA BelowType ==
    ASSUME TypeInv, NEW t \in Worker, holder = t
    PROVE  /\ Below \in Seq(GetFixtureCall) /\ Len(Below) = Len(stack) - 1
           /\ \A n \in 1..(Len(stack) - 1) : Below[n] = stack[n]
<1>1. stack \in Seq(GetFixtureCall) /\ Len(stack) \in Nat \ {0}
  BY HolderBuilds DEF TypeInv, FixtureTypeOK
<1>2. \A n \in 1..(Len(stack) - 1) : stack[n] \in GetFixtureCall
  BY <1>1
<1>3. 1 \in Int /\ Len(stack) - 1 \in Int
  BY <1>1
<1>4. \A n \in 1..(Len(stack) - 1) : 1 + n - 1 = n
  OBVIOUS
<1>5. /\ Below \in Seq(GetFixtureCall)
      /\ Len(Below) = IF 1 <= Len(stack) - 1 THEN (Len(stack) - 1) - 1 + 1 ELSE 0
      /\ \A n \in 1..((Len(stack) - 1) - 1 + 1) : Below[n] = stack[1 + n - 1]
  BY <1>2, <1>3, SubSeqProperties DEF Below
<1>6. Len(Below) = Len(stack) - 1
  <2>1. \A l \in Nat \ {0} : (IF 1 <= l - 1 THEN (l - 1) - 1 + 1 ELSE 0) = l - 1
    OBVIOUS
  <2> QED
    BY <1>1, <1>5, <2>1, Zenon
<1>7. ASSUME NEW n \in 1..(Len(stack) - 1) PROVE Below[n] = stack[n]
  <2>1. n \in 1..((Len(stack) - 1) - 1 + 1)
    BY <1>1
  <2>2. Below[n] = stack[1 + n - 1]
    BY <1>5, <2>1
  <2> QED
    BY <1>4, <2>2
<1> QED
  BY <1>5, <1>6, <1>7

LEMMA TypeInit == FixtureInit => TypeInv
<1> SUFFICES ASSUME FixtureInit PROVE TypeInv
  OBVIOUS
<1> USE DEF FixtureInit
<1>1. stack \in Seq(GetFixtureCall)
  OBVIOUS
<1>2. cached \in [Fixture -> Entry \cup {Nil}] /\ finalizers \in [Fixture -> SUBSET Instance]
  OBVIOUS
<1>3. threadKey \in [Worker -> Nat] /\ tpc \in [Worker -> {"idle", "bind", "clear"}]
  OBVIOUS
<1>4. want \in [Worker -> SUBSET Fixture] /\ got \in [Worker -> SUBSET Instance]
  OBVIOUS
<1>5. /\ \A f \in Fixture : \A i \in finalizers[f] : i.fix = f
      /\ open \subseteq Instance /\ twice \subseteq Instance /\ spoiled \subseteq Instance
      /\ globalKey \in Nat /\ shut \in BOOLEAN /\ holder \in Worker \cup {Nil}
      /\ made \in Nat /\ overlap \in BOOLEAN /\ resets \in Nat
  OBVIOUS
<1> QED
  BY <1>1, <1>2, <1>3, <1>4, <1>5 DEF TypeInv, FixtureTypeOK, LockInv

\* Clearing any fixtures keeps the types.
LEMMA TypeClear ==
    ASSUME TypeInv, NEW F \in SUBSET Fixture, ClearCache(F)
    PROVE  /\ cached' \in [Fixture -> Entry \cup {Nil}]
           /\ finalizers' \in [Fixture -> SUBSET Instance]
           /\ \A f \in Fixture : \A i \in finalizers'[f] : i.fix = f
           /\ open' \subseteq Instance /\ twice' \subseteq Instance
  BY DEF TypeInv, FixtureTypeOK, ClearCache, EmptyCached, EmptyFinalizers, Closing

\* A bound function, get_fixture and the building of a fixture.
LEMMA TypeCalls ==
    ASSUME TypeInv, NEW t \in Worker,
           BoundCall(t) \/ GetFixture(t) \/ BoundReturns(t)
    PROVE  TypeInv'
<1> USE DEF TypeInv, FixtureTypeOK, LockInv, cacheVars, keyVars, threadVars, buildVars
<1>1. CASE BoundCall(t)
  BY <1>1, FixtureAssumption DEF BoundCall
<1>2. CASE BoundReturns(t)
  BY <1>2 DEF BoundReturns, Fails
<1>3. CASE GetFixture(t)
  <2>1. holder = Nil
    BY <1>3 DEF GetFixture
  <2>2. CASE Fails(t) /\ UNCHANGED <<buildVars, overlap>>
    BY <1>3, <2>2 DEF GetFixture, Fails
  <2>3. CASE \E f \in want[t] :
               /\ Hit(t, f) /\ Obtain(t, f, cached[f].inst)
               /\ overlap' = (overlap \/ Reconfiguring) /\ UNCHANGED <<tpc, buildVars>>
    <3>1. PICK f \in want[t] : Hit(t, f) /\ Obtain(t, f, cached[f].inst)
      BY <2>3
    <3>2. f \in Fixture /\ cached[f].inst \in Instance
      BY <3>1 DEF Hit, Entry
    <3>3. /\ want' \in [Worker -> SUBSET Fixture] /\ got' \in [Worker -> SUBSET Instance]
      BY <3>1, <3>2 DEF Obtain
    <3>4. overlap' \in BOOLEAN
      BY <2>3
    <3> QED
      BY <1>3, <2>3, <3>3, <3>4 DEF GetFixture
  <2>4. CASE \E f \in want[t] :
               /\ holder' = t /\ stack' = <<Frame(t, f)>>
               /\ overlap' = (overlap \/ Reconfiguring) /\ UNCHANGED threadVars
    <3>1. PICK f \in want[t] : stack' = <<Frame(t, f)>>
      BY <2>4
    <3>2. Frame(t, f) \in GetFixtureCall
      BY FrameType
    <3>3. stack' \in Seq(GetFixtureCall) /\ stack' # <<>>
      BY <3>1, <3>2
    <3>4. holder' = t /\ overlap' \in BOOLEAN /\ t # Nil
      BY <2>4, FixtureAssumption
    <3> QED
      BY <1>3, <2>4, <3>3, <3>4 DEF GetFixture
  <2> QED
    BY <1>3, <2>2, <2>3, <2>4 DEF GetFixture
<1> QED
  BY <1>1, <1>2, <1>3

LEMMA TypeResolve ==
    ASSUME TypeInv, NEW t \in Worker, ResolveDependency(t)
    PROVE  TypeInv'
<1> DEFINE frame(d) == [Top EXCEPT !.left = @ \ {d}]
<1>1. holder = t /\ UNCHANGED <<cacheVars, keyVars, threadVars, holder, made, spoiled, overlap, resets>>
  BY DEF ResolveDependency
<1>2. PICK d \in Top.left :
        \/ Hit(t, d) /\ stack' = SetTop([Top EXCEPT !.left = @ \ {d}, !.uses = @ \cup {AsPart(cached[d].inst)}])
        \/ stack' = Append(SetTop(frame(d)), Frame(t, d))
  BY DEF ResolveDependency
<1>3. Top \in GetFixtureCall
  BY <1>1, HolderBuilds
<1>4. d \in Fixture /\ frame(d) \in GetFixtureCall /\ Frame(t, d) \in GetFixtureCall
  BY <1>3, FrameType DEF GetFixtureCall
<1>5. ASSUME Hit(t, d)
      PROVE  [Top EXCEPT !.left = @ \ {d}, !.uses = @ \cup {AsPart(cached[d].inst)}] \in GetFixtureCall
  <2>1. AsPart(cached[d].inst) \in Part
    BY <1>4, <1>5 DEF Hit, TypeInv, FixtureTypeOK, Entry, Instance, AsPart, Part
  <2> QED
    BY <1>3, <2>1 DEF GetFixtureCall
<1>6. stack' \in Seq(GetFixtureCall) /\ stack' # <<>>
  <2>1. CASE Hit(t, d) /\ stack' = SetTop([Top EXCEPT !.left = @ \ {d}, !.uses = @ \cup {AsPart(cached[d].inst)}])
    BY <1>1, <1>5, <2>1, SetTopType
  <2>2. CASE stack' = Append(SetTop(frame(d)), Frame(t, d))
    <3>1. SetTop(frame(d)) \in Seq(GetFixtureCall)
      BY <1>1, <1>4, SetTopType
    <3> QED
      BY <1>4, <2>2, <3>1
  <2> QED
    BY <1>2, <2>1, <2>2
<1> QED
  BY <1>1, <1>6, FixtureAssumption
  DEF TypeInv, FixtureTypeOK, LockInv, cacheVars, keyVars, threadVars

LEMMA TypeBuild ==
    ASSUME TypeInv, NEW t \in Worker,
           ExecuteFixture(t) \/ ExecuteFails(t) \/ SetCachedResult(t)
    PROVE  TypeInv'
<1> USE DEF TypeInv, FixtureTypeOK, LockInv, cacheVars, keyVars, threadVars, buildVars
<1>1. holder = t /\ Top \in GetFixtureCall /\ stack # <<>> /\ Len(stack) \in Nat \ {0}
  BY HolderBuilds DEF ExecuteFixture, ExecuteFails, SetCachedResult
<1>2. CASE ExecuteFixture(t)
  <2> DEFINE i == [id |-> made, fix |-> Top.fix, key |-> Top.key, uses |-> Top.uses]
  <2>1. i \in Instance /\ i.fix \in Fixture
    BY <1>1 DEF Instance, GetFixtureCall
  <2>2. [Top EXCEPT !.inst = i] \in GetFixtureCall
    BY <1>1, <2>1 DEF GetFixtureCall
  <2>3. stack' \in Seq(GetFixtureCall) /\ stack' # <<>>
    BY <1>1, <1>2, <2>2, SetTopType DEF ExecuteFixture
  <2>4. /\ finalizers' \in [Fixture -> SUBSET Instance]
        /\ \A f \in Fixture : \A j \in finalizers'[f] : j.fix = f
    BY <1>2, <2>1 DEF ExecuteFixture, AddFinalizer
  <2>5. open' \subseteq Instance /\ made' \in Nat
    BY <1>2, <2>1 DEF ExecuteFixture
  <2> QED
    BY <1>1, <1>2, <2>3, <2>4, <2>5, FixtureAssumption DEF ExecuteFixture
<1>3. CASE ExecuteFails(t)
  BY <1>3 DEF ExecuteFails, Fails
<1>4. CASE SetCachedResult(t)
  <2> DEFINE i == Top.inst
             below == Below
  <2>1. i \in Instance /\ Top.fix \in Fixture /\ Top.key \in KeyOf
    BY <1>1, <1>4 DEF SetCachedResult, GetFixtureCall
  <2>2. cached' \in [Fixture -> Entry \cup {Nil}]
    <3>1. [inst |-> i, key |-> Top.key] \in Entry
      BY <2>1 DEF Entry
    <3> QED
      BY <1>4, <2>1, <3>1 DEF SetCachedResult
  <2>3. below \in Seq(GetFixtureCall) /\ Len(below) = Len(stack) - 1
    BY <1>1, BelowType
  <2>4. CASE below = <<>> /\ stack' = below /\ holder' = Nil /\ Obtain(t, Top.fix, i)
    <3>1. want' \in [Worker -> SUBSET Fixture] /\ got' \in [Worker -> SUBSET Instance]
      BY <2>1, <2>4 DEF Obtain
    <3> QED
      BY <1>4, <2>2, <2>4, <3>1 DEF SetCachedResult
  <2>5. CASE /\ below # <<>> /\ UNCHANGED <<holder, want, got>>
             /\ stack' = [below EXCEPT ![Len(below)].uses = @ \cup {AsPart(i)}]
    <3>1. Len(below) \in DOMAIN below /\ below[Len(below)] \in GetFixtureCall /\ AsPart(i) \in Part
      BY <2>1, <2>3, <2>5 DEF Instance, AsPart, Part
    <3>2. [below[Len(below)] EXCEPT !.uses = @ \cup {AsPart(i)}] \in GetFixtureCall
      BY <3>1 DEF GetFixtureCall
    <3>3. stack' \in Seq(GetFixtureCall) /\ stack' # <<>>
      <4>1. stack' = [below EXCEPT ![Len(below)] = [below[Len(below)] EXCEPT !.uses = @ \cup {AsPart(i)}]]
        BY <2>5
      <4>2. Len(below) \in 1..Len(below)
        BY <2>3, <2>5
      <4> QED
        BY <2>3, <3>2, <4>1, <4>2, ExceptSeq
    <3> QED
      BY <1>1, <1>4, <2>2, <2>5, <3>3, FixtureAssumption DEF SetCachedResult
  <2> QED
    BY <1>4, <2>4, <2>5 DEF SetCachedResult, Below
<1> QED
  BY <1>2, <1>3, <1>4

LEMMA TypeResets ==
    ASSUME TypeInv, NEW t \in Worker,
           \/ StartSession(t) \/ ClearThreadFixtures(t) \/ StartGlobalSession(t)
           \/ ShutdownManager(t) \/ Reconfigure(t) \/ ClearOne(t) \/ ReconfigureEnds(t)
    PROVE  TypeInv'
<1> USE DEF TypeInv, FixtureTypeOK, LockInv, keyVars, threadVars, buildVars, Reset
<1>1. CASE StartSession(t)
  BY <1>1 DEF StartSession, cacheVars
<1>2. CASE ClearThreadFixtures(t)
  <2>1. Of("thread") \in SUBSET Fixture /\ ClearCache(Of("thread"))
    BY <1>2 DEF ClearThreadFixtures, Of
  <2> QED
    BY <1>2, <2>1, TypeClear DEF ClearThreadFixtures
<1>3. CASE StartGlobalSession(t)
  <2>1. Of("global") \in SUBSET Fixture /\ ClearCache(Of("global"))
    BY <1>3 DEF StartGlobalSession, Of
  <2> QED
    BY <1>3, <2>1, TypeClear DEF StartGlobalSession
<1>4. CASE ShutdownManager(t)
  BY <1>4, TypeClear DEF ShutdownManager
<1>5. CASE Reconfigure(t)
  BY <1>5 DEF Reconfigure, cacheVars
<1>6. CASE ClearOne(t)
  <2>1. PICK f \in want[t] :
          /\ ClearCache({f})
          /\ want' = [want EXCEPT ![t] = @ \ {f}]
          /\ spoiled' = spoiled \cup
               {i \in finalizers[f] : \E n \in DOMAIN stack : stack[n].inst = i}
    BY <1>6 DEF ClearOne
  <2>2. f \in Fixture /\ {f} \in SUBSET Fixture
    OBVIOUS
  <2>3. spoiled' \subseteq Instance /\ want' \in [Worker -> SUBSET Fixture]
    BY <2>1, <2>2
  <2> QED
    BY <1>6, <2>1, <2>2, <2>3, TypeClear DEF ClearOne
<1>7. CASE ReconfigureEnds(t)
  BY <1>7 DEF ReconfigureEnds, cacheVars
<1> QED
  BY <1>1, <1>2, <1>3, <1>4, <1>5, <1>6, <1>7

LEMMA TypeStep == TypeInv /\ [FixtureNext]_fixtureVars => TypeInv'
<1> SUFFICES ASSUME TypeInv, [FixtureNext]_fixtureVars PROVE TypeInv'
  OBVIOUS
<1>1. CASE UNCHANGED fixtureVars
  BY <1>1 DEF TypeInv, FixtureTypeOK, LockInv, fixtureVars, cacheVars, keyVars, threadVars, buildVars
<1>2. CASE FixtureNext
  BY <1>2, TypeCalls, TypeResolve, TypeBuild, TypeResets DEF FixtureNext, WorkerAction
<1> QED
  BY <1>1, <1>2

(* Every variable keeps its type, and the manager's lock is held exactly    *)
(* while fixtures are being built.                                          *)
THEOREM FixtureTypeCorrect == FixtureSpec => []TypeInv
  BY TypeInit, TypeStep, PTL DEF FixtureSpec

-----------------------------------------------------------------------------
(* Finalizers: they close exactly what is open.                             *)

OpenIsKept == open = UNION {finalizers[f] : f \in Fixture}

ClosedInv == shut => holder = Nil /\ open = {}

OpenInv == OpenIsKept /\ FinalizedOnce /\ ClosedInv

\* Clearing fixtures closes their instances, each once, and no other one.
LEMMA ClearCloses ==
    ASSUME TypeInv, OpenIsKept, FinalizedOnce, NEW F \in SUBSET Fixture, ClearCache(F)
    PROVE  /\ OpenIsKept' /\ FinalizedOnce' /\ open' = {i \in open : i.fix \notin F}
<1>1. \A f \in Fixture : \A i \in finalizers[f] : i.fix = f
  BY DEF TypeInv, FixtureTypeOK
<1>2. Closing(F) = {i \in open : i.fix \in F}
  BY <1>1 DEF Closing, OpenIsKept
<1>3. open' = {i \in open : i.fix \notin F} /\ twice' = {}
  BY <1>2 DEF ClearCache, FinalizedOnce
<1>4. \A f \in Fixture : finalizers'[f] = IF f \in F THEN {} ELSE finalizers[f]
  BY DEF ClearCache, EmptyFinalizers
<1>5. \A i : i \in open' <=> \E f \in Fixture : i \in finalizers'[f]
  BY <1>1, <1>3, <1>4 DEF OpenIsKept
<1> QED
  BY <1>3, <1>5 DEF OpenIsKept, FinalizedOnce

LEMMA OpenStep ==
    ASSUME TypeInv, OpenInv, [FixtureNext]_fixtureVars
    PROVE  OpenInv'
<1> USE DEF OpenInv, ClosedInv
<1>1. ASSUME UNCHANGED cacheVars, UNCHANGED <<shut, holder>> PROVE OpenInv'
  BY <1>1 DEF OpenIsKept, FinalizedOnce, cacheVars
<1>2. CASE UNCHANGED fixtureVars
  BY <1>1, <1>2 DEF fixtureVars, keyVars, buildVars
<1>3. CASE FixtureNext
  <2>1. PICK t \in Worker : WorkerAction(t)
    BY <1>3 DEF FixtureNext
  <2>2. t # Nil
    BY FixtureAssumption
  <2>3. CASE BoundCall(t) \/ BoundReturns(t) \/ StartSession(t) \/ Reconfigure(t) \/ ReconfigureEnds(t)
    BY <1>1, <2>3 DEF BoundCall, BoundReturns, StartSession, Reconfigure, ReconfigureEnds,
                      keyVars, buildVars
  <2>4. CASE ResolveDependency(t)
    BY <1>1, <2>4 DEF ResolveDependency, keyVars
  <2>5. CASE GetFixture(t)
    <3>1. OpenIsKept' /\ FinalizedOnce' /\ shut' = shut /\ open' = open
      BY <2>5 DEF GetFixture, OpenIsKept, FinalizedOnce, cacheVars, keyVars
    <3>2. shut => holder' = Nil
      BY <2>5 DEF GetFixture, buildVars
    <3> QED
      BY <3>1, <3>2
  <2>6. CASE ExecuteFixture(t)
    <3> DEFINE i == [id |-> made, fix |-> Top.fix, key |-> Top.key, uses |-> Top.uses]
    <3>1. holder = t /\ ~shut /\ i.fix \in Fixture
      BY <2>2, <2>6, HolderBuilds DEF ExecuteFixture, GetFixtureCall
    <3>2. open' = open \cup {i} /\ shut' = shut /\ twice' = twice
      BY <2>6 DEF ExecuteFixture, keyVars
    <3>3. \A f \in Fixture : finalizers'[f] = IF f = i.fix THEN finalizers[f] \cup {i} ELSE finalizers[f]
      BY <2>6, <3>1 DEF ExecuteFixture, AddFinalizer, TypeInv, FixtureTypeOK
    <3> HIDE DEF i
    <3>4. open' = UNION {finalizers'[f] : f \in Fixture}
      <4>1. i \in finalizers'[i.fix]
        BY <3>1, <3>3
      <4>2. \A f \in Fixture :
              finalizers[f] \subseteq finalizers'[f] /\ finalizers'[f] \subseteq finalizers[f] \cup {i}
        BY <3>3
      <4> QED
        BY <3>1, <3>2, <4>1, <4>2 DEF OpenIsKept
    <3> QED
      BY <3>1, <3>2, <3>4 DEF OpenIsKept, FinalizedOnce
  <2>7. CASE ExecuteFails(t) \/ SetCachedResult(t)
    <3>1. UNCHANGED <<finalizers, open, twice, shut>> /\ holder = t
      BY <2>7 DEF ExecuteFails, SetCachedResult, cacheVars, keyVars
    <3> QED
      BY <2>2, <3>1 DEF OpenIsKept, FinalizedOnce
  <2>8. CASE ClearThreadFixtures(t)
    <3>1. ClearCache(Of("thread")) /\ Of("thread") \in SUBSET Fixture /\ shut' = shut /\ holder' = holder
      BY <2>8 DEF ClearThreadFixtures, keyVars, buildVars, Of
    <3> QED
      BY <3>1, ClearCloses
  <2>9. CASE StartGlobalSession(t)
    <3>1. ClearCache(Of("global")) /\ Of("global") \in SUBSET Fixture /\ shut' = shut /\ holder' = holder
      BY <2>9 DEF StartGlobalSession, buildVars, Of
    <3> QED
      BY <3>1, ClearCloses
  <2>10. CASE ShutdownManager(t)
    <3>1. ClearCache(Fixture) /\ holder' = holder /\ holder = Nil
      BY <2>10 DEF ShutdownManager, buildVars, ManagerFree
    <3>2. \A i \in open : i.fix \in Fixture
      BY DEF TypeInv, FixtureTypeOK, Instance
    <3> QED
      BY <3>1, <3>2, ClearCloses
  <2>11. CASE ClearOne(t)
    <3>1. PICK f \in want[t] : ClearCache({f})
      BY <2>11 DEF ClearOne
    <3>2. {f} \in SUBSET Fixture /\ shut' = shut /\ holder' = holder
      BY <2>11 DEF ClearOne, TypeInv, FixtureTypeOK, keyVars, buildVars
    <3> QED
      BY <3>1, <3>2, ClearCloses
  <2> QED
    BY <2>1, <2>3, <2>4, <2>5, <2>6, <2>7, <2>8, <2>9, <2>10, <2>11 DEF WorkerAction
<1> QED
  BY <1>2, <1>3

LEMMA OpenInit == FixtureInit => OpenInv
  BY DEF FixtureInit, OpenInv, OpenIsKept, FinalizedOnce, ClosedInv

LEMMA OpenCorrect == FixtureSpec => []OpenInv
  BY FixtureTypeCorrect, OpenInit, OpenStep, PTL DEF FixtureSpec

(* No finalizer runs twice, whichever threads clear fixtures, with or       *)
(* without the manager's lock.                                              *)
THEOREM FinalizedOnceCorrect == FixtureSpec => []FinalizedOnce
<1>1. OpenInv => FinalizedOnce
  BY DEF OpenInv
<1> QED
  BY <1>1, OpenCorrect, PTL

(* After shutdown nothing is open, also of the instances that others have   *)
(* replaced in their slot.                                                  *)
THEOREM ClosedAtShutdownCorrect == FixtureSpec => []ClosedAtShutdown
<1>1. OpenInv => ClosedAtShutdown
  BY DEF OpenInv, ClosedInv, ClosedAtShutdown
<1> QED
  BY <1>1, OpenCorrect, PTL

-----------------------------------------------------------------------------
(* Scopes: where an instance that several threads share may be.             *)

\* Dependencies come before the fixtures that take them.
Rank ==
    CHOOSE rank \in [Fixture -> 0..Cardinality(Fixture)] :
        \A f \in Fixture : \A d \in Dependency[f] : rank[d] < rank[f]

\* The key of a fixture that is shared, which no thread has a part in.
SharedKey(f) == [by |-> Nil, no |-> IF Scope[f] = "global" THEN globalKey ELSE 0]

\* A shared fixture that is being built is not cached, unless it yields None.
FrameInv(c) ==
    /\ \A d \in c.left : d \in Fixture /\ Rank[d] < Rank[c.fix]
    /\ c.inst # Nil => c.inst.fix = c.fix /\ c.inst.key = c.key
    /\ Scope[c.fix] = "thread" => c.key.by = holder
    /\ Scope[c.fix] # "thread" => c.key = SharedKey(c.fix)
    /\ Scope[c.fix] # "thread" /\ c.fix \notin Bare => cached[c.fix] = Nil

StackInv ==
    \A n \in DOMAIN stack :
        /\ FrameInv(stack[n])
        /\ stack[n].inst # Nil => n = Len(stack)
        /\ \A m \in DOMAIN stack : m < n => Rank[stack[n].fix] < Rank[stack[m].fix]

CacheInv ==
    \A f \in Fixture : cached[f] # Nil =>
        /\ cached[f].inst.fix = f /\ cached[f].inst.key = cached[f].key
        /\ Scope[f] # "thread" => cached[f].key = SharedKey(f)

\* A shared instance that is open is cached, or about to be cached, unless it is bare.
PlaceInv ==
    \A i \in open : Scope[i.fix] # "thread" /\ i.fix \notin Bare =>
        \/ cached[i.fix] # Nil /\ cached[i.fix].inst = i
        \/ stack # <<>> /\ Top.inst = i

ScopeInv == StackInv /\ CacheInv /\ PlaceInv /\ NoSharing

LEMMA RankType ==
    /\ Rank \in [Fixture -> 0..Cardinality(Fixture)]
    /\ \A f \in Fixture : \A d \in Dependency[f] : Rank[d] < Rank[f]
  BY NoDependencyCycle DEF Rank

LEMMA KeyIsShared ==
    ASSUME NEW t \in Worker, NEW f \in Fixture
    PROVE  CacheKey(t, f) = IF Scope[f] = "thread" THEN [by |-> t, no |-> threadKey[t]] ELSE SharedKey(f)
  BY FixtureAssumption DEF CacheKey, SharedKey

LEMMA OnceEach == ASSUME PlaceInv, StackInv, TypeInv PROVE OneInstance
<1> SUFFICES ASSUME NEW i \in open, NEW j \in open, i.fix = j.fix, Scope[i.fix] # "thread",
                    i.fix \notin Bare
             PROVE  i = j
  BY DEF OneInstance
<1>1. ASSUME stack # <<>> PROVE Top \in GetFixtureCall /\ FrameInv(Top)
  BY <1>1 DEF Top, StackInv, TypeInv, FixtureTypeOK
<1>2. ASSUME NEW k \in open, stack # <<>>, Top.inst = k, Scope[k.fix] # "thread", k.fix \notin Bare
      PROVE  cached[k.fix] = Nil
  <2>1. k # Nil
    BY FixtureAssumption DEF TypeInv, FixtureTypeOK
  <2> QED
    BY <1>1, <1>2, <2>1 DEF FrameInv
<1> QED
  BY <1>2 DEF PlaceInv

\* The calls under way go on, with fewer dependencies left, or end.
LEMMA StackKeeps ==
    ASSUME TypeInv, StackInv, stack' \in Seq(GetFixtureCall), Len(stack') <= Len(stack),
           holder' = holder, globalKey' = globalKey,
           \A n \in DOMAIN stack' :
               /\ stack'[n].fix = stack[n].fix /\ stack'[n].key = stack[n].key
               /\ stack'[n].left \subseteq stack[n].left
               /\ cached[stack[n].fix] = Nil => cached'[stack[n].fix] = Nil
               /\ stack'[n].inst # Nil => /\ n = Len(stack')
                                          /\ stack'[n].inst.fix = stack'[n].fix
                                          /\ stack'[n].inst.key = stack'[n].key
    PROVE  StackInv'
<1>1. stack \in Seq(GetFixtureCall) /\ DOMAIN stack' \subseteq DOMAIN stack
  BY DEF TypeInv, FixtureTypeOK
<1> SUFFICES ASSUME NEW n \in DOMAIN stack'
             PROVE  /\ FrameInv(stack[n])'
                    /\ stack'[n].inst # Nil => n = Len(stack')
                    /\ \A m \in DOMAIN stack' : m < n => Rank[stack'[n].fix] < Rank[stack'[m].fix]
  BY DEF StackInv
<1>2. FrameInv(stack[n])
  BY <1>1 DEF StackInv
<1>4. FrameInv(stack[n])'
  BY <1>2 DEF FrameInv, SharedKey
<1>5. \A m \in DOMAIN stack' : m < n => Rank[stack'[n].fix] < Rank[stack'[m].fix]
  BY <1>1 DEF StackInv
<1> QED
  BY <1>4, <1>5

LEMMA SharingKept ==
    ASSUME NoSharing, \A t \in Worker : got'[t] \subseteq got[t]
    PROVE  NoSharing'
  BY DEF NoSharing

\* A step that leaves the cache and the calls under way alone.
LEMMA ScopeSame ==
    ASSUME ScopeInv, UNCHANGED <<cached, open, buildVars, globalKey>>,
           \A t \in Worker : got'[t] \subseteq got[t]
    PROVE  ScopeInv'
<1>1. StackInv'
  BY DEF ScopeInv, StackInv, FrameInv, SharedKey, buildVars
<1>2. CacheInv'
  BY DEF ScopeInv, CacheInv, SharedKey
<1>3. PlaceInv'
  BY DEF ScopeInv, PlaceInv, Top, buildVars
<1> QED
  BY <1>1, <1>2, <1>3, SharingKept DEF ScopeInv

\* Clearing removes the cached instance and every open one, also one in the making.
LEMMA ScopeClear ==
    ASSUME TypeInv, OpenInv, ScopeInv, NEW F \in SUBSET Fixture, ClearCache(F),
           UNCHANGED <<buildVars, got>>,
           globalKey' = globalKey \/ (holder = Nil /\ Of("global") \subseteq F)
    PROVE  ScopeInv'
<1>1. open' = {i \in open : i.fix \notin F}
  BY ClearCloses DEF OpenInv
<1>2. \A f \in Fixture : cached'[f] = IF f \in F THEN Nil ELSE cached[f]
  BY DEF ClearCache, EmptyCached
<1>3. StackInv'
  <2>1. CASE holder = Nil
    BY <2>1 DEF TypeInv, LockInv, StackInv, buildVars
  <2>2. CASE holder # Nil
    <3>1. stack' \in Seq(GetFixtureCall) /\ Len(stack') <= Len(stack) /\ DOMAIN stack' = DOMAIN stack
      BY DEF buildVars, TypeInv, FixtureTypeOK
    <3>2. ASSUME NEW n \in DOMAIN stack PROVE stack[n].fix \in Fixture /\ FrameInv(stack[n])
      <4>1. stack[n] \in GetFixtureCall
        BY <3>2 DEF TypeInv, FixtureTypeOK
      <4> QED
        BY <3>2, <4>1 DEF GetFixtureCall, ScopeInv, StackInv
    <3>3. ASSUME NEW n \in DOMAIN stack'
          PROVE  /\ stack'[n].fix = stack[n].fix /\ stack'[n].key = stack[n].key
                 /\ stack'[n].left \subseteq stack[n].left
                 /\ cached[stack[n].fix] = Nil => cached'[stack[n].fix] = Nil
                 /\ stack'[n].inst # Nil => /\ n = Len(stack')
                                            /\ stack'[n].inst.fix = stack'[n].fix
                                            /\ stack'[n].inst.key = stack'[n].key
      <4>1. stack' = stack /\ n \in DOMAIN stack
        BY <3>1, <3>3 DEF buildVars
      <4>2. stack[n].inst # Nil => n = Len(stack)
        BY <4>1 DEF ScopeInv, StackInv
      <4>3. stack[n].inst # Nil => stack[n].inst.fix = stack[n].fix /\ stack[n].inst.key = stack[n].key
        BY <3>2, <4>1 DEF FrameInv
      <4> QED
        BY <1>2, <3>2, <4>1, <4>2, <4>3
    <3>4. holder' = holder /\ globalKey' = globalKey /\ StackInv
      BY <2>2 DEF buildVars, ScopeInv
    <3> QED
      BY <3>1, <3>3, <3>4, StackKeeps
  <2> QED
    BY <2>1, <2>2
<1>4. CacheInv'
  <2> SUFFICES ASSUME NEW f \in Fixture, cached'[f] # Nil
               PROVE  /\ cached'[f].inst.fix = f /\ cached'[f].inst.key = cached'[f].key
                      /\ Scope[f] # "thread" => cached'[f].key = SharedKey(f)'
    BY DEF CacheInv
  <2>1. f \notin F /\ cached'[f] = cached[f]
    BY <1>2
  <2>2. Scope[f] # "thread" => SharedKey(f)' = SharedKey(f)
    BY <2>1 DEF SharedKey, Of
  <2> QED
    BY <2>1, <2>2 DEF ScopeInv, CacheInv
<1>5. PlaceInv'
  <2> SUFFICES ASSUME NEW i \in open', Scope[i.fix] # "thread", i.fix \notin Bare
               PROVE  \/ cached'[i.fix] # Nil /\ cached'[i.fix].inst = i
                      \/ stack' # <<>> /\ Top' = Top /\ Top.inst = i
    BY DEF PlaceInv
  <2>1. i \in open /\ i.fix \notin F /\ i.fix \in Fixture
    BY <1>1 DEF TypeInv, FixtureTypeOK, Instance
  <2> QED
    BY <1>2, <2>1 DEF ScopeInv, PlaceInv, Top, buildVars
<1> QED
  BY <1>3, <1>4, <1>5, SharingKept DEF ScopeInv

\* A fixture that is not cached, or only for another thread or session, is called.
LEMMA FrameIsNew ==
    ASSUME TypeInv, CacheInv, NEW t \in Worker, NEW f \in Fixture, ~Hit(t, f),
           holder' = t, UNCHANGED <<cached, globalKey>>,
           NEW n \in DOMAIN stack', stack'[n] = Frame(t, f)
    PROVE  FrameInv(stack[n])'
<1>1. /\ stack'[n].fix = f /\ stack'[n].key = CacheKey(t, f)
      /\ stack'[n].left = Dependency[f] /\ stack'[n].inst = Nil
  BY DEF Frame
<1>2. \A d \in Dependency[f] : d \in Fixture /\ Rank[d] < Rank[f]
  BY RankType, FixtureAssumption
<1>3. Scope[f] # "thread" => /\ f \notin Bare => cached[f] = Nil
                             /\ CacheKey(t, f) = SharedKey(f) /\ SharedKey(f)' = SharedKey(f)
  BY KeyIsShared DEF Hit, CacheInv, SharedKey
<1>4. Scope[f] = "thread" => CacheKey(t, f).by = t
  BY KeyIsShared
<1> QED
  BY <1>1, <1>2, <1>3, <1>4 DEF FrameInv, SharedKey

LEMMA ScopeGet ==
    ASSUME TypeInv, ScopeInv, NEW t \in Worker, GetFixture(t)
    PROVE  ScopeInv'
<1>1. holder = Nil /\ stack = <<>> /\ UNCHANGED <<cached, open, globalKey>>
  BY DEF GetFixture, cacheVars, keyVars, TypeInv, LockInv
<1>2. CASE Fails(t) /\ UNCHANGED <<buildVars, overlap>>
  BY <1>1, <1>2, ScopeSame DEF Fails, TypeInv, FixtureTypeOK
<1>3. CASE \E f \in want[t] : Hit(t, f) /\ Obtain(t, f, cached[f].inst) /\ UNCHANGED buildVars
  <2>1. PICK f \in want[t] : Hit(t, f) /\ Obtain(t, f, cached[f].inst)
    BY <1>3
  <2>2. f \in Fixture
    BY DEF TypeInv, FixtureTypeOK
  <2>3. cached[f].inst.fix = f /\ cached[f].inst.key = CacheKey(t, f)
    BY <2>1, <2>2 DEF ScopeInv, CacheInv, Hit
  <2>4. Scope[f] = "thread" => cached[f].inst.key.by = t
    BY <2>2, <2>3, KeyIsShared
  <2>5. \A u \in Worker : got'[u] = IF u = t THEN got[u] \cup {cached[f].inst} ELSE got[u]
    BY <2>1 DEF Obtain, TypeInv, FixtureTypeOK
  <2>6. ASSUME NEW u \in Worker, NEW i \in got'[u], Scope[i.fix] = "thread" PROVE i.key.by = u
    <3>1. CASE i \in got[u]
      BY <2>6, <3>1 DEF NoSharing, ScopeInv
    <3>2. CASE u = t /\ i = cached[f].inst
      BY <2>3, <2>4, <2>6, <3>2
    <3> QED
      BY <2>5, <2>6, <3>1, <3>2
  <2>7. StackInv' /\ CacheInv' /\ PlaceInv'
    BY <1>1, <1>3 DEF ScopeInv, StackInv, CacheInv, PlaceInv, SharedKey, FrameInv, Top, buildVars
  <2> QED
    BY <2>6, <2>7 DEF ScopeInv, NoSharing
<1>4. CASE \E f \in want[t] :
             ~Hit(t, f) /\ holder' = t /\ stack' = <<Frame(t, f)>> /\ UNCHANGED threadVars
  <2>1. PICK f \in want[t] : ~Hit(t, f) /\ holder' = t /\ stack' = <<Frame(t, f)>> /\ UNCHANGED threadVars
    BY <1>4
  <2>2. f \in Fixture
    BY DEF TypeInv, FixtureTypeOK
  <2>3. DOMAIN stack' = {1} /\ Len(stack') = 1 /\ stack'[1] = Frame(t, f)
    BY <2>1
  <2>4. StackInv'
    <3>1. FrameInv(stack[1])'
      BY <1>1, <2>1, <2>2, <2>3, FrameIsNew DEF ScopeInv
    <3> QED
      BY <2>3, <3>1 DEF StackInv
  <2>5. CacheInv' /\ PlaceInv' /\ NoSharing'
    BY <1>1, <2>1 DEF ScopeInv, CacheInv, PlaceInv, SharedKey, NoSharing, threadVars
  <2> QED
    BY <2>4, <2>5 DEF ScopeInv
<1> QED
  BY <1>2, <1>3, <1>4 DEF GetFixture

LEMMA SetTopValues ==
    ASSUME TypeInv, NEW t \in Worker, holder = t, NEW frame \in GetFixtureCall
    PROVE  /\ Len(SetTop(frame)) = Len(stack) /\ DOMAIN SetTop(frame) = DOMAIN stack
           /\ SetTop(frame)[Len(stack)] = frame
           /\ \A n \in DOMAIN stack : n # Len(stack) => SetTop(frame)[n] = stack[n]
<1>1. stack \in Seq(GetFixtureCall) /\ Len(stack) \in DOMAIN stack
  BY HolderBuilds DEF TypeInv, FixtureTypeOK
<1>2. DOMAIN SetTop(frame) = 1..Len(stack) /\ SetTop(frame) \in Seq(GetFixtureCall)
  BY <1>1, SetTopType DEF SetTop
<1>3. Len(SetTop(frame)) = Len(stack)
  BY <1>1, <1>2
<1> QED
  BY <1>1, <1>2, <1>3 DEF SetTop

LEMMA FrameKeeps ==
    ASSUME NEW n, FrameInv(stack[n]), holder' = holder, globalKey' = globalKey, cached' = cached,
           stack'[n].fix = stack[n].fix, stack'[n].key = stack[n].key,
           stack'[n].left \subseteq stack[n].left, stack'[n].inst = Nil
    PROVE  FrameInv(stack[n])'
  BY DEF FrameInv, SharedKey

\* One dependency is there, or is called.
LEMMA ScopeResolve ==
    ASSUME TypeInv, ScopeInv, NEW t \in Worker, ResolveDependency(t)
    PROVE  ScopeInv'
<1> DEFINE l == Len(stack)
           less(d, u) == [Top EXCEPT !.left = @ \ {d}, !.uses = @ \cup u]
           call(d) == [Top EXCEPT !.left = @ \ {d}]
<1>1. holder = t /\ UNCHANGED <<cached, open, globalKey, holder, got>> /\ Top.inst = Nil
  BY DEF ResolveDependency, cacheVars, keyVars, threadVars
<1>2. /\ stack \in Seq(GetFixtureCall) /\ l \in Nat \ {0} /\ DOMAIN stack = 1..l
      /\ Top = stack[l] /\ stack # <<>> /\ Top \in GetFixtureCall
  BY <1>1, HolderBuilds DEF TypeInv, FixtureTypeOK, Top
<1>3. \A n \in DOMAIN stack : stack[n].inst = Nil /\ FrameInv(stack[n])
  BY <1>1, <1>2 DEF ScopeInv, StackInv
<1>4. PICK d \in Top.left :
        \/ Hit(t, d) /\ stack' = SetTop(less(d, {AsPart(cached[d].inst)}))
        \/ ~Hit(t, d) /\ stack' = Append(SetTop(call(d)), Frame(t, d))
  BY DEF ResolveDependency
<1>5. d \in Fixture /\ Rank[d] < Rank[Top.fix]
  BY <1>2, <1>3 DEF FrameInv
<1>6. stack' \in Seq(GetFixtureCall)
  BY TypeResolve DEF TypeInv, FixtureTypeOK
<1>7. ASSUME Hit(t, d), stack' = SetTop(less(d, {AsPart(cached[d].inst)}))
      PROVE  StackInv'
  <2> DEFINE c == less(d, {AsPart(cached[d].inst)})
  <2>1. c \in GetFixtureCall
    <3>1. AsPart(cached[d].inst) \in Part
      BY <1>5, <1>7 DEF Hit, TypeInv, FixtureTypeOK, Entry, Instance, AsPart, Part
    <3> QED
      BY <1>2, <3>1 DEF GetFixtureCall
  <2>2. c.fix = Top.fix /\ c.key = Top.key /\ c.left \subseteq Top.left /\ c.inst = Nil
    BY <1>1, <1>2 DEF GetFixtureCall
  <2> HIDE DEF c
  <2>3. stack' = SetTop(c)
    BY <1>7 DEF c
  <2>4. /\ Len(stack') = l /\ DOMAIN stack' = DOMAIN stack /\ stack'[l] = c
        /\ \A n \in DOMAIN stack : n # l => stack'[n] = stack[n]
    BY <1>1, <2>1, <2>3, SetTopValues
  <2>5. ASSUME NEW n \in DOMAIN stack'
        PROVE  /\ stack'[n].fix = stack[n].fix /\ stack'[n].key = stack[n].key
               /\ stack'[n].left \subseteq stack[n].left /\ stack'[n].inst = Nil
    BY <1>2, <1>3, <2>2, <2>4
  <2>6. StackInv'
    BY <1>1, <1>2, <1>6, <2>4, <2>5, StackKeeps DEF ScopeInv
  <2> QED
    BY <2>6
<1>8. ASSUME ~Hit(t, d), stack' = Append(SetTop(call(d)), Frame(t, d))
      PROVE  StackInv'
  <2> DEFINE c == call(d)
  <2>1. c \in GetFixtureCall /\ Frame(t, d) \in GetFixtureCall
    BY <1>2, <1>5, FrameType DEF GetFixtureCall
  <2>2. c.fix = Top.fix /\ c.key = Top.key /\ c.left \subseteq Top.left /\ c.inst = Nil
    BY <1>1, <1>2 DEF GetFixtureCall
  <2> HIDE DEF c
  <2>3. stack' = Append(SetTop(c), Frame(t, d))
    BY <1>8 DEF c
  <2>4. /\ Len(SetTop(c)) = l /\ SetTop(c) \in Seq(GetFixtureCall) /\ SetTop(c)[l] = c
        /\ \A n \in DOMAIN stack : n # l => SetTop(c)[n] = stack[n]
    BY <1>1, <2>1, SetTopValues, SetTopType
  <2>5. /\ Len(stack') = l + 1 /\ DOMAIN stack' = 1..(l + 1) /\ stack'[l + 1] = Frame(t, d)
        /\ \A n \in 1..l : stack'[n] = SetTop(c)[n]
    BY <1>2, <2>1, <2>3, <2>4
  <2>6. ASSUME NEW n \in DOMAIN stack
        PROVE  /\ stack'[n].fix = stack[n].fix /\ stack'[n].key = stack[n].key
               /\ stack'[n].left \subseteq stack[n].left /\ stack'[n].inst = Nil
    BY <1>2, <1>3, <2>2, <2>4, <2>5
  <2>7. \A n \in DOMAIN stack : FrameInv(stack[n])'
    BY <1>1, <1>3, <2>6, FrameKeeps
  <2>8. ASSUME NEW n \in DOMAIN stack', n = l + 1 PROVE FrameInv(stack[n])'
    BY <2>8, <1>1, <1>2, <1>5, <1>8, <2>5, FrameIsNew DEF ScopeInv
  <2>9. ASSUME NEW m \in DOMAIN stack PROVE Rank[d] < Rank[stack[m].fix]
    <3>1. stack[m].fix \in Fixture /\ Top.fix \in Fixture
      <4>1. stack[m] \in GetFixtureCall
        BY <1>2, <2>9
      <4> QED
        BY <1>2, <4>1 DEF GetFixtureCall
    <3>2. m = l \/ Rank[Top.fix] < Rank[stack[m].fix]
      BY <1>2 DEF ScopeInv, StackInv
    <3>3. Rank[d] \in Int /\ Rank[Top.fix] \in Int /\ Rank[stack[m].fix] \in Int
      BY <1>5, <3>1, RankType
    <3> QED
      BY <1>2, <1>5, <3>2, <3>3
  <2>10. stack'[l + 1].inst = Nil /\ stack'[l + 1].fix = d
    BY <2>5 DEF Frame
  <2>11. ASSUME NEW n \in DOMAIN stack', NEW m \in DOMAIN stack', m < n
         PROVE  Rank[stack'[n].fix] < Rank[stack'[m].fix]
    <3>1. m \in DOMAIN stack /\ stack'[m].fix = stack[m].fix
      BY <1>2, <2>5, <2>6, <2>11
    <3>2. CASE n = l + 1
      BY <2>9, <2>10, <3>1, <3>2
    <3>3. CASE n \in DOMAIN stack
      BY <2>6, <2>11, <3>1, <3>3 DEF ScopeInv, StackInv
    <3> QED
      BY <1>2, <2>5, <3>2, <3>3
  <2>12. \A n \in DOMAIN stack' : FrameInv(stack[n])' /\ stack'[n].inst = Nil
    <3>1. \A n \in DOMAIN stack' : n \in DOMAIN stack \/ n = l + 1
      BY <1>2, <2>5
    <3> QED
      BY <2>6, <2>7, <2>8, <2>10, <3>1
  <2>13. StackInv'
    BY <2>11, <2>12 DEF StackInv
  <2> QED
    BY <2>13
<1>9. PlaceInv'
  <2> SUFFICES ASSUME NEW i \in open, Scope[i.fix] # "thread", i.fix \notin Bare
               PROVE  cached[i.fix] # Nil /\ cached[i.fix].inst = i
    BY <1>1 DEF PlaceInv
  <2>1. i # Nil
    BY FixtureAssumption DEF TypeInv, FixtureTypeOK
  <2> QED
    BY <1>1, <2>1 DEF ScopeInv, PlaceInv
<1>10. CacheInv' /\ NoSharing'
  BY <1>1 DEF ScopeInv, CacheInv, SharedKey, NoSharing
<1> QED
  BY <1>4, <1>7, <1>8, <1>9, <1>10 DEF ScopeInv

\* The new instance is the only one of its fixture, if that is shared.
LEMMA ScopeExecute ==
    ASSUME TypeInv, ScopeInv, NEW t \in Worker, ExecuteFixture(t)
    PROVE  ScopeInv'
<1> DEFINE i == [id |-> made, fix |-> Top.fix, key |-> Top.key, uses |-> Top.uses]
           c == [Top EXCEPT !.inst = i]
           l == Len(stack)
<1>1. /\ holder = t /\ UNCHANGED <<cached, globalKey, holder, got>> /\ Top.inst = Nil
      /\ open' = open \cup {i} /\ stack' = SetTop(c)
  BY DEF ExecuteFixture, keyVars, threadVars
<1>2. /\ stack \in Seq(GetFixtureCall) /\ l \in DOMAIN stack /\ Top = stack[l] /\ stack # <<>>
      /\ Top \in GetFixtureCall
  BY <1>1, HolderBuilds DEF TypeInv, FixtureTypeOK, Top
<1>3. i.fix = Top.fix /\ i.key = Top.key /\ c \in GetFixtureCall
  <2>1. i \in Instance
    BY <1>2 DEF Instance, GetFixtureCall, TypeInv, FixtureTypeOK
  <2> QED
    BY <1>2, <2>1 DEF GetFixtureCall
<1>4. c.fix = Top.fix /\ c.key = Top.key /\ c.left = Top.left /\ c.inst = i
  BY <1>2 DEF GetFixtureCall
<1> HIDE DEF c, i
<1>5. /\ Len(stack') = l /\ DOMAIN stack' = DOMAIN stack /\ stack'[l] = c
      /\ stack' \in Seq(GetFixtureCall)
      /\ \A n \in DOMAIN stack : n # l => stack'[n] = stack[n]
  BY <1>1, <1>3, SetTopValues, SetTopType
<1>6. StackInv'
  <2>1. ASSUME NEW n \in DOMAIN stack'
        PROVE  /\ stack'[n].fix = stack[n].fix /\ stack'[n].key = stack[n].key
               /\ stack'[n].left \subseteq stack[n].left
               /\ stack'[n].inst # Nil => /\ n = Len(stack') /\ stack'[n].inst.fix = stack'[n].fix
                                          /\ stack'[n].inst.key = stack'[n].key
    BY <1>1, <1>2, <1>3, <1>4, <1>5 DEF ScopeInv, StackInv
  <2> QED
    BY <1>1, <1>2, <1>5, <2>1, StackKeeps DEF ScopeInv
<1>7. PlaceInv'
  <2>1. stack' # <<>> /\ Top' = c
    BY <1>2, <1>5 DEF Top
  <2>2. \A j \in open : j # Nil
    BY FixtureAssumption DEF TypeInv, FixtureTypeOK
  <2> QED
    BY <1>1, <1>4, <2>1, <2>2 DEF ScopeInv, PlaceInv
<1>8. CacheInv' /\ NoSharing'
  BY <1>1 DEF ScopeInv, CacheInv, SharedKey, NoSharing
<1> QED
  BY <1>6, <1>7, <1>8 DEF ScopeInv

LEMMA ScopeFails ==
    ASSUME TypeInv, ScopeInv, NEW t \in Worker, ExecuteFails(t)
    PROVE  ScopeInv'
<1>1. /\ holder = t /\ UNCHANGED <<cached, open, globalKey>> /\ Top.inst = Nil /\ stack' = <<>>
      /\ Fails(t)
  BY DEF ExecuteFails, cacheVars, keyVars
<1>2. \A i \in open : i # Nil
  BY FixtureAssumption DEF TypeInv, FixtureTypeOK
<1>3. StackInv' /\ CacheInv' /\ PlaceInv'
  BY <1>1, <1>2 DEF ScopeInv, StackInv, CacheInv, PlaceInv, SharedKey
<1>4. \A u \in Worker : got'[u] \subseteq got[u]
  BY <1>1 DEF Fails, TypeInv, FixtureTypeOK
<1> QED
  BY <1>3, <1>4, SharingKept DEF ScopeInv

\* The instance goes into its slot, and to the call below or to the bound function.
LEMMA ScopeCached ==
    ASSUME TypeInv, ScopeInv, NEW t \in Worker, SetCachedResult(t)
    PROVE  ScopeInv'
<1> DEFINE i == Top.inst
           l == Len(stack)
<1>1. /\ holder = t /\ UNCHANGED <<open, globalKey>> /\ i # Nil
      /\ cached' = [cached EXCEPT ![Top.fix] = [inst |-> i, key |-> Top.key]]
  BY DEF SetCachedResult, keyVars
<1>2. /\ stack \in Seq(GetFixtureCall) /\ l \in DOMAIN stack /\ Top = stack[l] /\ stack # <<>>
      /\ Top \in GetFixtureCall /\ l \in Nat \ {0}
  BY <1>1, HolderBuilds DEF TypeInv, FixtureTypeOK, Top
<1>3. Top.fix \in Fixture /\ FrameInv(Top) /\ i.fix = Top.fix /\ i.key = Top.key
  <2>1. Top.fix \in Fixture /\ FrameInv(Top)
    BY <1>2 DEF GetFixtureCall, ScopeInv, StackInv
  <2> QED
    BY <1>1, <2>1 DEF FrameInv
<1>4. /\ cached'[Top.fix] # Nil /\ cached'[Top.fix].inst = i /\ cached'[Top.fix].key = Top.key
      /\ \A f \in Fixture : f # Top.fix => cached'[f] = cached[f]
  <2>1. [inst |-> i, key |-> Top.key] # Nil
    <3>1. [inst |-> i, key |-> Top.key] \in Entry
      BY <1>1, <1>2 DEF Entry, GetFixtureCall
    <3> QED
      BY <3>1, FixtureAssumption
  <2> QED
    BY <1>1, <1>3, <2>1 DEF TypeInv, FixtureTypeOK
<1>5. CacheInv'
  BY <1>1, <1>3, <1>4 DEF CacheInv, ScopeInv, FrameInv, SharedKey
<1>6. \A j \in open : Scope[j.fix] # "thread" /\ j.fix \notin Bare => cached'[j.fix] # Nil /\ cached'[j.fix].inst = j
  <2> SUFFICES ASSUME NEW j \in open, Scope[j.fix] # "thread", j.fix \notin Bare
               PROVE  cached'[j.fix] # Nil /\ cached'[j.fix].inst = j
    OBVIOUS
  <2>1. j.fix \in Fixture
    BY DEF TypeInv, FixtureTypeOK, Instance
  <2>2. CASE Top.inst = j
    BY <1>3, <1>4, <2>2
  <2>3. CASE cached[j.fix] # Nil /\ cached[j.fix].inst = j
    <3>1. j.fix # Top.fix
      BY <1>3, <2>3 DEF FrameInv
    <3> QED
      BY <1>4, <2>1, <2>3, <3>1
  <2> QED
    BY <2>2, <2>3 DEF ScopeInv, PlaceInv
<1>7. PlaceInv'
  BY <1>1, <1>6 DEF PlaceInv
<1>8. CASE Below = <<>> /\ stack' = Below /\ Obtain(t, Top.fix, i)
  <2>1. \A u \in Worker : got'[u] = IF u = t THEN got[u] \cup {i} ELSE got[u]
    BY <1>8 DEF Obtain, TypeInv, FixtureTypeOK
  <2>2. Scope[i.fix] = "thread" => i.key.by = t
    BY <1>1, <1>3 DEF FrameInv
  <2>3. ASSUME NEW u \in Worker, NEW j \in got'[u], Scope[j.fix] = "thread" PROVE j.key.by = u
    <3>1. CASE j \in got[u]
      BY <2>3, <3>1 DEF ScopeInv, NoSharing
    <3>2. CASE u = t /\ j = i
      BY <2>2, <2>3, <3>2
    <3> QED
      BY <2>1, <2>3, <3>1, <3>2
  <2>4. StackInv'
    BY <1>8 DEF StackInv
  <2> QED
    BY <1>5, <1>7, <2>3, <2>4 DEF ScopeInv, NoSharing
<1>9. CASE /\ Below # <<>> /\ UNCHANGED <<holder, want, got>>
           /\ stack' = [Below EXCEPT ![Len(Below)].uses = @ \cup {AsPart(i)}]
  <2>1. /\ Below \in Seq(GetFixtureCall) /\ Len(Below) = l - 1 /\ DOMAIN Below = 1..(l - 1)
        /\ \A n \in 1..(l - 1) : Below[n] = stack[n] /\ Below[n] \in GetFixtureCall
    BY <1>1, <1>2, BelowType
  <2>2. /\ stack' \in Seq(GetFixtureCall) /\ DOMAIN stack' = 1..(l - 1) /\ Len(stack') = l - 1
    <3>1. TypeInv'
      BY TypeBuild
    <3>2. stack' \in Seq(GetFixtureCall) /\ DOMAIN stack' = DOMAIN Below
      BY <1>9, <3>1 DEF TypeInv, FixtureTypeOK
    <3> QED
      BY <1>2, <2>1, <3>2
  <2>3. ASSUME NEW n \in 1..(l - 1)
        PROVE  /\ stack'[n].fix = stack[n].fix /\ stack'[n].key = stack[n].key
               /\ stack'[n].left = stack[n].left /\ stack'[n].inst = stack[n].inst
    <3>1. stack'[n] = IF n = Len(Below) THEN [Below[n] EXCEPT !.uses = @ \cup {AsPart(i)}] ELSE Below[n]
      BY <1>9, <2>1
    <3> QED
      BY <2>1, <3>1 DEF GetFixtureCall
  <2>4. ASSUME NEW n \in 1..(l - 1)
        PROVE  stack[n].inst = Nil /\ stack[n].fix \in Fixture /\ stack[n].fix # Top.fix
    <3>1. n \in DOMAIN stack /\ n < l /\ n # l /\ stack[n] \in GetFixtureCall
      BY <1>2, <2>1
    <3>2. Rank[Top.fix] < Rank[stack[n].fix] /\ stack[n].inst = Nil
      BY <1>2, <3>1 DEF ScopeInv, StackInv
    <3>3. Rank[Top.fix] \in Int
      BY <1>3, RankType
    <3> QED
      BY <3>1, <3>2, <3>3 DEF GetFixtureCall
  <2>5. StackInv'
    BY <1>1, <1>2, <1>4, <1>9, <2>2, <2>3, <2>4, StackKeeps DEF ScopeInv
  <2>6. NoSharing'
    BY <1>9 DEF ScopeInv, NoSharing
  <2> QED
    BY <1>5, <1>7, <2>5, <2>6 DEF ScopeInv
<1> QED
  BY <1>8, <1>9 DEF SetCachedResult, Below

LEMMA ScopeInit == FixtureInit => ScopeInv
  BY DEF FixtureInit, ScopeInv, StackInv, CacheInv, PlaceInv, NoSharing

LEMMA ScopeStep ==
    ASSUME TypeInv, OpenInv, ScopeInv, [FixtureNext]_fixtureVars
    PROVE  ScopeInv'
<1>1. CASE UNCHANGED fixtureVars
  BY <1>1, ScopeSame DEF fixtureVars, cacheVars, keyVars, threadVars
<1>2. CASE FixtureNext
  <2>1. PICK t \in Worker : WorkerAction(t)
    BY <1>2 DEF FixtureNext
  <2>2. CASE BoundCall(t) \/ StartSession(t) \/ Reconfigure(t) \/ ReconfigureEnds(t)
    BY <2>2, ScopeSame DEF BoundCall, StartSession, Reconfigure, ReconfigureEnds,
                           cacheVars, keyVars, threadVars
  <2>3. CASE BoundReturns(t)
    BY <2>3, ScopeSame DEF BoundReturns, Fails, cacheVars, keyVars, TypeInv, FixtureTypeOK
  <2>4. CASE GetFixture(t) \/ ResolveDependency(t)
    BY <2>4, ScopeGet, ScopeResolve
  <2>5. CASE ExecuteFixture(t) \/ ExecuteFails(t) \/ SetCachedResult(t)
    BY <2>5, ScopeExecute, ScopeFails, ScopeCached
  <2>6. CASE ClearThreadFixtures(t)
    <3>1. ClearCache(Of("thread")) /\ Of("thread") \in SUBSET Fixture
      BY <2>6 DEF ClearThreadFixtures, Of
    <3> QED
      BY <2>6, <3>1, ScopeClear DEF ClearThreadFixtures, keyVars, threadVars
  <2>7. CASE StartGlobalSession(t)
    <3>1. ClearCache(Of("global")) /\ Of("global") \in SUBSET Fixture /\ holder = Nil
      BY <2>7 DEF StartGlobalSession, Of, ManagerFree
    <3> QED
      BY <2>7, <3>1, ScopeClear DEF StartGlobalSession, threadVars
  <2>8. CASE ShutdownManager(t)
    BY <2>8, ScopeClear DEF ShutdownManager, threadVars
  <2>9. CASE ClearOne(t)
    <3>1. PICK f \in want[t] : ClearCache({f})
      BY <2>9 DEF ClearOne
    <3>2. {f} \in SUBSET Fixture
      BY <2>9 DEF TypeInv, FixtureTypeOK
    <3> QED
      BY <2>9, <3>1, <3>2, ScopeClear DEF ClearOne, keyVars
  <2> QED
    BY <2>1, <2>2, <2>3, <2>4, <2>5, <2>6, <2>7, <2>8, <2>9 DEF WorkerAction
<1> QED
  BY <1>1, <1>2

LEMMA ScopeCorrect == FixtureSpec => []ScopeInv
  BY FixtureTypeCorrect, OpenCorrect, ScopeInit, ScopeStep, PTL DEF FixtureSpec

(* What the scopes promise: one open instance of a fixture that is shared,  *)
(* and no instance of a fixture of a thread in the hands of another thread, *)
(* while sessions start, fixtures fail and reconfigure clears without lock. *)
THEOREM ScopesHoldCorrect == FixtureSpec => []ScopesHold
<1>1. TypeInv /\ ScopeInv => ScopesHold
  BY OnceEach DEF ScopeInv, ScopesHold
<1> QED
  BY <1>1, FixtureTypeCorrect, ScopeCorrect, PTL

-----------------------------------------------------------------------------
(* The calls under way: what each step does to the stack.                   *)

\* A dependency that is there joins the ones used, or a call of it comes on top.
LEMMA ResolveSays ==
    ASSUME TypeInv, NEW t \in Worker, ResolveDependency(t)
    PROVE  /\ \A n \in DOMAIN stack :
                 /\ stack'[n].fix = stack[n].fix /\ stack'[n].inst = stack[n].inst
                 /\ stack'[n].left \subseteq stack[n].left
           /\ \E d \in Top.left :
                 \/ /\ Hit(t, d) /\ DOMAIN stack' = DOMAIN stack
                    /\ stack'[Len(stack)].uses = Top.uses \cup {AsPart(cached[d].inst)}
                    /\ \A n \in DOMAIN stack : n # Len(stack) => stack'[n].uses = stack[n].uses
                 \/ /\ DOMAIN stack' = 1..(Len(stack) + 1)
                    /\ stack'[Len(stack) + 1] = Frame(t, d)
                    /\ \A n \in DOMAIN stack : stack'[n].uses = stack[n].uses
<1> DEFINE l == Len(stack)
           less(d, u) == [Top EXCEPT !.left = @ \ {d}, !.uses = @ \cup u]
           call(d) == [Top EXCEPT !.left = @ \ {d}]
<1>1. holder = t /\ Top.inst = Nil
  BY DEF ResolveDependency
<1>2. /\ stack \in Seq(GetFixtureCall) /\ l \in Nat \ {0} /\ DOMAIN stack = 1..l
      /\ Top = stack[l] /\ Top \in GetFixtureCall
  BY <1>1, HolderBuilds DEF TypeInv, FixtureTypeOK, Top
<1>3. PICK d \in Top.left :
        \/ Hit(t, d) /\ stack' = SetTop(less(d, {AsPart(cached[d].inst)}))
        \/ ~Hit(t, d) /\ stack' = Append(SetTop(call(d)), Frame(t, d))
  BY DEF ResolveDependency
<1>4. d \in Fixture
  BY <1>2 DEF GetFixtureCall
<1>5. CASE Hit(t, d) /\ stack' = SetTop(less(d, {AsPart(cached[d].inst)}))
  <2> DEFINE c == less(d, {AsPart(cached[d].inst)})
  <2>1. c \in GetFixtureCall
    <3>1. AsPart(cached[d].inst) \in Part
      BY <1>4, <1>5 DEF Hit, TypeInv, FixtureTypeOK, Entry, Instance, AsPart, Part
    <3> QED
      BY <1>2, <3>1 DEF GetFixtureCall
  <2>2. /\ c.fix = Top.fix /\ c.left \subseteq Top.left /\ c.inst = Top.inst
        /\ c.uses = Top.uses \cup {AsPart(cached[d].inst)}
    BY <1>2 DEF GetFixtureCall
  <2> HIDE DEF c
  <2>3. stack' = SetTop(c)
    BY <1>5 DEF c
  <2>4. /\ DOMAIN stack' = DOMAIN stack /\ stack'[l] = c
        /\ \A n \in DOMAIN stack : n # l => stack'[n] = stack[n]
    BY <1>1, <2>1, <2>3, SetTopValues
  <2>5. \A n \in DOMAIN stack :
          /\ stack'[n].fix = stack[n].fix /\ stack'[n].inst = stack[n].inst
          /\ stack'[n].left \subseteq stack[n].left
    BY <1>2, <2>2, <2>4
  <2>6. stack'[l].uses = Top.uses \cup {AsPart(cached[d].inst)}
    BY <2>2, <2>4
  <2> QED
    BY <1>5, <2>4, <2>5, <2>6
<1>6. CASE stack' = Append(SetTop(call(d)), Frame(t, d))
  <2> DEFINE c == call(d)
  <2>1. c \in GetFixtureCall /\ Frame(t, d) \in GetFixtureCall
    BY <1>2, <1>4, FrameType DEF GetFixtureCall
  <2>2. c.fix = Top.fix /\ c.left \subseteq Top.left /\ c.inst = Top.inst /\ c.uses = Top.uses
    BY <1>2 DEF GetFixtureCall
  <2> HIDE DEF c
  <2>3. stack' = Append(SetTop(c), Frame(t, d))
    BY <1>6 DEF c
  <2>4. /\ Len(SetTop(c)) = l /\ SetTop(c) \in Seq(GetFixtureCall) /\ SetTop(c)[l] = c
        /\ \A n \in DOMAIN stack : n # l => SetTop(c)[n] = stack[n]
    BY <1>1, <2>1, SetTopValues, SetTopType
  <2>5. /\ DOMAIN stack' = 1..(l + 1) /\ stack'[l + 1] = Frame(t, d)
        /\ \A n \in 1..l : stack'[n] = SetTop(c)[n]
    BY <1>2, <2>1, <2>3, <2>4
  <2>6. \A n \in DOMAIN stack :
          /\ stack'[n].fix = stack[n].fix /\ stack'[n].inst = stack[n].inst
          /\ stack'[n].left \subseteq stack[n].left /\ stack'[n].uses = stack[n].uses
    BY <1>2, <2>2, <2>4, <2>5
  <2> QED
    BY <2>5, <2>6
<1> QED
  BY <1>3, <1>5, <1>6

\* The call on top gets its instance, which uses what the call has resolved.
LEMMA ExecuteSays ==
    ASSUME TypeInv, NEW t \in Worker, ExecuteFixture(t)
    PROVE  /\ DOMAIN stack' = DOMAIN stack /\ Len(stack') = Len(stack)
           /\ \A n \in DOMAIN stack :
                 /\ stack'[n].fix = stack[n].fix /\ stack'[n].left = stack[n].left
                 /\ stack'[n].uses = stack[n].uses
                 /\ n # Len(stack) => stack'[n].inst = stack[n].inst
           /\ stack'[Len(stack)].inst \in open' /\ stack'[Len(stack)].inst.uses = Top.uses
           /\ open \subseteq open' /\ UNCHANGED <<cached, spoiled, tpc, want, overlap, holder>>
<1> DEFINE i == [id |-> made, fix |-> Top.fix, key |-> Top.key, uses |-> Top.uses]
           c == [Top EXCEPT !.inst = i]
           l == Len(stack)
<1>1. holder = t /\ open' = open \cup {i} /\ stack' = SetTop(c)
  BY DEF ExecuteFixture
<1>2. /\ l \in DOMAIN stack /\ Top = stack[l] /\ Top \in GetFixtureCall
  BY <1>1, HolderBuilds DEF Top
<1>3. i.uses = Top.uses /\ c \in GetFixtureCall
  <2>1. i \in Instance
    BY <1>2 DEF Instance, GetFixtureCall, TypeInv, FixtureTypeOK
  <2> QED
    BY <1>2, <2>1 DEF GetFixtureCall
<1>4. c.fix = Top.fix /\ c.left = Top.left /\ c.uses = Top.uses /\ c.inst = i
  BY <1>2 DEF GetFixtureCall
<1> HIDE DEF c, i
<1>5. /\ Len(stack') = l /\ DOMAIN stack' = DOMAIN stack /\ stack'[l] = c
      /\ \A n \in DOMAIN stack : n # l => stack'[n] = stack[n]
  BY <1>1, <1>3, SetTopValues
<1>6. UNCHANGED <<cached, spoiled, tpc, want, overlap, holder>>
  BY DEF ExecuteFixture, threadVars
<1> QED
  BY <1>1, <1>2, <1>3, <1>4, <1>5, <1>6

\* The call on top ends, and its instance joins what the call below uses.
LEMMA CachedSays ==
    ASSUME TypeInv, NEW t \in Worker, SetCachedResult(t)
    PROVE  /\ DOMAIN stack' = 1..(Len(stack) - 1) /\ Len(stack') = Len(stack) - 1
           /\ \A n \in DOMAIN stack' :
                 /\ stack'[n].fix = stack[n].fix /\ stack'[n].left = stack[n].left
                 /\ stack'[n].inst = stack[n].inst
                 /\ n # Len(stack) - 1 => stack'[n].uses = stack[n].uses
                 /\ n = Len(stack) - 1 => stack'[n].uses = stack[n].uses \cup {AsPart(Top.inst)}
           /\ cached'[Top.fix] # Nil /\ cached'[Top.fix].inst = Top.inst
           /\ \A f \in Fixture : f # Top.fix => cached'[f] = cached[f]
<1> DEFINE i == Top.inst
           l == Len(stack)
<1>1. /\ holder = t /\ i # Nil
      /\ cached' = [cached EXCEPT ![Top.fix] = [inst |-> i, key |-> Top.key]]
  BY DEF SetCachedResult
<1>2. l \in Nat \ {0} /\ Top \in GetFixtureCall
  BY <1>1, HolderBuilds
<1>3. /\ cached'[Top.fix] # Nil /\ cached'[Top.fix].inst = i
      /\ \A f \in Fixture : f # Top.fix => cached'[f] = cached[f]
  <2>1. [inst |-> i, key |-> Top.key] # Nil
    <3>1. [inst |-> i, key |-> Top.key] \in Entry
      BY <1>1, <1>2 DEF Entry, GetFixtureCall
    <3> QED
      BY <3>1, FixtureAssumption
  <2>2. Top.fix \in Fixture
    BY <1>2 DEF GetFixtureCall
  <2> QED
    BY <1>1, <2>1, <2>2 DEF TypeInv, FixtureTypeOK
<1>4. /\ Below \in Seq(GetFixtureCall) /\ Len(Below) = l - 1 /\ DOMAIN Below = 1..(l - 1)
      /\ \A n \in 1..(l - 1) : Below[n] = stack[n] /\ Below[n] \in GetFixtureCall
  BY <1>1, <1>2, BelowType
<1>5. stack' \in Seq(GetFixtureCall)
  BY TypeBuild DEF TypeInv, FixtureTypeOK
<1>6. CASE Below = <<>> /\ stack' = Below
  <2>1. l - 1 = 0 /\ Len(stack') = l - 1 /\ DOMAIN stack' = 1..(l - 1)
    BY <1>2, <1>4, <1>6
  <2>2. ~ \E n \in DOMAIN stack' : TRUE
    BY <2>1
  <2> QED
    BY <1>3, <2>1, <2>2
<1>7. CASE Below # <<>> /\ stack' = [Below EXCEPT ![Len(Below)].uses = @ \cup {AsPart(i)}]
  <2>1. DOMAIN stack' = 1..(l - 1) /\ Len(stack') = l - 1
    <3>1. DOMAIN stack' = DOMAIN Below
      BY <1>7
    <3> QED
      BY <1>2, <1>4, <1>5, <3>1
  <2>2. ASSUME NEW n \in 1..(l - 1)
        PROVE  /\ stack'[n].fix = stack[n].fix /\ stack'[n].left = stack[n].left
               /\ stack'[n].inst = stack[n].inst
               /\ n # l - 1 => stack'[n].uses = stack[n].uses
               /\ n = l - 1 => stack'[n].uses = stack[n].uses \cup {AsPart(i)}
    <3>1. stack'[n] = IF n = Len(Below) THEN [Below[n] EXCEPT !.uses = @ \cup {AsPart(i)}] ELSE Below[n]
      BY <1>4, <1>7
    <3> QED
      BY <1>4, <3>1 DEF GetFixtureCall
  <2> QED
    BY <1>3, <2>1, <2>2
<1> QED
  BY <1>6, <1>7 DEF SetCachedResult, Below

-----------------------------------------------------------------------------
(* What is cached is open.                                                  *)

\* An instance in the making is open, unless reconfigure has just closed it.
TopOpen == stack # <<>> /\ Top.inst # Nil => Top.inst \in open \cup spoiled

SlotInv == CachedIsOpen /\ TopOpen

\* Clearing closes what it clears, and notes what was in the making.
LEMMA SlotClear ==
    ASSUME TypeInv, OpenInv, ScopeInv, SlotInv, NEW F \in SUBSET Fixture, ClearCache(F),
           stack' = stack, spoiled \subseteq spoiled',
           holder # Nil /\ Top.inst # Nil /\ Top.inst \in Closing(F) => Top.inst \in spoiled'
    PROVE  SlotInv'
<1>1. open' = {i \in open : i.fix \notin F}
  BY ClearCloses DEF OpenInv
<1>2. \A f \in Fixture : cached'[f] = IF f \in F THEN Nil ELSE cached[f]
  BY DEF ClearCache, EmptyCached
<1>3. CachedIsOpen'
  <2> SUFFICES ASSUME NEW f \in Fixture, cached'[f] # Nil
               PROVE  cached'[f].inst \in open' \cup spoiled'
    BY DEF CachedIsOpen
  <2>1. f \notin F /\ cached'[f] = cached[f]
    BY <1>2
  <2>2. cached[f].inst.fix = f /\ cached[f].inst \in open \cup spoiled
    BY <2>1 DEF ScopeInv, CacheInv, SlotInv, CachedIsOpen
  <2> QED
    BY <1>1, <2>1, <2>2
<1>4. TopOpen'
  <2> SUFFICES ASSUME stack # <<>>, Top.inst # Nil PROVE Top.inst \in open' \cup spoiled'
    BY DEF TopOpen, Top
  <2>1. holder # Nil
    BY DEF TypeInv, LockInv
  <2>2. Top.inst \in open \cup spoiled
    BY DEF SlotInv, TopOpen
  <2>3. CASE Top.inst \in Closing(F)
    BY <2>1, <2>3
  <2>4. CASE Top.inst \notin Closing(F)
    BY <2>2, <2>4 DEF ClearCache
  <2> QED
    BY <2>3, <2>4
<1> QED
  BY <1>3, <1>4 DEF SlotInv

LEMMA SlotStep ==
    ASSUME TypeInv, OpenInv, ScopeInv, SlotInv, [FixtureNext]_fixtureVars
    PROVE  SlotInv'
<1>1. ASSUME UNCHANGED <<cached, open, spoiled>>, stack' = stack \/ stack' = <<>> PROVE SlotInv'
  BY <1>1 DEF SlotInv, CachedIsOpen, TopOpen, Top
<1>2. CASE UNCHANGED fixtureVars
  BY <1>1, <1>2 DEF fixtureVars, cacheVars, buildVars
<1>3. CASE FixtureNext
  <2>1. PICK t \in Worker : WorkerAction(t)
    BY <1>3 DEF FixtureNext
  <2>2. CASE BoundCall(t) \/ BoundReturns(t) \/ StartSession(t) \/ Reconfigure(t) \/ ReconfigureEnds(t)
    BY <1>1, <2>2 DEF BoundCall, BoundReturns, StartSession, Reconfigure, ReconfigureEnds,
                      cacheVars, buildVars
  <2>3. CASE ExecuteFails(t)
    BY <1>1, <2>3 DEF ExecuteFails, cacheVars
  <2>4. CASE GetFixture(t)
    <3>1. UNCHANGED <<cached, open, spoiled>>
      BY <2>4 DEF GetFixture, cacheVars
    <3>2. CASE stack' = stack
      BY <1>1, <3>1, <3>2
    <3>3. CASE \E f \in want[t] : stack' = <<Frame(t, f)>>
      <4>1. Top'.inst = Nil
        BY <3>3 DEF Top, Frame
      <4> QED
        BY <3>1, <4>1 DEF SlotInv, CachedIsOpen, TopOpen
    <3> QED
      BY <2>4, <3>2, <3>3 DEF GetFixture, buildVars
  <2>5. CASE ResolveDependency(t)
    <3>1. UNCHANGED <<cached, open, spoiled>> /\ Top.inst = Nil /\ holder = t
      BY <2>5 DEF ResolveDependency, cacheVars
    <3>2. Len(stack) \in Nat \ {0} /\ DOMAIN stack = 1..Len(stack) /\ stack' \in Seq(GetFixtureCall)
      BY <2>5, <3>1, HolderBuilds, TypeResolve DEF TypeInv, FixtureTypeOK
    <3>3. Top'.inst = Nil
      <4>1. CASE DOMAIN stack' = DOMAIN stack
        <5>1. Len(stack') = Len(stack)
          BY <3>2, <4>1
        <5>2. stack'[Len(stack)].inst = stack[Len(stack)].inst
          BY <2>5, <3>2, ResolveSays
        <5> QED
          BY <3>1, <5>1, <5>2 DEF Top
      <4>2. CASE DOMAIN stack' = 1..(Len(stack) + 1) /\ \E d : stack'[Len(stack) + 1] = Frame(t, d)
        <5>1. Len(stack') = Len(stack) + 1
          BY <3>2, <4>2
        <5> QED
          BY <4>2, <5>1 DEF Top, Frame
      <4> QED
        BY <2>5, <4>1, <4>2, ResolveSays
    <3> QED
      BY <3>1, <3>3 DEF SlotInv, CachedIsOpen, TopOpen
  <2>6. CASE ExecuteFixture(t)
    BY <2>6, ExecuteSays DEF SlotInv, CachedIsOpen, TopOpen, Top
  <2>7. CASE SetCachedResult(t)
    <3>1. UNCHANGED <<open, spoiled>> /\ holder = t /\ Top.inst # Nil
      BY <2>7 DEF SetCachedResult
    <3>2. stack # <<>> /\ Len(stack) \in Nat \ {0} /\ DOMAIN stack = 1..Len(stack)
      BY <3>1, HolderBuilds DEF TypeInv, FixtureTypeOK
    <3>3. CachedIsOpen'
      BY <2>7, <3>1, <3>2, CachedSays DEF SlotInv, CachedIsOpen, TopOpen
    <3>4. ASSUME stack' # <<>> PROVE Top'.inst = Nil
      <4>1. stack' \in Seq(GetFixtureCall) /\ Len(stack') = Len(stack) - 1
        BY <2>7, TypeBuild, CachedSays DEF TypeInv, FixtureTypeOK
      <4>2. Len(stack') \in DOMAIN stack' /\ Len(stack') \in DOMAIN stack /\ Len(stack') # Len(stack)
        <5>1. Len(stack') \in Nat \ {0} /\ DOMAIN stack' = 1..Len(stack')
          BY <3>4, <4>1
        <5>2. \A l \in Nat \ {0}, m \in Nat \ {0} : m = l - 1 => m \in 1..l /\ m \in 1..m /\ m # l
          OBVIOUS
        <5> QED
          BY <3>2, <4>1, <5>1, <5>2, Zenon
      <4>3. stack[Len(stack')].inst = Nil
        BY <4>2 DEF ScopeInv, StackInv
      <4>4. stack'[Len(stack')].inst = stack[Len(stack')].inst
        BY <2>7, <4>2, CachedSays
      <4> QED
        BY <4>3, <4>4 DEF Top
    <3> QED
      BY <3>3, <3>4 DEF SlotInv, TopOpen
  <2>8. CASE ClearThreadFixtures(t)
    BY <2>8, SlotClear DEF ClearThreadFixtures, Of, ManagerFree, buildVars
  <2>9. CASE StartGlobalSession(t)
    BY <2>9, SlotClear DEF StartGlobalSession, Of, ManagerFree, buildVars
  <2>10. CASE ShutdownManager(t)
    BY <2>10, SlotClear DEF ShutdownManager, ManagerFree, buildVars
  <2>11. CASE ClearOne(t)
    <3>1. PICK f \in want[t] :
            /\ ClearCache({f})
            /\ spoiled' = spoiled \cup
                 {i \in finalizers[f] : \E n \in DOMAIN stack : stack[n].inst = i}
      BY <2>11 DEF ClearOne
    <3>2. {f} \in SUBSET Fixture /\ stack' = stack
      BY <2>11 DEF ClearOne, TypeInv, FixtureTypeOK, buildVars
    <3>3. ASSUME holder # Nil, Top.inst \in Closing({f}) PROVE Top.inst \in spoiled'
      <4>1. Top.inst \in finalizers[f]
        BY <3>3 DEF Closing
      <4>2. Len(stack) \in DOMAIN stack /\ stack[Len(stack)].inst = Top.inst
        BY <3>3, HolderBuilds DEF Top, TypeInv, FixtureTypeOK
      <4> QED
        BY <3>1, <4>1, <4>2
    <3> QED
      BY <3>1, <3>2, <3>3, SlotClear
  <2> QED
    BY <2>1, <2>2, <2>3, <2>4, <2>5, <2>6, <2>7, <2>8, <2>9, <2>10, <2>11 DEF WorkerAction
<1> QED
  BY <1>2, <1>3

LEMMA SlotInit == FixtureInit => SlotInv
  BY DEF FixtureInit, SlotInv, CachedIsOpen, TopOpen

LEMMA SlotCorrect == FixtureSpec => []SlotInv
  BY FixtureTypeCorrect, OpenCorrect, ScopeCorrect, SlotInit, SlotStep, PTL DEF FixtureSpec

(* A cached instance is open, except those that reconfigure has closed      *)
(* between their making and their caching.                                  *)
THEOREM CachedIsOpenCorrect == FixtureSpec => []CachedIsOpen
<1>1. SlotInv => CachedIsOpen
  BY DEF SlotInv
<1> QED
  BY <1>1, SlotCorrect, PTL

-----------------------------------------------------------------------------
(* What a cached instance was built from is open.                           *)

\* A call is made for a dependency of the call below; its instance uses what it resolved.
CallsInv ==
    \A n \in DOMAIN stack :
        /\ stack[n].left \subseteq Dependency[stack[n].fix]
        /\ stack[n].inst # Nil => stack[n].inst.uses = stack[n].uses
        /\ n - 1 \in DOMAIN stack => stack[n].fix \in Dependency[stack[n - 1].fix]

LEMMA CallsStep ==
    ASSUME TypeInv, ScopeInv, CallsInv, [FixtureNext]_fixtureVars
    PROVE  CallsInv'
<1>1. ASSUME stack' = stack \/ stack' = <<>> PROVE CallsInv'
  BY <1>1 DEF CallsInv
<1>2. CASE UNCHANGED fixtureVars
  BY <1>1, <1>2 DEF fixtureVars, buildVars
<1>3. CASE FixtureNext
  <2>1. PICK t \in Worker : WorkerAction(t)
    BY <1>3 DEF FixtureNext
  <2>2. CASE BoundCall(t) \/ BoundReturns(t) \/ StartSession(t) \/ Reconfigure(t) \/ ReconfigureEnds(t)
    BY <1>1, <2>2 DEF BoundCall, BoundReturns, StartSession, Reconfigure, ReconfigureEnds, buildVars
  <2>3. CASE ExecuteFails(t)
    BY <1>1, <2>3 DEF ExecuteFails
  <2>4. CASE ClearThreadFixtures(t) \/ StartGlobalSession(t) \/ ShutdownManager(t) \/ ClearOne(t)
    BY <1>1, <2>4 DEF ClearThreadFixtures, StartGlobalSession, ShutdownManager, ClearOne, buildVars
  <2>5. CASE GetFixture(t)
    <3>1. CASE \E f \in want[t] : stack' = <<Frame(t, f)>>
      <4>1. PICK f \in want[t] : stack' = <<Frame(t, f)>>
        BY <3>1
      <4>2. DOMAIN stack' = {1} /\ stack'[1] = Frame(t, f)
        BY <4>1
      <4>3. Frame(t, f).fix = f /\ Frame(t, f).left = Dependency[f] /\ Frame(t, f).inst = Nil
        BY DEF Frame
      <4> QED
        BY <4>2, <4>3 DEF CallsInv
    <3> QED
      BY <1>1, <2>5, <3>1 DEF GetFixture, buildVars
  <2>6. CASE ResolveDependency(t)
    <3> DEFINE l == Len(stack)
    <3>1. /\ holder = t /\ Top.inst = Nil
      BY <2>6 DEF ResolveDependency
    <3>2. l \in Nat \ {0} /\ DOMAIN stack = 1..l /\ Top = stack[l]
      BY <3>1, HolderBuilds DEF TypeInv, FixtureTypeOK, Top
    <3>3. \A n \in DOMAIN stack :
             /\ stack'[n].fix = stack[n].fix /\ stack'[n].inst = Nil
             /\ stack'[n].left \subseteq stack[n].left
      BY <2>6, <3>1, <3>2, ResolveSays DEF ScopeInv, StackInv
    <3>4. CASE DOMAIN stack' = DOMAIN stack
      BY <3>2, <3>3, <3>4 DEF CallsInv
    <3>5. CASE /\ DOMAIN stack' = 1..(l + 1)
               /\ \E d \in Top.left : stack'[l + 1] = Frame(t, d)
      <4>1. PICK d \in Top.left : stack'[l + 1] = Frame(t, d)
        BY <3>5
      <4>2. /\ stack'[l + 1].fix = d /\ stack'[l + 1].left = Dependency[d]
            /\ stack'[l + 1].inst = Nil
        BY <4>1 DEF Frame
      <4>3. d \in Dependency[stack'[l].fix] /\ l + 1 - 1 = l
        BY <3>2, <3>3, <4>1 DEF CallsInv
      <4>4. ASSUME NEW n \in DOMAIN stack'
            PROVE  n = l + 1 \/ (n \in DOMAIN stack /\ (n - 1 \in DOMAIN stack' => n - 1 \in DOMAIN stack))
        BY <3>2, <3>5
      <4>5. ASSUME NEW n \in DOMAIN stack'
            PROVE  /\ stack'[n].left \subseteq Dependency[stack'[n].fix] /\ stack'[n].inst = Nil
                   /\ n - 1 \in DOMAIN stack' => stack'[n].fix \in Dependency[stack'[n - 1].fix]
        <5>1. CASE n = l + 1
          BY <4>2, <4>3, <5>1
        <5>2. CASE n \in DOMAIN stack
          BY <3>3, <4>4, <5>2 DEF CallsInv
        <5> QED
          BY <4>4, <5>1, <5>2
      <4> QED
        BY <4>5 DEF CallsInv
    <3> QED
      BY <2>6, <3>4, <3>5, ResolveSays
  <2>7. CASE ExecuteFixture(t)
    BY <2>7, ExecuteSays DEF CallsInv, Top
  <2>8. CASE SetCachedResult(t)
    <3> DEFINE l == Len(stack)
    <3>1. holder = t /\ l \in Nat \ {0} /\ DOMAIN stack = 1..l
      BY <2>8, HolderBuilds DEF SetCachedResult, TypeInv, FixtureTypeOK
    <3>2. DOMAIN stack' = 1..(l - 1)
      BY <2>8, CachedSays
    <3>3. ASSUME NEW n \in DOMAIN stack'
          PROVE  /\ n \in DOMAIN stack /\ (n - 1 \in DOMAIN stack' => n - 1 \in DOMAIN stack)
                 /\ stack[n].inst = Nil
      <4>1. n \in DOMAIN stack /\ n # l /\ (n - 1 \in DOMAIN stack' => n - 1 \in DOMAIN stack)
        BY <3>1, <3>2
      <4> QED
        BY <4>1 DEF ScopeInv, StackInv
    <3>4. \A n \in DOMAIN stack' :
             /\ stack'[n].fix = stack[n].fix /\ stack'[n].left = stack[n].left
             /\ stack'[n].inst = stack[n].inst
      BY <2>8, CachedSays
    <3> QED
      BY <3>3, <3>4 DEF CallsInv
  <2> QED
    BY <2>1, <2>2, <2>3, <2>4, <2>5, <2>6, <2>7, <2>8 DEF WorkerAction
<1> QED
  BY <1>2, <1>3

\* As long as no fixture was obtained while reconfigure clears them: it runs while nobody
\* builds, closes nothing in the making, and what it has cleared stays empty.
QuietInv ==
    ~overlap =>
        /\ spoiled = {}
        /\ Reconfiguring => holder = Nil
        /\ \A t \in Worker : tpc[t] = "clear" => \A f \in Fixture \ want[t] : cached[f] = Nil

\* An end of reconfigure apart, nobody begins or ends one.
LEMMA FailsQuietly ==
    ASSUME TypeInv, NEW t \in Worker, Fails(t), tpc[t] = "bind" \/ ~Reconfiguring
    PROVE  /\ Reconfiguring' <=> Reconfiguring
           /\ \A u \in Worker : tpc'[u] = "clear" => tpc[u] = "clear" /\ want'[u] = want[u]
<1>1. \A u \in Worker : /\ tpc'[u] = IF u = t THEN "idle" ELSE tpc[u]
                        /\ u # t => want'[u] = want[u]
  BY DEF Fails, TypeInv, FixtureTypeOK
<1>2. tpc[t] # "clear"
  BY DEF Reconfiguring
<1> QED
  BY <1>1, <1>2 DEF Reconfiguring

LEMMA QuietStep ==
    ASSUME TypeInv, QuietInv, [FixtureNext]_fixtureVars
    PROVE  QuietInv'
<1>1. ASSUME overlap' = overlap, UNCHANGED <<spoiled, tpc, want, holder>>,
             \A f \in Fixture : cached[f] = Nil => cached'[f] = Nil
      PROVE  QuietInv'
  BY <1>1 DEF QuietInv, Reconfiguring
<1>2. CASE UNCHANGED fixtureVars
  BY <1>1, <1>2 DEF fixtureVars, cacheVars, threadVars, buildVars
<1>3. CASE FixtureNext
  <2>1. PICK t \in Worker : WorkerAction(t)
    BY <1>3 DEF FixtureNext
  <2>2. t # Nil
    BY FixtureAssumption
  <2>3. CASE StartSession(t) \/ ResolveDependency(t)
    BY <1>1, <2>3 DEF StartSession, ResolveDependency, cacheVars, threadVars, buildVars
  <2>4. CASE ClearThreadFixtures(t) \/ StartGlobalSession(t) \/ ShutdownManager(t)
    BY <1>1, <2>4 DEF ClearThreadFixtures, StartGlobalSession, ShutdownManager, ClearCache,
                      EmptyCached, threadVars, buildVars
  <2>5. CASE ExecuteFixture(t)
    BY <1>1, <2>5 DEF ExecuteFixture, threadVars
  <2>6. CASE BoundCall(t)
    <3>1. /\ UNCHANGED <<cached, spoiled, overlap, holder>>
          /\ \A u \in Worker : /\ tpc'[u] = IF u = t THEN "bind" ELSE tpc[u]
                               /\ u # t => want'[u] = want[u]
      BY <2>6 DEF BoundCall, cacheVars, buildVars, TypeInv, FixtureTypeOK
    <3> QED
      BY <3>1 DEF QuietInv, Reconfiguring
  <2>7. CASE BoundReturns(t)
    <3>1. UNCHANGED <<cached, spoiled, overlap, holder>> /\ Fails(t) /\ tpc[t] = "bind"
      BY <2>7 DEF BoundReturns, cacheVars, buildVars
    <3> QED
      BY <3>1, FailsQuietly DEF QuietInv
  <2>8. CASE ExecuteFails(t)
    <3>1. UNCHANGED <<cached, spoiled, overlap>> /\ Fails(t) /\ holder = t /\ holder' = Nil
      BY <2>8 DEF ExecuteFails, cacheVars
    <3>2. ~overlap => ~Reconfiguring
      BY <2>2, <3>1 DEF QuietInv
    <3> QED
      BY <3>1, <3>2, FailsQuietly DEF QuietInv
  <2>9. CASE SetCachedResult(t)
    <3>1. UNCHANGED <<spoiled, overlap, tpc>> /\ holder = t
      BY <2>9 DEF SetCachedResult
    <3>2. ~overlap => ~Reconfiguring
      BY <2>2, <3>1 DEF QuietInv
    <3> QED
      BY <3>1, <3>2 DEF QuietInv, Reconfiguring
  <2>10. CASE GetFixture(t)
    <3>1. UNCHANGED <<cached, spoiled>> /\ holder = Nil /\ tpc[t] = "bind"
      BY <2>10 DEF GetFixture, cacheVars
    <3>2. CASE Fails(t) /\ UNCHANGED <<buildVars, overlap>>
      BY <3>1, <3>2, FailsQuietly DEF QuietInv, buildVars
    <3>3. CASE overlap' = (overlap \/ Reconfiguring) /\ tpc' = tpc
      BY <3>1, <3>3 DEF QuietInv, Reconfiguring
    <3> QED
      BY <2>10, <3>2, <3>3 DEF GetFixture, threadVars
  <2>11. CASE Reconfigure(t)
    <3>1. /\ UNCHANGED <<cached, spoiled, holder>> /\ overlap' = (overlap \/ holder # Nil)
          /\ \A u \in Worker : IF u = t THEN want'[u] = Fixture
                               ELSE tpc'[u] = tpc[u] /\ want'[u] = want[u]
      BY <2>11 DEF Reconfigure, cacheVars, buildVars, TypeInv, FixtureTypeOK
    <3> QED
      BY <3>1 DEF QuietInv
  <2>12. CASE ClearOne(t)
    <3>1. PICK f \in want[t] :
            /\ ClearCache({f}) /\ want' = [want EXCEPT ![t] = @ \ {f}]
            /\ spoiled' = spoiled \cup
                 {i \in finalizers[f] : \E n \in DOMAIN stack : stack[n].inst = i}
      BY <2>12 DEF ClearOne
    <3>2. UNCHANGED <<tpc, overlap, holder>> /\ Reconfiguring
      BY <2>12 DEF ClearOne, buildVars, Reconfiguring
    <3>3. /\ \A g \in Fixture : cached'[g] = IF g = f THEN Nil ELSE cached[g]
          /\ \A u \in Worker : want'[u] = IF u = t THEN want[t] \ {f} ELSE want[u]
      BY <3>1 DEF ClearCache, EmptyCached, TypeInv, FixtureTypeOK
    <3>4. ~overlap => spoiled' = {}
      <4>1. ~overlap => stack = <<>> /\ spoiled = {}
        BY <3>2 DEF QuietInv, TypeInv, LockInv
      <4> QED
        BY <3>1, <4>1
    <3> QED
      BY <3>2, <3>3, <3>4 DEF QuietInv, Reconfiguring
  <2>13. CASE ReconfigureEnds(t)
    <3>1. /\ UNCHANGED <<cached, spoiled, overlap, holder, want>>
          /\ \A u \in Worker : tpc'[u] = IF u = t THEN "idle" ELSE tpc[u]
      BY <2>13 DEF ReconfigureEnds, cacheVars, buildVars, TypeInv, FixtureTypeOK
    <3> QED
      BY <3>1 DEF QuietInv, Reconfiguring
  <2> QED
    BY <2>1, <2>3, <2>4, <2>5, <2>6, <2>7, <2>8, <2>9, <2>10, <2>11, <2>12, <2>13 DEF WorkerAction
<1> QED
  BY <1>2, <1>3

\* Sessions may close a part of another scope, unless that is a SINGLETON.
Apart(f, d) == Scope[d] # Scope[f] /\ Scope[d] # "singleton"

\* What is used was made by dependencies of f, and is among O unless it is apart.
Usable(f, uses, O) ==
    \A u \in uses :
        /\ u.fix \in Dependency[f]
        /\ (\E i \in O : i.id = u.id /\ i.fix = u.fix) \/ Apart(f, u.fix)

CachedUsable ==
    \A f \in Fixture : cached[f] # Nil => Usable(f, cached[f].inst.uses, open)

CallsUsable ==
    \A n \in DOMAIN stack : Usable(stack[n].fix, stack[n].uses, open)

BuiltInv == ~overlap /\ ~Reconfiguring => CachedUsable /\ CallsUsable

UsableInv == CallsInv /\ QuietInv /\ BuiltInv

\* What is usable stays so when only parts of other scopes are closed.
LEMMA StaysUsable ==
    ASSUME NEW f, NEW uses, NEW O, NEW P, Usable(f, uses, O),
           \A i \in O : i \in P \/ Apart(f, i.fix)
    PROVE  Usable(f, uses, P)
  BY DEF Usable

\* One more part is used.
LEMMA UsesMore ==
    ASSUME NEW f, NEW uses, NEW O, NEW i \in O, i.fix \in Dependency[f], Usable(f, uses, O)
    PROVE  Usable(f, uses \cup {AsPart(i)}, O)
<1>1. AsPart(i).id = i.id /\ AsPart(i).fix = i.fix
  BY DEF AsPart
<1> QED
  BY <1>1 DEF Usable

\* A step that leaves the calls and the cache alone, or empties them, or that opens more.
LEMMA BuiltSame ==
    ASSUME BuiltInv, open \subseteq open', ~overlap' /\ ~Reconfiguring' => ~overlap /\ ~Reconfiguring,
           \A f \in Fixture : cached'[f] # Nil => cached'[f] = cached[f],
           \A n \in DOMAIN stack' :
               n \in DOMAIN stack /\ stack'[n].fix = stack[n].fix /\ stack'[n].uses = stack[n].uses
    PROVE  BuiltInv'
<1> SUFFICES ASSUME ~overlap', ~Reconfiguring' PROVE CachedUsable' /\ CallsUsable'
  BY DEF BuiltInv
<1>1. CachedUsable /\ CallsUsable
  BY DEF BuiltInv
<1>2. \A i \in open : i \in open'
  OBVIOUS
<1>3. CachedUsable'
  <2> SUFFICES ASSUME NEW f \in Fixture, cached'[f] # Nil
               PROVE  Usable(f, cached'[f].inst.uses, open')
    BY DEF CachedUsable
  <2>1. Usable(f, cached'[f].inst.uses, open)
    BY <1>1 DEF CachedUsable
  <2> QED
    BY <1>2, <2>1, StaysUsable
<1>4. CallsUsable'
  <2> SUFFICES ASSUME NEW n \in DOMAIN stack'
               PROVE  Usable(stack'[n].fix, stack'[n].uses, open')
    BY DEF CallsUsable
  <2>1. Usable(stack'[n].fix, stack'[n].uses, open)
    BY <1>1 DEF CallsUsable
  <2> QED
    BY <1>2, <2>1, StaysUsable
<1> QED
  BY <1>3, <1>4

\* Clearing all fixtures of one scope, or everything, while nobody builds.
LEMMA BuiltClear ==
    ASSUME TypeInv, OpenInv, BuiltInv, NEW F \in SUBSET Fixture, ClearCache(F),
           holder = Nil, UNCHANGED <<stack, overlap, tpc>>,
           F = Of("global") \/ F = Of("thread") \/ F = Fixture
    PROVE  BuiltInv'
<1> SUFFICES ASSUME ~overlap', ~Reconfiguring' PROVE CachedUsable' /\ CallsUsable'
  BY DEF BuiltInv
<1>1. CachedUsable /\ stack' = <<>>
  BY DEF BuiltInv, Reconfiguring, TypeInv, LockInv
<1>2. CallsUsable'
  BY <1>1 DEF CallsUsable
<1>3. open' = {i \in open : i.fix \notin F}
  BY ClearCloses DEF OpenInv
<1>4. \A f \in Fixture : cached'[f] = IF f \in F THEN Nil ELSE cached[f]
  BY DEF ClearCache, EmptyCached
<1>5. CachedUsable'
  <2> SUFFICES ASSUME NEW f \in Fixture, cached'[f] # Nil
               PROVE  Usable(f, cached'[f].inst.uses, open')
    BY DEF CachedUsable
  <2>1. cached'[f] = cached[f] /\ f \notin F
    BY <1>4
  <2>2. \A d \in F : Apart(f, d)
    BY <2>1 DEF Of, Apart
  <2>3. \A i \in open : i \in open' \/ Apart(f, i.fix)
    BY <1>3, <2>2
  <2>4. Usable(f, cached'[f].inst.uses, open)
    BY <1>1, <2>1 DEF CachedUsable
  <2> QED
    BY <2>3, <2>4, StaysUsable
<1> QED
  BY <1>2, <1>5

\* A dependency is there, or a call begins, which uses nothing yet.
LEMMA BuiltResolve ==
    ASSUME TypeInv, ScopeInv, SlotInv, UsableInv, NEW t \in Worker, ResolveDependency(t)
    PROVE  BuiltInv'
<1> DEFINE l == Len(stack)
<1>1. /\ holder = t /\ UNCHANGED <<cached, open, spoiled, overlap, tpc>>
  BY DEF ResolveDependency, cacheVars, threadVars
<1>2. l \in Nat \ {0} /\ DOMAIN stack = 1..l /\ Top = stack[l] /\ Top \in GetFixtureCall
  BY <1>1, HolderBuilds DEF TypeInv, FixtureTypeOK, Top
<1> SUFFICES ASSUME ~overlap', ~Reconfiguring' PROVE CachedUsable' /\ CallsUsable'
  BY DEF BuiltInv
<1>3. CachedUsable /\ CallsUsable /\ spoiled = {}
  BY <1>1 DEF UsableInv, BuiltInv, QuietInv, Reconfiguring
<1>4. CachedUsable'
  BY <1>1, <1>3 DEF CachedUsable
<1>5. \A n \in DOMAIN stack : stack'[n].fix = stack[n].fix
  BY ResolveSays
<1>6. PICK d \in Top.left :
        \/ /\ Hit(t, d) /\ DOMAIN stack' = DOMAIN stack
           /\ stack'[l].uses = Top.uses \cup {AsPart(cached[d].inst)}
           /\ \A n \in DOMAIN stack : n # l => stack'[n].uses = stack[n].uses
        \/ /\ DOMAIN stack' = 1..(l + 1) /\ stack'[l + 1] = Frame(t, d)
           /\ \A n \in DOMAIN stack : stack'[n].uses = stack[n].uses
  BY ResolveSays
<1>7. d \in Fixture /\ d \in Dependency[Top.fix]
  BY <1>2 DEF UsableInv, CallsInv, GetFixtureCall
<1>8. ASSUME NEW n \in DOMAIN stack, stack'[n].uses = stack[n].uses
      PROVE  Usable(stack'[n].fix, stack'[n].uses, open)
  BY <1>3, <1>5, <1>8 DEF CallsUsable
<1>9. ASSUME Hit(t, d), stack'[l].uses = Top.uses \cup {AsPart(cached[d].inst)}
      PROVE  Usable(stack'[l].fix, stack'[l].uses, open)
  <2>1. cached[d].inst \in open /\ cached[d].inst.fix = d
    BY <1>3, <1>7, <1>9 DEF Hit, SlotInv, CachedIsOpen, ScopeInv, CacheInv
  <2>2. Usable(Top.fix, Top.uses, open) /\ stack'[l].fix = Top.fix
    BY <1>2, <1>3, <1>5 DEF CallsUsable
  <2> QED
    BY <1>7, <1>9, <2>1, <2>2, UsesMore
<1>10. ASSUME NEW n \in DOMAIN stack'
       PROVE  Usable(stack'[n].fix, stack'[n].uses, open)
  <2>1. CASE n \in DOMAIN stack
    BY <1>2, <1>6, <1>8, <1>9, <2>1
  <2>2. CASE n \notin DOMAIN stack
    <3>1. n = l + 1 /\ stack'[l + 1] = Frame(t, d)
      BY <1>2, <1>6, <2>2
    <3>2. stack'[n].uses = {}
      BY <3>1 DEF Frame
    <3> QED
      BY <3>2 DEF Usable
  <2> QED
    BY <2>1, <2>2
<1>11. CallsUsable'
  BY <1>1, <1>10 DEF CallsUsable
<1> QED
  BY <1>4, <1>11

\* The instance goes into its slot, and to the call below, for which it is a dependency.
LEMMA BuiltCached ==
    ASSUME TypeInv, ScopeInv, SlotInv, UsableInv, NEW t \in Worker, SetCachedResult(t)
    PROVE  BuiltInv'
<1> DEFINE l == Len(stack)
<1>1. holder = t /\ UNCHANGED <<open, spoiled, overlap, tpc>> /\ Top.inst # Nil
  BY DEF SetCachedResult
<1>2. /\ l \in Nat \ {0} /\ DOMAIN stack = 1..l /\ Top = stack[l] /\ Top \in GetFixtureCall
      /\ l \in DOMAIN stack /\ stack # <<>>
  BY <1>1, HolderBuilds DEF TypeInv, FixtureTypeOK, Top
<1> SUFFICES ASSUME ~overlap', ~Reconfiguring' PROVE CachedUsable' /\ CallsUsable'
  BY DEF BuiltInv
<1>3. CachedUsable /\ CallsUsable /\ spoiled = {}
  BY <1>1 DEF UsableInv, BuiltInv, QuietInv, Reconfiguring
<1>4. /\ Top.inst \in open /\ Top.inst.fix = Top.fix /\ Top.inst.uses = Top.uses
      /\ Usable(Top.fix, Top.uses, open)
  <2>1. Top.inst \in open
    BY <1>1, <1>2, <1>3 DEF SlotInv, TopOpen
  <2>2. Top.inst.fix = Top.fix
    BY <1>1, <1>2 DEF ScopeInv, StackInv, FrameInv
  <2>3. Top.inst.uses = Top.uses
    BY <1>1, <1>2 DEF UsableInv, CallsInv
  <2> QED
    BY <1>2, <1>3, <2>1, <2>2, <2>3 DEF CallsUsable
<1>5. CachedUsable'
  <2> SUFFICES ASSUME NEW f \in Fixture, cached'[f] # Nil
               PROVE  Usable(f, cached'[f].inst.uses, open)
    BY <1>1 DEF CachedUsable
  <2>1. CASE f = Top.fix
    BY <1>4, <2>1, CachedSays
  <2>2. CASE f # Top.fix
    BY <1>3, <2>2, CachedSays DEF CachedUsable
  <2> QED
    BY <2>1, <2>2
<1>6. CallsUsable'
  <2> SUFFICES ASSUME NEW n \in DOMAIN stack'
               PROVE  Usable(stack'[n].fix, stack'[n].uses, open)
    BY <1>1 DEF CallsUsable
  <2>1. DOMAIN stack' = 1..(l - 1) /\ stack'[n].fix = stack[n].fix
    BY CachedSays
  <2>2. n \in DOMAIN stack /\ n \in 1..(l - 1)
    BY <1>2, <2>1
  <2>3. Usable(stack[n].fix, stack[n].uses, open)
    BY <1>3, <2>1, <2>2 DEF CallsUsable
  <2>4. CASE n # l - 1
    BY <2>1, <2>3, <2>4, CachedSays
  <2>5. CASE n = l - 1
    <3>1. stack'[n].uses = stack[n].uses \cup {AsPart(Top.inst)}
      BY <2>5, CachedSays
    <3>2. Top.fix \in Dependency[stack[n].fix]
      BY <1>2, <2>2, <2>5 DEF UsableInv, CallsInv
    <3> QED
      BY <1>4, <2>1, <2>3, <3>1, <3>2, UsesMore
  <2> QED
    BY <2>4, <2>5
<1> QED
  BY <1>5, <1>6

LEMMA BuiltStep ==
    ASSUME TypeInv, OpenInv, ScopeInv, SlotInv, UsableInv, [FixtureNext]_fixtureVars
    PROVE  BuiltInv'
<1>1. BuiltInv
  BY DEF UsableInv
<1>2. ASSUME UNCHANGED <<cached, open, stack, overlap>>, Reconfiguring' <=> Reconfiguring
      PROVE  BuiltInv'
  BY <1>1, <1>2, BuiltSame
<1>3. CASE UNCHANGED fixtureVars
  BY <1>2, <1>3 DEF fixtureVars, cacheVars, threadVars, buildVars, Reconfiguring
<1>4. CASE FixtureNext
  <2>1. PICK t \in Worker : WorkerAction(t)
    BY <1>4 DEF FixtureNext
  <2>2. CASE StartSession(t)
    BY <1>2, <2>2 DEF StartSession, cacheVars, threadVars, buildVars, Reconfiguring
  <2>3. CASE BoundCall(t)
    <3>1. \A u \in Worker : tpc'[u] = IF u = t THEN "bind" ELSE tpc[u]
      BY <2>3 DEF BoundCall, TypeInv, FixtureTypeOK
    <3>2. Reconfiguring' <=> Reconfiguring
      BY <2>3, <3>1 DEF Reconfiguring, BoundCall
    <3> QED
      BY <1>2, <2>3, <3>2 DEF BoundCall, cacheVars, buildVars
  <2>4. CASE BoundReturns(t)
    BY <1>2, <2>4, FailsQuietly DEF BoundReturns, cacheVars, buildVars
  <2>5. CASE ExecuteFails(t)
    <3>1. UNCHANGED <<cached, open, overlap>> /\ stack' = <<>> /\ Fails(t) /\ holder = t
      BY <2>5 DEF ExecuteFails, cacheVars
    <3>2. ~overlap => ~Reconfiguring
      BY <3>1, FixtureAssumption DEF UsableInv, QuietInv
    <3> QED
      BY <1>1, <3>1, <3>2, BuiltSame
  <2>6. CASE GetFixture(t)
    <3>1. UNCHANGED <<cached, open>> /\ stack = <<>> /\ tpc[t] = "bind"
      BY <2>6 DEF GetFixture, cacheVars, TypeInv, LockInv
    <3>2. CASE Fails(t) /\ UNCHANGED <<buildVars, overlap>>
      BY <1>2, <3>1, <3>2, FailsQuietly DEF buildVars
    <3>3. CASE overlap' = (overlap \/ Reconfiguring) /\ tpc' = tpc /\ stack' = stack
      BY <1>1, <3>1, <3>3, BuiltSame DEF Reconfiguring
    <3>4. CASE /\ overlap' = (overlap \/ Reconfiguring) /\ tpc' = tpc
               /\ \E f \in want[t] : stack' = <<Frame(t, f)>>
      <4>1. PICK f \in want[t] : stack' = <<Frame(t, f)>>
        BY <3>4
      <4>2. DOMAIN stack' = {1} /\ stack'[1].uses = {}
        BY <4>1 DEF Frame
      <4>3. CallsUsable'
        BY <4>2 DEF CallsUsable, Usable
      <4>4. ~overlap' /\ ~Reconfiguring' => CachedUsable'
        BY <1>1, <3>1, <3>4 DEF BuiltInv, CachedUsable, Usable, Reconfiguring
      <4> QED
        BY <4>3, <4>4 DEF BuiltInv
    <3> QED
      BY <2>6, <3>2, <3>3, <3>4 DEF GetFixture, threadVars, buildVars
  <2>7. CASE ResolveDependency(t) \/ SetCachedResult(t)
    BY <2>7, BuiltResolve, BuiltCached
  <2>8. CASE ExecuteFixture(t)
    BY <1>1, <2>8, ExecuteSays, BuiltSame DEF Reconfiguring
  <2>9. CASE ClearThreadFixtures(t)
    BY <1>1, <2>9, BuiltClear DEF ClearThreadFixtures, Of, ManagerFree, threadVars, buildVars
  <2>10. CASE StartGlobalSession(t)
    BY <1>1, <2>10, BuiltClear DEF StartGlobalSession, Of, ManagerFree, threadVars, buildVars
  <2>11. CASE ShutdownManager(t)
    BY <1>1, <2>11, BuiltClear DEF ShutdownManager, Of, ManagerFree, threadVars, buildVars
  <2>12. CASE Reconfigure(t) \/ ClearOne(t)
    <3>1. tpc'[t] = "clear"
      BY <2>12 DEF Reconfigure, ClearOne, TypeInv, FixtureTypeOK
    <3> QED
      BY <3>1 DEF BuiltInv, Reconfiguring
  <2>13. CASE ReconfigureEnds(t)
    <3>1. UNCHANGED <<cached, overlap, stack>> /\ tpc[t] = "clear" /\ want[t] = {}
      BY <2>13 DEF ReconfigureEnds, cacheVars, buildVars
    <3>2. ~overlap => stack = <<>> /\ \A f \in Fixture : cached[f] = Nil
      BY <3>1 DEF UsableInv, QuietInv, Reconfiguring, TypeInv, LockInv
    <3> QED
      BY <3>1, <3>2 DEF BuiltInv, CachedUsable, CallsUsable
  <2> QED
    BY <2>1, <2>2, <2>3, <2>4, <2>5, <2>6, <2>7, <2>8, <2>9, <2>10, <2>11, <2>12, <2>13 DEF WorkerAction
<1> QED
  BY <1>3, <1>4

LEMMA UsableInit == FixtureInit => UsableInv
  BY DEF FixtureInit, UsableInv, CallsInv, QuietInv, BuiltInv, CachedUsable, CallsUsable, Reconfiguring

LEMMA UsableStep ==
    ASSUME TypeInv, OpenInv, ScopeInv, SlotInv, UsableInv, [FixtureNext]_fixtureVars
    PROVE  UsableInv'
  BY CallsStep, QuietStep, BuiltStep DEF UsableInv

(* A cached instance is open, unless reconfigure closed it in the making,   *)
(* and so is what it was built from of its own scope and of SINGLETONs,     *)
(* unless fixtures were obtained while reconfigure ran: sessions clear all  *)
(* fixtures of a scope together, and reconfigure leaves nothing it found.   *)
THEOREM CacheIsUsableCorrect == FixtureSpec => []CacheIsUsable
<1>1. SlotInv /\ UsableInv => CacheIsUsable
  <2> SUFFICES ASSUME SlotInv, UsableInv PROVE CachedIsOpen /\ DependenciesOpen
    BY DEF CacheIsUsable
  <2>1. DependenciesOpen
    BY DEF UsableInv, BuiltInv, CachedUsable, Usable, Apart, DependenciesOpen
  <2> QED
    BY <2>1 DEF SlotInv
<1>2. FixtureSpec => []UsableInv
  BY FixtureTypeCorrect, OpenCorrect, ScopeCorrect, SlotCorrect, UsableInit, UsableStep, PTL
  DEF FixtureSpec
<1> QED
  BY <1>1, <1>2, SlotCorrect, PTL
=============================================================================
