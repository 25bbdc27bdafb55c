------------------------------ MODULE Fixtures ------------------------------
(***************************************************************************)
(* FixtureManager of core/fixture.py: one cache slot and one list of       *)
(* finalizers per fixture, a re-entrant lock of the manager that a thread  *)
(* holds while it builds a fixture and its dependencies, bound functions   *)
(* that obtain their fixtures one by one, sessions and shutdown, and       *)
(* AstraFlux.reconfigure, which clears fixtures without the manager's lock.*)
(***************************************************************************)
EXTENDS Naturals, Sequences, FiniteSets

CONSTANTS
    Worker,       \* threads
    Fixture,      \* registered fixtures, all of them generators
    Bare,         \* those that yield None
    Scope,        \* scope of each fixture
    Dependency,   \* parameters of each fixture function
    Params,       \* sets of fixtures that bound functions take
    Nil,          \* nobody, nothing cached
    MaxInstances, \* bound: instances made
    MaxResets     \* bound: sessions, clearings and reconfigurations

KeyOf    == [by : Worker \cup {Nil}, no : Nat]
Part     == [id : Nat, fix : Fixture]
Instance == [id : Nat, fix : Fixture, key : KeyOf, uses : SUBSET Part]
Entry    == [inst : Instance, key : KeyOf]

ASSUME FixtureAssumption ==
    /\ Nil \notin Worker /\ Nil \notin Instance /\ Nil \notin Entry
    /\ Bare \subseteq Fixture
    /\ Scope \in [Fixture -> {"singleton", "global", "thread"}]
    /\ Dependency \in [Fixture -> SUBSET Fixture]
    /\ Params \subseteq SUBSET Fixture
    /\ MaxInstances \in Nat /\ MaxResets \in Nat

\* A cycle would end every get_fixture in a RecursionError.
ASSUME NoDependencyCycle ==
    \E rank \in [Fixture -> 0..Cardinality(Fixture)] :
        \A f \in Fixture : \A d \in Dependency[f] : rank[d] < rank[f]

VARIABLES
    cached,     \* cached_result of each fixture: [inst, key], or Nil
    finalizers, \* finalizers of each fixture: the instances they close
    globalKey,  \* _global_cache_key
    threadKey,  \* _thread_local.cache_key of each thread
    shut,       \* _shutdown
    holder,     \* thread that holds _lock while it builds, or Nil
    stack,      \* its calls of get_fixture, outermost first
    tpc,        \* per thread: "idle", "bind" or "clear"
    want,       \* per thread: fixtures to obtain, or to clear
    got,        \* per thread: instances the bound function has
    made,       \* history: number of instances made
    open,       \* history: instances not finalized: [id, fix, key, uses]
    twice,      \* history: instances that were finalized again
    spoiled,    \* history: instances cleared before they were cached
    overlap,    \* history: a fixture was obtained during a reconfigure
    resets      \* history: sessions, clearings and reconfigurations

cacheVars   == <<cached, finalizers, open, twice>>
keyVars     == <<globalKey, threadKey, shut>>
threadVars  == <<tpc, want, got>>
buildVars   == <<holder, stack>>
fixtureVars == <<cacheVars, keyVars, threadVars, buildVars, made, spoiled, overlap, resets>>

FixtureInit ==
    /\ cached = [f \in Fixture |-> Nil] /\ finalizers = [f \in Fixture |-> {}]
    /\ open = {} /\ twice = {}
    /\ globalKey = 0 /\ threadKey = [t \in Worker |-> 0] /\ shut = FALSE
    /\ tpc = [t \in Worker |-> "idle"] /\ want = [t \in Worker |-> {}]
    /\ got = [t \in Worker |-> {}]
    /\ holder = Nil /\ stack = <<>>
    /\ made = 0 /\ spoiled = {} /\ overlap = FALSE /\ resets = 0

\* _get_cache_key.
CacheKey(t, f) ==
    CASE Scope[f] = "singleton" -> [by |-> Nil, no |-> 0]
      [] Scope[f] = "global"    -> [by |-> Nil, no |-> globalKey]
      [] Scope[f] = "thread"    -> [by |-> t, no |-> threadKey[t]]

\* get_cached_result returns something else than None.
Hit(t, f) == f \notin Bare /\ cached[f] # Nil /\ cached[f].key = CacheKey(t, f)

AsPart(i) == [id |-> i.id, fix |-> i.fix]

Of(scope) == {f \in Fixture : Scope[f] = scope}

Closing(F) == UNION {finalizers[f] : f \in F}

\* seeded fault: the list of finalizers is not emptied
KeepFinalizers(F) == UNCHANGED finalizers
EmptyFinalizers(F) == finalizers' = [f \in Fixture |-> IF f \in F THEN {} ELSE finalizers[f]]

EmptyCached(F) == cached' = [f \in Fixture |-> IF f \in F THEN Nil ELSE cached[f]]

\* clear_cache of each fixture in F.
ClearCache(F) ==
    /\ EmptyCached(F) /\ EmptyFinalizers(F)
    /\ open' = open \ Closing(F)
    /\ twice' = twice \cup (Closing(F) \ open)

Reconfiguring == \E t \in Worker : tpc[t] = "clear"

ManagerIgnored == TRUE \* seeded fault: sessions start without the lock
ManagerFree == holder = Nil

-----------------------------------------------------------------------------
(* A bound function and get_fixture.                                        *)

BoundCall(t) ==
    /\ tpc[t] = "idle" /\ ~shut
    /\ \E P \in Params : want' = [want EXCEPT ![t] = P]
    /\ tpc' = [tpc EXCEPT ![t] = "bind"]
    /\ UNCHANGED <<cacheVars, keyVars, got, buildVars, made, spoiled, overlap, resets>>

\* The call of t ends with an exception.
Fails(t) ==
    /\ tpc' = [tpc EXCEPT ![t] = "idle"]
    /\ want' = [want EXCEPT ![t] = {}]
    /\ got' = [got EXCEPT ![t] = {}]

Obtain(t, f, i) ==
    /\ want' = [want EXCEPT ![t] = @ \ {f}]
    /\ got' = [got EXCEPT ![t] = @ \cup {i}]

Frame(t, f) ==
    [fix |-> f, key |-> CacheKey(t, f), left |-> Dependency[f], uses |-> {}, inst |-> Nil]

GetFixture(t) ==
    /\ tpc[t] = "bind" /\ holder = Nil /\ want[t] # {}
    /\ \/ /\ shut /\ Fails(t)
          /\ UNCHANGED <<buildVars, overlap>>
       \/ \E f \in want[t] :
            /\ ~shut /\ Hit(t, f)
            /\ Obtain(t, f, cached[f].inst)
            /\ overlap' = (overlap \/ Reconfiguring)
            /\ UNCHANGED <<tpc, buildVars>>
       \/ \E f \in want[t] :
            /\ ~shut /\ ~Hit(t, f)
            /\ holder' = t /\ stack' = <<Frame(t, f)>>
            /\ overlap' = (overlap \/ Reconfiguring)
            /\ UNCHANGED threadVars
    /\ UNCHANGED <<cacheVars, keyVars, made, spoiled, resets>>

Top == stack[Len(stack)]
SetTop(frame) == [stack EXCEPT ![Len(stack)] = frame]

ResolveDependency(t) ==
    /\ holder = t /\ Top.inst = Nil
    /\ \E d \in Top.left :
         \/ /\ Hit(t, d)
            /\ stack' = SetTop([Top EXCEPT !.left = @ \ {d}, !.uses = @ \cup {AsPart(cached[d].inst)}])
         \/ /\ ~Hit(t, d)
            /\ stack' = Append(SetTop([Top EXCEPT !.left = @ \ {d}]), Frame(t, d))
    /\ UNCHANGED <<cacheVars, keyVars, threadVars, holder, made, spoiled, overlap, resets>>

ForgetFinalizer(i) == UNCHANGED finalizers \* seeded fault: the generator is not kept
AddFinalizer(i) == finalizers' = [finalizers EXCEPT ![i.fix] = @ \cup {i}]

\* func(**dependencies), next(generator) and add_finalizer.
ExecuteFixture(t) ==
    LET i == [id |-> made, fix |-> Top.fix, key |-> Top.key, uses |-> Top.uses] IN
    /\ holder = t /\ Top.inst = Nil /\ Top.left = {} /\ made < MaxInstances
    /\ made' = made + 1 /\ open' = open \cup {i}
    /\ AddFinalizer(i)
    /\ stack' = SetTop([Top EXCEPT !.inst = i])
    /\ UNCHANGED <<cached, twice, keyVars, threadVars, holder, spoiled, overlap, resets>>

\* The fixture function raises, which ends every get_fixture under way.
ExecuteFails(t) ==
    /\ holder = t /\ Top.inst = Nil /\ Top.left = {}
    /\ Fails(t)
    /\ holder' = Nil /\ stack' = <<>>
    /\ UNCHANGED <<cacheVars, keyVars, made, spoiled, overlap, resets>>

\* set_cached_result; the instance goes to the fixture or the function that asked.
SetCachedResult(t) ==
    LET i == Top.inst
        below == SubSeq(stack, 1, Len(stack) - 1)
    IN
    /\ holder = t /\ i # Nil
    /\ cached' = [cached EXCEPT ![Top.fix] = [inst |-> i, key |-> Top.key]]
    /\ \/ /\ below = <<>> /\ stack' = below /\ holder' = Nil
          /\ Obtain(t, Top.fix, i)
       \/ /\ below # <<>> /\ UNCHANGED <<holder, want, got>>
          /\ stack' = [below EXCEPT ![Len(below)].uses = @ \cup {AsPart(i)}]
    /\ UNCHANGED <<finalizers, open, twice, keyVars, tpc, made, spoiled, overlap, resets>>

\* The bound function has run.
BoundReturns(t) ==
    /\ tpc[t] = "bind" /\ want[t] = {}
    /\ Fails(t)
    /\ UNCHANGED <<cacheVars, keyVars, buildVars, made, spoiled, overlap, resets>>

-----------------------------------------------------------------------------
(* Sessions, shutdown and reconfigure, called by a thread between its calls *)
(* or in a bound function.                                                  *)

Free(t) == tpc[t] \in {"idle", "bind"} /\ want[t] = {}
Reset(t) == Free(t) /\ resets < MaxResets /\ resets' = resets + 1

StartSession(t) ==
    /\ Reset(t)
    /\ threadKey' = [threadKey EXCEPT ![t] = @ + 1]
    /\ UNCHANGED <<cacheVars, globalKey, shut, threadVars, buildVars, made, spoiled, overlap>>

ClearThreadFixtures(t) ==
    /\ Reset(t) /\ ManagerFree
    /\ ClearCache(Of("thread"))
    /\ UNCHANGED <<keyVars, threadVars, buildVars, made, spoiled, overlap>>

\* seeded fault: the fixtures are not cleared
RenewGlobalKey(t) ==
    /\ Reset(t) /\ ManagerFree /\ ~shut
    /\ globalKey' = globalKey + 1
    /\ UNCHANGED <<cacheVars, threadKey, shut, threadVars, buildVars, made, spoiled, overlap>>

StartGlobalSession(t) ==
    /\ Reset(t) /\ ManagerFree /\ ~shut
    /\ globalKey' = globalKey + 1
    /\ ClearCache(Of("global"))
    /\ UNCHANGED <<threadKey, shut, threadVars, buildVars, made, spoiled, overlap>>

ShutdownManager(t) ==
    /\ Free(t) /\ ManagerFree /\ ~shut
    /\ shut' = TRUE
    /\ ClearCache(Fixture)
    /\ UNCHANGED <<globalKey, threadKey, threadVars, buildVars, made, spoiled, overlap, resets>>

Reconfigure(t) ==
    /\ tpc[t] = "idle" /\ Reset(t)
    /\ tpc' = [tpc EXCEPT ![t] = "clear"] /\ want' = [want EXCEPT ![t] = Fixture]
    /\ overlap' = (overlap \/ holder # Nil)
    /\ UNCHANGED <<cacheVars, keyVars, got, buildVars, made, spoiled>>

ClearOne(t) ==
    /\ tpc[t] = "clear"
    /\ \E f \in want[t] :
         /\ ClearCache({f})
         /\ want' = [want EXCEPT ![t] = @ \ {f}]
         /\ spoiled' = spoiled \cup
               {i \in finalizers[f] : \E n \in DOMAIN stack : stack[n].inst = i}
    /\ UNCHANGED <<keyVars, tpc, got, buildVars, made, overlap, resets>>

ReconfigureEnds(t) ==
    /\ tpc[t] = "clear" /\ want[t] = {}
    /\ tpc' = [tpc EXCEPT ![t] = "idle"]
    /\ UNCHANGED <<cacheVars, keyVars, want, got, buildVars, made, spoiled, overlap, resets>>

-----------------------------------------------------------------------------
WorkerAction(t) ==
    \/ BoundCall(t) \/ GetFixture(t) \/ ResolveDependency(t) \/ ExecuteFixture(t)
    \/ ExecuteFails(t) \/ SetCachedResult(t) \/ BoundReturns(t)
    \/ StartSession(t) \/ ClearThreadFixtures(t) \/ StartGlobalSession(t) \/ ShutdownManager(t)
    \/ Reconfigure(t) \/ ClearOne(t) \/ ReconfigureEnds(t)

FixtureNext == \E t \in Worker : WorkerAction(t)

FixtureSpec == FixtureInit /\ [][FixtureNext]_fixtureVars
=============================================================================
