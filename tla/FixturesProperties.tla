------------------------- MODULE FixturesProperties -------------------------
(***************************************************************************)
(* What the scopes of fixtures promise about instances and their cleanup.  *)
(***************************************************************************)
EXTENDS Fixtures

GetFixtureCall ==
    [fix : Fixture, key : KeyOf, left : SUBSET Fixture, uses : SUBSET Part, inst : Instance \cup {Nil}]

\* The type of every variable; a fixture's finalizers close its own instances.
FixtureTypeOK ==
    /\ cached \in [Fixture -> Entry \cup {Nil}] /\ finalizers \in [Fixture -> SUBSET Instance]
    /\ \A f \in Fixture : \A i \in finalizers[f] : i.fix = f
    /\ open \subseteq Instance /\ twice \subseteq Instance /\ spoiled \subseteq Instance
    /\ globalKey \in Nat /\ threadKey \in [Worker -> Nat] /\ shut \in BOOLEAN
    /\ tpc \in [Worker -> {"idle", "bind", "clear"}]
    /\ want \in [Worker -> SUBSET Fixture] /\ got \in [Worker -> SUBSET Instance]
    /\ holder \in Worker \cup {Nil} /\ stack \in Seq(GetFixtureCall)
    /\ made \in Nat /\ overlap \in BOOLEAN /\ resets \in Nat

\* README.rst:168 "SINGLETON - one instance per process", "GLOBAL - cached until
\* explicit clear_cache()": a new instance is made only when the last one was
\* finalized, whichever threads ask and whatever sessions start meanwhile.  Not so for
\* a generator that yields None: get_fixture takes a cached None for a miss
\* (fixture.py:187), so each call executes it again while the earlier ones stay open.
OneInstance ==
    \A i, j \in open :
        i.fix = j.fix /\ Scope[i.fix] # "thread" /\ i.fix \notin Bare => i = j

\* README.rst:170 "THREAD - one cache entry per thread (thread-safe)": although all
\* threads share one slot, no thread gets an instance made for another one.
NoSharing ==
    \A t \in Worker : \A i \in got[t] : Scope[i.fix] = "thread" => i.key.by = t

\* What the three scopes promise.
ScopesHold == OneInstance /\ NoSharing

\* fixture.py:61: no finalizer runs twice, so no connection is closed again.
FinalizedOnce == twice = {}

\* fixture.py:245: after shutdown nothing is left open, instances that were replaced
\* in their slot by those of other threads included.
ClosedAtShutdown == shut => open = {}

\* A cached instance is open.  Only reconfigure, which takes no lock of the manager,
\* can finalize one between add_finalizer and set_cached_result (fixture.py:190, 191),
\* and it is then given out closed.
CachedIsOpen ==
    \A f \in Fixture : cached[f] # Nil => cached[f].inst \in open \cup spoiled

\* What a cached instance was built from is open.  Exempt are
\* - dependencies of another scope, SINGLETON ones excepted: start_global_session and
\*   clear_thread_fixtures close them and leave the fixtures built from them cached, so
\*   a THREAD fixture goes on with a closed GLOBAL one (fixture.py:226-230);
\* - fixtures obtained while reconfigure clears them one by one without the lock.
DependenciesOpen ==
    \A f \in Fixture :
        cached[f] # Nil /\ ~overlap /\ ~Reconfiguring =>
            \A d \in cached[f].inst.uses :
                \/ d.id \in {i.id : i \in open}
                \/ Scope[d.fix] # Scope[f] /\ Scope[d.fix] # "singleton"

\* What the cache gives out is open, with what it was built from in its own scope and
\* from SINGLETON fixtures, as far as the exemptions of the two parts go.
CacheIsUsable == CachedIsOpen /\ DependenciesOpen
=============================================================================
