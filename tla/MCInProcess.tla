---------------------------- MODULE MCInProcess -----------------------------
(***************************************************************************)
(* What lives in a process of the application and serves its threads: the  *)
(* thread pool, the process pool and the fixtures.  They share no state, so *)
(* a behaviour uses one of them, instead of all interleavings of the three. *)
(***************************************************************************)
EXTENDS ThreadPoolProperties, ProcessPoolProperties, FixturesProperties

CONSTANTS c1, c2, config, db, client

VARIABLE used \* the part that the application uses

mcVars == <<used, tpVars, ppVars, fixtureVars>>

OneRetry     == [t \in Task |-> 1]
OneMore      == [t \in Item |-> 1]
ThreadCalls  == [c \in Client |-> IF c = c1 THEN 3 ELSE 2]
ProcessCalls == [u \in User |-> IF u = c1 THEN 3 ELSE 1]

ScopeOf        == [f \in Fixture |-> IF f = client THEN "thread" ELSE "global"]
DependencyOf   ==
    [f \in Fixture |-> CASE f = config -> {} [] f = db -> {config} [] f = client -> {db}]
ParameterLists == {{db, client}, {config}}

MCInit ==
    /\ used \in {"threads", "processes", "fixtures"}
    /\ ThreadInit /\ ProcessInit /\ FixtureInit

MCNext ==
    /\ \/ used = "threads" /\ ThreadNext /\ UNCHANGED <<ppVars, fixtureVars>>
       \/ used = "processes" /\ ProcessNext /\ UNCHANGED <<tpVars, fixtureVars>>
       \/ used = "fixtures" /\ FixtureNext /\ UNCHANGED <<tpVars, ppVars>>
    /\ UNCHANGED used

\* The types of the variables of the three parts.
InProcessTypeOK == ThreadTypeOK /\ ProcessTypeOK /\ FixtureTypeOK

MCSpec == MCInit /\ [][MCNext]_mcVars /\ ThreadFairness /\ ProcessFairness
=============================================================================
