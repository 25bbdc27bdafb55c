--------------------------- MODULE MCJobScheduler ---------------------------
(* Instances of JobScheduler for TLC.                                      *)
EXTENDS JobSchedulerProperties

CONSTANTS j1, j2, h1, h2

TwoJobs == [j \in Job |-> IF j = j1 THEN "distributed_unique" ELSE "unrestricted"]
SecondOnFirst == [j \in Job |-> IF j = j2 THEN {h1} ELSE {}]
Everywhere == [j \in Job |-> {}]
FirstOnly == [j \in Job |-> IF j = j1 THEN 1 ELSE 0]
OneEach == [j \in Job |-> 1]
NoFaults == [h \in Host |-> 0]
FirstFails == [h \in Host |-> IF h = h1 THEN 1 ELSE 0]
=============================================================================
