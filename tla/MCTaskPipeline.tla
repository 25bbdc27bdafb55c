--------------------------- MODULE MCTaskPipeline ---------------------------
(* Instances of TaskPipeline for TLC.                                      *)
EXTENDS TaskPipelineProperties

CONSTANTS t1, t2, t3, q1

\* t1 is the parent of t2; t3 competes with t2 and has the higher weight.
FamilySource == [t \in Task |-> IF t = t2 THEN t1 ELSE None]
FamilyWeight == [t \in Task |-> IF t = t3 THEN 2 ELSE 1]

\* t2 depends on t1.
ChainDepends == [t \in Task |-> IF t = t2 THEN {t1} ELSE {}]

NoDepends == [t \in Task |-> {}]
NoSource  == [t \in Task |-> None]
OneQueue  == [t \in Task |-> q1]
EvenWeight == [t \in Task |-> 1]
ServesOne == [w \in Worker |-> q1]
AskOnce == [t \in Task |-> 1]
RetryFirst == [t \in Task |-> IF t = t1 THEN 2 ELSE 1]
OneSlot   == [w \in Worker |-> 1]
=============================================================================
