-------------------------------- MODULE MCRpc -------------------------------
(***************************************************************************)
(* Remote calls, and the ids that processes and threads give to them (and  *)
(* to tasks).  The two share no state: a behaviour makes calls, or asks    *)
(* for ids in the threads of one process, or in those of two.              *)
(***************************************************************************)
EXTENDS RpcProperties, SnowflakeProperties

CONSTANTS g1, g2, a1, a2, a3

VARIABLE used \* what the behaviour does

mcVars == <<used, rpcVars, snowflakeVars>>

CallBound == [c \in Caller |-> 3]

HomeOf  == [a \in Asker |-> IF a = a3 THEN g2 ELSE g1]
IdBound == [a \in Asker |-> IF a = a1 THEN 3 ELSE 1]

\* Two machines of one network, and one whose third octet has a bit too many.
Neighbours == [g \in Generator |-> [datacenter |-> 1, machine |-> IF g = g1 THEN 0 ELSE 1]]
FarAway    == [g \in Generator |-> [datacenter |-> 2, machine |-> 0]]

MCInit ==
    /\ used \in {"calls", "oneProcess", "twoProcesses"}
    /\ RpcInit /\ SnowflakeInit

MCNext ==
    /\ \/ used = "calls" /\ RpcNext /\ UNCHANGED snowflakeVars
       \/ /\ used = "oneProcess" /\ SnowflakeNext /\ UNCHANGED rpcVars
          /\ \A a \in Asker : Home[a] = g1 \/ apc'[a] = "idle"
       \/ /\ used = "twoProcesses" /\ SnowflakeNext /\ UNCHANGED rpcVars
          /\ \A a \in Asker : a # a2 \/ apc'[a] = "idle"
    /\ UNCHANGED used

\* The types of the variables of both.
RemoteTypeOK == RpcTypeOK /\ SnowflakeTypeOK

MCSpec == MCInit /\ [][MCNext]_mcVars /\ RpcFairness
=============================================================================
