------------------------------ MODULE TaskLife ------------------------------
(***************************************************************************)
(* What astraflux promises of a task, without queues, cycles, caches, run  *)
(* sets and handlers: users ask for it and may stop it; a host offers it   *)
(* at most once per ask and per trouble of its own; an offer is used up by *)
(* one execution, unless the broker took it back, and once the broker has  *)
(* it, it is never discarded before that unless the task may be stopped;   *)
(* only an execution that began reports an end.                            *)
(* Two of these are less than the docs say.  A host is not told that an    *)
(* offer never arrived, so a task may wait without one.  And no failure    *)
(* spreads to dependents and no parent ends with its children, against     *)
(* README.rst:195 and :199: the run finding_dependents shows that gap.    *)
(***************************************************************************)
EXTENDS Naturals

CONSTANTS
    Task,       \* identifiers of task documents
    Host,       \* hosts that offer tasks
    Execution,  \* executions that may ever be started
    Stoppable,  \* tasks the users may stop
    NoOffer     \* what an execution has not been started for

VARIABLES
    doc,      \* status of each task, "missing" before it is asked for
    asked,    \* how often each task was asked for
    trouble,  \* per host: failed publishes and cycles that did not end
    sent,     \* offers ever made, per host and task
    offered,  \* offers that may still start an execution
    gone,     \* offers that never reached the broker
    again,    \* offers the broker has taken back
    stage,    \* per execution: "none", "new", "running" or "over"
    source    \* per execution: the offer that started it

docVars   == <<doc, asked>>
offerVars == <<trouble, sent, offered, gone, again>>
execVars  == <<stage, source>>
vars == <<docVars, offerVars, execVars>>

Init ==
    /\ doc = [t \in Task |-> "missing"] /\ asked = [t \in Task |-> 0]
    /\ trouble = [h \in Host |-> 0] /\ sent = [h \in Host |-> [t \in Task |-> 0]]
    /\ offered = {} /\ gone = {} /\ again = {}
    /\ stage = [e \in Execution |-> "none"]
    /\ source = [e \in Execution |-> NoOffer]

Becomes(t, s) == doc' = [doc EXCEPT ![t] = s]
Moves(e, from, to) == stage[e] = from /\ stage' = [stage EXCEPT ![e] = to]

(* Users.                                                                   *)
Ask(t) ==
    /\ Becomes(t, "pending") /\ asked' = [asked EXCEPT ![t] = @ + 1]
    /\ UNCHANGED <<offerVars, execVars>>

Stop(t) ==
    /\ t \in Stoppable /\ doc[t] \notin {"missing", "success", "failed", "stopped"}
    /\ Becomes(t, "stopped")
    /\ UNCHANGED <<asked, offerVars, execVars>>

(* Hosts.                                                                   *)
Suffers(h) == trouble' = [trouble EXCEPT ![h] = @ + 1]

Trouble(h) == Suffers(h) /\ UNCHANGED <<docVars, sent, offered, gone, again, execVars>>

Offer(h, t) ==
    /\ asked[t] > 0
    /\ sent' = [sent EXCEPT ![h][t] = @ + 1]
    /\ LET new == [task |-> t, host |-> h, seq |-> sent'[h][t]] IN
       \/ offered' = offered \cup {new} /\ UNCHANGED gone
       \/ gone' = gone \cup {new} /\ UNCHANGED offered
    /\ Suffers(h) \/ UNCHANGED trouble
    /\ sent'[h][t] <= asked[t] + trouble'[h]
    /\ UNCHANGED <<docVars, again, execVars>>

\* The host took its offer for made; whether it arrived, it cannot tell.
Accept(t) ==
    /\ doc[t] = "pending" /\ \E h \in Host : sent[h][t] > 0
    /\ Becomes(t, "waiting")
    /\ UNCHANGED <<asked, offerVars, execVars>>

(* The broker and the workers.                                              *)
Used(m) == \E e \in Execution : stage[e] # "none" /\ source[e] = m

TakeBack(m) ==
    /\ again' = again \cup {m} /\ offered' = offered \cup {m}
    /\ m \in offered \/ Used(m) \/ m.task \in Stoppable
    /\ UNCHANGED <<docVars, trouble, sent, gone, execVars>>

Discard(m) ==
    /\ m.task \in Stoppable \/ (m \in again /\ Used(m))
    /\ offered' = offered \ {m}
    /\ UNCHANGED <<docVars, trouble, sent, gone, again, execVars>>

Start(e, m) ==
    /\ Moves(e, "none", "new")
    /\ source' = [source EXCEPT ![e] = m]
    /\ offered' = offered \ {m} \/ (m \in again /\ UNCHANGED offered)
    /\ UNCHANGED <<docVars, trouble, sent, gone, again>>

(* Executions.                                                              *)
Begin(e) ==
    /\ Moves(e, "new", "running")
    /\ Becomes(source[e].task, "running")
    /\ UNCHANGED <<asked, offerVars, source>>

Report(e) ==
    /\ Moves(e, "running", "over")
    /\ \E s \in {"success", "failed"} : Becomes(source[e].task, s)
    /\ UNCHANGED <<asked, offerVars, source>>

\* Killed, or nothing could be reported.
Vanish(e) ==
    /\ Moves(e, "new", "over") \/ Moves(e, "running", "over")
    /\ UNCHANGED <<docVars, offerVars, source>>

\* Fetching, caching and counting: nobody outside can tell.
Internal == UNCHANGED vars

Next ==
    \/ Internal
    \/ \E t \in Task : Ask(t) \/ Stop(t) \/ Accept(t)
    \/ \E h \in Host : Trouble(h) \/ \E t \in Task : Offer(h, t)
    \/ \E m \in offered : Discard(m) \/ \E e \in Execution : Start(e, m)
    \/ \E h \in Host, t \in Task : \E i \in 1..sent[h][t] :
          TakeBack([task |-> t, host |-> h, seq |-> i])
    \/ \E e \in Execution : Begin(e) \/ Report(e) \/ Vanish(e)

Spec == Init /\ [][Next]_vars
=============================================================================
