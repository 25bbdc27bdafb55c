--------------------------- MODULE RpcProperties ----------------------------
(***************************************************************************)
(* What a remote call may tell its caller, how often the method may run,   *)
(* and when a caller may be refused or cannot call any more.               *)
(***************************************************************************)
EXTENDS Rpc, FiniteSets

Kind == {"success", "error"}
Message == [caller : Caller, call : CallNumber, attempt : 1..MaxRetries, epoch : Nat]
Answer  == [call : CallNumber, kind : Kind]

\* The type of every variable.  A caller that waits to connect again has an
\* attempt left, and the attempts stay below the limit.
RpcTypeOK ==
    /\ pc \in [Caller -> {"idle", "check", "publish", "wait", "reconnect"}]
    /\ corrId \in [Caller -> {0} \cup CallNumber] /\ attempt \in [Caller -> 0..MaxRetries]
    /\ channel \in [Caller -> {"open", "lost", "closed"}] /\ epoch \in [Caller -> Nat]
    /\ \A c \in Caller : response[c] = Nobody \/ response[c] \in Answer
    /\ breaker \in [Caller -> {"closed", "open", "half-open"}]
    /\ failures \in [Caller -> Nat] /\ cooled \in [Caller -> BOOLEAN]
    /\ declared \in BOOLEAN /\ requests \in Seq(Message) /\ replies \in [Caller -> Seq(Answer)]
    /\ lpc \in {"down", "idle", "run", "executed", "acked"}
    /\ handling = Nobody \/ handling \in Message
    /\ result \in Kind \cup {"none"} /\ crashes \in 0..faults /\ faults \in 0..MaxFaults

\* _rpc.py:163: what a call returns or raises is an answer of the service to this
\* call; a late answer to an earlier call is never taken for it.
AnswerIsForCall ==
    \A c \in Caller : outcome[c] \in Kind =>
        \E a \in served :
            a.msg.caller = c /\ a.msg.call = corrId[c] /\ a.kind = outcome[c]

\* A method runs more often than its call was published only when the listener
\* crashed between the execution and the ack (_rpc.py:322).
ExecutionBound ==
    \A c \in Caller : \A k \in CallNumber :
        runs[c][k] <= Cardinality({m \in published : m.caller = c /\ m.call = k}) + crashes

Executed(m) == \E a \in served : a.msg = m

\* A request that was published, and each of its retries, is executed, or is in the
\* queue or with the listener, whatever crashes.
RequestIsCarried ==
    \A m \in published :
        \/ Executed(m)
        \/ m = handling
        \/ \E i \in DOMAIN requests : requests[i] = m

\* README.rst:232 "opens after N consecutive failures": an open breaker, and a
\* refused call, mean that N calls have failed since one succeeded.  Exceptions of
\* the method, in between, neither count nor reset the count.
OpenForReason ==
    \A c \in Caller : breaker[c] = "open" \/ outcome[c] = "refused" => streak[c] >= Threshold

\* README.rst:233 "recovers from connection/channel errors transparently" holds
\* while a call goes on: a caller that is idle with a closed channel, and so fails
\* every later call, met a missing queue, lost its connection in the last attempt,
\* or could not connect again.
BrokenForReason ==
    \A c \in Caller : channel[c] = "closed" /\ pc[c] = "idle" =>
        cause[c] \in {"missing queue", "last attempt", "reconnection failed"}

\* Every call ends.
CallEnds == \A c \in Caller : pc[c] # "idle" ~> pc[c] = "idle"

\* The listener catches up: again and again every published request has been
\* executed, although the listener crashes and callers may have given up.
RequestsAreExecuted == []<>(\A m \in published : Executed(m))
=============================================================================
