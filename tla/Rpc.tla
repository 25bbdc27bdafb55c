-------------------------------- MODULE Rpc ---------------------------------
(***************************************************************************)
(* Remote calls over RabbitMQ (providers/_rpc.py): callers with retries, a *)
(* correlation id per call, an exclusive reply queue per connection and a  *)
(* circuit breaker; the listener of a service, which may crash; and a      *)
(* broker that gives back what the listener had not acknowledged.          *)
(***************************************************************************)
EXTENDS Naturals, Sequences

CONSTANTS
    Caller,      \* RpcCaller objects, one per thread
    Nobody,      \* no message, no answer
    MaxRetries,  \* max_retries: attempts of a call
    Threshold,   \* circuit_breaker_threshold
    MaxCalls,    \* bound: calls of each caller
    MaxFaults    \* bound: lost connections and crashes of the listener

ASSUME RpcAssumption ==
    /\ Nobody \notin Caller
    /\ MaxRetries \in Nat \ {0} /\ Threshold \in Nat \ {0}
    /\ MaxCalls \in [Caller -> Nat] /\ MaxFaults \in Nat

VARIABLES
    pc,         \* per caller: where call() is
    corrId,     \* per caller: corr_id, its calls numbered
    attempt,    \* per caller: attempt of the loop in call()
    channel,    \* per caller: "open", "lost" without its knowledge, or "closed"
    epoch,      \* per caller: its reply queue, a new one for each connection
    response,   \* per caller: response, or Nobody
    breaker,    \* per caller: _state
    failures,   \* per caller: _failure_count
    cooled,     \* per caller: recovery_timeout has passed since the last failure
    declared,   \* the queue of the service exists
    requests,   \* messages in it, oldest first: [caller, call, attempt, epoch]
    replies,    \* per caller: messages in its reply queue: [call, kind]
    lpc,        \* the listener: where it is
    handling,   \* its message
    result,     \* and the response to it
    outcome,    \* history: how each caller's last call ended
    streak,     \* history: calls of each caller that failed since one succeeded
    cause,      \* history: per caller, why its channel is closed
    published,  \* history: requests that reached the queue
    served,     \* history: what it answered to each request: [msg, kind]
    runs,       \* history: executions of each call
    crashes,    \* history: crashes of the listener with an unacknowledged request
    faults      \* history: faults

callVars    == <<pc, corrId, attempt, outcome>>
linkVars    == <<channel, epoch, cause>>
breakerVars == <<breaker, failures, cooled, streak>>
brokerVars  == <<declared, requests, replies, published>>
serverVars  == <<lpc, handling, result, served, runs, crashes>>
rpcVars     == <<callVars, linkVars, response, breakerVars, brokerVars, serverVars, faults>>

CallNumber == UNION {1..MaxCalls[c] : c \in Caller}

RpcInit ==
    /\ pc = [c \in Caller |-> "idle"] /\ corrId = [c \in Caller |-> 0]
    /\ attempt = [c \in Caller |-> 0] /\ outcome = [c \in Caller |-> "none"]
    /\ channel = [c \in Caller |-> "open"] /\ epoch = [c \in Caller |-> 0]
    /\ cause = [c \in Caller |-> "none"] /\ response = [c \in Caller |-> Nobody]
    /\ breaker = [c \in Caller |-> "closed"] /\ failures = [c \in Caller |-> 0]
    /\ cooled = [c \in Caller |-> FALSE] /\ streak = [c \in Caller |-> 0]
    /\ replies = [c \in Caller |-> <<>>]
    /\ declared = FALSE /\ requests = <<>> /\ published = {}
    /\ lpc = "down" /\ handling = Nobody /\ result = "none"
    /\ served = {} /\ runs = [c \in Caller |-> [k \in CallNumber |-> 0]] /\ crashes = 0
    /\ faults = 0

Fault == faults < MaxFaults /\ faults' = faults + 1

Step(c, from, to) == pc[c] = from /\ pc' = [pc EXCEPT ![c] = to]

Close(c, why) ==
    /\ channel' = [channel EXCEPT ![c] = "closed"]
    /\ cause' = [cause EXCEPT ![c] = why]

-----------------------------------------------------------------------------
(* The circuit breaker.                                                     *)

IsOpen(c) == breaker[c] = "open" /\ ~cooled[c]

\* seeded fault: the failures before a success still count
SucceedOnly(c) ==
    /\ breaker' = [breaker EXCEPT ![c] = "closed"]
    /\ streak' = [streak EXCEPT ![c] = 0]
    /\ UNCHANGED <<failures, cooled>>

RecordSuccess(c) ==
    /\ breaker' = [breaker EXCEPT ![c] = "closed"]
    /\ failures' = [failures EXCEPT ![c] = 0]
    /\ streak' = [streak EXCEPT ![c] = 0]
    /\ UNCHANGED cooled

RecordFailure(c) ==
    /\ failures' = [failures EXCEPT ![c] = @ + 1]
    /\ streak' = [streak EXCEPT ![c] = @ + 1]
    /\ cooled' = [cooled EXCEPT ![c] = FALSE]
    /\ breaker' = [breaker EXCEPT ![c] =
          IF @ = "half-open" \/ failures[c] + 1 >= Threshold THEN "open" ELSE @]

\* recovery_timeout passes.
Cool(c) ==
    /\ breaker[c] = "open" /\ ~cooled[c]
    /\ cooled' = [cooled EXCEPT ![c] = TRUE]
    /\ UNCHANGED <<callVars, linkVars, response, breaker, failures, streak, brokerVars, serverVars,
                   faults>>

-----------------------------------------------------------------------------
(* call and _execute_call.                                                  *)

Refused(c) ==
    /\ pc[c] = "idle" /\ corrId[c] < MaxCalls[c] /\ IsOpen(c)
    /\ outcome' = [outcome EXCEPT ![c] = "refused"]
    /\ UNCHANGED <<pc, corrId, attempt, linkVars, response, breakerVars, brokerVars,
                   serverVars, faults>>

Call(c) ==
    /\ Step(c, "idle", "check")
    /\ corrId[c] < MaxCalls[c] /\ ~IsOpen(c)
    /\ breaker' = [breaker EXCEPT ![c] = IF @ = "open" THEN "half-open" ELSE @]
    /\ corrId' = [corrId EXCEPT ![c] = @ + 1]
    /\ attempt' = [attempt EXCEPT ![c] = 1]
    /\ response' = [response EXCEPT ![c] = Nobody]
    /\ outcome' = [outcome EXCEPT ![c] = "none"]
    /\ UNCHANGED <<linkVars, failures, cooled, streak, brokerVars, serverVars, faults>>

\* The end of call() without a record at the breaker: an exception that its
\* handlers do not name.
Raise(c, from, how) ==
    /\ Step(c, from, "idle")
    /\ outcome' = [outcome EXCEPT ![c] = how]
    /\ UNCHANGED <<corrId, attempt, breakerVars>>

PastLastAttempt(c) == attempt[c] > MaxRetries \* seeded fault: off by one
LastAttempt(c) == attempt[c] = MaxRetries

\* The next attempt, after its delay and with response = None.
Again(c, from, to) ==
    /\ ~LastAttempt(c) /\ Step(c, from, to)
    /\ attempt' = [attempt EXCEPT ![c] = @ + 1]
    /\ response' = [response EXCEPT ![c] = Nobody]
    /\ UNCHANGED <<corrId, outcome, breakerVars>>

GiveUp(c, from) ==
    /\ LastAttempt(c) /\ Step(c, from, "idle")
    /\ outcome' = [outcome EXCEPT ![c] = "failed"]
    /\ RecordFailure(c)
    /\ UNCHANGED <<corrId, attempt, response>>

CheckPasses(c) ==
    /\ Step(c, "check", "publish")
    /\ channel[c] = "open" /\ declared
    /\ UNCHANGED <<corrId, attempt, outcome, linkVars, response, breakerVars, brokerVars,
                   serverVars, faults>>

\* The broker answers 404 and closes the channel; the next attempt, which follows
\* at once, finds it closed.
CheckFinds404(c) ==
    /\ channel[c] = "open" /\ ~declared
    /\ Close(c, "missing queue")
    /\ Again(c, "check", "check") \/ GiveUp(c, "check")
    /\ UNCHANGED <<epoch, brokerVars, serverVars, faults>>

\* ChannelWrongStateError is neither ChannelClosed nor AMQPConnectionError.
CheckOnClosed(c) ==
    /\ channel[c] = "closed"
    /\ Raise(c, "check", "broken")
    /\ UNCHANGED <<linkVars, response, brokerVars, serverVars, faults>>

Publish(c) ==
    LET m == [caller |-> c, call |-> corrId[c], attempt |-> attempt[c], epoch |-> epoch[c]] IN
    /\ Step(c, "publish", "wait")
    /\ channel[c] = "open"
    /\ requests' = Append(requests, m) /\ published' = published \cup {m}
    /\ UNCHANGED <<corrId, attempt, outcome, linkVars, response, breakerVars, declared, replies,
                   serverVars, faults>>

\* seeded fault: the next attempt uses the old connection
NoticesOnly(c) ==
    /\ channel[c] = "lost" /\ pc[c] \in {"check", "publish", "wait"}
    /\ \/ Again(c, pc[c], "check") /\ Close(c, "not reconnected yet")
       \/ GiveUp(c, pc[c]) /\ Close(c, "last attempt")
    /\ UNCHANGED <<epoch, brokerVars, serverVars, faults>>

\* A lost connection is noticed by the next use of it.  The last attempt leaves it
\* as it is.
NoticesLoss(c) ==
    /\ channel[c] = "lost" /\ pc[c] \in {"check", "publish", "wait"}
    /\ \/ Again(c, pc[c], "reconnect") /\ Close(c, "not reconnected yet")
       \/ GiveUp(c, pc[c]) /\ Close(c, "last attempt")
    /\ UNCHANGED <<epoch, brokerVars, serverVars, faults>>

Reconnect(c) ==
    /\ Step(c, "reconnect", "check")
    /\ channel' = [channel EXCEPT ![c] = "open"]
    /\ cause' = [cause EXCEPT ![c] = "none"]
    /\ epoch' = [epoch EXCEPT ![c] = @ + 1]
    /\ UNCHANGED <<corrId, attempt, outcome, response, breakerVars, brokerVars, serverVars, faults>>

ReconnectFails(c) ==
    /\ Step(c, "reconnect", "check")
    /\ Close(c, "reconnection failed")
    /\ UNCHANGED <<corrId, attempt, outcome, epoch, response, breakerVars, brokerVars, serverVars,
                   faults>>

MatchesAny(c, r) == TRUE \* seeded fault: the correlation id is not compared
Matches(c, r) == corrId[c] = r.call

\* _on_response, called by process_data_events.
OnResponse(c) ==
    /\ pc[c] = "wait" /\ channel[c] = "open" /\ replies[c] # <<>>
    /\ replies' = [replies EXCEPT ![c] = Tail(@)]
    /\ response' = [response EXCEPT ![c] = LET r == Head(replies[c]) IN IF Matches(c, r) THEN r ELSE @]
    /\ UNCHANGED <<callVars, linkVars, breakerVars, declared, requests, published, serverVars, faults>>

Returns(c) ==
    /\ response[c] # Nobody /\ response[c].kind = "success"
    /\ Step(c, "wait", "idle")
    /\ outcome' = [outcome EXCEPT ![c] = "success"]
    /\ RecordSuccess(c)
    /\ UNCHANGED <<corrId, attempt, linkVars, response, brokerVars, serverVars, faults>>

\* The exception of the method is raised again by the call.
RaisesRemote(c) ==
    /\ response[c] # Nobody /\ response[c].kind = "error"
    /\ Raise(c, "wait", "error")
    /\ UNCHANGED <<linkVars, response, brokerVars, serverVars, faults>>

\* seeded fault: the last attempt waits for ever
TimesOutAgain(c) ==
    /\ response[c] = Nobody /\ channel[c] = "open"
    /\ Again(c, "wait", "check")
    /\ UNCHANGED <<linkVars, brokerVars, serverVars, faults>>

TimesOut(c) ==
    /\ response[c] = Nobody /\ channel[c] = "open"
    /\ Again(c, "wait", "check") \/ GiveUp(c, "wait")
    /\ UNCHANGED <<linkVars, brokerVars, serverVars, faults>>

-----------------------------------------------------------------------------
(* The broker and the listener.                                             *)

\* An exclusive queue goes with its connection.
ConnectionLost(c) ==
    /\ channel[c] = "open" /\ Fault
    /\ channel' = [channel EXCEPT ![c] = "lost"]
    /\ replies' = [replies EXCEPT ![c] = <<>>]
    /\ UNCHANGED <<callVars, epoch, cause, response, breakerVars, declared, requests, published,
                   serverVars>>

ListenerStep(from, to) == lpc = from /\ lpc' = to

ListenerStarts ==
    /\ ListenerStep("down", "idle")
    /\ declared' = TRUE
    /\ UNCHANGED <<callVars, linkVars, response, breakerVars, requests, replies, published,
                   handling, result, served, runs, crashes, faults>>

Deliver ==
    /\ ListenerStep("idle", "run")
    /\ requests # <<>>
    /\ handling' = Head(requests) /\ requests' = Tail(requests)
    /\ UNCHANGED <<callVars, linkVars, response, breakerVars, declared, replies, published,
                   result, served, runs, crashes, faults>>

Execute ==
    /\ ListenerStep("run", "executed")
    /\ \E kind \in {"success", "error"} :
         /\ result' = kind
         /\ served' = served \cup {[msg |-> handling, kind |-> kind]}
    /\ runs' = [runs EXCEPT ![handling.caller][handling.call] = @ + 1]
    /\ UNCHANGED <<callVars, linkVars, response, breakerVars, brokerVars, handling, crashes, faults>>

\* seeded fault: the message is given back after an error
NackOnError ==
    /\ ListenerStep("executed", "acked")
    /\ requests' = IF result = "error" THEN <<handling>> \o requests ELSE requests
    /\ UNCHANGED <<callVars, linkVars, response, breakerVars, declared, replies, published,
                   handling, result, served, runs, crashes, faults>>

Ack ==
    /\ ListenerStep("executed", "acked")
    /\ UNCHANGED <<callVars, linkVars, response, breakerVars, brokerVars, handling, result,
                   served, runs, crashes, faults>>

\* A reply to a queue that is gone is dropped by the broker.
Reply ==
    LET c == handling.caller
        reachable == channel[c] = "open" /\ handling.epoch = epoch[c]
    IN
    /\ ListenerStep("acked", "idle")
    /\ replies' = IF reachable
          THEN [replies EXCEPT ![c] = Append(@, [call |-> handling.call, kind |-> result])]
          ELSE replies
    /\ handling' = Nobody /\ result' = "none"
    /\ UNCHANGED <<callVars, linkVars, response, breakerVars, declared, requests, published,
                   served, runs, crashes, faults>>

AckedFirst == <<>> \* seeded fault: the listener acknowledges before it executes
GivenBack == IF lpc \in {"run", "executed"} THEN <<handling>> ELSE <<>>

ListenerCrashes ==
    /\ lpc # "down" /\ lpc' = "down" /\ Fault
    /\ requests' = GivenBack \o requests
    /\ crashes' = IF lpc \in {"run", "executed"} THEN crashes + 1 ELSE crashes
    /\ handling' = Nobody /\ result' = "none"
    /\ UNCHANGED <<callVars, linkVars, response, breakerVars, declared, replies, published,
                   served, runs>>

-----------------------------------------------------------------------------
Proceeds(c) ==
    \/ CheckPasses(c) \/ CheckFinds404(c) \/ CheckOnClosed(c) \/ Publish(c) \/ NoticesLoss(c)
    \/ Reconnect(c) \/ Returns(c) \/ RaisesRemote(c) \/ TimesOut(c)

CallerStep(c) ==
    Refused(c) \/ Call(c) \/ Proceeds(c) \/ ReconnectFails(c) \/ OnResponse(c) \/ Cool(c)
    \/ ConnectionLost(c)

ListenerWorks == Deliver \/ Execute \/ Ack \/ Reply

RpcNext ==
    \/ \E c \in Caller : CallerStep(c)
    \/ ListenerStarts \/ ListenerWorks \/ ListenerCrashes

RpcSpec == RpcInit /\ [][RpcNext]_rpcVars

\* Callers go on and time out, the service is started again and goes on.
RpcFairness ==
    /\ \A c \in Caller : WF_rpcVars(Proceeds(c))
    /\ WF_rpcVars(ListenerStarts) /\ WF_rpcVars(ListenerWorks)
=============================================================================
