------------------------------ MODULE RpcProofs ------------------------------
(***************************************************************************)
(* Proofs about Rpc for any callers, retries, threshold, number of calls   *)
(* and number of faults.  Each invariant is proved from the types, and for *)
(* the callers and the listener apart.                                     *)
(***************************************************************************)
EXTENDS RpcProperties, FiniteSetTheorems, TLAPS

-----------------------------------------------------------------------------
(* The inductive invariants.                                                *)

Place   == {"idle", "check", "publish", "wait", "reconnect"}
Served  == [msg : Message, kind : Kind]
Reasons == {"missing queue", "last attempt", "reconnection failed"}

\* A call in progress has a number and an attempt.
CallTypes ==
    /\ pc \in [Caller -> Place] /\ corrId \in [Caller -> {0} \cup CallNumber]
    /\ attempt \in [Caller -> 0..MaxRetries]
    /\ outcome \in [Caller -> Kind \cup {"none", "refused", "failed", "broken"}]
    /\ response \in [Caller -> Answer \cup {Nobody}]
    /\ \A c \in Caller : pc[c] # "idle" => corrId[c] \in CallNumber /\ attempt[c] \in 1..MaxRetries

LinkTypes ==
    /\ channel \in [Caller -> {"open", "lost", "closed"}] /\ epoch \in [Caller -> Nat]
    /\ cause \in [Caller -> Reasons \cup {"none", "not reconnected yet"}]

BreakerTypes ==
    /\ breaker \in [Caller -> {"closed", "open", "half-open"}] /\ failures \in [Caller -> Nat]
    /\ cooled \in [Caller -> BOOLEAN] /\ streak \in [Caller -> Nat]

BrokerTypes ==
    /\ declared \in BOOLEAN /\ requests \in Seq(Message) /\ replies \in [Caller -> Seq(Answer)]
    /\ published \subseteq Message /\ IsFiniteSet(published)

\* The listener has a message until it has replied, and a result once it executed it.
ServerTypes ==
    /\ lpc \in {"down", "idle", "run", "executed", "acked"}
    /\ handling = Nobody \/ handling \in Message
    /\ result \in Kind \cup {"none"} /\ served \subseteq Served
    /\ runs \in [Caller -> [CallNumber -> Nat]]
    /\ crashes \in 0..faults /\ faults \in 0..MaxFaults
    /\ lpc \in {"run", "executed", "acked"} => handling \in Message
    /\ lpc \in {"executed", "acked"} =>
          result \in Kind /\ [msg |-> handling, kind |-> result] \in served

TypeInv == CallTypes /\ LinkTypes /\ BreakerTypes /\ BrokerTypes /\ ServerTypes

-----------------------------------------------------------------------------
(* Types.                                                                   *)

LEMMA CallNumbers ==
    /\ CallNumber \subseteq Nat \ {0} /\ {0} \cup CallNumber \subseteq Nat
    /\ \A c \in Caller, n \in Nat : n < MaxCalls[c] => n + 1 \in CallNumber
<1>1. \A c \in Caller : MaxCalls[c] \in Nat
  BY RpcAssumption
<1>2. ASSUME NEW k \in CallNumber PROVE k \in Nat \ {0}
  <2>1. PICK c \in Caller : k \in 1..MaxCalls[c]
    BY DEF CallNumber
  <2> QED
    BY <1>1, <2>1
<1>3. ASSUME NEW c \in Caller, NEW n \in Nat, n < MaxCalls[c] PROVE n + 1 \in CallNumber
  <2>1. n + 1 \in 1..MaxCalls[c]
    BY <1>1, <1>3
  <2> QED
    BY <2>1 DEF CallNumber
<1> QED
  BY <1>2, <1>3

LEMMA AttemptTypes ==
    ASSUME CallTypes, NEW c \in Caller
    PROVE  /\ attempt[c] \in 0..MaxRetries /\ MaxRetries \in Nat \ {0}
           /\ ~LastAttempt(c) => attempt[c] + 1 \in 1..MaxRetries
  BY RpcAssumption DEF CallTypes, LastAttempt

\* What a step of a caller does not touch, and what the service does not touch.
LEMMA CallerFrame ==
    ASSUME NEW c \in Caller, CallerStep(c)
    PROVE  UNCHANGED serverVars
  BY DEF CallerStep, Proceeds, Refused, Call, CheckPasses, CheckFinds404, CheckOnClosed, Publish,
         NoticesLoss, Reconnect, ReconnectFails, OnResponse, Returns, RaisesRemote, TimesOut, Cool,
         ConnectionLost

Service == ListenerStarts \/ ListenerWorks \/ ListenerCrashes

LEMMA ServiceFrame ==
    ASSUME Service
    PROVE  UNCHANGED <<callVars, linkVars, response, breakerVars>>
  BY DEF Service, ListenerStarts, ListenerWorks, ListenerCrashes, Deliver, Execute, Ack, Reply

\* Steps of a caller that do not touch the queue of the service.
LEMMA QueueFrame ==
    ASSUME NEW c \in Caller, CallerStep(c), ~Publish(c)
    PROVE  UNCHANGED <<declared, requests, published>>
  BY DEF CallerStep, Proceeds, Refused, Call, CheckPasses, CheckFinds404, CheckOnClosed,
         NoticesLoss, Reconnect, ReconnectFails, OnResponse, Returns, RaisesRemote, TimesOut, Cool,
         ConnectionLost, brokerVars

LEMMA AgainTypes ==
    ASSUME CallTypes, NEW c \in Caller, NEW from \in Place \ {"idle"}, NEW to \in Place,
           Again(c, from, to)
    PROVE  CallTypes'
<1>1. /\ pc[c] = from /\ pc' = [pc EXCEPT ![c] = to] /\ attempt' = [attempt EXCEPT ![c] = @ + 1]
      /\ response' = [response EXCEPT ![c] = Nobody] /\ UNCHANGED <<corrId, outcome>>
      /\ attempt[c] + 1 \in 1..MaxRetries /\ MaxRetries \in Nat
  BY AttemptTypes DEF Again, Step
<1>2. /\ pc' \in [Caller -> Place] /\ response' \in [Caller -> Answer \cup {Nobody}]
      /\ attempt' \in [Caller -> 0..MaxRetries]
  BY <1>1 DEF CallTypes
<1>3. \A d \in Caller : pc'[d] # "idle" => corrId'[d] \in CallNumber /\ attempt'[d] \in 1..MaxRetries
  BY <1>1 DEF CallTypes
<1> QED
  BY <1>1, <1>2, <1>3 DEF CallTypes

\* The other ends of a step of call(): the attempt stays.
Moves(c, to) == pc' = [pc EXCEPT ![c] = to] /\ UNCHANGED <<corrId, attempt>>

LEMMA MovesTypes ==
    ASSUME CallTypes, NEW c \in Caller, NEW to \in Place, Moves(c, to), to = "idle" \/ pc[c] # "idle",
           outcome' \in [Caller -> Kind \cup {"none", "refused", "failed", "broken"}],
           UNCHANGED response
    PROVE  CallTypes'
  BY DEF CallTypes, Moves

LEMMA RecordTypes ==
    ASSUME BreakerTypes, NEW c \in Caller, RecordSuccess(c) \/ RecordFailure(c)
    PROVE  BreakerTypes'
<1>1. CASE RecordSuccess(c)
  BY <1>1 DEF BreakerTypes, RecordSuccess
<1>2. CASE RecordFailure(c)
  <2>1. failures' \in [Caller -> Nat] /\ streak' \in [Caller -> Nat] /\ cooled' \in [Caller -> BOOLEAN]
    BY <1>2 DEF BreakerTypes, RecordFailure
  <2>2. breaker' \in [Caller -> {"closed", "open", "half-open"}]
    BY <1>2 DEF BreakerTypes, RecordFailure
  <2> QED
    BY <2>1, <2>2 DEF BreakerTypes
<1> QED
  BY <1>1, <1>2

LEMMA GiveUpTypes ==
    ASSUME CallTypes, BreakerTypes, NEW c \in Caller, NEW from, GiveUp(c, from)
    PROVE  CallTypes' /\ BreakerTypes'
<1>1. Moves(c, "idle") /\ outcome' = [outcome EXCEPT ![c] = "failed"] /\ UNCHANGED response
  BY DEF GiveUp, Step, Moves
<1>2. outcome' \in [Caller -> Kind \cup {"none", "refused", "failed", "broken"}]
  BY <1>1 DEF CallTypes
<1> QED
  BY <1>1, <1>2, MovesTypes, RecordTypes DEF GiveUp, Place

LEMMA TypeCall ==
    ASSUME TypeInv, NEW c \in Caller, Refused(c) \/ Call(c)
    PROVE  CallTypes' /\ LinkTypes' /\ BreakerTypes'
<1>1. CASE Refused(c)
  <2>1. outcome' \in [Caller -> Kind \cup {"none", "refused", "failed", "broken"}]
    BY <1>1 DEF Refused, TypeInv, CallTypes
  <2> QED
    BY <1>1, <2>1 DEF Refused, TypeInv, CallTypes, LinkTypes, BreakerTypes, linkVars, breakerVars
<1>2. CASE Call(c)
  <2>1. /\ pc' = [pc EXCEPT ![c] = "check"] /\ corrId' = [corrId EXCEPT ![c] = @ + 1]
        /\ attempt' = [attempt EXCEPT ![c] = 1] /\ response' = [response EXCEPT ![c] = Nobody]
        /\ outcome' = [outcome EXCEPT ![c] = "none"] /\ corrId[c] < MaxCalls[c]
    BY <1>2 DEF Call, Step
  <2>2. corrId[c] \in Nat
    <3>1. corrId[c] \in {0} \cup CallNumber
      BY DEF TypeInv, CallTypes
    <3> QED
      BY <3>1, CallNumbers
  <2> USE DEF TypeInv
  <2>3. corrId[c] + 1 \in CallNumber
    BY <2>1, <2>2, CallNumbers
  <2>4. 1 \in 1..MaxRetries /\ 1 \in 0..MaxRetries
    BY RpcAssumption
  <2>5. /\ pc' \in [Caller -> Place] /\ corrId' \in [Caller -> {0} \cup CallNumber]
        /\ attempt' \in [Caller -> 0..MaxRetries] /\ response' \in [Caller -> Answer \cup {Nobody}]
    BY <2>1, <2>3, <2>4 DEF CallTypes, Place
  <2>6. outcome' \in [Caller -> Kind \cup {"none", "refused", "failed", "broken"}]
    BY <2>1 DEF CallTypes
  <2>7. \A d \in Caller : pc'[d] # "idle" => corrId'[d] \in CallNumber /\ attempt'[d] \in 1..MaxRetries
    BY <2>1, <2>3, <2>4 DEF CallTypes
  <2>8. BreakerTypes'
    BY <1>2 DEF Call, BreakerTypes
  <2> QED
    BY <1>2, <2>5, <2>6, <2>7, <2>8 DEF Call, CallTypes, LinkTypes, linkVars
<1> QED
  BY <1>1, <1>2

\* Steps that move on without an attempt more.
LEMMA TypeMoves ==
    ASSUME TypeInv, NEW c \in Caller,
           \/ CheckPasses(c) \/ Publish(c) \/ Reconnect(c) \/ ReconnectFails(c)
           \/ CheckOnClosed(c) \/ RaisesRemote(c) \/ Returns(c)
    PROVE  CallTypes' /\ LinkTypes' /\ BreakerTypes'
<1> USE DEF TypeInv
<1>1. CASE CheckPasses(c) \/ Publish(c)
  <2>1. (Moves(c, "publish") \/ Moves(c, "wait")) /\ pc[c] # "idle" /\ UNCHANGED <<outcome, response>>
    BY <1>1 DEF CheckPasses, Publish, Step, Moves
  <2>2. CallTypes'
    BY <2>1, MovesTypes DEF Place, CallTypes
  <2> QED
    BY <1>1, <2>2 DEF CheckPasses, Publish, LinkTypes, BreakerTypes, linkVars, breakerVars
<1>2. CASE Reconnect(c) \/ ReconnectFails(c)
  <2>1. Moves(c, "check") /\ pc[c] # "idle" /\ UNCHANGED <<outcome, response>>
    BY <1>2 DEF Reconnect, ReconnectFails, Step, Moves
  <2>2. CallTypes'
    BY <2>1, MovesTypes DEF Place, CallTypes
  <2>3. channel' \in [Caller -> {"open", "lost", "closed"}]
    <3>1. channel' = [channel EXCEPT ![c] = "open"] \/ channel' = [channel EXCEPT ![c] = "closed"]
      BY <1>2 DEF Reconnect, ReconnectFails, Close
    <3> QED
      BY <3>1 DEF LinkTypes
  <2>4. epoch' \in [Caller -> Nat]
    <3>1. epoch' = [epoch EXCEPT ![c] = @ + 1] \/ UNCHANGED epoch
      BY <1>2 DEF Reconnect, ReconnectFails
    <3>2. epoch \in [Caller -> Nat]
      BY DEF LinkTypes
    <3>3. CASE epoch' = [epoch EXCEPT ![c] = @ + 1]
      BY <3>2, <3>3
    <3> QED
      BY <3>1, <3>2, <3>3
  <2>5. cause' \in [Caller -> Reasons \cup {"none", "not reconnected yet"}]
    BY <1>2 DEF Reconnect, ReconnectFails, Close, LinkTypes, Reasons
  <2> QED
    BY <1>2, <2>2, <2>3, <2>4, <2>5 DEF Reconnect, ReconnectFails, LinkTypes, BreakerTypes, breakerVars
<1>3. CASE CheckOnClosed(c) \/ RaisesRemote(c)
  <2>1. Moves(c, "idle") /\ UNCHANGED response
    BY <1>3 DEF CheckOnClosed, RaisesRemote, Raise, Step, Moves
  <2>2. outcome' \in [Caller -> Kind \cup {"none", "refused", "failed", "broken"}]
    BY <1>3 DEF CheckOnClosed, RaisesRemote, Raise, CallTypes, Kind
  <2>3. CallTypes'
    BY <2>1, <2>2, MovesTypes DEF Place
  <2> QED
    BY <1>3, <2>3 DEF CheckOnClosed, RaisesRemote, Raise, LinkTypes, BreakerTypes, linkVars, breakerVars
<1>4. CASE Returns(c)
  <2>1. Moves(c, "idle") /\ UNCHANGED response /\ RecordSuccess(c)
    BY <1>4 DEF Returns, Step, Moves
  <2>2. outcome' \in [Caller -> Kind \cup {"none", "refused", "failed", "broken"}]
    BY <1>4 DEF Returns, CallTypes, Kind
  <2>3. CallTypes'
    BY <2>1, <2>2, MovesTypes DEF Place
  <2> QED
    BY <1>4, <2>1, <2>3, RecordTypes DEF Returns, LinkTypes, linkVars
<1> QED
  BY <1>1, <1>2, <1>3, <1>4

\* Steps that end an attempt.
LEMMA TypeAttempts ==
    ASSUME TypeInv, NEW c \in Caller, CheckFinds404(c) \/ NoticesLoss(c) \/ TimesOut(c)
    PROVE  CallTypes' /\ LinkTypes' /\ BreakerTypes'
<1> USE DEF TypeInv
<1>1. /\ pc[c] \in Place \ {"idle"}
      /\ \/ \E to \in Place : Again(c, pc[c], to)
         \/ GiveUp(c, pc[c])
  BY DEF CheckFinds404, NoticesLoss, TimesOut, Again, GiveUp, Step, Place
<1>2. CallTypes' /\ BreakerTypes'
  <2>1. ASSUME NEW to \in Place, Again(c, pc[c], to) PROVE CallTypes' /\ BreakerTypes'
    BY <1>1, <2>1, AgainTypes DEF Again, BreakerTypes, breakerVars
  <2>2. CASE GiveUp(c, pc[c])
    BY <2>2, GiveUpTypes
  <2> QED
    BY <1>1, <2>1, <2>2
<1>3. LinkTypes'
  <2>1. CASE TimesOut(c)
    BY <2>1 DEF TimesOut, LinkTypes, linkVars
  <2>2. CASE CheckFinds404(c) \/ NoticesLoss(c)
    <3>1. UNCHANGED epoch /\ \E why \in Reasons \cup {"not reconnected yet"} : Close(c, why)
      BY <2>2 DEF CheckFinds404, NoticesLoss, Reasons
    <3> QED
      BY <3>1 DEF Close, LinkTypes
  <2> QED
    BY <2>1, <2>2
<1> QED
  BY <1>2, <1>3

LEMMA TypeReplies ==
    ASSUME TypeInv, NEW c \in Caller, OnResponse(c)
    PROVE  CallTypes' /\ LinkTypes' /\ BreakerTypes' /\ replies' \in [Caller -> Seq(Answer)]
<1> USE DEF TypeInv
<1>1. /\ replies[c] \in Seq(Answer) /\ replies[c] # <<>> /\ replies' = [replies EXCEPT ![c] = Tail(@)]
  BY DEF OnResponse, BrokerTypes
<1>2. Head(replies[c]) \in Answer /\ Tail(replies[c]) \in Seq(Answer)
  BY <1>1
<1>3. replies' \in [Caller -> Seq(Answer)]
  BY <1>1, <1>2 DEF BrokerTypes
<1>4. response' \in [Caller -> Answer \cup {Nobody}]
  BY <1>2 DEF OnResponse, CallTypes
<1> QED
  BY <1>3, <1>4 DEF OnResponse, CallTypes, LinkTypes, BreakerTypes, callVars, linkVars, breakerVars

LEMMA TypeOthers ==
    ASSUME TypeInv, NEW c \in Caller, Cool(c) \/ ConnectionLost(c)
    PROVE  CallTypes' /\ LinkTypes' /\ BreakerTypes'
<1> USE DEF TypeInv
<1>1. CASE Cool(c)
  BY <1>1 DEF Cool, CallTypes, LinkTypes, BreakerTypes, callVars, linkVars
<1>2. CASE ConnectionLost(c)
  BY <1>2 DEF ConnectionLost, CallTypes, LinkTypes, BreakerTypes, callVars, breakerVars
<1> QED
  BY <1>1, <1>2

\* The request that a step of Publish adds.
Request(c) == [caller |-> c, call |-> corrId[c], attempt |-> attempt[c], epoch |-> epoch[c]]

LEMMA PublishEffect ==
    ASSUME TypeInv, NEW c \in Caller, Publish(c)
    PROVE  /\ Request(c) \in Message /\ Request(c).caller = c /\ Request(c).call = corrId[c]
           /\ Request(c).attempt = attempt[c]
           /\ requests' = Append(requests, Request(c)) /\ published' = published \cup {Request(c)}
           /\ pc[c] = "publish" /\ pc' = [pc EXCEPT ![c] = "wait"]
           /\ UNCHANGED <<corrId, attempt, declared, replies>>
<1>1. corrId[c] \in CallNumber /\ attempt[c] \in 1..MaxRetries /\ epoch[c] \in Nat
  BY DEF Publish, Step, TypeInv, CallTypes, LinkTypes
<1> QED
  BY <1>1 DEF Publish, Step, Request, Message

LEMMA TypeBroker ==
    ASSUME TypeInv, NEW c \in Caller, CallerStep(c)
    PROVE  BrokerTypes' /\ ServerTypes'
<1>1. CASE Publish(c)
  <2>1. /\ Request(c) \in Message /\ requests' = Append(requests, Request(c))
        /\ published' = published \cup {Request(c)} /\ UNCHANGED <<declared, replies>>
    BY <1>1, PublishEffect
  <2>2. UNCHANGED <<serverVars, faults>>
    BY <1>1 DEF Publish
  <2> USE DEF TypeInv
  <2>3. published' \subseteq Message /\ IsFiniteSet(published')
    BY <2>1, FS_AddElement DEF BrokerTypes
  <2>4. requests' \in Seq(Message)
    BY <2>1 DEF BrokerTypes
  <2> QED
    BY <2>1, <2>2, <2>3, <2>4 DEF BrokerTypes, ServerTypes, serverVars
<1> USE DEF TypeInv
<1>2. CASE ConnectionLost(c)
  <2>1. replies' = [replies EXCEPT ![c] = <<>>] /\ <<>> \in Seq(Answer)
        /\ UNCHANGED <<declared, requests, published>> /\ UNCHANGED serverVars
    BY <1>2 DEF ConnectionLost
  <2>2. replies' \in [Caller -> Seq(Answer)]
    BY <2>1 DEF BrokerTypes
  <2>3. crashes' \in 0..faults' /\ faults' \in 0..MaxFaults
    BY <1>2, RpcAssumption DEF ConnectionLost, Fault, ServerTypes, serverVars
  <2> QED
    BY <2>1, <2>2, <2>3 DEF BrokerTypes, ServerTypes, serverVars
<1>3. CASE ~Publish(c) /\ ~ConnectionLost(c)
  <2>1. UNCHANGED <<declared, requests, published>> /\ UNCHANGED serverVars
    BY <1>3, QueueFrame, CallerFrame
  <2>2. UNCHANGED faults
    BY <1>3 DEF CallerStep, Proceeds, Refused, Call, CheckPasses, CheckFinds404, CheckOnClosed,
         NoticesLoss, Reconnect, ReconnectFails, OnResponse, Returns, RaisesRemote, TimesOut, Cool
  <2>3. replies' \in [Caller -> Seq(Answer)]
    <3>1. CASE OnResponse(c)
      BY <3>1, TypeReplies
    <3>2. CASE ~OnResponse(c)
      <4>1. UNCHANGED replies
        BY <1>3, <3>2 DEF CallerStep, Proceeds, Refused, Call, CheckPasses, CheckFinds404,
           CheckOnClosed, NoticesLoss, Reconnect, ReconnectFails, Returns, RaisesRemote, TimesOut,
           Cool, brokerVars
      <4> QED
        BY <4>1 DEF BrokerTypes
    <3> QED
      BY <3>1, <3>2
  <2> QED
    BY <2>1, <2>2, <2>3 DEF BrokerTypes, ServerTypes, serverVars
<1> QED
  BY <1>1, <1>2, <1>3

\* The history gets one more execution of call k of c.
Ran(c, k) == runs' = [runs EXCEPT ![c][k] = @ + 1]

LEMMA RanEffect ==
    ASSUME runs \in [Caller -> [CallNumber -> Nat]], NEW c \in Caller, NEW k \in CallNumber, Ran(c, k)
    PROVE  /\ runs' \in [Caller -> [CallNumber -> Nat]]
           /\ runs'[c][k] = runs[c][k] + 1
           /\ \A d \in Caller, j \in CallNumber : d # c \/ j # k => runs'[d][j] = runs[d][j]
<1> DEFINE row == [runs[c] EXCEPT ![k] = @ + 1]
<1>1. runs[c] \in [CallNumber -> Nat] /\ runs' = [runs EXCEPT ![c] = row]
  BY DEF Ran
<1>2. /\ row \in [CallNumber -> Nat] /\ row[k] = runs[c][k] + 1
      /\ \A j \in CallNumber : j # k => row[j] = runs[c][j]
  BY <1>1
<1> HIDE DEF row
<1>3. /\ runs' \in [Caller -> [CallNumber -> Nat]] /\ runs'[c] = row
      /\ \A d \in Caller : d # c => runs'[d] = runs[d]
  BY <1>1, <1>2
<1> QED
  BY <1>2, <1>3

\* What each step of the service does, for the proofs below.
LEMMA DeliverEffect ==
    ASSUME TypeInv, Deliver
    PROVE  /\ lpc = "idle" /\ lpc' = "run" /\ requests \in Seq(Message) /\ requests # <<>>
           /\ Head(requests) \in Message /\ handling' = Head(requests)
           /\ requests' = Tail(requests) /\ requests' \in Seq(Message)
           /\ UNCHANGED <<declared, replies, published, result, served, runs, crashes, faults>>
<1>1. requests \in Seq(Message) /\ requests # <<>>
  BY DEF Deliver, TypeInv, BrokerTypes
<1>2. Head(requests) \in Message /\ Tail(requests) \in Seq(Message)
  BY <1>1
<1> QED
  BY <1>1, <1>2 DEF Deliver, ListenerStep

LEMMA MessageParts ==
    ASSUME NEW m \in Message
    PROVE  m.caller \in Caller /\ m.call \in CallNumber /\ m.attempt \in 1..MaxRetries /\ m.epoch \in Nat
  BY DEF Message

LEMMA ExecuteEffect ==
    ASSUME TypeInv, Execute
    PROVE  /\ lpc = "run" /\ lpc' = "executed" /\ handling \in Message /\ handling' = handling
           /\ Ran(handling.caller, handling.call) /\ result' \in Kind
           /\ served' = served \cup {[msg |-> handling, kind |-> result']}
           /\ UNCHANGED <<declared, requests, replies, published, crashes, faults>>
  BY DEF Execute, ListenerStep, TypeInv, ServerTypes, brokerVars, Kind, Ran

LEMMA ReplyEffect ==
    ASSUME TypeInv, Reply
    PROVE  /\ lpc = "acked" /\ lpc' = "idle" /\ handling \in Message /\ result \in Kind
           /\ [msg |-> handling, kind |-> result] \in served
           /\ handling' = Nobody /\ result' = "none"
           /\ \/ UNCHANGED replies
              \/ replies' = [replies EXCEPT ![handling.caller] =
                    Append(@, [call |-> handling.call, kind |-> result])]
           /\ UNCHANGED <<declared, requests, published, served, runs, crashes, faults>>
  BY DEF Reply, ListenerStep, TypeInv, ServerTypes

LEMMA CrashEffect ==
    ASSUME TypeInv, ListenerCrashes
    PROVE  /\ lpc # "down" /\ lpc' = "down" /\ handling' = Nobody /\ result' = "none"
           /\ crashes \in Nat /\ faults \in Nat
           /\ faults' = faults + 1 /\ faults < MaxFaults
           /\ UNCHANGED <<declared, replies, published, served, runs>>
           /\ lpc \in {"run", "executed"} => /\ handling \in Message /\ crashes' = crashes + 1
                                             /\ requests' = <<handling>> \o requests
           /\ lpc \notin {"run", "executed"} => UNCHANGED <<crashes, requests>>
<1>1. requests \in Seq(Message) /\ crashes \in Nat /\ faults \in Nat
  BY RpcAssumption DEF TypeInv, BrokerTypes, ServerTypes
<1>2. <<>> \o requests = requests
  BY <1>1
<1>3. lpc \in {"run", "executed"} => handling \in Message
  BY DEF TypeInv, ServerTypes
<1> QED
  BY <1>1, <1>2, <1>3 DEF ListenerCrashes, GivenBack, Fault

LEMMA TypeService ==
    ASSUME TypeInv, Service
    PROVE  BrokerTypes' /\ ServerTypes'
<1>1. CASE ListenerStarts
  BY <1>1 DEF ListenerStarts, ListenerStep, TypeInv, BrokerTypes, ServerTypes
<1>2. CASE Deliver
  BY <1>2, DeliverEffect DEF TypeInv, BrokerTypes, ServerTypes
<1>3. CASE Execute
  <2>1. handling.caller \in Caller /\ handling.call \in CallNumber
    BY <1>3, ExecuteEffect, MessageParts
  <2>2. runs' \in [Caller -> [CallNumber -> Nat]]
    BY <1>3, <2>1, ExecuteEffect, RanEffect DEF TypeInv, ServerTypes
  <2>3. [msg |-> handling, kind |-> result'] \in Served
    BY <1>3, ExecuteEffect DEF Served
  <2>4. served' \subseteq Served
    BY <1>3, <2>3, ExecuteEffect DEF TypeInv, ServerTypes
  <2>5. [msg |-> handling', kind |-> result'] \in served'
    BY <1>3, ExecuteEffect
  <2>6. BrokerTypes'
    BY <1>3, ExecuteEffect DEF TypeInv, BrokerTypes
  <2> QED
    BY <1>3, <2>2, <2>4, <2>5, <2>6, ExecuteEffect DEF TypeInv, ServerTypes
<1>4. CASE Ack
  BY <1>4 DEF Ack, ListenerStep, TypeInv, BrokerTypes, ServerTypes, brokerVars
<1>5. CASE Reply
  <2>1. handling.caller \in Caller /\ [call |-> handling.call, kind |-> result] \in Answer
    BY <1>5, ReplyEffect, MessageParts DEF Answer
  <2>2. replies \in [Caller -> Seq(Answer)]
    BY DEF TypeInv, BrokerTypes
  <2>3. Append(replies[handling.caller], [call |-> handling.call, kind |-> result]) \in Seq(Answer)
    BY <2>1, <2>2
  <2>4. replies' \in [Caller -> Seq(Answer)]
    BY <1>5, <2>1, <2>2, <2>3, ReplyEffect
  <2>5. UNCHANGED <<declared, requests, published, served, runs, crashes, faults>>
    BY <1>5, ReplyEffect
  <2>6. BrokerTypes'
    BY <2>4, <2>5 DEF TypeInv, BrokerTypes
  <2> QED
    BY <1>5, <2>5, <2>6, ReplyEffect DEF TypeInv, ServerTypes
<1>6. CASE ListenerCrashes
  <2>1. requests \in Seq(Message) /\ crashes \in 0..faults /\ faults \in 0..MaxFaults /\ MaxFaults \in Nat
    BY RpcAssumption DEF TypeInv, BrokerTypes, ServerTypes
  <2>2. requests' \in Seq(Message)
    <3>1. CASE lpc \in {"run", "executed"}
      <4>1. handling \in Message /\ requests' = <<handling>> \o requests
        BY <1>6, <3>1, CrashEffect
      <4> QED
        BY <2>1, <4>1
    <3> QED
      BY <1>6, <2>1, <3>1, CrashEffect
  <2>3. crashes' \in 0..faults' /\ faults' \in 0..MaxFaults
    BY <1>6, <2>1, CrashEffect
  <2> QED
    BY <1>6, <2>2, <2>3, CrashEffect DEF TypeInv, BrokerTypes, ServerTypes
<1> QED
  BY <1>1, <1>2, <1>3, <1>4, <1>5, <1>6 DEF Service, ListenerWorks

LEMMA TypeInit == RpcInit => TypeInv
<1> SUFFICES ASSUME RpcInit PROVE TypeInv
  OBVIOUS
<1>1. CallTypes /\ LinkTypes /\ BreakerTypes
  <2>1. CallTypes
    BY RpcAssumption DEF RpcInit, CallTypes, Place
  <2> QED
    BY <2>1 DEF RpcInit, LinkTypes, BreakerTypes
<1>2. BrokerTypes
  <2>1. IsFiniteSet(published) /\ published \subseteq Message
    BY FS_EmptySet DEF RpcInit
  <2>2. <<>> \in Seq(Answer) /\ <<>> \in Seq(Message)
    OBVIOUS
  <2> QED
    BY <2>1, <2>2 DEF RpcInit, BrokerTypes
<1>3. ServerTypes
  BY RpcAssumption DEF RpcInit, ServerTypes
<1> QED
  BY <1>1, <1>2, <1>3 DEF TypeInv

LEMMA TypeStep == TypeInv /\ [RpcNext]_rpcVars => TypeInv'
<1> SUFFICES ASSUME TypeInv, [RpcNext]_rpcVars PROVE TypeInv'
  OBVIOUS
<1>1. ASSUME NEW c \in Caller, CallerStep(c) PROVE CallTypes' /\ LinkTypes' /\ BreakerTypes'
  BY <1>1, TypeCall, TypeMoves, TypeAttempts, TypeReplies, TypeOthers DEF CallerStep, Proceeds
<1>2. ASSUME NEW c \in Caller, CallerStep(c) PROVE BrokerTypes' /\ ServerTypes'
  BY <1>2, TypeBroker
<1>3. CASE Service
  <2>1. UNCHANGED <<callVars, linkVars, response, breakerVars>>
    BY <1>3, ServiceFrame
  <2>2. CallTypes' /\ LinkTypes' /\ BreakerTypes'
    BY <2>1 DEF TypeInv, CallTypes, LinkTypes, BreakerTypes, callVars, linkVars, breakerVars
  <2> QED
    BY <1>3, <2>2, TypeService DEF TypeInv
<1>4. CASE UNCHANGED rpcVars
  BY <1>4 DEF rpcVars, callVars, linkVars, breakerVars, brokerVars, serverVars, TypeInv, CallTypes,
              LinkTypes, BreakerTypes, BrokerTypes, ServerTypes
<1> QED
  BY <1>1, <1>2, <1>3, <1>4 DEF RpcNext, Service, TypeInv

LEMMA TypeInvCorrect == RpcSpec => []TypeInv
<1>1. RpcInit => TypeInv
  BY TypeInit
<1>2. TypeInv /\ [RpcNext]_rpcVars => TypeInv'
  BY TypeStep
<1> QED
  BY <1>1, <1>2, PTL DEF RpcSpec

\* The variables keep their types: the attempts and the crashes their limits, and
\* the queues their messages.
THEOREM RpcTypeOKCorrect == RpcSpec => []RpcTypeOK
<1>1. TypeInv => RpcTypeOK
  BY DEF TypeInv, RpcTypeOK, CallTypes, LinkTypes, BreakerTypes, BrokerTypes, ServerTypes, Place
<1> QED
  BY <1>1, TypeInvCorrect, PTL

-----------------------------------------------------------------------------
(* The channel.                                                             *)

\* A step of a caller is nothing to another one.
LEMMA Elsewhere ==
    ASSUME TypeInv, NEW c \in Caller, NEW d \in Caller, d # c, CallerStep(c)
    PROVE  /\ pc'[d] = pc[d] /\ corrId'[d] = corrId[d] /\ attempt'[d] = attempt[d]
           /\ outcome'[d] = outcome[d] /\ response'[d] = response[d] /\ replies'[d] = replies[d]
           /\ channel'[d] = channel[d] /\ cause'[d] = cause[d]
           /\ breaker'[d] = breaker[d] /\ failures'[d] = failures[d] /\ streak'[d] = streak[d]
<1>1. /\ pc \in [Caller -> Place] /\ corrId \in [Caller -> {0} \cup CallNumber]
      /\ attempt \in [Caller -> 0..MaxRetries] /\ response \in [Caller -> Answer \cup {Nobody}]
      /\ outcome \in [Caller -> Kind \cup {"none", "refused", "failed", "broken"}]
      /\ replies \in [Caller -> Seq(Answer)]
  BY DEF TypeInv, CallTypes, BrokerTypes
<1>2. /\ channel \in [Caller -> {"open", "lost", "closed"}]
      /\ cause \in [Caller -> Reasons \cup {"none", "not reconnected yet"}]
      /\ breaker \in [Caller -> {"closed", "open", "half-open"}] /\ failures \in [Caller -> Nat]
      /\ streak \in [Caller -> Nat]
  BY DEF TypeInv, LinkTypes, BreakerTypes
<1>3. ASSUME NEW from, NEW to, Again(c, from, to)
      PROVE  /\ pc'[d] = pc[d] /\ corrId'[d] = corrId[d] /\ attempt'[d] = attempt[d]
             /\ outcome'[d] = outcome[d] /\ response'[d] = response[d]
             /\ breaker'[d] = breaker[d] /\ failures'[d] = failures[d] /\ streak'[d] = streak[d]
  BY <1>1, <1>3 DEF Again, Step, breakerVars
<1>4. ASSUME RecordSuccess(c) \/ RecordFailure(c)
      PROVE  breaker'[d] = breaker[d] /\ failures'[d] = failures[d] /\ streak'[d] = streak[d]
  BY <1>2, <1>4 DEF RecordSuccess, RecordFailure
<1>5. ASSUME NEW from, GiveUp(c, from)
      PROVE  /\ pc'[d] = pc[d] /\ corrId'[d] = corrId[d] /\ attempt'[d] = attempt[d]
             /\ outcome'[d] = outcome[d] /\ response'[d] = response[d]
             /\ breaker'[d] = breaker[d] /\ failures'[d] = failures[d] /\ streak'[d] = streak[d]
  BY <1>1, <1>4, <1>5 DEF GiveUp, Step
<1>6. ASSUME NEW from, NEW how, Raise(c, from, how)
      PROVE  /\ pc'[d] = pc[d] /\ corrId'[d] = corrId[d] /\ attempt'[d] = attempt[d]
             /\ outcome'[d] = outcome[d]
             /\ breaker'[d] = breaker[d] /\ failures'[d] = failures[d] /\ streak'[d] = streak[d]
  BY <1>1, <1>6 DEF Raise, Step, breakerVars
<1>7. ASSUME NEW why, Close(c, why) PROVE channel'[d] = channel[d] /\ cause'[d] = cause[d]
  BY <1>2, <1>7 DEF Close
<1>8. CASE Refused(c) \/ Call(c) \/ CheckPasses(c) \/ Publish(c)
  BY <1>1, <1>2, <1>8 DEF Refused, Call, CheckPasses, Publish, Step, linkVars, breakerVars, brokerVars
<1>9. CASE CheckFinds404(c)
  BY <1>3, <1>5, <1>7, <1>9 DEF CheckFinds404, brokerVars
<1>10. CASE CheckOnClosed(c) \/ RaisesRemote(c)
  BY <1>6, <1>10 DEF CheckOnClosed, RaisesRemote, linkVars, brokerVars
<1>11. CASE NoticesLoss(c)
  BY <1>3, <1>5, <1>7, <1>11 DEF NoticesLoss, brokerVars
<1>12. CASE Reconnect(c)
  BY <1>1, <1>2, <1>12 DEF Reconnect, Step, breakerVars, brokerVars
<1>13. CASE ReconnectFails(c)
  BY <1>1, <1>7, <1>13 DEF ReconnectFails, Step, breakerVars, brokerVars
<1>14. CASE Returns(c)
  BY <1>1, <1>4, <1>14 DEF Returns, Step, linkVars, brokerVars
<1>15. CASE TimesOut(c)
  BY <1>3, <1>5, <1>15 DEF TimesOut, linkVars, brokerVars
<1>16. CASE OnResponse(c)
  BY <1>1, <1>16 DEF OnResponse, callVars, linkVars, breakerVars
<1>17. CASE Cool(c)
  BY <1>17 DEF Cool, callVars, linkVars, brokerVars
<1>18. CASE ConnectionLost(c)
  BY <1>1, <1>2, <1>18 DEF ConnectionLost, callVars, breakerVars
<1> QED
  BY <1>8, <1>9, <1>10, <1>11, <1>12, <1>13, <1>14, <1>15, <1>16, <1>17, <1>18 DEF CallerStep, Proceeds

\* A closed channel has a reason, or will be opened before the next attempt.
ChannelAt(c) == channel[c] = "closed" =>
    \/ cause[c] \in Reasons
    \/ cause[c] = "not reconnected yet" /\ pc[c] = "reconnect"

ChannelInv == \A c \in Caller : ChannelAt(c)

LEMMA ChannelCaller ==
    ASSUME TypeInv, ChannelInv, NEW c \in Caller, CallerStep(c)
    PROVE  ChannelAt(c)'
<1>1. /\ pc \in [Caller -> Place] /\ channel \in [Caller -> {"open", "lost", "closed"}]
      /\ cause \in [Caller -> Reasons \cup {"none", "not reconnected yet"}] /\ ChannelAt(c)
  BY DEF TypeInv, CallTypes, LinkTypes, ChannelInv
<1>2. ASSUME NEW why, Close(c, why) PROVE cause'[c] = why
  BY <1>1, <1>2 DEF Close
<1>3. CASE CheckFinds404(c) \/ ReconnectFails(c)
  <2>1. Close(c, "missing queue") \/ Close(c, "reconnection failed")
    BY <1>3 DEF CheckFinds404, ReconnectFails
  <2> QED
    BY <1>2, <2>1 DEF ChannelAt, Reasons
<1>4. CASE NoticesLoss(c)
  <2>1. CASE Again(c, pc[c], "reconnect") /\ Close(c, "not reconnected yet")
    <3>1. pc'[c] = "reconnect"
      BY <1>1, <2>1 DEF Again, Step
    <3> QED
      BY <1>2, <2>1, <3>1 DEF ChannelAt
  <2>2. CASE Close(c, "last attempt")
    BY <1>2, <2>2 DEF ChannelAt, Reasons
  <2> QED
    BY <1>4, <2>1, <2>2 DEF NoticesLoss
<1>5. CASE Reconnect(c) \/ ConnectionLost(c)
  <2>1. channel'[c] = "open" \/ channel'[c] = "lost"
    BY <1>1, <1>5 DEF Reconnect, ConnectionLost
  <2> QED
    BY <2>1 DEF ChannelAt
<1>6. CASE Refused(c) \/ OnResponse(c) \/ Cool(c)
  BY <1>1, <1>6 DEF ChannelAt, Refused, OnResponse, Cool, callVars, linkVars
<1>7. CASE Call(c) \/ CheckPasses(c) \/ CheckOnClosed(c) \/ Publish(c) \/ Returns(c) \/ RaisesRemote(c)
           \/ TimesOut(c)
  <2>1. UNCHANGED <<channel, cause>>
    BY <1>7 DEF Call, CheckPasses, CheckOnClosed, Publish, Returns, RaisesRemote, TimesOut, linkVars
  <2>2. pc[c] # "reconnect"
    BY <1>7 DEF Call, CheckPasses, CheckOnClosed, Publish, Returns, RaisesRemote, TimesOut, Step, Raise,
                Again, GiveUp
  <2> QED
    BY <1>1, <2>1, <2>2 DEF ChannelAt
<1> QED
  BY <1>3, <1>4, <1>5, <1>6, <1>7 DEF CallerStep, Proceeds

LEMMA ChannelStep == TypeInv /\ ChannelInv /\ [RpcNext]_rpcVars => ChannelInv'
<1> SUFFICES ASSUME TypeInv, ChannelInv, [RpcNext]_rpcVars, NEW d \in Caller PROVE ChannelAt(d)'
  BY DEF ChannelInv
<1>1. ASSUME NEW c \in Caller, CallerStep(c), c # d PROVE ChannelAt(d)'
  BY <1>1, Elsewhere DEF ChannelInv, ChannelAt
<1>2. ASSUME CallerStep(d) PROVE ChannelAt(d)'
  BY <1>2, ChannelCaller
<1>3. CASE Service \/ UNCHANGED rpcVars
  <2>1. UNCHANGED <<callVars, linkVars>>
    BY <1>3, ServiceFrame DEF rpcVars
  <2> QED
    BY <2>1 DEF ChannelInv, ChannelAt, callVars, linkVars
<1> QED
  BY <1>1, <1>2, <1>3 DEF RpcNext, Service

\* Every caller that is idle with a closed channel met one of the three events of
\* README.rst:233 that its calls do not repair.
THEOREM BrokenForReasonCorrect == RpcSpec => []BrokenForReason
<1>1. RpcInit => ChannelInv
  BY DEF RpcInit, ChannelInv, ChannelAt
<1>2. TypeInv /\ ChannelInv /\ [RpcNext]_rpcVars => ChannelInv'
  BY ChannelStep
<1>3. ChannelInv => BrokenForReason
  BY DEF ChannelInv, ChannelAt, BrokenForReason, Reasons
<1> QED
  BY <1>1, <1>2, <1>3, TypeInvCorrect, PTL DEF RpcSpec

-----------------------------------------------------------------------------
(* The circuit breaker.                                                     *)

\* The breaker counts no failure that a success has followed, and has left "closed"
\* only after as many as the threshold.
BreakerAt(c) ==
    /\ failures[c] <= streak[c]
    /\ breaker[c] # "closed" => streak[c] >= Threshold
    /\ outcome[c] = "refused" => streak[c] >= Threshold

BreakerInv == \A c \in Caller : BreakerAt(c)

LEMMA FailureCounts ==
    ASSUME TypeInv, BreakerInv, NEW c \in Caller, RecordFailure(c)
    PROVE  /\ failures'[c] <= streak'[c]
           /\ breaker'[c] # "closed" => streak'[c] >= Threshold
<1>1. /\ failures[c] \in Nat /\ streak[c] \in Nat /\ Threshold \in Nat
      /\ failures[c] <= streak[c] /\ (breaker[c] # "closed" => streak[c] >= Threshold)
  BY RpcAssumption DEF TypeInv, BreakerTypes, BreakerInv, BreakerAt
<1>2. /\ failures'[c] = failures[c] + 1 /\ streak'[c] = streak[c] + 1
      /\ breaker'[c] = IF breaker[c] = "half-open" \/ failures[c] + 1 >= Threshold
                       THEN "open" ELSE breaker[c]
  BY DEF RecordFailure, TypeInv, BreakerTypes
<1>3. CASE failures[c] + 1 >= Threshold
  BY <1>1, <1>2, <1>3
<1>4. CASE failures[c] + 1 < Threshold
  <2>1. breaker'[c] # "closed" => breaker[c] # "closed"
    BY <1>1, <1>2, <1>4
  <2> QED
    BY <1>1, <1>2, <2>1
<1> QED
  BY <1>1, <1>3, <1>4

\* An attempt that is followed by another one, or by the end of the call.
LEMMA BreakerAttempts ==
    ASSUME TypeInv, BreakerInv, NEW c \in Caller,
           (\E from, to \in Place : Again(c, from, to)) \/ (\E from \in Place : GiveUp(c, from))
    PROVE  BreakerAt(c)'
<1>1. CASE \E from, to \in Place : Again(c, from, to)
  <2>1. UNCHANGED <<outcome, breaker, failures, streak>>
    BY <1>1 DEF Again, breakerVars
  <2> QED
    BY <2>1 DEF BreakerInv, BreakerAt
<1>2. CASE \E from \in Place : GiveUp(c, from)
  <2>1. RecordFailure(c) /\ outcome'[c] = "failed"
    BY <1>2 DEF GiveUp, TypeInv, CallTypes
  <2> QED
    BY <2>1, FailureCounts DEF BreakerAt
<1> QED
  BY <1>1, <1>2

LEMMA BreakerCaller ==
    ASSUME TypeInv, BreakerInv, NEW c \in Caller, CallerStep(c)
    PROVE  BreakerAt(c)'
<1>1. /\ pc \in [Caller -> Place]
      /\ outcome \in [Caller -> Kind \cup {"none", "refused", "failed", "broken"}] /\ BreakerAt(c)
  BY DEF TypeInv, CallTypes, BreakerInv
<1>2. /\ breaker \in [Caller -> {"closed", "open", "half-open"}]
      /\ failures \in [Caller -> Nat] /\ streak \in [Caller -> Nat]
  BY DEF TypeInv, BreakerTypes
<1>3. CASE Refused(c)
  BY <1>1, <1>3 DEF Refused, IsOpen, BreakerAt, breakerVars
<1>4. CASE Call(c)
  <2>1. /\ outcome'[c] = "none" /\ UNCHANGED <<failures, streak>>
        /\ breaker'[c] # "closed" => breaker[c] # "closed"
    BY <1>1, <1>2, <1>4 DEF Call
  <2> QED
    BY <1>1, <2>1 DEF BreakerAt
<1>5. CASE Returns(c)
  <2>1. /\ outcome'[c] = "success" /\ breaker'[c] = "closed" /\ failures'[c] = 0 /\ streak'[c] = 0
    BY <1>1, <1>2, <1>5 DEF Returns, RecordSuccess
  <2> QED
    BY <2>1 DEF BreakerAt
<1>6. CASE CheckFinds404(c) \/ NoticesLoss(c) \/ TimesOut(c)
  <2>1. (\E from, to \in Place : Again(c, from, to)) \/ (\E from \in Place : GiveUp(c, from))
    <3>1. /\ pc[c] \in Place
          /\ {"check", "wait", "reconnect"} \subseteq Place
      BY <1>1 DEF Place
    <3> QED
      BY <1>6, <3>1 DEF CheckFinds404, NoticesLoss, TimesOut
  <2> QED
    BY <2>1, BreakerAttempts
<1>7. CASE CheckOnClosed(c) \/ RaisesRemote(c)
  <2>1. UNCHANGED <<breaker, failures, streak>> /\ outcome'[c] \in {"broken", "error"}
    BY <1>1, <1>7 DEF CheckOnClosed, RaisesRemote, Raise, breakerVars
  <2> QED
    BY <1>1, <2>1 DEF BreakerAt
<1>8. CASE CheckPasses(c) \/ Publish(c) \/ Reconnect(c) \/ ReconnectFails(c)
           \/ OnResponse(c) \/ Cool(c) \/ ConnectionLost(c)
  <2>1. UNCHANGED <<breaker, failures, streak, outcome>>
    BY <1>8 DEF CheckPasses, Publish, Reconnect, ReconnectFails, OnResponse, Cool, ConnectionLost,
                breakerVars, callVars
  <2> QED
    BY <1>1, <2>1 DEF BreakerAt
<1> QED
  BY <1>3, <1>4, <1>5, <1>6, <1>7, <1>8 DEF CallerStep, Proceeds

LEMMA BreakerStep == TypeInv /\ BreakerInv /\ [RpcNext]_rpcVars => BreakerInv'
<1> SUFFICES ASSUME TypeInv, BreakerInv, [RpcNext]_rpcVars, NEW d \in Caller PROVE BreakerAt(d)'
  BY DEF BreakerInv
<1>1. ASSUME NEW c \in Caller, CallerStep(c), c # d PROVE BreakerAt(d)'
  BY <1>1, Elsewhere DEF BreakerInv, BreakerAt
<1>2. ASSUME CallerStep(d) PROVE BreakerAt(d)'
  BY <1>2, BreakerCaller
<1>3. CASE Service \/ UNCHANGED rpcVars
  <2>1. UNCHANGED <<outcome, breaker, failures, streak>>
    BY <1>3, ServiceFrame DEF rpcVars, callVars, breakerVars
  <2> QED
    BY <2>1 DEF BreakerInv, BreakerAt
<1> QED
  BY <1>1, <1>2, <1>3 DEF RpcNext, Service

\* README.rst:232: whoever finds the breaker open, or is refused, has failed
\* Threshold times since a call of his succeeded.
THEOREM OpenForReasonCorrect == RpcSpec => []OpenForReason
<1>1. RpcInit => BreakerInv
  <2> SUFFICES ASSUME RpcInit, NEW c \in Caller PROVE BreakerAt(c)
    BY DEF BreakerInv
  <2>1. failures[c] = 0 /\ streak[c] = 0 /\ breaker[c] = "closed" /\ outcome[c] = "none"
    BY DEF RpcInit
  <2> QED
    BY <2>1 DEF BreakerAt
<1>2. TypeInv /\ BreakerInv /\ [RpcNext]_rpcVars => BreakerInv'
  BY BreakerStep
<1>3. BreakerInv => OpenForReason
  BY DEF BreakerInv, BreakerAt, OpenForReason
<1> QED
  BY <1>1, <1>2, <1>3, TypeInvCorrect, PTL DEF RpcSpec

-----------------------------------------------------------------------------
(* Answers.                                                                 *)

\* The service gave this answer to this call.
Said(c, k, kind) == \E a \in served : a.msg.caller = c /\ a.msg.call = k /\ a.kind = kind

\* Whatever lies in a reply queue or was taken out of it, the service has said.
AnswerAt(c) ==
    /\ \A i \in 1..Len(replies[c]) : Said(c, replies[c][i].call, replies[c][i].kind)
    /\ response[c] # Nobody => Said(c, corrId[c], response[c].kind)
    /\ outcome[c] \in Kind => Said(c, corrId[c], outcome[c])

AnswerInv == \A c \in Caller : AnswerAt(c)

LEMMA SaidStays ==
    ASSUME TypeInv, [RpcNext]_rpcVars
    PROVE  \A c, k, kind : Said(c, k, kind) => Said(c, k, kind)'
<1>1. served \subseteq served'
  <2>1. ASSUME NEW c \in Caller, CallerStep(c) PROVE UNCHANGED served
    BY <2>1, CallerFrame DEF serverVars
  <2>2. CASE Service
    <3>1. CASE Execute
      BY <3>1, ExecuteEffect
    <3>2. CASE ~Execute
      BY <2>2, <3>2 DEF Service, ListenerWorks, ListenerStarts, Deliver, Ack, Reply, ListenerCrashes
    <3> QED
      BY <3>1, <3>2
  <2>3. CASE UNCHANGED rpcVars
    BY <2>3 DEF rpcVars, serverVars
  <2> QED
    BY <2>1, <2>2, <2>3 DEF RpcNext, Service
<1> QED
  BY <1>1 DEF Said

\* A queue that loses its first answer, or all of them.
LEMMA RepliesTaken ==
    ASSUME TypeInv, AnswerInv, NEW c \in Caller, OnResponse(c)
    PROVE  AnswerAt(c)'
<1>1. /\ replies[c] \in Seq(Answer) /\ replies[c] # <<>> /\ replies'[c] = Tail(replies[c])
      /\ response'[c] = IF Matches(c, Head(replies[c])) THEN Head(replies[c]) ELSE response[c]
      /\ UNCHANGED <<corrId, outcome, served>>
  BY DEF OnResponse, TypeInv, BrokerTypes, CallTypes, callVars, serverVars
<1>2. /\ Len(replies[c]) \in Nat \ {0} /\ Head(replies[c]) = replies[c][1]
      /\ Len(replies'[c]) = Len(replies[c]) - 1
      /\ \A i \in 1..Len(replies'[c]) : i + 1 \in 1..Len(replies[c]) /\ replies'[c][i] = replies[c][i + 1]
  BY <1>1
<1>3. AnswerAt(c) /\ \A k, kind : Said(c, k, kind)' <=> Said(c, k, kind)
  BY <1>1 DEF AnswerInv, Said
<1>4. \A i \in 1..Len(replies'[c]) : Said(c, replies'[c][i].call, replies'[c][i].kind)
  BY <1>2, <1>3 DEF AnswerAt
<1>5. response'[c] # Nobody => Said(c, corrId[c], response'[c].kind)
  <2>1. CASE Matches(c, Head(replies[c]))
    <3>1. 1 \in 1..Len(replies[c])
      BY <1>2
    <3>2. Said(c, replies[c][1].call, replies[c][1].kind)
      BY <1>3, <3>1 DEF AnswerAt
    <3> QED
      BY <1>1, <1>2, <2>1, <3>2 DEF Matches
  <2>2. CASE ~Matches(c, Head(replies[c]))
    BY <1>1, <1>3, <2>2 DEF AnswerAt
  <2> QED
    BY <2>1, <2>2
<1>6. outcome'[c] \in Kind => Said(c, corrId'[c], outcome'[c])
  BY <1>1, <1>3 DEF AnswerAt
<1> QED
  BY <1>1, <1>3, <1>4, <1>5, <1>6 DEF AnswerAt

LEMMA AnswerAttempts ==
    ASSUME TypeInv, AnswerInv, NEW c \in Caller,
           (\E from, to \in Place : Again(c, from, to)) \/ (\E from \in Place : GiveUp(c, from)),
           UNCHANGED <<replies, served>>
    PROVE  AnswerAt(c)'
<1>1. AnswerAt(c) /\ \A k, kind : Said(c, k, kind)' <=> Said(c, k, kind)
  BY DEF AnswerInv, Said
<1>2. CASE \E from, to \in Place : Again(c, from, to)
  <2>1. response'[c] = Nobody /\ UNCHANGED <<corrId, outcome>>
    BY <1>2 DEF Again, TypeInv, CallTypes
  <2> QED
    BY <1>1, <2>1 DEF AnswerAt
<1>3. CASE \E from \in Place : GiveUp(c, from)
  <2>1. outcome'[c] = "failed" /\ UNCHANGED <<corrId, response>>
    BY <1>3 DEF GiveUp, TypeInv, CallTypes
  <2> QED
    BY <1>1, <2>1 DEF AnswerAt, Kind
<1> QED
  BY <1>2, <1>3

LEMMA AnswerCaller ==
    ASSUME TypeInv, AnswerInv, NEW c \in Caller, CallerStep(c)
    PROVE  AnswerAt(c)'
<1>1. UNCHANGED served
  BY CallerFrame DEF serverVars
<1>2. AnswerAt(c) /\ \A k, kind : Said(c, k, kind)' <=> Said(c, k, kind)
  BY <1>1 DEF AnswerInv, Said
<1>3. /\ pc \in [Caller -> Place] /\ corrId \in [Caller -> {0} \cup CallNumber]
      /\ outcome \in [Caller -> Kind \cup {"none", "refused", "failed", "broken"}]
      /\ response \in [Caller -> Answer \cup {Nobody}]
  BY DEF TypeInv, CallTypes
<1>4. CASE Refused(c)
  <2>1. outcome'[c] = "refused" /\ UNCHANGED <<corrId, response, replies>>
    BY <1>3, <1>4 DEF Refused, brokerVars
  <2> QED
    BY <1>2, <2>1 DEF AnswerAt, Kind
<1>5. CASE Call(c)
  <2>1. outcome'[c] = "none" /\ response'[c] = Nobody /\ UNCHANGED replies
    BY <1>3, <1>5 DEF Call, brokerVars
  <2> QED
    BY <1>2, <2>1 DEF AnswerAt, Kind
<1>6. CASE CheckFinds404(c) \/ NoticesLoss(c) \/ TimesOut(c)
  <2>1. UNCHANGED replies
    BY <1>6 DEF CheckFinds404, NoticesLoss, TimesOut, brokerVars
  <2>2. (\E from, to \in Place : Again(c, from, to)) \/ (\E from \in Place : GiveUp(c, from))
    <3>1. pc[c] \in Place /\ {"check", "wait", "reconnect"} \subseteq Place
      BY <1>3 DEF Place
    <3> QED
      BY <1>6, <3>1 DEF CheckFinds404, NoticesLoss, TimesOut
  <2> QED
    BY <1>1, <2>1, <2>2, AnswerAttempts
<1>7. CASE Returns(c) \/ RaisesRemote(c)
  <2>1. /\ response[c] # Nobody /\ outcome'[c] = response[c].kind
        /\ UNCHANGED <<corrId, response, replies>>
    BY <1>3, <1>7 DEF Returns, RaisesRemote, Raise, brokerVars
  <2> QED
    BY <1>2, <2>1 DEF AnswerAt
<1>8. CASE CheckOnClosed(c)
  <2>1. outcome'[c] = "broken" /\ UNCHANGED <<corrId, response, replies>>
    BY <1>3, <1>8 DEF CheckOnClosed, Raise, brokerVars
  <2> QED
    BY <1>2, <2>1 DEF AnswerAt, Kind
<1>9. CASE ConnectionLost(c)
  <2>1. replies'[c] = <<>> /\ UNCHANGED <<corrId, response, outcome>>
    BY <1>9 DEF ConnectionLost, TypeInv, BrokerTypes, callVars
  <2>2. 1..Len(replies'[c]) = {}
    BY <2>1
  <2> QED
    BY <1>2, <2>1, <2>2 DEF AnswerAt
<1>10. CASE CheckPasses(c) \/ Publish(c) \/ Reconnect(c) \/ ReconnectFails(c) \/ Cool(c)
  <2>1. UNCHANGED <<corrId, response, outcome, replies>>
    BY <1>10 DEF CheckPasses, Publish, Reconnect, ReconnectFails, Cool, callVars, brokerVars
  <2> QED
    BY <1>2, <2>1 DEF AnswerAt
<1>11. CASE OnResponse(c)
  BY <1>11, RepliesTaken
<1> QED
  BY <1>4, <1>5, <1>6, <1>7, <1>8, <1>9, <1>10, <1>11 DEF CallerStep, Proceeds

\* The listener appends an answer it has given to the queue of the caller.
LEMMA AnswerReply ==
    ASSUME TypeInv, AnswerInv, Reply, NEW d \in Caller
    PROVE  \A i \in 1..Len(replies'[d]) : Said(d, replies'[d][i].call, replies'[d][i].kind)
<1>1. /\ replies \in [Caller -> Seq(Answer)] /\ handling.caller \in Caller
      /\ handling \in Message /\ [msg |-> handling, kind |-> result] \in served
  BY ReplyEffect, MessageParts DEF TypeInv, BrokerTypes
<1>2. \A i \in 1..Len(replies[d]) : Said(d, replies[d][i].call, replies[d][i].kind)
  BY DEF AnswerInv, AnswerAt
<1>3. CASE replies'[d] = replies[d]
  BY <1>2, <1>3
<1>4. CASE d = handling.caller /\ replies'[d] = Append(replies[d], [call |-> handling.call, kind |-> result])
  <2>1. Said(d, handling.call, result)
    BY <1>1, <1>4 DEF Said
  <2>2. /\ Len(replies[d]) \in Nat /\ Len(replies'[d]) = Len(replies[d]) + 1
        /\ \A i \in 1..Len(replies[d]) : replies'[d][i] = replies[d][i]
        /\ replies'[d][Len(replies[d]) + 1] = [call |-> handling.call, kind |-> result]
    BY <1>1, <1>4
  <2>3. \A i \in 1..Len(replies'[d]) : i \in 1..Len(replies[d]) \/ i = Len(replies[d]) + 1
    BY <2>2
  <2> QED
    BY <1>2, <2>1, <2>2, <2>3
<1> QED
  BY <1>1, <1>3, <1>4, ReplyEffect

LEMMA AnswerStep == TypeInv /\ AnswerInv /\ [RpcNext]_rpcVars => AnswerInv'
<1> SUFFICES ASSUME TypeInv, AnswerInv, [RpcNext]_rpcVars, NEW d \in Caller PROVE AnswerAt(d)'
  BY DEF AnswerInv
<1>1. AnswerAt(d) /\ \A k, kind : Said(d, k, kind) => Said(d, k, kind)'
  BY SaidStays DEF AnswerInv
<1>2. ASSUME NEW c \in Caller, CallerStep(c), c # d PROVE AnswerAt(d)'
  BY <1>1, <1>2, Elsewhere DEF AnswerAt
<1>3. ASSUME CallerStep(d) PROVE AnswerAt(d)'
  BY <1>3, AnswerCaller
<1>4. CASE Service \/ UNCHANGED rpcVars
  <2>1. UNCHANGED <<corrId, response, outcome>>
    BY <1>4, ServiceFrame DEF rpcVars, callVars
  <2>2. \A i \in 1..Len(replies'[d]) : Said(d, replies'[d][i].call, replies'[d][i].kind)
    <3>1. CASE Reply
      BY <3>1, AnswerReply
    <3>2. CASE ~Reply
      <4>1. UNCHANGED replies
        BY <1>4, <3>2 DEF Service, ListenerWorks, ListenerStarts, Deliver, Execute, Ack,
                          ListenerCrashes, rpcVars, brokerVars
      <4> QED
        BY <1>1, <4>1 DEF AnswerAt
    <3> QED
      BY <3>1, <3>2
  <2> QED
    BY <1>1, <2>1, <2>2 DEF AnswerAt
<1> QED
  BY <1>2, <1>3, <1>4 DEF RpcNext, Service

\* _rpc.py:163: a call never ends with the answer to another call, however many
\* answers come late.
THEOREM AnswerIsForCallCorrect == RpcSpec => []AnswerIsForCall
<1>1. RpcInit => AnswerInv
  <2> SUFFICES ASSUME RpcInit, NEW c \in Caller PROVE AnswerAt(c)
    BY DEF AnswerInv
  <2>1. replies[c] = <<>> /\ response[c] = Nobody /\ outcome[c] = "none"
    BY DEF RpcInit
  <2>2. 1..Len(replies[c]) = {}
    BY <2>1
  <2> QED
    BY <2>1, <2>2 DEF AnswerAt, Kind
<1>2. TypeInv /\ AnswerInv /\ [RpcNext]_rpcVars => AnswerInv'
  BY AnswerStep
<1>3. AnswerInv => AnswerIsForCall
  BY DEF AnswerInv, AnswerAt, AnswerIsForCall, Said
<1> QED
  BY <1>1, <1>2, <1>3, TypeInvCorrect, PTL DEF RpcSpec

-----------------------------------------------------------------------------
(* The queue of the service.                                                *)

Holds(q, m) == \E i \in 1..Len(q) : q[i] = m
Once(q)     == \A i, j \in 1..Len(q) : q[i] = q[j] => i = j

LEMMA TailHolds ==
    ASSUME NEW S, NEW q \in Seq(S), q # <<>>, Once(q)
    PROVE  /\ Once(Tail(q)) /\ ~Holds(Tail(q), Head(q))
           /\ \A m : Holds(q, m) <=> m = Head(q) \/ Holds(Tail(q), m)
<1> DEFINE r == Tail(q)
<1>1. /\ Len(q) \in Nat \ {0} /\ q[1] = Head(q) /\ Len(r) = Len(q) - 1
      /\ \A i \in 1..Len(r) : i + 1 \in 2..Len(q) /\ i + 1 \in 1..Len(q) /\ r[i] = q[i + 1]
  OBVIOUS
<1> HIDE DEF r
<1>2. Once(r)
  <2> SUFFICES ASSUME NEW i \in 1..Len(r), NEW j \in 1..Len(r), r[i] = r[j] PROVE i = j
    BY DEF Once
  <2>1. q[i + 1] = q[j + 1]
    BY <1>1
  <2>2. i + 1 = j + 1
    BY <1>1, <2>1 DEF Once
  <2> QED
    BY <2>2
<1>3. ASSUME NEW i \in 1..Len(r), r[i] = Head(q) PROVE FALSE
  <2>1. i + 1 \in 1..Len(q) /\ 1 \in 1..Len(q) /\ q[i + 1] = q[1] /\ i + 1 # 1
    BY <1>1, <1>3
  <2> QED
    BY <2>1 DEF Once
<1>4. ASSUME NEW m, NEW i \in 1..Len(q), q[i] = m PROVE m = Head(q) \/ Holds(r, m)
  <2>1. CASE i = 1
    BY <1>1, <1>4, <2>1
  <2>2. CASE i # 1
    <3>1. i - 1 \in 1..Len(r) /\ (i - 1) + 1 = i
      BY <1>1, <2>2
    <3>2. r[i - 1] = m
      BY <1>1, <1>4, <3>1
    <3> QED
      BY <3>1, <3>2 DEF Holds
  <2> QED
    BY <2>1, <2>2
<1>5. ASSUME NEW m, NEW i \in 1..Len(r), r[i] = m PROVE Holds(q, m)
  BY <1>1, <1>5 DEF Holds
<1>6. Holds(q, Head(q))
  <2>1. 1 \in 1..Len(q)
    BY <1>1
  <2> QED
    BY <1>1, <2>1 DEF Holds
<1>7. ~Holds(r, Head(q))
  BY <1>3 DEF Holds
<1>8. ASSUME NEW m PROVE Holds(q, m) <=> m = Head(q) \/ Holds(r, m)
  BY <1>4, <1>5, <1>6 DEF Holds
<1> QED
  BY <1>2, <1>7, <1>8 DEF r

LEMMA AppendHolds ==
    ASSUME NEW S, NEW q \in Seq(S), NEW e \in S
    PROVE  /\ \A m : Holds(Append(q, e), m) <=> Holds(q, m) \/ m = e
           /\ Once(q) /\ ~Holds(q, e) => Once(Append(q, e))
<1> DEFINE r == Append(q, e)
<1>1. /\ Len(q) \in Nat /\ Len(r) = Len(q) + 1 /\ r[Len(q) + 1] = e
      /\ \A i \in 1..Len(q) : i \in 1..Len(r) /\ r[i] = q[i]
      /\ \A i \in 1..Len(r) : i \in 1..Len(q) \/ i = Len(q) + 1
      /\ Len(q) + 1 \in 1..Len(r)
  OBVIOUS
<1> HIDE DEF r
<1>2. ASSUME NEW m PROVE Holds(r, m) <=> Holds(q, m) \/ m = e
  <2>1. Holds(r, m) => Holds(q, m) \/ m = e
    BY <1>1 DEF Holds
  <2>2. Holds(q, m) => Holds(r, m)
    BY <1>1 DEF Holds
  <2>3. Holds(r, e)
    BY <1>1 DEF Holds
  <2> QED
    BY <2>1, <2>2, <2>3
<1>3. ASSUME Once(q), ~Holds(q, e) PROVE Once(r)
  <2> SUFFICES ASSUME NEW i \in 1..Len(r), NEW j \in 1..Len(r), r[i] = r[j] PROVE i = j
    BY DEF Once
  <2>1. CASE i \in 1..Len(q) /\ j \in 1..Len(q)
    BY <1>1, <1>3, <2>1 DEF Once
  <2>2. CASE i \in 1..Len(q) /\ j = Len(q) + 1
    BY <1>1, <1>3, <2>2 DEF Holds
  <2>3. CASE i = Len(q) + 1 /\ j \in 1..Len(q)
    BY <1>1, <1>3, <2>3 DEF Holds
  <2> QED
    BY <1>1, <2>1, <2>2, <2>3
<1> QED
  BY <1>2, <1>3 DEF r

LEMMA PrependHolds ==
    ASSUME NEW S, NEW q \in Seq(S), NEW e \in S
    PROVE  /\ \A m : Holds(<<e>> \o q, m) <=> Holds(q, m) \/ m = e
           /\ Once(q) /\ ~Holds(q, e) => Once(<<e>> \o q)
<1> DEFINE r == <<e>> \o q
<1>1. /\ Len(q) \in Nat /\ Len(r) = Len(q) + 1 /\ r[1] = e
      /\ \A i \in 1..Len(q) : i + 1 \in 1..Len(r) /\ r[i + 1] = q[i]
      /\ \A i \in 1..Len(r) : i = 1 \/ (i - 1 \in 1..Len(q) /\ (i - 1) + 1 = i)
      /\ 1 \in 1..Len(r)
  OBVIOUS
<1> HIDE DEF r
<1>2. \A i \in 1..Len(r) : i = 1 \/ (i - 1 \in 1..Len(q) /\ r[i] = q[i - 1])
  BY <1>1
<1>3. ASSUME NEW m PROVE Holds(r, m) <=> Holds(q, m) \/ m = e
  <2>1. Holds(r, m) => Holds(q, m) \/ m = e
    BY <1>1, <1>2 DEF Holds
  <2>2. Holds(q, m) => Holds(r, m)
    BY <1>1 DEF Holds
  <2>3. Holds(r, e)
    BY <1>1 DEF Holds
  <2> QED
    BY <2>1, <2>2, <2>3
<1>4. ASSUME Once(q), ~Holds(q, e) PROVE Once(r)
  <2> SUFFICES ASSUME NEW i \in 1..Len(r), NEW j \in 1..Len(r), r[i] = r[j] PROVE i = j
    BY DEF Once
  <2>1. CASE i # 1 /\ j # 1
    <3>1. i - 1 = j - 1
      BY <1>2, <1>4, <2>1 DEF Once
    <3> QED
      BY <3>1
  <2>2. CASE i # 1 /\ j = 1
    BY <1>1, <1>2, <1>4, <2>2 DEF Holds
  <2>3. CASE i = 1 /\ j # 1
    BY <1>1, <1>2, <1>4, <2>3 DEF Holds
  <2> QED
    BY <2>1, <2>2, <2>3
<1> QED
  BY <1>3, <1>4 DEF r

\* A published request belongs to an attempt that its caller has begun, and that is
\* over unless the caller waits for its answer.
Past(m, c) ==
    \/ m.call < corrId[c]
    \/ m.call = corrId[c] /\ m.attempt < attempt[c]
    \/ m.call = corrId[c] /\ m.attempt = attempt[c] /\ pc[c] \in {"wait", "idle"}

PastInv == \A m \in published : Past(m, m.caller)

\* A request is in the queue or with the listener, and not twice.
QueueInv ==
    /\ Once(requests)
    /\ \A m : Holds(requests, m) => m \in published
    /\ lpc \in {"run", "executed"} => handling \in published /\ ~Holds(requests, handling)

\* Whatever was published and not executed is still to be executed.
Waiting(m) == Holds(requests, m) \/ (lpc = "run" /\ m = handling)
CarriedInv == \A m \in published : Executed(m) \/ Waiting(m)

\* A call and its attempt, as numbers.
LEMMA PastNumbers ==
    ASSUME TypeInv
    PROVE  /\ \A c \in Caller : corrId[c] \in Nat /\ attempt[c] \in Nat
           /\ \A m \in published : m \in Message /\ m.caller \in Caller /\ m.call \in Nat /\ m.attempt \in Nat
<1>1. ASSUME NEW c \in Caller PROVE corrId[c] \in Nat /\ attempt[c] \in Nat
  <2>1. corrId[c] \in {0} \cup CallNumber /\ attempt[c] \in 0..MaxRetries
    BY DEF TypeInv, CallTypes
  <2>2. corrId[c] \in Nat
    BY <2>1, CallNumbers
  <2> QED
    BY <2>1, <2>2, RpcAssumption
<1>2. ASSUME NEW m \in published
      PROVE  m \in Message /\ m.caller \in Caller /\ m.call \in Nat /\ m.attempt \in Nat
  <2>1. m \in Message
    BY DEF TypeInv, BrokerTypes
  <2>2. m.caller \in Caller /\ m.call \in CallNumber /\ m.attempt \in 1..MaxRetries
    BY <2>1, MessageParts
  <2>3. m.call \in Nat
    BY <2>2, CallNumbers
  <2> QED
    BY <2>1, <2>2, <2>3, RpcAssumption
<1> QED
  BY <1>1, <1>2

\* A request that is being published is new.
LEMMA PublishIsNew ==
    ASSUME TypeInv, PastInv, NEW c \in Caller, Publish(c)
    PROVE  Request(c) \notin published
<1>1. ASSUME Request(c) \in published PROVE FALSE
  <2>1. Past(Request(c), c) /\ pc[c] = "publish"
    BY <1>1, PublishEffect DEF PastInv
  <2> QED
    BY <2>1, PublishEffect, PastNumbers DEF Past
<1> QED
  BY <1>1

\* What is past stays past while the caller goes on.
LEMMA PastStays ==
    ASSUME TypeInv, NEW c \in Caller, CallerStep(c), NEW m \in published, Past(m, c)
    PROVE  Past(m, c)'
<1>1. /\ m.call \in Nat /\ m.attempt \in Nat /\ corrId[c] \in Nat /\ attempt[c] \in Nat
      /\ pc \in [Caller -> Place] /\ corrId \in [Caller -> {0} \cup CallNumber]
      /\ attempt \in [Caller -> 0..MaxRetries]
  BY PastNumbers DEF TypeInv, CallTypes
<1>2. ASSUME NEW from, NEW to, Again(c, from, to) PROVE Past(m, c)'
  <2>1. attempt'[c] = attempt[c] + 1 /\ corrId'[c] = corrId[c]
    BY <1>1, <1>2 DEF Again
  <2> QED
    BY <1>1, <2>1 DEF Past
<1>3. ASSUME Moves(c, "idle") \/ Moves(c, "wait") PROVE Past(m, c)'
  BY <1>1, <1>3 DEF Moves, Past
<1>4. ASSUME NEW from, GiveUp(c, from) PROVE Past(m, c)'
  <2>1. Moves(c, "idle")
    BY <1>4 DEF GiveUp, Step, Moves
  <2> QED
    BY <1>3, <2>1
<1>5. CASE Call(c)
  <2>1. corrId'[c] = corrId[c] + 1
    BY <1>1, <1>5 DEF Call
  <2> QED
    BY <1>1, <2>1 DEF Past
<1>6. CASE CheckFinds404(c) \/ NoticesLoss(c) \/ TimesOut(c)
  BY <1>2, <1>4, <1>6 DEF CheckFinds404, NoticesLoss, TimesOut
<1>7. CASE CheckOnClosed(c) \/ RaisesRemote(c) \/ Returns(c) \/ Publish(c)
  <2>1. Moves(c, "idle") \/ Moves(c, "wait")
    BY <1>7 DEF CheckOnClosed, RaisesRemote, Returns, Publish, Raise, Step, Moves
  <2> QED
    BY <1>3, <2>1
<1>8. CASE CheckPasses(c) \/ Reconnect(c) \/ ReconnectFails(c)
  <2>1. pc[c] \notin {"wait", "idle"} /\ UNCHANGED <<corrId, attempt>>
    BY <1>8 DEF CheckPasses, Reconnect, ReconnectFails, Step
  <2> QED
    BY <2>1 DEF Past
<1>9. CASE Refused(c) \/ OnResponse(c) \/ Cool(c) \/ ConnectionLost(c)
  <2>1. UNCHANGED <<pc, corrId, attempt>>
    BY <1>9 DEF Refused, OnResponse, Cool, ConnectionLost, callVars
  <2> QED
    BY <2>1 DEF Past
<1> QED
  BY <1>5, <1>6, <1>7, <1>8, <1>9 DEF CallerStep, Proceeds

LEMMA PastStep == TypeInv /\ PastInv /\ [RpcNext]_rpcVars => PastInv'
<1> SUFFICES ASSUME TypeInv, PastInv, [RpcNext]_rpcVars PROVE PastInv'
  OBVIOUS
<1>1. ASSUME NEW c \in Caller, CallerStep(c), NEW m \in published PROVE Past(m, m.caller)'
  <2>1. m.caller \in Caller /\ Past(m, m.caller)
    BY PastNumbers DEF PastInv
  <2>2. CASE m.caller = c
    BY <1>1, <2>1, <2>2, PastStays
  <2>3. CASE m.caller # c
    BY <1>1, <2>1, <2>3, Elsewhere DEF Past
  <2> QED
    BY <2>2, <2>3
<1>2. ASSUME NEW c \in Caller, CallerStep(c) PROVE PastInv'
  <2>1. CASE Publish(c)
    <3>1. /\ published' = published \cup {Request(c)} /\ Request(c).caller = c
          /\ Request(c).call = corrId[c] /\ Request(c).attempt = attempt[c]
          /\ pc' = [pc EXCEPT ![c] = "wait"] /\ UNCHANGED <<corrId, attempt>>
      BY <2>1, PublishEffect
    <3>2. pc'[c] = "wait"
      BY <3>1 DEF TypeInv, CallTypes
    <3>3. ASSUME NEW m, m = Request(c) PROVE Past(m, m.caller)'
      BY <3>1, <3>2, <3>3 DEF Past
    <3> QED
      BY <1>1, <1>2, <3>1, <3>3 DEF PastInv
  <2>2. CASE ~Publish(c)
    BY <1>1, <1>2, <2>2, QueueFrame DEF PastInv
  <2> QED
    BY <2>1, <2>2
<1>3. CASE Service \/ UNCHANGED rpcVars
  <2>1. UNCHANGED <<pc, corrId, attempt>>
    BY <1>3, ServiceFrame DEF rpcVars, callVars
  <2>2. UNCHANGED published
    BY <1>3 DEF Service, ListenerWorks, ListenerStarts, Deliver, Execute, Ack, Reply,
                ListenerCrashes, rpcVars, brokerVars
  <2> QED
    BY <2>1, <2>2 DEF PastInv, Past
<1> QED
  BY <1>2, <1>3 DEF RpcNext, Service

\* What each step does to what is waiting, and to the history of the executions.
Quiet ==
    /\ UNCHANGED <<published, served, runs>> /\ crashes' = crashes
    /\ \A m : Waiting(m)' <=> Waiting(m)

Publishes(m) ==
    /\ m \notin published /\ published' = published \cup {m} /\ m.caller \in Caller
    /\ UNCHANGED <<served, runs, crashes>>
    /\ \A n : Waiting(n)' <=> Waiting(n) \/ n = m

Executes(m) ==
    /\ m \in published /\ Waiting(m) /\ Ran(m.caller, m.call) /\ m \in Message
    /\ UNCHANGED <<published, crashes>> /\ Executed(m)' /\ served \subseteq served'
    /\ \A n : Waiting(n)' <=> Waiting(n) /\ n # m

GivesBack(m) ==
    /\ m \in published /\ UNCHANGED <<published, served, runs>> /\ crashes' = crashes + 1
    /\ \A n : Waiting(n)' <=> Waiting(n) \/ n = m

LEMMA WaitingCaller ==
    ASSUME TypeInv, PastInv, QueueInv, NEW c \in Caller, CallerStep(c)
    PROVE  QueueInv' /\ (Quiet \/ \E m : Publishes(m))
<1>1. UNCHANGED <<lpc, handling, served, runs, crashes>>
  BY CallerFrame DEF serverVars
<1>2. CASE Publish(c)
  <2> DEFINE m == Request(c)
  <2>1. /\ m \in Message /\ m.caller = c /\ requests' = Append(requests, m)
        /\ published' = published \cup {m} /\ m \notin published
    BY <1>2, PublishEffect, PublishIsNew
  <2> HIDE DEF m
  <2>2. requests \in Seq(Message) /\ Once(requests) /\ ~Holds(requests, m)
    BY <2>1 DEF QueueInv, TypeInv, BrokerTypes
  <2>3. Once(requests') /\ \A n : Holds(requests', n) <=> Holds(requests, n) \/ n = m
    BY <2>1, <2>2, AppendHolds
  <2>4. QueueInv'
    BY <1>1, <2>1, <2>3 DEF QueueInv
  <2>5. Publishes(m)
    BY <1>1, <2>1, <2>3 DEF Publishes, Waiting
  <2> QED
    BY <2>4, <2>5
<1>3. CASE ~Publish(c)
  <2>1. UNCHANGED <<requests, published>>
    BY <1>3, QueueFrame
  <2> QED
    BY <1>1, <2>1 DEF QueueInv, Quiet, Waiting
<1> QED
  BY <1>2, <1>3

LEMMA WaitingCrash ==
    ASSUME TypeInv, QueueInv, ListenerCrashes
    PROVE  QueueInv' /\ (Quiet \/ \E m : GivesBack(m))
<1>1. /\ lpc' = "down" /\ UNCHANGED <<published, served, runs>> /\ crashes \in Nat
      /\ requests \in Seq(Message)
  BY CrashEffect DEF TypeInv, BrokerTypes
<1>2. CASE lpc \in {"run", "executed"}
  <2>1. /\ handling \in Message /\ crashes' = crashes + 1 /\ requests' = <<handling>> \o requests
        /\ handling \in published /\ ~Holds(requests, handling) /\ Once(requests)
    BY <1>2, CrashEffect DEF QueueInv
  <2>2. Once(requests') /\ \A n : Holds(requests', n) <=> Holds(requests, n) \/ n = handling
    BY <1>1, <2>1, PrependHolds
  <2>3. QueueInv'
    BY <1>1, <2>1, <2>2 DEF QueueInv
  <2>4. \A n : Waiting(n)' <=> Waiting(n) \/ n = handling
    BY <1>1, <2>2 DEF Waiting
  <2>5. GivesBack(handling)
    BY <1>1, <2>1, <2>4 DEF GivesBack
  <2> QED
    BY <2>3, <2>5
<1>3. CASE lpc \notin {"run", "executed"}
  <2>1. UNCHANGED <<crashes, requests>>
    BY <1>3, CrashEffect
  <2> QED
    BY <1>1, <1>3, <2>1 DEF QueueInv, Quiet, Waiting
<1> QED
  BY <1>2, <1>3

LEMMA WaitingService ==
    ASSUME TypeInv, QueueInv, ListenerStarts \/ ListenerWorks
    PROVE  QueueInv' /\ (Quiet \/ \E m : Executes(m))
<1>1. CASE ListenerStarts \/ Ack
  <2>1. /\ UNCHANGED <<requests, published, handling, served, runs, crashes>>
        /\ (lpc' = "idle" /\ lpc = "down") \/ (lpc' = "acked" /\ lpc = "executed")
    BY <1>1 DEF ListenerStarts, Ack, ListenerStep, brokerVars
  <2> QED
    BY <2>1 DEF QueueInv, Quiet, Waiting
<1>2. CASE Reply
  <2>1. UNCHANGED <<requests, published, served, runs, crashes>> /\ lpc = "acked" /\ lpc' = "idle"
    BY <1>2, ReplyEffect
  <2> QED
    BY <2>1 DEF QueueInv, Quiet, Waiting
<1>3. CASE Deliver
  <2>1. /\ lpc = "idle" /\ lpc' = "run" /\ requests \in Seq(Message) /\ requests # <<>>
        /\ handling' = Head(requests) /\ requests' = Tail(requests)
        /\ UNCHANGED <<published, served, runs, crashes>>
    BY <1>3, DeliverEffect
  <2>2. /\ Once(requests') /\ ~Holds(requests', handling')
        /\ \A n : Holds(requests, n) <=> n = handling' \/ Holds(requests', n)
    BY <2>1, TailHolds DEF QueueInv
  <2>3. QueueInv'
    BY <2>1, <2>2 DEF QueueInv
  <2>4. Quiet
    BY <2>1, <2>2 DEF Quiet, Waiting
  <2> QED
    BY <2>3, <2>4
<1>4. CASE Execute
  <2>1. /\ lpc = "run" /\ lpc' = "executed" /\ handling' = handling /\ handling \in Message
        /\ Ran(handling.caller, handling.call) /\ UNCHANGED <<requests, published, crashes>>
        /\ served' = served \cup {[msg |-> handling, kind |-> result']}
    BY <1>4, ExecuteEffect
  <2>2. handling \in published /\ ~Holds(requests, handling)
    BY <2>1 DEF QueueInv
  <2>3. QueueInv'
    BY <2>1, <2>2 DEF QueueInv
  <2>4. [msg |-> handling, kind |-> result'] \in served'
    BY <2>1
  <2>5. ASSUME NEW m, m = handling PROVE Executes(m)
    <3>1. Executed(m)'
      BY <2>4, <2>5 DEF Executed
    <3>2. \A n : Waiting(n)' <=> Waiting(n) /\ n # m
      BY <2>1, <2>2, <2>5 DEF Waiting
    <3>3. Waiting(m) /\ m \in published /\ m \in Message /\ Ran(m.caller, m.call)
      BY <2>1, <2>2, <2>5 DEF Waiting
    <3> QED
      BY <2>1, <3>1, <3>2, <3>3 DEF Executes
  <2> QED
    BY <2>3, <2>5
<1> QED
  BY <1>1, <1>2, <1>3, <1>4 DEF ListenerWorks

LEMMA WaitingStep ==
    ASSUME TypeInv, PastInv, QueueInv, [RpcNext]_rpcVars
    PROVE  /\ QueueInv'
           /\ Quiet \/ \E m : Publishes(m) \/ Executes(m) \/ GivesBack(m)
<1>1. CASE UNCHANGED rpcVars
  BY <1>1 DEF QueueInv, Quiet, Waiting, rpcVars, brokerVars, serverVars
<1> QED
  BY <1>1, WaitingCaller, WaitingCrash, WaitingService DEF RpcNext

LEMMA WaitingInit == RpcInit => PastInv /\ QueueInv /\ CarriedInv
<1> SUFFICES ASSUME RpcInit PROVE PastInv /\ QueueInv /\ CarriedInv
  OBVIOUS
<1>1. published = {} /\ requests = <<>> /\ lpc = "down"
  BY DEF RpcInit
<1>2. 1..Len(requests) = {}
  BY <1>1
<1> QED
  BY <1>1, <1>2 DEF PastInv, QueueInv, CarriedInv, Once, Holds

LEMMA QueueInvCorrect == RpcSpec => [](PastInv /\ QueueInv)
<1>1. RpcInit => PastInv /\ QueueInv
  BY WaitingInit
<1>2. TypeInv /\ (PastInv /\ QueueInv) /\ [RpcNext]_rpcVars => (PastInv /\ QueueInv)'
  BY PastStep, WaitingStep
<1> QED
  BY <1>1, <1>2, TypeInvCorrect, PTL DEF RpcSpec

LEMMA CarriedStep ==
    ASSUME TypeInv, PastInv, QueueInv, CarriedInv, [RpcNext]_rpcVars
    PROVE  CarriedInv'
<1>1. CASE Quiet
  <2>1. \A m : (Waiting(m)' <=> Waiting(m)) /\ (Executed(m)' <=> Executed(m))
    BY <1>1 DEF Quiet, Executed
  <2> QED
    BY <1>1, <2>1 DEF CarriedInv, Quiet
<1>2. ASSUME NEW r, Publishes(r) PROVE CarriedInv'
  <2>1. \A m : (Waiting(m)' <=> Waiting(m) \/ m = r) /\ (Executed(m)' <=> Executed(m))
    BY <1>2 DEF Publishes, Executed
  <2>2. published' = published \cup {r}
    BY <1>2 DEF Publishes
  <2> QED
    BY <2>1, <2>2 DEF CarriedInv
<1>3. ASSUME NEW r, Executes(r) PROVE CarriedInv'
  <2>1. /\ UNCHANGED published /\ \A m : Executed(m) => Executed(m)'
        /\ Executed(r)' /\ \A m : Waiting(m) /\ m # r => Waiting(m)'
    BY <1>3 DEF Executes, Executed
  <2>2. ASSUME NEW m \in published PROVE Executed(m)' \/ Waiting(m)'
    <3>1. CASE m = r
      <4>1. Executed(r)'
        BY <2>1
      <4> QED
        BY <3>1, <4>1 DEF Executed
    <3>2. CASE m # r
      BY <2>1, <3>2 DEF CarriedInv
    <3> QED
      BY <3>1, <3>2
  <2> QED
    BY <2>1, <2>2 DEF CarriedInv
<1>4. ASSUME NEW r, GivesBack(r) PROVE CarriedInv'
  <2>1. UNCHANGED published /\ \A m : (Waiting(m) => Waiting(m)') /\ (Executed(m)' <=> Executed(m))
    BY <1>4 DEF GivesBack, Executed
  <2> QED
    BY <2>1 DEF CarriedInv
<1> QED
  BY <1>1, <1>2, <1>3, <1>4, WaitingStep

\* A published request is executed, or in the queue, or with the listener, for any
\* number of crashes between the execution and the ack (_rpc.py:322).
THEOREM RequestIsCarriedCorrect == RpcSpec => []RequestIsCarried
<1>1. RpcInit => CarriedInv
  BY WaitingInit
<1>2. TypeInv /\ (PastInv /\ QueueInv) /\ CarriedInv /\ [RpcNext]_rpcVars => CarriedInv'
  BY CarriedStep
<1>3. TypeInv /\ CarriedInv => RequestIsCarried
  <2> SUFFICES ASSUME TypeInv, CarriedInv, NEW m \in published, ~Executed(m), m # handling
               PROVE  \E i \in DOMAIN requests : requests[i] = m
    BY DEF RequestIsCarried
  <2>1. Holds(requests, m) /\ DOMAIN requests = 1..Len(requests)
    BY DEF CarriedInv, Waiting, TypeInv, BrokerTypes
  <2> QED
    BY <2>1 DEF Holds
<1> QED
  BY <1>1, <1>2, <1>3, TypeInvCorrect, QueueInvCorrect, PTL DEF RpcSpec

-----------------------------------------------------------------------------
(* How often a method runs.                                                 *)

Of(c, k)   == {m \in published : m.caller = c /\ m.call = k}
Left(c, k) == {m \in Of(c, k) : Waiting(m)}

\* The executions of a call, and those to come, are paid for by its requests and by
\* the crashes.
RunAt(c, k) == runs[c][k] + Cardinality(Left(c, k)) <= Cardinality(Of(c, k)) + crashes
RunInv == \A c \in Caller, k \in CallNumber : RunAt(c, k)

LEMMA RunNumbers ==
    ASSUME TypeInv, NEW c \in Caller, NEW k \in CallNumber
    PROVE  /\ runs[c][k] \in Nat /\ crashes \in Nat
           /\ IsFiniteSet(Of(c, k)) /\ Cardinality(Of(c, k)) \in Nat
           /\ IsFiniteSet(Left(c, k)) /\ Cardinality(Left(c, k)) \in Nat
<1>1. runs[c][k] \in Nat
  BY DEF TypeInv, ServerTypes
<1>2. crashes \in Nat
  BY RpcAssumption DEF TypeInv, ServerTypes
<1>3. IsFiniteSet(published) /\ Of(c, k) \subseteq published /\ Left(c, k) \subseteq Of(c, k)
  BY DEF TypeInv, BrokerTypes, Of, Left
<1>4. IsFiniteSet(Of(c, k))
  BY <1>3, FS_Subset
<1>5. IsFiniteSet(Left(c, k))
  BY <1>3, <1>4, FS_Subset
<1> QED
  BY <1>1, <1>2, <1>4, <1>5, FS_CardinalityType

LEMMA OneElementMore ==
    ASSUME NEW S, IsFiniteSet(S), NEW e
    PROVE  /\ IsFiniteSet(S \cup {e}) /\ Cardinality(S) \in Nat /\ Cardinality(S \cup {e}) \in Nat
           /\ Cardinality(S \cup {e}) <= Cardinality(S) + 1
<1>1. Cardinality(S) \in Nat
  BY FS_CardinalityType
<1>2. CASE e \in S
  <2>1. S \cup {e} = S
    BY <1>2
  <2>2. Cardinality(S) <= Cardinality(S) + 1
    BY <1>1
  <2> QED
    BY <1>1, <2>1, <2>2
<1>3. CASE e \notin S
  <2>1. IsFiniteSet(S \cup {e}) /\ Cardinality(S \cup {e}) = Cardinality(S) + 1
    BY <1>3, FS_AddElement
  <2> QED
    BY <1>1, <2>1
<1> QED
  BY <1>2, <1>3

LEMMA RunQuiet ==
    ASSUME RunInv, Quiet, NEW c \in Caller, NEW k \in CallNumber
    PROVE  RunAt(c, k)'
<1>1. Of(c, k)' = Of(c, k)
  BY DEF Of, Quiet
<1>2. Left(c, k)' = Left(c, k)
  BY <1>1 DEF Left, Quiet
<1> QED
  BY <1>1, <1>2 DEF RunInv, RunAt, Quiet

LEMMA RunPublishes ==
    ASSUME TypeInv, QueueInv, RunInv, NEW m, Publishes(m), NEW c \in Caller, NEW k \in CallNumber
    PROVE  RunAt(c, k)'
<1>1. /\ RunAt(c, k) /\ UNCHANGED <<runs, crashes>> /\ m \notin published
      /\ published' = published \cup {m} /\ \A n : Waiting(n)' <=> Waiting(n) \/ n = m
  BY DEF RunInv, Publishes
<1>2. CASE m.caller = c /\ m.call = k
  <2>1. Of(c, k)' = Of(c, k) \cup {m} /\ m \notin Of(c, k)
    BY <1>1, <1>2 DEF Of
  <2>2. Left(c, k)' = Left(c, k) \cup {m} /\ m \notin Left(c, k)
    <3>1. Left(c, k)' = {n \in Of(c, k) \cup {m} : Waiting(n) \/ n = m}
      BY <1>1, <2>1 DEF Left
    <3> QED
      BY <2>1, <3>1 DEF Left
  <2>3. Cardinality(Of(c, k)') = Cardinality(Of(c, k)) + 1
    BY <2>1, RunNumbers, FS_AddElement
  <2>4. Cardinality(Left(c, k)') = Cardinality(Left(c, k)) + 1
    BY <2>2, RunNumbers, FS_AddElement
  <2> QED
    BY <1>1, <2>3, <2>4, RunNumbers DEF RunAt
<1>3. CASE ~(m.caller = c /\ m.call = k)
  <2>1. Of(c, k)' = Of(c, k) /\ m \notin Of(c, k)
    BY <1>1, <1>3 DEF Of
  <2>2. Left(c, k)' = Left(c, k)
    BY <1>1, <2>1 DEF Left
  <2> QED
    BY <1>1, <2>1, <2>2 DEF RunAt
<1> QED
  BY <1>2, <1>3

LEMMA RunExecutes ==
    ASSUME TypeInv, RunInv, NEW m, Executes(m), NEW c \in Caller, NEW k \in CallNumber
    PROVE  RunAt(c, k)'
<1>1. /\ RunAt(c, k) /\ UNCHANGED <<published, crashes>> /\ m \in published /\ Waiting(m)
      /\ \A n : Waiting(n)' <=> Waiting(n) /\ n # m
  BY DEF RunInv, Executes
<1>2. /\ m.caller \in Caller /\ m.call \in CallNumber /\ Ran(m.caller, m.call)
      /\ runs \in [Caller -> [CallNumber -> Nat]]
  BY MessageParts DEF Executes, TypeInv, ServerTypes
<1>3. Of(c, k)' = Of(c, k)
  BY <1>1 DEF Of
<1>4. Left(c, k)' = Left(c, k) \ {m}
  BY <1>1, <1>3 DEF Left
<1>5. CASE m.caller = c /\ m.call = k
  <2>1. m \in Left(c, k)
    BY <1>1, <1>5 DEF Left, Of
  <2>2. Cardinality(Left(c, k)') = Cardinality(Left(c, k)) - 1
    BY <1>4, <2>1, RunNumbers, FS_RemoveElement
  <2>3. runs'[c][k] = runs[c][k] + 1
    BY <1>2, <1>5, RanEffect
  <2> QED
    BY <1>1, <1>3, <2>2, <2>3, RunNumbers DEF RunAt
<1>6. CASE ~(m.caller = c /\ m.call = k)
  <2>1. Left(c, k)' = Left(c, k)
    BY <1>4, <1>6 DEF Left, Of
  <2>2. runs'[c][k] = runs[c][k]
    BY <1>2, <1>6, RanEffect
  <2> QED
    BY <1>1, <1>3, <2>1, <2>2 DEF RunAt
<1> QED
  BY <1>5, <1>6

LEMMA RunGivesBack ==
    ASSUME TypeInv, RunInv, NEW m, GivesBack(m), NEW c \in Caller, NEW k \in CallNumber
    PROVE  RunAt(c, k)'
<1>1. /\ RunAt(c, k) /\ UNCHANGED <<published, runs>> /\ crashes' = crashes + 1
      /\ \A n : Waiting(n)' <=> Waiting(n) \/ n = m
  BY DEF RunInv, GivesBack
<1>2. Of(c, k)' = Of(c, k)
  BY <1>1 DEF Of
<1>3. Left(c, k)' \subseteq Left(c, k) \cup {m}
  BY <1>1, <1>2 DEF Left
<1>4. IsFiniteSet(Left(c, k) \cup {m}) /\ Cardinality(Left(c, k) \cup {m}) <= Cardinality(Left(c, k)) + 1
  BY RunNumbers, OneElementMore
<1>5. /\ Cardinality(Left(c, k)') \in Nat
      /\ Cardinality(Left(c, k)') <= Cardinality(Left(c, k) \cup {m})
      /\ Cardinality(Left(c, k) \cup {m}) \in Nat
  BY <1>3, <1>4, FS_Subset, FS_CardinalityType
<1> QED
  BY <1>1, <1>2, <1>4, <1>5, RunNumbers DEF RunAt

LEMMA RunStep ==
    ASSUME TypeInv, PastInv, QueueInv, RunInv, [RpcNext]_rpcVars
    PROVE  RunInv'
<1> SUFFICES ASSUME NEW c \in Caller, NEW k \in CallNumber PROVE RunAt(c, k)'
  BY DEF RunInv
<1> QED
  BY WaitingStep, RunQuiet, RunPublishes, RunExecutes, RunGivesBack

\* Only a crash that has left a request unacknowledged makes a method run more often
\* than its call was published.
THEOREM ExecutionBoundCorrect == RpcSpec => []ExecutionBound
<1>1. RpcInit => RunInv
  <2> SUFFICES ASSUME RpcInit, NEW c \in Caller, NEW k \in CallNumber PROVE RunAt(c, k)
    BY DEF RunInv
  <2>1. runs[c][k] = 0 /\ crashes = 0 /\ Of(c, k) = {} /\ Left(c, k) = {}
    BY DEF RpcInit, Of, Left
  <2> QED
    BY <2>1, FS_EmptySet DEF RunAt
<1>2. TypeInv /\ (PastInv /\ QueueInv) /\ RunInv /\ [RpcNext]_rpcVars => RunInv'
  BY RunStep
<1>3. TypeInv /\ RunInv => ExecutionBound
  <2> SUFFICES ASSUME TypeInv, RunInv, NEW c \in Caller, NEW k \in CallNumber
               PROVE  runs[c][k] <= Cardinality(Of(c, k)) + crashes
    BY DEF ExecutionBound, Of
  <2> QED
    BY RunNumbers DEF RunInv, RunAt
<1> QED
  BY <1>1, <1>2, <1>3, TypeInvCorrect, QueueInvCorrect, PTL DEF RpcSpec
=============================================================================
