------------------------------ MODULE VchiProofs ------------------------------
(***************************************************************************)
(* Proofs about Vchi, for every set of services, every number of clients   *)
(* and whatever futures they drop.  What CompletionsProofs shows of the    *)
(* queues below is carried over to the specification with the map.         *)
(***************************************************************************)
EXTENDS Vchi, CompletionsProofs

-----------------------------------------------------------------------------
(* A step of this layer is a step of the layer below. *)

\* A panic of this layer: the queues stay as they are.
PanicsAlone ==
    panicked' = TRUE /\ UNCHANGED <<queueVars, completionVars, reader, taken, overrun, notified>>

LEMMA LayerStep ==
    ASSUME [VchiNext]_allVars
    PROVE  [Next]_vars \/ PanicsAlone
  <1>1. CASE UNCHANGED allVars
    BY <1>1 DEF allVars
  <1>2. CASE VchiNext
    <2>1. CASE UNCHANGED vars
      BY <2>1
    <2>2. ASSUME NEW s \in Services,
                 dequeue_message(s) \/ DequeueReturns(s) \/ DequeueDropped(s) \/ MessageArrives(s)
          PROVE  Next
      BY <1>2, <2>2 DEF VchiNext, Running, Next, dequeue_message, DequeueReturns, DequeueDropped,
                        MessageArrives
    <2>3. CASE HandlerCallsBack
      BY <1>2, <2>3 DEF VchiNext, Running, Next, HandlerCallsBack
    <2>4. ASSUME NEW s \in Services, CloseAgain(s) PROVE PanicsAlone
      BY <2>4 DEF CloseAgain, PanicsAlone
    <2>5. CASE HandlerPanics
      BY <2>5 DEF HandlerPanics, PanicsAlone
    <2> QED
      BY <1>2, <2>1, <2>2, <2>3, <2>4, <2>5
      DEF VchiNext, initialize, connect, ConnectAnswered, ConnectReturns, CallDropped, service_open,
          OpenAnswered, OpenReturns, service_close, CloseAnswered, CloseReturns, CloseRefused,
          PeerClosed, queue_message, ClientSpins, Handler, HandlerSpins
  <1> QED
    BY <1>1, <1>2

\* The invariants of the queues that a panic of this layer leaves alone.
QueuesInv == TypeOK /\ PendingCovered

LEMMA QueuesStep ==
    ASSUME QueuesInv, [VchiNext]_allVars
    PROVE  QueuesInv'
  <1>1. CASE [Next]_vars
    BY <1>1, TypeStep, RingTypesHold, PendingCoveredStep DEF QueuesInv
  <1>2. CASE PanicsAlone
    <2>1. TypeOK'
      BY <1>2 DEF QueuesInv, PanicsAlone, TypeOK, queueVars, completionVars
    <2>2. PendingCovered'
      BY <1>2 DEF QueuesInv, PanicsAlone, PendingCovered, queueVars, completionVars
    <2> QED
      BY <2>1, <2>2 DEF QueuesInv
  <1> QED
    BY <1>1, <1>2, LayerStep

LEMMA QueuesInvariant == VchiSpec => []QueuesInv
  <1>1. VchiInit => QueuesInv
    BY TypeInit, PendingCoveredInit DEF VchiInit, QueuesInv
  <1>2. QueuesInv /\ [VchiNext]_allVars => QueuesInv'
    BY QueuesStep
  <1> QED
    BY <1>1, <1>2, PTL DEF VchiSpec

-----------------------------------------------------------------------------
(* The types of this layer. *)

ServiceStates == {"NONE", "OPENING", "OPEN", "CLOSEWAIT", "CLOSESENT", "FREE"}

\* The part of VchiTypeOK that is about the services and the calls.
CallTypes ==
    /\ services \subseteq Services
    /\ srvstate \in [Services -> ServiceStates]
    /\ remove_event \in [Services -> 0 .. 1]
    /\ call \in [op : {"none", "connect", "open", "close"}, service : Services \cup {None}]
    /\ asked \subseteq Services

\* Where a service stands: its vchiq state, its permit, its entry in the map and
\* the call with &mut self that is about it.  A permit is left over, and a
\* service open or closed behind the map's back, only when its client dropped
\* the future of the call.
Standing(s) ==
    LET opening == call = [op |-> "open", service |-> s]
        closing == call = [op |-> "close", service |-> s]
        dropped == call.service # s /\ s \in Impatient
        settled == call.service # s
        listed  == s \in services
        permit  == remove_event[s] = 1
    IN  /\ srvstate[s] = "NONE" => ~permit /\ ~listed /\ settled
        /\ srvstate[s] = "OPENING" => ~permit /\ ~listed /\ (opening \/ dropped)
        /\ srvstate[s] \in {"OPEN", "CLOSEWAIT"} =>
              \/ permit /\ ~listed /\ (opening \/ dropped)
              \/ ~permit /\ listed /\ settled
        /\ srvstate[s] = "CLOSESENT" => ~permit /\ listed /\ (closing \/ dropped)
        /\ srvstate[s] = "FREE" =>
              \/ permit /\ listed /\ (closing \/ dropped)
              \/ ~permit /\ ~listed /\ settled

\* Every call with &mut self is about a service, but for connect.
CallNamesService ==
    /\ call.op \in {"open", "close"} <=> call.service \in Services
    /\ call.op = "none" => call = NoCall

\* The inductive invariant of the calls with &mut self.
CallInv ==
    /\ CallTypes
    /\ CallNamesService
    /\ \A s \in Services : Standing(s)

LEMMA CallInit == VchiInit => CallInv
  <1> SUFFICES ASSUME VchiInit PROVE CallInv
    OBVIOUS
  <1> USE DEF VchiInit, NoCall
  <1>1. CallTypes
    BY DEF CallTypes, ServiceStates
  <1>2. CallNamesService
    BY CompletionsAssumption DEF CallNamesService
  <1>3. ASSUME NEW s \in Services PROVE Standing(s)
    BY <1>3, CompletionsAssumption DEF Standing
  <1> QED
    BY <1>1, <1>2, <1>3 DEF CallInv

\* A step leaves a service where it stands when neither its state nor the call
\* is about it.
LEMMA StandingFrame ==
    ASSUME NEW t \in Services, Standing(t),
           srvstate'[t] = srvstate[t], remove_event'[t] = remove_event[t],
           t \in services' <=> t \in services,
           call' = call \/ (call.service # t /\ call'.service # t)
    PROVE  Standing(t)'
  <1>1. CASE call' = call
    BY <1>1 DEF Standing
  <1>2. CASE call.service # t /\ call'.service # t
    <2>1. /\ call # [op |-> "open", service |-> t] /\ call # [op |-> "close", service |-> t]
          /\ call' # [op |-> "open", service |-> t] /\ call' # [op |-> "close", service |-> t]
      BY <1>2
    <2> QED
      BY <1>2, <2>1 DEF Standing
  <1> QED
    BY <1>1, <1>2

\* The steps of connect and of its answer.
LEMMA ConnectKeeps ==
    ASSUME CallInv, initialize \/ connect \/ ConnectAnswered \/ ConnectReturns
    PROVE  CallInv'
  <1> USE DEF CallInv
  <1>1. UNCHANGED <<services, srvstate, remove_event, asked>>
    BY DEF initialize, connect, ConnectAnswered, ConnectReturns, stateVars
  <1>2. \/ call' = call
        \/ call = NoCall /\ call' = [op |-> "connect", service |-> None]
        \/ call.op = "connect" /\ call' = NoCall
    BY DEF initialize, connect, ConnectAnswered, ConnectReturns, stateVars, ExclusiveCall, SharedCall,
           Calls
  <1>4. CallTypes'
    BY <1>1, <1>2, CompletionsAssumption DEF CallTypes, NoCall
  <1>5. CallNamesService'
    BY <1>2, CompletionsAssumption DEF CallNamesService, NoCall
  <1>6. ASSUME NEW t \in Services PROVE Standing(t)'
    <2>1. call' = call \/ (call.service # t /\ call'.service # t)
      BY <1>2, CompletionsAssumption DEF CallNamesService, NoCall
    <2> QED
      BY <1>1, <2>1, StandingFrame
  <1> QED
    BY <1>4, <1>5, <1>6

\* The steps of service_open and of its answer.
LEMMA OpenKeeps ==
    ASSUME CallInv, NEW s \in Services, service_open(s) \/ OpenAnswered(s) \/ OpenReturns(s)
    PROVE  CallInv'
  <1> USE DEF CallInv
  <1>0. Standing(s) /\ CallTypes
    OBVIOUS
  <1>1. CASE service_open(s)
    <2>1. /\ call = NoCall /\ call' = [op |-> "open", service |-> s]
          /\ srvstate[s] = "NONE" /\ srvstate' = [srvstate EXCEPT ![s] = "OPENING"]
          /\ UNCHANGED <<services, remove_event, asked>>
      BY <1>1 DEF service_open, ExclusiveCall, SharedCall, Calls, Becomes
    <2>2. CallTypes'
      BY <2>1 DEF CallTypes, ServiceStates
    <2>3. CallNamesService'
      BY <2>1 DEF CallNamesService
    <2>4. Standing(s)'
      BY <1>0, <2>1 DEF Standing, CallTypes, NoCall
    <2>5. ASSUME NEW t \in Services \ {s} PROVE Standing(t)'
      BY <2>1, StandingFrame, CompletionsAssumption DEF CallTypes, NoCall
    <2> QED
      BY <2>2, <2>3, <2>4, <2>5
  <1>2. CASE OpenAnswered(s)
    <2>1. PICK new \in {"OPEN", "CLOSEWAIT"} : srvstate' = [srvstate EXCEPT ![s] = new]
      BY <1>2 DEF OpenAnswered, Becomes
    <2>2. /\ srvstate[s] = "OPENING"
          /\ remove_event' = [remove_event EXCEPT ![s] = @ + 1]
          /\ UNCHANGED <<services, call, asked>>
      BY <1>2 DEF OpenAnswered, Up
    <2>3. remove_event[s] = 0
      BY <1>0, <2>2 DEF Standing, CallTypes
    <2>4. CallTypes'
      BY <2>1, <2>2, <2>3 DEF CallTypes, ServiceStates
    <2>5. CallNamesService'
      BY <2>2 DEF CallNamesService
    <2>6. Standing(s)'
      BY <1>0, <2>1, <2>2, <2>3 DEF Standing, CallTypes
    <2>7. ASSUME NEW t \in Services \ {s} PROVE Standing(t)'
      BY <2>1, <2>2, StandingFrame DEF CallTypes
    <2> QED
      BY <2>4, <2>5, <2>6, <2>7
  <1>3. CASE OpenReturns(s)
    <2>1. /\ call = [op |-> "open", service |-> s] /\ call' = NoCall
          /\ remove_event[s] > 0 /\ remove_event' = [remove_event EXCEPT ![s] = @ - 1]
          /\ services' = services \cup {s}
          /\ UNCHANGED <<srvstate, asked>>
      BY <1>3 DEF OpenReturns, Down
    <2>2. remove_event[s] = 1 /\ remove_event'[s] = 0
      BY <1>0, <2>1 DEF CallTypes
    <2>3. CallTypes'
      BY <2>1, <2>2 DEF CallTypes, NoCall
    <2>4. CallNamesService'
      BY <2>1, CompletionsAssumption DEF CallNamesService, NoCall
    <2>5. srvstate[s] \in {"OPEN", "CLOSEWAIT"}
      BY <1>0, <2>1, <2>2 DEF Standing, CallTypes, ServiceStates
    <2>6. Standing(s)'
      BY <2>1, <2>2, <2>5, CompletionsAssumption DEF Standing, CallTypes, NoCall
    <2>7. ASSUME NEW t \in Services \ {s} PROVE Standing(t)'
      BY <2>1, StandingFrame, CompletionsAssumption DEF CallTypes, NoCall
    <2> QED
      BY <2>3, <2>4, <2>6, <2>7
  <1> QED
    BY <1>1, <1>2, <1>3

\* The steps of service_close and of its answer.
LEMMA CloseKeeps ==
    ASSUME CallInv, NEW s \in Services,
           service_close(s) \/ CloseAnswered(s) \/ CloseReturns(s) \/ CloseRefused(s)
    PROVE  CallInv'
  <1> USE DEF CallInv
  <1>0. Standing(s) /\ CallTypes
    OBVIOUS
  <1>1. CASE service_close(s)
    <2>1. /\ call = NoCall /\ call' = [op |-> "close", service |-> s]
          /\ s \in services
          /\ srvstate[s] = "OPEN" /\ srvstate' = [srvstate EXCEPT ![s] = "CLOSESENT"]
          /\ UNCHANGED <<services, remove_event, asked>>
      BY <1>1 DEF service_close, ExclusiveCall, SharedCall, Calls, Becomes
    <2>2. CallTypes'
      BY <2>1 DEF CallTypes, ServiceStates
    <2>3. CallNamesService'
      BY <2>1 DEF CallNamesService
    <2>4. Standing(s)'
      BY <1>0, <2>1 DEF Standing, CallTypes, NoCall
    <2>5. ASSUME NEW t \in Services \ {s} PROVE Standing(t)'
      BY <2>1, StandingFrame, CompletionsAssumption DEF CallTypes, NoCall
    <2> QED
      BY <2>2, <2>3, <2>4, <2>5
  <1>2. CASE CloseAnswered(s)
    <2>1. /\ srvstate[s] = "CLOSESENT" /\ srvstate' = [srvstate EXCEPT ![s] = "FREE"]
          /\ remove_event' = [remove_event EXCEPT ![s] = @ + 1]
          /\ UNCHANGED <<services, call, asked>>
      BY <1>2 DEF CloseAnswered, Up, Becomes
    <2>2. remove_event[s] = 0
      BY <1>0, <2>1 DEF Standing, CallTypes
    <2>3. CallTypes'
      BY <2>1, <2>2 DEF CallTypes, ServiceStates
    <2>4. CallNamesService'
      BY <2>1 DEF CallNamesService
    <2>5. Standing(s)'
      BY <1>0, <2>1, <2>2 DEF Standing, CallTypes
    <2>6. ASSUME NEW t \in Services \ {s} PROVE Standing(t)'
      BY <2>1, StandingFrame DEF CallTypes
    <2> QED
      BY <2>3, <2>4, <2>5, <2>6
  <1>3. CASE CloseReturns(s)
    <2>1. /\ call = [op |-> "close", service |-> s] /\ call' = NoCall
          /\ remove_event[s] > 0 /\ remove_event' = [remove_event EXCEPT ![s] = @ - 1]
          /\ services' = services \ {s}
          /\ UNCHANGED <<srvstate, asked>>
      BY <1>3 DEF CloseReturns, Removed, Down
    <2>2. remove_event[s] = 1 /\ remove_event'[s] = 0
      BY <1>0, <2>1 DEF CallTypes
    <2>3. CallTypes'
      BY <2>1, <2>2 DEF CallTypes, NoCall
    <2>4. CallNamesService'
      BY <2>1, CompletionsAssumption DEF CallNamesService, NoCall
    <2>5. srvstate[s] = "FREE"
      BY <1>0, <2>1, <2>2 DEF Standing, CallTypes, ServiceStates
    <2>6. Standing(s)'
      BY <2>1, <2>2, <2>5, CompletionsAssumption DEF Standing, CallTypes, NoCall
    <2>7. ASSUME NEW t \in Services \ {s} PROVE Standing(t)'
      BY <2>1, StandingFrame, CompletionsAssumption DEF CallTypes, NoCall
    <2> QED
      BY <2>3, <2>4, <2>6, <2>7
  <1>4. CASE CloseRefused(s)
    <2>1. /\ call = NoCall
          /\ s \in services
          /\ srvstate[s] = "CLOSEWAIT" /\ srvstate' = [srvstate EXCEPT ![s] = "FREE"]
          /\ services' = services \ {s}
          /\ UNCHANGED <<remove_event, call, asked>>
      BY <1>4 DEF CloseRefused, ExclusiveCall, SharedCall, Becomes
    <2>2. CallTypes'
      BY <2>1 DEF CallTypes, ServiceStates
    <2>3. CallNamesService'
      BY <2>1 DEF CallNamesService
    <2>4. Standing(s)'
      BY <1>0, <2>1 DEF Standing, CallTypes, NoCall
    <2>5. ASSUME NEW t \in Services \ {s} PROVE Standing(t)'
      BY <2>1, StandingFrame DEF CallTypes
    <2> QED
      BY <2>2, <2>3, <2>4, <2>5
  <1> QED
    BY <1>1, <1>2, <1>3, <1>4

\* A dropped future leaves its service in the middle of the call.
LEMMA DropKeeps ==
    ASSUME CallInv, CallDropped
    PROVE  CallInv'
  <1> USE DEF CallInv
  <1>1. /\ call.service \in Impatient \/ call.op = "connect"
        /\ call' = NoCall
        /\ UNCHANGED <<services, srvstate, remove_event, asked>>
    BY DEF CallDropped, stateVars
  <1>2. CallTypes'
    BY <1>1 DEF CallTypes, NoCall
  <1>3. CallNamesService'
    BY <1>1, CompletionsAssumption DEF CallNamesService, NoCall
  <1>4. ASSUME NEW t \in Services PROVE Standing(t)'
    <2>1. CASE call.service # t
      BY <1>1, <2>1, StandingFrame, CompletionsAssumption DEF NoCall
    <2>2. CASE call.service = t
      <3>1. t \in Impatient /\ call'.service # t
        BY <1>1, <2>2, CompletionsAssumption DEF CallNamesService, NoCall
      <3>2. Standing(t)
        OBVIOUS
      <3> QED
        BY <1>1, <2>2, <3>1, <3>2 DEF Standing
    <2> QED
      BY <2>1, <2>2
  <1> QED
    BY <1>2, <1>3, <1>4

\* Every step keeps the services where their calls left them.
LEMMA CallStep ==
    ASSUME CallInv, [VchiNext]_allVars
    PROVE  CallInv'
  <1>1. CASE /\ UNCHANGED <<services, stateVars, call>>
             /\ asked' \subseteq Services
    <2>1. UNCHANGED <<services, srvstate, remove_event, call>>
      BY <1>1 DEF stateVars
    <2> QED
      BY <1>1, <2>1 DEF CallInv, CallTypes, CallNamesService, Standing
  <1>2. CASE UNCHANGED vchiVars
    BY <1>1, <1>2 DEF vchiVars, CallInv, CallTypes
  <1>3. ASSUME NEW s \in Services, queue_message(s) PROVE CallInv'
    BY <1>1, <1>3 DEF queue_message, CallInv, CallTypes
  <1>4. ASSUME NEW s \in Services,
               \/ CloseAgain(s) \/ dequeue_message(s) \/ DequeueReturns(s) \/ DequeueDropped(s)
               \/ MessageArrives(s) \/ PeerClosed(s)
        PROVE  UNCHANGED <<services, stateVars, call, asked>>
    BY <1>4 DEF CloseAgain, dequeue_message, DequeueReturns, DequeueDropped, GuardDropped,
                MessageArrives, PeerClosed, vchiVars
  <1>a. ASSUME UNCHANGED <<services, stateVars, call, asked>> PROVE CallInv'
    BY <1>1, <1>a DEF CallInv, CallTypes
  <1>5. CASE HandlerCallsBack \/ HandlerPanics
    BY <1>2, <1>5 DEF HandlerCallsBack, HandlerPanics
  <1>6. CASE ClientSpins \/ HandlerSpins
    BY <1>1, <1>6 DEF ClientSpins, HandlerSpins, CallInv, CallTypes
  <1> QED
    BY <1>2, <1>3, <1>4, <1>a, <1>5, <1>6, ConnectKeeps, OpenKeeps, CloseKeeps, DropKeeps
    DEF VchiNext, Handler, allVars

LEMMA CallInvariant == VchiSpec => []CallInv
  <1>1. CallInv /\ [VchiNext]_allVars => CallInv'
    BY CallStep
  <1> QED
    BY CallInit, <1>1, PTL DEF VchiSpec

\* The map follows the vchiq services: for every client that awaits its calls,
\* and whatever the others drop, a handle is in the map exactly while its
\* service is open or refused, but for the call in progress.
THEOREM MapFollowsServicesHolds == VchiSpec => []MapFollowsServices
  <1>1. CallInv => MapFollowsServices
    <2> SUFFICES ASSUME CallInv, NEW s \in Services \ Impatient, call.service # s
                 PROVE  s \in services <=> srvstate[s] \in {"OPEN", "CLOSEWAIT"}
      BY DEF MapFollowsServices
    <2>1. Standing(s) /\ srvstate[s] \in ServiceStates
      BY DEF CallInv, CallTypes
    <2> QED
      BY <2>1 DEF Standing, ServiceStates
  <1> QED
    BY <1>1, CallInvariant, PTL

FlagTypes == initialized \in BOOLEAN /\ connected \in BOOLEAN

\* The inductive invariant of connect: while it is not over, one CONNECT is out
\* or its answer waits in the semaphore, never both, however often the client
\* drops connect and calls it again.
ConnectInv ==
    /\ conn_state \in {"DISCONNECTED", "CONNECTING", "CONNECTED"}
    /\ connect_sent \in Nat /\ connect_event \in Nat
    /\ connect_sent + connect_event = IF conn_state = "CONNECTING" THEN 1 ELSE 0
    /\ conn_state = "CONNECTED" => connected

LEMMA ConnectStep ==
    ASSUME ConnectInv, [VchiNext]_allVars
    PROVE  ConnectInv'
  <1>1. CASE UNCHANGED <<connectVars, connected>>
    BY <1>1 DEF ConnectInv, connectVars
  <1>2. CASE connect
    BY <1>2 DEF ConnectInv, connect
  <1>3. CASE ConnectAnswered
    BY <1>3 DEF ConnectInv, ConnectAnswered
  <1>4. CASE ConnectReturns
    BY <1>4 DEF ConnectInv, ConnectReturns
  <1> QED
    BY <1>1, <1>2, <1>3, <1>4
    DEF VchiNext, allVars, vchiVars, stateVars, initialize, CallDropped, service_open, OpenAnswered,
        OpenReturns, service_close, CloseAnswered, CloseReturns, CloseRefused, CloseAgain, PeerClosed,
        queue_message, dequeue_message, DequeueReturns, DequeueDropped, GuardDropped, MessageArrives,
        ClientSpins, Handler, HandlerCallsBack, HandlerPanics, HandlerSpins

LEMMA ConnectInvariant == VchiSpec => []ConnectInv
  <1>1. VchiInit => ConnectInv
    BY DEF VchiInit, ConnectInv
  <1>2. ConnectInv /\ [VchiNext]_allVars => ConnectInv'
    BY ConnectStep
  <1> QED
    BY <1>1, <1>2, PTL DEF VchiSpec

-----------------------------------------------------------------------------
(* The lock of the map. *)

\* The inductive invariant of the lock: the write guard belongs to the waiting
\* dequeue_message, whose service is in the map and overlaps no call with &mut
\* self; the read guard belongs to the service_close in progress.
LockInv ==
    /\ write_guard \in Services \cup {None}
    /\ \A s \in Services : reader[s] = "waiting" <=> write_guard = s
    /\ write_guard # None => write_guard \in services /\ call = NoCall
    /\ read_guards = IF call.op = "close" THEN {call.service} ELSE {}

\* The steps that begin or end the wait of a dequeue_message.
ReaderSteps == \E s \in Services : dequeue_message(s) \/ DequeueReturns(s) \/ DequeueDropped(s)

\* All other steps leave the write guard alone, and those that change the call,
\* the read guards or the map do not run while a dequeue_message waits.
LEMMA OthersKeepReaders ==
    ASSUME [VchiNext]_allVars, ~ReaderSteps
    PROVE  /\ reader' = reader
           /\ write_guard' = write_guard
           /\ call = NoCall /\ Waiting # {} => UNCHANGED <<services, call, read_guards>>
  <1>1. reader' = reader /\ write_guard' = write_guard
    BY DEF ReaderSteps, VchiNext, allVars, vars, vchiVars, guardVars, initialize, connect,
           ConnectAnswered, ConnectReturns, CallDropped, service_open, OpenAnswered, OpenReturns,
           service_close, CloseAnswered, CloseReturns, CloseRefused, CloseAgain, PeerClosed,
           queue_message, MessageArrives, service_callback, ClientSpins, Handler, HandlerCallsBack,
           completion_handler, HandlerPanics, HandlerSpins
  <1>2. ASSUME call = NoCall, Waiting # {} PROVE UNCHANGED <<services, call, read_guards>>
    <2>1. ~CallDropped
      BY <1>2, CompletionsAssumption DEF CallDropped, NoCall
    <2> QED
      BY <1>2, <2>1
      DEF ReaderSteps, VchiNext, allVars, vchiVars, guardVars, initialize, connect, ConnectAnswered,
          ConnectReturns, service_open, OpenAnswered, OpenReturns, service_close,
          CloseAnswered, CloseReturns, CloseRefused, CloseAgain, PeerClosed, queue_message,
          MessageArrives, ClientSpins, Handler, HandlerCallsBack, HandlerPanics, HandlerSpins,
          ExclusiveCall, NoCall
  <1> QED
    BY <1>1, <1>2

\* What the calls with &mut self do to the read guards.
LEMMA ReadGuardsStep ==
    ASSUME CallNamesService, LockInv, [VchiNext]_allVars
    PROVE  read_guards' = IF call'.op = "close" THEN {call'.service} ELSE {}
  <1>1. CASE UNCHANGED <<call, read_guards>>
    BY <1>1 DEF LockInv
  <1>2. ASSUME NEW s \in Services, service_close(s)
        PROVE  read_guards' = IF call'.op = "close" THEN {call'.service} ELSE {}
    BY <1>2 DEF LockInv, service_close, ExclusiveCall, SharedCall, Calls, NoCall
  <1>3. ASSUME NEW s \in Services, CloseReturns(s)
        PROVE  read_guards' = IF call'.op = "close" THEN {call'.service} ELSE {}
    BY <1>3 DEF LockInv, CloseReturns, GuardsAfterClose, NoCall
  <1>4. CASE CallDropped
    BY <1>4 DEF LockInv, CallDropped, NoCall
  <1>5. CASE /\ read_guards' = read_guards
             /\ call.op # "close" /\ call'.op # "close"
    BY <1>5 DEF LockInv
  <1>6. ASSUME NEW s \in Services, service_open(s) \/ OpenReturns(s)
        PROVE  read_guards' = IF call'.op = "close" THEN {call'.service} ELSE {}
    <2>1. /\ read_guards' = read_guards
          /\ call.op # "close" /\ call'.op # "close"
      BY <1>6 DEF service_open, OpenReturns, ExclusiveCall, SharedCall, Calls, NoCall, guardVars
    <2> QED
      BY <1>5, <2>1
  <1>7. CASE connect \/ ConnectReturns
    <2>1. /\ read_guards' = read_guards
          /\ call.op # "close" /\ call'.op # "close"
      BY <1>7 DEF connect, ConnectReturns, ExclusiveCall, SharedCall, Calls, NoCall, guardVars
    <2> QED
      BY <1>5, <2>1
  <1> QED
    BY <1>1, <1>2, <1>3, <1>4, <1>6, <1>7
    DEF VchiNext, allVars, vchiVars, guardVars, initialize, ConnectAnswered, OpenAnswered,
        CloseAnswered, CloseRefused, CloseAgain, PeerClosed, queue_message, dequeue_message,
        DequeueReturns, DequeueDropped, GuardDropped, MessageArrives, ClientSpins, Handler,
        HandlerCallsBack, HandlerPanics, HandlerSpins

LEMMA LockStep ==
    ASSUME TypeOK, CallInv, LockInv, [VchiNext]_allVars
    PROVE  LockInv'
  <1>0. reader \in [Services -> {"idle", "waiting"}] /\ None \notin Services
    BY CompletionsAssumption DEF TypeOK
  <1>a. read_guards' = IF call'.op = "close" THEN {call'.service} ELSE {}
    BY ReadGuardsStep DEF CallInv
  <1>1. ASSUME NEW s \in Services, Dequeue(s), WriteFree, UNCHANGED <<services, call, write_guard>>
        PROVE  LockInv'
    <2>1. reader' = [reader EXCEPT ![s] = "idle"]
      BY <1>1 DEF Dequeue, TakeMessage
    <2> QED
      BY <1>0, <1>a, <1>1, <2>1 DEF LockInv, WriteFree
  <1>2. ASSUME NEW s \in Services, reader[s] = "waiting", Dequeue(s) \/ CancelDequeue(s),
               write_guard' = None, UNCHANGED <<services, call>>
        PROVE  LockInv'
    <2>1. reader' = [reader EXCEPT ![s] = "idle"]
      BY <1>2 DEF Dequeue, TakeMessage, CancelDequeue
    <2> QED
      BY <1>0, <1>a, <1>2, <2>1 DEF LockInv
  <1>3. ASSUME NEW s \in Services, dequeue_message(s), DequeueWaits(s), write_guard' = s
        PROVE  LockInv'
    <2>1. reader' = [reader EXCEPT ![s] = "waiting"]
      BY <1>3 DEF DequeueWaits
    <2>2. /\ services' = services /\ call' = call
          /\ call = NoCall /\ s \in services /\ write_guard = None
      BY <1>3 DEF dequeue_message, SharedCall, WriteFree
    <2> QED
      BY <1>0, <1>a, <1>3, <2>1, <2>2 DEF LockInv
  <1>4. CASE ReaderSteps
    BY <1>1, <1>2, <1>3, <1>4
    DEF ReaderSteps, dequeue_message, DequeueReturns, DequeueDropped, GuardDropped, CancelDequeue
  <1>5. CASE ~ReaderSteps
    <2>1. /\ reader' = reader
          /\ write_guard' = write_guard
          /\ call = NoCall /\ Waiting # {} => UNCHANGED <<services, call, read_guards>>
      BY <1>5, OthersKeepReaders
    <2>2. write_guard # None => call = NoCall /\ Waiting # {}
      BY DEF LockInv, Waiting
    <2> QED
      BY <1>a, <2>1, <2>2 DEF LockInv
  <1> QED
    BY <1>4, <1>5

LEMMA LockInvariant == VchiSpec => []LockInv
  <1>1. VchiInit => LockInv
    BY CompletionsAssumption DEF VchiInit, Init, LockInv, NoCall
  <1>2. TypeOK /\ CallInv /\ LockInv /\ [VchiNext]_allVars => LockInv'
    BY LockStep
  <1> QED
    BY <1>1, <1>2, QueuesInvariant, CallInvariant, PTL DEF VchiSpec, QueuesInv

\* The write guard stays with the one waiting dequeue_message, its service
\* stays in the map, and no call with &mut self overlaps it, whichever clients
\* drop their futures.
THEOREM WaitKeepsServiceHolds == VchiSpec => []WaitKeepsService
  <1>1. LockInv => WaitKeepsService
    BY DEF LockInv, WaitKeepsService, NoCall
  <1> QED
    BY <1>1, LockInvariant, PTL

\* A step at which a client meets a guard is one of a shared call, behind a
\* waiting dequeue_message.
LEMMA OnlySharedMeetsGuard ==
    ASSUME LockInv, NEW client, ClientMeetsGuard(client)
    PROVE  client = "shared" /\ Waiting # {}
  <1>1. write_guard # None => call = NoCall /\ Waiting # {}
    BY DEF LockInv, Waiting
  <1>2. call = NoCall => read_guards = {}
    BY DEF LockInv, NoCall
  <1>3. CASE client = "shared" /\ SharedCall /\ ~WriteFree
    BY <1>1, <1>2, <1>3 DEF SharedCall, WriteFree
  <1>4. ASSUME ExclusiveCall PROVE ReadFree /\ WriteFree
    BY <1>1, <1>2, <1>4 DEF ExclusiveCall, SharedCall, ReadFree, WriteFree
  <1>5. ASSUME call.op = "open" PROVE WriteFree
    BY <1>1, <1>5 DEF LockInv, WriteFree, NoCall
  <1>6. ASSUME call.op = "close" PROVE write_guard = None /\ GuardsAfterClose(call.service) = {}
    BY <1>1, <1>6 DEF LockInv, GuardsAfterClose, NoCall
  <1> QED
    BY <1>3, <1>4, <1>5, <1>6 DEF ClientMeetsGuard

\* Only queue_message, dequeue_message and the completion handler spin for the
\* lock of the map, and only behind a waiting dequeue_message: every lock() and
\* read() of service_open and service_close finds the lock free, the lock() that
\* follows the read guard of service_close included, and so does everybody who
\* comes while service_close waits.
THEOREM OnlyDequeueBlocksHolds == VchiSpec => []OnlyDequeueBlocks
  <1>1. VchiInit => OnlyDequeueBlocks
    BY DEF VchiInit, OnlyDequeueBlocks
  <1>2. LockInv /\ OnlyDequeueBlocks /\ [VchiNext]_allVars => OnlyDequeueBlocks'
    <2> SUFFICES ASSUME LockInv, OnlyDequeueBlocks, [VchiNext]_allVars PROVE OnlyDequeueBlocks'
      OBVIOUS
    <2>1. CASE ClientSpins
      <3>1. PICK client \in {"shared", "exclusive", "open", "close"} :
               /\ ClientMeetsGuard(client)
               /\ spinning' = client
               /\ UNCHANGED vars
        BY <2>1 DEF ClientSpins
      <3>2. client = "shared" /\ Waiting # {}
        BY <3>1, OnlySharedMeetsGuard
      <3>3. Waiting' = Waiting
        BY <3>1 DEF Waiting, vars
      <3> QED
        BY <3>1, <3>2, <3>3 DEF OnlyDequeueBlocks
    <2>2. CASE HandlerSpins
      <3>1. write_guard # None /\ spinning' = "handler" /\ reader' = reader
        BY <2>2 DEF HandlerSpins, ReadFree, vars
      <3>2. Waiting # {} /\ Waiting' = Waiting
        BY <3>1 DEF LockInv, Waiting
      <3> QED
        BY <3>1, <3>2 DEF OnlyDequeueBlocks
    <2>3. CASE UNCHANGED allVars
      BY <2>3 DEF allVars, vars, vchiVars, OnlyDequeueBlocks, Waiting
    <2>4. CASE VchiNext /\ ~ClientSpins /\ ~HandlerSpins
      <3>1. spinning = "nobody" /\ spinning' = spinning
        BY <2>4
        DEF VchiNext, Running, vchiVars, initialize, connect, ConnectAnswered, ConnectReturns,
            CallDropped, service_open, OpenAnswered, OpenReturns, service_close, CloseAnswered,
            CloseReturns, CloseRefused, CloseAgain, PeerClosed, queue_message, dequeue_message,
            DequeueReturns, DequeueDropped, GuardDropped, MessageArrives, Handler, HandlerCallsBack,
            HandlerPanics
      <3> QED
        BY <3>1 DEF OnlyDequeueBlocks
    <2> QED
      BY <2>1, <2>2, <2>3, <2>4
  <1> QED
    BY <1>1, <1>2, LockInvariant, PTL DEF VchiSpec

-----------------------------------------------------------------------------
(* Type correctness of both layers. *)

\* Every reachable state of both layers is well typed; in particular no
\* semaphore of a call ever holds a second permit and never more than one
\* CONNECT is out, although dropped calls leave permits behind and are repeated.
THEOREM VchiTypeCorrect == VchiSpec => []VchiTypeOK
  <1> DEFINE Others == /\ peer_closed \subseteq Services
                       /\ spinning \in {"nobody", "shared", "exclusive", "open", "close", "handler"}
  <1>1. VchiInit => FlagTypes /\ Others
    <2>1. VchiInit => FlagTypes
      BY Zenon DEF VchiInit, FlagTypes
    <2> QED
      BY <2>1 DEF VchiInit
  <1>2. FlagTypes /\ Others /\ [VchiNext]_allVars => FlagTypes' /\ Others'
    <2> SUFFICES ASSUME FlagTypes, Others, [VchiNext]_allVars PROVE FlagTypes' /\ Others'
      OBVIOUS
    <2>1. /\ initialized' = initialized \/ initialized' = TRUE
          /\ connected' = connected \/ connected' = TRUE
          /\ peer_closed' = peer_closed \/ \E s \in Services : peer_closed' = peer_closed \cup {s}
      BY DEF VchiNext, allVars, vchiVars, initialize, connect, ConnectAnswered, ConnectReturns,
             CallDropped, service_open, OpenAnswered, OpenReturns, service_close, CloseAnswered,
             CloseReturns, CloseRefused, CloseAgain, PeerClosed, queue_message, dequeue_message,
             DequeueReturns, DequeueDropped, GuardDropped, MessageArrives, ClientSpins, Handler,
             HandlerCallsBack, HandlerPanics, HandlerSpins
    <2>2. spinning' = spinning \/ spinning' \in {"shared", "exclusive", "open", "close", "handler"}
      BY DEF VchiNext, allVars, vchiVars, initialize, connect, ConnectAnswered, ConnectReturns,
             CallDropped, service_open, OpenAnswered, OpenReturns, service_close, CloseAnswered,
             CloseReturns, CloseRefused, CloseAgain, PeerClosed, queue_message, dequeue_message,
             DequeueReturns, DequeueDropped, GuardDropped, MessageArrives, ClientSpins, Handler,
             HandlerCallsBack, HandlerPanics, HandlerSpins
    <2>3. FlagTypes'
      BY <2>1, Zenon DEF FlagTypes
    <2> QED
      BY <2>1, <2>2, <2>3
  <1>3. QueuesInv /\ CallInv /\ ConnectInv /\ LockInv /\ FlagTypes /\ Others => VchiTypeOK
    <2> SUFFICES ASSUME QueuesInv, CallInv, ConnectInv, LockInv, FlagTypes, Others PROVE VchiTypeOK
      OBVIOUS
    <2>1. connect_sent \in 0 .. 1 /\ connect_event \in 0 .. 1
      BY DEF ConnectInv
    <2>2. read_guards \subseteq Services
      BY DEF LockInv, CallInv, CallNamesService
    <2>3. {initialized, connected} \subseteq BOOLEAN
      BY DEF FlagTypes
    <2> QED
      BY <2>1, <2>2, <2>3
      DEF QueuesInv, CallInv, CallTypes, ServiceStates, ConnectInv, LockInv, VchiTypeOK
  <1> QED
    BY <1>1, <1>2, <1>3, QueuesInvariant, CallInvariant, ConnectInvariant, LockInvariant, PTL
    DEF VchiSpec

-----------------------------------------------------------------------------
(* The panics. *)

\* What the queues below hold when the completion ring is large enough.
RingsInv == NoCompletionLost /\ QueuesOrdered /\ RemovedWereTaken

LEMMA RingsStep ==
    ASSUME RingFits, QueuesInv, RingsInv, [VchiNext]_allVars
    PROVE  RingsInv'
  <1>0. RingTypes /\ QueueTypes /\ PendingCovered
    BY RingTypesHold, QueueTypesHold DEF QueuesInv
  <1>1. CASE [Next]_vars
    BY <1>0, <1>1, NoCompletionLostStep, QueuesOrderedStep, RemovedWereTakenStep
    DEF RingsInv, QueuesInv
  <1>2. CASE PanicsAlone
    <2>1. NoCompletionLost'
      BY <1>2 DEF PanicsAlone, RingsInv, NoCompletionLost, Announced, queueVars, completionVars
    <2>2. QueuesOrdered'
      BY <1>2 DEF PanicsAlone, RingsInv, QueuesOrdered, QueueOrdered, MsgCell, queueVars
    <2>3. RemovedWereTaken'
      BY <1>2 DEF PanicsAlone, RemovedWereTaken
    <2> QED
      BY <2>1, <2>2, <2>3 DEF RingsInv
  <1> QED
    BY <1>1, <1>2, LayerStep

\* A service was written to only because it is eager or was asked, and one that
\* was asked is in the map until it is free.
Expected ==
    \A s \in Services :
        /\ message_available_pos[s] >= 0 => s \in Eager \cup asked
        /\ s \in asked => s \in services \/ srvstate[s] = "FREE"

LEMMA ExpectedStep ==
    ASSUME TypeOK, CallInv, Expected, [VchiNext]_allVars
    PROVE  Expected'
  <1>a. CallTypes /\ RingTypes
    BY RingTypesHold DEF CallInv
  <1>1. ASSUME NEW s \in Services, MessageArrives(s) PROVE Expected'
    <2>1. /\ s \in Eager \cup asked
          /\ UNCHANGED <<services, srvstate, asked>>
          /\ service_callback(s)
      BY <1>1 DEF MessageArrives, vchiVars, stateVars
    <2>2. ASSUME NEW t \in Services \ {s} PROVE message_available_pos'[t] = message_available_pos[t]
      BY <1>a, <2>1 DEF service_callback, add_completion, RingTypes
    <2> QED
      BY <2>1, <2>2 DEF Expected
  <1>2. CASE ~(\E s \in Services : MessageArrives(s))
    <2>1. message_available_pos' = message_available_pos
      BY <1>2
      DEF VchiNext, allVars, vars, queueVars, initialize, connect, ConnectAnswered, ConnectReturns,
          CallDropped, service_open, OpenAnswered, OpenReturns, service_close, CloseAnswered,
          CloseReturns, CloseRefused, CloseAgain, PeerClosed, queue_message, dequeue_message,
          DequeueReturns, DequeueDropped, ClientSpins, Handler, HandlerCallsBack, HandlerPanics,
          HandlerSpins, Dequeue, TakeMessage, DequeueWaits, CancelDequeue, completion_handler
    <2>2. CASE UNCHANGED <<services, srvstate, asked>>
      BY <2>1, <2>2 DEF Expected
    <2>3. ASSUME NEW s \in Services, queue_message(s) PROVE Expected'
      <3>1. s \in services /\ asked' = asked \cup {s} /\ UNCHANGED <<services, srvstate>>
        BY <2>3 DEF queue_message, stateVars
      <3> QED
        BY <2>1, <3>1 DEF Expected
    <2>4. ASSUME NEW s \in Services, service_open(s) \/ OpenAnswered(s) \/ OpenReturns(s) PROVE Expected'
      <3>1. /\ services \subseteq services'
            /\ asked' = asked
            /\ \A t \in Services \ {s} : srvstate'[t] = srvstate[t]
            /\ srvstate'[s] = srvstate[s] \/ srvstate[s] \in {"NONE", "OPENING"}
        BY <1>a, <2>4 DEF service_open, OpenAnswered, OpenReturns, Becomes, CallTypes
      <3> QED
        BY <2>1, <3>1 DEF Expected
    <2>5. ASSUME NEW s \in Services, service_close(s) \/ CloseAnswered(s) PROVE Expected'
      <3>1. /\ services' = services
            /\ asked' = asked
            /\ \A t \in Services \ {s} : srvstate'[t] = srvstate[t]
            /\ srvstate'[s] = "FREE" \/ s \in services
        BY <1>a, <2>5 DEF service_close, CloseAnswered, Becomes, CallTypes
      <3> QED
        BY <2>1, <3>1 DEF Expected
    <2>6. ASSUME NEW s \in Services, CloseRefused(s) PROVE Expected'
      <3>1. /\ services' = services \ {s}
            /\ asked' = asked
            /\ \A t \in Services \ {s} : srvstate'[t] = srvstate[t]
            /\ srvstate'[s] = "FREE"
        BY <1>a, <2>6 DEF CloseRefused, Becomes, CallTypes
      <3> QED
        BY <2>1, <3>1 DEF Expected
    <2>7. ASSUME NEW s \in Services, CloseReturns(s) PROVE Expected'
      <3>1. /\ call = [op |-> "close", service |-> s]
            /\ services' = services \ {s} /\ remove_event[s] > 0
            /\ UNCHANGED <<asked, srvstate>>
        BY <2>7 DEF CloseReturns, Removed, Down
      <3>2. srvstate[s] = "FREE"
        <4>1. remove_event[s] = 1 /\ Standing(s) /\ srvstate[s] \in ServiceStates
          BY <1>a, <3>1 DEF CallInv, CallTypes
        <4> QED
          BY <3>1, <4>1 DEF Standing, ServiceStates
      <3> QED
        BY <2>1, <3>1, <3>2 DEF Expected
    <2> QED
      BY <1>2, <2>2, <2>3, <2>4, <2>5, <2>6, <2>7
      DEF VchiNext, allVars, vchiVars, stateVars, initialize, connect, ConnectAnswered, ConnectReturns,
          CallDropped, CloseAgain, PeerClosed, dequeue_message, DequeueReturns, DequeueDropped,
          GuardDropped, ClientSpins, Handler, HandlerCallsBack, HandlerPanics, HandlerSpins
  <1> QED
    BY <1>1, <1>2

\* A completion the handler takes is that of a service it was announced for.
LEMMA TakenWasAnnounced ==
    ASSUME RingTypes, PendingCovered, NoCompletionLost, NEW c \in Completed
    PROVE  c \in Services /\ Announced(c)
  <1>1. PICK i \in TakenPositions : c = completions[i % MaxCompletions]
    BY DEF Completed
  <1>2. i \in completion_remove .. (completion_insert - 1)
    BY <1>1 DEF TakenPositions
  <1>3. PICK s \in Services : message_available_pos[s] = i
    BY <1>2 DEF PendingCovered
  <1>4. Announced(s) /\ completions[i % MaxCompletions] = s
    BY <1>2, <1>3 DEF NoCompletionLost, Announced, RingTypes
  <1> QED
    BY <1>1, <1>4

\* With a completion ring that is large enough the unwrap() of the completion
\* handler fails only for a service closed with a completion on its way, or one
\* the VideoCore wrote to on its own before service_open listed it,
\* close_service reaches its todo!() only after a dropped service_close, and
\* dequeue_message fails only on an overwritten message queue.
THEOREM OnlyKnownPanicsHolds == RingFits => (VchiSpec => []OnlyKnownPanics)
  <1> SUFFICES ASSUME RingFits PROVE VchiSpec => []OnlyKnownPanics
    OBVIOUS
  <1>1. VchiInit => RingsInv
    BY NoCompletionLostInit, QueuesOrderedInit, RemovedWereTakenInit DEF VchiInit, RingsInv
  <1>2. VchiInit => Expected
    BY DEF VchiInit, Init, ServiceUserInit, Expected
  <1>3. VchiInit => OnlyKnownPanics
    BY DEF VchiInit, Init, OnlyKnownPanics
  <1>4. QueuesInv /\ RingsInv /\ [VchiNext]_allVars => RingsInv'
    BY RingsStep
  <1>5. QueuesInv /\ CallInv /\ Expected /\ [VchiNext]_allVars => Expected'
    BY ExpectedStep DEF QueuesInv
  <1>6. QueuesInv /\ RingsInv /\ CallInv /\ Expected /\ OnlyKnownPanics /\ [VchiNext]_allVars
          => OnlyKnownPanics'
    <2> SUFFICES ASSUME QueuesInv, RingsInv, CallInv, Expected, OnlyKnownPanics, [VchiNext]_allVars
                 PROVE  OnlyKnownPanics'
      OBVIOUS
    <2>0. RingTypes /\ QueueTypes /\ PendingCovered /\ NoCompletionLost
      BY RingTypesHold, QueueTypesHold DEF QueuesInv, RingsInv
    <2>1. CASE UNCHANGED allVars
      BY <2>1 DEF allVars, vars, vchiVars, stateVars, queueVars, completionVars, OnlyKnownPanics,
                  Announced, FoundEmpty
    <2>a. VchiNext => ~panicked
      BY DEF VchiNext, Running
    <2>2. CASE VchiNext /\ panicked' = panicked
      BY <2>a, <2>2 DEF OnlyKnownPanics
    <2>3. ASSUME NEW s \in Services, CloseAgain(s) PROVE OnlyKnownPanics'
      <3>1. /\ s \in services /\ srvstate[s] = "CLOSESENT" /\ call = NoCall
            /\ UNCHANGED <<services, srvstate, call>>
        BY <2>3 DEF CloseAgain, ExclusiveCall, SharedCall, vchiVars, stateVars
      <3>2. s \in Impatient
        BY <3>1 DEF CallInv, Standing, NoCall
      <3> QED
        BY <3>1, <3>2 DEF OnlyKnownPanics
    <2>4. CASE HandlerPanics
      <3>1. PICK c \in Completed : c \notin services
        BY <2>4 DEF HandlerPanics, Unlisted
      <3>2. c \in Services /\ Announced(c)
        BY <2>0, <3>1, TakenWasAnnounced
      <3>3. message_available_pos[c] >= 0
        BY <2>0, <3>2 DEF Announced, RingTypes
      <3>4. srvstate[c] = "FREE" \/ c \in Eager
        BY <3>1, <3>2, <3>3 DEF Expected
      <3>5. UNCHANGED <<services, srvstate, message_available_pos, completion_remove>>
        BY <2>4 DEF HandlerPanics, vchiVars, stateVars, queueVars, completionVars
      <3>6. Announced(c)'
        BY <3>2, <3>5 DEF Announced
      <3> QED
        BY <3>1, <3>2, <3>4, <3>5, <3>6 DEF OnlyKnownPanics
    <2>5. ASSUME NEW s \in Services, VchiNext, Dequeue(s) PROVE OnlyKnownPanics'
      <3>1. CASE ~panicked'
        BY <3>1 DEF OnlyKnownPanics
      <3>2. CASE panicked'
        <4>1. FoundEmpty(s)'
          BY <2>0, <2>a, <2>5, <3>2, DequeuePanics DEF RingsInv
        <4> QED
          BY <4>1 DEF OnlyKnownPanics
      <3> QED
        BY <3>1, <3>2
    <2>6. ASSUME completion_handler PROVE panicked' = panicked
      BY <2>0, <2>6, NothingMissing DEF completion_handler
    <2> QED
      BY <2>1, <2>2, <2>3, <2>4, <2>5, <2>6
      DEF VchiNext, vars, initialize, connect, ConnectAnswered, ConnectReturns,
          CallDropped, service_open, OpenAnswered, OpenReturns, service_close, CloseAnswered,
          CloseReturns, CloseRefused, PeerClosed, queue_message, dequeue_message, DequeueReturns,
          DequeueDropped, MessageArrives, service_callback, ClientSpins, Handler, HandlerCallsBack,
          HandlerSpins, DequeueWaits, CancelDequeue
  <1> QED
    BY <1>1, <1>2, <1>3, <1>4, <1>5, <1>6, QueuesInvariant, CallInvariant, PTL DEF VchiSpec

-----------------------------------------------------------------------------
(* What the layer below promises. *)

\* The promises of the queues survive the layer above, its lock, its panics and
\* its dropped calls: clients get their messages in order until their queue is
\* overwritten, none twice after that either, and no client that awaits its
\* calls misses a wake-up.
THEOREM ClientsServedHolds ==
    RingFits => (VchiSpec => [](DeliveredInOrder /\ NoneDeliveredTwice /\ NoLostNotification))
  <1> SUFFICES ASSUME RingFits
               PROVE  VchiSpec => [](DeliveredInOrder /\ NoneDeliveredTwice /\ NoLostNotification)
    OBVIOUS
  <1>1. VchiInit => RingsInv /\ Notifications /\ AllMessagesApart
    BY NoCompletionLostInit, QueuesOrderedInit, RemovedWereTakenInit, NotificationsInit,
       MessagesApartInit DEF VchiInit, RingsInv
  <1>2. QueuesInv /\ RingsInv /\ [VchiNext]_allVars => RingsInv'
    BY RingsStep
  <1>3. QueuesInv /\ RingsInv /\ Notifications /\ [VchiNext]_allVars => Notifications'
    <2> SUFFICES ASSUME QueuesInv, RingsInv, Notifications, [VchiNext]_allVars,
                        NEW t \in Services \ Impatient
                 PROVE  Notification(t)'
      BY DEF Notifications
    <2>1. /\ ClientTypes /\ RingTypes /\ PendingCovered /\ NoCompletionLost
          /\ Notification(t)
      BY ClientTypesHold, RingTypesHold DEF QueuesInv, RingsInv, Notifications
    <2>2. CASE [Next]_vars
      BY <2>1, <2>2, NotificationStep
    <2>3. CASE PanicsAlone
      BY <2>1, <2>3 DEF PanicsAlone, Notification, Announced, queueVars, completionVars
    <2> QED
      BY <2>2, <2>3, LayerStep
  <1>4. RingsInv => DeliveredInOrder
    BY DEF RingsInv, QueuesOrdered, QueueOrdered, DeliveredInOrder
  <1>5. Notifications => NoLostNotification
    BY DEF Notifications, Notification, NoLostNotification, Remembered
  <1>6. QueuesInv /\ AllMessagesApart /\ [VchiNext]_allVars => AllMessagesApart'
    <2> SUFFICES ASSUME QueuesInv, AllMessagesApart, [VchiNext]_allVars PROVE AllMessagesApart'
      OBVIOUS
    <2>1. CASE [Next]_vars
      BY <2>1, QueueTypesHold, MessagesApartStep DEF QueuesInv, AllMessagesApart
    <2>2. CASE PanicsAlone
      BY <2>2 DEF PanicsAlone, AllMessagesApart, MessagesApart, queueVars
    <2> QED
      BY <2>1, <2>2, LayerStep
  <1>7. AllMessagesApart => NoneDeliveredTwice
    BY DEF AllMessagesApart, MessagesApart, NoneDeliveredTwice
  <1> QED
    BY <1>1, <1>2, <1>3, <1>4, <1>5, <1>6, <1>7, QueuesInvariant, PTL DEF VchiSpec
=============================================================================
