------------------------------- MODULE Services -------------------------------
(***************************************************************************)
(* The life of the connection and of the services: Instance::connect and   *)
(* Instance::create_service (vchiq/instance/mod.rs), State::connect,       *)
(* add_service, open_service, close_service and close_service_complete     *)
(* (vchiq/state.rs) on one side, the dispatch of slot_handler              *)
(* (vchiq/slothandler.rs) on the other, against a VideoCore that follows   *)
(* the protocol.                                                           *)
(*                                                                         *)
(* Each direction of the slots is a first-in first-out queue of message    *)
(* ids.  vchi::Instance takes &mut self to connect, open and close, so one *)
(* of these is in progress at a time; each is split at its await.          *)
(***************************************************************************)
EXTENDS Integers, Sequences, SlotMessage

CONSTANTS
    MaxServices,   \* VCHIQ_MAX_SERVICES: the length of the service table
    PeerCloses,    \* external: the ARM's ports whose services the VideoCore may close on its own
    MaxInFlight    \* bound: messages on their way in one direction

ASSUME ServicesAssumption ==
    /\ MaxServices \in 1 .. PortRange
    /\ PeerCloses \subseteq 0 .. (MaxServices - 1)
    /\ MaxInFlight \in Nat

VARIABLES
    conn_state,      \* State::conn_state
    connect,         \* permits of State::connect
    connected,       \* Instance::connected
    services,        \* SrvState::services, a service or NoService per local port
    unused_service,  \* SrvState::unused_service
    client,          \* the operation in progress and the port it is for
    panicked,        \* a todo!() of the code was reached
    to_vc,           \* message ids from the ARM to the VideoCore
    from_vc,         \* message ids from the VideoCore to the ARM
    vc_conn,         \* VideoCore: state of its end of each connection
    dropped          \* history: ports for which a DATA message was thrown away

armVars == <<conn_state, connect, connected, services, unused_service, client, panicked>>
vars == <<armVars, to_vc, from_vc, vc_conn, dropped>>

Ports == 0 .. (MaxServices - 1)

NoService == [srvstate |-> "NONE", closing |-> FALSE, remoteport |-> VCHIQ_PORT_FREE, remove_event |-> 0]

\* The VideoCore's port of the connection with the ARM's port p.
VcPort(p) == (p + 1) % PortRange

Idle == [op |-> "idle", port |-> 0]

Init ==
    /\ conn_state = "DISCONNECTED"
    /\ connect = 0
    /\ connected = FALSE
    /\ services = [p \in Ports |-> NoService]
    /\ unused_service = 0
    /\ client = Idle
    /\ panicked = FALSE
    /\ to_vc = <<>>
    /\ from_vc = <<>>
    /\ vc_conn = [p \in Ports |-> "none"]
    /\ dropped = {}

-----------------------------------------------------------------------------
\* queue_message, as far as the service's life is concerned: the message gets
\* behind the others.
Queue(id) == to_vc' = Append(to_vc, id)

\* Mutant: the event is looked at and not taken.
NotTaken(srv) == srv

\* remove_event.try_down()
Taken(srv) == [srv EXCEPT !.remove_event = @ - 1]

\* Instance::connect up to the wait of State::connect.
BeginConnect ==
    /\ client = Idle
    /\ ~connected
    /\ conn_state = "DISCONNECTED"
    /\ Queue(make_msg_id(CONNECT, 0, 0))
    /\ conn_state' = "CONNECTING"
    /\ client' = [op |-> "connect", port |-> 0]
    /\ UNCHANGED <<connect, connected, services, unused_service, panicked, from_vc, vc_conn, dropped>>

\* The rest of Instance::connect, once the slot handler saw the answer.
EndConnect ==
    /\ client.op = "connect"
    /\ connect > 0
    /\ connect' = connect - 1
    /\ conn_state' = "CONNECTED"
    /\ connected' = TRUE
    /\ client' = Idle
    /\ UNCHANGED <<services, unused_service, panicked, to_vc, from_vc, vc_conn, dropped>>

\* add_service: the first free entry below unused_service, else unused_service.
FreePort(p) ==
    \/ /\ p < unused_service
       /\ services[p] = NoService
       /\ \A q \in 0 .. (p - 1) : services[q] # NoService
    \/ /\ p = unused_service
       /\ \A q \in 0 .. (p - 1) : services[q] # NoService

\* Instance::create_service up to the wait of open_service.
BeginOpen(p) ==
    /\ client = Idle
    /\ connected
    /\ FreePort(p)
    /\ services' = [services EXCEPT ![p] = [NoService EXCEPT !.srvstate = "OPENING"]]
    /\ unused_service' = unused_service + 1
    /\ Queue(make_msg_id(OPEN, p, 0))
    /\ client' = [op |-> "open", port |-> p]
    /\ UNCHANGED <<conn_state, connect, connected, panicked, from_vc, vc_conn, dropped>>

\* The rest of open_service.  Every state a service can be in here, OPEN or
\* CLOSEWAIT, counts as success.
EndOpen ==
    /\ client.op = "open"
    /\ services[client.port].remove_event > 0
    /\ services' = [services EXCEPT ![client.port] = Taken(@)]
    /\ client' = Idle
    /\ UNCHANGED <<conn_state, connect, connected, unused_service, panicked, to_vc, from_vc, vc_conn, dropped>>

\* The ports of the services a client has a handle of.
Held(p) == services[p].srvstate \in {"OPEN", "CLOSEWAIT"}

\* Mutant: queue_message does not look at Service::closing.
MayAlwaysSend(srv) == TRUE

\* A closing service is refused.
MaySend(srv) == ~srv.closing

\* Instance::queue_message
QueueData(p) ==
    /\ client = Idle
    /\ Held(p)
    /\ MaySend(services[p])
    /\ Len(to_vc) < MaxInFlight
    /\ Queue(make_msg_id(DATA, p, services[p].remoteport))
    /\ UNCHANGED <<armVars, from_vc, vc_conn, dropped>>

\* free_service
Freed(srv) == [srv EXCEPT !.srvstate = "FREE", !.remove_event = @ + 1]

\* close_service up to its wait, for a service the VideoCore refused to open.
BeginCloseRefused(p) ==
    /\ client = Idle
    /\ services[p].srvstate = "CLOSEWAIT"
    /\ services' = [services EXCEPT ![p] = Freed([@ EXCEPT !.closing = TRUE])]
    /\ client' = [op |-> "close", port |-> p]
    /\ UNCHANGED <<conn_state, connect, connected, unused_service, panicked, to_vc, from_vc, vc_conn, dropped>>

\* Mutant: the service is freed without the answer of the VideoCore.
FreedAtOnce(srv) == Freed([srv EXCEPT !.closing = TRUE])

\* A service whose CLOSE message was queued.
CloseSent(srv) == [srv EXCEPT !.closing = TRUE, !.srvstate = "CLOSESENT"]

\* close_service up to its wait, for an open service.
BeginClose(p) ==
    /\ client = Idle
    /\ services[p].srvstate = "OPEN"
    /\ Queue(make_msg_id(CLOSE, p, services[p].remoteport % PortRange))
    /\ services' = [services EXCEPT ![p] = CloseSent(@)]
    /\ client' = [op |-> "close", port |-> p]
    /\ UNCHANGED <<conn_state, connect, connected, unused_service, panicked, from_vc, vc_conn, dropped>>

\* The rest of close_service.
EndClose ==
    /\ client.op = "close"
    /\ services[client.port].remove_event > 0
    /\ services' = [services EXCEPT ![client.port] = Taken(@)]
    /\ client' = Idle
    /\ UNCHANGED <<conn_state, connect, connected, unused_service, panicked, to_vc, from_vc, vc_conn, dropped>>

-----------------------------------------------------------------------------
\* slot_handler takes the next message.
Receive(msg_type) ==
    /\ from_vc # <<>>
    /\ msg_type_from_id(Head(from_vc)) = msg_type
    /\ from_vc' = Tail(from_vc)
    /\ UNCHANGED <<conn_state, connected, unused_service, client, to_vc, vc_conn>>

local_port  == dst_port_from_id(Head(from_vc))
remote_port == src_port_from_id(Head(from_vc))

\* service_by_port returns None.
NotThere == services[local_port].srvstate \in {"NONE", "FREE"}

HandleConnect ==
    /\ Receive(CONNECT)
    /\ connect' = connect + 1
    /\ UNCHANGED <<services, panicked, dropped>>

\* Mutant: the port of the peer is not kept.
AcknowledgedWithoutPort(srv, port) == [srv EXCEPT !.srvstate = "OPEN", !.remove_event = @ + 1]

\* A service whose OPEN message was acknowledged.
Acknowledged(srv, port) ==
    [srv EXCEPT !.remoteport = port, !.srvstate = "OPEN", !.remove_event = @ + 1]

HandleOpenAck ==
    /\ Receive(OPENACK)
    /\ panicked' = NotThere
    /\ services' = IF services[local_port].srvstate = "OPENING"
                   THEN [services EXCEPT ![local_port] = Acknowledged(@, remote_port)]
                   ELSE services
    /\ UNCHANGED <<connect, dropped>>

\* DATA is handed to the client's service_callback, or silently dropped.
Accepts == /\ services[local_port].remoteport = remote_port
           /\ services[local_port].srvstate = "OPEN"

HandleData ==
    /\ Receive(DATA)
    /\ panicked' = NotThere
    /\ dropped' = IF Accepts THEN dropped ELSE dropped \cup {local_port}
    /\ UNCHANGED <<connect, services>>

\* close_service_complete for a service in CLOSESENT: CLOSED, then freed.
Completed(srv) == Freed([srv EXCEPT !.remoteport = VCHIQ_PORT_FREE])

\* Mutant: a refusal does not raise remove_event.
CloseReceivedSilently(srv) ==
    CASE srv.srvstate = "OPENING" -> [srv EXCEPT !.closing = TRUE, !.srvstate = "CLOSEWAIT"]
      [] srv.srvstate = "CLOSESENT" -> Completed([srv EXCEPT !.closing = TRUE])
      [] OTHER -> [srv EXCEPT !.closing = TRUE]

\* What the CLOSE branch of slot_handler makes of a service: in the other
\* states it only warns.
CloseReceived(srv) ==
    CASE srv.srvstate = "OPENING" ->
           [srv EXCEPT !.closing = TRUE, !.srvstate = "CLOSEWAIT", !.remove_event = @ + 1]
      [] srv.srvstate = "CLOSESENT" -> Completed([srv EXCEPT !.closing = TRUE])
      [] OTHER -> [srv EXCEPT !.closing = TRUE]

\* todo!() for a CLOSE from a peer the service is not connected with.
StrangersClose ==
    /\ services[local_port].remoteport \notin {remote_port, VCHIQ_PORT_FREE}
    /\ local_port = 0

HandleClose ==
    /\ Receive(CLOSE)
    /\ panicked' = (NotThere \/ StrangersClose)
    /\ services' = IF panicked' THEN services
                   ELSE [services EXCEPT ![local_port] = CloseReceived(@)]
    /\ UNCHANGED <<connect, dropped>>

slot_handler == HandleConnect \/ HandleOpenAck \/ HandleData \/ HandleClose

-----------------------------------------------------------------------------
\* External: the VideoCore.
VcSends(id) == from_vc' = Append(from_vc, id)

VcTakes(msg_type) ==
    /\ to_vc # <<>>
    /\ msg_type_from_id(Head(to_vc)) = msg_type
    /\ to_vc' = Tail(to_vc)
    /\ UNCHANGED <<armVars, dropped>>

VcConnects ==
    /\ VcTakes(CONNECT)
    /\ VcSends(make_msg_id(CONNECT, 0, 0))
    /\ UNCHANGED vc_conn

VcPeer == src_port_from_id(Head(to_vc))

VcAccepts ==
    /\ VcTakes(OPEN)
    /\ VcSends(make_msg_id(OPENACK, VcPort(VcPeer), VcPeer))
    /\ vc_conn' = [vc_conn EXCEPT ![VcPeer] = "open"]

\* A refusal is a CLOSE without a port of the VideoCore.
VcRefuses ==
    /\ VcTakes(OPEN)
    /\ VcSends(make_msg_id(CLOSE, 0, VcPeer))
    /\ vc_conn' = [vc_conn EXCEPT ![VcPeer] = "refused"]

VcReceivesData == VcTakes(DATA) /\ UNCHANGED <<from_vc, vc_conn>>

\* A CLOSE is answered with a CLOSE, unless it is the answer to one.
VcCloses ==
    /\ VcTakes(CLOSE)
    /\ IF vc_conn[VcPeer] = "open"
       THEN VcSends(make_msg_id(CLOSE, VcPort(VcPeer), VcPeer))
       ELSE UNCHANGED from_vc
    /\ vc_conn' = [vc_conn EXCEPT ![VcPeer] = "closed"]

VcSendsData(p) ==
    /\ vc_conn[p] = "open"
    /\ Len(from_vc) < MaxInFlight
    /\ VcSends(make_msg_id(DATA, VcPort(p), p))
    /\ UNCHANGED <<armVars, to_vc, vc_conn, dropped>>

VcInitiatesClose(p) ==
    /\ p \in PeerCloses
    /\ vc_conn[p] = "open"
    /\ VcSends(make_msg_id(CLOSE, VcPort(p), p))
    /\ vc_conn' = [vc_conn EXCEPT ![p] = "closesent"]
    /\ UNCHANGED <<armVars, to_vc, dropped>>

VcAnswers == VcConnects \/ VcAccepts \/ VcRefuses \/ VcReceivesData \/ VcCloses

-----------------------------------------------------------------------------
ClientContinues == EndConnect \/ EndOpen \/ EndClose

Next ==
    \/ /\ ~panicked
       /\ \/ BeginConnect
          \/ \E p \in Ports : BeginOpen(p) \/ QueueData(p) \/ BeginClose(p) \/ BeginCloseRefused(p)
          \/ ClientContinues
          \/ slot_handler
    \/ VcAnswers
    \/ \E p \in Ports : VcSendsData(p) \/ VcInitiatesClose(p)

Spec == Init /\ [][Next]_vars

\* The slot handler and every waiting future wake themselves, so the executor
\* polls them again; the VideoCore answers.
Fairness ==
    /\ WF_vars(~panicked /\ ClientContinues)
    /\ WF_vars(~panicked /\ slot_handler)
    /\ WF_vars(VcAnswers)

FairSpec == Spec /\ Fairness

-----------------------------------------------------------------------------
ServiceStates == {"NONE", "OPENING", "OPEN", "CLOSESENT", "CLOSEWAIT", "FREE"}

\* The values of the variables.
TypeOK ==
    /\ conn_state \in {"DISCONNECTED", "CONNECTING", "CONNECTED"}
    /\ connect \in 0 .. 1
    /\ connected \in BOOLEAN
    /\ services \in [Ports -> [srvstate : ServiceStates, closing : BOOLEAN,
                               remoteport : 0 .. VCHIQ_PORT_FREE, remove_event : 0 .. 1]]
    /\ unused_service \in 0 .. MaxServices
    /\ client \in [op : {"idle", "connect", "open", "close"}, port : Ports]
    /\ panicked \in BOOLEAN
    /\ vc_conn \in [Ports -> {"none", "open", "refused", "closesent", "closed"}]
    /\ dropped \subseteq Ports

Range(seq) == {seq[i] : i \in 1 .. Len(seq)}

\* No todo!() of slot_handler is reached: a message of the VideoCore never
\* finds its service gone or connected with another peer.
NoPanic == ~panicked

\* Once a service is freed, nothing for its port is on its way to slot_handler
\* any more, and the VideoCore's end is not open.
FreePortQuiet ==
    \A p \in Ports :
        services[p].srvstate = "FREE" =>
            /\ \A id \in Range(from_vc) : msg_type_from_id(id) # CONNECT => dst_port_from_id(id) # p
            /\ vc_conn[p] \in {"refused", "closed", "closesent"}

\* A DATA message reaches the VideoCore under the port of the peer that
\* accepted the service, never under VCHIQ_PORT_FREE, which would spoil the
\* source port.
DataFindsPeer ==
    \A id \in Range(to_vc) :
        msg_type_from_id(id) = DATA =>
            /\ src_port_from_id(id) \in Ports
            /\ vc_conn[src_port_from_id(id)] \notin {"none", "refused", "closed"}
            /\ dst_port_from_id(id) = VcPort(src_port_from_id(id))

\* slot_handler throws away a DATA message only when the client has begun to
\* close the service: the OPENACK is always seen first.
DroppedOnlyWhenClosing ==
    \A p \in dropped : services[p].srvstate \in {"CLOSESENT", "FREE"}

\* The close_service in progress was called after slot_handler had taken the
\* VideoCore's own CLOSE: its CLOSE is taken for the answer, and none comes.
LostCause ==
    /\ client.op = "close"
    /\ services[client.port].srvstate = "CLOSESENT"
    /\ vc_conn[client.port] # "open"
    /\ \A id \in Range(from_vc) : ~(msg_type_from_id(id) = CLOSE /\ dst_port_from_id(id) = client.port)

\* connect, open_service and close_service return, also when the CLOSE messages
\* of the two sides cross.  Only a close_service that is called after the
\* VideoCore's CLOSE was handled waits for ever.
OperationsReturn == (client.op # "idle" /\ ~LostCause) ~> client.op = "idle"

\* "like close_service_internal called with close_recvd = true": when the
\* VideoCore closes a service, the handshake completes on the ARM's side too.
PeerCloseCompletes ==
    \A p \in Ports : vc_conn[p] = "closesent" ~> services[p].srvstate \in {"CLOSERECVD", "CLOSEWAIT", "CLOSED", "FREE"}
=============================================================================
