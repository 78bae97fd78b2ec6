--------------------------------- MODULE Vchi ---------------------------------
(***************************************************************************)
(* The layer clients use (vchi/instance.rs, vchi/completion.rs), on top of *)
(* Completions: a map of services under a spinning read-write lock.        *)
(* dequeue_message keeps the write guard while it waits, service_close the *)
(* read guard, and the completion handler looks services up in the map.    *)
(*                                                                         *)
(* One core polls all tasks.  A task that spins for the lock keeps the     *)
(* core from the task that would release it.  connect, service_open and    *)
(* service_close take &mut self: the borrow checker keeps every other call *)
(* from overlapping them.  Which lock() and read() can spin follows from   *)
(* the guards that are held.                                               *)
(***************************************************************************)
EXTENDS Completions

CONSTANTS
    Clients,    \* the number of tasks that share the instance
    Eager,      \* external: the services the VideoCore writes to without being asked
    PeerCloses  \* external: the services the VideoCore may close on its own

ASSUME VchiAssumption ==
    /\ Clients \in Nat \ {0}
    /\ Eager \subseteq Services
    /\ PeerCloses \subseteq Services

VARIABLES
    initialized,    \* Instance::initialized
    connected,      \* Instance::connected: the completion handler was spawned
    services,       \* Instance::services: the handles in the map
    conn_state,     \* vchiq: State::conn_state
    connect_sent,   \* CONNECT messages the VideoCore has not answered
    connect_event,  \* vchiq: permits of State::connect
    srvstate,       \* vchiq: Service::srvstate of each service
    remove_event,   \* vchiq: permits of Service::remove_event
    call,           \* the call with &mut self in progress, and its service
    read_guards,    \* the services whose service_close holds a read guard of the map
    write_guard,    \* the service whose dequeue_message holds the write guard, or None
    asked,          \* history: the services whose client sent a message
    peer_closed,    \* history: the services whose CLOSE the VideoCore sent unasked
    spinning        \* who spins for the lock of the map

connectVars == <<conn_state, connect_sent, connect_event>>
stateVars   == <<connectVars, srvstate, remove_event>>
guardVars   == <<read_guards, write_guard>>
vchiVars    == <<initialized, connected, services, stateVars, call, guardVars, asked, peer_closed,
                 spinning>>
allVars     == <<vars, vchiVars>>

NoCall == [op |-> "none", service |-> None]

VchiInit ==
    /\ Init
    /\ initialized = FALSE
    /\ connected = FALSE
    /\ services = {}
    /\ conn_state = "DISCONNECTED"
    /\ connect_sent = 0
    /\ connect_event = 0
    /\ srvstate = [s \in Services |-> "NONE"]
    /\ remove_event = [s \in Services |-> 0]
    /\ call = NoCall
    /\ read_guards = {}
    /\ write_guard = None
    /\ asked = {}
    /\ peer_closed = {}
    /\ spinning = "nobody"

-----------------------------------------------------------------------------
\* services.read() gets a guard at once.
ReadFree == write_guard = None

\* services.lock() gets a guard at once.
WriteFree == write_guard = None /\ read_guards = {}

\* The clients in the middle of a dequeue_message.
Waiting == {s \in Services : reader[s] = "waiting"}

\* A call with &self may begin: no call with &mut self is in progress.
SharedCall == call = NoCall

\* Mutant: the method takes &self.
CalledShared == SharedCall

\* A call with &mut self may begin: no other call is in progress.
ExclusiveCall == SharedCall /\ Waiting = {}

Calls(op, s) == call' = [op |-> op, service |-> s]
Becomes(s, there) == srvstate' = [srvstate EXCEPT ![s] = there]
Up(s) == remove_event' = [remove_event EXCEPT ![s] = @ + 1]
Down(s) == remove_event[s] > 0 /\ remove_event' = [remove_event EXCEPT ![s] = @ - 1]

initialize ==
    /\ ExclusiveCall
    /\ ~initialized
    /\ initialized' = TRUE
    /\ UNCHANGED <<vars, connected, services, stateVars, call, guardVars, asked, peer_closed, spinning>>

\* Mutant: a connect that follows a dropped one sends CONNECT again.
connect_again ==
    /\ ExclusiveCall
    /\ ~connected
    /\ connect_sent' = connect_sent + 1
    /\ conn_state' = "CONNECTING"
    /\ Calls("connect", None)
    /\ UNCHANGED <<vars, initialized, connected, services, connect_event, srvstate, remove_event,
                   guardVars, asked, peer_closed, spinning>>

\* Mutant: connect begins with an empty semaphore.
connect_resets ==
    /\ ExclusiveCall
    /\ ~connected
    /\ connect_sent' = IF conn_state = "DISCONNECTED" THEN connect_sent + 1 ELSE connect_sent
    /\ conn_state' = "CONNECTING"
    /\ connect_event' = 0
    /\ Calls("connect", None)
    /\ UNCHANGED <<vars, initialized, connected, services, srvstate, remove_event, guardVars, asked,
                   peer_closed, spinning>>

\* connect up to its wait.  One that follows a dropped one sends nothing again.
connect ==
    /\ ExclusiveCall
    /\ ~connected
    /\ connect_sent' = IF conn_state = "DISCONNECTED" THEN connect_sent + 1 ELSE connect_sent
    /\ conn_state' = "CONNECTING"
    /\ Calls("connect", None)
    /\ UNCHANGED <<vars, initialized, connected, services, connect_event, srvstate, remove_event,
                   guardVars, asked, peer_closed, spinning>>

\* The slot handler sees the VideoCore's answer to a CONNECT message.
ConnectAnswered ==
    /\ connect_sent > 0
    /\ connect_sent' = connect_sent - 1
    /\ connect_event' = connect_event + 1
    /\ UNCHANGED <<vars, initialized, connected, services, conn_state, srvstate, remove_event,
                   call, guardVars, asked, peer_closed, spinning>>

ConnectReturns ==
    /\ call.op = "connect"
    /\ connect_event > 0
    /\ connect_event' = connect_event - 1
    /\ conn_state' = "CONNECTED"
    /\ connected' = TRUE
    /\ call' = NoCall
    /\ UNCHANGED <<vars, initialized, services, connect_sent, srvstate, remove_event, guardVars, asked,
                   peer_closed, spinning>>

\* Err(NotInitialized) and Err(NotConnected) change nothing.
service_open(s) ==
    /\ ExclusiveCall
    /\ initialized /\ connected
    /\ srvstate[s] = "NONE"
    /\ Becomes(s, "OPENING")
    /\ Calls("open", s)
    /\ UNCHANGED <<vars, initialized, connected, services, connectVars, remove_event, guardVars,
                   asked, peer_closed, spinning>>

\* The slot handler sees the VideoCore's answer to the OPEN message, OPENACK or CLOSE.
OpenAnswered(s) ==
    /\ srvstate[s] = "OPENING"
    /\ Becomes(s, "OPEN") \/ Becomes(s, "CLOSEWAIT")
    /\ Up(s)
    /\ UNCHANGED <<vars, initialized, connected, services, connectVars, call, guardVars, asked,
                   peer_closed, spinning>>

\* The service enters the map: open_service takes a refusal for a success.
OpenReturns(s) ==
    /\ call = [op |-> "open", service |-> s]
    /\ WriteFree
    /\ Down(s)
    /\ services' = services \cup {s}
    /\ call' = NoCall
    /\ UNCHANGED <<vars, initialized, connected, connectVars, srvstate, guardVars, asked, peer_closed,
                   spinning>>

\* Mutant: the service leaves the map before it is closed.
service_close_removes(s) ==
    /\ ExclusiveCall
    /\ s \in services
    /\ srvstate[s] = "OPEN"
    /\ Becomes(s, "CLOSESENT")
    /\ Calls("close", s)
    /\ services' = services \ {s}
    /\ UNCHANGED <<vars, initialized, connected, connectVars, remove_event, guardVars, asked,
                   peer_closed, spinning>>

\* service_close with a handle in the map, up to the wait.  The read guard stays.
service_close(s) ==
    /\ ExclusiveCall
    /\ ReadFree
    /\ s \in services
    /\ srvstate[s] = "OPEN"
    /\ Becomes(s, "CLOSESENT")
    /\ Calls("close", s)
    /\ read_guards' = read_guards \cup {s}
    /\ UNCHANGED <<vars, initialized, connected, services, connectVars, remove_event, write_guard,
                   asked, peer_closed, spinning>>

\* The same for a service that was refused: free_service, and no wait.
CloseRefused(s) ==
    /\ ExclusiveCall
    /\ WriteFree
    /\ s \in services
    /\ srvstate[s] = "CLOSEWAIT"
    /\ Becomes(s, "FREE")
    /\ services' = services \ {s}
    /\ UNCHANGED <<vars, initialized, connected, connectVars, remove_event, call, guardVars, asked,
                   peer_closed, spinning>>

\* The same after a dropped service_close whose answer is outstanding: todo!().
\* When the answer has come close_service returns an error and nothing changes.
CloseAgain(s) ==
    /\ ExclusiveCall
    /\ ReadFree
    /\ s \in services
    /\ srvstate[s] = "CLOSESENT"
    /\ panicked' = TRUE
    /\ UNCHANGED <<queueVars, completionVars, reader, taken, overrun, notified, vchiVars>>

\* The slot handler sees the CLOSE of a VideoCore that closes the service on its
\* own: only Service::closing is set, the service stays OPEN.
PeerClosed(s) ==
    /\ s \in PeerCloses \ peer_closed
    /\ srvstate[s] = "OPEN"
    /\ peer_closed' = peer_closed \cup {s}
    /\ UNCHANGED <<vars, initialized, connected, services, stateVars, call, guardVars, asked, spinning>>

\* The slot handler sees the VideoCore's answer to the CLOSE message, which does
\* not come for a service that the VideoCore closed before.
CloseAnswered(s) ==
    /\ srvstate[s] = "CLOSESENT"
    /\ s \notin peer_closed
    /\ Becomes(s, "FREE")
    /\ Up(s)
    /\ UNCHANGED <<vars, initialized, connected, services, connectVars, call, guardVars, asked,
                   peer_closed, spinning>>

\* Mutant: the entry of the map is forgotten.
Kept(s) == services

\* The service leaves the map.
Removed(s) == services \ {s}

\* Mutant: the read guard lives until service_close returns.
GuardsKept(s) == read_guards

\* The block of service_close ends, and with it the life of its read guard.
GuardsAfterClose(s) == read_guards \ {s}

\* The vchiq service is free: service_close gives up its read guard and takes
\* the write guard.
CloseReturns(s) ==
    /\ call = [op |-> "close", service |-> s]
    /\ write_guard = None /\ GuardsAfterClose(s) = {}
    /\ Down(s)
    /\ services' = Removed(s)
    /\ read_guards' = GuardsAfterClose(s)
    /\ call' = NoCall
    /\ UNCHANGED <<vars, initialized, connected, connectVars, srvstate, write_guard, asked, peer_closed,
                   spinning>>

\* The client drops the future of connect, service_open or service_close, and
\* the guard with it.
CallDropped ==
    /\ call.service \in Impatient \/ (call.op = "connect" /\ Impatient # {})
    /\ call' = NoCall
    /\ read_guards' = read_guards \ {call.service}
    /\ UNCHANGED <<vars, initialized, connected, services, stateVars, write_guard, asked, peer_closed,
                   spinning>>

-----------------------------------------------------------------------------
\* queue_message never waits; State::queue_message is the subject of Transmit.
\* A service that is closing or was refused gets Err(ServiceAlreadyClosed).
queue_message(s) ==
    /\ SharedCall
    /\ ReadFree
    /\ s \in services
    /\ srvstate[s] = "OPEN" /\ s \notin peer_closed
    /\ asked' = asked \cup {s}
    /\ UNCHANGED <<vars, initialized, connected, services, stateVars, call, guardVars, peer_closed,
                   spinning>>

\* The first poll of dequeue_message.  peek_buf is None: nothing fills it.  The
\* write guard stays with a future that waits.
dequeue_message(s) ==
    /\ SharedCall
    /\ WriteFree
    /\ s \in services
    /\ \/ Dequeue(s) /\ UNCHANGED write_guard
       \/ DequeueWaits(s) /\ write_guard' = s
    /\ UNCHANGED <<initialized, connected, services, stateVars, call, read_guards, asked, peer_closed,
                   spinning>>

\* The future of a waiting dequeue_message ends, and with it its write guard.
GuardDropped ==
    /\ write_guard' = None
    /\ UNCHANGED <<initialized, connected, services, stateVars, call, read_guards, asked, peer_closed,
                   spinning>>

\* A later poll of dequeue_message that returns a message.
DequeueReturns(s) ==
    /\ reader[s] = "waiting"
    /\ Dequeue(s)
    /\ GuardDropped

\* The client drops the future of a waiting dequeue_message.
DequeueDropped(s) ==
    /\ CancelDequeue(s)
    /\ GuardDropped

\* The slot handler hands a DATA message to an open vchiq service.
MessageArrives(s) ==
    /\ srvstate[s] = "OPEN" /\ s \notin peer_closed
    /\ s \in Eager \cup asked
    /\ service_callback(s)
    /\ UNCHANGED vchiVars

\* A client comes to a read() or a lock() that finds a guard in its way:
\* queue_message or dequeue_message of a client that is in no call;
\* service_close, at its read() or, for a refused service, at its lock();
\* service_open and service_close at the lock() behind their wait.
ClientMeetsGuard(client) ==
    \/ client = "shared" /\ SharedCall /\ Clients > Cardinality(Waiting) /\ ~WriteFree
    \/ client = "exclusive" /\ ExclusiveCall
         /\ \E s \in services : ~ReadFree \/ (srvstate[s] = "CLOSEWAIT" /\ ~WriteFree)
    \/ client = "open" /\ call.op = "open" /\ remove_event[call.service] > 0 /\ ~WriteFree
    \/ client = "close" /\ call.op = "close" /\ remove_event[call.service] > 0
         /\ ~(write_guard = None /\ GuardsAfterClose(call.service) = {})

\* lock() or read() spins.
ClientSpins ==
    \E client \in {"shared", "exclusive", "open", "close"} :
        /\ ClientMeetsGuard(client)
        /\ spinning' = client
        /\ UNCHANGED <<vars, initialized, connected, services, stateVars, call, guardVars, asked,
                       peer_closed>>

-----------------------------------------------------------------------------
Completed == {completions[i % MaxCompletions] : i \in TakenPositions}

\* services.get(&service_handle) is None for a completion of this poll.
Unlisted == ~(Completed \subseteq services)

\* A poll of the completion handler that calls clients back.
HandlerCallsBack ==
    /\ connected
    /\ ReadFree
    /\ ~Unlisted
    /\ completion_handler
    /\ UNCHANGED vchiVars

\* unwrap() on None.
HandlerPanics ==
    /\ connected
    /\ ReadFree
    /\ Unlisted
    /\ panicked' = TRUE
    /\ UNCHANGED <<queueVars, completionVars, reader, taken, overrun, notified, vchiVars>>

\* read() spins in the handler, before the first of its completions.
HandlerSpins ==
    /\ connected
    /\ ~ReadFree
    /\ completion_remove # completion_insert
    /\ spinning' = "handler"
    /\ UNCHANGED <<vars, initialized, connected, services, stateVars, call, guardVars, asked, peer_closed>>

Running == ~panicked /\ spinning = "nobody"

Handler == HandlerCallsBack \/ HandlerPanics \/ HandlerSpins

VchiNext ==
    /\ Running
    /\ \/ initialize \/ connect
       \/ ConnectAnswered \/ ConnectReturns
       \/ CallDropped
       \/ \E s \in Services :
             \/ service_open(s) \/ OpenAnswered(s) \/ OpenReturns(s)
             \/ service_close(s) \/ CloseAnswered(s) \/ CloseReturns(s)
             \/ CloseRefused(s) \/ CloseAgain(s) \/ PeerClosed(s)
             \/ queue_message(s)
             \/ dequeue_message(s) \/ DequeueReturns(s) \/ DequeueDropped(s)
             \/ MessageArrives(s)
       \/ ClientSpins
       \/ Handler

VchiSpec == VchiInit /\ [][VchiNext]_allVars

\* The waits of connect, open and close, a waiting dequeue_message and the completion
\* handler wake themselves; the VideoCore answers.
VchiFairSpec ==
    /\ VchiSpec
    /\ WF_allVars(Running /\ Handler)
    /\ WF_allVars(Running /\ (ConnectAnswered \/ ConnectReturns))
    /\ \A s \in Services :
         /\ WF_allVars(Running /\ (OpenAnswered(s) \/ OpenReturns(s)))
         /\ WF_allVars(Running /\ (CloseAnswered(s) \/ CloseReturns(s)))
         /\ WF_allVars(Running /\ DequeueReturns(s))

-----------------------------------------------------------------------------
\* The values of the variables of both layers.
VchiTypeOK ==
    /\ TypeOK
    /\ {initialized, connected} \subseteq BOOLEAN
    /\ services \subseteq Services
    /\ conn_state \in {"DISCONNECTED", "CONNECTING", "CONNECTED"}
    /\ connect_sent \in 0 .. 1
    /\ connect_event \in 0 .. 1
    /\ srvstate \in [Services -> {"NONE", "OPENING", "OPEN", "CLOSEWAIT", "CLOSESENT", "FREE"}]
    /\ remove_event \in [Services -> 0 .. 1]
    /\ call \in [op : {"none", "connect", "open", "close"}, service : Services \cup {None}]
    /\ read_guards \subseteq Services
    /\ write_guard \in Services \cup {None}
    /\ asked \subseteq Services
    /\ peer_closed \subseteq Services
    /\ spinning \in {"nobody", "shared", "exclusive", "open", "close", "handler"}

\* The write guard is held exactly while a dequeue_message waits, and nobody
\* opens, closes or removes a service under it.
WaitKeepsService ==
    /\ \A s \in Services : reader[s] = "waiting" <=> write_guard = s
    /\ write_guard # None => write_guard \in services /\ call = NoCall /\ read_guards = {}

\* Only queue_message and dequeue_message of another client and the completion
\* handler ever spin for the lock of the map, and only behind a waiting
\* dequeue_message.  The read guard that service_close keeps while it waits
\* stops nobody, not the lock() that follows it either, and the lock()s of
\* service_open and service_close find the lock free.
OnlyDequeueBlocks == spinning # "nobody" => spinning \in {"shared", "handler"} /\ Waiting # {}

\* The map holds exactly the vchiq services a client can use, but for the one
\* being opened or closed, as long as its client drops no future: no handle of
\* a freed service stays, no open service is forgotten.
MapFollowsServices ==
    \A s \in Services \ Impatient :
        call.service # s => (s \in services <=> srvstate[s] \in {"OPEN", "CLOSEWAIT"})

\* The unwrap() of the completion handler fails only for a service that was
\* closed with a completion on its way, or that the VideoCore wrote to before
\* service_open put it into the map; close_service meets its todo!() only when
\* a client dropped service_close and calls it again; and the unwrap() of
\* dequeue_message fails only on an overwritten queue.
OnlyKnownPanics ==
    panicked =>
        \/ \E s \in Services \ services : Announced(s) /\ (srvstate[s] = "FREE" \/ s \in Eager)
        \/ \E s \in Impatient : s \in services /\ srvstate[s] = "CLOSESENT" /\ call = NoCall
        \/ \E s \in Services : FoundEmpty(s)

\* The service_close in progress is of a service that the VideoCore closed first.
LostCause == call.op = "close" /\ call.service \in peer_closed

\* connect, service_open and service_close return or are dropped, whatever the
\* completion handler does meanwhile, unless that panics; a connect that
\* follows a dropped one returns too.  A service_close of a service that the
\* VideoCore closed first waits for ever.
CallsReturn == (call # NoCall /\ ~LostCause) ~> (panicked \/ call = NoCall)

\* A message that arrives is taken by the client that waits for it, or its
\* client is called back, unless a task panics or spins for the lock: no
\* dropped future of another client and no call in progress keeps it back.
MessageReachesClient ==
    \A s \in Services \ Impatient :
        msg_insert[s] # msg_remove[s] ~> (s \in notified \/ msg_insert[s] = msg_remove[s] \/ ~Running)

-----------------------------------------------------------------------------
\* completion_handler "never finishes and constantly requests the VCHIQ if
\* there are service requests completed": its core is never kept from it.
HandlerNeverStuck == spinning = "nobody"
=============================================================================
