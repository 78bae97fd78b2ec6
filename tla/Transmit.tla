------------------------------- MODULE Transmit -------------------------------
(***************************************************************************)
(* The ARM's side of the message stream: State::queue_message and          *)
(* State::reserve_space (vchiq/state.rs) put messages into the local slots *)
(* and publish them through tx_pos; the VideoCore reads them in order.     *)
(*                                                                         *)
(* queue_message never suspends, so on one core a call runs to its end.    *)
(* Cores are the cores that run the executor; a call is split where the    *)
(* code releases and takes again the locks of slot_state and quota_state:  *)
(* after the quota checks and after reserve_space.                         *)
(***************************************************************************)
EXTENDS Sequences, FiniteSets, Slots

CONSTANTS
    Cores,      \* the cores that run tasks; one element in the shipped build
    Services,   \* the services a client opens, each under a port of its own
    DataSizes   \* the payload sizes clients pass to queue_message; they fit into a slot

ASSUME TransmitAssumption ==
    /\ Services # {}
    /\ DataSizes \subseteq 0 .. (SlotSize - HdrSize)
    /\ calc_msg_stride(12) <= SlotSize \* an OPEN message fits into a slot too

VARIABLES
    local_tx_pos,        \* SlotState::local_tx_pos
    tx_data,             \* SlotState::tx_data: slot index and offset, or NoPosition
    slot_data,           \* the 8 byte cells of the shared memory, by address
    tx_pos,              \* SharedState::tx_pos of the local side, what the VideoCore sees
    conn_state,          \* State::conn_state, as far as it gates the CONNECT message
    srv,                 \* stage of each service's life
    data_use_count,      \* QuotaState::data_use_count
    previous_data_index, \* QuotaState::previous_data_index
    slot_use_count,      \* ServiceQuota::slot_use_count of each service
    previous_tx_index,   \* ServiceQuota::previous_tx_index of each service
    pc,                  \* where each core is in queue_message
    call,                \* the message each core is queueing
    slot_position,       \* the position reserve_space returned to each core
    panicked,            \* an assertion of the code failed
    sent,                \* history: messages queued, in the order of publication
    padded,              \* history: addresses overwritten by a padding header
    vc_pos,              \* VideoCore: position of the next message to read
    received             \* VideoCore: what it read

slotVars  == <<local_tx_pos, tx_data, slot_data, tx_pos>>
quotaVars == <<data_use_count, previous_data_index, slot_use_count, previous_tx_index>>
callVars  == <<pc, call, slot_position>>
vcVars    == <<vc_pos, received>>
vars == <<slotVars, quotaVars, callVars, vcVars, conn_state, srv, panicked, sent, padded>>

-----------------------------------------------------------------------------
NoService == "no service"
NoMessage == [type |-> "NONE", service |-> NoService, size |-> 0]

\* State::connect, State::open_service (OpenPayload has 12 bytes),
\* Instance::queue_message and State::close_service build these messages.
ConnectMsg    == [type |-> "CONNECT", service |-> NoService, size |-> 0]
OpenMsg(s)    == [type |-> "OPEN",    service |-> s, size |-> 12]
DataMsg(s, n) == [type |-> "DATA",    service |-> s, size |-> n]
CloseMsg(s)   == [type |-> "CLOSE",   service |-> s, size |-> 0]
PaddingMsg(n) == [type |-> "PADDING", service |-> NoService, size |-> n]

Messages ==
    {ConnectMsg} \cup {OpenMsg(s) : s \in Services} \cup {CloseMsg(s) : s \in Services}
      \cup {DataMsg(s, n) : s \in Services, n \in DataSizes}

Stride(m) == calc_msg_stride(m.size)

-----------------------------------------------------------------------------
\* State::new
default_slot_quota    == slot_queue_available \div 2
data_quota            == slot_queue_available - 1

Init ==
    /\ local_tx_pos = 0
    /\ tx_data = NoPosition
    /\ slot_data = InitialMemory(PaddingMsg(0))
    /\ tx_pos = 0
    /\ conn_state = "DISCONNECTED"
    /\ srv = [s \in Services |-> "none"]
    /\ data_use_count = 0
    /\ previous_data_index = -1
    /\ slot_use_count = [s \in Services |-> 0]
    /\ previous_tx_index = [s \in Services |-> 0]
    /\ pc = [c \in Cores |-> "idle"]
    /\ call = [c \in Cores |-> NoMessage]
    /\ slot_position = [c \in Cores |-> NoPosition]
    /\ panicked = FALSE
    /\ sent = <<>>
    /\ padded = {}
    /\ vc_pos = 0
    /\ received = <<>>

\* A core that waits for a quota spins in Semaphore::down() with the read
\* guards of slot_state and quota_state in its hands: nobody else can write
\* to them.
Unlocked == \A c \in Cores : pc[c] # "quota_wait"

-----------------------------------------------------------------------------
\* A core starts queue_message for m.  A message other than DATA skips the
\* quota checks.
Call(c, m) ==
    /\ pc[c] = "idle"
    /\ pc' = [pc EXCEPT ![c] = IF m.type = "DATA" THEN "check" ELSE "reserve"]
    /\ call' = [call EXCEPT ![c] = m]

\* State::connect, from its entry to the wait for the answer.
Connect(c) ==
    /\ conn_state = "DISCONNECTED"
    /\ conn_state' = "CONNECTING"
    /\ Call(c, ConnectMsg)
    /\ UNCHANGED <<slotVars, quotaVars, vcVars, slot_position, srv, panicked, sent, padded>>

\* Mutant: add_service leaves previous_tx_index as it is.
FirstTxIndexKept(s) == previous_tx_index[s]

\* add_service lets the first DATA message of a new service count a slot.
FirstTxIndex(s) ==
    IF slot_use_count[s] = 0
    THEN slot_queue_index_from_pos(local_tx_pos) - 1
    ELSE previous_tx_index[s]

\* State::add_service for the service table and its quota.  Instance::connect
\* has returned, so the VideoCore answered the CONNECT message.
AddService(c, s) ==
    /\ pc[c] = "idle"
    /\ received # <<>>
    /\ srv[s] = "none"
    /\ Unlocked
    /\ srv' = [srv EXCEPT ![s] = "added"]
    /\ previous_tx_index' = [previous_tx_index EXCEPT ![s] = FirstTxIndex(s)]
    /\ UNCHANGED <<slotVars, callVars, vcVars, data_use_count, previous_data_index,
                   slot_use_count, conn_state, panicked, sent, padded>>

\* State::open_service, from its entry to the wait for the OPENACK.
OpenService(c, s) ==
    /\ srv[s] = "added"
    /\ srv' = [srv EXCEPT ![s] = "opening"]
    /\ Call(c, OpenMsg(s))
    /\ UNCHANGED <<slotVars, quotaVars, vcVars, slot_position, conn_state, panicked, sent, padded>>

\* The slot handler, on a core with no call in progress, sees the VideoCore's
\* answer to the OPEN message.
Opened(c, s) ==
    /\ pc[c] = "idle"
    /\ srv[s] = "opening"
    /\ \E i \in 1 .. Len(received) : received[i] = OpenMsg(s)
    /\ Unlocked
    /\ srv' = [srv EXCEPT ![s] = "open"]
    /\ UNCHANGED <<slotVars, quotaVars, callVars, vcVars, conn_state, panicked, sent, padded>>

\* The slot handler sees a CLOSE of the VideoCore: it sets Service::closing.
PeerCloses(c, s) ==
    /\ pc[c] = "idle"
    /\ srv[s] = "open"
    /\ Unlocked
    /\ srv' = [srv EXCEPT ![s] = "closing"]
    /\ UNCHANGED <<slotVars, quotaVars, callVars, vcVars, conn_state, panicked, sent, padded>>

\* State::close_service, from its entry to the wait for the VideoCore's CLOSE:
\* it sets Service::closing and queues a CLOSE message.
CloseService(c, s) ==
    /\ srv[s] \in {"open", "closing"}
    /\ srv' = [srv EXCEPT ![s] = "closed"]
    /\ Call(c, CloseMsg(s))
    /\ UNCHANGED <<slotVars, quotaVars, vcVars, slot_position, conn_state, panicked, sent, padded>>

\* Instance::queue_message with the handle of a service that was opened.
QueueMessage(c, s, n) ==
    /\ srv[s] \in {"open", "closing", "closed"}
    /\ Call(c, DataMsg(s, n))
    /\ UNCHANGED <<slotVars, quotaVars, vcVars, slot_position, conn_state, srv, panicked, sent, padded>>

-----------------------------------------------------------------------------
\* queue_message, DATA only: the checks made under the read guards.
closing(s) == srv[s] \in {"closing", "closed"}

\* Mutant: only a close of the client is looked at.
RefusedOnOwnClose(m) == srv[m.service] = "closed"

\* Err(ServiceAlreadyClosed)
Refused(m) == closing(m.service)

\* Mutant: the slot in which the message would start.
StartIndex(m) == slot_queue_index_from_pos(local_tx_pos)

\* The slot in which a message queued now would end.
EndIndex(m) == slot_queue_index_from_pos(local_tx_pos + Stride(m) - 1)

DataQuotaExceeded(m) ==
    /\ EndIndex(m) # previous_data_index
    /\ data_use_count = data_quota

\* message_use_count is 0 and message_quota is not: no DATA message waits for
\* the number of messages.
ServiceQuotaExceeded(m) ==
    /\ EndIndex(m) # previous_tx_index[m.service]
    /\ slot_use_count[m.service] = default_slot_quota

Refuse(c) ==
    /\ pc[c] = "check"
    /\ Refused(call[c])
    /\ pc' = [pc EXCEPT ![c] = "idle"]
    /\ call' = [call EXCEPT ![c] = NoMessage]
    /\ UNCHANGED <<slotVars, quotaVars, vcVars, slot_position, conn_state, srv, panicked, sent, padded>>

\* data_quota_event.down() or quota_event.down().  Neither semaphore has a
\* permit: data_quota_event is upped only after a down() returned, and
\* quota_event only by the slot handler, together with Service::closing, for
\* which it needs slot_state.
WaitForQuota(c) ==
    /\ pc[c] = "check"
    /\ ~Refused(call[c])
    /\ DataQuotaExceeded(call[c]) \/ ServiceQuotaExceeded(call[c])
    /\ pc' = [pc EXCEPT ![c] = "quota_wait"]
    /\ UNCHANGED <<slotVars, quotaVars, vcVars, call, slot_position, conn_state, srv, panicked, sent, padded>>

WithinQuota(c) ==
    /\ pc[c] = "check"
    /\ ~Refused(call[c])
    /\ ~DataQuotaExceeded(call[c])
    /\ ~ServiceQuotaExceeded(call[c])
    /\ pc' = [pc EXCEPT ![c] = "reserve"]
    /\ UNCHANGED <<slotVars, quotaVars, vcVars, call, slot_position, conn_state, srv, panicked, sent, padded>>

-----------------------------------------------------------------------------
\* reserve_space.  A message that does not fit into the rest of the slot goes
\* to the next one.
SlotSpace == SlotSize - SlotOffset(local_tx_pos)

\* Mutant: the size of a slot is looked at, not what is left of it.
NeedsWholeSlot(m) == Stride(m) > SlotSize

NeedsPadding(m) == Stride(m) > SlotSpace

\* Mutant: the position is not moved to the next slot.
StartPosInSlot(m) == local_tx_pos

\* Where the message goes.
StartPos(m) == IF NeedsPadding(m) THEN local_tx_pos + SlotSpace ELSE local_tx_pos

\* Mutant: the assertion is not made.
NeverOutOfSlots(m) == FALSE

\* assert!(tx_pos != self.slot_queue_available * VCHIQ_SLOT_SIZE), made when a
\* new slot is needed.
OutOfSlots(m) ==
    /\ SlotOffset(StartPos(m)) = 0
    /\ StartPos(m) = slot_queue_available * SlotSize

\* Mutant: the offset is not masked.
PositionUnmasked(m) ==
    IF SlotOffset(StartPos(m)) = 0
    THEN SlotStart(slot_queue, StartPos(m))
    ELSE SlotPosition(tx_data.index, StartPos(m))

\* The first message of a slot takes the slot from slot_queue, the others
\* stay in the slot of tx_data.
PositionFor(m) ==
    IF SlotOffset(StartPos(m)) = 0
    THEN SlotStart(slot_queue, StartPos(m))
    ELSE SlotPosition(tx_data.index, SlotOffset(StartPos(m)))

\* The padding header is stored at tx_data.
PadSlot(m) ==
    IF NeedsPadding(m)
    THEN /\ slot_data' = store_message(slot_data, Address(tx_data), PaddingMsg(SlotSpace - HdrSize), HdrSize)
         /\ padded' = padded \cup {Address(tx_data)}
    ELSE UNCHANGED <<slot_data, padded>>

Reserve(c) ==
    LET m == call[c]
    IN  /\ pc[c] = "reserve"
        /\ Unlocked
        /\ PadSlot(m)
        /\ IF OutOfSlots(m)
           THEN /\ panicked' = TRUE
                /\ UNCHANGED <<local_tx_pos, tx_data, pc, slot_position>>
           ELSE /\ local_tx_pos' = StartPos(m) + Stride(m)
                /\ tx_data' = PositionFor(m)
                /\ slot_position' = [slot_position EXCEPT ![c] = PositionFor(m)]
                /\ pc' = [pc EXCEPT ![c] = "store"]
                /\ UNCHANGED panicked
        /\ UNCHANGED <<tx_pos, quotaVars, vcVars, call, conn_state, srv, sent>>

-----------------------------------------------------------------------------
\* The accounting of a DATA message that ends before local_tx_pos.
CountData(m) ==
    LET tx_end_index == slot_queue_index_from_pos(local_tx_pos - 1)
        s == m.service
    IN  /\ previous_data_index' = tx_end_index
        /\ data_use_count' = data_use_count + (IF tx_end_index # previous_data_index THEN 1 ELSE 0)
        /\ previous_tx_index' = [previous_tx_index EXCEPT ![s] = tx_end_index]
        /\ slot_use_count' = [slot_use_count EXCEPT
               ![s] = @ + (IF tx_end_index # previous_tx_index[s] THEN 1 ELSE 0)]

\* Mutant: tx_pos is published before the message.
PublishedBefore(c) == local_tx_pos - Stride(call[c])

\* Mutant: the end of the core's own message.
PublishedOwnEnd(c) ==
    Address(slot_position[c]) - local_slot_first * SlotSize + Stride(call[c])

\* What set_tx_pos tells the VideoCore: the end of all reserved space.
PublishedPos(c) == local_tx_pos

\* The rest of queue_message: store, count, publish, signal the VideoCore.
Store(c) ==
    LET m == call[c]
    IN  /\ pc[c] = "store"
        /\ Unlocked
        /\ slot_data' = store_message(slot_data, Address(slot_position[c]), m, Stride(m))
        /\ IF m.type = "DATA" THEN CountData(m) ELSE UNCHANGED quotaVars
        /\ tx_pos' = PublishedPos(c)
        /\ sent' = Append(sent, [at |-> Address(slot_position[c]), msg |-> m])
        /\ pc' = [pc EXCEPT ![c] = "idle"]
        /\ call' = [call EXCEPT ![c] = NoMessage]
        /\ slot_position' = [slot_position EXCEPT ![c] = NoPosition]
        /\ UNCHANGED <<local_tx_pos, tx_data, vcVars, conn_state, srv, panicked, padded>>

-----------------------------------------------------------------------------
\* External.  The VideoCore reads the message at its position and moves on by
\* the stride of the size it finds there; it skips padding.
VcAddress == AddressInQueue(slot_queue, vc_pos)

VcReads ==
    LET cell == slot_data[VcAddress]
    IN  /\ vc_pos < tx_pos
        /\ cell.part = "header"
        /\ vc_pos' = vc_pos + Stride(cell.of)
        /\ received' = IF cell.of.type = "PADDING" THEN received ELSE Append(received, cell.of)
        /\ UNCHANGED <<slotVars, quotaVars, callVars, conn_state, srv, panicked, sent, padded>>

\* External.  The memory is not initialized.  Where the ARM wrote nothing the
\* VideoCore may find zeros, the header of an empty padding message, and moves
\* on to the next cell; any other content, and a payload taken for a header,
\* stop it.
VcReadsUnwritten ==
    /\ vc_pos < tx_pos
    /\ slot_data[VcAddress].part = "empty"
    /\ vc_pos' = vc_pos + HdrSize
    /\ UNCHANGED <<slotVars, quotaVars, callVars, received, conn_state, srv, panicked, sent, padded>>

-----------------------------------------------------------------------------
\* A call begins: no guard is taken yet.
Begins(c) ==
    \/ Connect(c)
    \/ \E s \in Services :
          \/ OpenService(c, s)
          \/ CloseService(c, s)
          \/ \E n \in DataSizes : QueueMessage(c, s, n)

\* The checks and reserve_space of a call, add_service and the slot handler:
\* what takes a guard of slot_state and gives it back.
Guarded(c) ==
    \/ Refuse(c) \/ WaitForQuota(c) \/ WithinQuota(c)
    \/ Reserve(c)
    \/ \E s \in Services : AddService(c, s) \/ Opened(c, s) \/ PeerCloses(c, s)

CoreStep(c) == Begins(c) \/ Guarded(c) \/ Store(c)

\* A panic halts the ARM; the VideoCore goes on.
Next ==
    \/ ~panicked /\ \E c \in Cores : CoreStep(c)
    \/ VcReads
    \/ VcReadsUnwritten

Spec == Init /\ [][Next]_vars

\* A started call goes on, and the VideoCore reads what is published.
Fairness ==
    /\ \A c \in Cores :
          WF_vars(~panicked /\ (Refuse(c) \/ WaitForQuota(c) \/ WithinQuota(c) \/ Reserve(c) \/ Store(c)))
    /\ WF_vars(VcReads)

FairSpec == Spec /\ Fairness

-----------------------------------------------------------------------------
Positions == [index : 0 .. (TotalSlots - 1), offset : 0 .. (SlotSize - 1)]

\* The values of the variables.
TypeOK ==
    /\ local_tx_pos \in Nat
    /\ tx_data \in Positions
    /\ slot_data \in Memories(Messages \cup {PaddingMsg(n) : n \in 0 .. (SlotSize - 1)})
    /\ tx_pos \in Nat
    /\ conn_state \in {"DISCONNECTED", "CONNECTING"}
    /\ srv \in [Services -> {"none", "added", "opening", "open", "closing", "closed"}]
    /\ data_use_count \in Nat
    /\ previous_data_index \in Int
    /\ slot_use_count \in [Services -> Nat]
    /\ previous_tx_index \in [Services -> Int]
    /\ pc \in [Cores -> {"idle", "check", "quota_wait", "reserve", "store"}]
    /\ call \in [Cores -> Messages \cup {NoMessage}]
    /\ slot_position \in [Cores -> Positions]
    /\ panicked \in BOOLEAN
    /\ sent \in Seq([at : Nat, msg : Messages])
    /\ padded \subseteq Nat
    /\ vc_pos \in Nat
    /\ received \in Seq(Messages)

\* reserve_space hands out only space of the ARM's own slots, and space that
\* ends in the slot it begins in: the assertion on tx_pos keeps it from running
\* over the end of slot_queue, as the position enters a new slot only through
\* the slot's first byte.  Said of payloads that fit into a slot.
OwnSlotsOnly ==
    \A c \in Cores :
        pc[c] = "store" =>
            /\ slot_position[c].index \in LocalSlots
            /\ slot_position[c].offset + Stride(call[c]) <= SlotSize

\* A queued message stays in memory as it was stored, cell for cell, however
\* many messages follow it: only the padding header of reserve_space, which
\* is stored at tx_data, touches a message again.
StreamIntact ==
    \A i \in 1 .. Len(sent) :
        sent[i].at \in padded \/ Intact(slot_data, sent[i].at, sent[i].msg, Stride(sent[i].msg))

\* The slots in which the queued DATA messages of the services S end.
DataSlots(S) ==
    {(sent[i].at + Stride(sent[i].msg) - 1) \div SlotSize :
        i \in {j \in 1 .. Len(sent) : sent[j].msg.type = "DATA" /\ sent[j].msg.service \in S}}

\* data_use_count is the number of slots in use by DATA messages, and never
\* above data_quota: the slot the check computes before reserve_space is the
\* slot queue_message counts after it, padding or not.
DataQuotaExact ==
    /\ data_use_count = Cardinality(DataSlots(Services))
    /\ data_use_count <= data_quota

\* The same for each service's slot_use_count: previous_tx_index, set anew by
\* add_service, makes the first slot of a service count.
ServiceQuotaExact ==
    \A s \in Services :
        /\ slot_use_count[s] = Cardinality(DataSlots({s}))
        /\ slot_use_count[s] <= default_slot_quota

\* Once a service is closing no DATA message of it reaches the stream.
NoDataAfterClosing ==
    [][\A s \in Services :
          closing(s) /\ Len(sent') > Len(sent)
            => ~(sent'[Len(sent')].msg.type = "DATA" /\ sent'[Len(sent')].msg.service = s)]_vars

\* The VideoCore catches up with the queued messages again and again, unless a
\* padding header was stored: no message is left in the slots unseen.
EventuallyDelivered == []<>(Len(received) = Len(sent) \/ padded # {})

\* The stream as the two sides are to see it: a queue.
Stream == INSTANCE MessageStream WITH
    accepted <- [i \in 1 .. Len(sent) |-> sent[i].msg],
    delivered <- received,
    corrupted <- padded # {}

\* The VideoCore gets the messages whole, in the order they were published and
\* each once, as long as no padding header was stored.
ImplementsStream == Stream!Spec

-----------------------------------------------------------------------------
\* "add a padding message into the same and use the next slot": padding fills
\* the unused rest of a slot and leaves the queued messages alone.
PaddingSparesMessages == \A i \in 1 .. Len(sent) : sent[i].at \notin padded

\* "this shall be processed as long as the VCHIQ is alive": the slot handler
\* can get slot_state again and again.
SlotHandlerRuns == []<>Unlocked
=============================================================================
