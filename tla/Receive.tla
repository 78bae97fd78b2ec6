-------------------------------- MODULE Receive --------------------------------
(***************************************************************************)
(* The VideoCore's side of the message stream as the ARM reads it:         *)
(* slot_handler (vchiq/slothandler.rs) follows the remote tx_pos through   *)
(* the VideoCore's slots.  What it does with a message is in Services;     *)
(* here it counts where the message is read from.                          *)
(*                                                                         *)
(* A poll of slot_handler reads tx_pos once and loops until rx_pos gets    *)
(* there.  The VideoCore runs on its own processor and writes during a     *)
(* poll; an action is one iteration of the loop.                           *)
(***************************************************************************)
EXTENDS Sequences, Slots

CONSTANTS
    DataSizes,    \* the payload sizes of the VideoCore's messages
    GarbageSizes, \* the sizes that bytes which are no header may show
    MaxRxPos      \* bound: a handler that lost its way is not followed further

ASSUME ReceiveAssumption ==
    /\ DataSizes \subseteq Nat
    /\ \A n \in DataSizes : calc_msg_stride(n) <= SlotSize
    /\ GarbageSizes \subseteq Nat
    /\ MaxRxPos \in Nat

VARIABLES
    rx_pos,     \* SlotState::rx_pos
    rx_data,    \* SlotState::rx_data: slot index and offset, or NoPosition
    slot_data,  \* the 8 byte cells of the shared memory, by address
    tx_pos,     \* SharedState::tx_pos of the remote side
    polling,    \* slot_handler is inside its loop
    poll_tx_pos,\* the local variable tx_pos of slot_handler
    panicked,   \* an assertion of the code failed
    misread,    \* history: something else was read than the message at rx_pos
    written,    \* history: the VideoCore's messages, in order
    handled     \* history: the messages slot_handler acted on, in order

rxVars == <<rx_pos, rx_data, panicked, misread, handled>>
vcVars == <<slot_data, tx_pos, written>>
vars == <<rxVars, vcVars, polling, poll_tx_pos>>

-----------------------------------------------------------------------------
\* The VideoCore's slots, in the order in which it fills its slot_queue.
remote_slot_queue ==
    [i \in 0 .. (MaxSlotsPerSide - 1) |->
        IF i + remote_slot_first \in RemoteSlots THEN i + remote_slot_first ELSE Unset]

\* The ARM gives no slot back: release_slot() is a comment.
RemoteSpace == (remote_slot_last - remote_slot_first + 1) * SlotSize

\* The number of a message stands for its content.
PaddingMsg(n) == [type |-> "PADDING", number |-> 0, size |-> n]
NewMessage(n) == [type |-> "MESSAGE", number |-> Len(written) + 1, size |-> n]
Stride(m) == calc_msg_stride(m.size)

Init ==
    /\ rx_pos = 0
    /\ rx_data = NoPosition
    /\ slot_data = InitialMemory(PaddingMsg(0))
    /\ tx_pos = 0
    /\ polling = FALSE
    /\ poll_tx_pos = 0
    /\ panicked = FALSE
    /\ misread = FALSE
    /\ written = <<>>
    /\ handled = <<>>

-----------------------------------------------------------------------------
\* The VideoCore stores a message at pos and publishes it.
VcStores(mem, pos, m) ==
    /\ pos + Stride(m) <= RemoteSpace
    /\ slot_data' = store_message(mem, AddressInQueue(remote_slot_queue, pos), m, Stride(m))
    /\ tx_pos' = pos + Stride(m)
    /\ written' = Append(written, m)
    /\ UNCHANGED <<rxVars, polling, poll_tx_pos>>

SpaceLeft == SlotSize - SlotOffset(tx_pos)

\* The VideoCore's next message fits into the slot it writes to.
VcWrites(m) ==
    /\ Stride(m) <= SpaceLeft
    /\ VcStores(slot_data, tx_pos, m)

\* The VideoCore fills up its slot with padding and goes on in the next one.
VcPadsAndWrites(m) ==
    LET address == AddressInQueue(remote_slot_queue, tx_pos)
        padded  == store_message(slot_data, address, PaddingMsg(SpaceLeft - HdrSize), SpaceLeft)
    IN  /\ Stride(m) > SpaceLeft
        /\ VcStores(padded, tx_pos + SpaceLeft, m)

-----------------------------------------------------------------------------
\* slot_handler gets the lock of slot_state and reads the remote tx_pos.
BeginPoll ==
    /\ ~polling /\ ~panicked
    /\ rx_pos # tx_pos
    /\ polling' = TRUE
    /\ poll_tx_pos' = tx_pos
    /\ UNCHANGED <<rxVars, vcVars>>

\* Mutant: the ARM's own slot_queue.
ReadPositionLocal ==
    IF rx_data = NoPosition THEN SlotStart(slot_queue, poll_tx_pos) ELSE rx_data

\* Without a position left from the last message, the slot is the one that
\* the remote slot_queue has for tx_pos.
ReadPosition ==
    IF rx_data = NoPosition THEN SlotStart(remote_slot_queue, poll_tx_pos) ELSE rx_data

\* Mutant: the header is not counted.
PayloadStride(m) == ((m.size + HdrSize - 1) \div HdrSize) * HdrSize

\* Mutant: an aligned message is rounded up to the next multiple.
StrideTooLong(m) == ((HdrSize + m.size) \div HdrSize + 1) * HdrSize

\* How far a message moves the position of the next one.
Advance(m) == Stride(m)

\* Mutant: the position of a slot that was read to its end is kept.
RxDataKept(p, m) == SlotPosition(p.index, p.offset + Advance(m))

\* rx_data after message m at position p: none at the end of a slot.
RxDataAfter(p, m) ==
    IF SlotOffset(rx_pos + Advance(m)) = 0
    THEN NoPosition
    ELSE SlotPosition(p.index, p.offset + Advance(m))

\* Mutant: padding is a message.
DispatchedAlways(m) == Append(handled, m)

\* The dispatch does nothing for PADDING.
Dispatched(m) == IF m.type = "PADDING" THEN handled ELSE Append(handled, m)

\* One iteration with the message m that read_message returned for p.
Handle(p, m) ==
    /\ rx_pos' = rx_pos + Advance(m)
    /\ rx_data' = RxDataAfter(p, m)
    /\ handled' = Dispatched(m)
    /\ UNCHANGED panicked

AtRxPos(p) == Address(p) = AddressInQueue(remote_slot_queue, rx_pos)

Iterate ==
    /\ polling /\ ~panicked
    /\ rx_pos # poll_tx_pos
    /\ misread => rx_pos < MaxRxPos
    /\ misread' = (misread \/ ~AtRxPos(ReadPosition))
    /\ UNCHANGED <<vcVars, polling, poll_tx_pos>>

\* There is the header of a message where slot_handler reads.
ReadMessage ==
    /\ Iterate
    /\ ReadPosition.index # Unset
    /\ slot_data[Address(ReadPosition)].part = "header"
    /\ Handle(ReadPosition, slot_data[Address(ReadPosition)].of)

\* What bytes that are no header may be taken for: padding, or anything else
\* the dispatch ignores, or a message it acts on, of any size.
GarbageMsgs == {[type |-> type, number |-> 0, size |-> n] :
                    type \in {"PADDING", "MESSAGE"}, n \in GarbageSizes}

\* There is none, but payload or bytes nobody wrote: they pass for some message
\* or they make no message type, an unimplemented one, a port without a service
\* or a payload beyond the memory.
ReadGarbage ==
    /\ Iterate
    /\ ReadPosition.index # Unset
    /\ slot_data[Address(ReadPosition)].part # "header"
    /\ \/ \E m \in GarbageMsgs : Handle(ReadPosition, m)
       \/ panicked' = TRUE /\ UNCHANGED <<rx_pos, rx_data, handled>>

\* assert!(slot_pos.0 > 0) of read_message: an entry of slot_queue nobody set.
ReadUnset ==
    /\ Iterate
    /\ ReadPosition.index = Unset
    /\ panicked' = TRUE
    /\ UNCHANGED <<rx_pos, rx_data, handled>>

EndPoll ==
    /\ polling
    /\ rx_pos = poll_tx_pos
    /\ polling' = FALSE
    /\ UNCHANGED <<rxVars, vcVars, poll_tx_pos>>

SlotHandler ==
    \/ BeginPoll
    \/ ReadMessage
    \/ ReadGarbage
    \/ ReadUnset
    \/ EndPoll

Next ==
    \/ SlotHandler
    \/ \E n \in DataSizes : VcWrites(NewMessage(n)) \/ VcPadsAndWrites(NewMessage(n))

Spec == Init /\ [][Next]_vars

\* slot_handler wakes itself at the end of every poll: it is polled for ever.
FairSpec == Spec /\ WF_vars(SlotHandler)

-----------------------------------------------------------------------------
\* Types: whatever bytes slot_handler took for headers, the next header is read
\* from a cell of a slot of the VideoCore.
TypeOK ==
    /\ rx_pos \in Nat
    /\ tx_pos \in 0 .. RemoteSpace
    /\ poll_tx_pos \in 0 .. tx_pos
    /\ \/ rx_data = NoPosition
       \/ /\ rx_data \in [index : RemoteSlots, offset : Nat]
          /\ Address(rx_data) \in Addresses
    /\ {polling, panicked, misread} \subseteq BOOLEAN

\* slot_handler reads the message at rx_pos: rx_pos is "the byte position from
\* where the next message will be read", its high bits the slot.
ReadsAtRxPos == ~misread

\* As long as it did, the loop of slot_handler stops at the tx_pos it saw and
\* never steps over it: `while rx_pos != tx_pos` has no other way to end.
NeverOvershoots == ~misread => rx_pos <= poll_tx_pos

\* As long as it did, rx_data and rx_pos agree between messages: the offset
\* counted in rx_data and the one in rx_pos name the same byte.
PositionsAgree ==
    (~misread /\ rx_data # NoPosition) => AtRxPos(rx_data) /\ SlotOffset(rx_pos) # 0

\* As long as it did, no assertion of read_message or of the dispatch fails.
NoPanic == panicked => misread

\* slot_handler gives the services the VideoCore's messages in order, each
\* once, as long as it reads at rx_pos.
Stream == INSTANCE MessageStream WITH
    accepted <- written, delivered <- handled, corrupted <- misread
ImplementsStream == Stream!Spec

\* Every message the VideoCore published is handled, as long as slot_handler
\* reads at rx_pos: no poll stops short of what it has seen.
EventuallyHandled ==
    \A n \in 1 .. (RemoteSpace \div HdrSize) :
        (Len(written) >= n) ~> (misread \/ Len(handled) >= n)
=============================================================================
