--------------------------------- MODULE Slots ---------------------------------
(***************************************************************************)
(* The memory both processors see (vchiq/shared/slot.rs): an array of      *)
(* slots, addressed by slot index and offset, in which SlotAccessor stores *)
(* whole messages.  The memory is modelled in cells of HdrSize bytes, the  *)
(* unit of every stride.                                                   *)
(***************************************************************************)
EXTENDS Integers, SlotMessage, SlotZero

CONSTANT SlotSize   \* VCHIQ_SLOT_SIZE

ASSUME SlotsAssumption ==
    /\ SlotSize \in Nat \ {0}
    /\ SlotSize % HdrSize = 0

\* A position counts bytes through the slots of a slot_queue.
slot_queue_index_from_pos(pos) == pos \div SlotSize
SlotOffset(pos) == pos % SlotSize

\* SlotPosition: the index of a slot and an offset into it, or none.
SlotPosition(index, offset) == [index |-> index, offset |-> offset]
NoPosition == SlotPosition(Unset, 0)

\* The start of the slot that a queue gives for a position.
SlotStart(queue, pos) ==
    SlotPosition(queue[slot_queue_index_from_pos(pos) % MaxSlotsPerSide], 0)

\* Slots are consecutive in memory.  The offset is masked.
Address(p) == p.index * SlotSize + SlotOffset(p.offset)
Addresses == {HdrSize * k : k \in 0 .. ((TotalSlots * SlotSize) \div HdrSize - 1)}

\* Where a position of a queue is in memory.
AddressInQueue(queue, pos) == Address(SlotStart(queue, pos)) + SlotOffset(pos)

\* A cell is the header of a message, a part of its payload, or not written.
EmptyCell == [part |-> "empty"]
Cell(part, m) == [part |-> part, of |-> m]

\* The messages a memory is made of.
Memories(messages) ==
    [Addresses -> {EmptyCell} \cup {Cell(part, m) : part \in {"header", "payload"}, m \in messages}]

EmptyMemory == [b \in Addresses |-> EmptyCell]

\* The cells of a message of this many bytes whose header is at address a.
Extent(a, stride) == {b \in Addresses : a <= b /\ b < a + stride}

\* SlotAccessor::store_message: the whole SlotMessage<T> is written.
store_message(mem, a, m, stride) ==
    [b \in Addresses |->
        IF b = a THEN Cell("header", m)
        ELSE IF b \in Extent(a, stride) THEN Cell("payload", m)
        ELSE mem[b]]

\* State::initialize marks the ARM's synchronous slot as empty.
InitialMemory(padding) ==
    store_message(EmptyMemory, Address(SlotPosition(local_slot_sync, 0)), padding, HdrSize)

\* A message is in memory as it was stored.
Intact(mem, a, m, stride) ==
    /\ mem[a] = Cell("header", m)
    /\ \A b \in Extent(a, stride) \ {a} : mem[b] = Cell("payload", m)
=============================================================================
