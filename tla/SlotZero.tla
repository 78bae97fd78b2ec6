------------------------------- MODULE SlotZero -------------------------------
(***************************************************************************)
(* How SlotZeroAccessor::initialize divides the shared memory: slot zero   *)
(* (the control block) first, then the slots of the VideoCore (remote,     *)
(* master), then the slots of the ARM (local, slave).  Each side gives its *)
(* first slot to synchronous messages and queues the others.               *)
(***************************************************************************)
EXTENDS Naturals

CONSTANTS
    SlotZeroSlots,  \* VCHIQ_SLOT_ZERO_SLOTS: the slots the control block covers
    TotalSlots,     \* TOTAL_SLOTS: every slot of the shared memory
    MaxSlotsPerSide \* VCHIQ_MAX_SLOTS_PER_SIDE: the length of a slot_queue

first_data_slot == SlotZeroSlots

num_slots == TotalSlots - first_data_slot

remote_slot_sync  == first_data_slot
remote_slot_first == first_data_slot + 1
remote_slot_last  == first_data_slot + (num_slots \div 2) - 1

local_slot_sync  == first_data_slot + (num_slots \div 2)
local_slot_first == first_data_slot + (num_slots \div 2) + 1
local_slot_last  == first_data_slot + num_slots - 1

\* The slots the ARM queues messages in, and how many they are.
LocalSlots  == local_slot_first .. local_slot_last
RemoteSlots == remote_slot_first .. remote_slot_last

slot_queue_available == local_slot_last - local_slot_first + 1

\* "VCHIQ interface requires at least 4 slots" besides slot zero, and the
\* slot_queue array is long enough to name every slot of a side.
ASSUME SlotZeroAssumption ==
    /\ SlotZeroSlots \in Nat \ {0}
    /\ TotalSlots \in Nat
    /\ TotalSlots >= SlotZeroSlots + 4
    /\ MaxSlotsPerSide \in Nat
    /\ slot_queue_available <= MaxSlotsPerSide

\* An entry of slot_queue that initialize() does not fill.
Unset == 0

\* The initial local slot_queue: entry i names the i-th local slot.
slot_queue ==
    [i \in 0 .. (MaxSlotsPerSide - 1) |->
        IF i < slot_queue_available THEN i + local_slot_first ELSE Unset]
=============================================================================
