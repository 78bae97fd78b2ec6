---------------------------- MODULE TransmitProofs ----------------------------
(***************************************************************************)
(* The transmit path, for every layout of the slots, every set of services *)
(* and payload sizes.  On any number of cores: the positions, the types,   *)
(* the space reserve_space hands out, and the messages in it.  On one      *)
(* core: the quotas, the order of closing and sending, and the stream as a *)
(* queue.                                                                  *)
(***************************************************************************)
EXTENDS Transmit, SlotsProofs, FiniteSetTheorems

\* calc_msg_stride gives whole cells, at least one.
LEMMA StrideAligned ==
    ASSUME NEW m, m.size \in Nat
    PROVE  Aligned(Stride(m)) /\ Stride(m) >= 8
  BY DEF Aligned, Stride, calc_msg_stride, HdrSize

-----------------------------------------------------------------------------
(* The invariant. *)

\* What the ARM reserved, what it published, and where the VideoCore is.
PositionsOK ==
    /\ Aligned(local_tx_pos)
    /\ Aligned(vc_pos)
    /\ tx_pos \in Nat
    /\ tx_pos <= local_tx_pos

\* Every core queues a message with a size.
CallsOK == call \in [Cores -> Messages \cup {NoMessage}]

\* Every header in the memory has a size.
HeadersOK ==
    \A a \in Addresses : slot_data[a].part = "header" => slot_data[a].of.size \in Nat

TransmitInv == PositionsOK /\ CallsOK /\ HeadersOK

\* Messages have sizes.
LEMMA MessageSizes ==
    \A m \in Messages \cup {NoMessage} : m.size \in Nat
  <1>1. DataSizes \subseteq Nat
    BY TransmitAssumption, SlotsAssumption DEF HdrSize
  <1> QED
    BY <1>1 DEF Messages, NoMessage, ConnectMsg, OpenMsg, CloseMsg, DataMsg

\* store_message keeps the headers' sizes.
LEMMA StoreKeepsHeaders ==
    ASSUME HeadersOK, NEW at, NEW m, m.size \in Nat, NEW stride,
           slot_data' = store_message(slot_data, at, m, stride)
    PROVE  HeadersOK'
  <1> SUFFICES ASSUME NEW a \in Addresses, slot_data'[a].part = "header"
               PROVE  slot_data'[a].of.size \in Nat
    BY DEF HeadersOK, Addresses
  <1>1. slot_data'[a] = IF a = at THEN Cell("header", m)
                        ELSE IF a \in Extent(at, stride) THEN Cell("payload", m)
                        ELSE slot_data[a]
    BY DEF store_message
  <1>2. CASE a = at
    BY <1>1, <1>2 DEF Cell
  <1>3. CASE a # at /\ a \in Extent(at, stride)
    BY <1>1, <1>3 DEF Cell
  <1>4. CASE a # at /\ a \notin Extent(at, stride)
    BY <1>1, <1>4 DEF HeadersOK
  <1> QED BY <1>2, <1>3, <1>4

\* The memory as initialized holds one empty padding message.
LEMMA InitTransmit == Init => TransmitInv
  <1> SUFFICES ASSUME Init PROVE TransmitInv
    OBVIOUS
  <1> USE DEF Init
  <1>1. PositionsOK
    BY DEF PositionsOK, Aligned, HdrSize
  <1>2. CallsOK
    BY DEF CallsOK
  <1>3. HeadersOK
    <2> SUFFICES ASSUME NEW a \in Addresses, slot_data[a].part = "header"
                 PROVE  slot_data[a].of.size \in Nat
      BY DEF HeadersOK
    <2> DEFINE at == Address(SlotPosition(local_slot_sync, 0))
    <2>1. slot_data[a] = IF a = at THEN Cell("header", PaddingMsg(0))
                         ELSE IF a \in Extent(at, HdrSize) THEN Cell("payload", PaddingMsg(0))
                         ELSE EmptyMemory[a]
      BY DEF InitialMemory, store_message
    <2>2. EmptyMemory[a].part = "empty"
      BY DEF EmptyMemory, EmptyCell
    <2>3. CASE a = at
      BY <2>1, <2>3 DEF Cell, PaddingMsg
    <2>4. CASE a # at
      BY <2>1, <2>2, <2>4 DEF Cell
    <2> QED BY <2>3, <2>4
  <1> QED BY <1>1, <1>2, <1>3 DEF TransmitInv

-----------------------------------------------------------------------------
(* The steps. *)

\* A call begins with one of the messages; the slots are left alone.
LEMMA BeginsKeeps ==
    ASSUME TransmitInv, NEW c \in Cores, Begins(c)
    PROVE  TransmitInv' /\ tx_pos' = tx_pos /\ vc_pos' = vc_pos
  <1>1. PICK m \in Messages : Call(c, m) /\ UNCHANGED <<slotVars, vcVars>>
    <2>1. CASE Connect(c)
      BY <2>1 DEF Connect, Messages
    <2>2. ASSUME NEW s \in Services, OpenService(c, s)
          PROVE  \E m \in Messages : Call(c, m) /\ UNCHANGED <<slotVars, vcVars>>
      BY <2>2 DEF OpenService, Messages
    <2>3. ASSUME NEW s \in Services, CloseService(c, s)
          PROVE  \E m \in Messages : Call(c, m) /\ UNCHANGED <<slotVars, vcVars>>
      BY <2>3 DEF CloseService, Messages
    <2>4. ASSUME NEW s \in Services, NEW n \in DataSizes, QueueMessage(c, s, n)
          PROVE  \E m \in Messages : Call(c, m) /\ UNCHANGED <<slotVars, vcVars>>
      BY <2>4 DEF QueueMessage, Messages
    <2> QED BY <2>1, <2>2, <2>3, <2>4 DEF Begins
  <1>2. CallsOK'
    BY <1>1 DEF Call, CallsOK, TransmitInv
  <1>3. PositionsOK' /\ HeadersOK' /\ tx_pos' = tx_pos /\ vc_pos' = vc_pos
    BY <1>1 DEF slotVars, vcVars, TransmitInv, PositionsOK, HeadersOK
  <1> QED BY <1>2, <1>3 DEF TransmitInv

\* reserve_space goes forward, by whole cells, to where the message starts.
LEMMA StartAligned ==
    ASSUME Aligned(local_tx_pos), NEW m
    PROVE  Aligned(StartPos(m)) /\ StartPos(m) >= local_tx_pos
  <1>1. Aligned(local_tx_pos + SlotSpace)
    BY OffsetAligned DEF SlotSpace
  <1>2. SlotSpace >= 8 /\ SlotSpace \in Nat
    <2>1. SlotOffset(local_tx_pos) + 8 <= SlotSize /\ SlotOffset(local_tx_pos) \in Nat
      BY OffsetAligned DEF Aligned
    <2> QED BY <2>1, SlotsAssumption DEF SlotSpace
  <1>3. local_tx_pos + SlotSpace >= local_tx_pos /\ local_tx_pos >= local_tx_pos
    BY <1>2 DEF Aligned
  <1> QED
    BY <1>1, <1>3 DEF StartPos

\* reserve_space moves local_tx_pos forward by whole cells.
LEMMA ReserveKeeps ==
    ASSUME TransmitInv, NEW c \in Cores, Reserve(c)
    PROVE  TransmitInv' /\ tx_pos' = tx_pos /\ vc_pos' = vc_pos
  <1> DEFINE m == call[c]
  <1>1. m.size \in Nat
    BY MessageSizes DEF TransmitInv, CallsOK
  <1>2. Aligned(local_tx_pos)
    BY DEF TransmitInv, PositionsOK
  <1>3. tx_pos' = tx_pos /\ vc_pos' = vc_pos /\ call' = call /\ PadSlot(m)
        /\ (local_tx_pos' = local_tx_pos \/ local_tx_pos' = StartPos(m) + Stride(m))
    BY DEF Reserve, vcVars
  <1>4. CallsOK'
    BY <1>3 DEF TransmitInv, CallsOK
  <1>5. HeadersOK'
    <2>1. CASE NeedsPadding(m)
      <3>1. PaddingMsg(SlotSpace - HdrSize).size \in Nat
        <4>1. SlotOffset(local_tx_pos) + 8 <= SlotSize /\ SlotOffset(local_tx_pos) \in Nat
          BY <1>2, OffsetAligned DEF Aligned
        <4> QED BY <4>1, SlotsAssumption DEF PaddingMsg, SlotSpace, HdrSize
      <3> QED BY <1>3, <2>1, <3>1, StoreKeepsHeaders DEF PadSlot, TransmitInv
    <2>2. CASE ~NeedsPadding(m)
      BY <1>3, <2>2 DEF PadSlot, TransmitInv, HeadersOK
    <2> QED BY <2>1, <2>2
  <1>6. Aligned(StartPos(m)) /\ StartPos(m) >= local_tx_pos
    BY <1>2, StartAligned
  <1>7. Aligned(StartPos(m) + Stride(m)) /\ StartPos(m) + Stride(m) >= local_tx_pos
    <2>1. Aligned(Stride(m)) /\ Stride(m) >= 8
      BY <1>1, StrideAligned
    <2>2. Aligned(StartPos(m) + Stride(m))
      BY <1>6, <2>1, AlignedSum
    <2> QED BY <1>2, <1>6, <2>1, <2>2 DEF Aligned
  <1>8. PositionsOK'
    <2>1. Aligned(local_tx_pos') /\ local_tx_pos' >= local_tx_pos
      BY <1>2, <1>3, <1>7 DEF Aligned
    <2> QED BY <1>2, <1>3, <2>1 DEF TransmitInv, PositionsOK, Aligned
  <1> QED BY <1>3, <1>4, <1>5, <1>8 DEF TransmitInv

\* The steps under a guard publish nothing.
LEMMA GuardedKeeps ==
    ASSUME TransmitInv, NEW c \in Cores, Guarded(c)
    PROVE  TransmitInv' /\ tx_pos' = tx_pos /\ vc_pos' = vc_pos
  <1> USE DEF TransmitInv, PositionsOK, HeadersOK, CallsOK, slotVars, vcVars, callVars
  <1>1. CASE Refuse(c)
    BY <1>1 DEF Refuse
  <1>2. CASE WaitForQuota(c) \/ WithinQuota(c)
    BY <1>2 DEF WaitForQuota, WithinQuota
  <1>3. CASE Reserve(c)
    BY <1>3, ReserveKeeps
  <1>4. CASE \E s \in Services : AddService(c, s) \/ Opened(c, s) \/ PeerCloses(c, s)
    BY <1>4 DEF AddService, Opened, PeerCloses
  <1> QED BY <1>1, <1>2, <1>3, <1>4 DEF Guarded

\* The end of queue_message publishes everything that is reserved: tx_pos does
\* not go back, whichever core comes first.
LEMMA StoreKeeps ==
    ASSUME TransmitInv, NEW c \in Cores, Store(c)
    PROVE  TransmitInv' /\ tx_pos' \in Nat /\ tx_pos' >= tx_pos /\ vc_pos' = vc_pos
  <1>1. call[c].size \in Nat
    BY MessageSizes DEF TransmitInv, CallsOK
  <1>2. HeadersOK'
    BY <1>1, StoreKeepsHeaders DEF Store, TransmitInv
  <1>3. CallsOK'
    BY DEF Store, TransmitInv, CallsOK
  <1>4. tx_pos' = local_tx_pos /\ local_tx_pos' = local_tx_pos /\ vc_pos' = vc_pos
    BY DEF Store, PublishedPos, vcVars
  <1>5. PositionsOK' /\ tx_pos' \in Nat /\ tx_pos' >= tx_pos
    BY <1>4 DEF TransmitInv, PositionsOK, Aligned
  <1> QED BY <1>2, <1>3, <1>4, <1>5 DEF TransmitInv

\* The VideoCore moves forward by whole cells, and leaves the rest alone.
LEMMA VideoCoreKeeps ==
    ASSUME TransmitInv, VcReads \/ VcReadsUnwritten
    PROVE  /\ TransmitInv' /\ tx_pos' = tx_pos
           /\ vc_pos < tx_pos /\ vc_pos' \in Nat /\ vc_pos < vc_pos'
  <1>1. Aligned(vc_pos)
    BY DEF TransmitInv, PositionsOK
  <1>2. Aligned(vc_pos') /\ vc_pos < vc_pos'
    <2>1. CASE VcReads
      <3>1. slot_data[VcAddress].of.size \in Nat
        BY <1>1, <2>1, QueueInMemory DEF VcReads, VcAddress, TransmitInv, HeadersOK
      <3>2. Aligned(Stride(slot_data[VcAddress].of)) /\ Stride(slot_data[VcAddress].of) >= 8
        BY <3>1, StrideAligned
      <3>3. vc_pos' = vc_pos + Stride(slot_data[VcAddress].of)
        BY <2>1 DEF VcReads
      <3>4. Aligned(vc_pos')
        BY <1>1, <3>2, <3>3, AlignedSum
      <3> QED BY <1>1, <3>2, <3>3, <3>4 DEF Aligned
    <2>2. CASE VcReadsUnwritten
      BY <1>1, <2>2 DEF VcReadsUnwritten, Aligned, HdrSize
    <2> QED BY <2>1, <2>2
  <1>3. UNCHANGED <<slotVars, callVars>> /\ vc_pos < tx_pos
    BY DEF VcReads, VcReadsUnwritten
  <1>4. CallsOK' /\ HeadersOK'
    BY <1>3 DEF slotVars, callVars, TransmitInv, CallsOK, HeadersOK
  <1>5. PositionsOK' /\ tx_pos' = tx_pos
    BY <1>2, <1>3 DEF slotVars, TransmitInv, PositionsOK
  <1> QED BY <1>2, <1>3, <1>4, <1>5 DEF TransmitInv, Aligned

\* The three kinds of steps together.
LEMMA TransmitStep ==
    ASSUME TransmitInv, [Next]_vars
    PROVE  TransmitInv'
  <1>1. CASE UNCHANGED vars
    BY <1>1 DEF vars, slotVars, callVars, vcVars, TransmitInv, PositionsOK, CallsOK, HeadersOK
  <1> QED
    BY <1>1, BeginsKeeps, GuardedKeeps, StoreKeeps, VideoCoreKeeps DEF Next, CoreStep

LEMMA TransmitInvariant == Spec => []TransmitInv
  <1>1. TransmitInv /\ [Next]_vars => TransmitInv'
    BY TransmitStep
  <1> QED
    BY InitTransmit, <1>1, PTL DEF Spec

-----------------------------------------------------------------------------
(* The types. *)

\* A core in queue_message has a message to queue.
BusyCalls == \A c \in Cores : pc[c] # "idle" => call[c] \in Messages

Padding == {PaddingMsg(n) : n \in 0 .. (SlotSize - 1)}

MemoryOK == slot_data \in Memories(Messages \cup Padding)

\* The slots of the ARM are in the memory.
LEMMA LocalLayout ==
    /\ slot_queue_available \in Nat /\ slot_queue_available <= MaxSlotsPerSide
    /\ local_slot_first \in Nat /\ local_slot_first + slot_queue_available <= TotalSlots
    /\ \A i \in 0 .. (slot_queue_available - 1) :
          slot_queue[i] = local_slot_first + i /\ local_slot_first + i \in LocalSlots
    /\ TotalSlots \in Nat /\ TotalSlots >= 1
    /\ local_slot_first < TotalSlots
  <1> USE SlotZeroAssumption DEF slot_queue_available, local_slot_last, local_slot_first, num_slots,
          first_data_slot
  <1>1. /\ slot_queue_available \in Nat /\ slot_queue_available <= MaxSlotsPerSide
        /\ local_slot_first \in Nat /\ local_slot_first + slot_queue_available <= TotalSlots
        /\ TotalSlots \in Nat /\ TotalSlots >= 1
        /\ local_slot_first < TotalSlots
    OBVIOUS
  <1>2. ASSUME NEW i \in 0 .. (slot_queue_available - 1)
        PROVE  slot_queue[i] = local_slot_first + i /\ local_slot_first + i \in LocalSlots
    BY DEF slot_queue, LocalSlots
  <1> QED
    BY <1>1, <1>2

\* The ARM's queue names its slots in order.
LEMMA LocalQueue == Consecutive(slot_queue, local_slot_first, slot_queue_available)
  BY LocalLayout DEF Consecutive

LEMMA TypeInit == Init => TypeOK /\ BusyCalls
  <1> SUFFICES ASSUME Init PROVE TypeOK /\ BusyCalls
    OBVIOUS
  <1> USE DEF Init
  <1>1. NoPosition \in Positions
    BY LocalLayout, PosSplit DEF NoPosition, SlotPosition, Unset, Positions
  <1>2. MemoryOK
    <2>1. PaddingMsg(0) \in Padding
      <3>1. 0 \in 0 .. (SlotSize - 1)
        BY SlotsAssumption
      <3> QED BY <3>1, Zenon DEF Padding
    <2> QED
      BY <2>1, InitialInMemories DEF MemoryOK
  <1>3. pc \in [Cores -> {"idle", "check", "quota_wait", "reserve", "store"}] /\ BusyCalls
    BY DEF BusyCalls
  <1>4. panicked \in BOOLEAN /\ padded \subseteq Nat
    OBVIOUS
  <1>5. sent \in Seq([at : Nat, msg : Messages]) /\ received \in Seq(Messages)
    OBVIOUS
  <1> QED
    BY <1>1, <1>2, <1>3, <1>4, <1>5 DEF TypeOK, MemoryOK, Padding

\* A call begins.
LEMMA BeginsTypes ==
    ASSUME TypeOK, BusyCalls, NEW c \in Cores, Begins(c)
    PROVE  TypeOK' /\ BusyCalls'
  <1>1. PICK m \in Messages :
           Call(c, m) /\ UNCHANGED <<slotVars, quotaVars, vcVars, slot_position, panicked, sent, padded>>
    BY DEF Begins, Connect, OpenService, CloseService, QueueMessage, Messages
  <1>2. /\ conn_state' \in {"DISCONNECTED", "CONNECTING"}
        /\ srv' \in [Services -> {"none", "added", "opening", "open", "closing", "closed"}]
    BY DEF Begins, Connect, OpenService, CloseService, QueueMessage, TypeOK
  <1>3. /\ pc' \in [Cores -> {"idle", "check", "quota_wait", "reserve", "store"}]
        /\ call' \in [Cores -> Messages \cup {NoMessage}]
    BY <1>1 DEF Call, TypeOK
  <1>4. BusyCalls'
    BY <1>1 DEF Call, TypeOK, BusyCalls
  <1> QED
    BY <1>1, <1>2, <1>3, <1>4 DEF TypeOK, slotVars, quotaVars, vcVars

\* Every message fits into a slot.
LEMMA StrideFits ==
    ASSUME NEW m \in Messages
    PROVE  Stride(m) <= SlotSize /\ Stride(m) \in Nat /\ Stride(m) >= 8 /\ Aligned(Stride(m))
  <1>1. m.size \in Nat /\ (m.size = 12 \/ m.size <= SlotSize - 8)
    BY TransmitAssumption, SlotsAssumption
    DEF Messages, ConnectMsg, OpenMsg, CloseMsg, DataMsg, HdrSize, calc_msg_stride
  <1>2. Aligned(Stride(m)) /\ Stride(m) >= 8
    BY <1>1, StrideAligned
  <1>3. Stride(m) <= SlotSize
    <2>1. CASE m.size = 12
      BY <2>1, TransmitAssumption DEF Stride
    <2>2. CASE m.size <= SlotSize - 8
      <3>1. PICK k \in Nat : k >= 1 /\ SlotSize = 8 * k
        BY SlotCells
      <3>2. (8 + m.size + 8 - 1) \div 8 <= k
        BY <1>1, <2>2, <3>1
      <3> QED
        BY <1>1, <3>1, <3>2 DEF Stride, calc_msg_stride, HdrSize
    <2> QED
      BY <1>1, <2>1, <2>2
  <1> QED
    BY <1>2, <1>3 DEF Aligned

\* Where reserve_space puts a message.
LEMMA PositionTypes ==
    ASSUME TypeOK, NEW m, StartPos(m) \in Nat
    PROVE  PositionFor(m) \in Positions
  <1>0. /\ SlotSize \in Nat /\ SlotSize >= 8
        /\ SlotOffset(StartPos(m)) \in Nat /\ SlotOffset(StartPos(m)) < SlotSize
    BY PosSplit, Zenon
  <1>1. SlotOffset(StartPos(m)) \in 0 .. (SlotSize - 1) /\ 0 \in 0 .. (SlotSize - 1)
    BY <1>0
  <1>2. CASE SlotOffset(StartPos(m)) = 0
    <2> DEFINE i == (StartPos(m) \div SlotSize) % MaxSlotsPerSide
    <2>1. StartPos(m) \div SlotSize \in Nat
      BY PosSplit
    <2>2. i \in 0 .. (MaxSlotsPerSide - 1)
      <3> HIDE DEF StartPos
      <3> QED BY <2>1, QueueNamesSlots, DivMod
    <2>3. slot_queue[i] \in 0 .. (TotalSlots - 1)
      BY <2>2, QueueNamesSlots
    <2> QED
      BY <1>1, <1>2, <2>3
      DEF PositionFor, SlotStart, slot_queue_index_from_pos, SlotPosition, Positions
  <1>3. CASE SlotOffset(StartPos(m)) # 0
    BY <1>1, <1>3 DEF PositionFor, SlotPosition, Positions, TypeOK
  <1> QED
    BY <1>2, <1>3

\* A padding message has a size and an address.
LEMMA PaddingTypes ==
    ASSUME TypeOK, Aligned(local_tx_pos)
    PROVE  PaddingMsg(SlotSpace - HdrSize) \in Padding /\ Address(tx_data) \in Nat
  <1>1. SlotOffset(local_tx_pos) + 8 <= SlotSize /\ SlotOffset(local_tx_pos) \in Nat
    BY OffsetAligned DEF Aligned
  <1>2. SlotSpace - HdrSize \in 0 .. (SlotSize - 1)
    BY <1>1, SlotsAssumption DEF SlotSpace, HdrSize
  <1>3. tx_data.index \in Nat /\ tx_data.offset \in Nat /\ tx_data.offset < SlotSize
    BY SlotsAssumption, SlotZeroAssumption DEF TypeOK, Positions
  <1>4. SlotOffset(tx_data.offset) \in Nat /\ SlotSize \in Nat
    BY <1>3, PosSplit, Zenon
  <1>5. tx_data.index * SlotSize \in Nat
    BY <1>3, <1>4
  <1>6. Address(tx_data) \in Nat
    BY <1>4, <1>5 DEF Address
  <1> QED
    BY <1>2, <1>6, Zenon DEF Padding

LEMMA ReserveTypes ==
    ASSUME TypeOK, BusyCalls, TransmitInv, NEW c \in Cores, Reserve(c)
    PROVE  TypeOK' /\ BusyCalls'
  <1> DEFINE m == call[c]
  <1>1. Aligned(local_tx_pos)
    BY DEF TransmitInv, PositionsOK
  <1>2. StartPos(m) \in Nat
    BY <1>1, StartAligned DEF Aligned
  <1>3. m \in Messages
    BY DEF Reserve, BusyCalls
  <1>4. UNCHANGED <<tx_pos, quotaVars, vcVars, call, conn_state, srv, sent>> /\ PadSlot(m)
    BY DEF Reserve
  <1>5. slot_data' \in Memories(Messages \cup Padding) /\ padded' \subseteq Nat
    <2>1. slot_data \in Memories(Messages \cup Padding) /\ padded \subseteq Nat
      BY DEF TypeOK, Padding
    <2>2. CASE NeedsPadding(m)
      <3>1. PaddingMsg(SlotSpace - HdrSize) \in Messages \cup Padding /\ Address(tx_data) \in Nat
        BY <1>1, PaddingTypes
      <3>2. /\ slot_data' = store_message(slot_data, Address(tx_data),
                                          PaddingMsg(SlotSpace - HdrSize), HdrSize)
            /\ padded' = padded \cup {Address(tx_data)}
        BY <1>4, <2>2 DEF PadSlot
      <3>3. slot_data' \in Memories(Messages \cup Padding)
        BY <2>1, <3>1, <3>2, StoreInMemories
      <3> QED
        BY <2>1, <3>1, <3>2, <3>3
    <2>3. CASE ~NeedsPadding(m)
      BY <1>4, <2>1, <2>3 DEF PadSlot
    <2> QED
      BY <2>2, <2>3
  <1>6. CASE OutOfSlots(m)
    <2>1. panicked' = TRUE /\ UNCHANGED <<local_tx_pos, tx_data, pc, slot_position>>
      BY <1>6 DEF Reserve
    <2> QED
      BY <1>4, <1>5, <2>1 DEF TypeOK, BusyCalls, Padding, quotaVars, vcVars
  <1>7. CASE ~OutOfSlots(m)
    <2>1. /\ local_tx_pos' = StartPos(m) + Stride(m)
          /\ tx_data' = PositionFor(m)
          /\ slot_position' = [slot_position EXCEPT ![c] = PositionFor(m)]
          /\ pc' = [pc EXCEPT ![c] = "store"]
          /\ panicked' = panicked
          /\ pc[c] = "reserve"
      BY <1>7 DEF Reserve
    <2>2. PositionFor(m) \in Positions
      BY <1>2, PositionTypes
    <2>3. local_tx_pos' \in Nat
      BY <1>2, <1>3, <2>1, StrideFits
    <2>4. pc' \in [Cores -> {"idle", "check", "quota_wait", "reserve", "store"}]
      BY <2>1 DEF TypeOK
    <2>5. slot_position' \in [Cores -> Positions] /\ tx_data' \in Positions
      BY <2>1, <2>2 DEF TypeOK
    <2>6. BusyCalls'
      BY <1>4, <2>1 DEF TypeOK, BusyCalls
    <2> QED
      BY <1>4, <1>5, <2>1, <2>3, <2>4, <2>5, <2>6 DEF TypeOK, Padding, quotaVars, vcVars
  <1> QED
    BY <1>6, <1>7

\* The other steps under a guard.
LEMMA GuardedTypes ==
    ASSUME TypeOK, BusyCalls, TransmitInv, NEW c \in Cores, Guarded(c)
    PROVE  TypeOK' /\ BusyCalls'
  <1>1. CASE Refuse(c) \/ WaitForQuota(c) \/ WithinQuota(c)
    <2>1. /\ pc' \in [Cores -> {"idle", "check", "quota_wait", "reserve", "store"}]
          /\ call' \in [Cores -> Messages \cup {NoMessage}]
          /\ BusyCalls'
      BY <1>1 DEF Refuse, WaitForQuota, WithinQuota, TypeOK, BusyCalls
    <2>2. UNCHANGED <<slotVars, quotaVars, vcVars, slot_position, conn_state, srv, panicked, sent, padded>>
      BY <1>1 DEF Refuse, WaitForQuota, WithinQuota
    <2> QED
      BY <2>1, <2>2 DEF TypeOK, slotVars, quotaVars, vcVars
  <1>2. CASE Reserve(c)
    BY <1>2, ReserveTypes
  <1>3. ASSUME NEW s \in Services, AddService(c, s) \/ Opened(c, s) \/ PeerCloses(c, s)
        PROVE  TypeOK' /\ BusyCalls'
    <2>1. UNCHANGED <<slotVars, callVars, vcVars, data_use_count, previous_data_index,
                      slot_use_count, conn_state, panicked, sent, padded>>
      BY <1>3 DEF AddService, Opened, PeerCloses, quotaVars
    <2>2. FirstTxIndex(s) \in Int
      <3>1. local_tx_pos \div SlotSize \in Nat
        BY PosSplit DEF TypeOK
      <3> QED
        BY <3>1 DEF FirstTxIndex, slot_queue_index_from_pos, TypeOK
    <2>3. /\ srv' \in [Services -> {"none", "added", "opening", "open", "closing", "closed"}]
          /\ previous_tx_index' \in [Services -> Int]
      BY <1>3, <2>2 DEF AddService, Opened, PeerCloses, quotaVars, TypeOK
    <2> QED
      BY <2>1, <2>3 DEF TypeOK, BusyCalls, slotVars, callVars, vcVars
  <1> QED
    BY <1>1, <1>2, <1>3 DEF Guarded

\* The end of queue_message.
LEMMA StoreTypes ==
    ASSUME TypeOK, BusyCalls, TransmitInv, NEW c \in Cores, Store(c)
    PROVE  TypeOK' /\ BusyCalls'
  <1> DEFINE m == call[c]
             at == Address(slot_position[c])
  <1>1. m \in Messages
    BY DEF Store, BusyCalls
  <1>2. at \in Nat
    <2>1. slot_position[c].index \in Nat /\ slot_position[c].offset \in Nat
      BY SlotZeroAssumption, SlotsAssumption DEF TypeOK, Positions
    <2>2. SlotOffset(slot_position[c].offset) \in Nat /\ SlotSize \in Nat
      BY <2>1, PosSplit, Zenon
    <2>3. slot_position[c].index * SlotSize \in Nat
      BY <2>1, <2>2
    <2> QED
      BY <2>2, <2>3 DEF Address
  <1> HIDE DEF at
  <1>3. /\ slot_data' = store_message(slot_data, at, m, Stride(m))
        /\ tx_pos' = local_tx_pos
        /\ sent' = Append(sent, [at |-> at, msg |-> m])
        /\ pc' = [pc EXCEPT ![c] = "idle"]
        /\ call' = [call EXCEPT ![c] = NoMessage]
        /\ slot_position' = [slot_position EXCEPT ![c] = NoPosition]
        /\ UNCHANGED <<local_tx_pos, tx_data, vcVars, conn_state, srv, panicked, padded>>
    BY DEF Store, PublishedPos, at
  <1>4. slot_data' \in Memories(Messages \cup Padding)
    BY <1>1, <1>3, StoreInMemories DEF TypeOK, Padding
  <1>5. NoPosition \in Positions
    BY LocalLayout, SlotsAssumption DEF NoPosition, SlotPosition, Unset, Positions
  <1>6. /\ pc' \in [Cores -> {"idle", "check", "quota_wait", "reserve", "store"}]
        /\ call' \in [Cores -> Messages \cup {NoMessage}]
        /\ slot_position' \in [Cores -> Positions]
        /\ BusyCalls'
    BY <1>3, <1>5 DEF TypeOK, BusyCalls
  <1>7. sent' \in Seq([at : Nat, msg : Messages])
    BY <1>1, <1>2, <1>3 DEF TypeOK
  <1>8. /\ data_use_count' \in Nat /\ previous_data_index' \in Int
        /\ slot_use_count' \in [Services -> Nat] /\ previous_tx_index' \in [Services -> Int]
    <2>1. CASE m.type = "DATA"
      <3>1. CountData(m)
        BY <2>1 DEF Store
      <3> DEFINE e == slot_queue_index_from_pos(local_tx_pos - 1)
      <3>2. e \in Int
        BY SlotsAssumption DEF TypeOK, slot_queue_index_from_pos
      <3>3. /\ previous_data_index' = e
            /\ data_use_count' = data_use_count + (IF e # previous_data_index THEN 1 ELSE 0)
            /\ previous_tx_index' = [previous_tx_index EXCEPT ![m.service] = e]
            /\ slot_use_count' = [slot_use_count EXCEPT
                  ![m.service] = @ + (IF e # previous_tx_index[m.service] THEN 1 ELSE 0)]
        BY <3>1 DEF CountData
      <3>4. m.service \in Services
        BY <1>1, <2>1 DEF Messages, ConnectMsg, OpenMsg, CloseMsg, DataMsg
      <3> HIDE DEF e, m
      <3>5. data_use_count' \in Nat /\ previous_data_index' \in Int
        BY <3>2, <3>3 DEF TypeOK
      <3>6. previous_tx_index' \in [Services -> Int]
        BY <3>2, <3>3 DEF TypeOK
      <3>7. slot_use_count' \in [Services -> Nat]
        <4> DEFINE old == slot_use_count[m.service]
                   new == old + (IF e # previous_tx_index[m.service] THEN 1 ELSE 0)
        <4>1. old \in Nat /\ slot_use_count \in [Services -> Nat]
          BY <3>4 DEF TypeOK
        <4>2. new \in Nat
          BY <4>1
        <4>3. slot_use_count' = [slot_use_count EXCEPT ![m.service] = new]
          BY <3>3
        <4> QED
          BY <4>1, <4>2, <4>3, Zenon
      <3> QED
        BY <3>5, <3>6, <3>7
    <2>2. CASE m.type # "DATA"
      BY <2>2 DEF Store, quotaVars, TypeOK
    <2> QED
      BY <2>1, <2>2
  <1> QED
    BY <1>3, <1>4, <1>6, <1>7, <1>8 DEF TypeOK, Padding, vcVars

\* The VideoCore takes whole messages out of the memory.
LEMMA VideoCoreTypes ==
    ASSUME TypeOK, BusyCalls, TransmitInv, VcReads \/ VcReadsUnwritten
    PROVE  TypeOK' /\ BusyCalls'
  <1>1. vc_pos' \in Nat
    BY VideoCoreKeeps
  <1>2. received' \in Seq(Messages)
    <2>1. received \in Seq(Messages)
      BY DEF TypeOK
    <2>2. CASE received' = received
      BY <2>1, <2>2
    <2>3. CASE received' # received
      <3> DEFINE cell == slot_data[VcAddress]
      <3>1. cell.part = "header" /\ cell.of.type # "PADDING" /\ received' = Append(received, cell.of)
        BY <2>3 DEF VcReads, VcReadsUnwritten
      <3>2. VcAddress \in Addresses
        BY QueueInMemory DEF TransmitInv, PositionsOK, VcAddress
      <3>3. slot_data \in [Addresses ->
                {EmptyCell} \cup {Cell(part, x) : part \in {"header", "payload"}, x \in Messages \cup Padding}]
        BY DEF TypeOK, Memories, Padding
      <3>4. cell \in {EmptyCell} \cup
                {Cell(part, x) : part \in {"header", "payload"}, x \in Messages \cup Padding}
        BY <3>2, <3>3
      <3>5. cell.of \in Messages \cup Padding
        BY <3>1, <3>4 DEF EmptyCell, Cell
      <3>6. cell.of \notin Padding
        BY <3>1 DEF Padding, PaddingMsg
      <3>7. cell.of \in Messages
        BY <3>5, <3>6
      <3> QED
        BY <2>1, <3>1, <3>7
    <2> QED
      BY <2>2, <2>3
  <1>3. UNCHANGED <<slotVars, quotaVars, callVars, conn_state, srv, panicked, sent, padded>>
    BY DEF VcReads, VcReadsUnwritten
  <1> QED
    BY <1>1, <1>2, <1>3 DEF TypeOK, BusyCalls, slotVars, quotaVars, callVars

LEMMA TypeStep ==
    ASSUME TypeOK, BusyCalls, TransmitInv, [Next]_vars
    PROVE  TypeOK' /\ BusyCalls'
  <1>1. CASE UNCHANGED vars
    BY <1>1 DEF vars, slotVars, quotaVars, callVars, vcVars, TypeOK, BusyCalls
  <1> QED
    BY <1>1, BeginsTypes, GuardedTypes, StoreTypes, VideoCoreTypes DEF Next, CoreStep

LEMMA TypeInvariant == Spec => [](TypeOK /\ BusyCalls)
  <1>1. TypeOK /\ BusyCalls /\ TransmitInv /\ [Next]_vars => (TypeOK /\ BusyCalls)'
    BY TypeStep
  <1> QED
    BY TypeInit, <1>1, TransmitInvariant, PTL DEF Spec

\* Every reachable state of the transmit path is well typed, on any number of
\* cores: positions stay inside slots, and the memory holds nothing but whole
\* messages and padding.
THEOREM TypeCorrect == Spec => []TypeOK
  BY TypeInvariant, PTL

-----------------------------------------------------------------------------
(* Where the messages are. *)

\* The ARM's slots are one piece of memory, from here on.
Base == local_slot_first * SlotSize

\* Reserved space is in the ARM's slots, and tx_data is in the slot that is
\* being filled.
SpaceOK ==
    /\ local_tx_pos <= slot_queue_available * SlotSize
    /\ SlotOffset(local_tx_pos) # 0 =>
          tx_data.index = local_slot_first + local_tx_pos \div SlotSize

\* What reserve_space finds for a message that fits into a slot.
LEMMA ReservedSpace ==
    ASSUME Aligned(local_tx_pos), SpaceOK, NEW m \in Messages, ~OutOfSlots(m)
    PROVE  /\ StartPos(m) < slot_queue_available * SlotSize
           /\ StartPos(m) + Stride(m) <= slot_queue_available * SlotSize
           /\ SlotOffset(StartPos(m)) + Stride(m) <= SlotSize
           /\ PositionFor(m) = SlotPosition(local_slot_first + StartPos(m) \div SlotSize,
                                            SlotOffset(StartPos(m)))
           /\ local_slot_first + StartPos(m) \div SlotSize \in LocalSlots
  <1> DEFINE p == StartPos(m)
             n == slot_queue_available
             q == local_tx_pos \div SlotSize
             r == SlotOffset(local_tx_pos)
             st == Stride(m)
  <1>1. /\ p \in Nat /\ local_tx_pos \in Nat
        /\ n \in Nat /\ n <= MaxSlotsPerSide
    BY StartAligned, LocalLayout DEF Aligned
  <1>2. /\ SlotSize \in Nat /\ SlotSize >= 8
        /\ local_tx_pos = SlotSize * q + r
        /\ q \in Nat /\ r \in Nat /\ r < SlotSize
    BY <1>1, PosSplit, Zenon
  <1>3. st \in Nat /\ st >= 8 /\ st <= SlotSize
    BY StrideFits
  <1>4. n * SlotSize \in Nat
    BY <1>1, <1>2
  <1>5. p <= n * SlotSize /\ (SlotOffset(p) = 0 => p # n * SlotSize) /\ SlotOffset(p) + st <= SlotSize
        /\ (SlotOffset(p) # 0 => p = local_tx_pos)
    <2>1. CASE NeedsPadding(m)
      <3>1. p = local_tx_pos + (SlotSize - r) /\ st > SlotSize - r
        BY <2>1 DEF StartPos, SlotSpace, NeedsPadding
      <3>2. SlotSize - r \in Nat /\ r + (SlotSize - r) = SlotSize /\ r # 0
        BY <1>2, <1>3, <3>1
      <3>3. SlotOffset(p) = 0 /\ p = SlotSize * (q + 1)
        BY <1>1, <3>1, <3>2, NextSlot
      <3>4. local_tx_pos < n * SlotSize
        <4>1. local_tx_pos <= n * SlotSize
          BY DEF SpaceOK
        <4>2. local_tx_pos # n * SlotSize
          <5> SUFFICES ASSUME local_tx_pos = n * SlotSize PROVE FALSE
            OBVIOUS
          <5>1. local_tx_pos = SlotSize * n + 0 /\ 0 < SlotSize /\ 0 \in Nat
            BY <1>1, <1>2
          <5>2. r = 0
            BY <1>1, <5>1, PosUnique, Zenon
          <5> QED BY <3>2, <5>2
        <4> QED BY <1>1, <1>4, <4>1, <4>2
      <3>5. q < n
        BY <1>1, <3>4, SlotBelow
      <3>6. SlotSize * (q + 1) <= n * SlotSize
        <4> HIDE DEF q, n
        <4> QED BY <1>1, <1>2, <3>5
      <3>7. p # n * SlotSize
        BY <3>3 DEF OutOfSlots
      <3> QED
        BY <1>3, <3>3, <3>6, <3>7
    <2>2. CASE ~NeedsPadding(m)
      <3>1. p = local_tx_pos /\ ~(st > SlotSize - r)
        BY <2>2 DEF StartPos, SlotSpace, NeedsPadding
      <3>2. r + st <= SlotSize
        BY <1>2, <1>3, <3>1
      <3>3. p <= n * SlotSize
        BY <3>1 DEF SpaceOK
      <3>4. SlotOffset(p) = 0 => p # n * SlotSize
        BY DEF OutOfSlots
      <3> QED
        BY <3>1, <3>2, <3>3, <3>4
    <2> QED
      BY <2>1, <2>2
  <1>6. p < n * SlotSize
    <2>1. p # n * SlotSize
      <3> SUFFICES ASSUME p = n * SlotSize PROVE FALSE
        OBVIOUS
      <3>1. p = SlotSize * n + 0 /\ 0 < SlotSize /\ 0 \in Nat
        BY <1>1, <1>2
      <3>2. SlotOffset(p) = 0
        BY <1>1, <3>1, PosUnique, Zenon
      <3> QED BY <1>5, <3>2
    <2> QED BY <1>1, <1>4, <1>5, <2>1
  <1>7. p \div SlotSize < n /\ p \div SlotSize \in Nat
    BY <1>1, <1>6, SlotBelow, PosSplit
  <1>8. p + st <= n * SlotSize
    <2> DEFINE k == p \div SlotSize
               o == SlotOffset(p)
    <2>1. p = SlotSize * k + o /\ o \in Nat /\ k \in Nat /\ k < n /\ o + st <= SlotSize
      BY <1>1, <1>5, <1>7, PosSplit, Zenon
    <2> HIDE DEF p, k, o, n, st
    <2>2. SlotSize * (k + 1) <= n * SlotSize /\ SlotSize * (k + 1) = SlotSize * k + SlotSize
          /\ SlotSize * k \in Nat
      BY <1>1, <1>2, <2>1
    <2> QED BY <1>1, <1>2, <1>3, <1>4, <2>1, <2>2
  <1>9. local_slot_first + p \div SlotSize \in LocalSlots
    BY <1>1, <1>7, LocalLayout
  <1>10. PositionFor(m) = SlotPosition(local_slot_first + p \div SlotSize, SlotOffset(p))
    <2>1. CASE SlotOffset(p) = 0
      <3>1. SlotStart(slot_queue, p) = SlotPosition(local_slot_first + p \div SlotSize, 0)
        <4> HIDE DEF p
        <4> QED BY <1>1, <1>6, LocalQueue, QueueAddress
      <3> QED
        BY <2>1, <3>1 DEF PositionFor
    <2>2. CASE SlotOffset(p) # 0
      <3>1. p = local_tx_pos
        BY <1>5, <2>2
      <3>2. tx_data.index = local_slot_first + p \div SlotSize
        BY <2>2, <3>1 DEF SpaceOK
      <3> QED
        BY <2>2, <3>2 DEF PositionFor
    <2> QED BY <2>1, <2>2
  <1> QED
    BY <1>5, <1>6, <1>8, <1>9, <1>10

\* The address of a slot and an offset into it.
LEMMA AddressOf ==
    ASSUME NEW p \in Nat
    PROVE  /\ Address(SlotPosition(local_slot_first + p \div SlotSize, SlotOffset(p))) = Base + p
           /\ Base \in Nat
  <1> DEFINE q == p \div SlotSize
             r == SlotOffset(p)
             first == local_slot_first
  <1>1. /\ SlotSize \in Nat /\ SlotSize >= 8
        /\ p = SlotSize * q + r
        /\ q \in Nat /\ r \in Nat /\ r < SlotSize
    BY PosSplit, Zenon
  <1>2. first \in Nat
    BY LocalLayout
  <1>3. SlotOffset(r) = r
    <2> HIDE DEF r
    <2> QED BY <1>1 DEF SlotOffset
  <1>4. Address(SlotPosition(first + q, r)) = (first + q) * SlotSize + r
    BY <1>3 DEF Address, SlotPosition
  <1>5. /\ (first + q) * SlotSize = first * SlotSize + SlotSize * q
        /\ first * SlotSize \in Nat /\ SlotSize * q \in Nat
    <2> HIDE DEF q, first
    <2> QED BY <1>1, <1>2
  <1>6. (first + q) * SlotSize + r = first * SlotSize + p
    <2> HIDE DEF q, first, r
    <2> QED BY <1>1, <1>2, <1>5
  <1> QED
    BY <1>4, <1>5, <1>6 DEF Base

\* A message of the stream at address a: it lies in reserved space, and tx_data
\* is its own position or that of a later message.
Placed(a, m) ==
    /\ a \in Addresses
    /\ m \in Messages
    /\ a + Stride(m) <= Base + local_tx_pos
    /\ a = Address(tx_data) \/ a + Stride(m) <= Address(tx_data)

\* Two messages share no cell.
Apart(a, m, b, n) == a + Stride(m) <= b \/ b + Stride(n) <= a

Storing(c) == pc[c] = "store"
At(c) == Address(slot_position[c])

\* The space of the cores between reserve_space and store_message.
ReservedOK ==
    /\ OwnSlotsOnly
    /\ \A c \in Cores : Storing(c) => Placed(At(c), call[c])
    /\ \A c, d \in Cores : Storing(c) /\ Storing(d) /\ c # d => Apart(At(c), call[c], At(d), call[d])

\* The queued messages, and the space that is still to be written.
SentOK ==
    \A i \in 1 .. Len(sent) :
        /\ Placed(sent[i].at, sent[i].msg)
        /\ \A c \in Cores : Storing(c) => Apart(sent[i].at, sent[i].msg, At(c), call[c])

\* The inductive invariant behind OwnSlotsOnly and StreamIntact: all space
\* that reserve_space ever handed out is disjoint.
PlaceInv == SpaceOK /\ ReservedOK /\ SentOK /\ StreamIntact

LEMMA PlaceInit == Init => PlaceInv
  <1> SUFFICES ASSUME Init PROVE PlaceInv
    OBVIOUS
  <1> USE DEF Init
  <1>1. SpaceOK
    <2>1. slot_queue_available * SlotSize \in Nat
      BY LocalLayout, SlotBelow
    <2>2. SlotOffset(0) = 0
      BY SlotsAssumption DEF SlotOffset
    <2> QED BY <2>1, <2>2 DEF SpaceOK
  <1>2. ReservedOK
    BY DEF ReservedOK, OwnSlotsOnly, Storing
  <1>3. SentOK /\ StreamIntact
    BY DEF SentOK, StreamIntact
  <1> QED
    BY <1>1, <1>2, <1>3 DEF PlaceInv

\* A step that leaves the slots and the cores with reserved space alone.
LEMMA PlaceFrame ==
    ASSUME PlaceInv,
           UNCHANGED <<slotVars, slot_position, sent, padded>>,
           \A c \in Cores : /\ Storing(c)' <=> Storing(c)
                            /\ Storing(c) => call'[c] = call[c]
    PROVE  PlaceInv'
  <1>1. UNCHANGED <<local_tx_pos, tx_data, slot_data, slot_position, sent, padded>>
    BY DEF slotVars
  <1>2. SpaceOK' /\ StreamIntact'
    BY <1>1 DEF PlaceInv, SpaceOK, StreamIntact
  <1>3. \A c \in Cores : At(c)' = At(c)
    BY <1>1 DEF At
  <1>4. \A a, m : Placed(a, m)' <=> Placed(a, m)
    BY <1>1 DEF Placed
  <1>5. ReservedOK'
    <2>1. OwnSlotsOnly'
      BY <1>1 DEF PlaceInv, ReservedOK, OwnSlotsOnly, Storing
    <2>2. ASSUME NEW c \in Cores, Storing(c)' PROVE Placed(At(c), call[c])'
      BY <1>3, <1>4, <2>2 DEF PlaceInv, ReservedOK
    <2>3. ASSUME NEW c \in Cores, NEW d \in Cores, Storing(c)', Storing(d)', c # d
          PROVE  Apart(At(c), call[c], At(d), call[d])'
      BY <1>3, <2>3 DEF PlaceInv, ReservedOK, Apart
    <2> QED BY <2>1, <2>2, <2>3 DEF ReservedOK
  <1>6. SentOK'
    BY <1>1, <1>3, <1>4 DEF PlaceInv, SentOK, Apart
  <1> QED
    BY <1>2, <1>5, <1>6 DEF PlaceInv

\* Placed messages have whole numbers for addresses and strides.
LEMMA PlacedTypes ==
    ASSUME TypeOK, Aligned(local_tx_pos), NEW a, NEW m, Placed(a, m)
    PROVE  /\ a \in Nat /\ Stride(m) \in Nat /\ Stride(m) >= 8
           /\ Base \in Nat /\ local_tx_pos \in Nat /\ Address(tx_data) \in Nat
  BY AddressesAreNat, StrideFits, PaddingTypes, AddressOf DEF Placed, Aligned

\* The padding header, at tx_data, hits a queued message at its header or not
\* at all.
LEMMA PadKeepsStream ==
    ASSUME TypeOK, Aligned(local_tx_pos), SentOK, StreamIntact, NEW m, PadSlot(m), sent' = sent
    PROVE  StreamIntact'
  <1>1. CASE ~NeedsPadding(m)
    BY <1>1 DEF PadSlot, StreamIntact
  <1>2. CASE NeedsPadding(m)
    <2> DEFINE b == Address(tx_data)
               pad == PaddingMsg(SlotSpace - HdrSize)
    <2>1. slot_data' = store_message(slot_data, b, pad, HdrSize) /\ padded' = padded \cup {b}
      BY <1>2 DEF PadSlot
    <2> SUFFICES ASSUME NEW i \in 1 .. Len(sent), sent[i].at \notin padded'
                 PROVE  Intact(slot_data', sent[i].at, sent[i].msg, Stride(sent[i].msg))
      BY DEF StreamIntact
    <2> DEFINE a == sent[i].at
               n == sent[i].msg
    <2>2. Placed(a, n) /\ a # b /\ Intact(slot_data, a, n, Stride(n))
      BY <2>1 DEF SentOK, StreamIntact
    <2>3. a \in Addresses /\ Stride(n) \in Nat /\ Stride(n) > 0 /\ b \in Nat /\ a + Stride(n) <= b
      BY <2>2, PlacedTypes DEF Placed
    <2>4. HdrSize \in Nat /\ HdrSize > 0
      BY DEF HdrSize
    <2> HIDE DEF a, b, n, pad
    <2>5. Intact(store_message(slot_data, b, pad, HdrSize), a, n, Stride(n))
      BY <2>2, <2>3, <2>4, StoreSpares
    <2> QED
      BY <2>1, <2>5 DEF a, n
  <1> QED
    BY <1>1, <1>2

\* reserve_space hands out space behind all that was handed out before.
LEMMA ReservePlaces ==
    ASSUME TypeOK, BusyCalls, TransmitInv, PlaceInv, NEW c \in Cores, Reserve(c)
    PROVE  PlaceInv'
  <1> DEFINE m == call[c]
             p == StartPos(m)
             new == PositionFor(m)
  <1>1. Aligned(local_tx_pos) /\ local_tx_pos \in Nat
    BY DEF TransmitInv, PositionsOK, Aligned
  <1>2. m \in Messages /\ pc[c] = "reserve" /\ PadSlot(m) /\ sent' = sent /\ call' = call
    BY DEF Reserve, BusyCalls
  <1>3. StreamIntact'
    BY <1>1, <1>2, PadKeepsStream DEF PlaceInv
  <1>4. CASE OutOfSlots(m)
    <2>1. UNCHANGED <<local_tx_pos, tx_data, pc, slot_position>>
      BY <1>4 DEF Reserve
    <2>2. SpaceOK'
      BY <2>1 DEF PlaceInv, SpaceOK
    <2>3. ReservedOK'
      BY <1>2, <2>1 DEF PlaceInv, ReservedOK, OwnSlotsOnly, Storing, At, Placed, Apart
    <2>4. SentOK'
      BY <1>2, <2>1 DEF PlaceInv, SentOK, Storing, At, Placed, Apart
    <2> QED
      BY <1>3, <2>2, <2>3, <2>4 DEF PlaceInv
  <1>5. CASE ~OutOfSlots(m)
    <2>1. /\ local_tx_pos' = p + Stride(m)
          /\ tx_data' = new
          /\ slot_position' = [slot_position EXCEPT ![c] = new]
          /\ pc' = [pc EXCEPT ![c] = "store"]
      BY <1>5 DEF Reserve
    <2>2. /\ p < slot_queue_available * SlotSize
          /\ p + Stride(m) <= slot_queue_available * SlotSize
          /\ SlotOffset(p) + Stride(m) <= SlotSize
          /\ new = SlotPosition(local_slot_first + p \div SlotSize, SlotOffset(p))
          /\ local_slot_first + p \div SlotSize \in LocalSlots
      BY <1>1, <1>2, <1>5, ReservedSpace DEF PlaceInv
    <2>3. Aligned(p) /\ p \in Nat /\ p >= local_tx_pos
      BY <1>1, StartAligned DEF Aligned
    <2>4. Address(new) = Base + p /\ Base \in Nat
      BY <2>2, <2>3, AddressOf
    <2>5. Base + p \in Addresses
      BY <2>2, <2>3, LocalLayout, SlotsInMemory DEF Base
    <2>6. Stride(m) \in Nat /\ Stride(m) >= 8 /\ SlotSize \in Nat
      BY <1>2, StrideFits, SlotsAssumption
    <2> HIDE DEF p, new
    <2>7. SpaceOK'
      <3>1. SlotOffset(p + Stride(m)) # 0 =>
              /\ (p + Stride(m)) \div SlotSize = p \div SlotSize
        <4>1. SlotOffset(p) \in Nat
          BY <2>3, PosSplit
        <4>2. CASE SlotOffset(p) + Stride(m) < SlotSize
          BY <2>3, <2>6, <4>2, WithinSlot
        <4>3. CASE SlotOffset(p) + Stride(m) = SlotSize
          BY <2>3, <2>6, <4>3, NextSlot
        <4> QED BY <2>2, <2>6, <4>1, <4>2, <4>3
      <3>2. new.index = local_slot_first + p \div SlotSize
        BY <2>2 DEF SlotPosition
      <3> QED
        BY <2>1, <2>2, <3>1, <3>2 DEF SpaceOK
    <2>8. /\ slot_position'[c] = new /\ pc'[c] = "store"
          /\ \A d \in Cores \ {c} : slot_position'[d] = slot_position[d] /\ pc'[d] = pc[d]
      BY <2>1 DEF TypeOK
    <2>9. /\ At(c)' = Base + p /\ Storing(c)'
          /\ \A d \in Cores \ {c} : At(d)' = At(d) /\ (Storing(d)' <=> Storing(d))
      BY <2>4, <2>8 DEF At, Storing
    <2>10. ASSUME NEW a, NEW n, Placed(a, n)
           PROVE  Placed(a, n)' /\ a + Stride(n) <= Base + p
      <3>1. /\ a \in Nat /\ Stride(n) \in Nat /\ Base \in Nat
            /\ a + Stride(n) <= Base + local_tx_pos /\ a \in Addresses /\ n \in Messages
        BY <1>1, <2>10, PlacedTypes DEF Placed
      <3>2. a + Stride(n) <= Base + p /\ a + Stride(n) <= Base + (p + Stride(m))
        BY <1>1, <2>3, <2>6, <3>1
      <3> QED
        BY <2>1, <2>4, <3>1, <3>2 DEF Placed
    <2>11. ASSUME NEW a, a = Base + p, NEW n, n = m PROVE Placed(a, n)'
      <3>1. (Base + p) + Stride(m) <= Base + (p + Stride(m))
        BY <2>3, <2>4, <2>6
      <3> QED
        BY <1>2, <2>1, <2>4, <2>5, <2>11, <3>1 DEF Placed
    <2>12. ReservedOK'
      <3>1. OwnSlotsOnly'
        <4>1. new.index \in LocalSlots /\ new.offset + Stride(m) <= SlotSize
          BY <2>2 DEF SlotPosition
        <4>2. ASSUME NEW d \in Cores \ {c}, pc'[d] = "store"
              PROVE  /\ slot_position'[d].index \in LocalSlots
                     /\ slot_position'[d].offset + Stride(call'[d]) <= SlotSize
          BY <1>2, <2>8, <4>2 DEF PlaceInv, ReservedOK, OwnSlotsOnly
        <4> QED
          BY <1>2, <2>8, <4>1, <4>2 DEF OwnSlotsOnly
      <3>2. ASSUME NEW d \in Cores, Storing(d)' PROVE Placed(At(d), call[d])'
        <4>1. CASE d = c
          BY <1>2, <2>9, <2>11, <4>1
        <4>2. CASE d # c
          BY <1>2, <2>9, <2>10, <3>2, <4>2 DEF PlaceInv, ReservedOK
        <4> QED BY <4>1, <4>2
      <3>3. ASSUME NEW d \in Cores \ {c}, Storing(d)
            PROVE  At(d) + Stride(call[d]) <= Base + p
        BY <2>10, <3>3 DEF PlaceInv, ReservedOK
      <3>4. ASSUME NEW d \in Cores, NEW e \in Cores, Storing(d)', Storing(e)', d # e
            PROVE  Apart(At(d), call[d], At(e), call[e])'
        <4>1. CASE d = c
          BY <1>2, <2>9, <3>3, <3>4, <4>1 DEF Apart
        <4>2. CASE e = c
          BY <1>2, <2>9, <3>3, <3>4, <4>2 DEF Apart
        <4>3. CASE d # c /\ e # c
          BY <1>2, <2>9, <3>4, <4>3 DEF PlaceInv, ReservedOK, Apart
        <4> QED BY <4>1, <4>2, <4>3
      <3> QED
        BY <3>1, <3>2, <3>4 DEF ReservedOK
    <2>13. SentOK'
      <3> SUFFICES ASSUME NEW i \in 1 .. Len(sent)
                   PROVE  /\ Placed(sent[i].at, sent[i].msg)'
                          /\ \A d \in Cores :
                                Storing(d)' => Apart(sent[i].at, sent[i].msg, At(d), call[d])'
        BY <1>2 DEF SentOK
      <3>1. Placed(sent[i].at, sent[i].msg)
        BY DEF PlaceInv, SentOK
      <3>2. Placed(sent[i].at, sent[i].msg)' /\ sent[i].at + Stride(sent[i].msg) <= Base + p
        BY <1>2, <2>10, <3>1
      <3>3. ASSUME NEW d \in Cores, Storing(d)'
            PROVE  Apart(sent[i].at, sent[i].msg, At(d), call[d])'
        <4>1. CASE d = c
          BY <1>2, <2>9, <3>2, <4>1 DEF Apart
        <4>2. CASE d # c
          BY <1>2, <2>9, <3>3, <4>2 DEF PlaceInv, SentOK, Apart
        <4> QED BY <4>1, <4>2
      <3> QED
        BY <3>2, <3>3
    <2> QED
      BY <1>3, <2>7, <2>12, <2>13 DEF PlaceInv
  <1> QED
    BY <1>4, <1>5

\* store_message fills its own space, and that joins the stream.
LEMMA StorePlaces ==
    ASSUME TypeOK, BusyCalls, TransmitInv, PlaceInv, NEW c \in Cores, Store(c)
    PROVE  PlaceInv'
  <1> DEFINE m == call[c]
             a == At(c)
             last == Len(sent) + 1
  <1>1. Aligned(local_tx_pos)
    BY DEF TransmitInv, PositionsOK
  <1>2. /\ Storing(c)
        /\ slot_data' = store_message(slot_data, a, m, Stride(m))
        /\ sent' = Append(sent, [at |-> a, msg |-> m])
        /\ pc' = [pc EXCEPT ![c] = "idle"]
        /\ call' = [call EXCEPT ![c] = NoMessage]
        /\ slot_position' = [slot_position EXCEPT ![c] = NoPosition]
        /\ UNCHANGED <<local_tx_pos, tx_data, padded>>
    BY DEF Store, At, Storing
  <1>3. Placed(a, m)
    BY <1>2 DEF PlaceInv, ReservedOK
  <1>4. a \in Addresses /\ a \in Nat /\ Stride(m) \in Nat /\ Stride(m) > 0
    BY <1>1, <1>3, PlacedTypes DEF Placed
  <1>5. /\ ~Storing(c)'
        /\ \A d \in Cores \ {c} :
              /\ At(d)' = At(d) /\ call'[d] = call[d]
              /\ pc'[d] = pc[d] /\ slot_position'[d] = slot_position[d]
              /\ Storing(d)' <=> Storing(d)
    BY <1>2 DEF TypeOK, At, Storing
  <1>6. /\ Len(sent') = last
        /\ sent'[last] = [at |-> a, msg |-> m]
        /\ Len(sent) \in Nat
        /\ \A i \in 1 .. Len(sent) : sent'[i] = sent[i]
    BY <1>2 DEF TypeOK
  <1> HIDE DEF a, m
  <1>7. SpaceOK'
    BY <1>2 DEF PlaceInv, SpaceOK
  <1>8. \A b, n : Placed(b, n)' <=> Placed(b, n)
    BY <1>2 DEF Placed
  <1>9. ReservedOK'
    <2>1. OwnSlotsOnly'
      BY <1>2, <1>5 DEF PlaceInv, ReservedOK, OwnSlotsOnly, Storing
    <2>2. ASSUME NEW d \in Cores, Storing(d)' PROVE Placed(At(d), call[d])'
      BY <1>5, <1>8, <2>2 DEF PlaceInv, ReservedOK
    <2>3. ASSUME NEW d \in Cores, NEW e \in Cores, Storing(d)', Storing(e)', d # e
          PROVE  Apart(At(d), call[d], At(e), call[e])'
      BY <1>5, <2>3 DEF PlaceInv, ReservedOK, Apart
    <2> QED BY <2>1, <2>2, <2>3 DEF ReservedOK
  <1>10. SentOK'
    <2>1. ASSUME NEW i \in 1 .. Len(sent)
          PROVE  /\ Placed(sent[i].at, sent[i].msg)'
                 /\ \A d \in Cores : Storing(d)' => Apart(sent[i].at, sent[i].msg, At(d), call[d])'
      BY <1>5, <1>6, <1>8 DEF PlaceInv, SentOK, Apart
    <2>2. ASSUME NEW n, n = last
          PROVE  /\ Placed(sent[n].at, sent[n].msg)'
                 /\ \A d \in Cores : Storing(d)' => Apart(sent[n].at, sent[n].msg, At(d), call[d])'
      <3>1. sent'[n].at = a /\ sent'[n].msg = m
        BY <1>6, <2>2
      <3> QED
        BY <1>2, <1>3, <1>5, <1>8, <3>1 DEF PlaceInv, ReservedOK, Apart, a, m
    <2> QED
      BY <1>6, <2>1, <2>2 DEF SentOK
  <1>11. StreamIntact'
    <2>1. ASSUME NEW i \in 1 .. Len(sent)
          PROVE  \/ sent'[i].at \in padded'
                 \/ Intact(slot_data', sent'[i].at, sent'[i].msg, Stride(sent'[i].msg))
      <3> DEFINE b == sent[i].at
                 n == sent[i].msg
      <3>1. Placed(b, n) /\ Apart(b, n, a, m)
        BY <1>2 DEF PlaceInv, SentOK, a, m
      <3>2. b \in Addresses /\ b \in Nat /\ Stride(n) \in Nat /\ Stride(n) > 0
        BY <1>1, <3>1, PlacedTypes DEF Placed
      <3>3. b \in padded \/ Intact(slot_data, b, n, Stride(n))
        BY DEF PlaceInv, StreamIntact
      <3> HIDE DEF b, n
      <3>4. Intact(slot_data, b, n, Stride(n)) =>
              Intact(store_message(slot_data, a, m, Stride(m)), b, n, Stride(n))
        BY <1>4, <3>1, <3>2, StoreSpares DEF Apart
      <3> QED
        BY <1>2, <1>6, <3>3, <3>4 DEF b, n
    <2>2. Intact(slot_data', a, m, Stride(m))
      BY <1>2, <1>4, StoredIntact
    <2> QED
      BY <1>6, <2>1, <2>2 DEF StreamIntact
  <1> QED
    BY <1>7, <1>9, <1>10, <1>11 DEF PlaceInv

\* Every other step leaves the reserved space and the stream alone.
LEMMA PlaceStep ==
    ASSUME TypeOK, BusyCalls, TransmitInv, PlaceInv, [Next]_vars
    PROVE  PlaceInv'
  <1>1. ASSUME NEW c \in Cores, Begins(c) PROVE PlaceInv'
    <2>1. PICK m \in Messages : Call(c, m) /\ UNCHANGED <<slotVars, slot_position, sent, padded>>
      BY <1>1 DEF Begins, Connect, OpenService, CloseService, QueueMessage, Messages
    <2> QED
      BY <2>1, PlaceFrame DEF Call, TypeOK, Storing
  <1>2. ASSUME NEW c \in Cores, Refuse(c) \/ WaitForQuota(c) \/ WithinQuota(c) PROVE PlaceInv'
    BY <1>2, PlaceFrame DEF Refuse, WaitForQuota, WithinQuota, TypeOK, Storing
  <1>3. ASSUME NEW c \in Cores, NEW s \in Services, AddService(c, s) \/ Opened(c, s) \/ PeerCloses(c, s)
        PROVE  PlaceInv'
    BY <1>3, PlaceFrame DEF AddService, Opened, PeerCloses, callVars, Storing
  <1>4. CASE VcReads \/ VcReadsUnwritten
    BY <1>4, PlaceFrame DEF VcReads, VcReadsUnwritten, callVars, Storing
  <1>5. CASE UNCHANGED vars
    BY <1>5, PlaceFrame DEF vars, callVars, Storing
  <1> QED
    BY <1>1, <1>2, <1>3, <1>4, <1>5, ReservePlaces, StorePlaces DEF Next, CoreStep, Guarded

LEMMA PlaceInvariant == Spec => []PlaceInv
  <1>1. TypeOK /\ BusyCalls /\ TransmitInv /\ PlaceInv /\ [Next]_vars => PlaceInv'
    BY PlaceStep
  <1> QED
    BY PlaceInit, <1>1, TypeInvariant, TransmitInvariant, PTL DEF Spec

\* reserve_space hands out nothing but space inside one of the ARM's slots: no
\* core ever writes into the VideoCore's slots, into slot zero or over the end
\* of a slot, however the cores interleave.
THEOREM OwnSlotsOnlyHolds == Spec => []OwnSlotsOnly
  <1>1. PlaceInv => OwnSlotsOnly
    BY DEF PlaceInv, ReservedOK
  <1> QED
    BY <1>1, PlaceInvariant, PTL

\* A queued message stays in memory as it was stored, unless reserve_space put
\* a padding header over its own.
THEOREM StreamIntactHolds == Spec => []StreamIntact
  <1>1. PlaceInv => StreamIntact
    BY DEF PlaceInv
  <1> QED
    BY <1>1, PlaceInvariant, PTL

-----------------------------------------------------------------------------
(* The quotas, on one core. *)

\* The shipped build: one core runs the executor.
OneCore == \A c, d \in Cores : c = d

\* The queueing core's message ends where the reserved space ends.
UpToEnd ==
    \A c \in Cores : Storing(c) =>
        /\ At(c) + Stride(call[c]) = Base + local_tx_pos
        /\ Stride(call[c]) <= local_tx_pos

\* A DATA message is queued for a service that was opened, and not any more
\* once the checks have seen it closing.
DataCall(c) == pc[c] # "idle" /\ call[c].type = "DATA"
DataCallsOK ==
    \A c \in Cores : DataCall(c) =>
        /\ srv[call[c].service] \in {"open", "closing", "closed"}
        /\ pc[c] \in {"reserve", "store"} => ~closing(call[c].service)

\* count and prev account for the slots of the services S: they are the slots
\* counted so far, prev is the last of them, or, before the first one, a slot
\* that ended before anything these services send.
Counted(count, prev, S) ==
    /\ IsFiniteSet(DataSlots(S))
    /\ count = Cardinality(DataSlots(S))
    /\ \/ /\ DataSlots(S) = {}
          /\ prev + 1 \in Nat
          /\ (prev + 1) * SlotSize <= local_tx_pos
          /\ \A c \in Cores : Storing(c) => (prev + 1) * SlotSize < local_tx_pos
       \/ /\ prev \in Nat /\ prev * SlotSize < local_tx_pos
          /\ local_slot_first + prev \in DataSlots(S)
          /\ \A x \in DataSlots(S) : x <= local_slot_first + prev

\* A DATA message that passed the checks counts no slot above the quota.
Allowed(count, prev, S, quota) ==
    /\ count <= quota
    /\ \A c \in Cores : DataCall(c) /\ call[c].service \in S =>
          /\ pc[c] = "reserve" => EndIndex(call[c]) = prev \/ count < quota
          /\ pc[c] = "store" => (local_tx_pos - 1) \div SlotSize = prev \/ count < quota

\* The inductive invariant behind the quotas, for the whole of the data and for
\* each service.
QuotaInv ==
    /\ UpToEnd
    /\ DataCallsOK
    /\ Counted(data_use_count, previous_data_index, Services)
    /\ Allowed(data_use_count, previous_data_index, Services, data_quota)
    /\ \A s \in Services :
          /\ srv[s] # "none" => Counted(slot_use_count[s], previous_tx_index[s], {s})
          /\ srv[s] = "none" => DataSlots({s}) = {} /\ slot_use_count[s] = 0
          /\ Allowed(slot_use_count[s], previous_tx_index[s], {s}, default_slot_quota)


\* The bytes of the ARM's slots and the slots they are in.
LEMMA SlotOfAddress ==
    ASSUME NEW p \in Nat
    PROVE  (Base + p) \div SlotSize = local_slot_first + p \div SlotSize
  <1> DEFINE q == p \div SlotSize
             r == SlotOffset(p)
             first == local_slot_first
             a == first * SlotSize + p
  <1>1. /\ SlotSize \in Nat /\ SlotSize >= 8
        /\ p = SlotSize * q + r
        /\ q \in Nat /\ r \in Nat /\ r < SlotSize
    BY PosSplit, Zenon
  <1>2. first \in Nat
    BY LocalLayout
  <1>3. /\ SlotSize * (first + q) = first * SlotSize + SlotSize * q
        /\ first * SlotSize \in Nat /\ SlotSize * q \in Nat
    <2> HIDE DEF q, first
    <2> QED BY <1>1, <1>2
  <1>4. a = SlotSize * (first + q) + r /\ a \in Nat /\ first + q \in Nat
    <2> HIDE DEF q, first, r
    <2> QED BY <1>1, <1>2, <1>3
  <1>5. a \div SlotSize = first + q
    <2> HIDE DEF a, q, first, r
    <2> QED BY <1>1, <1>4, PosUnique, Zenon
  <1> QED
    BY <1>5 DEF Base

\* The slot the check computes is the slot the message ends in, whether it is
\* moved to the next slot or not.
LEMMA EndIndexKept ==
    ASSUME Aligned(local_tx_pos), NEW m \in Messages
    PROVE  (StartPos(m) + Stride(m) - 1) \div SlotSize = EndIndex(m)
  <1> DEFINE q == local_tx_pos \div SlotSize
             r == SlotOffset(local_tx_pos)
             st == Stride(m)
  <1>1. local_tx_pos \in Nat
    BY DEF Aligned
  <1>2. /\ SlotSize \in Nat /\ SlotSize >= 8
        /\ local_tx_pos = SlotSize * q + r
        /\ q \in Nat /\ r \in Nat /\ r < SlotSize
    BY <1>1, PosSplit, Zenon
  <1>3. st \in Nat /\ st >= 8 /\ st <= SlotSize
    BY StrideFits
  <1>4. CASE ~NeedsPadding(m)
    BY <1>4 DEF StartPos, EndIndex, slot_queue_index_from_pos
  <1>5. CASE NeedsPadding(m)
    <2>1. StartPos(m) = local_tx_pos + (SlotSize - r) /\ st > SlotSize - r
      BY <1>5 DEF StartPos, SlotSpace, NeedsPadding
    <2> DEFINE x == StartPos(m) + st - 1
               y == local_tx_pos + st - 1
               e == r + st - 1 - SlotSize
    <2>2. SlotSize * (q + 1) = SlotSize * q + SlotSize /\ SlotSize * q \in Nat
      <3> HIDE DEF q
      <3> QED BY <1>2
    <2>3. x = SlotSize * (q + 1) + (st - 1) /\ x \in Nat /\ st - 1 \in Nat /\ st - 1 < SlotSize
      <3> HIDE DEF q, r, st
      <3> QED BY <1>2, <1>3, <2>1, <2>2
    <2>4. y = SlotSize * (q + 1) + e /\ y \in Nat /\ e \in Nat /\ e < SlotSize /\ q + 1 \in Nat
      <3> HIDE DEF q, r, st
      <3> QED BY <1>2, <1>3, <2>1, <2>2
    <2>5. x \div SlotSize = q + 1 /\ y \div SlotSize = q + 1
      <3> HIDE DEF q, e, x, y, st
      <3> QED BY <2>3, <2>4, PosUnique, Zenon
    <2> QED
      BY <2>5 DEF EndIndex, slot_queue_index_from_pos
  <1> QED
    BY <1>4, <1>5

\* Slots are numbers.
LEMMA DataSlotsAreNat ==
    ASSUME TypeOK, NEW S
    PROVE  DataSlots(S) \subseteq Nat
  <1> SUFFICES ASSUME NEW x \in DataSlots(S) PROVE x \in Nat
    OBVIOUS
  <1>0. PICK i \in 1 .. Len(sent) : x = (sent[i].at + Stride(sent[i].msg) - 1) \div SlotSize
    BY Zenon DEF DataSlots
  <1>1. sent[i].at \in Nat /\ sent[i].msg \in Messages
    <2> DEFINE Entries == [at : Nat, msg : Messages]
    <2>1. sent \in Seq(Entries)
      BY DEF TypeOK
    <2>2. \A j \in 1 .. Len(sent) : sent[j] \in Entries
      <3> HIDE DEF Entries
      <3> QED BY <2>1
    <2>3. \A j \in 1 .. Len(sent) : sent[j].at \in Nat /\ sent[j].msg \in Messages
      BY <2>2
    <2> QED BY <1>0, <2>3, Zenon
  <1>2. Stride(sent[i].msg) \in Nat /\ Stride(sent[i].msg) >= 8
    BY <1>1, StrideFits
  <1>3. sent[i].at + Stride(sent[i].msg) - 1 \in Nat
    BY <1>1, <1>2
  <1> QED
    BY <1>0, <1>3, PosSplit

\* The slot in which the message of a storing core ends.
EndSlot == (local_tx_pos - 1) \div SlotSize

\* A stored message adds the slot it ends in.
LEMMA DataSlotsGrow ==
    ASSUME TypeOK, BusyCalls, TransmitInv, PlaceInv, UpToEnd, NEW c \in Cores, Store(c), NEW S
    PROVE  /\ local_tx_pos - 1 \in Nat /\ EndSlot \in Nat
           /\ DataSlots(S)' = DataSlots(S) \cup
                (IF call[c].type = "DATA" /\ call[c].service \in S
                 THEN {local_slot_first + EndSlot} ELSE {})
  <1> DEFINE m == call[c]
             a == At(c)
             last == Len(sent) + 1
  <1>1. m \in Messages /\ Storing(c)
    BY DEF BusyCalls, Store, Storing
  <1>2. sent' = Append(sent, [at |-> a, msg |-> m])
    BY DEF Store, At
  <1>3. /\ Len(sent') = last /\ Len(sent) \in Nat
        /\ sent'[last] = [at |-> a, msg |-> m]
        /\ \A i \in 1 .. Len(sent) : sent'[i] = sent[i]
    BY <1>2 DEF TypeOK
  <1>4. /\ a + Stride(m) = Base + local_tx_pos /\ Base \in Nat /\ local_tx_pos \in Nat
        /\ a \in Nat /\ Stride(m) \in Nat
    BY <1>1, PlacedTypes DEF UpToEnd, PlaceInv, ReservedOK, TransmitInv, PositionsOK
  <1>5. local_tx_pos - 1 \in Nat
    BY <1>1, <1>4, StrideFits DEF UpToEnd
  <1>6. EndSlot \in Nat
    BY <1>5, PosSplit DEF EndSlot
  <1>7. (a + Stride(m) - 1) \div SlotSize = local_slot_first + EndSlot
    <2>1. a + Stride(m) - 1 = Base + (local_tx_pos - 1)
      BY <1>4
    <2>2. (Base + (local_tx_pos - 1)) \div SlotSize = local_slot_first + EndSlot
      BY <1>5, SlotOfAddress DEF EndSlot
    <2> QED BY <2>1, <2>2
  <1> DEFINE Slot(i) == (sent[i].at + Stride(sent[i].msg) - 1) \div SlotSize
             Data(i) == sent[i].msg.type = "DATA" /\ sent[i].msg.service \in S
  <1>8. \A i \in 1 .. Len(sent) : Slot(i)' = Slot(i) /\ (Data(i)' <=> Data(i))
    BY <1>3
  <1>9. ASSUME NEW i, i = last
        PROVE  /\ Slot(i)' = local_slot_first + EndSlot
               /\ Data(i)' <=> m.type = "DATA" /\ m.service \in S
    BY <1>3, <1>7, <1>9
  <1>10. DataSlots(S) = {Slot(i) : i \in {j \in 1 .. Len(sent) : Data(j)}}
    BY DEF DataSlots
  <1>11. DataSlots(S)' = {Slot(i)' : i \in {j \in 1 .. last : Data(j)'}}
    BY <1>3 DEF DataSlots
  <1>12. \A i : i \in 1 .. last <=> i \in 1 .. Len(sent) \/ i = last
    BY <1>3
  <1> HIDE DEF Slot, Data
  <1>13. DataSlots(S)' = DataSlots(S) \cup
            (IF m.type = "DATA" /\ m.service \in S THEN {local_slot_first + EndSlot} ELSE {})
    BY <1>8, <1>9, <1>10, <1>11, <1>12
  <1> QED
    BY <1>5, <1>6, <1>13

\* A step that neither reserves nor stores keeps the account.
LEMMA CountedFrame ==
    ASSUME NEW count, NEW prev, NEW S, Counted(count, prev, S),
           UNCHANGED <<local_tx_pos, sent>>,
           \A c \in Cores : Storing(c)' => Storing(c)
    PROVE  Counted(count, prev, S)'
  <1>1. DataSlots(S)' = DataSlots(S)
    BY DEF DataSlots
  <1> QED
    BY <1>1 DEF Counted

\* So does reserve_space: it moves local_tx_pos forward.
LEMMA CountedReserve ==
    ASSUME TypeOK, BusyCalls, TransmitInv, NEW c \in Cores, \A d \in Cores : d = c, Reserve(c),
           NEW count, NEW prev, NEW S, Counted(count, prev, S)
    PROVE  Counted(count, prev, S)'
  <1>1. DataSlots(S)' = DataSlots(S)
    BY DEF DataSlots, Reserve
  <1>2. CASE OutOfSlots(call[c])
    BY <1>2, CountedFrame DEF Reserve, Storing
  <1>3. CASE ~OutOfSlots(call[c])
    <2>1. local_tx_pos' = StartPos(call[c]) + Stride(call[c])
      BY <1>3 DEF Reserve
    <2>2. call[c] \in Messages
      BY DEF Reserve, BusyCalls
    <2>3. Stride(call[c]) \in Nat /\ Stride(call[c]) >= 8
      BY <2>2, StrideFits
    <2>4. StartPos(call[c]) \in Nat /\ local_tx_pos \in Nat /\ StartPos(call[c]) >= local_tx_pos
      BY StartAligned DEF TransmitInv, PositionsOK, Aligned
    <2>5. local_tx_pos' \in Nat /\ local_tx_pos' > local_tx_pos
      BY <2>1, <2>3, <2>4
    <2>6. CASE DataSlots(S) = {} /\ prev + 1 \in Nat /\ (prev + 1) * SlotSize <= local_tx_pos
      <3> DEFINE x == (prev + 1) * SlotSize
      <3>1. x \in Nat
        BY <2>6, SlotBelow
      <3>2. x <= local_tx_pos
        BY <2>6
      <3> HIDE DEF x
      <3>3. x < local_tx_pos' /\ x <= local_tx_pos'
        BY <2>4, <2>5, <3>1, <3>2
      <3> QED
        BY <1>1, <2>6, <3>3 DEF Counted, x
    <2>7. CASE /\ prev \in Nat /\ prev * SlotSize < local_tx_pos
               /\ local_slot_first + prev \in DataSlots(S)
               /\ \A x \in DataSlots(S) : x <= local_slot_first + prev
      <3> DEFINE x == prev * SlotSize
      <3>1. x \in Nat
        BY <2>7, SlotBelow
      <3>2. x < local_tx_pos
        BY <2>7
      <3> HIDE DEF x
      <3>3. x < local_tx_pos'
        BY <2>4, <2>5, <3>1, <3>2
      <3> QED
        BY <1>1, <2>7, <3>3 DEF Counted, x
    <2> QED
      BY <2>6, <2>7 DEF Counted
  <1> QED
    BY <1>2, <1>3

\* A message of other services, or none with DATA, leaves the account alone.
LEMMA CountedOther ==
    ASSUME TypeOK, BusyCalls, TransmitInv, PlaceInv, UpToEnd,
           NEW c \in Cores, \A d \in Cores : d = c, Store(c),
           NEW count, NEW prev, NEW S, Counted(count, prev, S),
           ~(call[c].type = "DATA" /\ call[c].service \in S)
    PROVE  Counted(count, prev, S)'
  <1>1. DataSlots(S)' = DataSlots(S)
    <2>1. DataSlots(S)' = DataSlots(S) \cup
            (IF call[c].type = "DATA" /\ call[c].service \in S
             THEN {local_slot_first + EndSlot} ELSE {})
      BY DataSlotsGrow, Zenon
    <2> QED BY <2>1
  <1>2. local_tx_pos' = local_tx_pos /\ \A d \in Cores : ~Storing(d)'
    BY DEF Store, Storing, TypeOK
  <1> QED
    BY <1>1, <1>2 DEF Counted

\* queue_message counts a slot exactly when it is a new one: the slot it ends
\* in is prev or lies behind every slot counted so far.
LEMMA CountedStore ==
    ASSUME TypeOK, BusyCalls, TransmitInv, PlaceInv, UpToEnd,
           NEW c \in Cores, \A d \in Cores : d = c, Store(c),
           NEW count, NEW prev, NEW S, Counted(count, prev, S),
           call[c].type = "DATA", call[c].service \in S,
           NEW next, next = EndSlot,
           NEW counted, counted = count + (IF EndSlot # prev THEN 1 ELSE 0)
    PROVE  Counted(counted, next, S)'
  <1> DEFINE D == DataSlots(S)
             x == local_slot_first + EndSlot
  <1>1. D' = D \cup {x} /\ EndSlot \in Nat /\ local_tx_pos - 1 \in Nat
    BY DataSlotsGrow
  <1>2. local_tx_pos' = local_tx_pos /\ local_tx_pos \in Nat /\ local_slot_first \in Nat
    BY LocalLayout DEF Store, TypeOK
  <1>3. D \subseteq Nat /\ IsFiniteSet(D) /\ count = Cardinality(D) /\ count \in Nat
    BY DataSlotsAreNat, FS_CardinalityType DEF Counted
  <1>4. EndSlot * SlotSize < local_tx_pos
    <2> DEFINE r == SlotOffset(local_tx_pos - 1)
    <2>1. local_tx_pos - 1 = SlotSize * EndSlot + r /\ r \in Nat /\ SlotSize \in Nat
      BY <1>1, PosSplit, Zenon DEF EndSlot
    <2> HIDE DEF r, EndSlot
    <2>2. SlotSize * EndSlot \in Nat /\ EndSlot * SlotSize = SlotSize * EndSlot
      BY <1>1, <2>1
    <2> QED BY <1>2, <2>1, <2>2
  <1>5. CASE /\ D = {} /\ prev + 1 \in Nat
             /\ \A d \in Cores : Storing(d) => (prev + 1) * SlotSize < local_tx_pos
    <2>1. (prev + 1) * SlotSize < local_tx_pos
      BY <1>5 DEF Store, Storing
    <2>2. EndSlot # prev
      <3> SUFFICES ASSUME EndSlot = prev PROVE FALSE
        OBVIOUS
      <3> DEFINE n == local_tx_pos - 1
      <3>1. n \div SlotSize < EndSlot + 1 /\ EndSlot + 1 \in Nat /\ n \in Nat
        BY <1>1 DEF EndSlot
      <3>2. n < (EndSlot + 1) * SlotSize /\ (EndSlot + 1) * SlotSize \in Nat
        <4> HIDE DEF n
        <4> QED BY <3>1, SlotBelow
      <3> QED BY <1>2, <2>1, <3>2
    <2>3. counted = 1 /\ D' = {x}
      BY <1>1, <1>3, <1>5, <2>2, FS_EmptySet
    <2>4. IsFiniteSet({x}) /\ Cardinality({x}) = 1
      BY FS_Singleton
    <2>5. /\ IsFiniteSet(D') /\ counted = Cardinality(D')
          /\ local_slot_first + next \in D'
          /\ \A y \in D' : y <= local_slot_first + next
          /\ next \in Nat /\ next * SlotSize < local_tx_pos'
      <3>1. x \in Nat /\ next = EndSlot /\ x <= x
        BY <1>1, <1>2
      <3> QED BY <1>1, <1>2, <1>4, <2>3, <2>4, <3>1
    <2> QED
      BY <2>5 DEF Counted
  <1>6. CASE /\ prev \in Nat /\ prev * SlotSize < local_tx_pos
             /\ local_slot_first + prev \in D
             /\ \A y \in D : y <= local_slot_first + prev
    <2>1. prev <= EndSlot
      <3> SUFFICES ASSUME EndSlot < prev PROVE FALSE
        BY <1>1, <1>6
      <3> DEFINE n == local_tx_pos - 1
      <3>1. n \div SlotSize < prev /\ n \in Nat
        BY <1>1 DEF EndSlot
      <3>2. n < prev * SlotSize /\ prev * SlotSize \in Nat
        <4> HIDE DEF n
        <4> QED BY <1>6, <3>1, SlotBelow
      <3> QED BY <1>2, <1>6, <3>2
    <2>2. \A y \in D' : y <= x
      BY <1>1, <1>2, <1>3, <1>6, <2>1
    <2>3. CASE EndSlot = prev
      <3>1. D' = D /\ counted = count
        BY <1>1, <1>3, <1>6, <2>3
      <3> QED
        BY <1>1, <1>2, <1>3, <1>4, <2>2, <3>1 DEF Counted
    <2>4. CASE EndSlot # prev
      <3>1. x \notin D
        BY <1>1, <1>2, <1>3, <1>6, <2>1, <2>4
      <3>2. IsFiniteSet(D') /\ Cardinality(D') = count + 1
        BY <1>1, <1>3, <3>1, FS_AddElement
      <3> QED
        BY <1>1, <1>2, <1>4, <2>2, <2>4, <3>2 DEF Counted
    <2> QED
      BY <2>3, <2>4
  <1> QED
    BY <1>5, <1>6 DEF Counted

\* The quotas are numbers: a side has at least one slot.
LEMMA QuotaTypes ==
    /\ data_quota \in Nat
    /\ default_slot_quota \in Nat
    /\ slot_queue_available \in Nat
  BY SlotZeroAssumption DEF data_quota, default_slot_quota, slot_queue_available, local_slot_last,
        local_slot_first, num_slots, first_data_slot

LEMMA QuotaInit == Init => QuotaInv
  <1> SUFFICES ASSUME Init PROVE QuotaInv
    OBVIOUS
  <1> USE DEF Init
  <1>1. UpToEnd /\ DataCallsOK
    BY DEF UpToEnd, DataCallsOK, Storing, DataCall
  <1>2. \A S : DataSlots(S) = {}
    BY DEF DataSlots
  <1>3. data_quota \in Nat /\ default_slot_quota \in Nat
    BY QuotaTypes
  <1>4. Counted(data_use_count, previous_data_index, Services)
    <2>1. data_use_count = 0 /\ previous_data_index = -1 /\ local_tx_pos = 0
          /\ \A c \in Cores : ~Storing(c)
      BY DEF Storing
    <2>2. previous_data_index + 1 \in Nat /\ (previous_data_index + 1) * SlotSize <= local_tx_pos
      BY <2>1, SlotsAssumption
    <2>3. IsFiniteSet(DataSlots(Services)) /\ Cardinality(DataSlots(Services)) = 0
      BY <1>2, FS_EmptySet
    <2> QED
      BY <1>2, <2>1, <2>2, <2>3, Zenon DEF Counted
  <1>5. \A S : Allowed(0, -1, S, data_quota) /\ Allowed(0, 0, S, default_slot_quota)
    BY <1>3 DEF Allowed, DataCall
  <1> QED
    BY <1>1, <1>2, <1>4, <1>5 DEF QuotaInv

\* A step of a core that neither reserves nor stores: what it lets through
\* passed the checks.
LEMMA AllowedFrame ==
    ASSUME NEW count, NEW prev, NEW S, NEW quota, Allowed(count, prev, S, quota),
           count \in Nat, quota \in Nat,
           local_tx_pos' = local_tx_pos,
           \A c \in Cores : DataCall(c)' /\ pc'[c] \in {"reserve", "store"} =>
               /\ DataCall(c) /\ call'[c] = call[c]
               /\ \/ pc'[c] = pc[c]
                  \/ /\ pc'[c] = "reserve"
                     /\ call[c].service \in S => EndIndex(call[c]) = prev \/ count # quota
    PROVE  Allowed(count, prev, S, quota)'
  <1>1. count <= quota
    BY DEF Allowed
  <1>2. ASSUME NEW c \in Cores, DataCall(c)', call'[c].service \in S
        PROVE  /\ pc'[c] = "reserve" => EndIndex(call[c])' = prev \/ count < quota
               /\ pc'[c] = "store" => (local_tx_pos' - 1) \div SlotSize = prev \/ count < quota
    <2> SUFFICES ASSUME pc'[c] \in {"reserve", "store"}
                 PROVE  /\ pc'[c] = "reserve" => EndIndex(call[c])' = prev \/ count < quota
                        /\ pc'[c] = "store" => (local_tx_pos' - 1) \div SlotSize = prev \/ count < quota
      OBVIOUS
    <2>1. DataCall(c) /\ call'[c] = call[c] /\ call[c].service \in S
      BY <1>2
    <2>2. EndIndex(call[c])' = EndIndex(call[c])
      BY <2>1 DEF EndIndex
    <2>3. CASE pc'[c] = pc[c]
      BY <2>1, <2>2, <2>3 DEF Allowed
    <2>4. CASE pc'[c] = "reserve" /\ (EndIndex(call[c]) = prev \/ count # quota)
      BY <1>1, <2>2, <2>4
    <2> QED
      BY <1>2, <2>1, <2>3, <2>4
  <1> QED
    BY <1>1, <1>2 DEF Allowed

\* A step that changes neither the slots nor the counts keeps the accounts.
LEMMA QuotaFrame ==
    ASSUME TypeOK, QuotaInv, DataCallsOK',
           UNCHANGED <<local_tx_pos, slot_position, quotaVars, sent>>,
           \A s \in Services : srv'[s] = "none" <=> srv[s] = "none",
           \A c \in Cores : (Storing(c)' => Storing(c) /\ call'[c] = call[c]),
           \A c \in Cores : DataCall(c)' /\ pc'[c] \in {"reserve", "store"} =>
               /\ DataCall(c) /\ call'[c] = call[c]
               /\ \/ pc'[c] = pc[c]
                  \/ /\ pc'[c] = "reserve"
                     /\ ~DataQuotaExceeded(call[c]) /\ ~ServiceQuotaExceeded(call[c])
    PROVE  QuotaInv'
  <1>1. UNCHANGED <<local_tx_pos, slot_position, sent, data_use_count, previous_data_index,
                    slot_use_count, previous_tx_index>>
    BY DEF quotaVars
  <1>2. UpToEnd'
    BY <1>1 DEF QuotaInv, UpToEnd, At
  <1>3. \A S : DataSlots(S)' = DataSlots(S)
    BY <1>1 DEF DataSlots
  <1>4. Counted(data_use_count, previous_data_index, Services)'
    BY <1>1, CountedFrame DEF QuotaInv
  <1>5. Allowed(data_use_count, previous_data_index, Services, data_quota)'
    <2> DEFINE n == data_use_count
               p == previous_data_index
    <2>1. \A c \in Cores : DataCall(c)' /\ pc'[c] \in {"reserve", "store"} =>
               /\ DataCall(c) /\ call'[c] = call[c]
               /\ \/ pc'[c] = pc[c]
                  \/ /\ pc'[c] = "reserve"
                     /\ call[c].service \in Services => EndIndex(call[c]) = p \/ n # data_quota
      BY DEF DataQuotaExceeded
    <2>2. n \in Nat /\ Allowed(n, p, Services, data_quota)
      BY DEF TypeOK, QuotaInv
    <2>3. ASSUME NEW x, x = n, NEW y, y = p PROVE Allowed(x, y, Services, data_quota)'
      BY <1>1, <2>1, <2>2, <2>3, AllowedFrame, QuotaTypes
    <2> QED BY <1>1, <2>3
  <1>6. ASSUME NEW s \in Services
        PROVE  /\ srv'[s] # "none" => Counted(slot_use_count[s], previous_tx_index[s], {s})'
               /\ srv'[s] = "none" => DataSlots({s})' = {} /\ slot_use_count'[s] = 0
               /\ Allowed(slot_use_count[s], previous_tx_index[s], {s}, default_slot_quota)'
    <2> DEFINE n == slot_use_count[s]
               p == previous_tx_index[s]
    <2>1. srv'[s] # "none" => Counted(slot_use_count[s], previous_tx_index[s], {s})'
      <3>1. ASSUME NEW x, x = n, NEW y, y = p, srv'[s] # "none" PROVE Counted(x, y, {s})'
        BY <1>1, <3>1, CountedFrame DEF QuotaInv
      <3> QED BY <1>1, <3>1
    <2>2. srv'[s] = "none" => DataSlots({s})' = {} /\ slot_use_count'[s] = 0
      BY <1>1, <1>3 DEF QuotaInv
    <2>3. \A c \in Cores : DataCall(c)' /\ pc'[c] \in {"reserve", "store"} =>
               /\ DataCall(c) /\ call'[c] = call[c]
               /\ \/ pc'[c] = pc[c]
                  \/ /\ pc'[c] = "reserve"
                     /\ call[c].service \in {s} => EndIndex(call[c]) = p \/ n # default_slot_quota
      BY DEF ServiceQuotaExceeded
    <2>4. n \in Nat /\ Allowed(n, p, {s}, default_slot_quota)
      BY DEF TypeOK, QuotaInv
    <2>5. ASSUME NEW x, x = n, NEW y, y = p PROVE Allowed(x, y, {s}, default_slot_quota)'
      BY <1>1, <2>3, <2>4, <2>5, AllowedFrame, QuotaTypes
    <2>6. Allowed(slot_use_count[s], previous_tx_index[s], {s}, default_slot_quota)'
      BY <1>1, <2>5
    <2> QED
      BY <2>1, <2>2, <2>6
  <1> QED
    BY <1>2, <1>4, <1>5, <1>6 DEF QuotaInv

\* add_service starts the account of a service: nothing counted, and the slot
\* before the one that is being filled as the last one used.
LEMMA QuotaAddService ==
    ASSUME TypeOK, TransmitInv, QuotaInv, NEW c \in Cores, \A d \in Cores : d = c,
           NEW s \in Services, AddService(c, s)
    PROVE  QuotaInv'
  <1>1. /\ UNCHANGED <<local_tx_pos, slot_position, sent, data_use_count, previous_data_index,
                       slot_use_count, pc, call>>
        /\ srv[s] = "none" /\ srv' = [srv EXCEPT ![s] = "added"]
        /\ previous_tx_index' = [previous_tx_index EXCEPT ![s] = FirstTxIndex(s)]
        /\ pc[c] = "idle"
    BY DEF AddService, slotVars, callVars
  <1>2. \A d \in Cores : ~Storing(d) /\ ~Storing(d)' /\ ~DataCall(d) /\ ~DataCall(d)'
    BY <1>1 DEF Storing, DataCall
  <1>3. UpToEnd' /\ DataCallsOK'
    BY <1>2 DEF UpToEnd, DataCallsOK
  <1>4. \A S : DataSlots(S)' = DataSlots(S)
    BY <1>1 DEF DataSlots
  <1>5. ASSUME NEW count, NEW prev, NEW S, NEW quota, count <= quota
        PROVE  Allowed(count, prev, S, quota)'
    BY <1>2, <1>5 DEF Allowed
  <1>6. /\ Counted(data_use_count, previous_data_index, Services)'
        /\ Allowed(data_use_count, previous_data_index, Services, data_quota)'
    <2>1. data_use_count <= data_quota
      BY DEF QuotaInv, Allowed
    <2> QED
      BY <1>1, <1>2, <1>5, <2>1, CountedFrame DEF QuotaInv
  <1>7. ASSUME NEW t \in Services
        PROVE  /\ srv'[t] # "none" => Counted(slot_use_count[t], previous_tx_index[t], {t})'
               /\ srv'[t] = "none" => DataSlots({t})' = {} /\ slot_use_count'[t] = 0
               /\ Allowed(slot_use_count[t], previous_tx_index[t], {t}, default_slot_quota)'
    <2>1. Allowed(slot_use_count[t], previous_tx_index[t], {t}, default_slot_quota)'
      <3>1. slot_use_count[t] <= default_slot_quota
        BY DEF QuotaInv, Allowed
      <3>2. ASSUME NEW n, n = slot_use_count[t], NEW p PROVE Allowed(n, p, {t}, default_slot_quota)'
        BY <1>5, <3>1, <3>2
      <3> QED BY <1>1, <3>2
    <2>2. CASE t # s
      <3>1. srv'[t] = srv[t] /\ previous_tx_index'[t] = previous_tx_index[t]
        BY <1>1, <2>2 DEF TypeOK
      <3>2. ASSUME NEW x, x = slot_use_count[t], NEW y, y = previous_tx_index[t], srv'[t] # "none"
            PROVE  Counted(x, y, {t})'
        BY <1>1, <1>2, <3>1, <3>2, CountedFrame DEF QuotaInv
      <3> QED
        BY <1>1, <1>4, <2>1, <3>1, <3>2 DEF QuotaInv
    <2>3. CASE t = s
      <3>1. srv'[s] = "added" /\ previous_tx_index'[s] = FirstTxIndex(s)
        BY <1>1 DEF TypeOK
      <3>2. DataSlots({s}) = {} /\ slot_use_count[s] = 0
        BY <1>1 DEF QuotaInv
      <3>3. FirstTxIndex(s) = local_tx_pos \div SlotSize - 1
        BY <3>2 DEF FirstTxIndex, slot_queue_index_from_pos
      <3> DEFINE q == local_tx_pos \div SlotSize
      <3>4. /\ local_tx_pos \in Nat /\ SlotSize \in Nat /\ q \in Nat
            /\ local_tx_pos = SlotSize * q + SlotOffset(local_tx_pos)
            /\ SlotOffset(local_tx_pos) \in Nat
        BY PosSplit DEF TypeOK
      <3>5. FirstTxIndex(s) + 1 = q
        BY <3>3, <3>4
      <3>6. q * SlotSize <= local_tx_pos
        <4> HIDE DEF q
        <4>1. q * SlotSize = SlotSize * q /\ SlotSize * q \in Nat
          BY <3>4
        <4> QED BY <3>4, <4>1
      <3>7. IsFiniteSet(DataSlots({s})) /\ Cardinality(DataSlots({s})) = 0
        BY <3>2, FS_EmptySet
      <3>8. ASSUME NEW x, x = FirstTxIndex(s) PROVE Counted(0, x, {s})'
        <4>1. x + 1 \in Nat /\ (x + 1) * SlotSize <= local_tx_pos
          BY <3>4, <3>5, <3>6, <3>8
        <4> QED
          BY <1>1, <1>2, <1>4, <3>2, <3>7, <4>1, Zenon DEF Counted
      <3> QED
        BY <1>1, <2>1, <2>3, <3>1, <3>2, <3>8
    <2> QED
      BY <2>2, <2>3
  <1> QED
    BY <1>3, <1>6, <1>7 DEF QuotaInv

\* reserve_space ends the message in the slot that the checks looked at.
LEMMA QuotaReserve ==
    ASSUME TypeOK, BusyCalls, TransmitInv, PlaceInv, QuotaInv,
           NEW c \in Cores, \A d \in Cores : d = c, Reserve(c)
    PROVE  QuotaInv'
  <1> DEFINE m == call[c]
  <1>1. /\ m \in Messages /\ pc[c] = "reserve"
        /\ UNCHANGED <<data_use_count, previous_data_index, slot_use_count, previous_tx_index,
                       call, srv, sent>>
    BY DEF Reserve, BusyCalls, quotaVars
  <1>2. Aligned(local_tx_pos)
    BY DEF TransmitInv, PositionsOK
  <1>3. DataCallsOK'
    <2>1. pc'[c] \in {"reserve", "store"}
      BY <1>1 DEF Reserve, TypeOK
    <2> QED
      BY <1>1, <2>1 DEF QuotaInv, DataCallsOK, DataCall, closing
  <1>4. \A count, prev, S : Counted(count, prev, S) => Counted(count, prev, S)'
    BY CountedReserve
  <1>5. UpToEnd'
    <2>1. CASE OutOfSlots(m)
      BY <1>1, <2>1 DEF Reserve, QuotaInv, UpToEnd, At, Storing
    <2>2. CASE ~OutOfSlots(m)
      <3>1. /\ local_tx_pos' = StartPos(m) + Stride(m)
            /\ slot_position' = [slot_position EXCEPT ![c] = PositionFor(m)]
        BY <2>2 DEF Reserve
      <3>2. PositionFor(m) = SlotPosition(local_slot_first + StartPos(m) \div SlotSize,
                                          SlotOffset(StartPos(m)))
        BY <1>1, <1>2, <2>2, ReservedSpace DEF PlaceInv
      <3>3. StartPos(m) \in Nat /\ Stride(m) \in Nat
        BY <1>1, <1>2, StartAligned, StrideFits DEF Aligned
      <3>4. Address(PositionFor(m)) = Base + StartPos(m) /\ Base \in Nat
        BY <3>2, <3>3, AddressOf
      <3>5. At(c)' = Base + StartPos(m)
        BY <3>1, <3>4 DEF At, TypeOK
      <3> QED
        BY <1>1, <3>1, <3>3, <3>4, <3>5 DEF UpToEnd
    <2> QED
      BY <2>1, <2>2
  <1>6. ASSUME NEW count, NEW prev, NEW S, NEW quota, Allowed(count, prev, S, quota)
        PROVE  Allowed(count, prev, S, quota)'
    <2>1. CASE OutOfSlots(m)
      BY <1>1, <1>6, <2>1 DEF Reserve, Allowed, DataCall, EndIndex
    <2>2. CASE ~OutOfSlots(m)
      <3>1. local_tx_pos' = StartPos(m) + Stride(m) /\ pc'[c] = "store"
        BY <2>2 DEF Reserve, TypeOK
      <3>2. (local_tx_pos' - 1) \div SlotSize = EndIndex(m)
        <4>1. (StartPos(m) + Stride(m) - 1) \div SlotSize = EndIndex(m)
          BY <1>1, <1>2, EndIndexKept, Zenon
        <4>2. StartPos(m) \in Nat /\ Stride(m) \in Nat
          BY <1>1, <1>2, StartAligned, StrideFits DEF Aligned
        <4>3. local_tx_pos' - 1 = StartPos(m) + Stride(m) - 1
          BY <3>1, <4>2
        <4> QED BY <4>1, <4>3
      <3>3. call[c].type = "DATA" /\ call[c].service \in S => EndIndex(m) = prev \/ count < quota
        BY <1>1, <1>6 DEF Allowed, DataCall
      <3>4. ASSUME NEW d \in Cores, DataCall(d)', call'[d].service \in S
            PROVE  (local_tx_pos' - 1) \div SlotSize = prev \/ count < quota
        <4>1. d = c
          OBVIOUS
        <4>2. call[c].type = "DATA" /\ call[c].service \in S
          BY <1>1, <3>4, <4>1 DEF DataCall
        <4> QED BY <3>2, <3>3, <4>2
      <3>5. count <= quota
        BY <1>6 DEF Allowed
      <3> QED
        BY <3>1, <3>4, <3>5 DEF Allowed
    <2> QED
      BY <2>1, <2>2
  <1>7. \A S : DataSlots(S)' = DataSlots(S)
    BY <1>1 DEF DataSlots
  <1>8. /\ Counted(data_use_count, previous_data_index, Services)'
        /\ Allowed(data_use_count, previous_data_index, Services, data_quota)'
    BY <1>1, <1>4, <1>6 DEF QuotaInv
  <1>9. ASSUME NEW s \in Services
        PROVE  /\ srv'[s] # "none" => Counted(slot_use_count[s], previous_tx_index[s], {s})'
               /\ srv'[s] = "none" => DataSlots({s})' = {} /\ slot_use_count'[s] = 0
               /\ Allowed(slot_use_count[s], previous_tx_index[s], {s}, default_slot_quota)'
    BY <1>1, <1>4, <1>6, <1>7 DEF QuotaInv
  <1> QED
    BY <1>3, <1>5, <1>8, <1>9 DEF QuotaInv

\* The rest of queue_message keeps the accounts.
LEMMA QuotaStore ==
    ASSUME TypeOK, BusyCalls, TransmitInv, PlaceInv, QuotaInv,
           NEW c \in Cores, \A d \in Cores : d = c, Store(c)
    PROVE  QuotaInv'
  <1> DEFINE m == call[c]
  <1>1. /\ m \in Messages /\ Storing(c)
        /\ srv' = srv /\ pc'[c] = "idle"
        /\ IF m.type = "DATA" THEN CountData(m) ELSE UNCHANGED quotaVars
    BY DEF Store, BusyCalls, TypeOK, Storing
  <1>2. \A d \in Cores : ~Storing(d)' /\ ~DataCall(d)'
    BY <1>1 DEF Storing, DataCall
  <1>3. UpToEnd' /\ DataCallsOK'
    BY <1>2 DEF UpToEnd, DataCallsOK
  <1>4. UpToEnd
    BY DEF QuotaInv
  <1>5. ASSUME NEW count, NEW prev, NEW S, NEW quota, count <= quota
        PROVE  Allowed(count, prev, S, quota)'
    BY <1>2, <1>5 DEF Allowed
  <1>6. CASE m.type # "DATA"
    <2>1. UNCHANGED <<data_use_count, previous_data_index, slot_use_count, previous_tx_index>>
      BY <1>1, <1>6 DEF quotaVars
    <2>2. \A count, prev, S : Counted(count, prev, S) => Counted(count, prev, S)'
      BY <1>4, <1>6, CountedOther
    <2>3. \A S : DataSlots(S)' = DataSlots(S)
      <3>1. ASSUME NEW S PROVE DataSlots(S)' = DataSlots(S) \cup
              (IF m.type = "DATA" /\ m.service \in S THEN {local_slot_first + EndSlot} ELSE {})
        BY <1>4, DataSlotsGrow, Zenon
      <3> QED BY <1>6, <3>1
    <2>4. data_use_count <= data_quota /\ \A s \in Services : slot_use_count[s] <= default_slot_quota
      BY DEF QuotaInv, Allowed
    <2>5. /\ Counted(data_use_count, previous_data_index, Services)'
          /\ Allowed(data_use_count, previous_data_index, Services, data_quota)'
      BY <1>5, <2>1, <2>2, <2>4 DEF QuotaInv
    <2>6. ASSUME NEW s \in Services
          PROVE  /\ srv'[s] # "none" => Counted(slot_use_count[s], previous_tx_index[s], {s})'
                 /\ srv'[s] = "none" => DataSlots({s})' = {} /\ slot_use_count'[s] = 0
                 /\ Allowed(slot_use_count[s], previous_tx_index[s], {s}, default_slot_quota)'
      BY <1>1, <1>5, <2>1, <2>2, <2>3, <2>4 DEF QuotaInv
    <2> QED
      BY <1>3, <2>5, <2>6 DEF QuotaInv
  <1>7. CASE m.type = "DATA"
    <2> DEFINE s == m.service
               more(prev) == IF EndSlot # prev THEN 1 ELSE 0
    <2>1. /\ previous_data_index' = EndSlot
          /\ data_use_count' = data_use_count + more(previous_data_index)
          /\ previous_tx_index' = [previous_tx_index EXCEPT ![s] = EndSlot]
          /\ slot_use_count' = [slot_use_count EXCEPT ![s] = @ + more(previous_tx_index[s])]
      BY <1>1, <1>7 DEF CountData, slot_queue_index_from_pos, EndSlot
    <2>2. s \in Services /\ srv[s] # "none"
      BY <1>1, <1>7 DEF Messages, ConnectMsg, OpenMsg, CloseMsg, DataMsg, QuotaInv, DataCallsOK,
                        DataCall, Storing
    <2>3. ASSUME NEW count, NEW prev, NEW S, s \in S, Counted(count, prev, S),
                 NEW next, next = EndSlot, NEW counted, counted = count + more(prev)
          PROVE  Counted(counted, next, S)'
      BY <1>4, <1>7, <2>3, CountedStore
    <2>4. ASSUME NEW count \in Nat, NEW prev, NEW S, NEW quota \in Nat, s \in S,
                 Allowed(count, prev, S, quota)
          PROVE  count + more(prev) <= quota
      <3>1. count <= quota /\ (EndSlot = prev \/ count < quota)
        BY <1>1, <1>7, <2>4 DEF Allowed, DataCall, Storing, EndSlot
      <3> QED BY <3>1
    <2> HIDE DEF more
    <2>5. /\ Counted(data_use_count, previous_data_index, Services)'
          /\ Allowed(data_use_count, previous_data_index, Services, data_quota)'
      <3>1. ASSUME NEW x, x = data_use_count', NEW y, y = previous_data_index'
            PROVE  Counted(x, y, Services)'
        BY <2>1, <2>2, <2>3, <3>1 DEF QuotaInv
      <3>2. data_use_count' <= data_quota
        BY <2>1, <2>2, <2>4, QuotaTypes DEF QuotaInv, TypeOK
      <3> QED
        BY <1>5, <3>1, <3>2
    <2>6. ASSUME NEW t \in Services
          PROVE  /\ srv'[t] # "none" => Counted(slot_use_count[t], previous_tx_index[t], {t})'
                 /\ srv'[t] = "none" => DataSlots({t})' = {} /\ slot_use_count'[t] = 0
                 /\ Allowed(slot_use_count[t], previous_tx_index[t], {t}, default_slot_quota)'
      <3>1. CASE t = s
        <4>1. /\ slot_use_count'[s] = slot_use_count[s] + more(previous_tx_index[s])
              /\ previous_tx_index'[s] = EndSlot
          BY <2>1, <2>2 DEF TypeOK
        <4>2. /\ Counted(slot_use_count[s], previous_tx_index[s], {s})
              /\ Allowed(slot_use_count[s], previous_tx_index[s], {s}, default_slot_quota)
              /\ slot_use_count[s] \in Nat
          BY <2>2 DEF QuotaInv, TypeOK
        <4> HIDE DEF s
        <4>3. ASSUME NEW x, x = slot_use_count'[t], NEW y, y = previous_tx_index'[t]
              PROVE  Counted(x, y, {t})'
          BY <2>3, <3>1, <4>1, <4>2, <4>3
        <4>4. slot_use_count'[t] <= default_slot_quota
          BY <2>4, <3>1, <4>1, <4>2, QuotaTypes
        <4>5. ASSUME NEW x, x = slot_use_count'[t], NEW y
              PROVE  Allowed(x, y, {t}, default_slot_quota)'
          BY <1>5, <4>4, <4>5
        <4>6. srv'[t] # "none"
          BY <1>1, <2>2, <3>1
        <4> QED
          BY <4>3, <4>5, <4>6
      <3>2. CASE t # s
        <4>1. slot_use_count'[t] = slot_use_count[t] /\ previous_tx_index'[t] = previous_tx_index[t]
          BY <2>1, <2>2, <3>2 DEF TypeOK
        <4>2. \A count, prev : Counted(count, prev, {t}) => Counted(count, prev, {t})'
          BY <1>4, <3>2, CountedOther
        <4>3. DataSlots({t})' = DataSlots({t})
          <5>1. DataSlots({t})' = DataSlots({t}) \cup
                 (IF m.type = "DATA" /\ m.service \in {t} THEN {local_slot_first + EndSlot} ELSE {})
            BY <1>4, DataSlotsGrow, Zenon
          <5> QED BY <3>2, <5>1
        <4>4. slot_use_count[t] <= default_slot_quota
          BY DEF QuotaInv, Allowed
        <4> QED
          BY <1>1, <1>5, <4>1, <4>2, <4>3, <4>4 DEF QuotaInv
      <3> QED
        BY <3>1, <3>2
    <2> QED
      BY <1>3, <2>5, <2>6 DEF QuotaInv
  <1> QED
    BY <1>6, <1>7

LEMMA QuotaStep ==
    ASSUME OneCore, TypeOK, BusyCalls, TransmitInv, PlaceInv, QuotaInv, [Next]_vars
    PROVE  QuotaInv'
  <1>1. ASSUME NEW c \in Cores, Begins(c) PROVE QuotaInv'
    <2>1. PICK m \in Messages :
             /\ Call(c, m)
             /\ UNCHANGED <<slotVars, quotaVars, slot_position, sent>>
             /\ m.type = "DATA" => srv[m.service] \in {"open", "closing", "closed"} /\ srv' = srv
      <3>1. CASE Connect(c)
        <4>1. ConnectMsg \in Messages /\ ConnectMsg.type # "DATA"
          BY DEF Messages, ConnectMsg
        <4> QED BY <3>1, <4>1 DEF Connect
      <3>2. ASSUME NEW s \in Services, OpenService(c, s) \/ CloseService(c, s)
            PROVE  \E m \in {OpenMsg(s), CloseMsg(s)} :
                      Call(c, m) /\ UNCHANGED <<slotVars, quotaVars, slot_position, sent>>
        BY <3>2 DEF OpenService, CloseService
      <3>3. \A s \in Services : \A m \in {OpenMsg(s), CloseMsg(s)} : m \in Messages /\ m.type # "DATA"
        BY DEF Messages, OpenMsg, CloseMsg
      <3>4. ASSUME NEW s \in Services, NEW n \in DataSizes, QueueMessage(c, s, n)
            PROVE  /\ Call(c, DataMsg(s, n)) /\ UNCHANGED <<slotVars, quotaVars, slot_position, sent>>
                   /\ srv[s] \in {"open", "closing", "closed"} /\ srv' = srv
        BY <3>4 DEF QueueMessage
      <3>5. \A s \in Services, n \in DataSizes : DataMsg(s, n) \in Messages /\ DataMsg(s, n).service = s
        BY DEF Messages, DataMsg
      <3>6. CASE \E s \in Services : OpenService(c, s) \/ CloseService(c, s)
        BY <3>2, <3>3, <3>6
      <3>7. CASE \E s \in Services, n \in DataSizes : QueueMessage(c, s, n)
        BY <3>4, <3>5, <3>7
      <3> QED
        BY <1>1, <3>1, <3>6, <3>7 DEF Begins
    <2>2. /\ pc[c] = "idle" /\ call'[c] = m
          /\ pc'[c] = IF m.type = "DATA" THEN "check" ELSE "reserve"
      BY <2>1 DEF Call, TypeOK
    <2>3. \A d \in Cores : d = c
      BY DEF OneCore
    <2>4. DataCallsOK'
      BY <2>1, <2>2, <2>3 DEF DataCallsOK, DataCall
    <2>5. \A s \in Services : srv'[s] = "none" <=> srv[s] = "none"
      BY <1>1 DEF Begins, Connect, OpenService, CloseService, QueueMessage, TypeOK
    <2>6. \A d \in Cores : ~Storing(d)' /\ ~(DataCall(d)' /\ pc'[d] \in {"reserve", "store"})
      BY <2>2, <2>3 DEF Storing, DataCall
    <2> QED
      BY <2>1, <2>4, <2>5, <2>6, QuotaFrame DEF slotVars
  <1>2. ASSUME NEW c \in Cores, Refuse(c) \/ WaitForQuota(c) \/ WithinQuota(c) PROVE QuotaInv'
    <2>1. \A d \in Cores : d = c
      BY DEF OneCore
    <2>2. UNCHANGED <<slotVars, quotaVars, slot_position, sent, srv>> /\ pc[c] = "check"
      BY <1>2 DEF Refuse, WaitForQuota, WithinQuota
    <2>3. \/ pc'[c] \in {"idle", "quota_wait"} /\ (pc'[c] = "quota_wait" => call' = call)
          \/ /\ pc'[c] = "reserve" /\ call' = call /\ ~closing(call[c].service)
             /\ ~DataQuotaExceeded(call[c]) /\ ~ServiceQuotaExceeded(call[c])
      BY <1>2 DEF Refuse, WaitForQuota, WithinQuota, Refused, TypeOK
    <2>4. DataCallsOK'
      BY <2>1, <2>2, <2>3 DEF QuotaInv, DataCallsOK, DataCall, closing
    <2>5. \A d \in Cores : ~Storing(d)'
      BY <2>1, <2>3 DEF Storing
    <2>6. \A d \in Cores : DataCall(d)' /\ pc'[d] \in {"reserve", "store"} =>
             /\ DataCall(d) /\ call'[d] = call[d]
             /\ pc'[d] = "reserve"
             /\ ~DataQuotaExceeded(call[d]) /\ ~ServiceQuotaExceeded(call[d])
      BY <2>1, <2>2, <2>3 DEF DataCall
    <2> QED
      BY <2>2, <2>4, <2>5, <2>6, QuotaFrame DEF slotVars
  <1>3. ASSUME NEW c \in Cores, NEW s \in Services, Opened(c, s) \/ PeerCloses(c, s)
        PROVE  QuotaInv'
    <2>1. \A d \in Cores : d = c
      BY DEF OneCore
    <2>2. UNCHANGED <<slotVars, quotaVars, callVars, sent>> /\ pc[c] = "idle"
      BY <1>3 DEF Opened, PeerCloses
    <2>3. \A d \in Cores : ~Storing(d)' /\ ~DataCall(d)'
      BY <2>1, <2>2 DEF Storing, DataCall, callVars
    <2>4. \A t \in Services : srv'[t] = "none" <=> srv[t] = "none"
      BY <1>3 DEF Opened, PeerCloses, TypeOK
    <2>5. DataCallsOK'
      BY <2>3 DEF DataCallsOK
    <2> QED
      BY <2>2, <2>3, <2>4, <2>5, QuotaFrame DEF slotVars, callVars
  <1>4. CASE VcReads \/ VcReadsUnwritten \/ UNCHANGED vars
    <2>1. UNCHANGED <<slotVars, quotaVars, callVars, sent, srv>>
      BY <1>4 DEF VcReads, VcReadsUnwritten, vars
    <2>2. UNCHANGED <<pc, call>>
      BY <2>1 DEF callVars
    <2>3. DataCallsOK'
      BY <2>1, <2>2 DEF QuotaInv, DataCallsOK, DataCall, closing
    <2>4. \A d \in Cores : (Storing(d)' <=> Storing(d)) /\ (DataCall(d)' <=> DataCall(d))
      BY <2>2 DEF Storing, DataCall
    <2> QED
      BY <2>1, <2>2, <2>3, <2>4, QuotaFrame DEF slotVars, callVars
  <1>5. ASSUME NEW c \in Cores, Reserve(c) \/ Store(c) \/ \E s \in Services : AddService(c, s)
        PROVE  QuotaInv'
    <2>1. \A d \in Cores : d = c
      BY DEF OneCore
    <2> QED
      BY <1>5, <2>1, QuotaReserve, QuotaStore, QuotaAddService
  <1> QED
    BY <1>1, <1>2, <1>3, <1>4, <1>5 DEF Next, CoreStep, Guarded

LEMMA QuotaInvariant ==
    ASSUME OneCore
    PROVE  Spec => []QuotaInv
  <1>1. TypeOK /\ BusyCalls /\ TransmitInv /\ PlaceInv /\ QuotaInv /\ [Next]_vars => QuotaInv'
    BY QuotaStep
  <1> QED
    BY QuotaInit, <1>1, TypeInvariant, TransmitInvariant, PlaceInvariant, PTL DEF Spec

\* On one core data_use_count is the number of slots in use by DATA messages,
\* and never above data_quota.
THEOREM DataQuotaExactHolds ==
    ASSUME OneCore
    PROVE  Spec => []DataQuotaExact
  <1>1. QuotaInv => DataQuotaExact
    BY DEF QuotaInv, Counted, Allowed, DataQuotaExact
  <1> QED
    BY <1>1, QuotaInvariant, PTL

\* On one core the same holds of each service: add_service lets the first slot
\* of a service count, and no service gets more slots than its quota.
THEOREM ServiceQuotaExactHolds ==
    ASSUME OneCore
    PROVE  Spec => []ServiceQuotaExact
  <1>1. QuotaInv => ServiceQuotaExact
    BY FS_EmptySet DEF QuotaInv, Counted, Allowed, ServiceQuotaExact
  <1> QED
    BY <1>1, QuotaInvariant, PTL

\* On one core no DATA message of a closing service reaches the stream: the
\* check and the store are one step as far as the slot handler is concerned.
THEOREM NoDataAfterClosingHolds ==
    ASSUME OneCore
    PROVE  Spec => NoDataAfterClosing
  <1> DEFINE Last(t) == t[Len(t)].msg
             NoData == \A s \in Services :
                closing(s) /\ Len(sent') > Len(sent)
                  => ~(Last(sent').type = "DATA" /\ Last(sent').service = s)
  <1>1. ASSUME TypeOK, QuotaInv, [Next]_vars PROVE [NoData]_vars
    <2>1. CASE sent' = sent
      BY <2>1 DEF TypeOK
    <2>2. ASSUME NEW c \in Cores, Store(c) PROVE NoData
      <3>1. sent' = Append(sent, [at |-> Address(slot_position[c]), msg |-> call[c]])
        BY <2>2 DEF Store
      <3>2. Last(sent') = call[c]
        BY <1>1, <3>1 DEF TypeOK
      <3>3. call[c].type = "DATA" => ~closing(call[c].service)
        BY <1>1, <2>2 DEF QuotaInv, DataCallsOK, DataCall, Store
      <3> HIDE DEF Last
      <3> QED BY <3>2, <3>3
    <2>3. sent' = sent \/ \E c \in Cores : Store(c)
      BY <1>1 DEF Next, CoreStep, Begins, Guarded, Connect, OpenService, CloseService, QueueMessage,
           Refuse, WaitForQuota, WithinQuota, Reserve, AddService, Opened, PeerCloses, VcReads,
           VcReadsUnwritten, vars
    <2> QED
      BY <2>1, <2>2, <2>3
  <1> QED
    BY <1>1, TypeCorrect, QuotaInvariant, PTL DEF Spec, NoDataAfterClosing

-----------------------------------------------------------------------------
(* The stream on one core. *)

\* Where the k-th message of the stream begins, or would.
StartOf(k) == IF k <= Len(sent) THEN sent[k].at ELSE Base + tx_pos

\* The published messages follow each other without a gap.
Gapless ==
    /\ StartOf(1) = Base
    /\ \A i \in 1 .. Len(sent) : StartOf(i) + Stride(sent[i].msg) = StartOf(i + 1)

\* The VideoCore has read a beginning of the stream and stands behind it.
ReadInOrder ==
    /\ Len(received) <= Len(sent)
    /\ \A i \in 1 .. Len(received) : received[i] = sent[i].msg
    /\ Base + vc_pos = StartOf(Len(received) + 1)

\* The core stores where the published messages end.
StoresNext ==
    /\ \A c \in Cores : Storing(c) => At(c) = Base + tx_pos
    /\ (\A c \in Cores : ~Storing(c)) => tx_pos = local_tx_pos

\* The inductive invariant behind ImplementsStream.
ChainInv == padded = {} => StoresNext /\ Gapless /\ ReadInOrder

LEMMA ChainInit == Init => ChainInv
  <1> SUFFICES ASSUME Init PROVE ChainInv
    OBVIOUS
  <1>1. Len(sent) = 0 /\ Len(received) = 0 /\ tx_pos = 0 /\ vc_pos = 0 /\ local_tx_pos = 0
    BY DEF Init
  <1>2. Base \in Nat
    BY AddressOf
  <1>3. StoresNext
    BY <1>1 DEF Init, StoresNext, Storing
  <1> QED
    BY <1>1, <1>2, <1>3 DEF ChainInv, Gapless, ReadInOrder, StartOf

\* A step that publishes nothing, reads nothing and reserves nothing.
LEMMA ChainFrame ==
    ASSUME ChainInv, UNCHANGED <<slotVars, vcVars, slot_position, sent, padded>>,
           \A c \in Cores : Storing(c)' <=> Storing(c)
    PROVE  ChainInv'
  <1>1. UNCHANGED <<local_tx_pos, tx_pos, vc_pos, received, slot_position, sent, padded>>
    BY DEF slotVars, vcVars
  <1>2. \A k : StartOf(k)' = StartOf(k)
    BY <1>1 DEF StartOf
  <1>3. \A c \in Cores : At(c)' = At(c)
    BY <1>1 DEF At
  <1>4. StoresNext => StoresNext'
    BY <1>1, <1>3 DEF StoresNext
  <1>5. Gapless => Gapless'
    BY <1>1, <1>2 DEF Gapless
  <1>6. ReadInOrder => ReadInOrder'
    BY <1>1, <1>2 DEF ReadInOrder
  <1> QED
    BY <1>1, <1>4, <1>5, <1>6 DEF ChainInv

\* Without padding, reserved space begins where the published messages end.
LEMMA ChainReserve ==
    ASSUME TypeOK, BusyCalls, TransmitInv, PlaceInv, ChainInv,
           NEW c \in Cores, \A d \in Cores : d = c, Reserve(c)
    PROVE  ChainInv'
  <1> SUFFICES ASSUME padded' = {} PROVE (StoresNext /\ Gapless /\ ReadInOrder)'
    BY DEF ChainInv
  <1> DEFINE m == call[c]
  <1>1. /\ m \in Messages /\ pc[c] = "reserve" /\ PadSlot(m)
        /\ UNCHANGED <<tx_pos, vc_pos, received, sent>>
    BY DEF Reserve, BusyCalls, vcVars
  <1>2. padded = {} /\ ~NeedsPadding(m)
    BY <1>1 DEF PadSlot
  <1>3. StoresNext /\ Gapless /\ ReadInOrder /\ tx_pos = local_tx_pos
    BY <1>1, <1>2 DEF ChainInv, StoresNext, Storing
  <1>4. \A k : StartOf(k)' = StartOf(k)
    BY <1>1 DEF StartOf
  <1>5. (Gapless /\ ReadInOrder)'
    BY <1>1, <1>3, <1>4 DEF Gapless, ReadInOrder
  <1>6. StoresNext'
    <2>1. CASE OutOfSlots(m)
      BY <1>1, <1>3, <2>1 DEF Reserve, StoresNext, Storing, At
    <2>2. CASE ~OutOfSlots(m)
      <3>1. /\ slot_position' = [slot_position EXCEPT ![c] = PositionFor(m)]
            /\ pc'[c] = "store"
        BY <2>2 DEF Reserve, TypeOK
      <3>2. StartPos(m) = local_tx_pos /\ local_tx_pos \in Nat /\ Aligned(local_tx_pos)
        BY <1>2 DEF StartPos, TypeOK, TransmitInv, PositionsOK
      <3>3. PositionFor(m) = SlotPosition(local_slot_first + local_tx_pos \div SlotSize,
                                          SlotOffset(local_tx_pos))
        BY <1>1, <2>2, <3>2, ReservedSpace DEF PlaceInv
      <3>4. Address(PositionFor(m)) = Base + local_tx_pos
        BY <3>2, <3>3, AddressOf
      <3>5. At(c)' = Base + tx_pos'
        BY <1>1, <1>3, <3>1, <3>4 DEF At, TypeOK
      <3> QED
        BY <3>1, <3>5 DEF StoresNext, Storing
    <2> QED
      BY <2>1, <2>2
  <1> QED
    BY <1>5, <1>6

\* The stored message is the next of the stream.
LEMMA ChainStore ==
    ASSUME TypeOK, BusyCalls, TransmitInv, PlaceInv, UpToEnd, ChainInv,
           NEW c \in Cores, \A d \in Cores : d = c, Store(c)
    PROVE  ChainInv'
  <1> SUFFICES ASSUME padded' = {} PROVE (StoresNext /\ Gapless /\ ReadInOrder)'
    BY DEF ChainInv
  <1> DEFINE m == call[c]
             a == At(c)
             n == Len(sent)
  <1>1. /\ Storing(c) /\ m \in Messages
        /\ sent' = Append(sent, [at |-> a, msg |-> m])
        /\ tx_pos' = local_tx_pos /\ pc'[c] = "idle"
        /\ UNCHANGED <<local_tx_pos, vc_pos, received, padded>>
    BY DEF Store, BusyCalls, Storing, At, PublishedPos, TypeOK, vcVars
  <1>2. StoresNext /\ Gapless /\ ReadInOrder
    BY <1>1 DEF ChainInv
  <1>3. a = Base + tx_pos /\ a + Stride(m) = Base + local_tx_pos
    BY <1>1, <1>2 DEF StoresNext, UpToEnd
  <1>4. /\ n \in Nat /\ Len(sent') = n + 1
        /\ sent'[n + 1] = [at |-> a, msg |-> m]
        /\ \A i \in 1 .. n : sent'[i] = sent[i]
    BY <1>1 DEF TypeOK
  <1> HIDE DEF a, m
  <1>5. \A k \in 1 .. (n + 1) : StartOf(k)' = StartOf(k)
    <2>1. ASSUME NEW k \in 1 .. n PROVE StartOf(k)' = StartOf(k)
      BY <1>4 DEF StartOf
    <2>2. ASSUME NEW k, k = n + 1 PROVE StartOf(k)' = StartOf(k)
      BY <1>3, <1>4, <2>2 DEF StartOf
    <2> QED BY <1>4, <2>1, <2>2
  <1>6. ASSUME NEW k, k = n + 2 PROVE StartOf(k)' = Base + local_tx_pos
    <2>1. ~(k <= Len(sent'))
      BY <1>4, <1>6
    <2> QED BY <1>1, <2>1 DEF StartOf, Base
  <1>7. Gapless'
    <2>1. ASSUME NEW k, k = 1 PROVE StartOf(k)' = Base
      BY <1>2, <1>4, <1>5, <2>1 DEF Gapless
    <2>2. ASSUME NEW i \in 1 .. n PROVE StartOf(i)' + Stride(sent'[i].msg) = StartOf(i + 1)'
      <3>1. i \in 1 .. (n + 1) /\ i + 1 \in 1 .. (n + 1)
        BY <1>4
      <3>2. StartOf(i)' = StartOf(i) /\ StartOf(i + 1)' = StartOf(i + 1)
        BY <1>5, <3>1
      <3> QED BY <1>2, <1>4, <3>2 DEF Gapless
    <2>3. ASSUME NEW i, i = n + 1 PROVE StartOf(i)' + Stride(sent'[i].msg) = StartOf(i + 1)'
      <3>1. StartOf(i)' = a /\ sent'[i].msg = m
        BY <1>4, <2>3 DEF StartOf
      <3>2. StartOf(i + 1)' = Base + local_tx_pos
        <4>1. i + 1 = n + 2
          BY <1>4, <2>3
        <4> QED BY <1>6, <4>1
      <3> QED BY <1>3, <3>1, <3>2
    <2>4. \A i \in 1 .. Len(sent') : i \in 1 .. n \/ i = n + 1
      BY <1>4
    <2> QED
      BY <2>1, <2>2, <2>3, <2>4 DEF Gapless, Base
  <1>8. ReadInOrder'
    <2>1. Len(received) \in Nat /\ Len(received) <= n
      BY <1>2 DEF ReadInOrder, TypeOK
    <2>2. ASSUME NEW k, k = Len(received) + 1 PROVE StartOf(k)' = StartOf(k)
      BY <1>4, <1>5, <2>1, <2>2
    <2>3. ASSUME NEW k, k = Len(received) + 1 PROVE Base + vc_pos = StartOf(k)'
      BY <1>2, <2>2, <2>3 DEF ReadInOrder
    <2>4. \A i \in 1 .. Len(received) : i \in 1 .. n
      BY <1>4, <2>1
    <2> QED
      BY <1>1, <1>2, <1>4, <2>1, <2>3, <2>4 DEF ReadInOrder, Base
  <1>9. StoresNext'
    BY <1>1 DEF StoresNext, Storing
  <1> QED
    BY <1>7, <1>8, <1>9

\* What the VideoCore finds at its position: the next message it did not read.
LEMMA NextToRead ==
    ASSUME TypeOK, TransmitInv, PlaceInv, ChainInv, padded = {}, vc_pos < tx_pos
    PROVE  /\ Len(received) + 1 \in 1 .. Len(sent)
           /\ slot_data[VcAddress] = Cell("header", sent[Len(received) + 1].msg)
           /\ sent[Len(received) + 1].msg \in Messages
  <1> DEFINE k == Len(received) + 1
  <1>1. ReadInOrder /\ Gapless
    BY DEF ChainInv
  <1>2. /\ Len(received) \in Nat /\ Len(sent) \in Nat /\ Len(received) <= Len(sent)
        /\ Base + vc_pos = StartOf(k)
    BY <1>1 DEF ReadInOrder, TypeOK
  <1>3. vc_pos \in Nat /\ tx_pos \in Nat /\ local_tx_pos \in Nat /\ tx_pos <= local_tx_pos /\ Base \in Nat
    BY AddressOf DEF TypeOK, TransmitInv, PositionsOK
  <1>4. k <= Len(sent)
    <2> SUFFICES ASSUME ~(k <= Len(sent)) PROVE FALSE
      OBVIOUS
    <2>1. Base + vc_pos = Base + tx_pos
      BY <1>2 DEF StartOf
    <2> QED BY <1>3, <2>1
  <1>5. k \in 1 .. Len(sent)
    BY <1>2, <1>4
  <1>6. sent[k].at = Base + vc_pos
    BY <1>2, <1>4 DEF StartOf
  <1>7. VcAddress = Base + vc_pos
    <2>1. vc_pos < slot_queue_available * SlotSize
      <3>1. local_tx_pos <= slot_queue_available * SlotSize /\ slot_queue_available * SlotSize \in Nat
        BY <1>3, LocalLayout, SlotBelow DEF PlaceInv, SpaceOK
      <3> HIDE DEF slot_queue_available
      <3> QED BY <1>3, <3>1
    <2>2. AddressInQueue(slot_queue, vc_pos) = local_slot_first * SlotSize + vc_pos
      BY <1>3, <2>1, LocalQueue, QueueAddress
    <2> QED
      BY <2>2 DEF VcAddress, Base
  <1> HIDE DEF k
  <1>8. Intact(slot_data, sent[k].at, sent[k].msg, Stride(sent[k].msg)) /\ sent[k].msg \in Messages
    BY <1>5 DEF PlaceInv, StreamIntact, SentOK, Placed
  <1> QED
    BY <1>5, <1>6, <1>7, <1>8 DEF Intact, k

\* The VideoCore takes the next message.
LEMMA VcTakesNext ==
    ASSUME TypeOK, TransmitInv, PlaceInv, ChainInv, padded = {}, VcReads
    PROVE  /\ Len(received) + 1 \in 1 .. Len(sent)
           /\ received' = Append(received, sent[Len(received) + 1].msg)
           /\ vc_pos' = vc_pos + Stride(sent[Len(received) + 1].msg)
  <1> DEFINE m == sent[Len(received) + 1].msg
  <1>1. /\ Len(received) + 1 \in 1 .. Len(sent)
        /\ slot_data[VcAddress] = Cell("header", m) /\ m \in Messages
    BY NextToRead DEF VcReads
  <1>2. m.type # "PADDING"
    <2> HIDE DEF m
    <2> QED BY <1>1 DEF Messages, ConnectMsg, OpenMsg, CloseMsg, DataMsg
  <1>3. slot_data[VcAddress].of = m
    <2> HIDE DEF m
    <2> QED BY <1>1 DEF Cell
  <1> QED
    BY <1>1, <1>2, <1>3 DEF VcReads

LEMMA ChainVcReads ==
    ASSUME TypeOK, TransmitInv, PlaceInv, ChainInv, VcReads
    PROVE  ChainInv'
  <1> SUFFICES ASSUME padded' = {} PROVE (StoresNext /\ Gapless /\ ReadInOrder)'
    BY DEF ChainInv
  <1> DEFINE k == Len(received) + 1
             m == sent[k].msg
  <1>1. /\ UNCHANGED <<local_tx_pos, tx_pos, pc, slot_position, sent, padded>>
        /\ vc_pos \in Nat
    BY DEF VcReads, slotVars, callVars, TypeOK
  <1>2. StoresNext /\ Gapless /\ ReadInOrder /\ padded = {}
    BY <1>1 DEF ChainInv
  <1>3. k \in 1 .. Len(sent) /\ received' = Append(received, m) /\ vc_pos' = vc_pos + Stride(m)
    BY <1>2, VcTakesNext
  <1>4. \A i : StartOf(i)' = StartOf(i)
    BY <1>1 DEF StartOf
  <1>5. StoresNext' /\ Gapless'
    BY <1>1, <1>2, <1>4 DEF StoresNext, Gapless, Storing, At
  <1>6. /\ Len(received) \in Nat /\ Len(received') = k /\ received'[k] = m
        /\ \A i \in 1 .. Len(received) : received'[i] = received[i]
    <2>1. received \in Seq(Messages) /\ m \in Messages
      BY <1>3 DEF TypeOK, PlaceInv, SentOK, Placed
    <2> HIDE DEF m
    <2> QED BY <1>3, <2>1
  <1>7. ReadInOrder'
    <2>1. \A i \in 1 .. Len(received') : received'[i] = sent'[i].msg
      <3>1. \A i \in 1 .. k : i \in 1 .. Len(received) \/ i = k
        BY <1>6
      <3> QED BY <1>1, <1>2, <1>6, <3>1 DEF ReadInOrder
    <2>2. ASSUME NEW i, i = Len(received') + 1 PROVE Base + vc_pos' = StartOf(i)'
      <3>1. StartOf(k) + Stride(m) = StartOf(k + 1)
        BY <1>2, <1>3 DEF Gapless
      <3>2. Base + vc_pos = StartOf(k)
        BY <1>2 DEF ReadInOrder
      <3>3. Stride(m) \in Nat /\ Base \in Nat
        <4>1. m \in Messages
          BY <1>3 DEF PlaceInv, SentOK, Placed
        <4> QED BY <4>1, StrideFits, AddressOf
      <3>4. Base + (vc_pos + Stride(m)) = StartOf(k + 1)
        <4> HIDE DEF k, m
        <4> QED BY <1>1, <3>1, <3>2, <3>3
      <3> QED BY <1>3, <1>4, <1>6, <2>2, <3>4
    <2>3. Len(received') <= Len(sent')
      BY <1>1, <1>3, <1>6
    <2> QED
      BY <2>1, <2>2, <2>3 DEF ReadInOrder, Base
  <1> QED
    BY <1>5, <1>7

LEMMA ChainStep ==
    ASSUME OneCore, TypeOK, BusyCalls, TransmitInv, PlaceInv, QuotaInv, ChainInv, [Next]_vars
    PROVE  ChainInv'
  <1>1. ASSUME NEW c \in Cores, Begins(c) PROVE ChainInv'
    <2>1. PICK m \in Messages :
             Call(c, m) /\ UNCHANGED <<slotVars, vcVars, slot_position, sent, padded>>
      BY <1>1 DEF Begins, Connect, OpenService, CloseService, QueueMessage, Messages
    <2> QED
      BY <2>1, ChainFrame DEF Call, TypeOK, Storing
  <1>2. ASSUME NEW c \in Cores, Refuse(c) \/ WaitForQuota(c) \/ WithinQuota(c) PROVE ChainInv'
    BY <1>2, ChainFrame DEF Refuse, WaitForQuota, WithinQuota, TypeOK, Storing
  <1>3. ASSUME NEW c \in Cores, NEW s \in Services, AddService(c, s) \/ Opened(c, s) \/ PeerCloses(c, s)
        PROVE  ChainInv'
    BY <1>3, ChainFrame DEF AddService, Opened, PeerCloses, callVars, Storing
  <1>4. ASSUME NEW c \in Cores, Reserve(c) \/ Store(c) PROVE ChainInv'
    <2>1. \A d \in Cores : d = c
      BY DEF OneCore
    <2> QED
      BY <1>4, <2>1, ChainReserve, ChainStore DEF QuotaInv
  <1>5. CASE VcReadsUnwritten
    <2>1. padded' = padded /\ vc_pos < tx_pos /\ slot_data[VcAddress].part = "empty"
      BY <1>5 DEF VcReadsUnwritten
    <2>2. padded # {}
      <3> SUFFICES ASSUME padded = {} PROVE FALSE
        OBVIOUS
      <3>1. PICK m \in Messages : slot_data[VcAddress] = Cell("header", m)
        BY <2>1, NextToRead
      <3> QED BY <2>1, <3>1 DEF Cell
    <2> QED BY <2>1, <2>2 DEF ChainInv
  <1>6. CASE UNCHANGED vars
    BY <1>6, ChainFrame DEF vars, callVars, Storing
  <1> QED
    BY <1>1, <1>2, <1>3, <1>4, <1>5, <1>6, ChainVcReads DEF Next, CoreStep, Guarded

LEMMA ChainInvariant ==
    ASSUME OneCore
    PROVE  Spec => []ChainInv
  <1>1. TypeOK /\ BusyCalls /\ TransmitInv /\ PlaceInv /\ QuotaInv /\ ChainInv /\ [Next]_vars
          => ChainInv'
    BY ChainStep
  <1> QED
    BY ChainInit, <1>1, TypeInvariant, TransmitInvariant, PlaceInvariant, QuotaInvariant, PTL DEF Spec

\* The messages of the stream, as the abstract queue has them.
Accepted == [i \in 1 .. Len(sent) |-> sent[i].msg]

\* Every step accepts a message, delivers the next one, or is no step of the
\* queue.
LEMMA StreamStep ==
    ASSUME TypeOK, BusyCalls, TransmitInv, PlaceInv, ChainInv, [Next]_vars
    PROVE  [Stream!Accept \/ Stream!Deliver \/ Stream!Corrupt]_<<Accepted, received, padded # {}>>
  <1>1. CASE padded' # {}
    BY <1>1 DEF Stream!Corrupt
  <1>2. CASE padded' = {}
    <2>1. padded = {}
      <3>1. padded \subseteq padded'
        BY DEF Next, CoreStep, Begins, Guarded, Connect, OpenService, CloseService, QueueMessage,
           Refuse, WaitForQuota, WithinQuota, Reserve, PadSlot, Store, AddService, Opened, PeerCloses,
           VcReads, VcReadsUnwritten, vars
      <3> QED BY <1>2, <3>1
    <2>2. ASSUME NEW c \in Cores, Store(c) PROVE Stream!Accept
      <3> DEFINE n == Len(sent)
      <3>1. /\ sent' = Append(sent, [at |-> Address(slot_position[c]), msg |-> call[c]])
            /\ received' = received
        BY <2>2 DEF Store, vcVars
      <3>2. n \in Nat /\ Len(sent') = n + 1 /\ \A i \in 1 .. n : sent'[i] = sent[i]
        BY <3>1 DEF TypeOK
      <3>3. \A i \in 1 .. n : sent[i].msg \in Messages
        BY DEF PlaceInv, SentOK, Placed
      <3>4. Accepted \in Seq(Messages) /\ Len(Accepted) = n
        BY <3>2, <3>3 DEF Accepted
      <3>5. Accepted' \in Seq(Messages) /\ Len(Accepted') = n + 1
        <4>1. \A i \in 1 .. (n + 1) : sent'[i].msg \in Messages
          <5>1. call[c] \in Messages
            BY <2>2 DEF Store, BusyCalls
          <5>2. sent'[n + 1].msg = call[c]
            BY <3>1 DEF TypeOK
          <5>3. \A i \in 1 .. (n + 1) : i \in 1 .. n \/ i = n + 1
            BY <3>2
          <5> QED BY <3>2, <3>3, <5>1, <5>2, <5>3
        <4> QED BY <3>2, <4>1 DEF Accepted
      <3>6. SubSeq(Accepted', 1, n) = Accepted
        BY <3>2, <3>4, <3>5 DEF Accepted
      <3> QED
        BY <1>2, <3>1, <3>4, <3>5, <3>6 DEF Stream!Accept, Accepted
    <2>3. CASE VcReads
      <3> DEFINE k == Len(received) + 1
      <3>1. k \in 1 .. Len(sent) /\ received' = Append(received, sent[k].msg)
        BY <2>1, <2>3, VcTakesNext
      <3>2. sent' = sent
        BY <2>3 DEF VcReads
      <3>3. Accepted[k] = sent[k].msg /\ Len(Accepted) = Len(sent) /\ Accepted' = Accepted
        BY <3>1, <3>2 DEF Accepted, TypeOK
      <3>4. Len(received) < Len(sent)
        BY <3>1 DEF TypeOK
      <3> QED
        BY <1>2, <3>1, <3>3, <3>4 DEF Stream!Deliver, Accepted
    <2>4. CASE UNCHANGED <<sent, received>>
      <3>1. UNCHANGED <<Accepted, received, padded # {}>>
        BY <1>2, <2>1, <2>4 DEF Accepted
      <3> QED BY <3>1
    <2>5. \/ \E c \in Cores : Store(c)
          \/ VcReads
          \/ UNCHANGED <<sent, received>>
      BY DEF Next, CoreStep, Begins, Guarded, Connect, OpenService, CloseService, QueueMessage,
           Refuse, WaitForQuota, WithinQuota, Reserve, AddService, Opened, PeerCloses,
           VcReadsUnwritten, vars, vcVars
    <2> QED
      BY <2>2, <2>3, <2>4, <2>5
  <1> QED
    BY <1>1, <1>2

\* On one core the transmit path is a queue: the VideoCore gets every message
\* whole, in order and once, until the first padding header is stored.
THEOREM ImplementsStreamHolds ==
    ASSUME OneCore
    PROVE  Spec => ImplementsStream
  <1>1. Init => Stream!Init
    BY DEF Init, Stream!Init
  <1>2. TypeOK /\ BusyCalls /\ TransmitInv /\ PlaceInv /\ ChainInv /\ [Next]_vars
          => [Stream!Accept \/ Stream!Deliver \/ Stream!Corrupt]_<<Accepted, received, padded # {}>>
    BY StreamStep
  <1> QED
    BY <1>1, <1>2, TypeInvariant, TransmitInvariant, PlaceInvariant, ChainInvariant, PTL
    DEF Spec, ImplementsStream, Stream!Spec, Accepted
=============================================================================
