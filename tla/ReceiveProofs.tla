----------------------------- MODULE ReceiveProofs -----------------------------
(***************************************************************************)
(* What slot_handler makes of the VideoCore's slots, for every layout of   *)
(* the slots, every set of payload sizes that fit into a slot and every    *)
(* size it may find in bytes that are no header: its positions stay in the *)
(* memory whatever it reads, and as long as it reads at rx_pos it follows  *)
(* the messages without a step too many.                                   *)
(***************************************************************************)
EXTENDS Receive, SlotsProofs

-----------------------------------------------------------------------------
(* The layout. *)

\* The VideoCore's slots are one piece of memory, from here on.
RemoteBase == remote_slot_first * SlotSize
RemoteCount == remote_slot_last - remote_slot_first + 1

\* The cells the VideoCore has published, by their positions.
Cells == {p \in 0 .. (tx_pos - 1) : Aligned(p)}
IsHeader(p) == slot_data[RemoteBase + p].part = "header"
MsgAt(p) == slot_data[RemoteBase + p].of

\* A message begins at p, or the next one will.
Boundary(p) == p = tx_pos \/ (p \in Cells /\ IsHeader(p))

\* The number of the first message at or behind a boundary.
NumberAt(p) ==
    IF p = tx_pos THEN Len(written) + 1
    ELSE IF MsgAt(p).type = "PADDING" THEN MsgAt(p + Stride(MsgAt(p))).number
    ELSE MsgAt(p).number

\* The message m at p: it ends in its slot, where the next one begins; padding
\* stands before a message, and messages are numbered in order.
Laid(p, m) ==
    /\ m.size \in Nat
    /\ SlotOffset(p) + Stride(m) <= SlotSize
    /\ \A x \in Cells : p < x /\ x < p + Stride(m) => ~IsHeader(x)
    /\ Boundary(p + Stride(m))
    /\ \/ /\ m.type = "PADDING"
          /\ p + Stride(m) # tx_pos
          /\ MsgAt(p + Stride(m)).type = "MESSAGE"
       \/ /\ m.type = "MESSAGE"
          /\ m.number \in 1 .. Len(written)
          /\ written[m.number] = m
          /\ NumberAt(p + Stride(m)) = m.number + 1

Layout == \A p \in Cells : IsHeader(p) => Laid(p, MsgAt(p))

\* What slot_handler may take bytes for: a message of any size.
Readable == [type : {"MESSAGE", "PADDING"}, number : Nat, size : Nat]

\* The messages of the VideoCore and its padding: they fit into a slot.
Fitting == {m \in Readable : Stride(m) <= SlotSize}

\* What holds whatever slot_handler reads.
TypeInv ==
    /\ TypeOK
    /\ Aligned(tx_pos)
    /\ Aligned(rx_data.offset) /\ rx_data.offset <= rx_pos
    /\ slot_data \in Memories(Fitting)
    /\ written \in Seq(Fitting)
    /\ handled \in Seq(Readable)

\* Where slot_handler is as long as it reads at rx_pos.
OnTrack ==
    /\ Boundary(rx_pos)
    /\ Boundary(poll_tx_pos)
    /\ rx_pos <= poll_tx_pos
    /\ PositionsAgree
    /\ ~panicked
    /\ Len(handled) <= Len(written)
    /\ \A i \in 1 .. Len(handled) : handled[i] = written[i]
    /\ NumberAt(rx_pos) = Len(handled) + 1

\* The inductive invariant.
ReceiveInv == TypeInv /\ Layout /\ (~misread => OnTrack)

-----------------------------------------------------------------------------
(* Geometry. *)

\* The slots of the VideoCore are in the memory, and its queue names them.
LEMMA RemoteLayout ==
    /\ RemoteCount \in Nat /\ RemoteCount >= 1 /\ RemoteCount <= MaxSlotsPerSide
    /\ remote_slot_first \in Nat /\ remote_slot_first >= 1
    /\ remote_slot_first + RemoteCount <= TotalSlots
    /\ \A i \in 0 .. (RemoteCount - 1) : remote_slot_queue[i] = remote_slot_first + i
    /\ \A i \in 0 .. (MaxSlotsPerSide - 1) :
          remote_slot_queue[i] = Unset \/ remote_slot_queue[i] \in RemoteSlots
    /\ \A i \in RemoteSlots : i \in Nat /\ i >= 1 /\ i + 1 <= TotalSlots
    /\ MaxSlotsPerSide \in Nat /\ MaxSlotsPerSide >= 1
    /\ TotalSlots \in Nat
  <1> USE SlotZeroAssumption DEF slot_queue_available, local_slot_last, local_slot_first, num_slots,
          first_data_slot, remote_slot_first, remote_slot_last, RemoteCount
  <1>1. /\ RemoteCount \in Nat /\ RemoteCount >= 1 /\ RemoteCount <= MaxSlotsPerSide
        /\ remote_slot_first \in Nat /\ remote_slot_first >= 1
        /\ remote_slot_first + RemoteCount <= TotalSlots
        /\ MaxSlotsPerSide \in Nat /\ MaxSlotsPerSide >= 1
        /\ TotalSlots \in Nat
    OBVIOUS
  <1>2. \A i \in RemoteSlots : i \in Nat /\ i >= 1 /\ i + 1 <= TotalSlots
    BY DEF RemoteSlots
  <1>3. ASSUME NEW i \in 0 .. (RemoteCount - 1)
        PROVE  remote_slot_queue[i] = remote_slot_first + i
    BY DEF remote_slot_queue, RemoteSlots
  <1>4. ASSUME NEW i \in 0 .. (MaxSlotsPerSide - 1)
        PROVE  remote_slot_queue[i] = Unset \/ remote_slot_queue[i] \in RemoteSlots
    BY DEF remote_slot_queue
  <1> QED
    BY <1>1, <1>2, <1>3, <1>4

\* Where a position of the VideoCore is in memory.
LEMMA RemoteAddress ==
    ASSUME NEW p \in Nat, p < RemoteSpace
    PROVE  /\ AddressInQueue(remote_slot_queue, p) = RemoteBase + p
           /\ RemoteBase \in Nat
           /\ Aligned(p) => RemoteBase + p \in Addresses
  <1>1. p < RemoteCount * SlotSize
    BY DEF RemoteSpace, RemoteCount
  <1>2. Consecutive(remote_slot_queue, remote_slot_first, RemoteCount)
    BY RemoteLayout DEF Consecutive
  <1>3. /\ AddressInQueue(remote_slot_queue, p) = remote_slot_first * SlotSize + p
        /\ remote_slot_first * SlotSize \in Nat
    BY <1>1, <1>2, QueueAddress
  <1>4. Aligned(p) => remote_slot_first * SlotSize + p \in Addresses
    BY <1>1, RemoteLayout, SlotsInMemory
  <1> QED
    BY <1>3, <1>4 DEF RemoteBase

LEMMA SpaceIsNat == RemoteSpace \in Nat /\ RemoteBase \in Nat /\ RemoteBase >= SlotSize
  <1>1. RemoteCount \in Nat /\ remote_slot_first \in Nat /\ remote_slot_first >= 1
    BY RemoteLayout
  <1>2. SlotSize \in Nat
    BY SlotsAssumption
  <1>3. RemoteCount * SlotSize \in Nat
    BY <1>1, <1>2
  <1>4. remote_slot_first * SlotSize \in Nat /\ remote_slot_first * SlotSize >= SlotSize
    BY <1>1, <1>2
  <1> QED
    BY <1>3, <1>4 DEF RemoteSpace, RemoteCount, RemoteBase

LEMMA StrideOf ==
    ASSUME NEW m, m.size \in Nat
    PROVE  Stride(m) \in Nat /\ Stride(m) >= 8 /\ Aligned(Stride(m))
  BY DEF Stride, calc_msg_stride, HdrSize, Aligned

LEMMA FittingStride ==
    ASSUME NEW m \in Fitting
    PROVE  /\ m.size \in Nat /\ Stride(m) <= SlotSize
           /\ Stride(m) \in Nat /\ Stride(m) >= 8 /\ Aligned(Stride(m))
  <1>1. m.size \in Nat /\ Stride(m) <= SlotSize
    BY DEF Fitting, Readable
  <1> QED
    BY <1>1, StrideOf

\* Padding fills the rest of its slot.
LEMMA PaddingStride ==
    ASSUME NEW n \in Nat, Aligned(n), n >= 8
    PROVE  Stride(PaddingMsg(n - HdrSize)) = n
  BY DEF Aligned, Stride, PaddingMsg, calc_msg_stride, HdrSize

LEMMA PaddingFits ==
    /\ \A n \in Nat : Aligned(n) /\ n >= 8 /\ n <= SlotSize => PaddingMsg(n - HdrSize) \in Fitting
    /\ PaddingMsg(0) \in Fitting
  <1>1. ASSUME NEW n \in Nat, Aligned(n), n >= 8, n <= SlotSize
        PROVE  PaddingMsg(n - HdrSize) \in Fitting
    <2>1. Stride(PaddingMsg(n - HdrSize)) <= SlotSize
      BY <1>1, PaddingStride
    <2>2. n - HdrSize \in Nat
      BY <1>1 DEF HdrSize
    <2> QED
      BY <2>1, <2>2 DEF PaddingMsg, Fitting, Readable
  <1>2. Aligned(8) /\ SlotSize >= 8 /\ 8 - HdrSize = 0
    BY SlotCells DEF Aligned, HdrSize
  <1>3. PaddingMsg(0) \in Fitting
    <2>1. PaddingMsg(8 - HdrSize) \in Fitting
      BY <1>1, <1>2
    <2> QED BY <1>2, <2>1
  <1> QED
    BY <1>1, <1>3

LEMMA NewMessageFits ==
    ASSUME NEW n \in DataSizes, written \in Seq(Fitting)
    PROVE  NewMessage(n) \in Fitting
  <1>1. n \in Nat /\ calc_msg_stride(n) <= SlotSize
    BY ReceiveAssumption
  <1>2. Len(written) + 1 \in Nat
    BY DEF Fitting
  <1> QED
    BY <1>1, <1>2 DEF NewMessage, Fitting, Readable, Stride

-----------------------------------------------------------------------------
(* The types, whatever slot_handler reads. *)

LEMMA TypeInit == Init => TypeInv
  <1> SUFFICES ASSUME Init PROVE TypeInv
    OBVIOUS
  <1> USE DEF Init
  <1>1. slot_data \in Memories(Fitting)
    BY PaddingFits, InitialInMemories
  <1>2. NoPosition.offset = 0
    BY DEF NoPosition, SlotPosition
  <1>3. Aligned(0)
    BY DEF Aligned, HdrSize
  <1>4. TypeOK
    <2>1. {polling, panicked, misread} \subseteq BOOLEAN
      BY Zenon
    <2>2. 0 \in 0 .. RemoteSpace /\ 0 \in 0 .. 0 /\ 0 \in Nat
      BY SpaceIsNat
    <2> QED BY <1>2, <2>1, <2>2 DEF TypeOK
  <1>5. written \in Seq(Fitting) /\ handled \in Seq(Readable)
    OBVIOUS
  <1> QED
    BY <1>1, <1>2, <1>3, <1>4, <1>5 DEF TypeInv

\* The VideoCore stores a message that fits.
LEMMA VcStoresTypes ==
    ASSUME TypeInv, NEW mem \in Memories(Fitting), NEW pos \in Nat, Aligned(pos), tx_pos <= pos,
           NEW m \in Fitting, VcStores(mem, pos, m)
    PROVE  TypeInv'
  <1>1. slot_data' \in Memories(Fitting)
    BY StoreInMemories DEF VcStores
  <1>2. Stride(m) \in Nat /\ Aligned(Stride(m)) /\ tx_pos \in Nat /\ RemoteSpace \in Nat
    BY FittingStride, SpaceIsNat DEF TypeInv, TypeOK
  <1>3. tx_pos' \in 0 .. RemoteSpace /\ tx_pos <= tx_pos' /\ Aligned(tx_pos') /\ tx_pos' \in Nat
    BY <1>2, AlignedSum DEF VcStores
  <1>4. UNCHANGED <<rx_pos, rx_data, panicked, misread, handled, polling, poll_tx_pos>>
    BY DEF VcStores, rxVars
  <1>5. poll_tx_pos \in 0 .. tx_pos'
    BY <1>2, <1>3 DEF TypeInv, TypeOK
  <1>6. written' \in Seq(Fitting)
    <2>1. written \in Seq(Fitting) /\ written' = Append(written, m)
      BY DEF VcStores, TypeInv
    <2> QED BY <2>1
  <1>7. TypeOK'
    BY <1>3, <1>4, <1>5 DEF TypeInv, TypeOK
  <1> QED
    BY <1>1, <1>3, <1>4, <1>6, <1>7 DEF TypeInv

\* The rest of the slot the VideoCore writes to.
LEMMA SpaceLeftOK ==
    ASSUME TypeInv
    PROVE  /\ SpaceLeft \in Nat /\ SpaceLeft >= 8 /\ SpaceLeft <= SlotSize /\ Aligned(SpaceLeft)
           /\ SlotOffset(tx_pos) + SpaceLeft = SlotSize
           /\ Aligned(tx_pos + SpaceLeft) /\ tx_pos \in Nat
           /\ PaddingMsg(SpaceLeft - HdrSize) \in Fitting
           /\ Stride(PaddingMsg(SpaceLeft - HdrSize)) = SpaceLeft
  <1> DEFINE r == SlotOffset(tx_pos)
  <1>1. /\ Aligned(tx_pos) /\ tx_pos \in Nat
        /\ Aligned(r) /\ r \in Nat /\ r + 8 <= SlotSize
        /\ Aligned(tx_pos + (SlotSize - r))
    BY OffsetAligned DEF TypeInv, Aligned
  <1>2. SlotSize \in Nat /\ SlotSize % 8 = 0
    BY SlotsAssumption DEF HdrSize
  <1>3. SpaceLeft = SlotSize - r
    BY DEF SpaceLeft
  <1>4. Aligned(SlotSize - r) /\ SlotSize - r \in Nat /\ SlotSize - r >= 8 /\ SlotSize - r <= SlotSize
        /\ r + (SlotSize - r) = SlotSize
    <2> HIDE DEF r
    <2> QED BY <1>1, <1>2 DEF Aligned, HdrSize
  <1> QED
    BY <1>1, <1>3, <1>4, PaddingFits, PaddingStride

LEMMA VcTypes ==
    ASSUME TypeInv, NEW n \in DataSizes, VcWrites(NewMessage(n)) \/ VcPadsAndWrites(NewMessage(n))
    PROVE  TypeInv'
  <1> DEFINE m == NewMessage(n)
             pad == PaddingMsg(SpaceLeft - HdrSize)
  <1>1. m \in Fitting
    BY NewMessageFits DEF TypeInv
  <1>2. slot_data \in Memories(Fitting) /\ Aligned(tx_pos) /\ tx_pos \in Nat
    BY DEF TypeInv, Aligned
  <1> HIDE DEF m
  <1>3. CASE VcWrites(m)
    BY <1>1, <1>2, <1>3, VcStoresTypes DEF VcWrites
  <1>4. CASE VcPadsAndWrites(m)
    <2>1. /\ pad \in Fitting /\ Aligned(tx_pos + SpaceLeft) /\ tx_pos + SpaceLeft \in Nat
          /\ tx_pos <= tx_pos + SpaceLeft
      BY SpaceLeftOK DEF Aligned
    <2> DEFINE mem == store_message(slot_data, AddressInQueue(remote_slot_queue, tx_pos), pad, SpaceLeft)
    <2>2. mem \in Memories(Fitting)
      BY <1>2, <2>1, StoreInMemories
    <2>3. VcStores(mem, tx_pos + SpaceLeft, m)
      BY <1>4 DEF VcPadsAndWrites
    <2> HIDE DEF mem
    <2> QED
      BY <1>1, <2>1, <2>2, <2>3, VcStoresTypes
  <1> QED
    BY <1>3, <1>4 DEF m

\* An aligned offset into a slot of the VideoCore is a cell, however large it is:
\* read_message masks it.
LEMMA CellOfSlot ==
    ASSUME NEW p, p.index \in RemoteSlots, Aligned(p.offset)
    PROVE  Address(p) \in Addresses
  <1>1. p.index \in Nat /\ p.index + 1 <= TotalSlots
    BY RemoteLayout
  <1>2. Aligned(SlotOffset(p.offset)) /\ SlotOffset(p.offset) < 1 * SlotSize
    BY OffsetAligned, SlotsAssumption DEF Aligned
  <1>3. p.index * SlotSize + SlotOffset(p.offset) \in Addresses
    BY <1>1, <1>2, SlotsInMemory
  <1> QED
    BY <1>3 DEF Address

\* Where slot_handler reads is in the memory.
LEMMA ReadPositionOK ==
    ASSUME TypeInv, ReadPosition.index # Unset
    PROVE  /\ ReadPosition.index \in RemoteSlots
           /\ Aligned(ReadPosition.offset) /\ ReadPosition.offset <= rx_pos
           /\ Address(ReadPosition) \in Addresses
  <1> DEFINE p == ReadPosition
  <1>1. p.index \in RemoteSlots /\ Aligned(p.offset) /\ p.offset <= rx_pos
    <2>1. CASE rx_data = NoPosition
      <3> DEFINE i == (poll_tx_pos \div SlotSize) % MaxSlotsPerSide
      <3>1. p = SlotPosition(remote_slot_queue[i], 0)
        BY <2>1 DEF ReadPosition, SlotStart, slot_queue_index_from_pos
      <3>2. i \in 0 .. (MaxSlotsPerSide - 1)
        <4>1. poll_tx_pos \in Nat
          BY DEF TypeInv, TypeOK
        <4>2. poll_tx_pos \div SlotSize \in Nat
          BY <4>1, PosSplit
        <4> QED BY <4>2, RemoteLayout, DivMod
      <3> HIDE DEF i
      <3>3. p.index = remote_slot_queue[i] /\ p.offset = 0
        BY <3>1 DEF SlotPosition
      <3>4. Aligned(0) /\ 0 <= rx_pos
        BY DEF Aligned, HdrSize, TypeInv, TypeOK
      <3> QED
        BY <3>2, <3>3, <3>4, RemoteLayout
    <2>2. CASE rx_data # NoPosition
      <3>1. p = rx_data
        BY <2>2 DEF ReadPosition
      <3>2. rx_data.index \in RemoteSlots
        BY <2>2 DEF TypeInv, TypeOK
      <3> QED
        BY <3>1, <3>2 DEF TypeInv
    <2> QED
      BY <2>1, <2>2
  <1> QED
    BY <1>1, CellOfSlot

\* A header in the memory belongs to a message that fits.
LEMMA HeaderFits ==
    ASSUME slot_data \in Memories(Fitting), NEW a \in Addresses, slot_data[a].part = "header"
    PROVE  slot_data[a].of \in Fitting
  <1> DEFINE Content == {EmptyCell} \cup {Cell(part, m) : part \in {"header", "payload"}, m \in Fitting}
  <1>1. slot_data[a] \in Content
    <2>1. slot_data \in [Addresses -> Content]
      BY DEF Memories
    <2> HIDE DEF Content
    <2> QED BY <2>1
  <1>2. slot_data[a] # EmptyCell
    BY DEF EmptyCell
  <1>3. PICK part \in {"header", "payload"}, m \in Fitting : slot_data[a] = Cell(part, m)
    BY <1>1, <1>2
  <1> QED
    BY <1>3 DEF Cell

\* One iteration, whatever message the bytes make.
LEMMA HandleTypes ==
    ASSUME TypeInv, Iterate, ReadPosition.index # Unset, NEW m \in Readable, Handle(ReadPosition, m)
    PROVE  TypeInv'
  <1> DEFINE p == ReadPosition
  <1>1. p.index \in RemoteSlots /\ Aligned(p.offset) /\ p.offset \in Nat /\ p.offset <= rx_pos
    BY ReadPositionOK DEF Aligned
  <1>2. /\ Advance(m) = Stride(m) /\ Stride(m) \in Nat /\ Aligned(Stride(m))
        /\ rx_pos \in Nat
    <2>1. m.size \in Nat
      BY DEF Readable
    <2> QED
      BY <2>1, StrideOf DEF Advance, TypeInv, TypeOK
  <1>3. /\ rx_pos' = rx_pos + Stride(m)
        /\ rx_data' = RxDataAfter(p, m)
        /\ handled' = Dispatched(m) /\ panicked' = panicked
        /\ UNCHANGED <<slot_data, tx_pos, written, polling, poll_tx_pos>>
        /\ misread' = (misread \/ ~AtRxPos(p))
    BY <1>2 DEF Handle, Iterate, vcVars
  <1> HIDE DEF p
  <1>4. rx_pos' \in Nat
    BY <1>2, <1>3
  <1>5. /\ \/ rx_data' = NoPosition
           \/ rx_data' \in [index : RemoteSlots, offset : Nat] /\ Address(rx_data') \in Addresses
        /\ Aligned(rx_data'.offset)
        /\ rx_data'.offset <= rx_pos'
    <2>1. CASE rx_data' = NoPosition
      <3>1. rx_data'.offset = 0
        BY <2>1 DEF NoPosition, SlotPosition
      <3>2. Aligned(0)
        BY DEF Aligned, HdrSize
      <3> QED BY <1>4, <2>1, <3>1, <3>2
    <2>2. CASE rx_data' = SlotPosition(p.index, p.offset + Stride(m))
      <3>1. rx_data'.index = p.index /\ rx_data'.offset = p.offset + Stride(m)
        BY <2>2 DEF SlotPosition
      <3>2. p.offset + Stride(m) \in Nat /\ p.offset + Stride(m) <= rx_pos + Stride(m)
        BY <1>1, <1>2
      <3>3. Aligned(p.offset + Stride(m))
        BY <1>1, <1>2, AlignedSum
      <3>4. rx_data' \in [index : RemoteSlots, offset : Nat]
        BY <1>1, <2>2, <3>2 DEF SlotPosition
      <3>5. Address(rx_data') \in Addresses
        BY <1>1, <3>1, <3>3, CellOfSlot
      <3> QED BY <1>3, <3>1, <3>2, <3>3, <3>4, <3>5
    <2> QED
      BY <1>2, <1>3, <2>1, <2>2 DEF RxDataAfter
  <1>6. handled' \in Seq(Readable)
    <2>1. handled \in Seq(Readable)
      BY DEF TypeInv
    <2> QED BY <1>3, <2>1 DEF Dispatched
  <1>7. misread' \in BOOLEAN
    BY <1>3, Zenon
  <1>8. {polling, panicked, misread}' \subseteq BOOLEAN
    BY <1>3, <1>7 DEF TypeInv, TypeOK
  <1>9. TypeOK'
    <2>1. Address(rx_data)' = Address(rx_data')
      BY DEF Address, SlotOffset
    <2> QED
      BY <1>3, <1>4, <1>5, <1>8, <2>1 DEF TypeInv, TypeOK
  <1> QED
    BY <1>3, <1>5, <1>6, <1>9 DEF TypeInv

LEMMA TypeStep ==
    ASSUME TypeInv, [Next]_vars
    PROVE  TypeInv'
  <1>1. CASE BeginPoll
    BY <1>1 DEF BeginPoll, rxVars, vcVars, TypeInv, TypeOK
  <1>2. CASE EndPoll
    BY <1>2 DEF EndPoll, rxVars, vcVars, TypeInv, TypeOK
  <1>3. CASE ReadMessage
    <2>1. slot_data[Address(ReadPosition)].of \in Readable
      BY <1>3, ReadPositionOK, HeaderFits DEF ReadMessage, TypeInv, Fitting
    <2> QED
      BY <1>3, <2>1, HandleTypes DEF ReadMessage
  <1>4. CASE Iterate /\ panicked' = TRUE /\ UNCHANGED <<rx_pos, rx_data, handled>>
    <2>1. /\ UNCHANGED <<slot_data, tx_pos, written, polling, poll_tx_pos>>
          /\ misread' = (misread \/ ~AtRxPos(ReadPosition))
      BY <1>4 DEF Iterate, vcVars
    <2>2. misread' \in BOOLEAN
      BY <2>1, Zenon
    <2>3. {polling, panicked, misread}' \subseteq BOOLEAN
      BY <1>4, <2>1, <2>2 DEF TypeInv, TypeOK
    <2> QED
      BY <1>4, <2>1, <2>3 DEF TypeInv, TypeOK
  <1>5. CASE ReadGarbage
    <2>1. ASSUME NEW m \in GarbageMsgs, Handle(ReadPosition, m) PROVE TypeInv'
      <3>1. m \in Readable
        BY <2>1, ReceiveAssumption DEF GarbageMsgs, Readable
      <3> QED
        BY <1>5, <2>1, <3>1, HandleTypes DEF ReadGarbage
    <2> QED
      BY <1>4, <1>5, <2>1 DEF ReadGarbage
  <1>6. CASE ReadUnset
    BY <1>4, <1>6 DEF ReadUnset
  <1>7. CASE UNCHANGED vars
    BY <1>7 DEF vars, rxVars, vcVars, TypeInv, TypeOK
  <1> QED
    BY <1>1, <1>2, <1>3, <1>5, <1>6, <1>7, VcTypes DEF Next, SlotHandler

LEMMA TypeInvariant == Spec => []TypeInv
  <1>1. TypeInv /\ [Next]_vars => TypeInv'
    BY TypeStep
  <1> QED
    BY TypeInit, <1>1, PTL DEF Spec

\* Whatever slot_handler reads, a message of the VideoCore or bytes that it takes
\* for a message of any type and any size, the next header is read from a cell
\* of a slot of the VideoCore.
THEOREM TypeCorrect == Spec => []TypeOK
  <1>1. TypeInv => TypeOK
    BY DEF TypeInv
  <1> QED
    BY <1>1, TypeInvariant, PTL

-----------------------------------------------------------------------------
(* The messages in the slots. *)

\* The VideoCore adds message m at pos, behind the padding pad if that is not
\* where its messages end.
Extended(pos, m, pad) ==
    /\ Aligned(pos) /\ tx_pos <= pos
    /\ m.type = "MESSAGE" /\ m.size \in Nat /\ m.number = Len(written) + 1
    /\ SlotOffset(pos) + Stride(m) <= SlotSize
    /\ tx_pos' = pos + Stride(m)
    /\ written' = Append(written, m)
    /\ \A p \in Cells : slot_data'[RemoteBase + p] = slot_data[RemoteBase + p]
    /\ slot_data'[RemoteBase + pos] = Cell("header", m)
    /\ \A x \in Cells' : pos < x => ~IsHeader(x)'
    /\ pos # tx_pos =>
          /\ pad.type = "PADDING" /\ pad.size \in Nat
          /\ tx_pos + Stride(pad) = pos
          /\ SlotOffset(tx_pos) + Stride(pad) <= SlotSize
          /\ slot_data'[RemoteBase + tx_pos] = Cell("header", pad)
          /\ \A x \in Cells' : tx_pos < x /\ x < pos => ~IsHeader(x)'

\* What a published message says of the cells around it.
LEMMA LaidFacts ==
    ASSUME TypeInv, Layout, NEW p \in Cells, IsHeader(p)
    PROVE  /\ Laid(p, MsgAt(p))
           /\ p \in Nat /\ Aligned(p) /\ p < tx_pos
           /\ Stride(MsgAt(p)) \in Nat /\ Stride(MsgAt(p)) >= 8
           /\ p + Stride(MsgAt(p)) <= tx_pos
  <1>1. Laid(p, MsgAt(p)) /\ p \in Nat /\ Aligned(p) /\ p < tx_pos /\ tx_pos \in Nat
    BY DEF Layout, Cells, TypeInv, TypeOK
  <1>2. Stride(MsgAt(p)) \in Nat /\ Stride(MsgAt(p)) >= 8
    BY <1>1, StrideOf DEF Laid
  <1>3. Boundary(p + Stride(MsgAt(p)))
    BY <1>1 DEF Laid
  <1>4. p + Stride(MsgAt(p)) <= tx_pos
    BY <1>1, <1>2, <1>3 DEF Boundary, Cells
  <1> QED
    BY <1>1, <1>2, <1>4

\* A message more leaves every boundary a boundary, with the same message to
\* come.
LEMMA BoundariesKept ==
    ASSUME TypeInv, Layout, NEW pos, NEW m, NEW pad, Extended(pos, m, pad), NEW p, Boundary(p)
    PROVE  Boundary(p)' /\ NumberAt(p)' = NumberAt(p)
  <1>1. /\ tx_pos \in Nat /\ Aligned(tx_pos) /\ pos \in Nat /\ tx_pos <= pos
        /\ Stride(m) \in Nat /\ Stride(m) >= 8
    BY StrideOf DEF Extended, Aligned, TypeInv, TypeOK
  <1>2. tx_pos' \in Nat /\ pos < tx_pos' /\ tx_pos < tx_pos'
    BY <1>1 DEF Extended
  <1>3. ASSUME NEW x \in Cells
        PROVE  /\ x \in Cells' /\ (IsHeader(x)' <=> IsHeader(x)) /\ MsgAt(x)' = MsgAt(x)
               /\ x # tx_pos'
    <2>1. slot_data'[RemoteBase + x] = slot_data[RemoteBase + x]
      BY <1>3 DEF Extended
    <2>2. x \in Nat /\ x < tx_pos /\ Aligned(x)
      BY <1>1, <1>3 DEF Cells
    <2> DEFINE t == tx_pos'
    <2>3. x \in 0 .. (t - 1) /\ x # t
      <3>1. t \in Nat /\ tx_pos < t /\ tx_pos \in Nat
        BY <1>1, <1>2
      <3> HIDE DEF t
      <3> QED BY <2>2, <3>1
    <2>4. x \in Cells'
      BY <2>2, <2>3, Zenon DEF Cells
    <2> QED BY <2>1, <2>3, <2>4 DEF IsHeader, MsgAt, RemoteBase
  <1>4. CASE p \in Cells /\ IsHeader(p)
    <2>1. Laid(p, MsgAt(p)) /\ p # tx_pos
      BY <1>4, LaidFacts DEF TypeInv, TypeOK
    <2>2. Boundary(p)' /\ MsgAt(p)' = MsgAt(p) /\ p # tx_pos'
      BY <1>3, <1>4 DEF Boundary
    <2>3. CASE MsgAt(p).type = "PADDING"
      <3>1. p + Stride(MsgAt(p)) \in Cells
        BY <2>1, <2>3 DEF Laid, Boundary
      <3>2. MsgAt(p + Stride(MsgAt(p)))' = MsgAt(p + Stride(MsgAt(p)))
        <4> DEFINE q == p + Stride(MsgAt(p))
        <4>1. ASSUME NEW x, x = q PROVE MsgAt(x)' = MsgAt(q)
          BY <1>3, <3>1, <4>1
        <4> HIDE DEF q
        <4>2. q' = q
          BY <2>2 DEF q
        <4> QED BY <4>1, <4>2 DEF q
      <3> QED
        BY <2>1, <2>2, <2>3, <3>2 DEF NumberAt
    <2>4. CASE MsgAt(p).type # "PADDING"
      BY <2>1, <2>2, <2>4 DEF NumberAt
    <2> QED BY <2>2, <2>3, <2>4
  <1>5. CASE p = tx_pos
    <2>1. p \in Cells' /\ pos \in Cells' /\ p # tx_pos'
      BY <1>1, <1>2, <1>5 DEF Cells, Extended
    <2>2. NumberAt(p) = Len(written) + 1
      BY <1>5 DEF NumberAt
    <2>3. ASSUME NEW x, x = pos PROVE IsHeader(x)' /\ MsgAt(x)' = m
      BY <2>3 DEF Extended, IsHeader, MsgAt, Cell, RemoteBase
    <2>4. CASE pos = tx_pos
      <3>1. IsHeader(p)' /\ MsgAt(p)' = m
        BY <1>5, <2>3, <2>4
      <3> QED
        BY <2>1, <2>2, <3>1 DEF Boundary, NumberAt, Extended
    <2>5. CASE pos # tx_pos
      <3>1. IsHeader(p)' /\ MsgAt(p)' = pad
        BY <1>5, <2>5 DEF Extended, IsHeader, MsgAt, Cell, RemoteBase
      <3>2. p + Stride(pad) = pos /\ pad.type = "PADDING"
        BY <1>5, <2>5 DEF Extended
      <3>3. MsgAt(p + Stride(MsgAt(p)))' = m
        BY <2>3, <3>1, <3>2
      <3> QED
        BY <2>1, <2>2, <3>1, <3>2, <3>3 DEF Boundary, NumberAt, Extended
    <2> QED BY <2>4, <2>5
  <1> QED
    BY <1>4, <1>5 DEF Boundary

\* The VideoCore's messages stay in order.
LEMMA LayoutKept ==
    ASSUME TypeInv, Layout, NEW pos, NEW m, NEW pad, Extended(pos, m, pad)
    PROVE  Layout'
  <1> SUFFICES ASSUME NEW p \in Cells', IsHeader(p)' PROVE Laid(p, MsgAt(p))'
    BY DEF Layout
  <1>1. /\ tx_pos \in Nat /\ Aligned(tx_pos) /\ pos \in Nat /\ tx_pos <= pos
        /\ Stride(m) \in Nat /\ Stride(m) >= 8
    BY StrideOf DEF Extended, Aligned, TypeInv, TypeOK
  <1>2. tx_pos' \in Nat /\ pos < tx_pos' /\ tx_pos < tx_pos' /\ tx_pos' = pos + Stride(m)
    BY <1>1 DEF Extended
  <1>3. ASSUME NEW x \in Cells
        PROVE  (IsHeader(x)' <=> IsHeader(x)) /\ MsgAt(x)' = MsgAt(x) /\ x # tx_pos'
    <2>1. slot_data'[RemoteBase + x] = slot_data[RemoteBase + x]
      BY <1>3 DEF Extended
    <2>2. x # tx_pos'
      BY <1>1, <1>2, <1>3 DEF Cells
    <2> QED BY <2>1, <2>2 DEF IsHeader, MsgAt, RemoteBase
  <1>4. /\ Len(written) \in Nat /\ Len(written') = Len(written) + 1
        /\ written'[Len(written) + 1] = m
        /\ \A k \in 1 .. Len(written) : written'[k] = written[k]
    <2>1. written \in Seq(Fitting) /\ written' = Append(written, m)
      BY DEF Extended, TypeInv
    <2> QED BY <2>1
  <1>5. p \in Nat /\ Aligned(p) /\ p < tx_pos'
    BY <1>2 DEF Cells
  <1>6. CASE p \in Cells
    <2> DEFINE n == MsgAt(p)
               q == p + Stride(n)
    <2>1. IsHeader(p) /\ MsgAt(p)' = n
      BY <1>3, <1>6
    <2>2. Laid(p, n) /\ q <= tx_pos /\ Stride(n) \in Nat /\ Boundary(q)
      BY <1>6, <2>1, LaidFacts DEF Laid
    <2> HIDE DEF n, q
    <2>3. ASSUME NEW y, y = q PROVE Boundary(y)' /\ NumberAt(y)' = NumberAt(q)
      BY <2>2, <2>3, BoundariesKept
    <2>4. ASSUME NEW x \in Cells', p < x, x < q PROVE ~IsHeader(x)'
      <3>1. x \in Cells
        BY <1>1, <1>5, <2>2, <2>4 DEF Cells, q
      <3>2. ~IsHeader(x)
        BY <2>2, <2>4, <3>1 DEF Laid, q
      <3> QED BY <1>3, <3>1, <3>2
    <2>5. ASSUME n.type = "PADDING", NEW y, y = q PROVE y # tx_pos' /\ MsgAt(y)'.type = "MESSAGE"
      <3>1. q \in Cells /\ MsgAt(q).type = "MESSAGE"
        BY <2>2, <2>5 DEF Laid, Boundary, q
      <3> QED BY <1>3, <2>5, <3>1
    <2>6. ASSUME n.type = "MESSAGE"
          PROVE  /\ n.number \in 1 .. Len(written') /\ written'[n.number] = n
                 /\ NumberAt(q) = n.number + 1
      BY <1>4, <2>2, <2>6 DEF Laid, q
    <2>7. ASSUME NEW z, z = n, NEW y, y = q PROVE Laid(p, z)'
      <3>1. z.size \in Nat /\ SlotOffset(p) + Stride(z) <= SlotSize /\ p + Stride(z) = y
            /\ (z.type = "PADDING" \/ z.type = "MESSAGE")
        BY <2>2, <2>7 DEF Laid, q
      <3> QED
        BY <2>3, <2>4, <2>5, <2>6, <2>7, <3>1 DEF Laid
    <2> QED
      BY <2>1, <2>7
  <1>7. CASE p = pos
    <2>1. MsgAt(p)' = m
      BY <1>7 DEF Extended, MsgAt, Cell, RemoteBase
    <2>2. ASSUME NEW y, y = p + Stride(m) PROVE Boundary(y)' /\ NumberAt(y)' = m.number + 1
      BY <1>2, <1>4, <1>7, <2>2 DEF Boundary, NumberAt, Extended
    <2>3. \A x \in Cells' : p < x => ~IsHeader(x)'
      BY <1>7 DEF Extended
    <2>4. /\ m.size \in Nat /\ m.type = "MESSAGE" /\ SlotOffset(p) + Stride(m) <= SlotSize
          /\ m.number \in 1 .. Len(written') /\ written'[m.number] = m
      BY <1>4, <1>7 DEF Extended
    <2>5. Laid(p, m)'
      BY <2>2, <2>3, <2>4 DEF Laid
    <2> QED BY <2>1, <2>5
  <1>8. CASE p = tx_pos /\ pos # tx_pos
    <2>1. MsgAt(p)' = pad
      BY <1>8 DEF Extended, MsgAt, Cell, RemoteBase
    <2>2. pad.type = "PADDING" /\ pad.size \in Nat /\ p + Stride(pad) = pos
          /\ SlotOffset(p) + Stride(pad) <= SlotSize
      BY <1>8 DEF Extended
    <2>3. ASSUME NEW y, y = pos PROVE Boundary(y)' /\ y # tx_pos' /\ MsgAt(y)'.type = "MESSAGE"
      <3>1. y \in Cells' /\ y # tx_pos'
        BY <1>1, <1>2, <2>3 DEF Cells, Extended
      <3>2. IsHeader(y)' /\ MsgAt(y)' = m
        BY <2>3 DEF Extended, IsHeader, MsgAt, Cell, RemoteBase
      <3>3. m.type = "MESSAGE"
        BY DEF Extended
      <3> QED BY <3>1, <3>2, <3>3 DEF Boundary
    <2>4. \A x \in Cells' : p < x /\ x < pos => ~IsHeader(x)'
      BY <1>8 DEF Extended
    <2>5. Laid(p, pad)'
      BY <2>2, <2>3, <2>4 DEF Laid
    <2> QED BY <2>1, <2>5
  <1>9. p \in Cells \/ p = pos \/ (p = tx_pos /\ pos # tx_pos)
    <2> SUFFICES ASSUME p \notin Cells, p # pos, ~(p = tx_pos /\ pos # tx_pos) PROVE FALSE
      OBVIOUS
    <2>1. p >= tx_pos /\ p # tx_pos
      BY <1>1, <1>5 DEF Cells
    <2>2. CASE pos < p
      BY <2>2 DEF Extended
    <2>3. CASE p < pos
      <3>1. pos # tx_pos /\ tx_pos < p
        BY <1>1, <1>5, <2>1, <2>3
      <3> QED BY <2>3, <3>1 DEF Extended
    <2> QED BY <1>1, <1>5, <2>1, <2>2, <2>3
  <1> QED
    BY <1>6, <1>7, <1>8, <1>9

-----------------------------------------------------------------------------
(* What the VideoCore stores. *)

\* The cells of the VideoCore's slots after a message of s bytes at pos.
LEMMA StoredCells ==
    ASSUME NEW mem, NEW pos, Aligned(pos), NEW m, NEW s \in Nat, s >= 8, pos + s <= RemoteSpace,
           NEW x, Aligned(x), x < RemoteSpace
    PROVE  store_message(mem, AddressInQueue(remote_slot_queue, pos), m, s)[RemoteBase + x] =
               IF x = pos THEN Cell("header", m)
               ELSE IF pos <= x /\ x < pos + s THEN Cell("payload", m)
               ELSE mem[RemoteBase + x]
  <1>1. pos \in Nat /\ x \in Nat /\ RemoteSpace \in Nat /\ RemoteBase \in Nat
    BY SpaceIsNat DEF Aligned
  <1>2. pos < RemoteSpace
    BY <1>1
  <1>3. AddressInQueue(remote_slot_queue, pos) = RemoteBase + pos /\ RemoteBase + x \in Addresses
    BY <1>1, <1>2, RemoteAddress
  <1>4. /\ RemoteBase + x = RemoteBase + pos <=> x = pos
        /\ RemoteBase + x \in Extent(RemoteBase + pos, s) <=> pos <= x /\ x < pos + s
    BY <1>1, <1>3 DEF Extent
  <1> QED
    BY <1>3, <1>4 DEF store_message

\* What a store at pos, behind the published messages, makes of a memory.
Stored(mem, pos, m) ==
    /\ pos + Stride(m) <= RemoteSpace
    /\ tx_pos' = pos + Stride(m)
    /\ \A p \in Cells : slot_data'[RemoteBase + p] = mem[RemoteBase + p]
    /\ slot_data'[RemoteBase + pos] = Cell("header", m)
    /\ \A x \in Cells' : x # pos =>
          IF pos < x THEN ~IsHeader(x)'
          ELSE slot_data'[RemoteBase + x] = mem[RemoteBase + x]

LEMMA StoresExtend ==
    ASSUME TypeInv, NEW mem, NEW pos, Aligned(pos), tx_pos <= pos,
           NEW m, m.size \in Nat, VcStores(mem, pos, m)
    PROVE  Stored(mem, pos, m)
  <1>1. /\ tx_pos \in Nat /\ pos \in Nat /\ RemoteSpace \in Nat
        /\ Stride(m) \in Nat /\ Stride(m) >= 8
        /\ pos + Stride(m) <= RemoteSpace
        /\ tx_pos' = pos + Stride(m)
        /\ slot_data' = store_message(mem, AddressInQueue(remote_slot_queue, pos), m, Stride(m))
    BY SpaceIsNat, StrideOf DEF Aligned, TypeInv, TypeOK, VcStores
  <1>2. ASSUME NEW x, Aligned(x), x < tx_pos'
        PROVE  slot_data'[RemoteBase + x] =
                 IF x = pos THEN Cell("header", m)
                 ELSE IF pos <= x /\ x < pos + Stride(m) THEN Cell("payload", m)
                 ELSE mem[RemoteBase + x]
    <2>1. x < RemoteSpace
      BY <1>1, <1>2 DEF Aligned
    <2> QED BY <1>1, <1>2, <2>1, StoredCells
  <1>3. ASSUME NEW p \in Cells PROVE slot_data'[RemoteBase + p] = mem[RemoteBase + p]
    <2>1. Aligned(p) /\ p \in Nat /\ p < tx_pos
      BY <1>1 DEF Cells
    <2>2. p < tx_pos' /\ p < pos
      BY <1>1, <2>1
    <2> QED BY <1>1, <1>2, <2>1, <2>2
  <1>4. slot_data'[RemoteBase + pos] = Cell("header", m)
    <2>1. pos < tx_pos'
      BY <1>1
    <2> QED BY <1>2, <2>1
  <1>5. ASSUME NEW x \in Cells', x # pos
        PROVE  IF pos < x THEN ~IsHeader(x)'
               ELSE slot_data'[RemoteBase + x] = mem[RemoteBase + x]
    <2>1. x \in 0 .. (tx_pos' - 1) /\ Aligned(x)
      BY <1>5, Zenon DEF Cells
    <2>2. x \in Nat /\ x < tx_pos'
      BY <1>1, <2>1
    <2>3. CASE pos < x
      <3>1. slot_data'[RemoteBase + x] = Cell("payload", m)
        BY <1>1, <1>2, <1>5, <2>1, <2>2, <2>3
      <3> QED BY <2>3, <3>1 DEF IsHeader, Cell, RemoteBase
    <2>4. CASE ~(pos < x)
      BY <1>1, <1>2, <1>5, <2>1, <2>2, <2>4
    <2> QED BY <2>3, <2>4
  <1> QED
    BY <1>1, <1>3, <1>4, <1>5 DEF Stored

\* A step of the VideoCore adds a message.
LEMMA VcExtends ==
    ASSUME TypeInv, NEW n \in DataSizes, VcWrites(NewMessage(n)) \/ VcPadsAndWrites(NewMessage(n))
    PROVE  /\ \E pos, m, pad : Extended(pos, m, pad)
           /\ UNCHANGED <<rx_pos, rx_data, panicked, misread, handled, polling, poll_tx_pos>>
           /\ written' = Append(written, NewMessage(n))
  <1> DEFINE m == NewMessage(n)
             pad == PaddingMsg(SpaceLeft - HdrSize)
  <1>1. /\ m \in Fitting /\ m.size \in Nat /\ m.type = "MESSAGE" /\ m.number = Len(written) + 1
        /\ Stride(m) \in Nat /\ Stride(m) >= 8 /\ Stride(m) <= SlotSize
    <2>1. m \in Fitting
      BY NewMessageFits DEF TypeInv
    <2> QED BY <2>1, FittingStride DEF NewMessage
  <1>2. /\ Aligned(tx_pos) /\ tx_pos \in Nat /\ SlotSize \in Nat
        /\ SpaceLeft \in Nat /\ SpaceLeft >= 8 /\ SlotOffset(tx_pos) + SpaceLeft = SlotSize
        /\ Aligned(tx_pos + SpaceLeft) /\ pad \in Fitting /\ pad.size \in Nat
        /\ pad.type = "PADDING" /\ Stride(pad) = SpaceLeft
    BY SpaceLeftOK, FittingStride, SlotsAssumption DEF TypeInv, PaddingMsg
  <1>3. SlotOffset(tx_pos) \in Nat
    BY <1>2, PosSplit
  <1> HIDE DEF m, pad
  <1>4. CASE VcWrites(m)
    <2>1. VcStores(slot_data, tx_pos, m) /\ Stride(m) <= SpaceLeft /\ written' = Append(written, m)
      BY <1>4 DEF VcWrites, VcStores
    <2>2. /\ tx_pos' = tx_pos + Stride(m)
          /\ \A p \in Cells : slot_data'[RemoteBase + p] = slot_data[RemoteBase + p]
          /\ slot_data'[RemoteBase + tx_pos] = Cell("header", m)
          /\ \A x \in Cells' : x # tx_pos /\ tx_pos < x => ~IsHeader(x)'
      <3>1. Aligned(tx_pos) /\ tx_pos <= tx_pos /\ m.size \in Nat /\ VcStores(slot_data, tx_pos, m)
        BY <1>1, <1>2, <2>1
      <3>2. Stored(slot_data, tx_pos, m)
        BY <3>1, StoresExtend, Zenon
      <3> QED BY <3>2 DEF Stored
    <2>3. ASSUME NEW pos, pos = tx_pos PROVE Extended(pos, m, pad)
      <3>1. \A x \in Cells' : pos < x => ~IsHeader(x)'
        <4> SUFFICES ASSUME NEW x \in Cells', pos < x PROVE ~IsHeader(x)'
          OBVIOUS
        <4>1. x # tx_pos
          BY <1>2, <2>3
        <4> QED BY <2>2, <2>3, <4>1
      <3>2. SlotOffset(pos) + Stride(m) <= SlotSize
        BY <1>1, <1>2, <1>3, <2>1, <2>3
      <3> QED BY <1>1, <1>2, <2>1, <2>2, <2>3, <3>1, <3>2 DEF Extended
    <2> QED
      BY <2>1, <2>3 DEF VcStores, rxVars, m
  <1>5. CASE VcPadsAndWrites(m)
    <2> DEFINE pos == tx_pos + SpaceLeft
               mem == store_message(slot_data, AddressInQueue(remote_slot_queue, tx_pos), pad, SpaceLeft)
    <2>1. VcStores(mem, pos, m) /\ written' = Append(written, m)
      BY <1>5 DEF VcPadsAndWrites, VcStores, pad
    <2>2. Aligned(pos) /\ pos \in Nat /\ tx_pos < pos /\ SlotOffset(pos) = 0
      BY <1>2, NextSlot
    <2> HIDE DEF mem
    <2>3. ASSUME NEW z, z = pos PROVE Extended(z, m, pad)
      <3>1. Aligned(z) /\ z \in Nat /\ tx_pos <= z /\ tx_pos < z /\ SlotOffset(z) = 0
            /\ VcStores(mem, z, m) /\ z = tx_pos + SpaceLeft
        BY <1>2, <2>1, <2>2, <2>3
      <3> HIDE DEF pos
      <3>2. /\ tx_pos' = z + Stride(m) /\ z + Stride(m) <= RemoteSpace
            /\ \A p \in Cells : slot_data'[RemoteBase + p] = mem[RemoteBase + p]
            /\ slot_data'[RemoteBase + z] = Cell("header", m)
            /\ \A x \in Cells' : x # z =>
                  IF z < x THEN ~IsHeader(x)'
                  ELSE slot_data'[RemoteBase + x] = mem[RemoteBase + x]
        <4>1. Stored(mem, z, m)
          BY <1>1, <3>1, StoresExtend, Zenon
        <4> QED BY <4>1 DEF Stored
      <3>3. ASSUME NEW x, Aligned(x), x < z
            PROVE  mem[RemoteBase + x] =
                     IF x = tx_pos THEN Cell("header", pad)
                     ELSE IF tx_pos <= x /\ x < tx_pos + SpaceLeft THEN Cell("payload", pad)
                     ELSE slot_data[RemoteBase + x]
        <4>1. RemoteSpace \in Nat
          BY SpaceIsNat
        <4>2. x < RemoteSpace /\ tx_pos + SpaceLeft <= RemoteSpace
          BY <1>1, <1>2, <3>1, <3>2, <3>3, <4>1 DEF Aligned
        <4>3. Aligned(tx_pos) /\ SpaceLeft \in Nat /\ SpaceLeft >= 8
          BY <1>2
        <4> DEFINE old == slot_data
                   at == tx_pos
                   s == SpaceLeft
        <4>4. Aligned(at) /\ s \in Nat /\ s >= 8 /\ at + s <= RemoteSpace
          BY <4>2, <4>3
        <4>5. mem = store_message(old, AddressInQueue(remote_slot_queue, at), pad, s)
          BY DEF mem
        <4> HIDE DEF old, at, s
        <4>6. store_message(old, AddressInQueue(remote_slot_queue, at), pad, s)[RemoteBase + x] =
                IF x = at THEN Cell("header", pad)
                ELSE IF at <= x /\ x < at + s THEN Cell("payload", pad)
                ELSE old[RemoteBase + x]
          BY <3>3, <4>2, <4>4, StoredCells
        <4> QED BY <4>5, <4>6 DEF old, at, s
      <3>4. \A p \in Cells : slot_data'[RemoteBase + p] = slot_data[RemoteBase + p]
        <4> SUFFICES ASSUME NEW p \in Cells PROVE slot_data'[RemoteBase + p] = slot_data[RemoteBase + p]
          OBVIOUS
        <4>1. Aligned(p) /\ p \in Nat /\ p < tx_pos
          BY <1>2 DEF Cells
        <4>2. p < z /\ p # tx_pos /\ ~(tx_pos <= p)
          BY <1>2, <3>1, <4>1
        <4> QED BY <3>2, <3>3, <4>1, <4>2
      <3>5. \A x \in Cells' : z < x => ~IsHeader(x)'
        <4> SUFFICES ASSUME NEW x \in Cells', z < x PROVE ~IsHeader(x)'
          OBVIOUS
        <4>1. x # z
          BY <3>1
        <4> QED BY <3>2, <4>1
      <3>6. slot_data'[RemoteBase + tx_pos] = Cell("header", pad)
        <4>1. tx_pos \in 0 .. (tx_pos' - 1)
          BY <1>1, <1>2, <3>1, <3>2
        <4>2. ASSUME NEW y, y = tx_pos PROVE y \in Cells'
          BY <1>2, <4>1, <4>2, Zenon DEF Cells
        <4>3. tx_pos # z /\ ~(z < tx_pos)
          BY <1>2, <3>1
        <4>4. ASSUME NEW y, y = tx_pos PROVE slot_data'[RemoteBase + y] = mem[RemoteBase + y]
          BY <3>2, <4>2, <4>3, <4>4
        <4> QED BY <1>2, <3>1, <3>3, <4>4
      <3>7. \A x \in Cells' : tx_pos < x /\ x < z => ~IsHeader(x)'
        <4> SUFFICES ASSUME NEW x \in Cells', tx_pos < x, x < z PROVE ~IsHeader(x)'
          OBVIOUS
        <4>1. x \in 0 .. (tx_pos' - 1) /\ Aligned(x)
          BY Zenon DEF Cells
        <4>2. x \in Nat
          BY <4>1
        <4>3. x # tx_pos /\ tx_pos <= x /\ x < tx_pos + SpaceLeft /\ x # z /\ ~(z < x)
          BY <1>2, <3>1, <4>2
        <4>4. slot_data'[RemoteBase + x] = Cell("payload", pad)
          BY <3>2, <3>3, <4>1, <4>3
        <4> QED BY <4>4 DEF IsHeader, Cell, RemoteBase
      <3>8. SlotOffset(z) + Stride(m) <= SlotSize
        BY <1>1, <3>1
      <3>9. tx_pos + Stride(pad) = z /\ SlotOffset(tx_pos) + Stride(pad) <= SlotSize
        BY <1>2, <3>1
      <3> QED
        BY <1>1, <1>2, <2>1, <3>1, <3>2, <3>4, <3>5, <3>6, <3>7, <3>8, <3>9 DEF Extended
    <2> QED
      BY <2>1, <2>3 DEF VcStores, rxVars, m
  <1> QED
    BY <1>4, <1>5 DEF m

-----------------------------------------------------------------------------
(* slot_handler on its way. *)

LEMMA ReceiveInit == Init => ReceiveInv
  <1> SUFFICES ASSUME Init PROVE ReceiveInv
    OBVIOUS
  <1>1. TypeInv
    BY TypeInit
  <1> USE DEF Init
  <1>2. Layout
    BY DEF Layout, Cells
  <1>3. OnTrack
    BY DEF OnTrack, Boundary, NumberAt, PositionsAgree
  <1> QED
    BY <1>1, <1>2, <1>3 DEF ReceiveInv

\* The cells and the messages in them are the VideoCore's.
LEMMA SameMessages ==
    ASSUME UNCHANGED <<slot_data, tx_pos, written>>
    PROVE  /\ Layout <=> Layout'
           /\ \A p : (Boundary(p)' <=> Boundary(p)) /\ NumberAt(p)' = NumberAt(p)
  <1>1. Cells' = Cells
    BY DEF Cells
  <1>2. \A p : (IsHeader(p)' <=> IsHeader(p)) /\ MsgAt(p)' = MsgAt(p)
    BY DEF IsHeader, MsgAt, RemoteBase
  <1>3. ASSUME NEW p PROVE Boundary(p)' <=> Boundary(p)
    BY <1>1, <1>2 DEF Boundary
  <1>4. ASSUME NEW p PROVE NumberAt(p)' = NumberAt(p)
    BY DEF NumberAt, MsgAt, RemoteBase
  <1>5. ASSUME NEW p, NEW m PROVE Laid(p, m)' <=> Laid(p, m)
    BY DEF Laid, Cells, Boundary, IsHeader, NumberAt, MsgAt, RemoteBase
  <1>6. Layout <=> Layout'
    BY <1>1, <1>2, <1>5 DEF Layout
  <1> QED
    BY <1>3, <1>4, <1>6

\* A step of the VideoCore keeps slot_handler on its way.
LEMMA VcOnTrack ==
    ASSUME ReceiveInv, NEW n \in DataSizes, VcWrites(NewMessage(n)) \/ VcPadsAndWrites(NewMessage(n))
    PROVE  ReceiveInv'
  <1>1. PICK pos, m, pad : Extended(pos, m, pad)
    BY VcExtends DEF ReceiveInv
  <1>2. /\ UNCHANGED <<rx_pos, rx_data, panicked, misread, handled, polling, poll_tx_pos>>
        /\ written' = Append(written, NewMessage(n))
    BY VcExtends DEF ReceiveInv
  <1>3. TypeInv'
    BY VcTypes DEF ReceiveInv
  <1>4. Layout'
    BY <1>1, LayoutKept DEF ReceiveInv
  <1>5. ASSUME OnTrack PROVE OnTrack'
    <2>1. ASSUME NEW p, Boundary(p) PROVE Boundary(p)' /\ NumberAt(p)' = NumberAt(p)
      BY <1>1, <2>1, BoundariesKept DEF ReceiveInv
    <2>2. Boundary(rx_pos)' /\ NumberAt(rx_pos)' = NumberAt(rx_pos)
      <3>1. ASSUME NEW p, p = rx_pos PROVE Boundary(p)' /\ NumberAt(p)' = NumberAt(rx_pos)
        BY <1>5, <2>1, <3>1 DEF OnTrack
      <3> QED BY <1>2, <3>1
    <2>3. Boundary(poll_tx_pos)'
      <3>1. ASSUME NEW p, p = poll_tx_pos PROVE Boundary(p)'
        BY <1>5, <2>1, <3>1 DEF OnTrack
      <3> QED BY <1>2, <3>1
    <2>4. PositionsAgree'
      BY <1>2, <1>5 DEF OnTrack, PositionsAgree, AtRxPos
    <2>5. /\ Len(handled) <= Len(written')
          /\ \A i \in 1 .. Len(handled) : handled[i] = written'[i]
      <3>1. written \in Seq(Fitting) /\ handled \in Seq(Readable)
        BY DEF ReceiveInv, TypeInv
      <3>2. Len(handled) <= Len(written) /\ \A i \in 1 .. Len(handled) : handled[i] = written[i]
        BY <1>5 DEF OnTrack
      <3> QED BY <1>2, <3>1, <3>2
    <2> QED
      BY <1>2, <1>5, <2>2, <2>3, <2>4, <2>5 DEF OnTrack
  <1> QED
    BY <1>2, <1>3, <1>4, <1>5 DEF ReceiveInv

\* On its way, an iteration finds a message at rx_pos.
LEMMA FindsMessage ==
    ASSUME ReceiveInv, Iterate, ~misread'
    PROVE  /\ ~misread /\ OnTrack /\ AtRxPos(ReadPosition)
           /\ rx_pos \in Cells /\ IsHeader(rx_pos) /\ rx_pos < poll_tx_pos /\ poll_tx_pos <= tx_pos
           /\ Address(ReadPosition) = RemoteBase + rx_pos
           /\ ReadPosition.index # Unset
           /\ slot_data[Address(ReadPosition)].part = "header"
  <1>1. ~misread /\ AtRxPos(ReadPosition)
    BY Zenon DEF Iterate
  <1>2. OnTrack
    BY <1>1 DEF ReceiveInv
  <1>3. /\ rx_pos \in Nat /\ poll_tx_pos \in Nat /\ tx_pos \in Nat /\ RemoteSpace \in Nat
        /\ poll_tx_pos <= tx_pos /\ tx_pos <= RemoteSpace /\ rx_pos # poll_tx_pos
        /\ rx_pos <= poll_tx_pos
    BY <1>2, SpaceIsNat DEF ReceiveInv, TypeInv, TypeOK, Iterate, OnTrack
  <1>4. rx_pos < poll_tx_pos /\ rx_pos # tx_pos /\ rx_pos < RemoteSpace
    BY <1>3
  <1>5. rx_pos \in Cells /\ IsHeader(rx_pos)
    BY <1>2, <1>4 DEF OnTrack, Boundary
  <1>6. Address(ReadPosition) = RemoteBase + rx_pos
    BY <1>1, <1>3, <1>4, RemoteAddress DEF AtRxPos
  <1>7. ReadPosition.index # Unset
    <2> SUFFICES ASSUME ReadPosition.index = 0 PROVE FALSE
      BY DEF Unset
    <2>1. ReadPosition.offset \in Nat
      BY DEF ReadPosition, SlotStart, SlotPosition, ReceiveInv, TypeInv, Aligned
    <2>2. /\ SlotOffset(ReadPosition.offset) \in Nat /\ SlotOffset(ReadPosition.offset) < SlotSize
          /\ SlotSize \in Nat
      BY <2>1, PosSplit
    <2>3. Address(ReadPosition) = 0 * SlotSize + SlotOffset(ReadPosition.offset)
      BY DEF Address
    <2> DEFINE o == SlotOffset(ReadPosition.offset)
    <2>4. Address(ReadPosition) = 0 * SlotSize + o /\ o \in Nat /\ o < SlotSize
      BY <2>2, <2>3
    <2> HIDE DEF o
    <2> QED BY <1>3, <1>6, <2>2, <2>4, SpaceIsNat
  <1>8. slot_data[Address(ReadPosition)].part = "header"
    BY <1>5, <1>6 DEF IsHeader
  <1> QED
    BY <1>1, <1>2, <1>3, <1>4, <1>5, <1>6, <1>7, <1>8

\* Within a slot the address of a position moves with it.
LEMMA AddressMoves ==
    ASSUME NEW p, p.index \in Nat, p.offset \in Nat, NEW n \in Nat, n < RemoteSpace,
           Address(p) = AddressInQueue(remote_slot_queue, n),
           NEW d \in Nat, SlotOffset(n) + d < SlotSize
    PROVE  Address(SlotPosition(p.index, p.offset + d)) = AddressInQueue(remote_slot_queue, n + d)
  <1> DEFINE first == SlotStart(remote_slot_queue, n)
             o == SlotOffset(p.offset)
             r == SlotOffset(n)
  <1>1. /\ SlotStart(remote_slot_queue, n + d) = first /\ SlotOffset(n + d) = r + d
    BY WithinSlot DEF SlotStart, slot_queue_index_from_pos
  <1>2. SlotSize \in Nat /\ SlotSize >= 8 /\ o \in Nat /\ o < SlotSize /\ r \in Nat /\ r < SlotSize
    BY PosSplit
  <1>3. /\ Address(p) \in Nat /\ SlotSize * p.index \in Nat
        /\ Address(p) = SlotSize * p.index + o
    <2>1. Address(p) = p.index * SlotSize + o
      BY DEF Address
    <2> HIDE DEF o
    <2> QED BY <1>2, <2>1
  <1>4. o = r
    <2>1. SlotOffset(Address(p)) = o
      <3> DEFINE a == Address(p)
                 q == p.index
      <3>1. a \in Nat /\ q \in Nat /\ o \in Nat /\ o < SlotSize /\ a = SlotSize * q + o
        BY <1>2, <1>3
      <3> HIDE DEF a, q, o
      <3>2. SlotOffset(a) = o
        BY <3>1, PosUnique, Zenon
      <3> QED BY <3>2 DEF a
    <2>2. SlotOffset(Address(p)) = r
      <3>1. Address(p) = RemoteBase + n
        BY RemoteAddress
      <3> DEFINE q == n \div SlotSize
                 f == remote_slot_first
      <3>2. n = SlotSize * q + r /\ q \in Nat /\ f \in Nat /\ RemoteBase = f * SlotSize
        BY PosSplit, RemoteLayout DEF RemoteBase
      <3> HIDE DEF q, f, r
      <3>3. f * SlotSize + n = SlotSize * (f + q) + r
        <4>1. SlotSize * (f + q) = f * SlotSize + SlotSize * q /\ f * SlotSize \in Nat /\ SlotSize * q \in Nat
          BY <1>2, <3>2
        <4> QED BY <1>2, <3>2, <4>1
      <3> DEFINE a == Address(p)
      <3>4. a \in Nat /\ f + q \in Nat /\ r \in Nat /\ r < SlotSize /\ a = SlotSize * (f + q) + r
        BY <1>2, <1>3, <3>1, <3>2, <3>3
      <3> HIDE DEF a
      <3>5. SlotOffset(a) = r
        BY <3>4, PosUnique, Zenon
      <3> QED BY <3>5 DEF a
    <2> QED BY <2>1, <2>2
  <1>5. SlotOffset(p.offset + d) = o + d
    <2>1. SlotOffset(p.offset) + d < SlotSize
      BY <1>4
    <2> QED BY <2>1, WithinSlot
  <1>6. Address(SlotPosition(p.index, p.offset + d)) = p.index * SlotSize + (o + d)
    BY <1>5 DEF Address, SlotPosition
  <1>7. AddressInQueue(remote_slot_queue, n + d) = Address(first) + (r + d)
    BY <1>1 DEF AddressInQueue
  <1>8. AddressInQueue(remote_slot_queue, n) = Address(first) + r
    BY DEF AddressInQueue
  <1>9. Address(first) \in Int
    <2>1. n \div SlotSize \in Nat
      BY PosSplit
    <2>2. Address(first) = first.index * SlotSize + 0
      BY <1>2 DEF Address, SlotStart, SlotPosition, SlotOffset
    <2>3. first.index \in Nat
      <3>1. (n \div SlotSize) % MaxSlotsPerSide \in 0 .. (MaxSlotsPerSide - 1)
        BY <2>1, RemoteLayout, DivMod
      <3>2. \A i \in 0 .. (MaxSlotsPerSide - 1) : remote_slot_queue[i] \in Nat
        BY RemoteLayout DEF Unset
      <3> QED BY <3>1, <3>2 DEF SlotStart, SlotPosition, slot_queue_index_from_pos
    <2> HIDE DEF first
    <2> QED BY <1>2, <2>2, <2>3
  <1> HIDE DEF first, o, r
  <1>10. p.index * SlotSize = Address(first) /\ p.index * SlotSize \in Nat
    <2> DEFINE x == SlotSize * p.index
               y == Address(first)
    <2>1. x + o = y + r /\ x \in Nat /\ y \in Int
      BY <1>3, <1>8, <1>9
    <2>2. x = y
      <3> HIDE DEF x, y
      <3> QED BY <1>2, <1>4, <2>1
    <2>3. p.index * SlotSize = SlotSize * p.index
      BY <1>2
    <2> QED BY <2>1, <2>2, <2>3
  <1> QED
    BY <1>4, <1>6, <1>7, <1>10

\* On its way, slot_handler reads a message and stands before the next one.
LEMMA ReadOnTrack ==
    ASSUME ReceiveInv, ReadMessage, ~misread'
    PROVE  /\ OnTrack'
           /\ handled' = handled \/
                 (Len(handled) < Len(written) /\ handled' = Append(handled, written[Len(handled) + 1]))
  <1> DEFINE m == MsgAt(rx_pos)
             p == ReadPosition
             q == rx_pos + Stride(m)
  <1>1. /\ ~misread /\ OnTrack /\ AtRxPos(p)
        /\ rx_pos \in Cells /\ IsHeader(rx_pos) /\ rx_pos < poll_tx_pos /\ poll_tx_pos <= tx_pos
        /\ Address(p) = RemoteBase + rx_pos /\ p.index # Unset
    BY FindsMessage DEF ReadMessage
  <1>2. slot_data[Address(p)].of = m
    BY <1>1 DEF MsgAt
  <1>3. /\ rx_pos' = q /\ rx_data' = RxDataAfter(p, m) /\ handled' = Dispatched(m)
        /\ UNCHANGED <<panicked, slot_data, tx_pos, written, polling, poll_tx_pos>>
    BY <1>2 DEF ReadMessage, Handle, Iterate, Advance, vcVars
  <1>4. /\ Laid(rx_pos, m) /\ rx_pos \in Nat /\ Aligned(rx_pos)
        /\ Stride(m) \in Nat /\ Stride(m) >= 8 /\ q <= tx_pos /\ rx_pos < tx_pos
    BY <1>1, LaidFacts DEF ReceiveInv
  <1>5. /\ p.index \in Nat /\ p.offset \in Nat /\ poll_tx_pos \in Nat /\ tx_pos \in Nat
        /\ RemoteSpace \in Nat /\ rx_pos < RemoteSpace
    BY <1>1, <1>4, ReadPositionOK, RemoteLayout, SpaceIsNat DEF ReceiveInv, TypeInv, TypeOK, Aligned
  <1> HIDE DEF m, p
  <1>6. Boundary(q)
    BY <1>4 DEF Laid
  <1>7. q <= poll_tx_pos
    <2> SUFFICES ASSUME poll_tx_pos < q PROVE FALSE
      BY <1>4, <1>5
    <2>1. poll_tx_pos # tx_pos
      BY <1>4, <1>5
    <2>2. poll_tx_pos \in Cells /\ IsHeader(poll_tx_pos)
      BY <1>1, <2>1 DEF OnTrack, Boundary
    <2> QED
      BY <1>1, <1>4, <2>2 DEF Laid
  <1>8. PositionsAgree'
    <2> SUFFICES ASSUME rx_data' # NoPosition PROVE AtRxPos(rx_data)' /\ SlotOffset(rx_pos') # 0
      BY DEF PositionsAgree
    <2>1. SlotOffset(q) # 0 /\ rx_data' = SlotPosition(p.index, p.offset + Stride(m))
      BY <1>3 DEF RxDataAfter, Advance
    <2>2. SlotOffset(rx_pos) + Stride(m) < SlotSize
      <3>1. SlotOffset(rx_pos) + Stride(m) # SlotSize
        BY <1>4, <2>1, NextSlot
      <3>2. SlotOffset(rx_pos) \in Nat /\ SlotSize \in Nat
        BY <1>4, PosSplit
      <3>3. SlotOffset(rx_pos) + Stride(m) <= SlotSize
        BY <1>4 DEF Laid
      <3> QED BY <1>4, <3>1, <3>2, <3>3
    <2>3. Address(p) = AddressInQueue(remote_slot_queue, rx_pos)
      BY <1>1 DEF AtRxPos
    <2>4. Address(SlotPosition(p.index, p.offset + Stride(m))) = AddressInQueue(remote_slot_queue, q)
      <3> DEFINE n == rx_pos
                 d == Stride(m)
      <3>1. /\ n \in Nat /\ n < RemoteSpace /\ d \in Nat /\ SlotOffset(n) + d < SlotSize
            /\ Address(p) = AddressInQueue(remote_slot_queue, n)
        BY <1>4, <1>5, <2>2, <2>3
      <3> HIDE DEF n, d
      <3>2. Address(SlotPosition(p.index, p.offset + d)) = AddressInQueue(remote_slot_queue, n + d)
        BY <1>5, <3>1, AddressMoves
      <3> QED BY <3>2 DEF n, d
    <2>5. ASSUME NEW a, a = rx_data', NEW b, b = rx_pos'
          PROVE  Address(a) = AddressInQueue(remote_slot_queue, b) /\ SlotOffset(b) # 0
      BY <1>3, <2>1, <2>4, <2>5
    <2> QED
      BY <2>5 DEF AtRxPos
  <1>9. /\ \A x : (Boundary(x)' <=> Boundary(x)) /\ NumberAt(x)' = NumberAt(x)
    BY <1>3, SameMessages
  <1>10. Boundary(rx_pos)' /\ Boundary(poll_tx_pos)' /\ NumberAt(rx_pos)' = NumberAt(q)
    <2>1. ASSUME NEW x, x = q PROVE Boundary(x)' /\ NumberAt(x)' = NumberAt(q)
      BY <1>6, <1>9, <2>1
    <2>2. ASSUME NEW x, x = poll_tx_pos PROVE Boundary(x)'
      BY <1>1, <1>9, <2>2 DEF OnTrack
    <2>3. Boundary(rx_pos)' /\ NumberAt(rx_pos)' = NumberAt(q)
      BY <1>3, <2>1
    <2>4. Boundary(poll_tx_pos)'
      BY <1>3, <2>2
    <2> QED BY <2>3, <2>4
  <1>11. /\ Len(handled) \in Nat /\ Len(written) \in Nat
         /\ Len(handled) <= Len(written) /\ \A i \in 1 .. Len(handled) : handled[i] = written[i]
         /\ NumberAt(rx_pos) = Len(handled) + 1 /\ ~panicked
         /\ handled \in Seq(Readable) /\ rx_pos # tx_pos
    BY <1>1, <1>4, <1>5 DEF OnTrack, ReceiveInv, TypeInv
  <1>12. CASE m.type = "PADDING"
    <2>1. handled' = handled
      BY <1>3, <1>12 DEF Dispatched
    <2>2. q # tx_pos /\ MsgAt(q).type = "MESSAGE"
      BY <1>4, <1>12 DEF Laid
    <2>3. NumberAt(rx_pos) = MsgAt(q).number /\ NumberAt(q) = MsgAt(q).number
      BY <1>11, <1>12, <2>2 DEF NumberAt, m
    <2> QED
      BY <1>3, <1>7, <1>8, <1>10, <1>11, <2>1, <2>3 DEF OnTrack
  <1>13. CASE m.type # "PADDING"
    <2>1. handled' = Append(handled, m)
      BY <1>3, <1>13 DEF Dispatched
    <2>2. m.number \in 1 .. Len(written) /\ written[m.number] = m /\ NumberAt(q) = m.number + 1
      BY <1>4, <1>13 DEF Laid
    <2>3. NumberAt(rx_pos) = m.number
      BY <1>11, <1>13 DEF NumberAt, m
    <2>4. Len(handled) < Len(written) /\ m = written[Len(handled) + 1] /\ NumberAt(q) = Len(handled) + 2
      BY <1>11, <2>2, <2>3
    <2>5. /\ Len(handled') = Len(handled) + 1
          /\ \A i \in 1 .. Len(handled') : handled'[i] = written[i]
      BY <1>11, <2>1, <2>4
    <2>6. Len(handled') <= Len(written) /\ NumberAt(q) = Len(handled') + 1
      BY <1>11, <2>4, <2>5
    <2> QED
      BY <1>3, <1>7, <1>8, <1>10, <1>11, <2>1, <2>4, <2>5, <2>6 DEF OnTrack
  <1> QED
    BY <1>12, <1>13

\* What a step does to the messages the VideoCore wrote and to those the
\* services got, as long as slot_handler reads at rx_pos.
LEMMA ReceiveStep ==
    ASSUME ReceiveInv, [Next]_vars
    PROVE  /\ ReceiveInv'
           /\ \/ misread'
              \/ UNCHANGED <<written, handled, misread>>
              \/ /\ ~misread' /\ handled' = handled
                 /\ \E n \in DataSizes : written' = Append(written, NewMessage(n))
              \/ /\ ~misread' /\ written' = written /\ Len(handled) < Len(written)
                 /\ handled' = Append(handled, written[Len(handled) + 1])
  <1>1. TypeInv'
    BY TypeStep DEF ReceiveInv
  <1>2. CASE Iterate /\ misread'
    <2>1. UNCHANGED <<slot_data, tx_pos, written>>
      BY <1>2 DEF Iterate, vcVars
    <2>2. Layout'
      BY <2>1, SameMessages DEF ReceiveInv
    <2> QED BY <1>1, <1>2, <2>2 DEF ReceiveInv
  <1>3. CASE ReadMessage /\ ~misread'
    <2>1. UNCHANGED <<slot_data, tx_pos, written>> /\ misread' = misread
      BY <1>3, FindsMessage DEF ReadMessage, Iterate, vcVars, ReceiveInv, TypeInv, TypeOK
    <2>2. Layout'
      BY <2>1, SameMessages DEF ReceiveInv
    <2> QED BY <1>1, <1>3, <2>1, <2>2, ReadOnTrack DEF ReceiveInv
  <1>4. CASE (ReadGarbage \/ ReadUnset) /\ ~misread'
    BY <1>4, FindsMessage DEF ReadGarbage, ReadUnset
  <1>5. CASE BeginPoll
    <2>1. /\ UNCHANGED <<slot_data, tx_pos, written>> /\ poll_tx_pos' = tx_pos
          /\ UNCHANGED <<rx_pos, rx_data, panicked, misread, handled>>
      BY <1>5 DEF BeginPoll, rxVars, vcVars
    <2>2. Layout' /\ \A x : (Boundary(x)' <=> Boundary(x)) /\ NumberAt(x)' = NumberAt(x)
      BY <2>1, SameMessages DEF ReceiveInv
    <2>3. ASSUME OnTrack PROVE OnTrack'
      <3>1. ASSUME NEW x, x = rx_pos PROVE Boundary(x)' /\ NumberAt(x)' = Len(handled) + 1
        BY <2>2, <2>3, <3>1 DEF OnTrack
      <3>2. Boundary(rx_pos)' /\ NumberAt(rx_pos)' = Len(handled) + 1
        BY <2>1, <3>1
      <3>3. Boundary(poll_tx_pos)'
        BY <2>1 DEF Boundary
      <3>4. rx_pos <= tx_pos
        BY <2>3 DEF OnTrack, ReceiveInv, TypeInv, TypeOK
      <3>5. PositionsAgree'
        BY <2>1, <2>3 DEF OnTrack, PositionsAgree, AtRxPos
      <3> QED BY <2>1, <2>3, <3>2, <3>3, <3>4, <3>5 DEF OnTrack
    <2> QED BY <1>1, <2>1, <2>2, <2>3 DEF ReceiveInv
  <1>6. CASE EndPoll \/ UNCHANGED vars
    <2>1. UNCHANGED <<slot_data, tx_pos, written, poll_tx_pos, rx_pos, rx_data, panicked, misread, handled>>
      BY <1>6 DEF EndPoll, vars, rxVars, vcVars
    <2>2. Layout' /\ \A x : (Boundary(x)' <=> Boundary(x)) /\ NumberAt(x)' = NumberAt(x)
      BY <2>1, SameMessages DEF ReceiveInv
    <2>3. ASSUME OnTrack PROVE OnTrack'
      <3>1. ASSUME NEW x, x = rx_pos PROVE Boundary(x)' /\ NumberAt(x)' = Len(handled) + 1
        BY <2>2, <2>3, <3>1 DEF OnTrack
      <3>2. Boundary(rx_pos)' /\ NumberAt(rx_pos)' = Len(handled) + 1
        BY <2>1, <3>1
      <3>3. ASSUME NEW x, x = poll_tx_pos PROVE Boundary(x)'
        BY <2>2, <2>3, <3>3 DEF OnTrack
      <3>4. Boundary(poll_tx_pos)'
        BY <2>1, <3>3
      <3>5. PositionsAgree'
        BY <2>1, <2>3 DEF OnTrack, PositionsAgree, AtRxPos
      <3> QED BY <2>1, <2>3, <3>2, <3>4, <3>5 DEF OnTrack
    <2> QED BY <1>1, <2>1, <2>2, <2>3 DEF ReceiveInv
  <1>7. ASSUME NEW n \in DataSizes, VcWrites(NewMessage(n)) \/ VcPadsAndWrites(NewMessage(n))
        PROVE  /\ ReceiveInv' /\ UNCHANGED <<misread, handled>>
               /\ written' = Append(written, NewMessage(n))
    BY <1>7, VcOnTrack, VcExtends DEF ReceiveInv
  <1>8. ReadMessage \/ ReadGarbage \/ ReadUnset => Iterate
    BY DEF ReadMessage, ReadGarbage, ReadUnset
  <1> QED
    BY <1>2, <1>3, <1>4, <1>5, <1>6, <1>7, <1>8 DEF Next, SlotHandler

LEMMA ReceiveInvariant == Spec => []ReceiveInv
  <1>1. ReceiveInv /\ [Next]_vars => ReceiveInv'
    BY ReceiveStep
  <1> QED
    BY ReceiveInit, <1>1, PTL DEF Spec

\* As long as it reads at rx_pos, slot_handler never steps over the tx_pos it
\* saw, so that `while rx_pos != tx_pos` ends.
THEOREM NeverOvershootsHolds == Spec => []NeverOvershoots
  <1>1. ReceiveInv => NeverOvershoots
    BY DEF ReceiveInv, OnTrack, NeverOvershoots
  <1> QED
    BY <1>1, ReceiveInvariant, PTL

\* As long as it reads at rx_pos, rx_data and rx_pos of slot_handler name the
\* same byte between two messages.
THEOREM PositionsAgreeHolds == Spec => []PositionsAgree
  <1>1. ReceiveInv => PositionsAgree
    BY DEF ReceiveInv, OnTrack, PositionsAgree
  <1> QED
    BY <1>1, ReceiveInvariant, PTL

\* As long as it reads at rx_pos, no assertion of read_message or of the
\* dispatch of slot_handler fails.
THEOREM NoPanicHolds == Spec => []NoPanic
  <1>1. ReceiveInv => NoPanic
    BY DEF ReceiveInv, OnTrack, NoPanic
  <1> QED
    BY <1>1, ReceiveInvariant, PTL

\* slot_handler implements a stream of messages: as long as it reads at rx_pos
\* the services get the VideoCore's messages in order, each once.
THEOREM ImplementsStreamHolds == Spec => ImplementsStream
  <1>1. Init => Stream!Init
    BY DEF Init, Stream!Init
  <1>2. ReceiveInv /\ [Next]_vars
          => [Stream!Accept \/ Stream!Deliver \/ Stream!Corrupt]_<<written, handled, misread>>
    <2> SUFFICES ASSUME ReceiveInv, [Next]_vars
                 PROVE  [Stream!Accept \/ Stream!Deliver \/ Stream!Corrupt]_<<written, handled, misread>>
      OBVIOUS
    <2>1. ASSUME NEW n \in DataSizes, ~misread', handled' = handled,
                 written' = Append(written, NewMessage(n))
          PROVE  Stream!Accept
      <3>1. written \in Seq(Fitting) /\ NewMessage(n) \in Fitting
        BY NewMessageFits DEF ReceiveInv, TypeInv
      <3>2. Len(written') = Len(written) + 1 /\ SubSeq(written', 1, Len(written)) = written
        BY <2>1, <3>1
      <3> QED BY <2>1, <3>2 DEF Stream!Accept
    <2>2. CASE misread'
      BY <2>2 DEF Stream!Corrupt
    <2>3. CASE UNCHANGED <<written, handled, misread>>
      BY <2>3
    <2>4. ASSUME ~misread', written' = written, Len(handled) < Len(written),
                 handled' = Append(handled, written[Len(handled) + 1])
          PROVE  Stream!Deliver
      BY <2>4 DEF Stream!Deliver
    <2> QED
      BY <2>1, <2>2, <2>3, <2>4, ReceiveStep
  <1> QED
    BY <1>1, <1>2, ReceiveInvariant, PTL DEF Spec, ImplementsStream, Stream!Spec
================================================================================
