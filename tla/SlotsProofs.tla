------------------------------ MODULE SlotsProofs ------------------------------
(***************************************************************************)
(* The geometry of the slots and of the messages in them, for every layout *)
(* of the memory: what a position of a slot_queue is in memory, and what   *)
(* SlotAccessor::store_message changes there.                              *)
(***************************************************************************)
EXTENDS Slots, TLAPS

-----------------------------------------------------------------------------
(* Arithmetic of positions. *)

\* A position is at the start of a cell.
Aligned(n) == n \in Nat /\ n % HdrSize = 0

\* A slot has a whole number of cells.
LEMMA SlotCells ==
    \E k \in Nat : k >= 1 /\ SlotSize = 8 * k
  <1>1. SlotSize \in Nat /\ SlotSize # 0 /\ SlotSize % 8 = 0
    BY SlotsAssumption DEF HdrSize
  <1>2. SlotSize = 8 * (SlotSize \div 8) /\ SlotSize \div 8 \in Nat /\ SlotSize \div 8 >= 1
    BY <1>1
  <1> QED BY <1>2

\* The quotient and the remainder of a position.
LEMMA DivMod ==
    ASSUME NEW n \in Nat, NEW d \in Nat, d >= 1
    PROVE  /\ n = d * (n \div d) + (n % d)
           /\ n \div d \in Nat
           /\ n % d \in Nat /\ n % d < d
  OBVIOUS

\* The offset of an aligned position leaves room for a header, and the start
\* of the next slot is aligned.
LEMMA OffsetAligned ==
    ASSUME NEW n, Aligned(n)
    PROVE  /\ Aligned(SlotOffset(n))
           /\ SlotOffset(n) + 8 <= SlotSize
           /\ Aligned(n + (SlotSize - SlotOffset(n)))
  <1>1. PICK k \in Nat : k >= 1 /\ SlotSize = 8 * k
    BY SlotCells
  <1>2. n \in Nat /\ n = 8 * (n \div 8) /\ n \div 8 \in Nat
    BY DEF Aligned, HdrSize
  <1> DEFINE y == n \div 8
             q == n \div SlotSize
             r == n % SlotSize
             z == k * q
  <1>3. n = SlotSize * q + r /\ q \in Nat /\ r \in Nat /\ r < SlotSize
    <2>1. SlotSize \in Nat /\ SlotSize >= 1
      BY <1>1
    <2> QED BY <1>2, <2>1, DivMod, Zenon
  <1>4. z \in Nat /\ SlotSize * q = 8 * z
    BY <1>1, <1>3
  <1>5. y \in Nat /\ n = 8 * y
    BY <1>2
  <1> HIDE DEF y, q, r, z
  <1>6. r = 8 * (y - z)
    BY <1>3, <1>4, <1>5
  <1>7. r % 8 = 0 /\ r + 8 <= SlotSize
    BY <1>1, <1>3, <1>4, <1>5, <1>6
  <1>8. n + (SlotSize - r) = 8 * (z + k)
    BY <1>1, <1>3, <1>4
  <1>9. n + (SlotSize - r) \in Nat /\ (n + (SlotSize - r)) % 8 = 0
    BY <1>1, <1>4, <1>8
  <1> QED BY <1>3, <1>7, <1>9 DEF Aligned, HdrSize, SlotOffset, r

\* Aligned positions add up.
LEMMA AlignedSum ==
    ASSUME NEW a, NEW b, Aligned(a), Aligned(b)
    PROVE  Aligned(a + b)
  BY DEF Aligned, HdrSize

\* Every entry of slot_queue is a slot of the memory, and there is one.
LEMMA QueueNamesSlots ==
    /\ MaxSlotsPerSide \in Nat /\ MaxSlotsPerSide >= 1
    /\ TotalSlots \in Nat
    /\ \A i \in 0 .. (MaxSlotsPerSide - 1) : slot_queue[i] \in 0 .. (TotalSlots - 1)
  <1> USE SlotZeroAssumption DEF slot_queue_available, local_slot_last, local_slot_first,
          num_slots, first_data_slot
  <1>1. MaxSlotsPerSide \in Nat /\ MaxSlotsPerSide >= 1 /\ TotalSlots \in Nat
    OBVIOUS
  <1>2. ASSUME NEW i \in 0 .. (MaxSlotsPerSide - 1)
        PROVE  slot_queue[i] \in 0 .. (TotalSlots - 1)
    BY DEF slot_queue, Unset
  <1> QED BY <1>1, <1>2

\* The cell of an aligned position is in the memory: masking the index keeps
\* even a position behind the last slot inside.
LEMMA QueueInMemory ==
    ASSUME NEW n, Aligned(n)
    PROVE  AddressInQueue(slot_queue, n) \in Addresses
  <1>1. PICK k \in Nat : k >= 1 /\ SlotSize = 8 * k
    BY SlotCells
  <1>2. n \in Nat
    BY DEF Aligned
  <1> DEFINE i == (n \div SlotSize) % MaxSlotsPerSide
             x == slot_queue[i]
             r == SlotOffset(n)
  <1>3. i \in 0 .. (MaxSlotsPerSide - 1)
    <2>1. n \div SlotSize \in Nat
      BY <1>1, <1>2, DivMod
    <2> QED BY <2>1, QueueNamesSlots, DivMod
  <1>4. x \in Nat /\ x <= TotalSlots - 1 /\ TotalSlots \in Nat
    BY <1>3, QueueNamesSlots
  <1>5. r \in Nat /\ r + 8 <= SlotSize /\ r = 8 * (r \div 8) /\ r \div 8 \in Nat
    BY OffsetAligned DEF Aligned, HdrSize
  <1>6. AddressInQueue(slot_queue, n) = x * SlotSize + r
    <2>1. 0 % SlotSize = 0
      BY <1>1
    <2>2. x * SlotSize \in Nat
      BY <1>1, <1>4
    <2> HIDE DEF x, r
    <2>3. Address(SlotPosition(x, 0)) = x * SlotSize + 0
      BY <2>1 DEF Address, SlotPosition, SlotOffset
    <2>4. AddressInQueue(slot_queue, n) = Address(SlotPosition(x, 0)) + r
      BY DEF AddressInQueue, SlotStart, slot_queue_index_from_pos, x, r
    <2> QED BY <2>2, <2>3, <2>4, <1>5
  <1> DEFINE cell == x * k + (r \div 8)
             cells == TotalSlots * k
  <1>7. x * SlotSize = 8 * (x * k) /\ x * k \in Nat
    BY <1>1, <1>4
  <1>8. x * k <= (TotalSlots - 1) * k /\ (TotalSlots - 1) * k = TotalSlots * k - k
    BY <1>1, <1>4
  <1>9. cells \in Nat /\ (TotalSlots * SlotSize) = 8 * cells
    BY <1>1, <1>4
  <1>10. (TotalSlots * SlotSize) \div 8 = cells
    <2> HIDE DEF cells
    <2> QED BY <1>9
  <1>11. r \div 8 <= k - 1
    BY <1>1, <1>5
  <1>12. cell \in 0 .. (cells - 1) /\ x * SlotSize + r = 8 * cell
    <2> DEFINE a == x * k
               b == TotalSlots * k
    <2>1. a \in Nat /\ b \in Nat /\ a <= b - k /\ x * SlotSize = 8 * a
      BY <1>7, <1>8, <1>9
    <2> HIDE DEF a, b, x, r
    <2>2. a + (r \div 8) \in 0 .. (b - 1)
      BY <1>1, <1>5, <1>11, <2>1
    <2>3. x * SlotSize + r = 8 * (a + (r \div 8))
      BY <1>5, <2>1
    <2> QED BY <2>2, <2>3 DEF a, b
  <1> QED BY <1>6, <1>10, <1>12 DEF Addresses, HdrSize

-----------------------------------------------------------------------------
(* Slots and offsets. *)

\* A position is a slot of its queue and an offset into it.
LEMMA PosSplit ==
    ASSUME NEW n \in Nat
    PROVE  /\ SlotSize \in Nat /\ SlotSize >= 8
           /\ n = SlotSize * (n \div SlotSize) + SlotOffset(n)
           /\ n \div SlotSize \in Nat
           /\ SlotOffset(n) \in Nat /\ SlotOffset(n) < SlotSize
  <1>1. PICK k \in Nat : k >= 1 /\ SlotSize = 8 * k
    BY SlotCells
  <1>2. SlotSize \in Nat /\ SlotSize >= 1 /\ SlotSize >= 8
    BY <1>1
  <1> QED
    BY <1>2, DivMod, Zenon DEF SlotOffset

\* There is one slot and one offset for a position.
LEMMA PosUnique ==
    ASSUME NEW n \in Nat, NEW q \in Nat, NEW r \in Nat, r < SlotSize, n = SlotSize * q + r
    PROVE  n \div SlotSize = q /\ SlotOffset(n) = r
  <1>1. SlotSize \in Nat /\ SlotSize >= 8
    BY PosSplit
  <1> DEFINE p == n \div SlotSize
             o == SlotOffset(n)
  <1>2. n = SlotSize * p + o /\ p \in Nat /\ o \in Nat /\ o < SlotSize
    BY PosSplit
  <1> HIDE DEF p, o
  <1>3. SlotSize * p + o = SlotSize * q + r
    BY <1>2
  <1>4. ~(p < q)
    <2> SUFFICES ASSUME p < q PROVE FALSE
      OBVIOUS
    <2>1. SlotSize * (p + 1) <= SlotSize * q
      BY <1>1, <1>2
    <2>2. SlotSize * (p + 1) = SlotSize * p + SlotSize
      BY <1>1, <1>2
    <2>3. SlotSize * p \in Nat /\ SlotSize * q \in Nat
      BY <1>1, <1>2
    <2> QED
      BY <1>1, <1>2, <1>3, <2>1, <2>2, <2>3
  <1>5. ~(q < p)
    <2> SUFFICES ASSUME q < p PROVE FALSE
      OBVIOUS
    <2>1. SlotSize * (q + 1) <= SlotSize * p
      BY <1>1, <1>2
    <2>2. SlotSize * (q + 1) = SlotSize * q + SlotSize
      BY <1>1, <1>2
    <2>3. SlotSize * p \in Nat /\ SlotSize * q \in Nat
      BY <1>1, <1>2
    <2> QED
      BY <1>1, <1>2, <1>3, <2>1, <2>2, <2>3
  <1>6. p = q
    BY <1>2, <1>4, <1>5
  <1>7. o = r
    <2>1. SlotSize * q \in Nat
      BY <1>1
    <2> QED
      BY <1>2, <1>3, <1>6, <2>1
  <1> QED
    BY <1>6, <1>7 DEF p, o

\* A step within a slot.
LEMMA WithinSlot ==
    ASSUME NEW n \in Nat, NEW d \in Nat, SlotOffset(n) + d < SlotSize
    PROVE  /\ (n + d) \div SlotSize = n \div SlotSize
           /\ SlotOffset(n + d) = SlotOffset(n) + d
  <1> DEFINE q == n \div SlotSize
             r == SlotOffset(n)
             z == SlotSize * q
  <1>0. SlotSize \in Nat /\ n = z + r /\ q \in Nat /\ r \in Nat
    BY PosSplit
  <1>1. SlotSize \in Nat /\ n = z + r /\ q \in Nat /\ r \in Nat /\ z \in Nat
    <2> HIDE DEF q, r
    <2> QED BY <1>0
  <1>2. r + d < SlotSize
    OBVIOUS
  <1> HIDE DEF z, r
  <1>3. n + d = z + (r + d) /\ r + d \in Nat /\ n + d \in Nat
    BY <1>1
  <1>4. n + d = SlotSize * q + (r + d)
    BY <1>3 DEF z
  <1> HIDE DEF q
  <1>5. (n + d) \div SlotSize = q /\ SlotOffset(n + d) = r + d
    <2> DEFINE m == n + d
               e == r + d
    <2>1. m \in Nat /\ e \in Nat /\ e < SlotSize /\ m = SlotSize * q + e
      BY <1>2, <1>3, <1>4
    <2> HIDE DEF m, e
    <2>2. m \div SlotSize = q /\ SlotOffset(m) = e
      BY <1>1, <2>1, PosUnique, Zenon
    <2> QED BY <2>2 DEF m, e
  <1> QED
    BY <1>5 DEF q, r

\* The step to the end of a slot.
LEMMA NextSlot ==
    ASSUME NEW n \in Nat, NEW d \in Nat, SlotOffset(n) + d = SlotSize
    PROVE  /\ (n + d) \div SlotSize = n \div SlotSize + 1
           /\ SlotOffset(n + d) = 0
           /\ n + d = SlotSize * (n \div SlotSize + 1)
  <1> DEFINE q == n \div SlotSize
             r == SlotOffset(n)
             z == SlotSize * q
  <1>0. SlotSize \in Nat /\ SlotSize >= 8 /\ n = z + r /\ q \in Nat /\ r \in Nat
    BY PosSplit
  <1>1. SlotSize \in Nat /\ SlotSize >= 8 /\ n = z + r /\ q \in Nat /\ r \in Nat /\ z \in Nat
    <2> HIDE DEF q, r
    <2> QED BY <1>0
  <1>2. r + d = SlotSize
    OBVIOUS
  <1>3. SlotSize * (q + 1) = z + SlotSize
    <2> HIDE DEF q
    <2> QED BY <1>1 DEF z
  <1> HIDE DEF z, r
  <1>4. n + d = z + SlotSize /\ n + d \in Nat
    BY <1>1, <1>2
  <1>5. n + d = SlotSize * (q + 1) + 0 /\ q + 1 \in Nat
    BY <1>1, <1>3, <1>4
  <1> HIDE DEF q
  <1>6. (n + d) \div SlotSize = q + 1 /\ SlotOffset(n + d) = 0
    <2>1. 0 \in Nat /\ 0 < SlotSize
      BY <1>1
    <2> QED BY <2>1, <1>4, <1>5, PosUnique, Zenon
  <1> QED
    BY <1>1, <1>3, <1>4, <1>6 DEF q

\* A position before the end of a number of slots lies in one of them.
LEMMA SlotBelow ==
    ASSUME NEW n \in Nat, NEW k \in Nat
    PROVE  /\ n < k * SlotSize => n \div SlotSize < k
           /\ n \div SlotSize < k => n < k * SlotSize
           /\ k * SlotSize \in Nat
  <1> DEFINE q == n \div SlotSize
             r == SlotOffset(n)
  <1>1. SlotSize \in Nat /\ n = SlotSize * q + r /\ q \in Nat /\ r \in Nat /\ r < SlotSize
    BY PosSplit
  <1> HIDE DEF q, r
  <1>2. k * SlotSize \in Nat /\ SlotSize * q \in Nat
    BY <1>1
  <1>3. ASSUME q >= k PROVE n >= k * SlotSize
    <2>1. SlotSize * q >= k * SlotSize
      BY <1>1, <1>3
    <2> QED BY <1>1, <1>2, <2>1
  <1>4. ASSUME q < k PROVE n < k * SlotSize
    <2>1. (q + 1) * SlotSize <= k * SlotSize
      BY <1>1, <1>4
    <2>2. (q + 1) * SlotSize = SlotSize * q + SlotSize
      BY <1>1
    <2> QED BY <1>1, <1>2, <2>1, <2>2
  <1> QED
    BY <1>1, <1>2, <1>3, <1>4 DEF q

\* A queue names this many consecutive slots, beginning with the first.
Consecutive(queue, first, count) ==
    /\ first \in Nat
    /\ count \in Nat /\ count <= MaxSlotsPerSide
    /\ \A i \in 0 .. (count - 1) : queue[i] = first + i

\* The slots of such a queue are one piece of memory: the address of a
\* position grows with the position.
LEMMA QueueAddress ==
    ASSUME NEW queue, NEW first, NEW count, Consecutive(queue, first, count),
           NEW n \in Nat, n < count * SlotSize
    PROVE  /\ SlotStart(queue, n) = SlotPosition(first + n \div SlotSize, 0)
           /\ AddressInQueue(queue, n) = first * SlotSize + n
           /\ first * SlotSize \in Nat
  <1> DEFINE q == n \div SlotSize
             r == SlotOffset(n)
  <1>0. first \in Nat /\ count \in Nat /\ count <= MaxSlotsPerSide
    BY DEF Consecutive
  <1>1. SlotSize \in Nat /\ SlotSize >= 8 /\ n = SlotSize * q + r /\ q \in Nat /\ r \in Nat
    BY PosSplit
  <1>2. q < count
    BY <1>0, SlotBelow
  <1>3. q % MaxSlotsPerSide = q
    BY <1>0, <1>1, <1>2, SlotZeroAssumption
  <1>4. SlotStart(queue, n) = SlotPosition(first + q, 0)
    <2>1. queue[q] = first + q
      BY <1>0, <1>1, <1>2 DEF Consecutive
    <2> QED
      BY <1>3, <2>1 DEF SlotStart, slot_queue_index_from_pos
  <1>5. 0 % SlotSize = 0
    BY <1>1
  <1>6. Address(SlotPosition(first + q, 0)) = (first + q) * SlotSize + 0
    <2> HIDE DEF q
    <2> QED BY <1>5 DEF Address, SlotPosition, SlotOffset
  <1>7. (first + q) * SlotSize = first * SlotSize + SlotSize * q /\ first * SlotSize \in Nat
        /\ SlotSize * q \in Nat
    <2> HIDE DEF q
    <2> QED BY <1>0, <1>1
  <1>8. AddressInQueue(queue, n) = Address(SlotPosition(first + q, 0)) + r
    BY <1>4 DEF AddressInQueue
  <1>9. AddressInQueue(queue, n) = first * SlotSize + n
    <2> HIDE DEF q, r
    <2> QED BY <1>0, <1>1, <1>6, <1>7, <1>8
  <1> QED
    BY <1>4, <1>7, <1>9

\* An aligned byte of the slots of a side is the start of a cell.
LEMMA SlotsInMemory ==
    ASSUME NEW first \in Nat, NEW count \in Nat, first + count <= TotalSlots,
           NEW n, Aligned(n), n < count * SlotSize
    PROVE  first * SlotSize + n \in Addresses
  <1>1. PICK k \in Nat : k >= 1 /\ SlotSize = 8 * k
    BY SlotCells
  <1>2. n \in Nat /\ n = 8 * (n \div 8) /\ n \div 8 \in Nat
    BY DEF Aligned, HdrSize
  <1>3. TotalSlots \in Nat
    BY SlotZeroAssumption
  <1> DEFINE y == n \div 8
             f == first * k
             c == count * k
             all == TotalSlots * k
  <1>4. /\ f \in Nat /\ c \in Nat /\ all \in Nat
        /\ first * SlotSize = 8 * f /\ count * SlotSize = 8 * c /\ TotalSlots * SlotSize = 8 * all
    BY <1>1, <1>3
  <1>5. f + c <= all
    <2>1. (first + count) * k <= TotalSlots * k
      BY <1>1, <1>3
    <2>2. (first + count) * k = first * k + count * k
      BY <1>1
    <2> QED BY <2>1, <2>2
  <1>6. n = 8 * y /\ y \in Nat
    BY <1>2
  <1> HIDE DEF y, f, c, all
  <1>7. f + y \in 0 .. (all - 1) /\ first * SlotSize + n = 8 * (f + y)
    BY <1>4, <1>5, <1>6
  <1>8. (TotalSlots * SlotSize) \div 8 = all
    BY <1>4
  <1> QED
    BY <1>7, <1>8 DEF Addresses, HdrSize

-----------------------------------------------------------------------------
(* Messages in memory. *)

\* Addresses are numbers.
LEMMA AddressesAreNat == \A a \in Addresses : a \in Nat
  BY SlotZeroAssumption, SlotCells DEF Addresses, HdrSize

\* store_message keeps a memory of these messages one.
LEMMA StoreInMemories ==
    ASSUME NEW M, NEW mem \in Memories(M), NEW at, NEW m \in M, NEW stride
    PROVE  store_message(mem, at, m, stride) \in Memories(M)
  <1> DEFINE Cells == {EmptyCell} \cup {Cell(part, x) : part \in {"header", "payload"}, x \in M}
  <1>1. mem \in [Addresses -> Cells]
    BY DEF Memories
  <1>2. Cell("header", m) \in Cells /\ Cell("payload", m) \in Cells
    OBVIOUS
  <1>3. store_message(mem, at, m, stride) \in [Addresses -> Cells]
    <2> HIDE DEF Cells
    <2> QED BY <1>1, <1>2 DEF store_message
  <1> QED
    BY <1>3 DEF Memories

\* The memory State::initialize leaves is one of these messages, too.
LEMMA InitialInMemories ==
    ASSUME NEW M, NEW m \in M
    PROVE  InitialMemory(m) \in Memories(M)
  <1>1. EmptyMemory \in Memories(M)
    BY DEF EmptyMemory, Memories
  <1> QED
    BY <1>1, StoreInMemories DEF InitialMemory

\* A stored message is in memory.
LEMMA StoredIntact ==
    ASSUME NEW mem, NEW a \in Addresses, NEW m, NEW stride \in Nat
    PROVE  Intact(store_message(mem, a, m, stride), a, m, stride)
  BY DEF Intact, store_message, Extent

\* Storing a message beside another leaves that one intact.
LEMMA StoreSpares ==
    ASSUME NEW mem, NEW a \in Addresses, NEW m, NEW stride \in Nat, stride > 0,
           Intact(mem, a, m, stride),
           NEW b \in Nat, NEW n, NEW size \in Nat, size > 0,
           a + stride <= b \/ b + size <= a
    PROVE  Intact(store_message(mem, b, n, size), a, m, stride)
  <1>1. a \in Nat
    BY AddressesAreNat
  <1>2. ASSUME NEW x \in Extent(a, stride) PROVE x # b /\ x \notin Extent(b, size)
    <2>1. x \in Nat /\ a <= x /\ x < a + stride
      BY <1>2, AddressesAreNat DEF Extent
    <2> QED
      BY <1>1, <2>1 DEF Extent
  <1>3. a \in Extent(a, stride)
    BY <1>1 DEF Extent
  <1>4. ASSUME NEW x \in Extent(a, stride) PROVE store_message(mem, b, n, size)[x] = mem[x]
    BY <1>2, <1>4 DEF store_message, Extent
  <1> QED
    BY <1>3, <1>4 DEF Intact
================================================================================
