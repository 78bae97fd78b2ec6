-------------------------- MODULE CompletionsProofs --------------------------
(***************************************************************************)
(* Proofs about Completions, for every number of services, every size of   *)
(* the rings and every batch.                                              *)
(***************************************************************************)
EXTENDS Completions, FiniteSetTheorems, TLAPS

\* The assumptions the proofs use again and again.
LEMMA Sizes ==
    /\ MsgQueueSize \in Nat \ {0}
    /\ MaxCompletions \in Nat \ {0}
    /\ Batch \in Nat \ {0}
  BY CompletionsAssumption

LEMMA FiniteServices ==
    IsFiniteSet(Services) /\ Cardinality(Services) \in Nat
  BY CompletionsAssumption, FS_CardinalityType

-----------------------------------------------------------------------------
(* Arithmetic of ring positions. *)

\* A position has a cell: pos & (size - 1) is an index of a ring of that size.
LEMMA ModRange ==
    ASSUME NEW n \in Nat \ {0}, NEW i \in Nat
    PROVE  i % n \in 0 .. (n - 1)
  OBVIOUS

LEMMA DivMod ==
    ASSUME NEW n \in Nat \ {0}, NEW i \in Nat
    PROVE  i = n * (i \div n) + (i % n) /\ i \div n \in Int
  OBVIOUS

LEMMA SameMultiple ==
    ASSUME NEW n \in Nat \ {0}, NEW a \in Int, NEW b \in Int,
           n * a - n * b < n, n * b - n * a < n
    PROVE  a = b
  OBVIOUS

\* Positions less than the size of the ring apart have different cells.
LEMMA CellsDiffer ==
    ASSUME NEW n \in Nat \ {0}, NEW i \in Nat, NEW j \in Nat,
           i - j < n, j - i < n, i % n = j % n
    PROVE  i = j
  <1>1. i = n * (i \div n) + (i % n) /\ i \div n \in Int
    BY DivMod
  <1>2. j = n * (j \div n) + (j % n) /\ j \div n \in Int
    BY DivMod
  <1>3. i \div n = j \div n
    BY <1>1, <1>2, SameMultiple
  <1> QED
    BY <1>1, <1>2, <1>3

-----------------------------------------------------------------------------
(* What await_completion takes. *)

\* The part of TypeOK that is about the completion ring.
RingTypes ==
    /\ completion_insert \in Nat
    /\ completion_remove \in Nat
    /\ message_available_pos \in [Services -> Int]
    /\ completions \in [0 .. (MaxCompletions - 1) -> Services \cup {None}]

LEMMA RingTypesHold == TypeOK => RingTypes
  BY DEF TypeOK, RingTypes

\* The completion handler takes an interval that starts at completion_remove
\* and ends at completion_insert or after Batch completions.
LEMMA TakenIsInterval ==
    ASSUME RingTypes, completion_remove <= completion_insert
    PROVE  \E k \in Nat :
              /\ k <= completion_insert - completion_remove
              /\ TakenPositions = completion_remove .. (completion_remove + k - 1)
              /\ Cardinality(TakenPositions) = k
  <1> DEFINE avail == completion_insert - completion_remove
             k == IF avail <= Batch THEN avail ELSE Batch
  <1>1. k \in Nat /\ k <= avail
    BY Sizes DEF RingTypes
  <1>2. TakenPositions = completion_remove .. (completion_remove + k - 1)
    BY Sizes DEF RingTypes, TakenPositions
  <1>3. Cardinality(completion_remove .. (completion_remove + k - 1)) = k
    <2> DEFINE last == completion_remove + k - 1
    <2>1. /\ completion_remove \in Int
          /\ last \in Int
          /\ completion_remove > last <=> k = 0
          /\ last - completion_remove + 1 = k
      BY <1>1 DEF RingTypes
    <2> HIDE DEF last, k
    <2>2. Cardinality(completion_remove .. last) = k
      BY <1>1, <2>1, FS_Interval
    <2> QED
      BY <2>2 DEF last
  <1> QED
    BY <1>1, <1>2, <1>3

-----------------------------------------------------------------------------
(* Type correctness. *)

LEMMA TypeInit == Init => TypeOK
  <1> SUFFICES ASSUME Init PROVE TypeOK
    OBVIOUS
  <1>1. msg_queue \in [Services -> [0 .. (MsgQueueSize - 1) -> Nat \cup {None}]]
    BY DEF Init, ServiceUserInit, CompletionInit
  <1>2. taken \in [Services -> Seq(Nat)]
    BY DEF Init, ServiceUserInit, CompletionInit
  <1>3. completions \in [0 .. (MaxCompletions - 1) -> Services \cup {None}]
    BY DEF Init, ServiceUserInit, CompletionInit
  <1>4. /\ msg_insert \in [Services -> Nat]
        /\ msg_remove \in [Services -> Nat]
        /\ message_available_pos \in [Services -> Int]
    BY DEF Init, ServiceUserInit, CompletionInit
  <1>5. /\ dequeue_pending \in [Services -> BOOLEAN]
        /\ overrun \subseteq Services
        /\ notified \subseteq Services
        /\ reader \in [Services -> {"idle", "waiting"}]
    BY DEF Init, ServiceUserInit, CompletionInit
  <1>6. completion_insert \in Nat /\ completion_remove \in Nat /\ panicked \in BOOLEAN
    BY DEF Init, ServiceUserInit, CompletionInit
  <1> QED
    BY <1>1, <1>2, <1>3, <1>4, <1>5, <1>6 DEF TypeOK

\* No poll of a task leaves the types.
LEMMA TypeStep ==
    ASSUME TypeOK, [Next]_vars
    PROVE  TypeOK'
  <1>1. CASE UNCHANGED vars
    BY <1>1 DEF vars, queueVars, completionVars, TypeOK
  <1>2. ASSUME NEW s \in Services, service_callback(s) PROVE TypeOK'
    <2>1. MsgCell(msg_insert[s]) \in 0 .. (MsgQueueSize - 1)
      BY Sizes, ModRange DEF TypeOK, MsgCell
    <2>2. completion_insert % MaxCompletions \in 0 .. (MaxCompletions - 1)
      BY Sizes, ModRange DEF TypeOK
    <2>3. msg_queue' \in [Services -> [0 .. (MsgQueueSize - 1) -> Nat \cup {None}]]
      BY <1>2, <2>1 DEF TypeOK, service_callback
    <2>4. /\ completions' \in [0 .. (MaxCompletions - 1) -> Services \cup {None}]
          /\ message_available_pos' \in [Services -> Int]
          /\ completion_insert' \in Nat
      <3>1. CASE AddsCompletion(s)
        <4>1. add_completion(s)
          BY <1>2, <3>1 DEF service_callback
        <4>2. completions' \in [0 .. (MaxCompletions - 1) -> Services \cup {None}]
          BY <4>1, <2>2 DEF TypeOK, add_completion
        <4> QED
          BY <4>1, <4>2 DEF TypeOK, add_completion
      <3>2. CASE ~AddsCompletion(s)
        BY <1>2, <3>2 DEF TypeOK, service_callback
      <3> QED
        BY <3>1, <3>2
    <2>5. /\ msg_insert' \in [Services -> Nat]
          /\ dequeue_pending' \in [Services -> BOOLEAN]
          /\ overrun' \subseteq Services
      BY <1>2 DEF TypeOK, service_callback, PendingAfter
    <2> QED
      BY <1>2, <2>3, <2>4, <2>5 DEF TypeOK, service_callback
  <1>3. ASSUME NEW s \in Services, Dequeue(s) PROVE TypeOK'
    <2>1. MsgCell(msg_remove[s]) \in 0 .. (MsgQueueSize - 1)
      BY Sizes, ModRange DEF TypeOK, MsgCell
    <2>2. msg_queue' \in [Services -> [0 .. (MsgQueueSize - 1) -> Nat \cup {None}]]
      BY <1>3, <2>1 DEF TypeOK, Dequeue, TakeMessage
    <2>3. taken' \in [Services -> Seq(Nat)] /\ panicked' \in BOOLEAN
      <3> DEFINE cell == msg_queue[s][MsgCell(msg_remove[s])]
      <3>1. cell \in Nat \cup {None}
        <4>1. msg_queue \in [Services -> [0 .. (MsgQueueSize - 1) -> Nat \cup {None}]]
          BY DEF TypeOK
        <4> QED
          BY <2>1, <4>1
      <3>2. CASE cell = None
        BY <1>3, <3>2 DEF TypeOK, Dequeue, TakeMessage
      <3>3. CASE cell # None
        <4>1. taken' = [taken EXCEPT ![s] = Append(@, cell)] /\ panicked' = panicked
          BY <1>3, <3>3 DEF Dequeue, TakeMessage
        <4>2. Append(taken[s], cell) \in Seq(Nat)
          BY <3>1, <3>3 DEF TypeOK
        <4> QED
          BY <4>1, <4>2 DEF TypeOK
      <3> QED
        BY <3>2, <3>3
    <2>4. msg_remove' \in [Services -> Nat] /\ reader' \in [Services -> {"idle", "waiting"}]
      BY <1>3 DEF TypeOK, Dequeue, TakeMessage
    <2> QED
      BY <1>3, <2>2, <2>3, <2>4 DEF TypeOK, Dequeue, TakeMessage, completionVars
  <1>4. ASSUME NEW s \in Services, DequeueWaits(s) PROVE TypeOK'
    BY <1>4 DEF TypeOK, DequeueWaits, completionVars
  <1>5. ASSUME NEW s \in Services, CancelDequeue(s) PROVE TypeOK'
    BY <1>5 DEF TypeOK, CancelDequeue, queueVars, completionVars
  <1>6. CASE completion_handler
    <2>1. Cardinality(TakenPositions) \in Nat
      <3>1. IsFiniteSet(completion_remove .. (completion_insert - 1))
        BY RingTypesHold, FS_Interval DEF RingTypes
      <3> QED
        BY <3>1, FS_Subset, FS_CardinalityType DEF TakenPositions
    <2>2. notified' \subseteq Services
      <3>1. CASE MissingCompletion
        BY <1>6, <3>1 DEF TypeOK, completion_handler
      <3>2. CASE ~MissingCompletion
        <4>1. ASSUME NEW i \in TakenPositions PROVE completions[i % MaxCompletions] \in Services
          <5>a. i \in Nat
            BY <4>1, RingTypesHold DEF TakenPositions, RingTypes
          <5>1. i % MaxCompletions \in 0 .. (MaxCompletions - 1)
            BY <5>a, Sizes, ModRange
          <5> QED
            BY <3>2, <4>1, <5>1, RingTypesHold DEF MissingCompletion, RingTypes
        <4>2. notified' = notified \cup {completions[i % MaxCompletions] : i \in TakenPositions}
          BY <1>6, <3>2 DEF completion_handler
        <4>3. notified \subseteq Services
          BY DEF TypeOK
        <4> QED
          BY <4>1, <4>2, <4>3
      <3> QED
        BY <3>1, <3>2
    <2>3. /\ completions' \in [0 .. (MaxCompletions - 1) -> Services \cup {None}]
          /\ completion_remove' \in Nat
          /\ panicked' \in BOOLEAN
      <3>1. CASE MissingCompletion
        BY <1>6, <3>1 DEF TypeOK, completion_handler
      <3>2. CASE ~MissingCompletion
        <4>1. completions' = [k \in DOMAIN completions |->
                 IF \E i \in TakenPositions : k = i % MaxCompletions THEN None ELSE completions[k]]
          BY <1>6, <3>2 DEF completion_handler
        <4>2. completions' \in [0 .. (MaxCompletions - 1) -> Services \cup {None}]
          BY <4>1, Zenon DEF TypeOK
        <4>3. completion_remove' \in Nat /\ panicked' = panicked
          BY <1>6, <3>2, <2>1 DEF TypeOK, completion_handler
        <4> QED
          BY <4>2, <4>3 DEF TypeOK
      <3> QED
        BY <3>1, <3>2
    <2> QED
      BY <1>6, <2>2, <2>3 DEF TypeOK, completion_handler, queueVars
  <1> QED
    BY <1>1, <1>2, <1>3, <1>4, <1>5, <1>6 DEF Next

\* Every reachable state of the queues and of the completion ring is well
\* typed: no action of service_callback, dequeue_message or
\* completion_handler leaves the types TypeOK states.
THEOREM TypeCorrect == Spec => []TypeOK
  <1>1. TypeOK /\ [Next]_vars => TypeOK'
    BY TypeStep
  <1> QED
    BY TypeInit, <1>1, PTL DEF Spec

-----------------------------------------------------------------------------
(* The completion ring. *)

\* The inductive invariant behind OnePerService.  The pending positions are
\* those of message_available_pos: a position stays with its service because
\* a service with a pending completion gets no other one.
PendingCovered ==
    /\ completion_remove <= completion_insert
    /\ \A s \in Services : message_available_pos[s] < completion_insert
    /\ \A i \in completion_remove .. (completion_insert - 1) :
          \E s \in Services : message_available_pos[s] = i

\* Initially the ring is empty.
LEMMA PendingCoveredInit == Init => PendingCovered
  BY DEF Init, ServiceUserInit, CompletionInit, PendingCovered

\* A new completion covers its own position, and no position loses its service.
LEMMA PendingCoveredStep ==
    ASSUME RingTypes, PendingCovered, [Next]_vars
    PROVE  PendingCovered'
  <1>1. CASE UNCHANGED <<message_available_pos, completion_insert, completion_remove>>
    BY <1>1 DEF PendingCovered
  <1>2. ASSUME NEW s \in Services, service_callback(s), AddsCompletion(s)
        PROVE  PendingCovered'
    <2>1. /\ message_available_pos' = [message_available_pos EXCEPT ![s] = completion_insert]
          /\ completion_insert' = completion_insert + 1
          /\ completion_remove' = completion_remove
      BY <1>2 DEF service_callback, add_completion
    <2>2. message_available_pos[s] < completion_remove
      BY <1>2 DEF AddsCompletion, Announced, RingTypes
    <2>3. ASSUME NEW i \in completion_remove' .. (completion_insert' - 1)
          PROVE  \E t \in Services : message_available_pos'[t] = i
      <3>1. CASE i = completion_insert
        BY <2>1, <3>1 DEF RingTypes
      <3>2. CASE i # completion_insert
        <4>1. i \in completion_remove .. (completion_insert - 1)
          BY <2>1, <2>3, <3>2 DEF RingTypes
        <4>2. PICK t \in Services : message_available_pos[t] = i
          BY <4>1 DEF PendingCovered
        <4>3. t # s
          BY <2>2, <4>1, <4>2 DEF RingTypes
        <4> QED
          BY <2>1, <4>2, <4>3 DEF RingTypes
      <3> QED
        BY <3>1, <3>2
    <2> QED
      BY <2>1, <2>3 DEF PendingCovered, RingTypes
  <1>3. CASE completion_handler /\ ~MissingCompletion
    <2>1. PICK k \in Nat : /\ k <= completion_insert - completion_remove
                           /\ Cardinality(TakenPositions) = k
      BY TakenIsInterval DEF PendingCovered
    <2>2. /\ completion_remove' = completion_remove + k
          /\ UNCHANGED <<message_available_pos, completion_insert>>
      BY <1>3, <2>1 DEF completion_handler, queueVars
    <2> QED
      BY <2>1, <2>2 DEF PendingCovered, RingTypes
  <1> QED
    BY <1>1, <1>2, <1>3
    DEF Next, vars, queueVars, completionVars, service_callback, Dequeue, TakeMessage,
        DequeueWaits, CancelDequeue, completion_handler

\* So many positions need as many services.
LEMMA WindowBound ==
    ASSUME RingTypes, PendingCovered, NEW S \in SUBSET Services,
           \A i \in completion_remove .. (completion_insert - 1) :
              \E s \in S : message_available_pos[s] = i
    PROVE  completion_insert - completion_remove <= Cardinality(S)
  <1> DEFINE W == completion_remove .. (completion_insert - 1)
             P == {s \in S : message_available_pos[s] \in W}
             f == [s \in P |-> message_available_pos[s]]
  <1>1. f \in Surjection(P, W)
    BY DEF Surjection, RingTypes
  <1>a. IsFiniteSet(S)
    BY FiniteServices, FS_Subset
  <1>2. IsFiniteSet(P) /\ Cardinality(P) <= Cardinality(S)
    BY <1>a, FS_Subset
  <1>3. Cardinality(W) <= Cardinality(P)
    BY <1>1, <1>2, FS_Surjection
  <1>4. Cardinality(W) = completion_insert - completion_remove
    BY FS_Interval DEF PendingCovered, RingTypes
  <1>5. Cardinality(P) \in Nat /\ Cardinality(S) \in Nat
    BY <1>a, <1>2, FS_CardinalityType
  <1> QED
    BY <1>2, <1>3, <1>4, <1>5 DEF RingTypes

LEMMA PendingCoveredInvariant == Spec => []PendingCovered
  <1>1. RingTypes /\ PendingCovered /\ [Next]_vars => PendingCovered'
    BY PendingCoveredStep
  <1> QED
    BY PendingCoveredInit, <1>1, TypeCorrect, RingTypesHold, PTL DEF Spec

\* However many messages arrive, and however slow the completion handler is,
\* there are never more pending completions than services: add_completion,
\* which does not wait for space, needs none as long as MAX_COMPLETIONS is at
\* least the number of services.
THEOREM OnePerServiceHolds == Spec => []OnePerService
  <1>1. RingTypes /\ PendingCovered => OnePerService
    BY WindowBound DEF PendingCovered, OnePerService
  <1> QED
    BY <1>1, TypeCorrect, RingTypesHold, PendingCoveredInvariant, PTL

-----------------------------------------------------------------------------
(* Pending completions are safe in a ring that is large enough. *)

\* MAX_COMPLETIONS is at least the number of services.
RingFits == Cardinality(Services) <= MaxCompletions

\* A new completion overwrites no pending one, and the completion handler
\* clears no cell but those it takes.
LEMMA NoCompletionLostStep ==
    ASSUME RingFits, RingTypes, PendingCovered, NoCompletionLost, [Next]_vars
    PROVE  NoCompletionLost'
  <1>1. completion_insert - completion_remove <= MaxCompletions
    <2>1. completion_insert - completion_remove <= Cardinality(Services)
      BY WindowBound DEF PendingCovered
    <2> QED
      BY <2>1, FiniteServices, Sizes DEF RingFits, RingTypes
  <1>2. CASE UNCHANGED <<message_available_pos, completionVars>>
    BY <1>2 DEF NoCompletionLost, Announced, completionVars
  <1>3. ASSUME NEW s \in Services, service_callback(s), AddsCompletion(s)
        PROVE  NoCompletionLost'
    <2>1. /\ add_completion(s)
          /\ completion_remove' = completion_remove
      BY <1>3 DEF service_callback
    <2>2. message_available_pos[s] < completion_remove
      BY <1>3 DEF AddsCompletion, Announced, RingTypes
    <2>3. completion_insert - completion_remove < MaxCompletions
      <3>1. \A i \in completion_remove .. (completion_insert - 1) :
               \E t \in Services \ {s} : message_available_pos[t] = i
        BY <2>2 DEF PendingCovered, RingTypes
      <3>2. completion_insert - completion_remove <= Cardinality(Services \ {s})
        BY <3>1, WindowBound
      <3>3. Cardinality(Services \ {s}) = Cardinality(Services) - 1
        BY FiniteServices, FS_RemoveElement
      <3> QED
        BY <3>2, <3>3, FiniteServices, Sizes DEF RingFits, RingTypes
    <2>4. completion_insert % MaxCompletions \in 0 .. (MaxCompletions - 1)
      BY Sizes, ModRange DEF RingTypes
    <2>5. ASSUME NEW t \in Services, Announced(t)'
          PROVE  /\ completions'[message_available_pos'[t] % MaxCompletions] = t
                 /\ message_available_pos'[t] < completion_insert'
      <3>1. CASE t = s
        BY <2>1, <2>4, <3>1 DEF add_completion, RingTypes
      <3>2. CASE t # s
        <4> DEFINE p == message_available_pos[t]
        <4>1. message_available_pos'[t] = p
          BY <2>1, <3>2 DEF add_completion, RingTypes
        <4>2. p \in Nat /\ completion_remove <= p /\ p < completion_insert
          BY <2>1, <2>5, <4>1 DEF Announced, PendingCovered, RingTypes
        <4>3. completions[p % MaxCompletions] = t
          BY <4>2 DEF NoCompletionLost, Announced
        <4>4. p % MaxCompletions # completion_insert % MaxCompletions
          <5>1. /\ completion_insert \in Nat
                /\ p - completion_insert < MaxCompletions
                /\ completion_insert - p < MaxCompletions
                /\ p # completion_insert
            BY <4>2, <2>3, Sizes DEF RingTypes
          <5> HIDE DEF p
          <5>2. p % MaxCompletions = completion_insert % MaxCompletions => p = completion_insert
            BY <4>2, <5>1, Sizes, CellsDiffer
          <5> QED
            BY <5>1, <5>2
        <4>5. p % MaxCompletions \in 0 .. (MaxCompletions - 1)
          BY <4>2, Sizes, ModRange
        <4>6. completions'[p % MaxCompletions] = t
          BY <2>1, <4>3, <4>4, <4>5 DEF add_completion, RingTypes
        <4> QED
          BY <2>1, <4>1, <4>2, <4>6 DEF add_completion, RingTypes
      <3> QED
        BY <3>1, <3>2
    <2> QED
      BY <2>5 DEF NoCompletionLost
  <1>4. CASE completion_handler /\ ~MissingCompletion
    <2>1. PICK k \in Nat : /\ k <= completion_insert - completion_remove
                           /\ TakenPositions = completion_remove .. (completion_remove + k - 1)
                           /\ Cardinality(TakenPositions) = k
      BY TakenIsInterval DEF PendingCovered
    <2>2. /\ completion_remove' = completion_remove + k
          /\ UNCHANGED <<message_available_pos, completion_insert>>
          /\ completions' = [c \in DOMAIN completions |->
                IF \E i \in TakenPositions : c = i % MaxCompletions THEN None ELSE completions[c]]
      BY <1>4, <2>1 DEF completion_handler, queueVars
    <2>3. ASSUME NEW t \in Services, Announced(t)'
          PROVE  completions'[message_available_pos[t] % MaxCompletions] = t
      <3> DEFINE p == message_available_pos[t]
      <3>1. p \in Nat /\ completion_remove + k <= p /\ p < completion_insert
        BY <2>2, <2>3 DEF Announced, PendingCovered, RingTypes
      <3>2. completions[p % MaxCompletions] = t
        BY <3>1 DEF NoCompletionLost, Announced, RingTypes
      <3>3. ASSUME NEW i \in TakenPositions PROVE p % MaxCompletions # i % MaxCompletions
        <4>1. i \in Nat /\ i < p /\ p - i < MaxCompletions
          BY <1>1, <2>1, <3>1, <3>3, Sizes DEF RingTypes
        <4>2. p - i < MaxCompletions /\ i - p < MaxCompletions /\ p # i
          BY <3>1, <4>1, Sizes
        <4> HIDE DEF p
        <4>3. p % MaxCompletions = i % MaxCompletions => p = i
          BY <3>1, <4>1, <4>2, Sizes, CellsDiffer
        <4> QED
          BY <4>2, <4>3
      <3>4. p % MaxCompletions \in 0 .. (MaxCompletions - 1)
        BY <3>1, Sizes, ModRange
      <3> QED
        BY <2>2, <3>2, <3>3, <3>4 DEF RingTypes
    <2> QED
      BY <2>2, <2>3 DEF NoCompletionLost, PendingCovered
  <1> QED
    BY <1>2, <1>3, <1>4
    DEF Next, vars, queueVars, completionVars, service_callback, Dequeue, TakeMessage,
        DequeueWaits, CancelDequeue, completion_handler

LEMMA NoCompletionLostInit == Init => NoCompletionLost
  BY DEF Init, ServiceUserInit, CompletionInit, NoCompletionLost, Announced

\* With no more services than MAX_COMPLETIONS, every pending completion keeps
\* its cell of the ring until the completion handler takes it, although
\* add_completion never waits for a free cell.
THEOREM NoCompletionLostHolds == RingFits => (Spec => []NoCompletionLost)
  <1> SUFFICES ASSUME RingFits PROVE Spec => []NoCompletionLost
    OBVIOUS
  <1>1. RingTypes /\ PendingCovered /\ NoCompletionLost /\ [Next]_vars => NoCompletionLost'
    BY NoCompletionLostStep
  <1> QED
    BY NoCompletionLostInit, <1>1, TypeCorrect, RingTypesHold, PendingCoveredInvariant, PTL DEF Spec

-----------------------------------------------------------------------------
(* The message queues. *)

\* The part of TypeOK that is about the message queues.
QueueTypes ==
    /\ msg_queue \in [Services -> [0 .. (MsgQueueSize - 1) -> Nat \cup {None}]]
    /\ msg_insert \in [Services -> Nat]
    /\ msg_remove \in [Services -> Nat]
    /\ taken \in [Services -> Seq(Nat)]

LEMMA QueueTypesHold == TypeOK => QueueTypes
  BY DEF TypeOK, QueueTypes

\* The inductive invariant behind DeliveredInOrder: the filled part of a ring
\* holds the messages that follow the taken ones, each in its own cell.
QueueOrdered(s) ==
    /\ msg_remove[s] <= msg_insert[s]
    /\ msg_insert[s] - msg_remove[s] <= MsgQueueSize
    /\ \A i \in msg_remove[s] .. (msg_insert[s] - 1) : msg_queue[s][MsgCell(i)] = i + 1
    /\ Len(taken[s]) = msg_remove[s]
    /\ \A i \in 1 .. Len(taken[s]) : taken[s][i] = i

QueuesOrdered == \A s \in Services \ overrun : QueueOrdered(s)

\* The inductive invariant behind NoLostNotification.  A set dequeue_pending
\* means that a dequeue waits for an empty queue; only one message can arrive
\* on the strength of it, so a second one is always announced.
Notification(s) ==
    /\ msg_remove[s] <= msg_insert[s]
    /\ dequeue_pending[s] = TRUE => reader[s] = "waiting" /\ msg_insert[s] = msg_remove[s]
    /\ reader[s] = "idle" /\ msg_insert[s] # msg_remove[s] => Announced(s) \/ s \in notified
    /\ msg_insert[s] > msg_remove[s] + 1 => Announced(s) \/ s \in notified

Notifications == \A s \in Services \ Impatient : Notification(s)

\* A step keeps a queue in order unless it overruns it.  An arriving message
\* gets a free cell, a taken one is the oldest.
LEMMA QueueOrderedStep ==
    ASSUME QueueTypes, NEW t \in Services, t \notin overrun', QueueOrdered(t), [Next]_vars
    PROVE  QueueOrdered(t)'
  <1> DEFINE Cells == 0 .. (MsgQueueSize - 1)
  <1>1. CASE /\ msg_queue'[t] = msg_queue[t]
             /\ msg_insert'[t] = msg_insert[t]
             /\ msg_remove'[t] = msg_remove[t]
             /\ taken'[t] = taken[t]
    BY <1>1 DEF QueueOrdered, MsgCell
  <1>2. CASE service_callback(t)
    <2>1. /\ ~QueueFull(t)
          /\ msg_queue' = [msg_queue EXCEPT ![t][MsgCell(msg_insert[t])] = msg_insert[t] + 1]
          /\ msg_insert' = [msg_insert EXCEPT ![t] = @ + 1]
          /\ msg_remove' = msg_remove
          /\ taken' = taken
      BY <1>2 DEF service_callback
    <2>2. /\ msg_insert[t] \in Nat /\ msg_remove[t] \in Nat
          /\ msg_insert'[t] = msg_insert[t] + 1
          /\ msg_insert[t] - msg_remove[t] < MsgQueueSize
      <3>1. /\ msg_insert[t] \in Nat /\ msg_remove[t] \in Nat
            /\ msg_insert'[t] = msg_insert[t] + 1
        BY <2>1 DEF QueueTypes
      <3>2. /\ msg_insert[t] - msg_remove[t] <= MsgQueueSize
            /\ msg_insert[t] # msg_remove[t] + MsgQueueSize
        BY <2>1 DEF QueueFull, QueueOrdered
      <3> QED
        BY <3>1, <3>2, Sizes
    <2>3. MsgCell(msg_insert[t]) \in Cells
      BY <2>2, Sizes, ModRange DEF MsgCell
    <2>4. /\ msg_queue'[t] = [msg_queue[t] EXCEPT ![MsgCell(msg_insert[t])] = msg_insert[t] + 1]
          /\ msg_queue[t] \in [Cells -> Nat \cup {None}]
      BY <2>1 DEF QueueTypes
    <2>5. ASSUME NEW i \in msg_remove[t] .. msg_insert[t]
          PROVE  msg_queue'[t][MsgCell(i)] = i + 1
      <3>1. CASE i = msg_insert[t]
        BY <2>3, <2>4, <3>1
      <3>2. CASE i # msg_insert[t]
        <4>1. /\ i \in msg_remove[t] .. (msg_insert[t] - 1)
              /\ i \in Nat
              /\ i - msg_insert[t] < MsgQueueSize
              /\ msg_insert[t] - i < MsgQueueSize
          BY <2>2, <2>5, <3>2, Sizes
        <4>2. MsgCell(i) # MsgCell(msg_insert[t])
          <5>1. i % MsgQueueSize = msg_insert[t] % MsgQueueSize => i = msg_insert[t]
            BY <2>2, <4>1, Sizes, CellsDiffer
          <5> QED
            BY <3>2, <5>1 DEF MsgCell
        <4>3. MsgCell(i) \in Cells
          BY <4>1, Sizes, ModRange DEF MsgCell
        <4>4. msg_queue[t][MsgCell(i)] = i + 1
          BY <4>1 DEF QueueOrdered
        <4> QED
          BY <2>3, <2>4, <4>2, <4>3, <4>4
      <3> QED
        BY <3>1, <3>2
    <2>6. ASSUME NEW i \in msg_remove'[t] .. (msg_insert'[t] - 1)
          PROVE  msg_queue'[t][MsgCell(i)'] = i + 1
      BY <2>1, <2>2, <2>5, <2>6 DEF MsgCell
    <2> QED
      BY <2>1, <2>2, <2>6, Sizes DEF QueueOrdered
  <1>3. CASE Dequeue(t)
    <2> DEFINE r == msg_remove[t]
               cell == msg_queue[t][MsgCell(r)]
    <2>1. r \in Nat /\ msg_insert[t] \in Nat /\ r < msg_insert[t] /\ taken[t] \in Seq(Nat)
      BY <1>3 DEF Dequeue, QueueOrdered, QueueTypes
    <2>2. cell = r + 1
      BY <2>1 DEF QueueOrdered
    <2>3. cell # None
      BY <2>1, <2>2, CompletionsAssumption
    <2>4. /\ msg_remove' = [msg_remove EXCEPT ![t] = @ + 1]
          /\ msg_queue' = [msg_queue EXCEPT ![t][MsgCell(r)] = None]
          /\ taken' = [taken EXCEPT ![t] = Append(@, cell)]
          /\ msg_insert' = msg_insert
      BY <1>3, <2>3 DEF Dequeue, TakeMessage
    <2>5. MsgCell(r) \in Cells
      BY <2>1, Sizes, ModRange DEF MsgCell
    <2>6. /\ msg_remove'[t] = r + 1
          /\ msg_queue'[t] = [msg_queue[t] EXCEPT ![MsgCell(r)] = None]
          /\ msg_queue[t] \in [Cells -> Nat \cup {None}]
          /\ taken'[t] = Append(taken[t], r + 1)
      BY <2>2, <2>4 DEF QueueTypes
    <2>7. ASSUME NEW i \in (r + 1) .. (msg_insert[t] - 1)
          PROVE  msg_queue'[t][MsgCell(i)] = i + 1
      <3>0. msg_insert[t] - r <= MsgQueueSize
        BY DEF QueueOrdered
      <3>1. /\ i \in r .. (msg_insert[t] - 1)
            /\ i \in Nat /\ i # r
            /\ i - r < MsgQueueSize
            /\ r - i < MsgQueueSize
        BY <2>1, <2>7, <3>0, Sizes
      <3>2. MsgCell(i) # MsgCell(r)
        <4> HIDE DEF r
        <4>1. i % MsgQueueSize = r % MsgQueueSize => i = r
          BY <2>1, <3>1, Sizes, CellsDiffer
        <4> QED
          BY <3>1, <4>1 DEF MsgCell
      <3>3. MsgCell(i) \in Cells
        BY <3>1, Sizes, ModRange DEF MsgCell
      <3>4. msg_queue[t][MsgCell(i)] = i + 1
        BY <3>1 DEF QueueOrdered
      <3> QED
        BY <2>6, <3>2, <3>3, <3>4
    <2>8. /\ Len(taken'[t]) = r + 1
          /\ \A i \in 1 .. (r + 1) : taken'[t][i] = i
      <3>1. Len(taken[t]) = r /\ \A i \in 1 .. r : taken[t][i] = i
        BY DEF QueueOrdered
      <3> QED
        BY <2>1, <2>6, <3>1
    <2>9. ASSUME NEW i \in msg_remove'[t] .. (msg_insert'[t] - 1)
          PROVE  msg_queue'[t][MsgCell(i)'] = i + 1
      BY <2>4, <2>6, <2>7, <2>9 DEF MsgCell
    <2> QED
      BY <2>1, <2>4, <2>6, <2>8, <2>9, Sizes DEF QueueOrdered
  <1>4. CASE \E s \in Services \ {t} : service_callback(s) \/ Dequeue(s)
    BY <1>1, <1>4 DEF service_callback, Dequeue, TakeMessage, QueueTypes
  <1> QED
    BY <1>1, <1>2, <1>3, <1>4
    DEF Next, vars, queueVars, completionVars, DequeueWaits, CancelDequeue, completion_handler

LEMMA QueuesOrderedInit == Init => QueuesOrdered
  BY Sizes DEF Init, ServiceUserInit, CompletionInit, QueuesOrdered, QueueOrdered

\* An overrun queue stays one.
LEMMA OverrunStays ==
    ASSUME [Next]_vars
    PROVE  overrun \subseteq overrun'
  BY DEF Next, vars, service_callback, Dequeue, TakeMessage, DequeueWaits, CancelDequeue,
         completion_handler

LEMMA QueuesOrderedStep ==
    ASSUME TypeOK, QueuesOrdered, [Next]_vars
    PROVE  QueuesOrdered'
  <1> SUFFICES ASSUME NEW t \in Services, t \notin overrun' PROVE QueueOrdered(t)'
    BY DEF QueuesOrdered
  <1>1. QueueOrdered(t)
    BY OverrunStays DEF QueuesOrdered
  <1> QED
    BY <1>1, QueueTypesHold, QueueOrderedStep

\* A client gets all messages of its service in order, none twice and none left
\* out, until service_callback overwrites its full message queue.
THEOREM DeliveredInOrderHolds == Spec => []DeliveredInOrder
  <1>1. TypeOK /\ QueuesOrdered /\ [Next]_vars => QueuesOrdered'
    BY QueuesOrderedStep
  <1>2. QueuesOrdered => DeliveredInOrder
    BY DEF QueuesOrdered, QueueOrdered, DeliveredInOrder
  <1> QED
    BY QueuesOrderedInit, <1>1, <1>2, TypeCorrect, PTL DEF Spec

-----------------------------------------------------------------------------
(* Messages are delivered once, through an overwritten queue too. *)

\* The inductive invariant behind NoneDeliveredTwice: a message is in one cell
\* or was taken once, never both, and the next message is a new one.
MessagesApart(s) ==
    /\ \A c, d \in 0 .. (MsgQueueSize - 1) :
          msg_queue[s][c] # None /\ msg_queue[s][c] = msg_queue[s][d] => c = d
    /\ \A c \in 0 .. (MsgQueueSize - 1) :
          msg_queue[s][c] # None => msg_queue[s][c] <= msg_insert[s]
    /\ \A i \in 1 .. Len(taken[s]) : taken[s][i] <= msg_insert[s]
    /\ \A i \in 1 .. Len(taken[s]), c \in 0 .. (MsgQueueSize - 1) : taken[s][i] # msg_queue[s][c]
    /\ \A i, j \in 1 .. Len(taken[s]) : taken[s][i] = taken[s][j] => i = j

AllMessagesApart == \A s \in Services : MessagesApart(s)

\* A step neither puts an old message into a cell nor leaves a taken one there.
LEMMA MessagesApartStep ==
    ASSUME QueueTypes, NEW t \in Services, MessagesApart(t), [Next]_vars
    PROVE  MessagesApart(t)'
  <1> DEFINE Cells == 0 .. (MsgQueueSize - 1)
             q == msg_queue[t]
             n == msg_insert[t]
             got == taken[t]
  <1>0. /\ q \in [Cells -> Nat \cup {None}]
        /\ n \in Nat
        /\ got \in Seq(Nat)
        /\ None \notin Nat
    BY CompletionsAssumption DEF QueueTypes
  <1>1. CASE msg_queue'[t] = q /\ msg_insert'[t] = n /\ taken'[t] = got
    BY <1>1 DEF MessagesApart
  <1>2. CASE service_callback(t)
    <2>1. MsgCell(n) \in Cells
      BY Sizes, ModRange DEF QueueTypes, MsgCell
    <2>2. /\ msg_queue'[t] = [q EXCEPT ![MsgCell(n)] = n + 1]
          /\ msg_insert'[t] = n + 1
          /\ taken'[t] = got
      BY <1>2 DEF service_callback, QueueTypes
    <2>3. ASSUME NEW c \in Cells
          PROVE  msg_queue'[t][c] = IF c = MsgCell(n) THEN n + 1 ELSE q[c]
      BY <1>0, <2>1, <2>2
    <2>4. \A c \in Cells : q[c] # None => q[c] \in Nat /\ q[c] <= n
      BY <1>0 DEF MessagesApart
    <2>5. \A i \in 1 .. Len(got) : got[i] \in Nat /\ got[i] <= n
      BY <1>0 DEF MessagesApart
    <2> HIDE DEF q, n, got, Cells
    <2>6. \A c, d \in Cells :
             msg_queue'[t][c] # None /\ msg_queue'[t][c] = msg_queue'[t][d] => c = d
      <3>1. \A c, d \in Cells : q[c] # None /\ q[c] = q[d] => c = d
        BY DEF MessagesApart, q, Cells
      <3> QED
        BY <1>0, <2>3, <2>4, <3>1
    <2>7. \A c \in Cells : msg_queue'[t][c] # None => msg_queue'[t][c] <= n + 1
      BY <1>0, <2>3, <2>4
    <2>8. \A i \in 1 .. Len(got) : got[i] <= n + 1
      BY <1>0, <2>5
    <2>9. \A i \in 1 .. Len(got), c \in Cells : got[i] # msg_queue'[t][c]
      <3>1. \A i \in 1 .. Len(got), c \in Cells : got[i] # q[c]
        BY DEF MessagesApart, q, got, Cells
      <3> QED
        BY <1>0, <2>3, <2>5, <3>1
    <2> QED
      BY <2>2, <2>6, <2>7, <2>8, <2>9 DEF MessagesApart, q, n, got, Cells
  <1>3. CASE Dequeue(t)
    <2> DEFINE r == MsgCell(msg_remove[t])
    <2>1. r \in Cells
      BY Sizes, ModRange DEF QueueTypes, MsgCell
    <2>2. /\ msg_queue'[t] = [q EXCEPT ![r] = None]
          /\ msg_insert'[t] = n
          /\ taken'[t] = IF q[r] = None THEN got ELSE Append(got, q[r])
      BY <1>3 DEF Dequeue, TakeMessage, QueueTypes
    <2>3. ASSUME NEW c \in Cells
          PROVE  msg_queue'[t][c] = IF c = r THEN None ELSE q[c]
      BY <1>0, <2>1, <2>2
    <2>4. CASE q[r] = None
      <3>1. msg_queue'[t] = q
        BY <1>0, <2>1, <2>2, <2>4
      <3> QED
        BY <1>1, <2>2, <2>4, <3>1
    <2>5. CASE q[r] # None
      <3> DEFINE got2 == taken'[t]
      <3>1. /\ q[r] \in Nat
            /\ got2 = Append(got, q[r])
        BY <1>0, <2>1, <2>2, <2>5
      <3>2. /\ Len(got2) = Len(got) + 1
            /\ Len(got) \in Nat
            /\ got2[Len(got) + 1] = q[r]
            /\ \A i \in 1 .. Len(got) : got2[i] = got[i] /\ got[i] \in Nat
        BY <1>0, <3>1
      <3>3. \A i \in 1 .. Len(got2) : i \in 1 .. Len(got) \/ i = Len(got) + 1
        BY <3>2
      <3>4. /\ \A c, d \in Cells : q[c] # None /\ q[c] = q[d] => c = d
            /\ \A c \in Cells : q[c] # None => q[c] <= n
            /\ \A i \in 1 .. Len(got) : got[i] <= n
            /\ \A i \in 1 .. Len(got), c \in Cells : got[i] # q[c]
            /\ \A i, j \in 1 .. Len(got) : got[i] = got[j] => i = j
        BY DEF MessagesApart
      <3>a. \A c \in Cells : q[c] \in Nat \cup {None}
        BY <1>0
      <3> HIDE DEF q, n, got, got2, Cells, r
      <3>5. \A c, d \in Cells :
               msg_queue'[t][c] # None /\ msg_queue'[t][c] = msg_queue'[t][d] => c = d
        BY <2>3, <3>4
      <3>6. \A c \in Cells : msg_queue'[t][c] # None => msg_queue'[t][c] <= n
        BY <2>3, <3>4
      <3>7. \A i \in 1 .. Len(got2) : got2[i] <= n
        BY <2>1, <2>5, <3>2, <3>3, <3>4
      <3>8. \A i \in 1 .. Len(got2), c \in Cells : got2[i] # msg_queue'[t][c]
        <4>1. \A i \in 1 .. Len(got2) : got2[i] # None
          BY <1>0, <2>5, <3>2, <3>3
        <4>2. \A c \in Cells \ {r} : q[c] # q[r]
          BY <2>1, <2>5, <3>4
        <4> QED
          BY <2>3, <3>2, <3>3, <3>4, <4>1, <4>2
      <3>9. \A i, j \in 1 .. Len(got2) : got2[i] = got2[j] => i = j
        BY <2>1, <3>2, <3>3, <3>4
      <3> QED
        BY <2>2, <3>5, <3>6, <3>7, <3>8, <3>9 DEF MessagesApart, Cells, got2, n
    <2> QED
      BY <2>4, <2>5
  <1>4. CASE \E s \in Services \ {t} : service_callback(s) \/ Dequeue(s)
    BY <1>1, <1>4 DEF service_callback, Dequeue, TakeMessage, QueueTypes
  <1> QED
    BY <1>1, <1>2, <1>3, <1>4
    DEF Next, vars, queueVars, completionVars, DequeueWaits, CancelDequeue, completion_handler

LEMMA MessagesApartInit == Init => AllMessagesApart
  <1> SUFFICES ASSUME Init, NEW s \in Services PROVE MessagesApart(s)
    BY DEF AllMessagesApart
  <1>1. taken[s] = <<>> /\ \A c \in 0 .. (MsgQueueSize - 1) : msg_queue[s][c] = None
    BY DEF Init, ServiceUserInit
  <1> QED
    BY <1>1 DEF MessagesApart

\* dequeue_message hands out no message twice, although service_callback does
\* not wait for a free cell of a full message queue.
THEOREM NoneDeliveredTwiceHolds == Spec => []NoneDeliveredTwice
  <1>1. TypeOK /\ AllMessagesApart /\ [Next]_vars => AllMessagesApart'
    BY QueueTypesHold, MessagesApartStep DEF AllMessagesApart
  <1>2. AllMessagesApart => NoneDeliveredTwice
    BY DEF AllMessagesApart, MessagesApart, NoneDeliveredTwice
  <1> QED
    BY MessagesApartInit, <1>1, <1>2, TypeCorrect, PTL DEF Spec

-----------------------------------------------------------------------------
(* Wake-ups. *)

\* What the completion handler takes, it announces to the client.
LEMMA TakenIsNotified ==
    ASSUME RingTypes, PendingCovered, NoCompletionLost, completion_handler,
           NEW t \in Services, Announced(t) \/ t \in notified
    PROVE  Announced(t)' \/ t \in notified'
  <1>1. CASE MissingCompletion
    BY <1>1 DEF completion_handler, Announced, queueVars
  <1>2. CASE ~MissingCompletion
    <2>1. PICK k \in Nat : /\ TakenPositions = completion_remove .. (completion_remove + k - 1)
                           /\ Cardinality(TakenPositions) = k
      BY TakenIsInterval DEF PendingCovered
    <2>2. /\ completion_remove' = completion_remove + k
          /\ notified' = notified \cup {completions[i % MaxCompletions] : i \in TakenPositions}
          /\ message_available_pos' = message_available_pos
      BY <1>2, <2>1 DEF completion_handler, queueVars
    <2>3. CASE t \in notified
      BY <2>2, <2>3
    <2>4. CASE Announced(t) /\ message_available_pos[t] < completion_remove + k
      <3>1. message_available_pos[t] \in TakenPositions
        BY <2>1, <2>4 DEF Announced, RingTypes
      <3>2. completions[message_available_pos[t] % MaxCompletions] = t
        BY <2>4 DEF NoCompletionLost
      <3> QED
        BY <2>2, <3>1, <3>2
    <2>5. CASE Announced(t) /\ message_available_pos[t] >= completion_remove + k
      BY <2>2, <2>5 DEF Announced
    <2> QED
      BY <2>3, <2>4, <2>5 DEF RingTypes
  <1> QED
    BY <1>1, <1>2

\* The part of TypeOK that is about a waiting client.
ClientTypes ==
    /\ dequeue_pending \in [Services -> BOOLEAN]
    /\ reader \in [Services -> {"idle", "waiting"}]
    /\ msg_insert \in [Services -> Nat]
    /\ msg_remove \in [Services -> Nat]

LEMMA ClientTypesHold == TypeOK => ClientTypes
  BY DEF TypeOK, ClientTypes

\* A step loses no wake-up.
LEMMA NotificationStep ==
    ASSUME ClientTypes, RingTypes, PendingCovered, NoCompletionLost,
           NEW t \in Services, t \notin Impatient, Notification(t), [Next]_vars
    PROVE  Notification(t)'
  <1> DEFINE Told == Announced(t) \/ t \in notified
             Same == /\ msg_insert'[t] = msg_insert[t]
                     /\ msg_remove'[t] = msg_remove[t]
                     /\ dequeue_pending'[t] = dequeue_pending[t]
                     /\ reader'[t] = reader[t]
  <1>1. CASE Same /\ (Told => Told')
    BY <1>1 DEF Notification
  <1>2. CASE service_callback(t)
    <2>1. /\ msg_insert'[t] = msg_insert[t] + 1
          /\ UNCHANGED <<msg_remove, completion_remove, reader, notified>>
          /\ dequeue_pending'[t] = FALSE
      BY <1>2 DEF service_callback, ClientTypes, PendingAfter
    <2>2. msg_insert[t] \in Nat /\ msg_remove[t] \in Nat
      BY DEF ClientTypes
    <2>3. CASE AddsCompletion(t)
      <3>1. message_available_pos'[t] = completion_insert
        BY <1>2, <2>3 DEF service_callback, add_completion, RingTypes
      <3>2. Announced(t)'
        BY <2>1, <3>1 DEF Announced, PendingCovered
      <3> QED
        BY <2>1, <2>2, <3>2 DEF Notification
    <2>4. CASE Announced(t)
      <3>1. message_available_pos' = message_available_pos
        BY <1>2, <2>4 DEF service_callback, AddsCompletion
      <3>2. Announced(t)'
        BY <2>1, <2>4, <3>1 DEF Announced
      <3> QED
        BY <2>1, <2>2, <3>2 DEF Notification
    <2>5. CASE dequeue_pending[t] = TRUE
      <3>1. reader[t] = "waiting" /\ msg_insert[t] = msg_remove[t]
        BY <2>5 DEF Notification
      <3> QED
        BY <2>1, <2>2, <3>1 DEF Notification
    <2>6. dequeue_pending[t] \in BOOLEAN
      BY DEF ClientTypes
    <2> QED
      BY <2>3, <2>4, <2>5, <2>6 DEF AddsCompletion
  <1>3. CASE Dequeue(t)
    <2>1. /\ msg_insert[t] \in Nat /\ msg_remove[t] \in Nat
          /\ msg_remove[t] < msg_insert[t]
      BY <1>3 DEF Dequeue, Notification, ClientTypes
    <2>2. /\ msg_remove'[t] = msg_remove[t] + 1
          /\ reader'[t] = "idle"
          /\ UNCHANGED <<msg_insert, dequeue_pending, message_available_pos, completion_remove, notified>>
      BY <1>3 DEF Dequeue, TakeMessage, ClientTypes, completionVars
    <2>3. Told' <=> Told
      BY <2>2 DEF Announced
    <2> QED
      BY <2>1, <2>2, <2>3 DEF Notification
  <1>4. CASE DequeueWaits(t)
    BY <1>4 DEF DequeueWaits, Notification, ClientTypes
  <1>5. ASSUME NEW s \in Services \ {t}, service_callback(s) PROVE Notification(t)'
    <2>1. Same /\ notified' = notified /\ completion_remove' = completion_remove
      BY <1>5 DEF service_callback, ClientTypes
    <2>2. message_available_pos'[t] = message_available_pos[t]
      BY <1>5 DEF service_callback, add_completion, RingTypes
    <2> QED
      BY <1>1, <2>1, <2>2 DEF Announced
  <1>6. ASSUME NEW s \in Services \ {t}, Dequeue(s) \/ DequeueWaits(s) PROVE Notification(t)'
    <2>1. Same /\ (t \in notified => t \in notified')
      BY <1>6 DEF Dequeue, TakeMessage, DequeueWaits, ClientTypes
    <2>2. UNCHANGED <<completion_remove, message_available_pos>>
      BY <1>6 DEF Dequeue, TakeMessage, DequeueWaits, completionVars
    <2> QED
      BY <1>1, <2>1, <2>2 DEF Announced
  <1>7. CASE completion_handler
    <2>1. Same
      BY <1>7 DEF completion_handler, queueVars
    <2>2. Told => Told'
      BY <1>7, TakenIsNotified
    <2> QED
      BY <1>1, <2>1, <2>2
  <1>8. CASE UNCHANGED vars
    BY <1>1, <1>8 DEF vars, queueVars, completionVars, Announced
  <1>9. ASSUME NEW s \in Services, CancelDequeue(s) PROVE Notification(t)'
    <2>1. s # t
      BY <1>9 DEF CancelDequeue
    <2>2. Same /\ notified' = notified
      BY <1>9, <2>1 DEF CancelDequeue, ClientTypes, queueVars
    <2>3. UNCHANGED <<completion_remove, message_available_pos>>
      BY <1>9 DEF CancelDequeue, queueVars, completionVars
    <2> QED
      BY <1>1, <2>2, <2>3 DEF Announced
  <1> QED
    BY <1>2, <1>3, <1>4, <1>5, <1>6, <1>7, <1>8, <1>9 DEF Next

LEMMA NotificationsInit == Init => Notifications
  BY DEF Init, ServiceUserInit, CompletionInit, Notifications, Notification

\* No wake-up is lost: with a completion ring for all services, queued messages
\* nobody waits for are announced or have been announced to the client, if it
\* is one that does not drop a waiting dequeue_message; the other clients may.
THEOREM NoLostNotificationHolds == RingFits => (Spec => []NoLostNotification)
  <1> SUFFICES ASSUME RingFits PROVE Spec => []NoLostNotification
    OBVIOUS
  <1>1. TypeOK /\ PendingCovered /\ NoCompletionLost /\ Notifications /\ [Next]_vars
          => Notifications'
    BY ClientTypesHold, RingTypesHold, NotificationStep DEF Notifications
  <1>2. Notifications => NoLostNotification
    BY DEF Notifications, Notification, NoLostNotification, Remembered
  <1> QED
    BY NotificationsInit, <1>1, <1>2, TypeCorrect, PendingCoveredInvariant,
       NoCompletionLostHolds, PTL DEF Spec

-----------------------------------------------------------------------------
(* The unwrap()s. *)

\* await_completion finds a completion in every cell it takes.
LEMMA NothingMissing ==
    ASSUME RingFits, RingTypes, PendingCovered, NoCompletionLost
    PROVE  ~MissingCompletion
  <1>1. ASSUME NEW i \in TakenPositions PROVE completions[i % MaxCompletions] # None
    <2>1. i \in completion_remove .. (completion_insert - 1)
      BY <1>1 DEF TakenPositions
    <2>2. PICK s \in Services : message_available_pos[s] = i
      BY <2>1 DEF PendingCovered
    <2>3. completions[i % MaxCompletions] = s
      BY <2>1, <2>2 DEF NoCompletionLost, Announced, RingTypes
    <2> QED
      BY <2>3, CompletionsAssumption
  <1>2. Cardinality(TakenPositions) <= MaxCompletions
    <2>1. PICK k \in Nat : /\ k <= completion_insert - completion_remove
                           /\ Cardinality(TakenPositions) = k
      BY TakenIsInterval DEF PendingCovered
    <2>2. completion_insert - completion_remove <= Cardinality(Services)
      BY WindowBound DEF PendingCovered
    <2> QED
      BY <2>1, <2>2, FiniteServices, Sizes DEF RingFits, RingTypes
  <1>3. Cardinality(TakenPositions) \in Nat
    BY TakenIsInterval DEF PendingCovered
  <1> QED
    BY <1>1, <1>2, <1>3, Sizes DEF MissingCompletion

\* dequeue_message finds a message in the cell it takes.
LEMMA MessageThere ==
    ASSUME QueueTypes, NEW s \in Services, QueueOrdered(s), msg_remove[s] # msg_insert[s]
    PROVE  msg_queue[s][MsgCell(msg_remove[s])] # None
  <1>1. /\ msg_remove[s] \in msg_remove[s] .. (msg_insert[s] - 1)
        /\ msg_remove[s] + 1 \in Nat
    BY DEF QueueOrdered, QueueTypes
  <1>2. msg_queue[s][MsgCell(msg_remove[s])] = msg_remove[s] + 1
    BY <1>1 DEF QueueOrdered
  <1> QED
    BY <1>1, <1>2, CompletionsAssumption

\* Every message counted as removed was taken, until an unwrap() fails.
RemovedWereTaken == ~panicked => \A s \in Services : Len(taken[s]) = msg_remove[s]

LEMMA RemovedWereTakenStep ==
    ASSUME QueueTypes, RemovedWereTaken, [Next]_vars
    PROVE  RemovedWereTaken'
  <1>1. CASE UNCHANGED <<taken, msg_remove>> /\ (panicked => panicked')
    BY <1>1 DEF RemovedWereTaken
  <1>2. ASSUME NEW s \in Services, Dequeue(s), ~panicked' PROVE RemovedWereTaken'
    <2> DEFINE cell == msg_queue[s][MsgCell(msg_remove[s])]
    <2>1. /\ ~panicked /\ cell # None
          /\ taken' = [taken EXCEPT ![s] = Append(@, cell)]
          /\ msg_remove' = [msg_remove EXCEPT ![s] = @ + 1]
      BY <1>2 DEF Dequeue, TakeMessage
    <2>2. \A t \in Services : Len(taken[t]) = msg_remove[t]
      BY <2>1 DEF RemovedWereTaken
    <2>3. /\ cell \in Nat
          /\ taken[s] \in Seq(Nat)
      <3>1. MsgCell(msg_remove[s]) \in 0 .. (MsgQueueSize - 1)
        BY Sizes, ModRange DEF QueueTypes, MsgCell
      <3>2. cell \in Nat \cup {None}
        BY <3>1 DEF QueueTypes
      <3> QED
        BY <2>1, <3>2 DEF QueueTypes
    <2> HIDE DEF cell
    <2>4. Len(taken'[s]) = msg_remove'[s]
      <3>1. taken'[s] = Append(taken[s], cell) /\ msg_remove'[s] = msg_remove[s] + 1
        BY <2>1 DEF QueueTypes
      <3>2. Len(Append(taken[s], cell)) = Len(taken[s]) + 1
        BY <2>3
      <3> QED
        BY <2>2, <3>1, <3>2
    <2>5. \A t \in Services \ {s} : Len(taken'[t]) = msg_remove'[t]
      BY <2>1, <2>2 DEF QueueTypes
    <2> QED
      BY <2>4, <2>5 DEF RemovedWereTaken
  <1>3. CASE panicked'
    BY <1>3 DEF RemovedWereTaken
  <1> QED
    BY <1>1, <1>2, <1>3
    DEF Next, vars, queueVars, service_callback, DequeueWaits, CancelDequeue, completion_handler

LEMMA RemovedWereTakenInit == Init => RemovedWereTaken
  BY DEF Init, ServiceUserInit, RemovedWereTaken

\* When the unwrap() of dequeue_message fails, its queue has been overwritten.
LEMMA DequeuePanics ==
    ASSUME QueueTypes, QueuesOrdered, RemovedWereTaken, ~panicked,
           NEW s \in Services, Dequeue(s), panicked'
    PROVE  FoundEmpty(s)'
  <1>1. /\ msg_queue[s][MsgCell(msg_remove[s])] = None
        /\ msg_remove[s] # msg_insert[s]
        /\ UNCHANGED <<taken, overrun>>
        /\ msg_remove' = [msg_remove EXCEPT ![s] = @ + 1]
    BY DEF Dequeue, TakeMessage
  <1>2. s \in overrun
    BY <1>1, MessageThere DEF QueuesOrdered
  <1>3. Len(taken[s]) = msg_remove[s] /\ msg_remove[s] \in Nat /\ msg_remove'[s] = msg_remove[s] + 1
    BY <1>1 DEF RemovedWereTaken, QueueTypes
  <1> QED
    BY <1>1, <1>2, <1>3 DEF FoundEmpty

\* Neither take().unwrap() fails, the one of await_completion on the
\* completion ring and the one of dequeue_message on a message queue that
\* service_callback has not overwritten, if MAX_COMPLETIONS is at least the
\* number of services.
THEOREM NoPanicHolds == RingFits => (Spec => []NoPanic)
  <1> SUFFICES ASSUME RingFits PROVE Spec => []NoPanic
    OBVIOUS
  <1>1. Init => NoPanic
    BY DEF Init, ServiceUserInit, CompletionInit, NoPanic
  <1>2. TypeOK /\ PendingCovered /\ NoCompletionLost /\ QueuesOrdered /\ RemovedWereTaken
          /\ NoPanic /\ [Next]_vars
          => NoPanic'
    <2> SUFFICES ASSUME TypeOK, PendingCovered, NoCompletionLost, QueuesOrdered, RemovedWereTaken,
                        NoPanic, [Next]_vars
                 PROVE  NoPanic'
      OBVIOUS
    <2>1. CASE UNCHANGED vars
      BY <2>1 DEF vars, queueVars, NoPanic, FoundEmpty
    <2>2. ASSUME Next, panicked' PROVE NoPanic'
      <3>1. ~panicked
        BY <2>2 DEF Next
      <3>2. ASSUME NEW s \in Services, Dequeue(s) PROVE NoPanic'
        BY <2>2, <3>1, <3>2, QueueTypesHold, DequeuePanics DEF NoPanic
      <3>3. ASSUME completion_handler PROVE FALSE
        BY <2>2, <3>1, <3>3, RingTypesHold, NothingMissing DEF completion_handler
      <3> QED
        BY <2>2, <3>1, <3>2, <3>3 DEF Next, service_callback, DequeueWaits, CancelDequeue
    <2>3. CASE ~panicked'
      BY <2>3 DEF NoPanic
    <2> QED
      BY <2>1, <2>2, <2>3
  <1>3. TypeOK /\ QueuesOrdered /\ [Next]_vars => QueuesOrdered'
    BY QueuesOrderedStep
  <1>4. TypeOK /\ RemovedWereTaken /\ [Next]_vars => RemovedWereTaken'
    BY QueueTypesHold, RemovedWereTakenStep
  <1> QED
    BY QueuesOrderedInit, RemovedWereTakenInit, <1>1, <1>2, <1>3, <1>4, TypeCorrect,
       PendingCoveredInvariant, NoCompletionLostHolds, PTL DEF Spec
=============================================================================
