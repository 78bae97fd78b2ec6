----------------------------- MODULE Completions -----------------------------
(***************************************************************************)
(* How a DATA message gets from the slot handler to a client               *)
(* (vchiq/instance/mod.rs, vchiq/instance/completion.rs,                   *)
(* vchi/completion.rs): service_callback puts it into the message queue of *)
(* its service and, unless the client knows already, a completion into the *)
(* ring shared by all services; the completion handler takes completions   *)
(* and invokes the clients' callbacks; dequeue_message takes the messages. *)
(*                                                                         *)
(* Every action is one poll of a task: a task gives up its core only where *)
(* it returns Pending.  The permits of insert_event and remove_event are   *)
(* left out: they are taken with try_down() and no branch depends on them. *)
(* All services are vchi services: vchi::Instance sets no base callback.   *)
(***************************************************************************)
EXTENDS Integers, Sequences, FiniteSets

CONSTANTS
    Services,        \* the services of the instance
    MsgQueueSize,    \* MSG_QUEUE_SIZE
    MaxCompletions,  \* MAX_COMPLETIONS
    Batch,           \* the completions the completion handler takes at most at once
    MaxMessages,     \* bound: messages the VideoCore sends to each service
    Impatient,       \* the services whose client may drop the future of a dequeue_message
    None             \* an empty cell of a ring

ASSUME CompletionsAssumption ==
    /\ MsgQueueSize \in Nat \ {0}
    /\ MaxCompletions \in Nat \ {0}
    /\ Batch \in Nat \ {0}
    /\ MaxMessages \in Nat
    /\ IsFiniteSet(Services)
    /\ Impatient \subseteq Services
    /\ None \notin Services
    /\ None \notin Nat

VARIABLES
    msg_queue,              \* ServiceUser::msg_queue, a ring of messages, per service
    msg_insert,             \* ServiceUser::msg_insert, per service
    msg_remove,             \* ServiceUser::msg_remove, per service
    message_available_pos,  \* ServiceUser::message_available_pos, per service
    dequeue_pending,        \* ServiceUser::dequeue_pending, per service
    completions,            \* Completion::completions, a ring of services
    completion_insert,      \* Completion::completion_insert
    completion_remove,      \* Completion::completion_remove
    reader,                 \* what the client's dequeue_message of a service does
    panicked,               \* an unwrap() of the code failed
    taken,                  \* history: what the client dequeued, per service
    overrun,                \* history: services whose full message queue was overwritten
    notified                \* history: services whose client was called back since it last found its queue empty

queueVars      == <<msg_queue, msg_insert, msg_remove, message_available_pos, dequeue_pending>>
completionVars == <<completions, completion_insert, completion_remove>>
vars == <<queueVars, completionVars, reader, panicked, taken, overrun, notified>>

\* The ServiceUser that create_service makes for each service.
ServiceUserInit ==
    /\ msg_queue = [s \in Services |-> [i \in 0 .. (MsgQueueSize - 1) |-> None]]
    /\ msg_insert = [s \in Services |-> 0]
    /\ msg_remove = [s \in Services |-> 0]
    /\ message_available_pos = [s \in Services |-> -1]
    /\ dequeue_pending = [s \in Services |-> FALSE]

\* Completion::default
CompletionInit ==
    /\ completions = [i \in 0 .. (MaxCompletions - 1) |-> None]
    /\ completion_insert = 0
    /\ completion_remove = 0

Init ==
    /\ ServiceUserInit
    /\ CompletionInit
    /\ reader = [s \in Services |-> "idle"]
    /\ panicked = FALSE
    /\ taken = [s \in Services |-> <<>>]
    /\ overrun = {}
    /\ notified = {}

-----------------------------------------------------------------------------
\* Mutant: the mask of the message queue is too short.
MsgCellShort(pos) == pos % (MsgQueueSize - 1)

\* The cell of a position of a message queue.
MsgCell(pos) == pos % MsgQueueSize

\* A MESSAGE_AVAILABLE of s is in the completion ring.
Announced(s) == message_available_pos[s] >= completion_remove

\* Mutant: the position is not masked.
add_completion_unmasked(s) ==
    /\ completions' = [i \in DOMAIN completions \cup {completion_insert} |->
                         IF i = completion_insert THEN s ELSE completions[i]]
    /\ message_available_pos' = [message_available_pos EXCEPT ![s] = completion_insert]
    /\ completion_insert' = completion_insert + 1

\* Completion::add_completion with the reason MESSAGE_AVAILABLE.  A full ring
\* is overwritten.
add_completion(s) ==
    /\ completions' = [completions EXCEPT ![completion_insert % MaxCompletions] = s]
    /\ message_available_pos' = [message_available_pos EXCEPT ![s] = completion_insert]
    /\ completion_insert' = completion_insert + 1

\* service_callback found the message queue full.  It does not wait: the next
\* message overwrites the oldest one.
QueueFull(s) == msg_insert[s] = msg_remove[s] + MsgQueueSize

\* Mutant: a pending completion of the service is not looked for.
AddsAlways(s) == QueueFull(s) \/ ~dequeue_pending[s]

\* The two places that add a completion: the extra one for a full queue, and
\* the regular one unless it is skipped.  After the first the second is.
AddsCompletion(s) == ~Announced(s) /\ (QueueFull(s) \/ ~dequeue_pending[s])

\* Mutant: the flag stays set.
PendingKept(s) == dequeue_pending[s]

\* The flag is reset when a completion is skipped because of it, and was not
\* set when none is skipped.
PendingAfter(s) == FALSE

\* The slot handler received a DATA message for s and invokes service_callback.
\* The n-th message of a service is the number n.
service_callback(s) ==
    /\ msg_insert[s] < MaxMessages
    /\ msg_queue' = [msg_queue EXCEPT ![s][MsgCell(msg_insert[s])] = msg_insert[s] + 1]
    /\ msg_insert' = [msg_insert EXCEPT ![s] = @ + 1]
    /\ IF AddsCompletion(s)
       THEN add_completion(s)
       ELSE UNCHANGED <<completions, message_available_pos, completion_insert>>
    /\ dequeue_pending' = [dequeue_pending EXCEPT ![s] = PendingAfter(s)]
    /\ overrun' = IF QueueFull(s) THEN overrun \cup {s} ELSE overrun
    /\ UNCHANGED <<msg_remove, completion_remove, reader, panicked, taken, notified>>

-----------------------------------------------------------------------------
\* Mutant: the message is copied out of its cell and stays there.
TakeMessageCopies(s) ==
    LET cell == msg_queue[s][MsgCell(msg_remove[s])]
    IN  /\ msg_remove' = [msg_remove EXCEPT ![s] = @ + 1]
        /\ taken' = [taken EXCEPT ![s] = Append(@, cell)]
        /\ reader' = [reader EXCEPT ![s] = "idle"]
        /\ UNCHANGED <<msg_queue, msg_insert, message_available_pos, dequeue_pending,
                       completionVars, panicked, overrun, notified>>

\* The part of Instance::dequeue_message behind the wait.
TakeMessage(s) ==
    LET cell == msg_queue[s][MsgCell(msg_remove[s])]
    IN  /\ msg_remove' = [msg_remove EXCEPT ![s] = @ + 1]
        /\ msg_queue' = [msg_queue EXCEPT ![s][MsgCell(msg_remove[s])] = None]
        /\ IF cell = None
           THEN panicked' = TRUE /\ UNCHANGED taken
           ELSE taken' = [taken EXCEPT ![s] = Append(@, cell)] /\ UNCHANGED panicked
        /\ reader' = [reader EXCEPT ![s] = "idle"]
        /\ UNCHANGED <<msg_insert, message_available_pos, dequeue_pending, completionVars, overrun, notified>>

\* A poll of dequeue_message, the first or a later one, that finds a message.
Dequeue(s) ==
    /\ msg_remove[s] # msg_insert[s]
    /\ TakeMessage(s)

\* The first poll of a dequeue_message that finds no message.
DequeueWaits(s) ==
    /\ reader[s] = "idle"
    /\ msg_remove[s] = msg_insert[s]
    /\ reader' = [reader EXCEPT ![s] = "waiting"]
    /\ dequeue_pending' = [dequeue_pending EXCEPT ![s] = TRUE]
    /\ notified' = notified \ {s}
    /\ UNCHANGED <<msg_queue, msg_insert, msg_remove, message_available_pos, completionVars,
                   panicked, taken, overrun>>

\* The client drops the future of a waiting dequeue_message.  Nothing is undone.
CancelDequeue(s) ==
    /\ s \in Impatient
    /\ reader[s] = "waiting"
    /\ reader' = [reader EXCEPT ![s] = "idle"]
    /\ UNCHANGED <<queueVars, completionVars, panicked, taken, overrun, notified>>

-----------------------------------------------------------------------------
\* Mutant: the end of the filled part is not looked for.
TakenBeyondInsert == completion_remove .. (completion_remove + Batch - 1)

\* The positions Instance::await_completion(Batch) takes.
TakenPositions ==
    {i \in completion_remove .. (completion_insert - 1) : i < completion_remove + Batch}

\* take().unwrap() of a completion that another one overwrote.
MissingCompletion ==
    \/ \E i \in TakenPositions : completions[i % MaxCompletions] = None
    \/ Cardinality(TakenPositions) > MaxCompletions

\* A poll of completion_handler that finds completions: it takes them and
\* invokes the callback of each one's service.  The lock of the map of services
\* that it takes for each callback is added by the module Vchi.
completion_handler ==
    /\ completion_remove # completion_insert
    /\ IF MissingCompletion
       THEN /\ panicked' = TRUE
            /\ UNCHANGED <<completions, completion_remove, notified>>
       ELSE /\ completions' = [k \in DOMAIN completions |->
                  IF \E i \in TakenPositions : k = i % MaxCompletions THEN None ELSE completions[k]]
            /\ completion_remove' = completion_remove + Cardinality(TakenPositions)
            /\ notified' = notified \cup {completions[i % MaxCompletions] : i \in TakenPositions}
            /\ UNCHANGED panicked
    /\ UNCHANGED <<queueVars, completion_insert, reader, taken, overrun>>

-----------------------------------------------------------------------------
Next ==
    /\ ~panicked
    /\ \/ \E s \in Services :
             service_callback(s) \/ Dequeue(s) \/ DequeueWaits(s) \/ CancelDequeue(s)
       \/ completion_handler

Spec == Init /\ [][Next]_vars

-----------------------------------------------------------------------------
\* The values of the variables.
TypeOK ==
    /\ msg_queue \in [Services -> [0 .. (MsgQueueSize - 1) -> Nat \cup {None}]]
    /\ msg_insert \in [Services -> Nat]
    /\ msg_remove \in [Services -> Nat]
    /\ message_available_pos \in [Services -> Int]
    /\ dequeue_pending \in [Services -> BOOLEAN]
    /\ completions \in [0 .. (MaxCompletions - 1) -> Services \cup {None}]
    /\ completion_insert \in Nat
    /\ completion_remove \in Nat
    /\ reader \in [Services -> {"idle", "waiting"}]
    /\ panicked \in BOOLEAN
    /\ taken \in [Services -> Seq(Nat)]
    /\ overrun \subseteq Services
    /\ notified \subseteq Services

\* A client gets the messages of its service in the order they arrived, none
\* twice and none left out, through a ring that wraps around, until
\* service_callback overwrites the oldest message of a full queue.
DeliveredInOrder ==
    \A s \in Services \ overrun :
        /\ Len(taken[s]) = msg_remove[s]
        /\ \A i \in 1 .. Len(taken[s]) : taken[s][i] = i

\* No message reaches its client twice, not even through a queue that
\* service_callback has overwritten: the cells then are out of step with
\* msg_remove, and dequeue_message may take a newer message before an older one.
NoneDeliveredTwice ==
    \A s \in Services : \A i, j \in 1 .. Len(taken[s]) : taken[s][i] = taken[s][j] => i = j

\* The completion ring holds at most one completion per service, so the ring
\* that add_completion does not guard cannot overflow before there are more
\* than MAX_COMPLETIONS services with messages.
OnePerService == completion_insert - completion_remove <= Cardinality(Services)

\* Every pending completion is in the ring, unharmed: the completion handler
\* finds it and calls the client whose message it announces.
NoCompletionLost ==
    \A s \in Services :
        Announced(s) => /\ completions[message_available_pos[s] % MaxCompletions] = s
                        /\ message_available_pos[s] < completion_insert

\* While messages of a service are queued and no dequeue waits for them, a
\* completion of the service is pending or its client has been called back
\* since it last found the queue empty.
Remembered(s) ==
    reader[s] = "idle" /\ msg_insert[s] # msg_remove[s] => Announced(s) \/ s \in notified

\* No wake-up of service_callback and the completion handler is lost, for the
\* clients that await dequeue_message to its end, whatever the others do.
NoLostNotification == \A s \in Services \ Impatient : Remembered(s)

\* dequeue_message counted a message of an overwritten queue and found its cell
\* empty.
FoundEmpty(s) == s \in overrun /\ Len(taken[s]) # msg_remove[s]

\* No unwrap() on an emptied cell of a ring fails, but for the one of
\* dequeue_message on a message queue that has been overwritten.
NoPanic == panicked => \E s \in Services : FoundEmpty(s)

-----------------------------------------------------------------------------
\* "if there is another "thread" waiting in DEQUEUE_MESSAGE, or if there is a
\* MESSAGE_AVAILABLE in the completion queue then bypass": service_callback
\* leaves the completion out only when the client learns of the message anyway.
BypassIsSafe == \A s \in Services : Remembered(s)
=============================================================================
