# Verification of ruspiro-vchiq

ruspiro-vchiq is a bare-metal Rust crate with which the ARM of a Raspberry Pi
talks to its VideoCore. The two processors share a memory region divided into
slots. Each side appends messages to its own slots and publishes how far it got
in a counter; the other side reads up to that counter. On top of this stream
the crate multiplexes services, each a connection between a local and a remote
port, and hands received messages to the clients of the services.

The project holds TLA+ models of the parts of the crate that carry this
protocol, TLC configurations that check them on small instances, and TLAPS
proofs for instances of every size. Paths below are relative to the
repository's root; `src/lib.rs` declares the modules `types`, `vchi` and `vchiq`,
so `src/state copy.rs`, `src/instance.rs` and `src/completionhandler.rs` are not
compiled and not considered.

## 1. The system

| Part | State | Operations | Talks to |
|---|---|---|---|
| Message format (`vchiq/shared/slotmessage.rs`) | none | `calc_msg_stride`, `make_msg_id`, `*_from_id` | everything |
| Slot zero (`vchiq/shared/slotzero.rs`) | layout of the slots, `slot_queue` | `initialize` | both processors |
| Transmit path (`vchiq/state.rs`) | `local_tx_pos`, `tx_data`, slot memory, `tx_pos`, quota counts | `queue_message`, `reserve_space` | VideoCore through memory, slot handler through the locks |
| Connection and services (`vchiq/state.rs`, `vchiq/service.rs`) | `conn_state`, service table, state/ports/`closing`/`remove_event` of each service | `connect`, `add_service`, `open_service`, `close_service`, `close_service_complete`, `free_service` | slot handler through semaphores |
| Slot handler (`vchiq/slothandler.rs`) | `rx_pos`, `rx_data` | one poll of `slot_handler` | raises the events the others wait for, calls `service_callback` |
| Completions (`vchiq/instance/`) | ring of completions, ring of messages per service, `dequeue_pending`, `message_available_pos` | `service_callback`, `add_completion`, `await_completion`, `dequeue_message` | slot handler, completion handler, clients |
| VCHI layer (`vchi/`) | map of services and its lock | `connect`, `service_open`, `service_close`, `queue_message`, `dequeue_message`, `completion_handler` | clients |
| Events and doorbell (`vchiq/shared/event.rs`, `vchiq/doorbell.rs`) | `armed`, `fired` | `signal_remote`, `ring_vc_doorbell` | VideoCore |

**Scheduling.** All code runs in tasks of a cooperative executor (ruspiro-brain).
A task gives up its core only where it returns `Pending`; everything else is
atomic with respect to the other tasks of the same core. `queue_message` is an
`async fn` without a suspension point, so on one core a call runs to its end.
The crate is written for an executor that runs on every core (`src/main.rs:80`,
`unsafe impl Sync for State`); the shipped build leaves the `multicore` feature
of its dependency off. Both situations are checked: where the code releases its
locks, a second core may step in.

**What is hard.**
The transmit path derives three things (position, quota, what the VideoCore
sees) from one counter in three separately locked phases. The open and close
handshakes cross messages of the other side. The completion path avoids
redundant wake-ups with two flags that must never be stale. Rings and slots are
bounded and partly unguarded. Waits are done with blocking semaphores in places.
`PROJECT.json` lists each of these hazards at its line with the properties that
watch it.

**What makes each part correct.**

* Transmit: messages lie in the ARM's own slots and stay intact; the VideoCore
  sees each published message once, whole, in order; quota counts are the number
  of slots in use; no data of a closing service.
* Services: every operation ends; no message meets a service in a state the
  dispatcher cannot handle; nothing is on its way for a freed port; data goes to
  the peer that accepted the service.
* Receive: the handler reads the message at `rx_pos`, follows the VideoCore's
  stream in order and stops where it should.
* VCHI: nobody spins on the lock of the service map for ever; the completion
  handler finds the service of every completion; the map follows the services
  below it; connect, open and close return; a message reaches its client.
* Events: the VideoCore never sleeps over a published message.
* Completions: messages reach the client in order and at most once, none lost
  unless its queue was overwritten; no wake-up is lost; only an overwritten queue
  runs into an emptied cell.

## 2. The modules

| Module | Models |
|---|---|
| `SlotMessage` | the wire format, as pure operators |
| `SlotZero` | the division of the slots and the initial `slot_queue` |
| `Slots` | the slot memory, positions and addresses, `store_message` |
| `MessageStream` | abstract: one direction of the slots is a queue of messages |
| `Transmit` | `queue_message` and `reserve_space`, memory cells and quotas included, against a reading VideoCore |
| `Services` | connection, service table and dispatch of the slot handler, against a VideoCore that follows the protocol |
| `Receive` | `rx_pos`, `rx_data` and the slot choice of the slot handler, against a writing VideoCore |
| `Completions` | `service_callback`, the two kinds of rings, the completion handler, `dequeue_message` |
| `Vchi` | `vchi::Instance` and its map of services, over `Completions` |
| `RemoteEvent` | `signal_remote` and the doorbell, one access to the event words at a time, against a VideoCore that arms and sleeps |
| `Signals` | `Transmit` composed with `RemoteEvent` |
| `SlotsProofs` | lemmas about `Slots` that both directions use |
| `TransmitProofs`, `SignalsProofs`, `RemoteEventProofs`, `ReceiveProofs`, `ServicesProofs`, `CompletionsProofs`, `VchiProofs` | the theorems and lemmas about the modules they are named after |
| `MCTransmit`, `MCSignals`, `MCReceive`, `MCServices`, `MCCompletions`, `MCVchi` | the instances for TLC |

### Transmit

The variables carry the names of the fields. `slot_data` is the shared memory in
cells of eight bytes, the granularity of every stride; a cell is a header, a part
of a payload, or unwritten, with the message it belongs to. A call of
`queue_message` is up to three actions of its core, one per phase between which
the code drops its locks:

1. `Refuse`, `WaitForQuota` or `WithinQuota`: the checks under the read guards (DATA only);
2. `Reserve`: `reserve_space`, padding and the assertion included;
3. `Store`: store, count, publish, signal.

A failed assertion sets `panicked`, after which the ARM does nothing more.
`WaitForQuota` keeps the read guards, so `Unlocked` is false and no action that
needs a write lock (or the slot handler's `try_lock`) is enabled. The
permits of the two quota semaphores are not variables: there never is one to
take (see the comment of `WaitForQuota`).

The callers of `queue_message` are there as far as they decide what is queued
when: `Connect`, `AddService` (which also resets `previous_tx_index`),
`OpenService`, `CloseService`, `QueueMessage`, and the slot handler's two
effects on them, `Opened` and `PeerCloses`. `VcReads` is the VideoCore, an
external component: it reads the message at its position, goes on by its stride
and skips padding. `VcReadsUnwritten` is what it may make of memory that is
published before it is written (zeros read as an empty padding message).

`sent` and `padded` are history variables. `Stream` instantiates `MessageStream`
with the queued messages as accepted and what the VideoCore read as delivered;
the promise ends (`corrupted`) when a padding header was stored, because that is
the one known way the code breaks it.

### Receive

A poll of `slot_handler` is `BeginPoll` (it reads `tx_pos` once), one action per
iteration of its loop, and `EndPoll`. The VideoCore, external, writes
concurrently: `VcWrites` in the current slot, `VcPadsAndWrites` when the message
does not fit. It stops at the end of its slots, since the ARM gives none back.
An iteration finds a header (`ReadMessage`), something else (`ReadGarbage`), or an
entry of `slot_queue` that is not set (`ReadUnset`, the assertion of
`read_message`). Bytes that are no header may pass for a message of any type and of
any size in `GarbageSizes`, which may be larger than a slot (`GarbageMsgs`), or end
in a panic: no message type, an unimplemented one, a port without a service. A
position that such a size moves beyond its slot is masked when it is read
(`Address`), as `read_message` masks it.

The handler picks a new slot with the `tx_pos` it saw instead of `rx_pos`
(`slothandler.rs:42`). `misread` records that it read somewhere else than at
`rx_pos`; the properties of `receive` are stated until then. They are not empty:
a handler that is polled while the VideoCore is inside each slot reads right
through all of them. `Stream` instantiates `MessageStream` with `misread` as the
end of the promise.

### Services

The two directions are queues of message ids, built and taken apart with
`make_msg_id` and `*_from_id` as in the code, unmasked ports included.
`vchi::Instance` takes `&mut self` to connect, open and close, so at most one of
these is in progress (`client`); each is split at its only suspension point into
a `Begin` and an `End` action. The slot handler handles one message per
action, a finer grain than the code's loop over all available messages. Every
`todo!()` sets `panicked`.

The VideoCore is external: it accepts or refuses an OPEN, answers CONNECT and
CLOSE, sends DATA while a connection is open, and closes the services of the
ports in `PeerCloses` on its own. It does not send the bulk and power management messages, for
which the code has `unimplemented!()`.

### Completions

An action is one poll of one task. `service_callback` is the slot handler's
call for a DATA message; the number of the message stands for its content.
`Dequeue` and `DequeueWaits` are the polls of `dequeue_message`, `CancelDequeue`
is a client that drops its future, `completion_handler` a poll of the task that
`vchi::Instance::connect` spawns. `Impatient` is the set of services whose
clients drop futures; what is said about wake-ups is said of the others. The permits of `insert_event` and
`remove_event` are left out: they are taken with `try_down()` and no branch
depends on the outcome.

The code has no flow control, and nor has the model: the VideoCore may write to
a full queue, where `service_callback` overwrites a message. `overrun` remembers
the services to which that happened; their messages may be lost or delivered
out of turn, and `dequeue_message` may find an emptied cell (`FoundEmpty`).

The completion handler here never meets a locked map. Its lock belongs to `Vchi`,
and so does everything that is said about progress: `Completions` states safety
only.

### Vchi

Extends `Completions` with the map of services and the vchiq state that
`connect`, `service_open` and `service_close` wait for (`conn_state`, `srvstate`
and the permits of their semaphores). Each of these calls is an action up to its
only wait, one for the answer the slot handler sees, and one for its return;
`call` is the call in progress. `CallDropped` is a client of `Impatient` that
drops the future at its wait: the messages it sent stay sent and their answers
arrive all the same. What follows is in the model: a second `connect` sends
nothing again and takes the permit of the first; a dropped `service_open` leaves
an open service that is in no map; a dropped `service_close` leaves the handle in
the map, and closing it again panics while the answer is outstanding
(`CloseAgain`, the `todo!()` of `state.rs:611`) and fails afterwards.
`open_service` returns `Ok` for a refused service (`state.rs:504`), so `OpenReturns`
puts it into the map and `CloseRefused` takes it out.

The guards of the map's lock are variables: `write_guard` is the `dequeue_message`
that waits with it, `read_guards` are the `service_close`s that do. An action that
takes a guard and keeps it across its await records it; the actions behind the
await give it up, `service_close` at the end of its block
(`GuardsAfterClose`), before its own `lock()`. Every `read()` and `lock()` of the
layer has a guard in the model (`ReadFree`, `WriteFree`): where it cannot be taken, the
client or the handler spins (`ClientSpins`, `HandlerSpins`), the `lock()`s behind the
waits of `service_open` and `service_close` included. One core polls all tasks, so a
task that spins ends everything (`spinning`). Which of them can spin is not built
in; `OnlyDequeueBlocks` says it.

`&mut self` of connect, open and close is `ExclusiveCall`,
`&self` of queue and dequeue `SharedCall`. `PeerClosed` is the VideoCore's CLOSE of a
service in `PeerCloses`: the service stays OPEN but refuses messages, and a later
`service_close` gets no answer. `Eager` names the services to which
the VideoCore writes unasked; to the others it writes after their client has
queued a message. `peek_buf` is never filled and left out.

### RemoteEvent and Signals

`RemoteEvent` has the two words of the trigger event, `fired` and `armed`, and the
doorbell. The ARM's side is `Publish` (`set_tx_pos`), `Fire` and `RingIfArmed`, the
two accesses of `signal_remote` that its barriers keep in order. The VideoCore is
external: its slot handler reads what is published and, when nothing is left,
looks at `fired`, arms, looks again and sleeps on a semaphore that its doorbell
interrupt raises. That is the protocol `EventAccessor<LocalEvent>` mirrors, except
that the ARM's own waits poll instead of sleeping. The two processors interleave
at every access.

`Signals` joins the event with `Transmit`: a core that stored and published its
message signals it before it does anything else, with `slot_state` locked, so no
other core takes a guard meanwhile (`TakesGuard`); the VideoCore reads only while
it is awake. `tx_pos` and the VideoCore's position are the `published` and `seen`
of the event, and `ImplementsTrigger` says that the composition is a behaviour of
`RemoteEvent`, so that what is proved there applies to it (section 4).

## 3. What TLC checks

Passing runs:

| Run | Shows |
|---|---|
| `transmit` | `OwnSlotsOnly`, `StreamIntact`, `DataQuotaExact`, `ServiceQuotaExact`, `NoDataAfterClosing`; that `Transmit` implements `MessageStream` until the first padding header, and that the VideoCore catches up (`EventuallyDelivered`) |
| `transmit_cores` | `Signals` with two cores in `queue_message` at once: they still write only their own space (`OwnSlotsOnly`, `StreamIntact`), use the event as `RemoteEvent` says, `tx_pos` never going back (`ImplementsTrigger`), and no wake-up of the VideoCore is lost (`NoLostWakeup`, and `WokenForMessages` under fairness) |
| `receive` | `NeverOvershoots`, `PositionsAgree`, `NoPanic`; that `Receive` implements `MessageStream` and handles everything (`EventuallyHandled`) until the first misread; after it, that headers are still looked for in the VideoCore's slots only (`TypeOK`) |
| `completions` | `OnePerService`, `NoCompletionLost`; `DeliveredInOrder` for a queue that was never overwritten, `NoneDeliveredTwice` for every queue, `NoPanic`: only an overwritten queue leads to one; `NoLostNotification` for the client that does not drop futures, whatever the other does |
| `services` | `NoPanic`, `FreePortQuiet`, `DataFindsPeer`, `DroppedOnlyWhenClosing`; `OperationsReturn`: connect, open and close return when the VideoCore answers, also when two CLOSE messages cross, except a close that is called after the VideoCore's own CLOSE was handled |
| `vchi` | `WaitKeepsService`, `OnlyDequeueBlocks`; `MapFollowsServices` for the client that drops nothing; `OnlyKnownPanics`; under fairness `CallsReturn`, except the close of a service that the VideoCore closed first, and `MessageReachesClient` as long as no task panics or spins for the lock |

Runs that end in a counterexample, each a statement of a comment that the code
does not keep:

| Run | What happens |
|---|---|
| `transmit_padding` | the padding header is stored over the header of the last message, since `tx_data` is where that message starts |
| `transmit_quota_wait` | waiting for a quota blocks with the locks held; the slot handler is locked out for ever |
| `completions_cancel` | a dropped `dequeue_message` leaves `dequeue_pending` set and the next message is not announced |
| `receive_slot` | a slot that is full, or left, before the handler looks is skipped: the handler starts in the slot of `tx_pos` |
| `vchi_stuck` | with one client and one service: a completion is pending, the client takes the message, calls `dequeue_message` again and waits with the write guard; the completion handler spins on the only core |
| `services_peer_close` | the VideoCore's CLOSE of an open service changes no state but `closing` and is not answered |

Limits of the code that the models contain, and that the passing runs and
theorems therefore name as a condition: slots are never recycled, so enough
traffic ends in the assertion of `state.rs:941` (`panicked` in `Transmit`) and
silences the VideoCore; a full message queue and a full completion ring are
overwritten (`overrun` and, below, `RingFits`); a client that closes a service
the VideoCore closed first waits for ever (`LostCause`, excepted in
`OperationsReturn` and `CallsReturn`); a waiting `dequeue_message` keeps the
completion handler from every other client (excepted in `MessageReachesClient`); the
completion handler panics on the first message of a service that `service_open`
has not put into the map, and on a completion left behind by a closed service;
`close_service` panics when it is called again after a dropped call
(`OnlyKnownPanics` says that there is no other way); a refused open counts as a
success, and only later calls fail; a payload longer than a slot is not refused
(`Transmit` assumes payloads that fit); with several cores,
`tx_pos` may be published over space that another core has reserved and not
written (`VcReadsUnwritten`), and the quota can be exceeded, since it is checked
and counted in different phases; as the check is an equality, it stops nobody once
the count is beyond the quota.

### Bounds

* `Transmit.cfg`: slots of 64 bytes, nine slots besides slot zero, of which the
  ARM queues four; data quota 3, service quota 2; payloads of half a slot. Small
  enough to use up the slots, reach each quota on its own, need padding from each
  service, and close in between. Nothing bounds the run: the assertion on the
  slots ends it. The other `Transmit*` instances use slots of 32 bytes.
  `transmit_cores` has two slots of the ARM and one payload of a whole slot, so
  every call of data enters a new slot and the slots run out; two cores and two
  services let an open, a close and data of different cores meet in every phase.
* `Receive*.cfg`: four slots of 32 bytes of the VideoCore; strides of half a slot
  and of three quarters, so slots end with and without padding. Garbage shows the
  size 0 or one beyond a slot. A handler that lost its way is followed up to
  `MaxRxPos`, two slots' worth; before a misread nothing bounds it.
* `Completions*.cfg`: rings of two entries; four messages per service wrap the
  rings twice, and two of them overrun a queue. Two services share the completion
  ring. `MaxMessages` is the bound of the counters. One client drops its futures.
* `Services*.cfg`: three ports (two in `services_peer_close`), so port 0, the
  special case of `slothandler.rs:75`, and others are used; the VideoCore closes
  the services of ports 0 and 1; `MaxInFlight` messages per direction.
* `Vchi.cfg`: message queues of one entry and two messages per service, so that a
  queue fills up, wraps and is overrun; two clients, of which one drops its calls, one eager
  service, one that the VideoCore closes. `VchiStuck.cfg` needs one service and one client.

`transmit_padding` and `completions_cancel`, which check one invariant and treat all
services alike, use the symmetry of the services.

Deadlock is not checked: each system may stop, when the slots are used up, the
message bound is reached, or all services are closed.

### Fairness

* `Transmit`: a call that was started goes on (nothing suspends it) and the
  VideoCore reads what is published. Nothing forces a client to start a call.
* `Completions`: none; its progress depends on the lock that `Vchi` has.
* `Receive`: the slot handler wakes itself at the end of every poll.
* `Signals`: a core inside `signal_remote` goes on (there is no suspension point);
  the VideoCore's slot handler runs and its doorbell interrupt is served. It is
  not assumed to read: `WokenForMessages` is what justifies that assumption of
  `Transmit`.
* `Vchi`: the completion handler, a waiting `dequeue_message` and the waits of
  connect, open and close call `wake_by_ref()` whenever they return `Pending`, so the
  executor polls them again, as long as no task spins or panics; a handler that is
  polled may spin, which is one of its steps. The VideoCore answers.
* `Services`: the same for the slot handler and the waits of the three
  operations; the VideoCore answers.

## 4. What TLAPS proves

Every invariant and every refinement of the passing runs is a theorem, for every
value of the constants that the `ASSUME`s of the modules allow: every layout of
the slots, every number of services and cores, every size of the rings. Where a
theorem has a further hypothesis, its table says so. Each proof strengthens the
property to an inductive invariant, which TLC checked on small instances before
it was proved, and has one lemma per action or group of actions.

`CompletionsProofs`, for every finite set of services, every size of the two
rings and every batch:

| Theorem | Under |
|---|---|
| `TypeCorrect` | no further assumption |
| `OnePerServiceHolds` | no further assumption |
| `NoCompletionLostHolds` | `RingFits`: at most `MAX_COMPLETIONS` services |
| `DeliveredInOrderHolds` | no further assumption; said of the queues outside `overrun` |
| `NoneDeliveredTwiceHolds` | no further assumption |
| `NoLostNotificationHolds` | `RingFits`; said of the clients outside `Impatient` |
| `NoPanicHolds` | `RingFits` |

`RingFits` is what the code lacks a guard for; without it the statements are
false.

The arguments:

* `PendingCovered`: every position between `completion_remove` and
  `completion_insert` is the `message_available_pos` of some service. The
  positions are distinct values of a function on the services, so there are at
  most as many as services (`OnePerService`). `service_callback` keeps it because
  it adds a completion only for a service whose own position has fallen behind
  `completion_remove`; if it did not look, one service could own two.
* `NoCompletionLost` is then inductive: with at most `MaxCompletions` pending
  positions, two of them never share a cell (`CellsDiffer`).
* `QueuesOrdered`: per service, the cells between `msg_remove` and `msg_insert` hold
  the messages in order, and what was taken is the prefix before them, as long as
  the queue was not overrun. The window is then at most the ring, so inserting
  never hits an occupied cell.
* `MessagesApart`: the messages taken and those in the cells are pairwise
  different and all older than the next one. A new message is different from
  all of them, and taking one moves it; no order and no window is needed, which
  is why this part survives an overrun.
* `RemovedWereTaken`: every message counted as removed was taken, until a panic. A
  difference between the two therefore shows that `dequeue_message` met an emptied
  cell, which by `QueuesOrdered` (`MessageThere`) happens only in an overrun queue.
* `Notifications`: a service with queued messages and no waiting reader is
  announced or notified; a set `dequeue_pending` implies that a reader waits on
  an empty queue. The second part is what makes the first inductive, and it is
  what dropping a future breaks.

`VchiProofs`, for every set of services and whatever calls the clients of
`Impatient` drop:

| Theorem | Under |
|---|---|
| `VchiTypeCorrect` | no further assumption |
| `WaitKeepsServiceHolds`, `OnlyDequeueBlocksHolds` | no further assumption |
| `MapFollowsServicesHolds` | no further assumption; said of the clients outside `Impatient` |
| `OnlyKnownPanicsHolds` | `RingFits` |
| `ClientsServedHolds`: what `CompletionsProofs` shows of delivery and wake-ups holds with the VCHI layer on top | `RingFits` |

The arguments:

* `LayerStep`: a step of this layer is a step of `Completions` or a panic that
  leaves the queues alone. It carries the invariants of `CompletionsProofs` over.
* `CallInv`: `Standing` ties, per service, the state of the vchiq service, its
  permit, its entry in the map and the call in progress. A permit with nobody
  waiting, and a service open behind the map's back, exist only when a client
  dropped a call; the map follows the services of the others because of that.
* `ConnectInv`: while `conn_state` is CONNECTING either one CONNECT is unanswered or
  its permit is up, otherwise neither. A connect that follows a dropped one therefore
  sends nothing again and finds the answer of the first.
* `LockInv`: a read guard belongs to the `service_close` in progress, the write
  guard to a waiting `dequeue_message`, and the two exclude each other. With it
  every `lock()` of a call with `&mut self` finds at most that call's own read guard,
  which its block has given up (`OnlySharedMeetsGuard`). That is `OnlyDequeueBlocks`.
* `WaitKeepsService` is inductive once `OthersKeepReaders` says that whatever
  changes the map has excluded a waiting reader (`&mut self`).
* `Expected`: a service was written to only because it is eager or was asked, and
  one that was asked is in the map until it is closed. With the rings in order
  (`RingsInv`) a completion taken from the ring was announced by a service, so
  the lookup of the completion handler fails only in the cases `OnlyKnownPanics`
  lists.

`TransmitProofs`, for every layout of the slots, every set of services and all
payload sizes that fit into a slot. The assumption `TransmitAssumption` also says that an OPEN
message (twelve bytes) fits into a slot, which 4096 byte slots satisfy:

| Theorem | Under |
|---|---|
| `TypeCorrect`, `OwnSlotsOnlyHolds`, `StreamIntactHolds` | no further assumption, any number of cores |
| `DataQuotaExactHolds`, `ServiceQuotaExactHolds`, `NoDataAfterClosingHolds`, `ImplementsStreamHolds` | `OneCore`: the shipped build |

`OneCore` is needed: between the checks, the reservation and the store the code
drops its locks, and with a second core in between the counted slot is not the
checked one, a service closes after the check, and messages are stored in
another order than their space was reserved.

The arguments:

* `TransmitInv`: reserved and read positions are multiples of eight, `tx_pos` is at most
  `local_tx_pos`, and every header in the memory has a size. Alignment is needed
  for the padding header (its size is never negative) and for the address at which
  the VideoCore looks (always a cell of the memory, `QueueInMemory`).
* `PlaceInv`: all space that `reserve_space` ever handed out, to messages stored
  and to cores about to store, is pairwise disjoint, below `local_tx_pos` and
  inside one slot each. Storing spares what is disjoint (`StoreSpares`), so only a
  padding header can touch a queued message.
* `QuotaInv`: a count is the number of slots in which DATA ends, and
  `previous_*_index` is the last of them, or, before the first, a slot that ended
  earlier (`Counted`). The check computes the slot the message will end in whether
  or not it is moved to the next slot (`EndIndexKept`), so a message that passed
  the check either stays in the counted slot or finds the count below the quota
  (`Allowed`).
* `ChainInv`: until the first padding header, the queued messages lie end to end,
  `tx_pos` is the end of the last one, and the VideoCore's position is the start
  of the next one it has not read. Each step then is a step of `MessageStream`.

`SignalsProofs` (with `RemoteEventProofs`), under the same assumptions, for any
number of cores:

| Theorem | Says |
|---|---|
| `SignalsKeepStream` | `OwnSlotsOnly` and `StreamIntact` hold with the signals word by word |
| `ImplementsTriggerHolds` | `Signals` implements `RemoteEvent` |
| `NoLostWakeupHolds` | no wake-up of the VideoCore is lost |

The arguments:

* `RemoteEventProofs` proves `NoLostWakeup` of the event alone. The inductive
  invariant `WakeInv` follows the two flags round the protocol. `UnreadFired`: a
  VideoCore that stopped reading with something left finds `fired` set or a core
  about to set it; it holds because publishing comes before `set_fired` and
  `fired` is reset only on the way back to reading. `ArmedUntilUp`: from arming to
  waking `armed` stays set unless the semaphore is up. `FiredRings`: a VideoCore
  asleep over a fired event has the bell on its way or a core about to look at
  `armed`, which by `ArmedUntilUp` it finds set. The first and the third together
  are the property.
* `SignalsProofs` maps the steps: storing is `Publish`, since the published
  position is the end of all reserved space and so does not go back; the two
  halves of `signal_remote` map to themselves; everything else the cores do leaves
  the event alone.

`ReceiveProofs`, for every layout of the slots and all payload sizes that fit, without
further assumption: `TypeCorrect`, `NeverOvershootsHolds`, `PositionsAgreeHolds`,
`NoPanicHolds`, `ImplementsStreamHolds`. All but the first are about the time
before the first misread, as the properties themselves are. The arguments:

* `TypeInv` holds whatever the handler reads, of whatever type and size: a stride
  is a multiple of eight, so the position stays aligned, its slot is kept until
  the next one is looked up, and the offset is masked when it is used
  (`HandleTypes`, `Readable`).
* `Layout`: from every header the next one is exactly one stride away, or is
  `tx_pos`; no header lies in between; messages are numbered in order, and padding
  stands only before a message. The VideoCore's two ways of writing extend it
  (`VcExtends`).
* `OnTrack`: `rx_pos` and the `tx_pos` the poll saw are both boundaries of that layout,
  in this order, and the message at `rx_pos` is the next one to handle. As there
  is no boundary inside a message, a stride from `rx_pos` cannot jump over the
  `tx_pos` the poll saw (`FindsMessage`). That both positions are boundaries is what
  makes `NeverOvershoots` inductive.

`ServicesProofs`, for every size of the service table up to the twelve bit port
range, any set of services the VideoCore closes on its own and any number of
messages on their way, without further assumption: `TypeCorrect`, `NoPanicHolds`,
`FreePortQuietHolds`, `DataFindsPeerHolds`, `DroppedOnlyWhenClosingHolds`. The
arguments:

* `PortOK`: the state of a service at the ARM limits the state of the VideoCore's
  end (`PeerStates`), its remote port is the peer's while it is connected and free
  otherwise, and its event is up exactly when the operation that waits for it may
  return. That `&mut self` lets one operation run at a time enters here.
* `FromInv`, `ToInv`: every message on its way says where the connection of its port
  stands, and the queues keep an order (`FromBefore`, `ToBefore`): an OPENACK or
  OPEN comes first, a CLOSE last. The order is what makes the rest inductive: when a
  CLOSE is handled, nothing of its port is left behind it, so the freed port is
  quiet; when DATA is handled, the OPENACK was.
* `MsgIdParts`: for ports below the port range, what `make_msg_id` packs is what
  the `*_from_id` functions take apart.

`SlotsProofs` has the geometry: a position is a slot and an offset in one way, a
`slot_queue` of consecutive slots is one piece of memory, and what `store_message`
leaves alone.

Only model-checked: the liveness properties (`EventuallyDelivered`,
`WokenForMessages`, `EventuallyHandled`, `MessageReachesClient`,
`OperationsReturn`, `CallsReturn`), since fairness is outside the prover's reach;
and the counterexamples of the violation runs.

## 5. Not modelled

* The superseded files, error texts, logging, volatile accessors, board start-up.
* Bulk transfers, synchronous slots, statistics, slot infos: present as fields or
  constants only.
* `RefCell` borrow failures with two cores inside the same service, and the order
  in which `add_service` and `slot_handler` take `srv_state`, `quota_state` and
  `slot_state` on two cores: only a build with several cores meets them.
* `EventAccessor<LocalEvent>::wait`, which nothing calls; the ARM's doorbell
  interrupt, which only logs; the sync and recycle events, which nobody signals.
* The test kernel (`src/main.rs`): board start-up and one linear client, whose
  calls are those of `Vchi`.
* The fragment list that `State::new` writes behind the slots: nothing in the crate
  reads it, and the addresses of the allocator are not part of the models.
* Dropped futures in `Services`: `Vchi` has them, one layer up, with the same
  semaphores.
* Wrap-around of the 32 bit `tx_pos`: the slots are used up long before.

## 6. Plan

The order followed so far: the transmit path, services and completions, the
first proofs, the receiving side and the VCHI layer, then the events between the
two processors, their composition with the transmit path, dropped calls, and the
proofs of every invariant and refinement.
Next:

1. Proofs. Action properties worth stating of the proved modules (a freed service
   never comes back, a stored message is never delivered twice); `MessageStream`
   itself (what was delivered is a prefix of what was accepted) and, through the
   refinements, the same said once of both directions; `SlotZero` (the slots of
   the two sides are disjoint).
2. Several cores in `Vchi` and in `add_service`, with their lock orders.
