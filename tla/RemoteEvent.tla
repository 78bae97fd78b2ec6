----------------------------- MODULE RemoteEvent -----------------------------
(***************************************************************************)
(* How the ARM wakes the VideoCore (vchiq/shared/event.rs,                 *)
(* vchiq/doorbell.rs): the trigger event, two words of shared memory, and  *)
(* a doorbell.  queue_message publishes a position, sets fired and rings   *)
(* the doorbell if the other side armed the event.                         *)
(*                                                                         *)
(* The two processors run truly in parallel: an action is one access to    *)
(* the shared words, in the order the barriers of the code enforce.        *)
(* queue_message signals with slot_state locked, one core at a time.       *)
(***************************************************************************)
EXTENDS Integers

CONSTANT Cores    \* the cores of the ARM that queue messages

VARIABLES
    published,  \* tx_pos: how far the ARM's messages go
    seen,       \* VideoCore: how far it has read them
    fired,      \* Event::fired
    armed,      \* Event::armed
    bell,       \* the doorbell was rung and the VideoCore has not seen it yet
    signalling, \* where each core is in signal_remote
    vc,         \* VideoCore: what its slot handler does
    event       \* VideoCore: permits of the semaphore its slot handler sleeps on

wordVars == <<fired, armed, bell>>
eventVars == <<wordVars, signalling, vc, event>>
vars == <<published, seen, eventVars>>

EventInit ==
    /\ fired = FALSE
    /\ armed = FALSE
    /\ bell = FALSE
    /\ signalling = [c \in Cores |-> "idle"]
    /\ vc = "running"
    /\ event = 0

Init ==
    /\ published = 0
    /\ seen = 0
    /\ EventInit

\* The lock of slot_state is free, as far as signal_remote is concerned.
NobodySignals == \A c \in Cores : signalling[c] = "idle"

Becomes(c, there) == signalling' = [signalling EXCEPT ![c] = there]

-----------------------------------------------------------------------------
\* queue_message, with the lock of slot_state, is about to call signal_remote.
BeginSignal(c) ==
    /\ NobodySignals
    /\ Becomes(c, "fire")
    /\ UNCHANGED <<wordVars, vc, event>>

\* The end of queue_message: set_tx_pos.  A core that comes second may find its
\* message published by the first.
Publish(c) ==
    /\ published' \in Nat
    /\ published' >= published
    /\ BeginSignal(c)
    /\ UNCHANGED seen

\* signal_remote: set_fired(1)
Fire(c) ==
    /\ signalling[c] = "fire"
    /\ fired' = TRUE
    /\ Becomes(c, "ring")
    /\ UNCHANGED <<published, seen, armed, bell, vc, event>>

ring_vc_doorbell == bell' = TRUE

\* signal_remote: ring_vc_doorbell() if armed, and the end of queue_message.
RingIfArmed(c) ==
    /\ signalling[c] = "ring"
    /\ IF armed THEN ring_vc_doorbell ELSE UNCHANGED bell
    /\ Becomes(c, "idle")
    /\ UNCHANGED <<published, seen, fired, armed, vc, event>>

\* Mutant: armed is read before fired is set.
signal_remote_swapped(c) ==
    \/ /\ signalling[c] = "fire"
       /\ IF armed THEN ring_vc_doorbell ELSE UNCHANGED bell
       /\ Becomes(c, "ring")
       /\ UNCHANGED <<published, seen, fired, armed, vc, event>>
    \/ /\ signalling[c] = "ring"
       /\ fired' = TRUE
       /\ Becomes(c, "idle")
       /\ UNCHANGED <<published, seen, armed, bell, vc, event>>

signal_remote(c) == Fire(c) \/ RingIfArmed(c)

-----------------------------------------------------------------------------
\* External: the VideoCore's slot handler.  It reads what is published, and
\* when nothing is left it waits for the event: the mirror image of
\* EventAccessor<LocalEvent>, except that it sleeps.
Awake == vc = "running"

VcReads ==
    /\ Awake
    /\ seen < published
    /\ seen' \in Nat
    /\ seen < seen'
    /\ UNCHANGED <<published, eventVars>>

\* Nothing left to read.
VcWaits ==
    /\ Awake
    /\ seen >= published
    /\ vc' = "waiting"
    /\ UNCHANGED <<published, seen, wordVars, signalling, event>>

\* It goes on, with fired reset before the next read.
VcGoesOn ==
    /\ fired' = FALSE
    /\ vc' = "running"
    /\ UNCHANGED <<published, seen, bell, signalling>>

VcFindsFired ==
    /\ vc = "waiting"
    /\ fired
    /\ VcGoesOn
    /\ UNCHANGED <<armed, event>>

VcArms ==
    /\ vc = "waiting"
    /\ ~fired
    /\ armed' = TRUE
    /\ vc' = "armed"
    /\ UNCHANGED <<published, seen, fired, bell, signalling, event>>

\* The second look at fired, after arming.
VcFindsFiredArmed ==
    /\ vc = "armed"
    /\ fired
    /\ armed' = FALSE
    /\ VcGoesOn
    /\ UNCHANGED event

VcSleeps ==
    /\ vc = "armed"
    /\ ~fired
    /\ vc' = "asleep"
    /\ UNCHANGED <<published, seen, wordVars, signalling, event>>

\* The doorbell interrupt raises the semaphore of an event that is armed and fired.
VcDoorbell ==
    /\ bell
    /\ bell' = FALSE
    /\ IF fired /\ armed
       THEN armed' = FALSE /\ event' = event + 1
       ELSE UNCHANGED <<armed, event>>
    /\ UNCHANGED <<published, seen, fired, signalling, vc>>

VcWakes ==
    /\ vc = "asleep"
    /\ event > 0
    /\ event' = event - 1
    /\ armed' = FALSE
    /\ VcGoesOn

VcThread == VcWaits \/ VcFindsFired \/ VcArms \/ VcFindsFiredArmed \/ VcSleeps \/ VcWakes

VcEvent == VcThread \/ VcDoorbell

-----------------------------------------------------------------------------
Next ==
    \/ \E c \in Cores : Publish(c) \/ signal_remote(c)
    \/ VcReads
    \/ VcEvent

Spec == Init /\ [][Next]_vars

-----------------------------------------------------------------------------
\* The values of the variables.
TypeOK ==
    /\ published \in Nat /\ seen \in Nat /\ event \in Nat
    /\ fired \in BOOLEAN /\ armed \in BOOLEAN /\ bell \in BOOLEAN
    /\ signalling \in [Cores -> {"idle", "fire", "ring"}]
    /\ vc \in {"running", "waiting", "armed", "asleep"}

\* No wake-up is lost between the two processors: when the VideoCore sleeps and
\* something it has not read is published, its semaphore is up, the doorbell is
\* ringing, or a core is still about to set fired or ring.
NoLostWakeup ==
    vc = "asleep" /\ seen < published => event > 0 \/ bell \/ ~NobodySignals
=============================================================================
