------------------------------- MODULE Signals -------------------------------
(***************************************************************************)
(* Transmit composed with RemoteEvent: queue_message ends with             *)
(* signal_remote, with slot_state locked, and the VideoCore reads only     *)
(* while it is awake.                                                      *)
(***************************************************************************)
EXTENDS Transmit

VARIABLES fired, armed, bell, signalling, vc, event    \* as in RemoteEvent

Trigger == INSTANCE RemoteEvent WITH published <- tx_pos, seen <- vc_pos

eventVars   == <<fired, armed, bell, signalling, vc, event>>
signalsVars == <<vars, eventVars>>

SignalsInit == Init /\ Trigger!EventInit

\* A core that stored its message goes on to signal it before anything else.
StoreAndSignal(c) ==
    \/ /\ Store(c)
       /\ Trigger!BeginSignal(c)
    \/ /\ Trigger!signal_remote(c)
       /\ UNCHANGED vars

BeginsCall(c) ==
    /\ signalling[c] = "idle"
    /\ Begins(c)
    /\ UNCHANGED eventVars

\* signal_remote runs under the lock of slot_state.
TakesGuard(c) ==
    /\ Trigger!NobodySignals
    /\ Guarded(c)
    /\ UNCHANGED eventVars

\* External: the VideoCore.
VideoCore ==
    \/ /\ Trigger!Awake
       /\ VcReads \/ VcReadsUnwritten
       /\ UNCHANGED eventVars
    \/ /\ Trigger!VcEvent
       /\ UNCHANGED vars

SignalsNext ==
    \/ /\ ~panicked
       /\ \E c \in Cores : BeginsCall(c) \/ TakesGuard(c) \/ StoreAndSignal(c)
    \/ VideoCore

SignalsSpec == SignalsInit /\ [][SignalsNext]_signalsVars

\* A core does not stop between publishing and the end of signal_remote; the
\* VideoCore's slot handler runs and its interrupts are served.
SignalsFairSpec ==
    /\ SignalsSpec
    /\ WF_signalsVars(~panicked /\ (\E c \in Cores : Trigger!signal_remote(c)) /\ UNCHANGED vars)
    /\ WF_signalsVars(Trigger!VcDoorbell /\ UNCHANGED vars)
    /\ WF_signalsVars(Trigger!VcThread /\ UNCHANGED vars)

-----------------------------------------------------------------------------
\* The VideoCore never sleeps over a message: see RemoteEvent.
NoLostWakeup == Trigger!NoLostWakeup

\* queue_message on several cores uses the event as RemoteEvent says: one core
\* signals at a time, and tx_pos never goes back.
ImplementsTrigger == Trigger!Spec

\* Whatever is published finds the VideoCore awake sooner or later, so that it
\* is fair to let it read in Transmit.
WokenForMessages == vc_pos < tx_pos ~> (vc = "running" \/ vc_pos >= tx_pos)
=============================================================================
