---------------------------- MODULE SignalsProofs ----------------------------
(***************************************************************************)
(* queue_message, on any number of cores and with any layout of the slots, *)
(* uses the event of the VideoCore as RemoteEvent says; so no wake-up of   *)
(* the VideoCore is lost.                                                  *)
(***************************************************************************)
EXTENDS Signals, TransmitProofs

\* What is proved about the event alone.
TriggerProofs == INSTANCE RemoteEventProofs WITH published <- tx_pos, seen <- vc_pos

\* Every step is a step of the transmit path or leaves it alone.
LEMMA StepsAreTransmitSteps ==
    ASSUME [SignalsNext]_signalsVars
    PROVE  [Next]_vars
  <1>1. ASSUME NEW c \in Cores, ~panicked, BeginsCall(c) \/ TakesGuard(c) PROVE Next
    BY <1>1 DEF BeginsCall, TakesGuard, Next, CoreStep
  <1>2. ASSUME NEW c \in Cores, ~panicked, StoreAndSignal(c) PROVE [Next]_vars
    BY <1>2 DEF StoreAndSignal, Next, CoreStep
  <1>3. CASE VideoCore
    BY <1>3 DEF VideoCore, Next
  <1>4. CASE UNCHANGED signalsVars
    BY <1>4 DEF signalsVars
  <1> QED
    BY <1>1, <1>2, <1>3, <1>4 DEF SignalsNext

\* Waiting for a signalling core and a sleeping VideoCore only take behaviours
\* away: what is proved of the transmit path holds in the composition, so no
\* core writes outside the ARM's slots and no message is touched again but for
\* the padding header.
THEOREM SignalsKeepStream == SignalsSpec => [](OwnSlotsOnly /\ StreamIntact)
  <1>1. SignalsInit => Init
    BY DEF SignalsInit
  <1>2. [SignalsNext]_signalsVars => [Next]_vars
    BY StepsAreTransmitSteps
  <1>3. SignalsSpec => Spec
    BY <1>1, <1>2, PTL DEF SignalsSpec, Spec
  <1> QED
    BY <1>3, OwnSlotsOnlyHolds, StreamIntactHolds, PTL

\* The positions stay in order in the composition too.
LEMMA SignalsKeepTransmit ==
    ASSUME TransmitInv, [SignalsNext]_signalsVars
    PROVE  TransmitInv'
  BY StepsAreTransmitSteps, TransmitStep

\* Every step is a step of the event or leaves it alone.
LEMMA StepsAreEventSteps ==
    ASSUME TransmitInv, [SignalsNext]_signalsVars
    PROVE  [Trigger!Next]_(Trigger!vars)
  <1> USE DEF Trigger!vars, Trigger!eventVars, Trigger!wordVars, eventVars
  <1>1. ASSUME NEW c \in Cores, BeginsCall(c) PROVE UNCHANGED Trigger!vars
    BY <1>1, BeginsKeeps DEF BeginsCall
  <1>2. ASSUME NEW c \in Cores, TakesGuard(c) PROVE UNCHANGED Trigger!vars
    BY <1>2, GuardedKeeps DEF TakesGuard
  <1>3. ASSUME NEW c \in Cores, StoreAndSignal(c) PROVE Trigger!Next
    <2>1. CASE Store(c) /\ Trigger!BeginSignal(c)
      <3>1. Trigger!Publish(c)
        BY <2>1, StoreKeeps DEF Trigger!Publish
      <3> QED BY <3>1 DEF Trigger!Next
    <2>2. CASE Trigger!signal_remote(c)
      BY <2>2 DEF Trigger!Next
    <2> QED BY <1>3, <2>1, <2>2 DEF StoreAndSignal
  <1>4. CASE VideoCore
    <2>1. CASE Trigger!Awake /\ (VcReads \/ VcReadsUnwritten) /\ UNCHANGED eventVars
      <3>1. Trigger!VcReads
        BY <2>1, VideoCoreKeeps DEF Trigger!VcReads
      <3> QED BY <3>1 DEF Trigger!Next
    <2>2. CASE Trigger!VcEvent
      BY <2>2 DEF Trigger!Next
    <2> QED BY <1>4, <2>1, <2>2 DEF VideoCore
  <1>5. CASE UNCHANGED signalsVars
    BY <1>5 DEF signalsVars, vars, slotVars, vcVars
  <1> QED BY <1>1, <1>2, <1>3, <1>4, <1>5 DEF SignalsNext

\* The composition of queue_message and the event implements the event alone:
\* one core signals at a time, tx_pos never goes back, and the VideoCore reads
\* only what is published.
THEOREM ImplementsTriggerHolds == SignalsSpec => ImplementsTrigger
  <1>1. SignalsInit => TransmitInv /\ Trigger!Init
    BY InitTransmit DEF SignalsInit, Init, Trigger!Init
  <1>2. TransmitInv /\ [SignalsNext]_signalsVars => TransmitInv'
    BY SignalsKeepTransmit
  <1>3. TransmitInv /\ [SignalsNext]_signalsVars => [Trigger!Next]_(Trigger!vars)
    BY StepsAreEventSteps
  <1> QED BY <1>1, <1>2, <1>3, PTL DEF SignalsSpec, ImplementsTrigger, Trigger!Spec

\* The instance of RemoteEvent that Signals uses and the one the proofs are
\* about are the same module under two names.
LEMMA SameEventStep ==
    [Trigger!Next]_(Trigger!vars) => [TriggerProofs!Next]_(TriggerProofs!vars)
  <1>1. UNCHANGED Trigger!vars => UNCHANGED TriggerProofs!vars
    BY DEF Trigger!vars, TriggerProofs!vars, Trigger!eventVars, TriggerProofs!eventVars,
           Trigger!wordVars, TriggerProofs!wordVars
  <1>2. Trigger!VcEvent => TriggerProofs!VcEvent
    BY DEF Trigger!VcEvent, TriggerProofs!VcEvent, Trigger!VcThread, TriggerProofs!VcThread,
           Trigger!VcWaits, TriggerProofs!VcWaits, Trigger!VcFindsFired,
           TriggerProofs!VcFindsFired, Trigger!VcArms, TriggerProofs!VcArms,
           Trigger!VcFindsFiredArmed, TriggerProofs!VcFindsFiredArmed, Trigger!VcSleeps,
           TriggerProofs!VcSleeps, Trigger!VcDoorbell, TriggerProofs!VcDoorbell, Trigger!VcWakes,
           TriggerProofs!VcWakes, Trigger!VcGoesOn, TriggerProofs!VcGoesOn, Trigger!Awake,
           TriggerProofs!Awake, Trigger!wordVars, TriggerProofs!wordVars
  <1>3. Trigger!VcReads => TriggerProofs!VcReads
    BY DEF Trigger!VcReads, TriggerProofs!VcReads, Trigger!Awake, TriggerProofs!Awake,
           Trigger!eventVars, TriggerProofs!eventVars, Trigger!wordVars, TriggerProofs!wordVars
  <1>4. ASSUME NEW c \in Cores, Trigger!Publish(c) \/ Trigger!signal_remote(c)
        PROVE  TriggerProofs!Publish(c) \/ TriggerProofs!signal_remote(c)
    BY <1>4 DEF Trigger!Publish, TriggerProofs!Publish, Trigger!BeginSignal,
                TriggerProofs!BeginSignal, Trigger!NobodySignals, TriggerProofs!NobodySignals,
                Trigger!Becomes, TriggerProofs!Becomes, Trigger!signal_remote,
                TriggerProofs!signal_remote, Trigger!Fire, TriggerProofs!Fire,
                Trigger!RingIfArmed, TriggerProofs!RingIfArmed, Trigger!ring_vc_doorbell,
                TriggerProofs!ring_vc_doorbell, Trigger!wordVars, TriggerProofs!wordVars
  <1> QED BY <1>1, <1>2, <1>3, <1>4 DEF Trigger!Next, TriggerProofs!Next

\* No wake-up is lost, whatever the cores queue: it is proved of the event
\* alone and carries over.
THEOREM NoLostWakeupHolds == SignalsSpec => []NoLostWakeup
  <1>1. Trigger!Init => TriggerProofs!Init
    BY DEF Trigger!Init, TriggerProofs!Init, Trigger!EventInit, TriggerProofs!EventInit
  <1>2. [Trigger!Next]_(Trigger!vars) => [TriggerProofs!Next]_(TriggerProofs!vars)
    BY SameEventStep
  <1>3. TriggerProofs!NoLostWakeup => NoLostWakeup
    BY DEF TriggerProofs!NoLostWakeup, NoLostWakeup, Trigger!NoLostWakeup,
           Trigger!NobodySignals, TriggerProofs!NobodySignals
  <1> QED
    BY <1>1, <1>2, <1>3, ImplementsTriggerHolds, TriggerProofs!NoLostWakeupHolds, PTL
       DEF ImplementsTrigger, Trigger!Spec, TriggerProofs!Spec
=============================================================================
