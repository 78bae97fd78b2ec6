-------------------------- MODULE RemoteEventProofs --------------------------
(***************************************************************************)
(* No wake-up of the VideoCore is lost, whatever the number of cores that  *)
(* queue messages and however the accesses to the event's words interleave. *)
(***************************************************************************)
EXTENDS RemoteEvent, TLAPS

\* A VideoCore that stopped reading with something left to read finds fired
\* set, or a core is about to set it.
UnreadFired ==
    seen < published /\ vc # "running" => fired \/ \E c \in Cores : signalling[c] = "fire"

\* armed stays set from arming to waking, unless the semaphore is up.
ArmedUntilUp == vc \in {"armed", "asleep"} /\ event = 0 => armed

\* A VideoCore that sleeps over a fired event is about to be woken.
FiredRings ==
    vc = "asleep" /\ fired /\ event = 0 => bell \/ \E c \in Cores : signalling[c] = "ring"

WakeInv == TypeOK /\ UnreadFired /\ ArmedUntilUp /\ FiredRings

\* The event as initialized satisfies the invariant.
LEMMA InitWake == Init => WakeInv
<1> SUFFICES ASSUME Init PROVE WakeInv
  OBVIOUS
<1> USE DEF Init, EventInit
<1>1. TypeOK
  <2>1. fired \in BOOLEAN /\ armed \in BOOLEAN /\ bell \in BOOLEAN
    BY Zenon
  <2>2. published \in Nat /\ seen \in Nat /\ event \in Nat
    BY SMT
  <2>3. signalling \in [Cores -> {"idle", "fire", "ring"}]
    BY Zenon
  <2>4. vc \in {"running", "waiting", "armed", "asleep"}
    BY Zenon
  <2> QED BY <2>1, <2>2, <2>3, <2>4, Zenon DEF TypeOK
<1>2. UnreadFired /\ ArmedUntilUp /\ FiredRings
  BY Zenon DEF UnreadFired, ArmedUntilUp, FiredRings
<1> QED BY <1>1, <1>2 DEF WakeInv

\* The steps of the ARM: publishing, setting fired, ringing.
LEMMA ArmKeepsWake ==
  ASSUME WakeInv, NEW c \in Cores, Publish(c) \/ signal_remote(c)
  PROVE  WakeInv'
<1> USE DEF WakeInv, TypeOK, UnreadFired, ArmedUntilUp, FiredRings, Becomes, wordVars
<1>1. CASE Publish(c)
  BY <1>1 DEF Publish, BeginSignal, NobodySignals
<1>2. CASE Fire(c)
  BY <1>2 DEF Fire
<1>3. CASE RingIfArmed(c)
  BY <1>3 DEF RingIfArmed, ring_vc_doorbell
<1> QED BY <1>1, <1>2, <1>3 DEF signal_remote

\* The steps of the VideoCore.
LEMMA VideoCoreKeepsWake ==
  ASSUME WakeInv, VcReads \/ VcEvent
  PROVE  WakeInv'
<1> USE DEF WakeInv, TypeOK, UnreadFired, ArmedUntilUp, FiredRings, wordVars, eventVars, VcGoesOn, Awake
<1> DEFINE UnchangedByBell ==
             /\ fired' = fired /\ vc' = vc /\ published' = published
             /\ seen' = seen /\ signalling' = signalling
<1>1. CASE VcReads
  BY <1>1 DEF VcReads
<1>2. CASE VcWaits
  BY <1>2 DEF VcWaits
<1>3. CASE VcFindsFired
  BY <1>3 DEF VcFindsFired
<1>4. CASE VcArms
  BY <1>4 DEF VcArms
<1>5. CASE VcFindsFiredArmed
  BY <1>5 DEF VcFindsFiredArmed
<1>6. CASE VcSleeps
  BY <1>6 DEF VcSleeps
<1>7. CASE VcDoorbell
  <2>1. bell' = FALSE /\ UnchangedByBell
    BY <1>7, Zenon DEF VcDoorbell
  <2>2. armed' \in BOOLEAN /\ event' \in Nat
    <3>1. CASE fired /\ armed
      <4>1. armed' \in BOOLEAN
        BY <1>7, <3>1, Zenon DEF VcDoorbell
      <4>2. event' \in Nat
        BY <1>7, <3>1, SMT DEF VcDoorbell
      <4> QED BY <4>1, <4>2
    <3>2. CASE ~(fired /\ armed)
      BY <1>7, <3>2, SMT DEF VcDoorbell
    <3> QED BY <3>1, <3>2
  <2>3. (armed' = armed /\ event' = event /\ ~(fired /\ armed)) \/ event' # 0
    <3>1. CASE fired /\ armed
      BY <1>7, <3>1, SMT DEF VcDoorbell
    <3>2. CASE ~(fired /\ armed)
      BY <1>7, <3>2, Zenon DEF VcDoorbell
    <3> QED BY <3>1, <3>2
  <2>4. TypeOK'
    BY <2>1, <2>2, Zenon
  <2>5. UnreadFired'
    BY <2>1, Zenon
  <2>6. ArmedUntilUp'
    BY <2>1, <2>3, Zenon
  <2>7. FiredRings'
    BY <2>1, <2>3, Zenon
  <2> QED BY <2>4, <2>5, <2>6, <2>7 DEF WakeInv
<1>8. CASE VcWakes
  <2>1. event' \in Nat
    BY <1>8, SMT DEF VcWakes
  <2>2. fired' = FALSE /\ armed' = FALSE /\ vc' = "running" /\ bell' = bell
        /\ published' = published /\ seen' = seen /\ signalling' = signalling
    BY <1>8, Zenon DEF VcWakes
  <2> QED BY <2>1, <2>2, Zenon
<1> QED
  BY <1>1, <1>2, <1>3, <1>4, <1>5, <1>6, <1>7, <1>8 DEF VcEvent, VcThread

\* Whenever the VideoCore sleeps over something published, its semaphore is up,
\* the doorbell rings, or a core is inside signal_remote: set_fired before
\* armed(), as in event.rs, is enough for every interleaving.
THEOREM NoLostWakeupHolds == Spec => []NoLostWakeup
<1>1. WakeInv /\ [Next]_vars => WakeInv'
  <2> SUFFICES ASSUME WakeInv, [Next]_vars PROVE WakeInv'
    OBVIOUS
  <2>1. CASE Next
    BY <2>1, ArmKeepsWake, VideoCoreKeepsWake DEF Next
  <2>2. CASE UNCHANGED vars
    BY <2>2 DEF vars, eventVars, wordVars, WakeInv, TypeOK, UnreadFired, ArmedUntilUp, FiredRings
  <2> QED BY <2>1, <2>2
<1>2. WakeInv => NoLostWakeup
  BY DEF WakeInv, TypeOK, UnreadFired, FiredRings, NoLostWakeup, NobodySignals
<1> QED BY InitWake, <1>1, <1>2, PTL DEF Spec
=============================================================================
