---------------------------- MODULE ServicesProofs ----------------------------
(***************************************************************************)
(* The life of the services, for every size of the service table and       *)
(* however many of the VideoCore's closes cross the ARM's: the two ends of *)
(* a connection and the messages between them stay in step.                *)
(***************************************************************************)
EXTENDS Services, TLAPS

-----------------------------------------------------------------------------
(* The invariant. *)

Kind(id) == msg_type_from_id(id)

\* The states the VideoCore's end of a connection can be in, by the ARM's.
PeerStates(srvstate) ==
    CASE srvstate = "NONE"      -> {"none"}
      [] srvstate = "OPENING"   -> {"none", "refused", "open", "closesent"}
      [] srvstate = "OPEN"      -> {"open", "closesent"}
      [] srvstate = "CLOSESENT" -> {"open", "closesent", "closed"}
      [] srvstate = "CLOSEWAIT" -> {"refused"}
      [] srvstate = "FREE"      -> {"refused", "closesent", "closed"}

\* The answer to an OPEN message is on its way.
Acked(p) == \E id \in Range(from_vc) : Kind(id) = OPENACK /\ dst_port_from_id(id) = p

\* remove_event is up for the operation that waits for it.
Raised(p) ==
    \/ client = [op |-> "open", port |-> p] /\ services[p].srvstate \in {"OPEN", "CLOSEWAIT"}
    \/ client = [op |-> "close", port |-> p] /\ services[p].srvstate = "FREE"

\* The service at port p, its peer and the operation in progress.
PortOK(p) ==
    /\ services[p].srvstate = "NONE" => services[p] = NoService
    /\ services[p].srvstate = "NONE" <=> p >= unused_service
    /\ services[p].srvstate = "OPENING" => client = [op |-> "open", port |-> p]
    /\ services[p].srvstate = "CLOSESENT" => client = [op |-> "close", port |-> p]
    /\ services[p].srvstate = "CLOSEWAIT" => services[p].closing
    /\ services[p].remoteport =
         IF services[p].srvstate \in {"OPEN", "CLOSESENT"} THEN VcPort(p) ELSE VCHIQ_PORT_FREE
    /\ services[p].remove_event = IF Raised(p) THEN 1 ELSE 0
    /\ vc_conn[p] \in PeerStates(services[p].srvstate)
    /\ services[p].srvstate = "OPENING" /\ vc_conn[p] \in {"open", "closesent"} => Acked(p)

\* A message of the VideoCore says where the connection of its port p is.
FromPort(id, p) ==
    /\ p \in Ports
    /\ \/ /\ Kind(id) = OPENACK
          /\ services[p].srvstate = "OPENING" /\ vc_conn[p] \in {"open", "closesent"}
          /\ src_port_from_id(id) = VcPort(p)
       \/ /\ Kind(id) = DATA
          /\ services[p].srvstate \in {"OPENING", "OPEN", "CLOSESENT"}
          /\ vc_conn[p] \in {"open", "closesent", "closed"}
          /\ src_port_from_id(id) = VcPort(p)
       \/ /\ Kind(id) = CLOSE
          /\ services[p].srvstate \in {"OPENING", "OPEN", "CLOSESENT"}
          /\ \/ vc_conn[p] \in {"closesent", "closed"} /\ src_port_from_id(id) = VcPort(p)
             \/ vc_conn[p] = "refused"

\* So does a message of the ARM.
ToPort(id, p) ==
    /\ p \in Ports
    /\ \/ Kind(id) = OPEN /\ services[p].srvstate = "OPENING" /\ vc_conn[p] = "none"
       \/ /\ Kind(id) = DATA
          /\ vc_conn[p] \in {"open", "closesent"}
          /\ dst_port_from_id(id) = VcPort(p)
       \/ /\ Kind(id) = CLOSE
          /\ services[p].srvstate \in {"CLOSESENT", "FREE"}
          /\ vc_conn[p] \in {"open", "closesent"}

\* The one CONNECT of either side.
Connects == client.op = "connect" /\ connect = 0

FromOK(id) == IF Kind(id) = CONNECT THEN Connects ELSE FromPort(id, dst_port_from_id(id))
ToOK(id) == IF Kind(id) = CONNECT THEN Connects ELSE ToPort(id, src_port_from_id(id))

\* The VideoCore sends a before b: a CLOSE is the last message of a connection
\* and an OPENACK its first one.
FromBefore(a, b) ==
    IF Kind(a) = CONNECT \/ Kind(b) = CONNECT THEN Kind(a) # Kind(b)
    ELSE dst_port_from_id(a) = dst_port_from_id(b) => Kind(a) # CLOSE /\ Kind(b) # OPENACK

\* The ARM sends a before b.
ToBefore(a, b) ==
    IF Kind(a) = CONNECT \/ Kind(b) = CONNECT THEN Kind(a) # Kind(b)
    ELSE src_port_from_id(a) = src_port_from_id(b) => Kind(a) # CLOSE /\ Kind(b) # OPEN

FromOrder(s) == \A j \in 1 .. Len(s) : \A i \in 1 .. (j - 1) : FromBefore(s[i], s[j])
ToOrder(s) == \A j \in 1 .. Len(s) : \A i \in 1 .. (j - 1) : ToBefore(s[i], s[j])

\* The messages on their way.
FromInv == from_vc \in Seq(Nat) /\ (\A id \in Range(from_vc) : FromOK(id)) /\ FromOrder(from_vc)
ToInv == to_vc \in Seq(Nat) /\ (\A id \in Range(to_vc) : ToOK(id)) /\ ToOrder(to_vc)
OneConnect == \A a \in Range(to_vc), b \in Range(from_vc) : Kind(a) = CONNECT => Kind(b) # CONNECT

\* The inductive invariant.
ServicesInv ==
    /\ TypeOK
    /\ connect > 0 => client.op = "connect"
    /\ \A p \in Ports : PortOK(p)
    /\ FromInv /\ ToInv /\ OneConnect
    /\ NoPanic
    /\ DroppedOnlyWhenClosing

-----------------------------------------------------------------------------
(* Message ids and queues of them. *)

\* The fields of a message id, for real ports.
LEMMA MsgIdParts ==
    ASSUME NEW t \in 0 .. 5, NEW s \in 0 .. (PortRange - 1), NEW d \in 0 .. (PortRange - 1)
    PROVE  /\ make_msg_id(t, s, d) \in Nat
           /\ Kind(make_msg_id(t, s, d)) = t
           /\ src_port_from_id(make_msg_id(t, s, d)) = s
           /\ dst_port_from_id(make_msg_id(t, s, d)) = d
  <1>1. d \div PortRange = 0 /\ d % PortRange = d
    BY DEF PortRange
  <1>2. OrBit(s, d \div PortRange) = s
    BY <1>1 DEF OrBit
  <1>3. make_msg_id(t, s, d) = t * 16777216 + s * 4096 + d
    BY <1>1, <1>2 DEF make_msg_id, PortRange
  <1> QED
    BY <1>3 DEF Kind, msg_type_from_id, src_port_from_id, dst_port_from_id, PortRange

\* The ports of the services are real ports, and so are those of their peers.
LEMMA PortsAreReal ==
    /\ \A p \in Ports : p \in 0 .. (PortRange - 1) /\ VcPort(p) \in 0 .. (PortRange - 1)
    /\ 0 \in Ports /\ 0 \in 0 .. (PortRange - 1)
    /\ MaxServices \in Nat
  BY ServicesAssumption DEF Ports, VcPort, PortRange

\* A message more in a queue.
LEMMA Appended ==
    ASSUME NEW s \in Seq(Nat), NEW x \in Nat
    PROVE  /\ Append(s, x) \in Seq(Nat)
           /\ Range(Append(s, x)) = Range(s) \cup {x}
           /\ FromOrder(s) /\ (\A id \in Range(s) : FromBefore(id, x)) => FromOrder(Append(s, x))
           /\ ToOrder(s) /\ (\A id \in Range(s) : ToBefore(id, x)) => ToOrder(Append(s, x))
  <1> DEFINE n == Len(s)
             u == Append(s, x)
  <1>1. u \in Seq(Nat) /\ n \in Nat /\ Len(u) = n + 1 /\ u[n + 1] = x /\ \A i \in 1 .. n : u[i] = s[i]
    OBVIOUS
  <1> HIDE DEF u, n
  <1>2. Range(u) = Range(s) \cup {x}
    <2>1. ASSUME NEW y \in Range(u) PROVE y \in Range(s) \cup {x}
      <3>1. PICK i \in 1 .. Len(u) : y = u[i]
        BY <2>1 DEF Range
      <3>2. CASE i = n + 1
        BY <1>1, <3>1, <3>2
      <3>3. CASE i # n + 1
        <4>1. i \in 1 .. n /\ u[i] = s[i]
          BY <1>1, <3>1, <3>3
        <4> QED BY <3>1, <4>1 DEF Range, n
      <3> QED BY <3>2, <3>3
    <2>2. ASSUME NEW y \in Range(s) PROVE y \in Range(u)
      <3>1. PICK i \in 1 .. n : y = s[i]
        BY <2>2 DEF Range, n
      <3>2. i \in 1 .. Len(u) /\ y = u[i]
        BY <1>1, <3>1
      <3> QED BY <3>2 DEF Range
    <2>3. x \in Range(u)
      <3>1. n + 1 \in 1 .. Len(u)
        BY <1>1
      <3> QED BY <1>1, <3>1 DEF Range
    <2> QED BY <2>1, <2>2, <2>3
  <1>3. ASSUME FromOrder(s), \A id \in Range(s) : FromBefore(id, x),
               NEW j \in 1 .. Len(u), NEW i \in 1 .. (j - 1)
        PROVE  FromBefore(u[i], u[j])
    <2>1. i \in 1 .. n /\ u[i] = s[i]
      BY <1>1, <1>3
    <2>2. CASE j = n + 1
      BY <1>1, <1>3, <2>1, <2>2 DEF Range, n
    <2>3. CASE j # n + 1
      <3>1. j \in 1 .. n /\ u[j] = s[j]
        BY <1>1, <2>3
      <3> QED BY <1>3, <2>1, <3>1 DEF FromOrder, n
    <2> QED BY <2>2, <2>3
  <1>4. ASSUME ToOrder(s), \A id \in Range(s) : ToBefore(id, x),
               NEW j \in 1 .. Len(u), NEW i \in 1 .. (j - 1)
        PROVE  ToBefore(u[i], u[j])
    <2>1. i \in 1 .. n /\ u[i] = s[i]
      BY <1>1, <1>4
    <2>2. CASE j = n + 1
      BY <1>1, <1>4, <2>1, <2>2 DEF Range, n
    <2>3. CASE j # n + 1
      <3>1. j \in 1 .. n /\ u[j] = s[j]
        BY <1>1, <2>3
      <3> QED BY <1>4, <2>1, <3>1 DEF ToOrder, n
    <2> QED BY <2>2, <2>3
  <1> QED
    BY <1>1, <1>2, <1>3, <1>4 DEF FromOrder, ToOrder, u

\* The first message of a queue and the ones behind it.
LEMMA FirstOut ==
    ASSUME NEW s \in Seq(Nat), s # <<>>
    PROVE  /\ Tail(s) \in Seq(Nat) /\ Head(s) \in Nat
           /\ Range(s) = Range(Tail(s)) \cup {Head(s)}
           /\ FromOrder(s) => /\ FromOrder(Tail(s))
                              /\ \A id \in Range(Tail(s)) : FromBefore(Head(s), id)
           /\ ToOrder(s) => /\ ToOrder(Tail(s))
                            /\ \A id \in Range(Tail(s)) : ToBefore(Head(s), id)
  <1> DEFINE n == Len(s)
             u == Tail(s)
             h == Head(s)
  <1>1. /\ u \in Seq(Nat) /\ h \in Nat /\ n \in Nat /\ n >= 1 /\ Len(u) = n - 1 /\ h = s[1]
        /\ \A i \in 1 .. (n - 1) : u[i] = s[i + 1]
    OBVIOUS
  <1> HIDE DEF u, n, h
  <1>2. ASSUME NEW i \in 1 .. Len(u) PROVE i + 1 \in 1 .. n /\ u[i] = s[i + 1] /\ i \in Nat /\ i + 1 - 1 = i
    BY <1>1
  <1>3. Range(s) = Range(u) \cup {h}
    <2>1. ASSUME NEW y \in Range(s) PROVE y \in Range(u) \cup {h}
      <3>1. PICK i \in 1 .. n : y = s[i]
        BY <2>1 DEF Range, n
      <3>2. CASE i = 1
        BY <1>1, <3>1, <3>2
      <3>3. CASE i # 1
        <4>1. i - 1 \in 1 .. Len(u) /\ s[i] = u[i - 1]
          BY <1>1, <3>1, <3>3
        <4> QED BY <3>1, <4>1 DEF Range
      <3> QED BY <3>2, <3>3
    <2>2. ASSUME NEW y \in Range(u) PROVE y \in Range(s)
      <3>1. PICK i \in 1 .. Len(u) : y = u[i]
        BY <2>2 DEF Range
      <3> QED BY <1>2, <3>1 DEF Range, n
    <2>3. h \in Range(s)
      BY <1>1 DEF Range, n
    <2> QED BY <2>1, <2>2, <2>3
  <1>4. ASSUME NEW j \in 1 .. Len(u), NEW i \in 1 .. (j - 1)
        PROVE  j + 1 \in 1 .. n /\ i + 1 \in 1 .. (j + 1 - 1) /\ u[i] = s[i + 1] /\ u[j] = s[j + 1]
    BY <1>1
  <1>5. ASSUME NEW j \in 1 .. Len(u)
        PROVE  j + 1 \in 1 .. n /\ 1 \in 1 .. (j + 1 - 1) /\ u[j] = s[j + 1]
    BY <1>1
  <1>6. ASSUME FromOrder(s) PROVE FromOrder(u) /\ \A id \in Range(u) : FromBefore(h, id)
    <2>1. FromOrder(u)
      BY <1>4, <1>6 DEF FromOrder, n
    <2>2. ASSUME NEW id \in Range(u) PROVE FromBefore(h, id)
      <3>1. PICK j \in 1 .. Len(u) : id = u[j]
        BY <2>2 DEF Range
      <3> QED BY <1>1, <1>5, <1>6, <3>1 DEF FromOrder, n
    <2> QED BY <2>1, <2>2
  <1>7. ASSUME ToOrder(s) PROVE ToOrder(u) /\ \A id \in Range(u) : ToBefore(h, id)
    <2>1. ToOrder(u)
      BY <1>4, <1>7 DEF ToOrder, n
    <2>2. ASSUME NEW id \in Range(u) PROVE ToBefore(h, id)
      <3>1. PICK j \in 1 .. Len(u) : id = u[j]
        BY <2>2 DEF Range
      <3> QED BY <1>1, <1>5, <1>7, <3>1 DEF ToOrder, n
    <2> QED BY <2>1, <2>2
  <1> QED
    BY <1>1, <1>3, <1>6, <1>7 DEF u, h

-----------------------------------------------------------------------------
(* What a step at one port leaves alone. *)

\* The step is about port p: the connections of the other ports stay.
Quiet(p) ==
    \A q \in Ports : q # p =>
        /\ services'[q] = services[q] /\ vc_conn'[q] = vc_conn[q]
        /\ \A o \in {"open", "close"} : client' = [op |-> o, port |-> q] <=> client = [op |-> o, port |-> q]
        /\ q >= unused_service' <=> q >= unused_service
        /\ Acked(q) => Acked(q)'

LEMMA PortsElsewhere ==
    ASSUME NEW p, Quiet(p), NEW q \in Ports, q # p, PortOK(q)
    PROVE  PortOK(q)'
  <1>1. /\ services'[q] = services[q] /\ vc_conn'[q] = vc_conn[q]
        /\ client' = [op |-> "open", port |-> q] <=> client = [op |-> "open", port |-> q]
        /\ client' = [op |-> "close", port |-> q] <=> client = [op |-> "close", port |-> q]
        /\ q >= unused_service' <=> q >= unused_service
        /\ Acked(q) => Acked(q)'
    BY DEF Quiet
  <1>2. Raised(q)' <=> Raised(q)
    BY <1>1 DEF Raised
  <1> QED
    BY <1>1, <1>2 DEF PortOK

LEMMA FromElsewhere ==
    ASSUME NEW p, Quiet(p), Connects => Connects', NEW id, FromOK(id),
           Kind(id) = CONNECT \/ dst_port_from_id(id) # p
    PROVE  FromOK(id)'
  BY DEF FromOK, FromPort, Quiet

LEMMA ToElsewhere ==
    ASSUME NEW p, Quiet(p), Connects => Connects', NEW id, ToOK(id),
           Kind(id) = CONNECT \/ src_port_from_id(id) # p
    PROVE  ToOK(id)'
  BY DEF ToOK, ToPort, Quiet

Operations == {"open", "close"}

\* What makes a step one about port p.
LEMMA QuietStep ==
    ASSUME NEW p,
           \A q \in Ports : q # p => services'[q] = services[q] /\ vc_conn'[q] = vc_conn[q],
           \/ client' = client
           \/ /\ client.port = p \/ client.op \notin Operations
              /\ client'.port = p \/ client'.op \notin Operations,
           unused_service' = unused_service \/ (p = unused_service /\ unused_service' = unused_service + 1),
           unused_service \in Nat,
           \A id \in Range(from_vc) : Kind(id) = OPENACK /\ dst_port_from_id(id) # p => id \in Range(from_vc')
    PROVE  Quiet(p)
  <1> SUFFICES ASSUME NEW q \in Ports, q # p
               PROVE  /\ \A o \in {"open", "close"} : client' = [op |-> o, port |-> q] <=> client = [op |-> o, port |-> q]
                      /\ q >= unused_service' <=> q >= unused_service
                      /\ Acked(q) => Acked(q)'
    BY DEF Quiet
  <1>1. ASSUME NEW o \in {"open", "close"}
        PROVE  client' = [op |-> o, port |-> q] <=> client = [op |-> o, port |-> q]
    BY DEF Operations
  <1>2. q >= unused_service' <=> q >= unused_service
    BY ServicesAssumption DEF Ports
  <1>3. ASSUME Acked(q) PROVE Acked(q)'
    <2>1. PICK id \in Range(from_vc) : Kind(id) = OPENACK /\ dst_port_from_id(id) = q
      BY <1>3 DEF Acked
    <2>2. id \in Range(from_vc')
      BY <2>1
    <2> QED BY <2>1, <2>2 DEF Acked
  <1> QED
    BY <1>1, <1>2, <1>3

\* The messages of the VideoCore, when a step about port p takes none and
\* sends none, takes the first, or sends one.
LEMMA FromSame ==
    ASSUME FromInv, NEW p, Quiet(p), Connects => Connects', from_vc' = from_vc,
           \A id \in Range(from_vc) : Kind(id) # CONNECT /\ dst_port_from_id(id) = p => FromOK(id)'
    PROVE  FromInv'
  <1>1. \A id \in Range(from_vc) : FromOK(id)'
    BY FromElsewhere DEF FromInv
  <1> QED
    BY <1>1 DEF FromInv

LEMMA FromTakes ==
    ASSUME FromInv, NEW p, Quiet(p), from_vc # <<>>, from_vc' = Tail(from_vc),
           (Connects => Connects') \/ \A id \in Range(from_vc') : Kind(id) # CONNECT,
           \A id \in Range(from_vc') : Kind(id) # CONNECT /\ dst_port_from_id(id) = p => FromOK(id)'
    PROVE  FromInv'
  <1>1. from_vc' \in Seq(Nat) /\ FromOrder(from_vc') /\ Range(from_vc') \subseteq Range(from_vc)
    BY FirstOut DEF FromInv
  <1>2. \A id \in Range(from_vc') : FromOK(id)
    BY <1>1 DEF FromInv
  <1>3. ASSUME NEW id \in Range(from_vc') PROVE FromOK(id)'
    <2>1. CASE Kind(id) = CONNECT
      BY <1>2, <1>3, <2>1 DEF FromOK
    <2>2. CASE Kind(id) # CONNECT /\ dst_port_from_id(id) # p
      BY <1>2, <1>3, <2>2 DEF FromOK, FromPort, Quiet
    <2> QED BY <1>3, <2>1, <2>2
  <1> QED
    BY <1>1, <1>3 DEF FromInv

LEMMA FromSends ==
    ASSUME FromInv, NEW p, Quiet(p), Connects => Connects',
           NEW x \in Nat, from_vc' = Append(from_vc, x), FromOK(x)',
           \A id \in Range(from_vc) : FromBefore(id, x),
           \A id \in Range(from_vc) : Kind(id) # CONNECT /\ dst_port_from_id(id) = p => FromOK(id)'
    PROVE  FromInv'
  <1>1. from_vc' \in Seq(Nat) /\ FromOrder(from_vc') /\ Range(from_vc') = Range(from_vc) \cup {x}
    BY Appended DEF FromInv
  <1>2. \A id \in Range(from_vc) : FromOK(id)'
    BY FromElsewhere DEF FromInv
  <1>3. ASSUME NEW id \in Range(from_vc') PROVE FromOK(id)'
    BY <1>1, <1>2, <1>3
  <1> QED
    BY <1>1, <1>3 DEF FromInv

\* The same for the messages of the ARM.
LEMMA ToSame ==
    ASSUME ToInv, NEW p, Quiet(p), to_vc' = to_vc,
           (Connects => Connects') \/ \A id \in Range(to_vc) : Kind(id) # CONNECT,
           \A id \in Range(to_vc) : Kind(id) # CONNECT /\ src_port_from_id(id) = p => ToOK(id)'
    PROVE  ToInv'
  <1>1. ASSUME NEW id \in Range(to_vc) PROVE ToOK(id)'
    <2>1. CASE Kind(id) = CONNECT
      BY <1>1, <2>1 DEF ToOK, ToInv
    <2>2. CASE Kind(id) # CONNECT /\ src_port_from_id(id) # p
      BY <1>1, <2>2 DEF ToOK, ToPort, Quiet, ToInv
    <2> QED BY <1>1, <2>1, <2>2
  <1> QED
    BY <1>1 DEF ToInv

LEMMA ToTakes ==
    ASSUME ToInv, NEW p, Quiet(p), Connects => Connects', to_vc # <<>>, to_vc' = Tail(to_vc),
           \A id \in Range(to_vc') : Kind(id) # CONNECT /\ src_port_from_id(id) = p => ToOK(id)'
    PROVE  ToInv'
  <1>1. to_vc' \in Seq(Nat) /\ ToOrder(to_vc') /\ Range(to_vc') \subseteq Range(to_vc)
    BY FirstOut DEF ToInv
  <1>2. \A id \in Range(to_vc') : ToOK(id)
    BY <1>1 DEF ToInv
  <1>3. ASSUME NEW id \in Range(to_vc') PROVE ToOK(id)'
    BY <1>2, <1>3, ToElsewhere
  <1> QED
    BY <1>1, <1>3 DEF ToInv

LEMMA ToSends ==
    ASSUME ToInv, NEW p, Quiet(p), Connects => Connects',
           NEW x \in Nat, to_vc' = Append(to_vc, x), ToOK(x)',
           \A id \in Range(to_vc) : ToBefore(id, x),
           \A id \in Range(to_vc) : Kind(id) # CONNECT /\ src_port_from_id(id) = p => ToOK(id)'
    PROVE  ToInv'
  <1>1. to_vc' \in Seq(Nat) /\ ToOrder(to_vc') /\ Range(to_vc') = Range(to_vc) \cup {x}
    BY Appended DEF ToInv
  <1>2. \A id \in Range(to_vc) : ToOK(id)'
    BY ToElsewhere DEF ToInv
  <1>3. ASSUME NEW id \in Range(to_vc') PROVE ToOK(id)'
    BY <1>1, <1>2, <1>3
  <1> QED
    BY <1>1, <1>3 DEF ToInv

Ending == {"CLOSESENT", "FREE"}

\* The invariant after a step about port p.
LEMMA Combine ==
    ASSUME ServicesInv, NEW p, Quiet(p), TypeOK', FromInv', ToInv', OneConnect', ~panicked', dropped' = dropped,
           (connect > 0 => client.op = "connect")',
           p \in Ports => PortOK(p)' /\ (services[p].srvstate \in Ending => services'[p].srvstate \in Ending)
    PROVE  ServicesInv'
  <1>1. ASSUME NEW q \in Ports PROVE PortOK(q)'
    BY <1>1, PortsElsewhere DEF ServicesInv
  <1>2. DroppedOnlyWhenClosing'
    <2> SUFFICES ASSUME NEW q \in dropped PROVE services'[q].srvstate \in Ending
      BY DEF DroppedOnlyWhenClosing, Ending
    <2>1. q \in Ports /\ services[q].srvstate \in Ending
      BY DEF ServicesInv, TypeOK, DroppedOnlyWhenClosing, Ending
    <2> QED BY <2>1 DEF Quiet
  <1> QED
    BY <1>1, <1>2 DEF ServicesInv, NoPanic

-----------------------------------------------------------------------------
(* The steps of the client. *)

Service == [srvstate : ServiceStates, closing : BOOLEAN,
            remoteport : 0 .. VCHIQ_PORT_FREE, remove_event : 0 .. 1]
Connections == [Ports -> {"none", "open", "refused", "closesent", "closed"}]
Clients == [op : {"idle", "connect", "open", "close"}, port : Ports]

\* The types by their parts.
LEMMA Types ==
    TypeOK <=>
        /\ conn_state \in {"DISCONNECTED", "CONNECTING", "CONNECTED"}
        /\ connect \in 0 .. 1 /\ connected \in BOOLEAN
        /\ services \in [Ports -> Service]
        /\ unused_service \in 0 .. MaxServices
        /\ client \in Clients /\ panicked \in BOOLEAN
        /\ vc_conn \in Connections
        /\ dropped \subseteq Ports
  BY DEF TypeOK, Service, Connections, Clients

LEMMA InitOK == Init => ServicesInv
  <1> SUFFICES ASSUME Init PROVE ServicesInv
    OBVIOUS
  <1> USE DEF Init
  <1>0. 0 \in Ports /\ MaxServices \in Nat /\ \A p \in Ports : p >= 0
    BY ServicesAssumption DEF Ports
  <1>1. NoService \in Service
    BY DEF NoService, Service, ServiceStates, VCHIQ_PORT_FREE
  <1>2. TypeOK
    <2>1. client \in Clients
      BY <1>0 DEF Clients, Idle
    <2> QED BY <1>0, <1>1, <2>1, Types DEF Connections
  <1>3. ASSUME NEW p \in Ports PROVE PortOK(p)
    BY <1>0, <1>3 DEF PortOK, NoService, Raised, PeerStates, Idle
  <1>4. FromInv /\ ToInv /\ OneConnect
    BY DEF FromInv, ToInv, OneConnect, Range, FromOrder, ToOrder
  <1>5. NoPanic /\ DroppedOnlyWhenClosing /\ (connect > 0 => client.op = "connect")
    BY DEF NoPanic, DroppedOnlyWhenClosing
  <1> QED
    BY <1>2, <1>3, <1>4, <1>5 DEF ServicesInv

\* What is known of port p.
LEMMA PortFacts ==
    ASSUME ServicesInv, NEW p \in Ports
    PROVE  /\ PortOK(p) /\ services[p] \in Service /\ p \in Nat
           /\ p \in 0 .. (PortRange - 1) /\ VcPort(p) \in 0 .. (PortRange - 1)
           /\ services[p].remove_event \in 0 .. 1
           /\ unused_service \in Nat /\ connect \in 0 .. 1
           /\ connect > 0 => client.op = "connect"
  BY PortsAreReal, Types DEF ServicesInv, Ports, Service

\* A service that becomes another one.
LEMMA ServiceReplaced ==
    ASSUME ServicesInv, NEW p \in Ports, NEW r \in Service, services' = [services EXCEPT ![p] = r]
    PROVE  /\ services' \in [Ports -> Service] /\ services'[p] = r
           /\ \A q \in Ports : q # p => services'[q] = services[q]
  BY Types DEF ServicesInv

\* What the steps make of a service.
LEMMA TakenOK ==
    ASSUME NEW s \in Service, s.remove_event = 1
    PROVE  /\ Taken(s) \in Service /\ Taken(s).remove_event = 0
           /\ Taken(s).srvstate = s.srvstate /\ Taken(s).closing = s.closing
           /\ Taken(s).remoteport = s.remoteport
  BY DEF Taken, Service

\* remove_event.up()
LEMMA EventUp ==
    ASSUME NEW s \in Service, s.remove_event = 0
    PROVE  LET r == [s EXCEPT !.remove_event = @ + 1] IN
           /\ r \in Service /\ r.remove_event = 1 /\ r.srvstate = s.srvstate
           /\ r.closing = s.closing /\ r.remoteport = s.remoteport
  BY DEF Service

LEMMA FreedOK ==
    ASSUME NEW s \in Service, s.remove_event = 0
    PROVE  /\ Freed(s) \in Service /\ Freed(s).remove_event = 1
           /\ Freed(s).srvstate = "FREE" /\ Freed(s).remoteport = s.remoteport
  <1> DEFINE d == [s EXCEPT !.srvstate = "FREE"]
  <1>1. Freed(s) = [d EXCEPT !.remove_event = @ + 1]
    BY DEF Freed
  <1>2. d \in Service /\ d.remove_event = 0 /\ d.srvstate = "FREE" /\ d.remoteport = s.remoteport
    BY DEF Service, ServiceStates
  <1> HIDE DEF d
  <1> QED
    BY <1>1, <1>2, EventUp

LEMMA CloseSentOK ==
    ASSUME NEW s \in Service
    PROVE  /\ CloseSent(s) \in Service /\ CloseSent(s).srvstate = "CLOSESENT"
           /\ CloseSent(s).remoteport = s.remoteport /\ CloseSent(s).remove_event = s.remove_event
  BY DEF CloseSent, Service, ServiceStates

LEMMA AcknowledgedOK ==
    ASSUME NEW s \in Service, s.remove_event = 0, NEW port \in 0 .. VCHIQ_PORT_FREE
    PROVE  /\ Acknowledged(s, port) \in Service /\ Acknowledged(s, port).srvstate = "OPEN"
           /\ Acknowledged(s, port).remoteport = port /\ Acknowledged(s, port).remove_event = 1
  <1> DEFINE d == [s EXCEPT !.remoteport = port, !.srvstate = "OPEN"]
  <1>1. Acknowledged(s, port) = [d EXCEPT !.remove_event = @ + 1]
    BY DEF Acknowledged
  <1>2. d \in Service /\ d.remove_event = 0 /\ d.srvstate = "OPEN" /\ d.remoteport = port
    BY DEF Service, ServiceStates
  <1> HIDE DEF d
  <1> QED
    BY <1>1, <1>2, EventUp

\* A service that is told that its peer closes.
LEMMA CloseReceivedOK ==
    ASSUME NEW s \in Service, s.srvstate \in {"OPENING", "OPEN", "CLOSESENT"},
           s.srvstate # "OPEN" => s.remove_event = 0
    PROVE  LET r == CloseReceived(s) IN
           /\ r \in Service
           /\ s.srvstate = "OPENING" =>
                r.srvstate = "CLOSEWAIT" /\ r.closing /\ r.remoteport = s.remoteport /\ r.remove_event = 1
           /\ s.srvstate = "OPEN" =>
                r.srvstate = "OPEN" /\ r.remoteport = s.remoteport /\ r.remove_event = s.remove_event
           /\ s.srvstate = "CLOSESENT" =>
                r.srvstate = "FREE" /\ r.remoteport = VCHIQ_PORT_FREE /\ r.remove_event = 1
  <1> DEFINE r == CloseReceived(s)
             c == [s EXCEPT !.closing = TRUE]
  <1>1. c \in Service /\ c.remove_event = s.remove_event /\ c.srvstate = s.srvstate /\ c.remoteport = s.remoteport
    BY DEF Service
  <1>2. CASE s.srvstate = "OPENING"
    <2> DEFINE d == [s EXCEPT !.closing = TRUE, !.srvstate = "CLOSEWAIT"]
    <2>1. r = [d EXCEPT !.remove_event = @ + 1]
      BY <1>2 DEF CloseReceived
    <2>2. /\ d \in Service /\ d.remove_event = 0 /\ d.srvstate = "CLOSEWAIT" /\ d.closing
          /\ d.remoteport = s.remoteport
      BY <1>2 DEF Service, ServiceStates
    <2> HIDE DEF r, d
    <2>3. r \in Service /\ r.srvstate = "CLOSEWAIT" /\ r.closing /\ r.remoteport = s.remoteport /\ r.remove_event = 1
      BY <2>1, <2>2, EventUp
    <2> QED BY <1>2, <2>3 DEF r
  <1>3. CASE s.srvstate = "OPEN"
    <2>1. r = c
      BY <1>3 DEF CloseReceived
    <2> QED BY <1>1, <1>3, <2>1
  <1>4. CASE s.srvstate = "CLOSESENT"
    <2> DEFINE d == [c EXCEPT !.remoteport = VCHIQ_PORT_FREE]
    <2>1. r = Freed(d)
      BY <1>4 DEF CloseReceived, Completed
    <2> HIDE DEF c
    <2>2. d \in Service /\ d.remove_event = 0 /\ d.remoteport = VCHIQ_PORT_FREE
      BY <1>1, <1>4 DEF Service, VCHIQ_PORT_FREE
    <2> HIDE DEF d, r
    <2>3. r \in Service /\ r.srvstate = "FREE" /\ r.remoteport = VCHIQ_PORT_FREE /\ r.remove_event = 1
      BY <2>1, <2>2, FreedOK
    <2> QED BY <1>4, <2>3 DEF r
  <1> QED
    BY <1>2, <1>3, <1>4

LEMMA BeginConnectOK ==
    ASSUME ServicesInv, BeginConnect
    PROVE  ServicesInv'
  <1> DEFINE p == MaxServices
             x == make_msg_id(CONNECT, 0, 0)
  <1>1. /\ client.op = "idle" /\ client'.op = "connect" /\ client' \in Clients /\ conn_state' = "CONNECTING"
        /\ UNCHANGED <<connect, connected, services, unused_service, panicked, from_vc, vc_conn, dropped>>
        /\ to_vc' = Append(to_vc, x)
    BY PortsAreReal DEF BeginConnect, Queue, Idle, Clients
  <1>2. x \in Nat /\ Kind(x) = CONNECT /\ p \notin Ports /\ unused_service \in Nat
    <2>1. CONNECT \in 0 .. 5 /\ 0 \in 0 .. (PortRange - 1)
      BY PortsAreReal DEF CONNECT
    <2>2. x \in Nat /\ Kind(x) = CONNECT
      BY <2>1, MsgIdParts
    <2> QED BY <2>2, PortsAreReal, Types DEF Ports, ServicesInv
  <1> HIDE DEF p, x
  <1>3. Quiet(p)
    BY <1>1, <1>2, QuietStep DEF Operations
  <1>4. ~Connects /\ connect = 0 /\ Connects'
    BY <1>1, Types DEF Connects, ServicesInv
  <1>5. /\ \A id \in Range(from_vc) : Kind(id) # CONNECT /\ FromOK(id)
        /\ \A id \in Range(to_vc) : Kind(id) # CONNECT /\ ToOK(id)
    BY <1>4 DEF ServicesInv, FromInv, ToInv, FromOK, ToOK
  <1>6. FromInv'
    <2>1. \A id \in Range(from_vc) : dst_port_from_id(id) # p
      BY <1>2, <1>5 DEF FromOK, FromPort
    <2> QED BY <1>1, <1>3, <1>4, <2>1, FromSame DEF ServicesInv
  <1>7. ToInv'
    <2>1. \A id \in Range(to_vc) : src_port_from_id(id) # p /\ ToBefore(id, x)
      BY <1>2, <1>5 DEF ToOK, ToPort, ToBefore
    <2>2. ToOK(x)'
      BY <1>2, <1>4 DEF ToOK
    <2> QED BY <1>1, <1>2, <1>3, <1>4, <2>1, <2>2, ToSends DEF ServicesInv
  <1>8. TypeOK'
    BY <1>1, Types, Zenon DEF ServicesInv, TypeOK, Clients
  <1>9. OneConnect'
    BY <1>1, <1>5 DEF OneConnect
  <1> QED
    BY <1>1, <1>2, <1>3, <1>4, <1>6, <1>7, <1>8, <1>9, Combine DEF ServicesInv, NoPanic

LEMMA EndConnectOK ==
    ASSUME ServicesInv, EndConnect
    PROVE  ServicesInv'
  <1> DEFINE p == MaxServices
  <1>1. /\ client.op = "connect" /\ client'.op = "idle" /\ client' \in Clients /\ conn_state' = "CONNECTED"
        /\ connected' = TRUE /\ connect > 0 /\ connect' = connect - 1
        /\ UNCHANGED <<services, unused_service, panicked, to_vc, from_vc, vc_conn, dropped>>
    BY PortsAreReal DEF EndConnect, Idle, Clients
  <1>2. p \notin Ports /\ unused_service \in Nat /\ connect' = 0
    BY <1>1, PortsAreReal, Types DEF Ports, ServicesInv
  <1> HIDE DEF p
  <1>3. Quiet(p)
    BY <1>1, <1>2, QuietStep DEF Operations
  <1>4. ~Connects
    BY <1>1, Types DEF Connects, ServicesInv
  <1>5. FromInv' /\ ToInv'
    <2>1. /\ \A id \in Range(from_vc) : Kind(id) # CONNECT => dst_port_from_id(id) # p
          /\ \A id \in Range(to_vc) : Kind(id) # CONNECT => src_port_from_id(id) # p
      BY <1>2 DEF ServicesInv, FromInv, ToInv, FromOK, FromPort, ToOK, ToPort
    <2> QED BY <1>1, <1>3, <1>4, <2>1, FromSame, ToSame DEF ServicesInv
  <1>6. TypeOK'
    <2>1. connect' \in 0 .. 1
      BY <1>2
    <2> QED BY <1>1, <2>1, Types, Zenon DEF ServicesInv, TypeOK, Clients
  <1>7. OneConnect'
    BY <1>1 DEF OneConnect, ServicesInv
  <1>8. (connect > 0 => client.op = "connect")'
    BY <1>2
  <1> QED
    BY <1>1, <1>2, <1>3, <1>5, <1>6, <1>7, <1>8, Combine DEF ServicesInv, NoPanic

LEMMA BeginOpenOK ==
    ASSUME ServicesInv, NEW p \in Ports, BeginOpen(p)
    PROVE  ServicesInv'
  <1> DEFINE x == make_msg_id(OPEN, p, 0)
             r == [NoService EXCEPT !.srvstate = "OPENING"]
  <1>1. /\ client.op = "idle" /\ client' = [op |-> "open", port |-> p] /\ client' \in Clients
        /\ services' = [services EXCEPT ![p] = r]
        /\ unused_service' = unused_service + 1 /\ FreePort(p)
        /\ UNCHANGED <<conn_state, connect, connected, panicked, from_vc, vc_conn, dropped>>
        /\ to_vc' = Append(to_vc, x)
    BY DEF BeginOpen, Queue, Idle, Clients
  <1>2. /\ x \in Nat /\ Kind(x) = OPEN /\ src_port_from_id(x) = p
        /\ unused_service \in Nat /\ p \in Nat /\ PortOK(p) /\ connect \in 0 .. 1 /\ connect = 0
    <2>1. OPEN \in 0 .. 5 /\ p \in 0 .. (PortRange - 1) /\ 0 \in 0 .. (PortRange - 1)
      BY PortsAreReal DEF OPEN
    <2>2. x \in Nat /\ Kind(x) = OPEN /\ src_port_from_id(x) = p
      BY <2>1, MsgIdParts
    <2> QED BY <1>1, <2>2, PortFacts
  <1>3. p = unused_service /\ services[p] = NoService /\ services[p].srvstate = "NONE" /\ vc_conn[p] = "none"
    <2>1. services[p] = NoService => services[p].srvstate = "NONE"
      BY DEF NoService
    <2>2. p = unused_service
      BY <1>1, <1>2, <2>1 DEF FreePort, PortOK
    <2>3. services[p].srvstate = "NONE" /\ services[p] = NoService
      BY <1>2, <2>2 DEF PortOK
    <2> QED BY <1>2, <2>2, <2>3 DEF PortOK, PeerStates
  <1>4. /\ r \in Service /\ r.srvstate = "OPENING" /\ r.remoteport = VCHIQ_PORT_FREE /\ r.remove_event = 0
    <2>1. NoService \in Service /\ NoService.remoteport = VCHIQ_PORT_FREE /\ NoService.remove_event = 0
      BY DEF NoService, Service, ServiceStates, VCHIQ_PORT_FREE
    <2> QED BY <2>1 DEF Service, ServiceStates
  <1> HIDE DEF x, r
  <1>5. /\ services' \in [Ports -> Service] /\ services'[p] = r
        /\ \A q \in Ports : q # p => services'[q] = services[q]
    BY <1>1, <1>4, ServiceReplaced
  <1>6. Quiet(p)
    BY <1>1, <1>2, <1>3, <1>5, QuietStep DEF Operations
  <1>7. ~Connects /\ ~Connects'
    BY <1>1, <1>2 DEF Connects
  <1>8. /\ \A id \in Range(from_vc) : Kind(id) # CONNECT => dst_port_from_id(id) # p
        /\ \A id \in Range(to_vc) : Kind(id) # CONNECT /\ src_port_from_id(id) # p
    <2>1. \A id \in Range(from_vc) : FromOK(id)
      BY DEF ServicesInv, FromInv
    <2>2. \A id \in Range(to_vc) : ToOK(id)
      BY DEF ServicesInv, ToInv
    <2> QED BY <1>3, <1>7, <2>1, <2>2 DEF FromOK, FromPort, ToOK, ToPort
  <1>9. FromInv'
    BY <1>1, <1>6, <1>7, <1>8, FromSame DEF ServicesInv
  <1>10. ToInv'
    <2>1. OPEN # CONNECT
      BY DEF OPEN, CONNECT
    <2>2. \A id \in Range(to_vc) : ToBefore(id, x)
      BY <1>2, <1>8, <2>1 DEF ToBefore
    <2>3. ToOK(x)'
      BY <1>1, <1>2, <1>3, <1>4, <1>5, <2>1 DEF ToOK, ToPort
    <2> QED BY <1>1, <1>2, <1>6, <1>7, <1>8, <2>2, <2>3, ToSends DEF ServicesInv
  <1>11. TypeOK'
    <2>1. unused_service' \in 0 .. MaxServices
      BY <1>1, <1>2, <1>3, PortsAreReal DEF Ports
    <2> QED BY <1>1, <1>5, <2>1, Zenon DEF ServicesInv, TypeOK, Service, Clients
  <1>12. OneConnect'
    <2>1. Range(to_vc') = Range(to_vc) \cup {x}
      BY <1>1, <1>2, Appended DEF ServicesInv, ToInv
    <2>2. OPEN # CONNECT
      BY DEF OPEN, CONNECT
    <2> QED BY <1>1, <1>2, <1>8, <2>1, <2>2 DEF OneConnect
  <1>13. PortOK(p)'
    <2>1. ~(p >= unused_service')
      BY <1>1, <1>2, <1>3
    <2>2. ~Raised(p)'
      BY <1>1, <1>4, <1>5 DEF Raised
    <2>3. vc_conn'[p] = "none" /\ "none" \in PeerStates("OPENING")
      BY <1>1, <1>3 DEF PeerStates
    <2> QED BY <1>1, <1>4, <1>5, <2>1, <2>2, <2>3 DEF PortOK
  <1> QED
    BY <1>1, <1>2, <1>3, <1>6, <1>9, <1>10, <1>11, <1>12, <1>13, Combine DEF ServicesInv, NoPanic, Ending

\* The wait of open_service or of close_service ends.
LEMMA EndWaitOK ==
    ASSUME ServicesInv, EndOpen \/ EndClose
    PROVE  ServicesInv'
  <1>0. PICK p : p = client.port
    OBVIOUS
  <1> DEFINE r == Taken(services[p])
  <1>1. /\ client.op \in Operations /\ services[p].remove_event > 0
        /\ client' = Idle /\ services' = [services EXCEPT ![p] = r]
        /\ UNCHANGED <<conn_state, connect, connected, unused_service, panicked, to_vc, from_vc, vc_conn, dropped>>
    BY <1>0 DEF EndOpen, EndClose, Operations
  <1>2. p \in Ports /\ client \in Clients
    BY <1>0, Types DEF ServicesInv, Clients
  <1>3. PICK o \in Operations : client = [op |-> o, port |-> p]
    BY <1>0, <1>1, <1>2 DEF Clients
  <1> HIDE DEF r
  <1>4. /\ PortOK(p) /\ services[p] \in Service /\ services[p].remove_event = 1
        /\ unused_service \in Nat /\ connect \in 0 .. 1 /\ connect = 0
    BY <1>1, <1>2, PortFacts DEF Operations
  <1>5. /\ r \in Service /\ r.remove_event = 0 /\ r.srvstate = services[p].srvstate
        /\ r.closing = services[p].closing /\ r.remoteport = services[p].remoteport
    BY <1>4, TakenOK DEF r
  <1>6. /\ services' \in [Ports -> Service] /\ services'[p] = r
        /\ \A q \in Ports : q # p => services'[q] = services[q]
    BY <1>1, <1>2, <1>5, ServiceReplaced
  <1>7. client'.op = "idle" /\ client' \in Clients /\ client.port = p
    BY <1>1, <1>3, PortsAreReal DEF Idle, Clients
  <1>8. Quiet(p)
    BY <1>1, <1>4, <1>6, <1>7, QuietStep DEF Operations
  <1>9. ~Connects /\ ~Connects'
    BY <1>1, <1>7 DEF Connects, Operations
  <1>10. FromInv'
    <2>1. \A id \in Range(from_vc) : Kind(id) # CONNECT /\ dst_port_from_id(id) = p => FromOK(id)'
      BY <1>1, <1>5, <1>6 DEF ServicesInv, FromInv, FromOK, FromPort
    <2> QED BY <1>1, <1>8, <1>9, <2>1, FromSame DEF ServicesInv
  <1>11. ToInv'
    <2>1. \A id \in Range(to_vc) : Kind(id) # CONNECT /\ src_port_from_id(id) = p => ToOK(id)'
      BY <1>1, <1>5, <1>6 DEF ServicesInv, ToInv, ToOK, ToPort
    <2> QED BY <1>1, <1>8, <1>9, <2>1, ToSame DEF ServicesInv
  <1>12. TypeOK'
    BY <1>1, <1>6, <1>7, Zenon DEF ServicesInv, TypeOK, Service, Clients
  <1>13. OneConnect'
    BY <1>1 DEF OneConnect, ServicesInv
  <1>14. PortOK(p)'
    <2>1. Raised(p)
      BY <1>4 DEF PortOK
    <2>2. services[p].srvstate \in {"OPEN", "CLOSEWAIT", "FREE"}
      BY <2>1 DEF Raised
    <2>3. ~Raised(p)'
      BY <1>7 DEF Raised
    <2> QED BY <1>1, <1>4, <1>5, <1>6, <2>2, <2>3 DEF PortOK
  <1> QED
    BY <1>1, <1>4, <1>5, <1>6, <1>8, <1>10, <1>11, <1>12, <1>13, <1>14, Combine DEF ServicesInv, NoPanic

LEMMA QueueDataOK ==
    ASSUME ServicesInv, NEW p \in Ports, QueueData(p)
    PROVE  ServicesInv'
  <1> DEFINE x == make_msg_id(DATA, p, VcPort(p))
  <1>1. /\ client.op = "idle" /\ services[p].srvstate \in {"OPEN", "CLOSEWAIT"} /\ ~services[p].closing
        /\ to_vc' = Append(to_vc, make_msg_id(DATA, p, services[p].remoteport))
        /\ UNCHANGED <<conn_state, connect, connected, services, unused_service, client, panicked>>
        /\ UNCHANGED <<from_vc, vc_conn, dropped>>
    BY DEF QueueData, Held, MaySend, Queue, armVars, Idle
  <1>2. PortOK(p) /\ p \in 0 .. (PortRange - 1) /\ VcPort(p) \in 0 .. (PortRange - 1) /\ unused_service \in Nat
    BY PortFacts
  <1>3. /\ services[p].srvstate = "OPEN" /\ services[p].remoteport = VcPort(p)
        /\ vc_conn[p] \in {"open", "closesent"} /\ to_vc' = Append(to_vc, x)
    BY <1>1, <1>2 DEF PortOK, PeerStates
  <1>4. x \in Nat /\ Kind(x) = DATA /\ src_port_from_id(x) = p /\ dst_port_from_id(x) = VcPort(p)
        /\ DATA # CONNECT /\ DATA # OPEN /\ DATA # CLOSE
    <2>1. DATA \in 0 .. 5 /\ DATA # CONNECT /\ DATA # OPEN /\ DATA # CLOSE
      BY DEF DATA, CONNECT, OPEN, CLOSE
    <2> QED BY <1>2, <1>3, <2>1, MsgIdParts
  <1> HIDE DEF x
  <1>5. Quiet(p)
    BY <1>1, <1>2, QuietStep
  <1>6. ~Connects /\ ~Connects'
    BY <1>1 DEF Connects
  <1>7. FromInv'
    <2>1. \A id \in Range(from_vc) : Kind(id) # CONNECT /\ dst_port_from_id(id) = p => FromOK(id)'
      BY <1>1 DEF ServicesInv, FromInv, FromOK, FromPort
    <2> QED BY <1>1, <1>5, <1>6, <2>1, FromSame DEF ServicesInv
  <1>8. ToInv'
    <2>1. \A id \in Range(to_vc) : ToOK(id) /\ Kind(id) # CONNECT
      BY <1>6 DEF ServicesInv, ToInv, ToOK
    <2>2. \A id \in Range(to_vc) : Kind(id) # CONNECT /\ src_port_from_id(id) = p => ToOK(id)'
      BY <1>1, <2>1 DEF ToOK, ToPort
    <2>3. \A id \in Range(to_vc) : ToBefore(id, x)
      BY <1>3, <1>4, <2>1 DEF ToBefore, ToOK, ToPort
    <2>4. ToOK(x)'
      BY <1>1, <1>3, <1>4 DEF ToOK, ToPort
    <2> QED BY <1>3, <1>4, <1>5, <1>6, <2>2, <2>3, <2>4, ToSends DEF ServicesInv
  <1>9. TypeOK'
    BY <1>1, Zenon DEF ServicesInv, TypeOK
  <1>10. OneConnect'
    <2>1. Range(to_vc') = Range(to_vc) \cup {x}
      BY <1>3, <1>4, Appended DEF ServicesInv, ToInv
    <2> QED BY <1>1, <1>4, <2>1 DEF OneConnect, ServicesInv
  <1>11. PortOK(p)'
    BY <1>1, <1>2 DEF PortOK, Raised, Acked
  <1> QED
    BY <1>1, <1>5, <1>7, <1>8, <1>9, <1>10, <1>11, Combine DEF ServicesInv, NoPanic

LEMMA BeginCloseRefusedOK ==
    ASSUME ServicesInv, NEW p \in Ports, BeginCloseRefused(p)
    PROVE  ServicesInv'
  <1> DEFINE c == [services[p] EXCEPT !.closing = TRUE]
             r == Freed(c)
  <1>1. /\ client = Idle /\ client.op = "idle" /\ client' = [op |-> "close", port |-> p] /\ client' \in Clients
        /\ services[p].srvstate = "CLOSEWAIT" /\ services' = [services EXCEPT ![p] = r]
        /\ UNCHANGED <<conn_state, connect, connected, unused_service, panicked, to_vc, from_vc, vc_conn, dropped>>
    BY DEF BeginCloseRefused, Idle, Clients
  <1>2. /\ PortOK(p) /\ services[p] \in Service /\ unused_service \in Nat
        /\ connect \in 0 .. 1 /\ connect = 0
    BY <1>1, PortFacts
  <1>3. /\ services[p].remove_event = 0 /\ vc_conn[p] = "refused"
        /\ services[p].remoteport = VCHIQ_PORT_FREE
    <2>1. ~Raised(p)
      BY <1>1 DEF Raised
    <2> QED BY <1>1, <1>2, <2>1 DEF PortOK, PeerStates
  <1>4. /\ r \in Service /\ r.remove_event = 1 /\ r.srvstate = "FREE" /\ r.remoteport = VCHIQ_PORT_FREE
    <2>1. c \in Service /\ c.remove_event = 0 /\ c.remoteport = VCHIQ_PORT_FREE
      BY <1>2, <1>3 DEF Service
    <2> HIDE DEF c
    <2> QED BY <2>1, FreedOK
  <1> HIDE DEF c, r
  <1>5. /\ services' \in [Ports -> Service] /\ services'[p] = r
        /\ \A q \in Ports : q # p => services'[q] = services[q]
    BY <1>1, <1>4, ServiceReplaced
  <1>6. Quiet(p)
    BY <1>1, <1>2, <1>5, QuietStep DEF Operations
  <1>7. ~Connects /\ ~Connects'
    BY <1>1 DEF Connects
  <1>8. FromInv'
    <2>1. \A id \in Range(from_vc) : Kind(id) # CONNECT /\ dst_port_from_id(id) = p => FromOK(id)'
      BY <1>1, <1>3 DEF ServicesInv, FromInv, FromOK, FromPort
    <2> QED BY <1>1, <1>6, <1>7, <2>1, FromSame DEF ServicesInv
  <1>9. ToInv'
    <2>1. \A id \in Range(to_vc) : Kind(id) # CONNECT /\ src_port_from_id(id) = p => ToOK(id)'
      BY <1>1, <1>3 DEF ServicesInv, ToInv, ToOK, ToPort
    <2> QED BY <1>1, <1>6, <1>7, <2>1, ToSame DEF ServicesInv
  <1>10. TypeOK'
    BY <1>1, <1>5, Zenon DEF ServicesInv, TypeOK, Service, Clients
  <1>11. OneConnect'
    BY <1>1 DEF OneConnect, ServicesInv
  <1>12. PortOK(p)'
    <2>1. Raised(p)'
      BY <1>1, <1>4, <1>5 DEF Raised
    <2>2. vc_conn'[p] \in PeerStates("FREE")
      BY <1>1, <1>3 DEF PeerStates
    <2> QED BY <1>1, <1>2, <1>4, <1>5, <2>1, <2>2 DEF PortOK
  <1> QED
    BY <1>1, <1>2, <1>4, <1>5, <1>6, <1>8, <1>9, <1>10, <1>11, <1>12, Combine DEF ServicesInv, NoPanic, Ending

LEMMA BeginCloseOK ==
    ASSUME ServicesInv, NEW p \in Ports, BeginClose(p)
    PROVE  ServicesInv'
  <1> DEFINE x == make_msg_id(CLOSE, p, VcPort(p))
             r == CloseSent(services[p])
  <1>1. /\ client = Idle /\ client.op = "idle" /\ client' = [op |-> "close", port |-> p] /\ client' \in Clients
        /\ services[p].srvstate = "OPEN" /\ services' = [services EXCEPT ![p] = r]
        /\ to_vc' = Append(to_vc, make_msg_id(CLOSE, p, services[p].remoteport % PortRange))
        /\ UNCHANGED <<conn_state, connect, connected, unused_service, panicked, from_vc, vc_conn, dropped>>
    BY DEF BeginClose, Queue, Idle, Clients
  <1>2. /\ PortOK(p) /\ services[p] \in Service /\ unused_service \in Nat
        /\ connect \in 0 .. 1 /\ connect = 0
        /\ p \in 0 .. (PortRange - 1) /\ VcPort(p) \in 0 .. (PortRange - 1)
    BY <1>1, PortFacts
  <1>3. /\ services[p].remove_event = 0 /\ vc_conn[p] \in {"open", "closesent"}
        /\ services[p].remoteport = VcPort(p)
    <2>1. ~Raised(p)
      BY <1>1 DEF Raised
    <2> QED BY <1>1, <1>2, <2>1 DEF PortOK, PeerStates
  <1>4. /\ r \in Service /\ r.remove_event = 0 /\ r.srvstate = "CLOSESENT" /\ r.remoteport = VcPort(p)
    BY <1>2, <1>3, CloseSentOK
  <1>5. x \in Nat /\ Kind(x) = CLOSE /\ src_port_from_id(x) = p /\ CLOSE # CONNECT /\ CLOSE # OPEN
        /\ CLOSE # DATA /\ to_vc' = Append(to_vc, x)
    <2>1. CLOSE \in 0 .. 5 /\ CLOSE # CONNECT /\ CLOSE # OPEN /\ CLOSE # DATA
      BY DEF DATA, CONNECT, OPEN, CLOSE
    <2>2. VcPort(p) % PortRange = VcPort(p)
      <3> DEFINE v == VcPort(p)
      <3>1. v \in 0 .. (PortRange - 1)
        BY <1>2
      <3> HIDE DEF v
      <3>2. v % PortRange = v
        BY <3>1 DEF PortRange
      <3> QED BY <3>2 DEF v
    <2>3. to_vc' = Append(to_vc, x)
      BY <1>1, <1>3, <2>2
    <2>4. x \in Nat /\ Kind(x) = CLOSE /\ src_port_from_id(x) = p
      BY <1>2, <2>1, MsgIdParts
    <2> QED BY <2>1, <2>3, <2>4
  <1> HIDE DEF x, r
  <1>6. /\ services' \in [Ports -> Service] /\ services'[p] = r
        /\ \A q \in Ports : q # p => services'[q] = services[q]
    BY <1>1, <1>4, ServiceReplaced
  <1>7. Quiet(p)
    BY <1>1, <1>2, <1>6, QuietStep DEF Operations
  <1>8. ~Connects /\ ~Connects'
    BY <1>1 DEF Connects
  <1>9. FromInv'
    <2>1. \A id \in Range(from_vc) : Kind(id) # CONNECT /\ dst_port_from_id(id) = p => FromOK(id)'
      BY <1>1, <1>3, <1>4, <1>6 DEF ServicesInv, FromInv, FromOK, FromPort
    <2> QED BY <1>1, <1>7, <1>8, <2>1, FromSame DEF ServicesInv
  <1>10. ToInv'
    <2>1. \A id \in Range(to_vc) : ToOK(id) /\ Kind(id) # CONNECT
      BY <1>8 DEF ServicesInv, ToInv, ToOK
    <2>2. \A id \in Range(to_vc) : Kind(id) # CONNECT /\ src_port_from_id(id) = p => ToOK(id)'
      BY <1>1, <1>3, <1>4, <1>6, <2>1 DEF ToOK, ToPort
    <2>3. \A id \in Range(to_vc) : ToBefore(id, x)
      BY <1>1, <1>5, <2>1 DEF ToBefore, ToOK, ToPort
    <2>4. ToOK(x)'
      BY <1>1, <1>3, <1>4, <1>5, <1>6 DEF ToOK, ToPort
    <2> QED BY <1>1, <1>5, <1>7, <1>8, <2>2, <2>3, <2>4, ToSends DEF ServicesInv
  <1>11. TypeOK'
    BY <1>1, <1>6, Zenon DEF ServicesInv, TypeOK, Service, Clients
  <1>12. OneConnect'
    <2>1. Range(to_vc') = Range(to_vc) \cup {x}
      BY <1>1, <1>5, Appended DEF ServicesInv, ToInv
    <2> QED BY <1>1, <1>5, <2>1 DEF OneConnect, ServicesInv
  <1>13. PortOK(p)'
    <2>1. ~Raised(p)'
      BY <1>1, <1>4, <1>6 DEF Raised
    <2>2. vc_conn'[p] \in PeerStates("CLOSESENT")
      BY <1>1, <1>3 DEF PeerStates
    <2> QED BY <1>1, <1>2, <1>4, <1>6, <2>1, <2>2 DEF PortOK
  <1> QED
    BY <1>1, <1>2, <1>4, <1>6, <1>7, <1>9, <1>10, <1>11, <1>12, <1>13, Combine DEF ServicesInv, NoPanic, Ending

-----------------------------------------------------------------------------
(* The steps of slot_handler. *)

\* The message slot_handler takes and those behind it.
LEMMA ReceiveFacts ==
    ASSUME ServicesInv, NEW t, Receive(t)
    PROVE  /\ from_vc # <<>> /\ from_vc' = Tail(from_vc)
           /\ Kind(Head(from_vc)) = t /\ FromOK(Head(from_vc)) /\ Head(from_vc) \in Range(from_vc)
           /\ Range(from_vc) = Range(from_vc') \cup {Head(from_vc)}
           /\ \A id \in Range(from_vc') : FromOK(id) /\ FromBefore(Head(from_vc), id)
           /\ \A id \in Range(to_vc) : ToOK(id)
           /\ UNCHANGED <<conn_state, connected, unused_service, client, to_vc, vc_conn>>
           /\ unused_service \in Nat
  <1>1. /\ from_vc # <<>> /\ from_vc' = Tail(from_vc) /\ Kind(Head(from_vc)) = t
        /\ UNCHANGED <<conn_state, connected, unused_service, client, to_vc, vc_conn>>
    BY DEF Receive, Kind
  <1>2. /\ from_vc \in Seq(Nat) /\ FromOrder(from_vc) /\ \A id \in Range(from_vc) : FromOK(id)
        /\ \A id \in Range(to_vc) : ToOK(id)
    BY DEF ServicesInv, FromInv, ToInv
  <1>3. /\ Range(from_vc) = Range(Tail(from_vc)) \cup {Head(from_vc)}
        /\ \A id \in Range(Tail(from_vc)) : FromBefore(Head(from_vc), id)
    BY <1>1, <1>2, FirstOut
  <1>4. unused_service \in Nat
    BY Types DEF ServicesInv
  <1> QED
    BY <1>1, <1>2, <1>3, <1>4

LEMMA HandleConnectOK ==
    ASSUME ServicesInv, HandleConnect
    PROVE  ServicesInv'
  <1> DEFINE p == MaxServices
             h == Head(from_vc)
  <1>1. /\ Receive(CONNECT) /\ connect' = connect + 1 /\ UNCHANGED <<services, panicked, dropped>>
    BY DEF HandleConnect
  <1>2. /\ from_vc # <<>> /\ from_vc' = Tail(from_vc) /\ Kind(h) = CONNECT /\ FromOK(h) /\ h \in Range(from_vc)
        /\ Range(from_vc) = Range(from_vc') \cup {h}
        /\ \A id \in Range(from_vc') : FromOK(id) /\ FromBefore(h, id)
        /\ \A id \in Range(to_vc) : ToOK(id)
        /\ UNCHANGED <<conn_state, connected, unused_service, client, to_vc, vc_conn>>
        /\ unused_service \in Nat
    BY <1>1, ReceiveFacts
  <1>3. p \notin Ports /\ CONNECT # OPENACK
    BY PortsAreReal DEF Ports, CONNECT, OPENACK
  <1> HIDE DEF p, h
  <1>4. connect = 0 /\ client.op = "connect" /\ connect' = 1
    BY <1>1, <1>2 DEF FromOK, Connects
  <1>5. Quiet(p)
    BY <1>1, <1>2, <1>3, QuietStep
  <1>6. /\ \A id \in Range(from_vc') : Kind(id) # CONNECT
        /\ \A id \in Range(to_vc) : Kind(id) # CONNECT
    BY <1>2 DEF FromBefore, ServicesInv, OneConnect
  <1>7. /\ \A id \in Range(from_vc') : dst_port_from_id(id) # p
        /\ \A id \in Range(to_vc) : src_port_from_id(id) # p
    BY <1>2, <1>3, <1>6 DEF FromOK, FromPort, ToOK, ToPort
  <1>8. FromInv'
    BY <1>2, <1>5, <1>6, <1>7, FromTakes DEF ServicesInv
  <1>9. ToInv'
    BY <1>2, <1>5, <1>6, <1>7, ToSame DEF ServicesInv
  <1>10. TypeOK'
    <2>1. connect' \in 0 .. 1
      BY <1>4
    <2> QED BY <1>1, <1>2, <2>1, Zenon DEF ServicesInv, TypeOK
  <1>11. OneConnect'
    BY <1>6 DEF OneConnect
  <1> QED
    BY <1>1, <1>2, <1>3, <1>4, <1>5, <1>8, <1>9, <1>10, <1>11, Combine DEF ServicesInv, NoPanic

LEMMA HandleOpenAckOK ==
    ASSUME ServicesInv, HandleOpenAck
    PROVE  ServicesInv'
  <1>0. PICK h, p : h = Head(from_vc) /\ p = dst_port_from_id(h)
    OBVIOUS
  <1> DEFINE r == Acknowledged(services[p], src_port_from_id(h))
  <1>1. /\ Receive(OPENACK) /\ panicked' = NotThere /\ UNCHANGED <<connect, dropped>>
        /\ services[p].srvstate = "OPENING" => services' = [services EXCEPT ![p] = r]
    BY <1>0 DEF HandleOpenAck, local_port, remote_port
  <1>2. /\ from_vc # <<>> /\ from_vc' = Tail(from_vc) /\ Kind(h) = OPENACK /\ FromOK(h) /\ h \in Range(from_vc)
        /\ Range(from_vc) = Range(from_vc') \cup {h}
        /\ \A id \in Range(from_vc') : FromOK(id) /\ FromBefore(h, id)
        /\ \A id \in Range(to_vc) : ToOK(id)
        /\ UNCHANGED <<conn_state, connected, unused_service, client, to_vc, vc_conn>>
        /\ unused_service \in Nat
    BY <1>0, <1>1, ReceiveFacts
  <1>3. OPENACK # CONNECT /\ OPENACK # DATA /\ OPENACK # CLOSE
    BY DEF OPENACK, CONNECT, DATA, CLOSE
  <1>4. /\ p \in Ports /\ services[p].srvstate = "OPENING" /\ vc_conn[p] \in {"open", "closesent"}
        /\ src_port_from_id(h) = VcPort(p)
    BY <1>0, <1>2, <1>3 DEF FromOK, FromPort
  <1>5. PortOK(p) /\ services[p] \in Service /\ VcPort(p) \in 0 .. VCHIQ_PORT_FREE
    BY <1>4, PortFacts DEF VCHIQ_PORT_FREE, PortRange
  <1>6. services[p].remove_event = 0 /\ client = [op |-> "open", port |-> p]
    BY <1>4, <1>5 DEF PortOK, Raised
  <1>7. /\ r \in Service /\ r.srvstate = "OPEN" /\ r.remoteport = VcPort(p) /\ r.remove_event = 1
    BY <1>4, <1>5, <1>6, AcknowledgedOK
  <1> HIDE DEF r
  <1>8. /\ services' \in [Ports -> Service] /\ services'[p] = r
        /\ \A q \in Ports : q # p => services'[q] = services[q]
    BY <1>1, <1>4, <1>7, ServiceReplaced
  <1>9. ~panicked'
    BY <1>0, <1>1, <1>4 DEF NotThere, local_port
  <1>10. Quiet(p)
    BY <1>0, <1>2, <1>8, QuietStep
  <1>11. Connects => Connects'
    BY <1>1, <1>2 DEF Connects
  <1>12. FromInv'
    <2>1. ASSUME NEW id \in Range(from_vc'), Kind(id) # CONNECT, dst_port_from_id(id) = p PROVE FromOK(id)'
      <3>1. FromOK(id) /\ Kind(id) # OPENACK
        BY <1>0, <1>2, <1>3, <2>1 DEF FromBefore
      <3> QED BY <1>2, <1>4, <1>7, <1>8, <2>1, <3>1 DEF FromOK, FromPort
    <2> QED BY <1>2, <1>10, <1>11, <2>1, FromTakes DEF ServicesInv
  <1>13. ToInv'
    <2>1. \A id \in Range(to_vc) : Kind(id) # CONNECT /\ src_port_from_id(id) = p => ToOK(id)'
      BY <1>2, <1>4, <1>7, <1>8 DEF ToOK, ToPort
    <2> QED BY <1>2, <1>10, <1>11, <2>1, ToSame DEF ServicesInv
  <1>14. TypeOK'
    <2>0. NotThere \in BOOLEAN
      BY DEF NotThere
    <2>1. panicked' \in BOOLEAN
      BY <1>1, <2>0, Zenon
    <2> QED BY <1>1, <1>2, <1>8, <2>1, Zenon DEF ServicesInv, TypeOK, Service
  <1>15. OneConnect'
    BY <1>2 DEF OneConnect, ServicesInv
  <1>16. PortOK(p)'
    <2>1. Raised(p)'
      BY <1>2, <1>6, <1>7, <1>8 DEF Raised
    <2>2. vc_conn'[p] \in PeerStates("OPEN")
      BY <1>2, <1>4 DEF PeerStates
    <2> QED BY <1>2, <1>4, <1>5, <1>7, <1>8, <2>1, <2>2 DEF PortOK
  <1>17. (connect > 0 => client.op = "connect")'
    BY <1>1, <1>2 DEF ServicesInv
  <1> QED
    BY <1>1, <1>4, <1>9, <1>10, <1>12, <1>13, <1>14, <1>15, <1>16, <1>17, Combine DEF Ending

LEMMA HandleDataOK ==
    ASSUME ServicesInv, HandleData
    PROVE  ServicesInv'
  <1>0. PICK h, p : h = Head(from_vc) /\ p = dst_port_from_id(h)
    OBVIOUS
  <1>1. /\ Receive(DATA) /\ panicked' = NotThere /\ UNCHANGED <<connect, services>>
        /\ dropped' = IF Accepts THEN dropped ELSE dropped \cup {p}
    BY <1>0 DEF HandleData, local_port
  <1>2. /\ from_vc # <<>> /\ from_vc' = Tail(from_vc) /\ Kind(h) = DATA /\ FromOK(h) /\ h \in Range(from_vc)
        /\ Range(from_vc) = Range(from_vc') \cup {h}
        /\ \A id \in Range(from_vc') : FromOK(id) /\ FromBefore(h, id)
        /\ \A id \in Range(to_vc) : ToOK(id)
        /\ UNCHANGED <<conn_state, connected, unused_service, client, to_vc, vc_conn>>
        /\ unused_service \in Nat
    BY <1>0, <1>1, ReceiveFacts
  <1>3. DATA # CONNECT /\ DATA # OPENACK /\ DATA # CLOSE /\ OPENACK # CONNECT
    BY DEF OPENACK, CONNECT, DATA, CLOSE
  <1>4. /\ p \in Ports /\ services[p].srvstate \in {"OPENING", "OPEN", "CLOSESENT"}
        /\ vc_conn[p] \in {"open", "closesent", "closed"} /\ src_port_from_id(h) = VcPort(p)
    BY <1>0, <1>2, <1>3 DEF FromOK, FromPort
  <1>5. PortOK(p)
    BY <1>4, PortFacts
  <1>6. services[p].srvstate # "OPENING"
    <2> SUFFICES ASSUME services[p].srvstate = "OPENING" PROVE FALSE
      OBVIOUS
    <2>1. Acked(p)
      BY <1>4, <1>5 DEF PortOK, PeerStates
    <2>2. PICK id \in Range(from_vc) : Kind(id) = OPENACK /\ dst_port_from_id(id) = p
      BY <2>1 DEF Acked
    <2>3. id \in Range(from_vc')
      BY <1>2, <1>3, <2>2
    <2> QED BY <1>0, <1>2, <1>3, <2>2, <2>3 DEF FromBefore
  <1>7. Accepts \/ services[p].srvstate = "CLOSESENT"
    BY <1>0, <1>4, <1>5, <1>6 DEF Accepts, local_port, remote_port, PortOK
  <1>8. ~panicked'
    BY <1>0, <1>1, <1>4 DEF NotThere, local_port
  <1>9. Quiet(p)
    BY <1>1, <1>2, <1>3, QuietStep
  <1>10. Connects => Connects'
    BY <1>1, <1>2 DEF Connects
  <1>11. FromInv'
    <2>1. \A id \in Range(from_vc') : Kind(id) # CONNECT /\ dst_port_from_id(id) = p => FromOK(id)'
      BY <1>1, <1>2 DEF FromOK, FromPort
    <2> QED BY <1>2, <1>9, <1>10, <2>1, FromTakes DEF ServicesInv
  <1>12. ToInv'
    <2>1. \A id \in Range(to_vc) : Kind(id) # CONNECT /\ src_port_from_id(id) = p => ToOK(id)'
      BY <1>1, <1>2 DEF ToOK, ToPort
    <2> QED BY <1>2, <1>9, <1>10, <2>1, ToSame DEF ServicesInv
  <1>13. TypeOK'
    <2>0. NotThere \in BOOLEAN
      BY DEF NotThere
    <2>1. panicked' \in BOOLEAN
      BY <1>1, <2>0, Zenon
    <2>2. dropped' \subseteq Ports
      BY <1>1, <1>4 DEF ServicesInv, TypeOK
    <2> QED BY <1>1, <1>2, <2>1, <2>2, Zenon DEF ServicesInv, TypeOK
  <1>14. OneConnect'
    BY <1>2 DEF OneConnect, ServicesInv
  <1>15. PortOK(p)'
    <2>1. Raised(p)' <=> Raised(p)
      BY <1>1, <1>2 DEF Raised
    <2> QED BY <1>1, <1>2, <1>5, <1>6, <2>1 DEF PortOK
  <1>16. \A q \in Ports : PortOK(q)'
    BY <1>9, <1>15, PortsElsewhere DEF ServicesInv
  <1>17. DroppedOnlyWhenClosing'
    BY <1>1, <1>7 DEF DroppedOnlyWhenClosing, ServicesInv
  <1> QED
    BY <1>1, <1>2, <1>8, <1>11, <1>12, <1>13, <1>14, <1>16, <1>17 DEF ServicesInv, NoPanic

LEMMA HandleCloseOK ==
    ASSUME ServicesInv, HandleClose
    PROVE  ServicesInv'
  <1>0. PICK h, p : h = Head(from_vc) /\ p = dst_port_from_id(h)
    OBVIOUS
  <1> DEFINE r == CloseReceived(services[p])
  <1>1. /\ Receive(CLOSE) /\ panicked' = (NotThere \/ StrangersClose) /\ UNCHANGED <<connect, dropped>>
        /\ ~panicked' => services' = [services EXCEPT ![p] = r]
    BY <1>0 DEF HandleClose, local_port
  <1>2. /\ from_vc # <<>> /\ from_vc' = Tail(from_vc) /\ Kind(h) = CLOSE /\ FromOK(h) /\ h \in Range(from_vc)
        /\ Range(from_vc) = Range(from_vc') \cup {h}
        /\ \A id \in Range(from_vc') : FromOK(id) /\ FromBefore(h, id)
        /\ \A id \in Range(to_vc) : ToOK(id)
        /\ UNCHANGED <<conn_state, connected, unused_service, client, to_vc, vc_conn>>
        /\ unused_service \in Nat
    BY <1>0, <1>1, ReceiveFacts
  <1>3. CLOSE # CONNECT /\ CLOSE # DATA /\ CLOSE # OPENACK /\ OPENACK # CONNECT
    BY DEF OPENACK, CONNECT, DATA, CLOSE
  <1>4. /\ p \in Ports /\ services[p].srvstate \in {"OPENING", "OPEN", "CLOSESENT"}
        /\ \/ vc_conn[p] \in {"closesent", "closed"} /\ src_port_from_id(h) = VcPort(p)
           \/ vc_conn[p] = "refused"
    BY <1>0, <1>2, <1>3 DEF FromOK, FromPort
  <1>5. PortOK(p) /\ services[p] \in Service
    BY <1>4, PortFacts
  <1>6. services[p].srvstate = "OPENING" => vc_conn[p] = "refused"
    <2> SUFFICES ASSUME services[p].srvstate = "OPENING", vc_conn[p] # "refused" PROVE FALSE
      OBVIOUS
    <2>1. Acked(p)
      BY <1>4, <1>5 DEF PortOK, PeerStates
    <2>2. PICK id \in Range(from_vc) : Kind(id) = OPENACK /\ dst_port_from_id(id) = p
      BY <2>1 DEF Acked
    <2>3. id \in Range(from_vc')
      BY <1>2, <1>3, <2>2
    <2> QED BY <1>0, <1>2, <1>3, <2>2, <2>3 DEF FromBefore
  <1>7. services[p].srvstate # "OPENING" => vc_conn[p] \in {"closesent", "closed"}
    BY <1>4, <1>5 DEF PortOK, PeerStates
  <1>8. ~panicked'
    <2>1. ~NotThere
      BY <1>0, <1>4 DEF NotThere, local_port
    <2>2. services[p].remoteport = VCHIQ_PORT_FREE \/ services[p].remoteport = src_port_from_id(h)
      BY <1>4, <1>5, <1>6, <1>7 DEF PortOK
    <2>3. ~StrangersClose
      BY <1>0, <2>2 DEF StrangersClose, local_port, remote_port
    <2> QED BY <1>1, <2>1, <2>3, Zenon
  <1>9. services[p].srvstate # "OPEN" => services[p].remove_event = 0
    BY <1>4, <1>5 DEF PortOK, Raised
  <1>10. /\ r \in Service
         /\ services[p].srvstate = "OPENING" =>
              r.srvstate = "CLOSEWAIT" /\ r.closing /\ r.remoteport = services[p].remoteport /\ r.remove_event = 1
         /\ services[p].srvstate = "OPEN" =>
              /\ r.srvstate = "OPEN" /\ r.remoteport = services[p].remoteport
              /\ r.remove_event = services[p].remove_event
         /\ services[p].srvstate = "CLOSESENT" =>
              r.srvstate = "FREE" /\ r.remoteport = VCHIQ_PORT_FREE /\ r.remove_event = 1
    BY <1>4, <1>5, <1>9, CloseReceivedOK
  <1> HIDE DEF r
  <1>11. /\ services' \in [Ports -> Service] /\ services'[p] = r
         /\ \A q \in Ports : q # p => services'[q] = services[q]
    BY <1>1, <1>4, <1>8, <1>10, ServiceReplaced
  <1>12. Quiet(p)
    BY <1>0, <1>2, <1>3, <1>11, QuietStep
  <1>13. Connects => Connects'
    BY <1>1, <1>2 DEF Connects
  <1>14. FromInv'
    <2>1. \A id \in Range(from_vc') : Kind(id) # CONNECT => dst_port_from_id(id) # p
      BY <1>0, <1>2, <1>3 DEF FromBefore
    <2> QED BY <1>2, <1>12, <1>13, <2>1, FromTakes DEF ServicesInv
  <1>15. ToInv'
    <2>1. \A id \in Range(to_vc) : Kind(id) # CONNECT /\ src_port_from_id(id) = p => ToOK(id)'
      BY <1>2, <1>4, <1>6, <1>10, <1>11 DEF ToOK, ToPort
    <2> QED BY <1>2, <1>12, <1>13, <2>1, ToSame DEF ServicesInv
  <1>16. TypeOK'
    <2>1. panicked' \in BOOLEAN
      BY <1>1, Zenon
    <2> QED BY <1>1, <1>2, <1>11, <2>1, Zenon DEF ServicesInv, TypeOK, Service
  <1>17. OneConnect'
    BY <1>2 DEF OneConnect, ServicesInv
  <1>18. PortOK(p)'
    <2>1. CASE services[p].srvstate = "OPENING"
      <3>1. Raised(p)' /\ vc_conn'[p] \in PeerStates("CLOSEWAIT")
        BY <1>2, <1>5, <1>6, <1>10, <1>11, <2>1 DEF Raised, PeerStates, PortOK
      <3> QED BY <1>2, <1>5, <1>10, <1>11, <2>1, <3>1 DEF PortOK
    <2>2. CASE services[p].srvstate = "OPEN"
      <3>1. (Raised(p)' <=> Raised(p)) /\ vc_conn'[p] \in PeerStates("OPEN")
        BY <1>2, <1>5, <1>10, <1>11, <2>2 DEF Raised, PortOK
      <3> QED BY <1>2, <1>5, <1>10, <1>11, <2>2, <3>1 DEF PortOK
    <2>3. CASE services[p].srvstate = "CLOSESENT"
      <3>1. Raised(p)' /\ vc_conn'[p] \in PeerStates("FREE")
        BY <1>2, <1>5, <1>7, <1>10, <1>11, <2>3 DEF Raised, PeerStates, PortOK
      <3> QED BY <1>2, <1>5, <1>10, <1>11, <2>3, <3>1 DEF PortOK
    <2> QED BY <1>4, <2>1, <2>2, <2>3
  <1>19. (connect > 0 => client.op = "connect")'
    BY <1>1, <1>2 DEF ServicesInv
  <1>20. services[p].srvstate \in Ending => services'[p].srvstate \in Ending
    BY <1>4, <1>10, <1>11 DEF Ending
  <1> QED
    BY <1>1, <1>8, <1>12, <1>14, <1>15, <1>16, <1>17, <1>18, <1>19, <1>20, Combine

-----------------------------------------------------------------------------
(* The steps of the VideoCore. *)

\* The message the VideoCore takes and those behind it.
LEMMA VcTakesFacts ==
    ASSUME ServicesInv, NEW t, VcTakes(t)
    PROVE  /\ to_vc # <<>> /\ to_vc' = Tail(to_vc)
           /\ Kind(Head(to_vc)) = t /\ ToOK(Head(to_vc)) /\ Head(to_vc) \in Range(to_vc)
           /\ Range(to_vc) = Range(to_vc') \cup {Head(to_vc)}
           /\ \A id \in Range(to_vc') : ToOK(id) /\ ToBefore(Head(to_vc), id)
           /\ \A id \in Range(from_vc) : FromOK(id)
           /\ UNCHANGED <<conn_state, connect, connected, services, unused_service, client, panicked, dropped>>
           /\ unused_service \in Nat /\ from_vc \in Seq(Nat)
  <1>1. /\ to_vc # <<>> /\ to_vc' = Tail(to_vc) /\ Kind(Head(to_vc)) = t
        /\ UNCHANGED <<conn_state, connect, connected, services, unused_service, client, panicked, dropped>>
    BY DEF VcTakes, Kind, armVars
  <1>2. /\ to_vc \in Seq(Nat) /\ ToOrder(to_vc) /\ \A id \in Range(to_vc) : ToOK(id)
        /\ from_vc \in Seq(Nat) /\ \A id \in Range(from_vc) : FromOK(id)
    BY DEF ServicesInv, FromInv, ToInv
  <1>3. /\ Range(to_vc) = Range(Tail(to_vc)) \cup {Head(to_vc)}
        /\ \A id \in Range(Tail(to_vc)) : ToBefore(Head(to_vc), id)
    BY <1>1, <1>2, FirstOut
  <1>4. unused_service \in Nat
    BY Types DEF ServicesInv
  <1> QED
    BY <1>1, <1>2, <1>3, <1>4

\* The ARM's side of a step of the VideoCore about port p.
LEMMA VcStep ==
    ASSUME ServicesInv, NEW p, Quiet(p), FromInv', ToInv', OneConnect', vc_conn' \in Connections,
           UNCHANGED <<conn_state, connect, connected, services, unused_service, client, panicked, dropped>>,
           p \in Ports => /\ vc_conn'[p] \in PeerStates(services[p].srvstate)
                          /\ services[p].srvstate = "OPENING" /\ vc_conn'[p] \in {"open", "closesent"} => Acked(p)'
    PROVE  ServicesInv'
  <1>1. TypeOK'
    BY Zenon DEF ServicesInv, TypeOK, Connections
  <1>2. ASSUME p \in Ports PROVE PortOK(p)'
    <2>1. PortOK(p)
      BY <1>2 DEF ServicesInv
    <2>2. Raised(p)' <=> Raised(p)
      BY DEF Raised
    <2> QED BY <1>2, <2>1, <2>2 DEF PortOK
  <1>3. ~panicked' /\ (connect > 0 => client.op = "connect")'
    BY DEF ServicesInv, NoPanic
  <1> QED
    BY <1>1, <1>2, <1>3, Combine

\* The VideoCore takes a message that is not about a connection.
LEMMA VcConnectsOK ==
    ASSUME ServicesInv, VcConnects
    PROVE  ServicesInv'
  <1> DEFINE p == MaxServices
             x == make_msg_id(CONNECT, 0, 0)
  <1>0. PICK h : h = Head(to_vc)
    OBVIOUS
  <1>1. VcTakes(CONNECT) /\ from_vc' = Append(from_vc, x) /\ vc_conn' = vc_conn
    BY DEF VcConnects, VcSends
  <1>2. /\ to_vc # <<>> /\ to_vc' = Tail(to_vc) /\ Kind(h) = CONNECT /\ ToOK(h) /\ h \in Range(to_vc)
        /\ \A id \in Range(to_vc') : ToOK(id) /\ ToBefore(h, id)
        /\ \A id \in Range(from_vc) : FromOK(id)
        /\ UNCHANGED <<conn_state, connect, connected, services, unused_service, client, panicked, dropped>>
        /\ unused_service \in Nat /\ from_vc \in Seq(Nat)
    BY <1>0, <1>1, VcTakesFacts
  <1>3. x \in Nat /\ Kind(x) = CONNECT /\ p \notin Ports
    <2>1. CONNECT \in 0 .. 5 /\ 0 \in 0 .. (PortRange - 1)
      BY PortsAreReal DEF CONNECT
    <2>2. x \in Nat /\ Kind(x) = CONNECT
      BY <2>1, MsgIdParts
    <2> QED BY <2>2, PortsAreReal DEF Ports
  <1> HIDE DEF p, x
  <1>4. Range(from_vc') = Range(from_vc) \cup {x}
    BY <1>1, <1>2, <1>3, Appended
  <1>5. Quiet(p)
    BY <1>1, <1>2, <1>4, QuietStep
  <1>6. Connects /\ Connects'
    BY <1>2 DEF ToOK, Connects
  <1>7. /\ \A id \in Range(from_vc) : Kind(id) # CONNECT
        /\ \A id \in Range(to_vc') : Kind(id) # CONNECT
    BY <1>2 DEF ToBefore, ServicesInv, OneConnect
  <1>8. FromInv'
    <2>1. \A id \in Range(from_vc) : dst_port_from_id(id) # p /\ FromBefore(id, x)
      BY <1>2, <1>3, <1>7 DEF FromOK, FromPort, FromBefore
    <2>2. FromOK(x)'
      BY <1>3, <1>6 DEF FromOK
    <2> QED BY <1>1, <1>3, <1>5, <1>6, <2>1, <2>2, FromSends DEF ServicesInv
  <1>9. ToInv'
    <2>1. \A id \in Range(to_vc') : src_port_from_id(id) # p
      BY <1>2, <1>3, <1>7 DEF ToOK, ToPort
    <2> QED BY <1>2, <1>5, <1>6, <2>1, ToTakes DEF ServicesInv
  <1>10. OneConnect'
    BY <1>7 DEF OneConnect
  <1>11. vc_conn' \in Connections
    BY <1>1, Types DEF ServicesInv
  <1> QED
    BY <1>2, <1>3, <1>5, <1>8, <1>9, <1>10, <1>11, VcStep

LEMMA VcReceivesDataOK ==
    ASSUME ServicesInv, VcReceivesData
    PROVE  ServicesInv'
  <1> DEFINE p == MaxServices
  <1>1. VcTakes(DATA) /\ from_vc' = from_vc /\ vc_conn' = vc_conn
    BY DEF VcReceivesData
  <1>2. /\ to_vc # <<>> /\ to_vc' = Tail(to_vc) /\ Range(to_vc') \subseteq Range(to_vc)
        /\ \A id \in Range(to_vc') : ToOK(id)
        /\ \A id \in Range(from_vc) : FromOK(id)
        /\ UNCHANGED <<conn_state, connect, connected, services, unused_service, client, panicked, dropped>>
        /\ unused_service \in Nat
    BY <1>1, VcTakesFacts
  <1>3. p \notin Ports
    BY PortsAreReal DEF Ports
  <1> HIDE DEF p
  <1>4. Quiet(p)
    BY <1>1, <1>2, QuietStep
  <1>5. Connects => Connects'
    BY <1>2 DEF Connects
  <1>6. /\ \A id \in Range(from_vc) : Kind(id) # CONNECT => dst_port_from_id(id) # p
        /\ \A id \in Range(to_vc') : Kind(id) # CONNECT => src_port_from_id(id) # p
    BY <1>2, <1>3 DEF FromOK, FromPort, ToOK, ToPort
  <1>7. FromInv'
    BY <1>1, <1>4, <1>5, <1>6, FromSame DEF ServicesInv
  <1>8. ToInv'
    BY <1>2, <1>4, <1>5, <1>6, ToTakes DEF ServicesInv
  <1>9. OneConnect'
    BY <1>1, <1>2 DEF OneConnect, ServicesInv
  <1>10. vc_conn' \in Connections
    BY <1>1, Types DEF ServicesInv
  <1> QED
    BY <1>2, <1>3, <1>4, <1>7, <1>8, <1>9, <1>10, VcStep

\* The VideoCore answers an OPEN, either way: it sends x for port p.
LEMMA VcAnswersOpenOK ==
    ASSUME ServicesInv, VcTakes(OPEN), NEW p, p = VcPeer,
           NEW x \in Nat, from_vc' = Append(from_vc, x), dst_port_from_id(x) = p,
           NEW c, vc_conn' = [vc_conn EXCEPT ![p] = c],
           \/ Kind(x) = OPENACK /\ src_port_from_id(x) = VcPort(p) /\ c = "open"
           \/ Kind(x) = CLOSE /\ c = "refused"
    PROVE  ServicesInv'
  <1>0. PICK h : h = Head(to_vc)
    OBVIOUS
  <1>1. p = src_port_from_id(h)
    BY <1>0 DEF VcPeer
  <1>2. /\ to_vc # <<>> /\ to_vc' = Tail(to_vc) /\ Kind(h) = OPEN /\ ToOK(h) /\ h \in Range(to_vc)
        /\ Range(to_vc') \subseteq Range(to_vc)
        /\ \A id \in Range(to_vc') : ToOK(id) /\ ToBefore(h, id)
        /\ \A id \in Range(from_vc) : FromOK(id)
        /\ UNCHANGED <<conn_state, connect, connected, services, unused_service, client, panicked, dropped>>
        /\ unused_service \in Nat /\ from_vc \in Seq(Nat)
    BY <1>0, VcTakesFacts
  <1>3. /\ OPEN # CONNECT /\ OPEN # DATA /\ OPEN # CLOSE /\ OPENACK # CONNECT /\ OPENACK # CLOSE
        /\ OPENACK # DATA /\ CLOSE # CONNECT /\ CLOSE # DATA
    BY DEF OPEN, CONNECT, DATA, CLOSE, OPENACK
  <1>4. p \in Ports /\ services[p].srvstate = "OPENING" /\ vc_conn[p] = "none"
    BY <1>1, <1>2, <1>3 DEF ToOK, ToPort
  <1>5. vc_conn' \in Connections /\ vc_conn'[p] = c /\ \A q \in Ports : q # p => vc_conn'[q] = vc_conn[q]
    BY <1>4, Types DEF ServicesInv, Connections
  <1>6. Range(from_vc') = Range(from_vc) \cup {x}
    BY <1>2, Appended
  <1>7. Quiet(p)
    BY <1>2, <1>5, <1>6, QuietStep
  <1>8. Connects => Connects'
    BY <1>2 DEF Connects
  <1>9. \A id \in Range(from_vc) : Kind(id) # CONNECT => dst_port_from_id(id) # p
    BY <1>2, <1>4 DEF FromOK, FromPort
  <1>10. FromInv'
    <2>1. \A id \in Range(from_vc) : FromBefore(id, x)
      BY <1>3, <1>9 DEF FromBefore
    <2>2. FromOK(x)'
      BY <1>2, <1>3, <1>4, <1>5 DEF FromOK, FromPort
    <2> QED BY <1>7, <1>8, <1>9, <2>1, <2>2, FromSends DEF ServicesInv
  <1>11. ToInv'
    <2>1. \A id \in Range(to_vc') : Kind(id) # CONNECT => src_port_from_id(id) # p
      BY <1>1, <1>2, <1>3, <1>4 DEF ToOK, ToPort, ToBefore
    <2> QED BY <1>2, <1>7, <1>8, <2>1, ToTakes DEF ServicesInv
  <1>12. OneConnect'
    BY <1>2, <1>3, <1>6 DEF OneConnect, ServicesInv
  <1>13. vc_conn'[p] \in PeerStates(services[p].srvstate)
    BY <1>4, <1>5 DEF PeerStates
  <1>14. vc_conn'[p] \in {"open", "closesent"} => Acked(p)'
    BY <1>5, <1>6 DEF Acked
  <1> QED
    BY <1>2, <1>5, <1>7, <1>10, <1>11, <1>12, <1>13, <1>14, VcStep

LEMMA VcOpensOK ==
    ASSUME ServicesInv, VcAccepts \/ VcRefuses
    PROVE  ServicesInv'
  <1>0. PICK h, p : h = Head(to_vc) /\ p = src_port_from_id(h)
    OBVIOUS
  <1>1. VcTakes(OPEN) /\ p = VcPeer
    BY <1>0 DEF VcAccepts, VcRefuses, VcPeer
  <1>2. p \in Ports
    <2>1. Kind(h) = OPEN /\ ToOK(h)
      BY <1>0, <1>1, VcTakesFacts
    <2> QED BY <1>0, <2>1 DEF ToOK, ToPort, OPEN, CONNECT
  <1>3. /\ p \in 0 .. (PortRange - 1) /\ VcPort(p) \in 0 .. (PortRange - 1) /\ 0 \in 0 .. (PortRange - 1)
        /\ OPENACK \in 0 .. 5 /\ CLOSE \in 0 .. 5
    BY <1>2, PortsAreReal DEF OPENACK, CLOSE
  <1>4. CASE VcAccepts
    <2> DEFINE x == make_msg_id(OPENACK, VcPort(p), p)
    <2>1. from_vc' = Append(from_vc, x) /\ vc_conn' = [vc_conn EXCEPT ![p] = "open"]
      BY <1>1, <1>4 DEF VcAccepts, VcSends
    <2>2. /\ x \in Nat /\ Kind(x) = OPENACK /\ src_port_from_id(x) = VcPort(p) /\ dst_port_from_id(x) = p
      BY <1>3, MsgIdParts
    <2> HIDE DEF x
    <2> QED BY <1>1, <2>1, <2>2, VcAnswersOpenOK
  <1>5. CASE VcRefuses
    <2> DEFINE x == make_msg_id(CLOSE, 0, p)
    <2>1. from_vc' = Append(from_vc, x) /\ vc_conn' = [vc_conn EXCEPT ![p] = "refused"]
      BY <1>1, <1>5 DEF VcRefuses, VcSends
    <2>2. /\ x \in Nat /\ Kind(x) = CLOSE /\ dst_port_from_id(x) = p
      BY <1>3, MsgIdParts
    <2> HIDE DEF x
    <2> QED BY <1>1, <2>1, <2>2, VcAnswersOpenOK
  <1> QED
    BY <1>4, <1>5

LEMMA VcClosesOK ==
    ASSUME ServicesInv, VcCloses
    PROVE  ServicesInv'
  <1>0. PICK h, p : h = Head(to_vc) /\ p = src_port_from_id(h)
    OBVIOUS
  <1> DEFINE x == make_msg_id(CLOSE, VcPort(p), p)
  <1>1. /\ VcTakes(CLOSE) /\ vc_conn' = [vc_conn EXCEPT ![p] = "closed"]
        /\ IF vc_conn[p] = "open" THEN from_vc' = Append(from_vc, x) ELSE from_vc' = from_vc
    BY <1>0 DEF VcCloses, VcPeer, VcSends
  <1>2. /\ to_vc # <<>> /\ to_vc' = Tail(to_vc) /\ Kind(h) = CLOSE /\ ToOK(h) /\ h \in Range(to_vc)
        /\ Range(to_vc') \subseteq Range(to_vc)
        /\ \A id \in Range(to_vc') : ToOK(id) /\ ToBefore(h, id)
        /\ \A id \in Range(from_vc) : FromOK(id)
        /\ UNCHANGED <<conn_state, connect, connected, services, unused_service, client, panicked, dropped>>
        /\ unused_service \in Nat /\ from_vc \in Seq(Nat)
    BY <1>0, <1>1, VcTakesFacts
  <1>3. /\ CLOSE # CONNECT /\ CLOSE # DATA /\ CLOSE # OPEN /\ CLOSE # OPENACK /\ CLOSE \in 0 .. 5
    BY DEF OPEN, CONNECT, DATA, CLOSE, OPENACK
  <1>4. /\ p \in Ports /\ services[p].srvstate \in {"CLOSESENT", "FREE"} /\ vc_conn[p] \in {"open", "closesent"}
    BY <1>0, <1>2, <1>3 DEF ToOK, ToPort
  <1>5. x \in Nat /\ Kind(x) = CLOSE /\ src_port_from_id(x) = VcPort(p) /\ dst_port_from_id(x) = p
    BY <1>3, <1>4, PortsAreReal, MsgIdParts
  <1> HIDE DEF x
  <1>6. vc_conn' \in Connections /\ vc_conn'[p] = "closed" /\ \A q \in Ports : q # p => vc_conn'[q] = vc_conn[q]
    BY <1>1, <1>4, Types DEF ServicesInv, Connections
  <1>7. Range(from_vc) \subseteq Range(from_vc') /\ \A id \in Range(from_vc') : id \in Range(from_vc) \/ id = x
    BY <1>1, <1>2, <1>5, Appended
  <1>8. Quiet(p)
    BY <1>2, <1>6, <1>7, QuietStep
  <1>9. Connects => Connects'
    BY <1>2 DEF Connects
  <1>10. \A id \in Range(from_vc) : Kind(id) # CONNECT /\ dst_port_from_id(id) = p => FromOK(id)'
    BY <1>2, <1>4, <1>6 DEF FromOK, FromPort
  <1>11. FromInv'
    <2>1. CASE vc_conn[p] = "open"
      <3>1. services[p].srvstate = "CLOSESENT"
        BY <1>4, <2>1, PortFacts DEF PortOK, PeerStates
      <3>2. \A id \in Range(from_vc) : FromBefore(id, x)
        BY <1>2, <1>3, <1>5, <2>1 DEF FromBefore, FromOK, FromPort
      <3>3. FromOK(x)'
        BY <1>2, <1>3, <1>4, <1>5, <1>6, <3>1 DEF FromOK, FromPort
      <3> QED BY <1>1, <1>5, <1>8, <1>9, <1>10, <2>1, <3>2, <3>3, FromSends DEF ServicesInv
    <2>2. CASE vc_conn[p] # "open"
      BY <1>1, <1>8, <1>9, <1>10, <2>2, FromSame DEF ServicesInv
    <2> QED BY <2>1, <2>2
  <1>12. ToInv'
    <2>1. \A id \in Range(to_vc') : Kind(id) # CONNECT => src_port_from_id(id) # p
      BY <1>0, <1>2, <1>3 DEF ToBefore
    <2> QED BY <1>2, <1>8, <1>9, <2>1, ToTakes DEF ServicesInv
  <1>13. OneConnect'
    BY <1>2, <1>3, <1>5, <1>7 DEF OneConnect, ServicesInv
  <1>14. vc_conn'[p] \in PeerStates(services[p].srvstate)
    BY <1>4, <1>6 DEF PeerStates
  <1> QED
    BY <1>2, <1>4, <1>6, <1>8, <1>11, <1>12, <1>13, <1>14, VcStep

\* The VideoCore sends DATA or begins to close an open connection.
VcSpeaks(p, t, c) ==
    /\ from_vc' = Append(from_vc, make_msg_id(t, VcPort(p), p))
    /\ vc_conn[p] = "open" /\ vc_conn' = [vc_conn EXCEPT ![p] = c]
    /\ \/ t = DATA /\ c = "open"
       \/ t = CLOSE /\ c = "closesent"
    /\ UNCHANGED <<conn_state, connect, connected, services, unused_service, client, panicked, dropped>>
    /\ to_vc' = to_vc

LEMMA VcSpeaksOK ==
    ASSUME ServicesInv, NEW p \in Ports, NEW t, NEW c, VcSpeaks(p, t, c)
    PROVE  ServicesInv'
  <1>1. /\ from_vc' = Append(from_vc, make_msg_id(t, VcPort(p), p))
        /\ vc_conn[p] = "open" /\ vc_conn' = [vc_conn EXCEPT ![p] = c]
        /\ \/ t = DATA /\ c = "open"
           \/ t = CLOSE /\ c = "closesent"
        /\ UNCHANGED <<conn_state, connect, connected, services, unused_service, client, panicked, dropped>>
        /\ to_vc' = to_vc
    BY DEF VcSpeaks
  <1> DEFINE x == make_msg_id(t, VcPort(p), p)
  <1>2. /\ CLOSE # CONNECT /\ CLOSE # DATA /\ CLOSE # OPENACK /\ DATA # CONNECT /\ DATA # OPENACK
        /\ CLOSE \in 0 .. 5 /\ DATA \in 0 .. 5
    BY DEF CONNECT, DATA, CLOSE, OPENACK
  <1>3. x \in Nat /\ Kind(x) = t /\ src_port_from_id(x) = VcPort(p) /\ dst_port_from_id(x) = p
    BY <1>1, <1>2, PortsAreReal, MsgIdParts
  <1>4. from_vc' = Append(from_vc, x)
    BY <1>1
  <1> HIDE DEF x
  <1>5. /\ \A id \in Range(from_vc) : FromOK(id)
        /\ \A id \in Range(to_vc) : ToOK(id)
        /\ unused_service \in Nat /\ from_vc \in Seq(Nat) /\ PortOK(p)
    BY PortFacts DEF ServicesInv, FromInv, ToInv
  <1>6. services[p].srvstate \in {"OPENING", "OPEN", "CLOSESENT"}
    <2>1. services[p].srvstate \in ServiceStates
      BY Types DEF ServicesInv, Service
    <2> QED BY <1>1, <1>5, <2>1 DEF PortOK, PeerStates, ServiceStates
  <1>7. vc_conn' \in Connections /\ vc_conn'[p] = c /\ \A q \in Ports : q # p => vc_conn'[q] = vc_conn[q]
    BY <1>1, Types DEF ServicesInv, Connections
  <1>8. Range(from_vc') = Range(from_vc) \cup {x}
    BY <1>3, <1>4, <1>5, Appended
  <1>9. Quiet(p)
    BY <1>1, <1>5, <1>7, <1>8, QuietStep
  <1>10. Connects => Connects'
    BY <1>1 DEF Connects
  <1>11. FromInv'
    <2>1. \A id \in Range(from_vc) : Kind(id) # CONNECT /\ dst_port_from_id(id) = p => FromOK(id)'
      BY <1>1, <1>5, <1>7 DEF FromOK, FromPort
    <2>2. \A id \in Range(from_vc) : FromBefore(id, x)
      BY <1>1, <1>2, <1>3, <1>5 DEF FromBefore, FromOK, FromPort
    <2>3. FromOK(x)'
      BY <1>1, <1>2, <1>3, <1>6, <1>7 DEF FromOK, FromPort
    <2> QED BY <1>3, <1>4, <1>9, <1>10, <2>1, <2>2, <2>3, FromSends DEF ServicesInv
  <1>12. ToInv'
    <2>1. \A id \in Range(to_vc) : Kind(id) # CONNECT /\ src_port_from_id(id) = p => ToOK(id)'
      BY <1>1, <1>5, <1>7 DEF ToOK, ToPort
    <2> QED BY <1>1, <1>9, <1>10, <2>1, ToSame DEF ServicesInv
  <1>13. OneConnect'
    BY <1>1, <1>2, <1>3, <1>8 DEF OneConnect, ServicesInv
  <1>14. vc_conn'[p] \in PeerStates(services[p].srvstate)
    BY <1>1, <1>6, <1>7 DEF PeerStates
  <1>15. services[p].srvstate = "OPENING" => Acked(p)'
    BY <1>1, <1>5, <1>8 DEF PortOK, Acked
  <1> QED
    BY <1>1, <1>7, <1>9, <1>11, <1>12, <1>13, <1>14, <1>15, VcStep

LEMMA VcSendsOK ==
    ASSUME ServicesInv, NEW p \in Ports, VcSendsData(p) \/ VcInitiatesClose(p)
    PROVE  ServicesInv'
  <1>1. CASE VcSendsData(p)
    <2>1. vc_conn' = [vc_conn EXCEPT ![p] = "open"]
      BY <1>1, Types DEF VcSendsData, ServicesInv, Connections
    <2>2. VcSpeaks(p, DATA, "open")
      BY <1>1, <2>1 DEF VcSpeaks, VcSendsData, VcSends, armVars
    <2> QED BY <2>2, VcSpeaksOK
  <1>2. CASE VcInitiatesClose(p)
    <2>1. VcSpeaks(p, CLOSE, "closesent")
      BY <1>2 DEF VcSpeaks, VcInitiatesClose, VcSends, armVars
    <2> QED BY <2>1, VcSpeaksOK
  <1> QED
    BY <1>1, <1>2

-----------------------------------------------------------------------------
(* The theorems. *)

LEMMA ServicesStep ==
    ASSUME ServicesInv, [Next]_vars
    PROVE  ServicesInv'
  <1>1. CASE UNCHANGED vars
    <2>1. /\ UNCHANGED <<conn_state, connect, connected, services, unused_service, client, panicked>>
          /\ UNCHANGED <<to_vc, from_vc, vc_conn, dropped>>
      BY <1>1 DEF vars, armVars
    <2>2. TypeOK' /\ NoPanic' /\ DroppedOnlyWhenClosing' /\ (connect > 0 => client.op = "connect")'
      BY <2>1 DEF ServicesInv, TypeOK, NoPanic, DroppedOnlyWhenClosing
    <2>3. \A p \in Ports : PortOK(p)'
      BY <2>1 DEF ServicesInv, PortOK, Raised, Acked
    <2>4. FromInv' /\ ToInv' /\ OneConnect'
      BY <2>1 DEF ServicesInv, FromInv, ToInv, OneConnect, FromOK, ToOK, FromPort, ToPort, Connects
    <2> QED BY <2>2, <2>3, <2>4 DEF ServicesInv
  <1>2. CASE Next
    BY <1>2, BeginConnectOK, BeginOpenOK, QueueDataOK, BeginCloseOK, BeginCloseRefusedOK,
       EndConnectOK, EndWaitOK, HandleConnectOK, HandleOpenAckOK, HandleDataOK, HandleCloseOK,
       VcConnectsOK, VcOpensOK, VcReceivesDataOK, VcClosesOK, VcSendsOK
    DEF Next, ClientContinues, slot_handler, VcAnswers
  <1> QED
    BY <1>1, <1>2

LEMMA ServicesInvariant == Spec => []ServicesInv
  <1>1. ServicesInv /\ [Next]_vars => ServicesInv'
    BY ServicesStep
  <1> QED
    BY InitOK, <1>1, PTL DEF Spec

\* The service table, the events and the connection keep their types, for every
\* size of the table: no remove_event and no connect event is raised twice, so
\* that no wait of open_service, close_service or connect ends early.
THEOREM TypeCorrect == Spec => []TypeOK
  <1>1. ServicesInv => TypeOK
    BY DEF ServicesInv
  <1> QED
    BY <1>1, ServicesInvariant, PTL

\* No todo!() of slot_handler is reached: every OPENACK, DATA and CLOSE of the
\* VideoCore finds its service, connected with the peer that sent it.
THEOREM NoPanicHolds == Spec => []NoPanic
  <1>1. ServicesInv => NoPanic
    BY DEF ServicesInv
  <1> QED
    BY <1>1, ServicesInvariant, PTL

\* Once close_service has freed a service, the VideoCore's end is closed too and
\* no message for its port is on its way to slot_handler.
THEOREM FreePortQuietHolds == Spec => []FreePortQuiet
  <1>1. ServicesInv => FreePortQuiet
    <2> SUFFICES ASSUME ServicesInv, NEW p \in Ports, services[p].srvstate = "FREE"
                 PROVE  /\ \A id \in Range(from_vc) : Kind(id) # CONNECT => dst_port_from_id(id) # p
                        /\ vc_conn[p] \in {"refused", "closed", "closesent"}
      BY DEF FreePortQuiet, Kind
    <2>1. \A id \in Range(from_vc) : FromOK(id)
      BY DEF ServicesInv, FromInv
    <2>2. vc_conn[p] \in PeerStates("FREE")
      BY DEF ServicesInv, PortOK
    <2> QED BY <2>1, <2>2 DEF FromOK, FromPort, PeerStates
  <1> QED
    BY <1>1, ServicesInvariant, PTL

\* Every DATA message that queue_message sent reaches the peer that accepted the
\* service, under its port, before that peer has closed.
THEOREM DataFindsPeerHolds == Spec => []DataFindsPeer
  <1>1. ServicesInv => DataFindsPeer
    <2> SUFFICES ASSUME ServicesInv, NEW id \in Range(to_vc), Kind(id) = DATA
                 PROVE  /\ src_port_from_id(id) \in Ports
                        /\ vc_conn[src_port_from_id(id)] \notin {"none", "refused", "closed"}
                        /\ dst_port_from_id(id) = VcPort(src_port_from_id(id))
      BY DEF DataFindsPeer, Kind
    <2>1. ToOK(id)
      BY DEF ServicesInv, ToInv
    <2>2. DATA # CONNECT /\ DATA # OPEN /\ DATA # CLOSE
      BY DEF DATA, CONNECT, OPEN, CLOSE
    <2> QED BY <2>1, <2>2 DEF ToOK, ToPort
  <1> QED
    BY <1>1, ServicesInvariant, PTL

\* slot_handler throws a DATA message away only for a service that the client
\* closes.
THEOREM DroppedOnlyWhenClosingHolds == Spec => []DroppedOnlyWhenClosing
  <1>1. ServicesInv => DroppedOnlyWhenClosing
    BY DEF ServicesInv
  <1> QED
    BY <1>1, ServicesInvariant, PTL
=============================================================================
