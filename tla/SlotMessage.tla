------------------------------ MODULE SlotMessage ------------------------------
(***************************************************************************)
(* The wire format of a message (vchiq/shared/slotmessage.rs): a header of *)
(* two u32 words (msgid, size) followed by the payload, padded to a        *)
(* multiple of the header size.  The msgid packs the message type and two  *)
(* 12 bit ports.                                                           *)
(***************************************************************************)
EXTENDS Naturals

\* mem::size_of::<SlotMessageHeader>()
HdrSize == 8

\* The bytes a message with this payload occupies.  HdrSize is a power of
\* two, so "& !(hdr_size - 1)" rounds down to a multiple of it.
calc_msg_stride(payload_size) ==
    LET msg_size == HdrSize + payload_size
    IN  ((msg_size + HdrSize - 1) \div HdrSize) * HdrSize

-----------------------------------------------------------------------------
\* MessageType
PADDING == 0
CONNECT == 1
OPEN == 2
OPENACK == 3
CLOSE == 4
DATA == 5

\* The number of values of a 12 bit port field.
PortRange == 4096

\* The port of a service that is not connected: one above every real port.
VCHIQ_PORT_FREE == 4096

\* src | carry, for a carry of one bit.
OrBit(src, carry) == IF carry = 1 /\ src % 2 = 0 THEN src + 1 ELSE src

\* (type << 24) | (src << 12) | dst, for a 12 bit src and any dst that a
\* service's remoteport can hold, VCHIQ_PORT_FREE included: bit 12 of dst
\* then falls onto bit 0 of the source port.
make_msg_id(msg_type, src_port, dst_port) ==
    msg_type * (PortRange * PortRange)
      + OrBit(src_port, dst_port \div PortRange) * PortRange
      + (dst_port % PortRange)

msg_type_from_id(id) == id \div (PortRange * PortRange)

dst_port_from_id(id) == id % PortRange

src_port_from_id(id) == (id \div PortRange) % PortRange
=============================================================================
