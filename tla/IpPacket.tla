------------------------------- MODULE IpPacket -------------------------------
(***************************************************************************)
(* The IP packets that cross a tunnel and what is done to them on the way: *)
(* normalisation of a captured packet, fragmentation to a tunnel's MTU,    *)
(* ECN decapsulation, and the MTU feedback to a source.                    *)
(*                                                                         *)
(* A packet is the fields these algorithms look at: captured is how many   *)
(* octets there are, total how many the header says, header its length;    *)
(* offset counts units of 8 octets; sum and udpsum say whether the header  *)
(* and the UDP checksum are right, udplen is the length in the UDP header; *)
(* upper is the protocol above IP: UDP directly or behind IPv6 extension   *)
(* headers, ICMP, or hidden when those headers cannot be followed to it.   *)
(* df, mf and offset are those of IPv4.                                    *)
(***************************************************************************)
EXTENDS Integers, Sequences

Codepoint == {"NotEct", "Ect1", "Ect0", "Ce"}
Upper == {"udp", "extended udp", "icmp error", "icmp query", "hidden"}

Packet ==
  [family : {4, 6}, captured : Nat, total : Nat, header : Nat, df : BOOLEAN,
   mf : BOOLEAN, offset : Nat, ecn : Codepoint, sum : BOOLEAN, udpsum : BOOLEAN,
   udplen : Nat, upper : Upper]

MinHeader(family) == IF family = 4 THEN 20 ELSE 40
Payload(p) == p.total - p.header
IsFragment(p) == p.mf \/ p.offset # 0

(* parse_multicast_packet, as far as lengths and checksums go.  An IPv6      *)
(* packet has no header checksum.                                            *)
Parses(p) ==
  /\ p.captured >= MinHeader(p.family)
  /\ p.header >= MinHeader(p.family) /\ p.header <= p.captured
  /\ p.total >= p.header /\ p.total = p.captured
  /\ p.family = 4 => p.sum
-----------------------------------------------------------------------------
(* Normalisation of a captured packet.                                     *)

CapturedWhole(p) ==
  /\ p.captured >= MinHeader(p.family)
  /\ p.header >= MinHeader(p.family)
  /\ p.total >= p.header /\ p.captured >= p.total

(* There is a UDP datagram right behind the header, and all of it.  UDP      *)
(* behind extension headers is not looked for.                               *)
UdpWhole(p) ==
  /\ p.upper = "udp" /\ ~IsFragment(p)
  /\ p.total >= p.header + 8
  /\ p.udplen >= 8 /\ p.total >= p.header + p.udplen

(* repair_udp_checksum_v4 and _v6, for a packet without padding. *)
RepairUdp(p) == IF UdpWhole(p) THEN [p EXCEPT !.udpsum = TRUE] ELSE p

(* normalize_embedded_multicast_data: cut off padding and fill in checksums  *)
(* the sender's hardware left open.                                          *)
Normalize(p) ==
  IF ~CapturedWhole(p) THEN p
  ELSE RepairUdp([p EXCEPT !.captured = p.total, !.sum = TRUE])

(* normalize_forwarded_datagram: the same for a packet outside a message. *)
NormalizeForwarded(p) ==
  IF \/ p.captured < MinHeader(p.family)
     \/ p.header < MinHeader(p.family) \/ p.captured < p.header
     \/ p.total < p.header \/ p.captured < p.total
  THEN p
  ELSE RepairUdp([p EXCEPT !.captured = p.total, !.sum = TRUE])
-----------------------------------------------------------------------------
(* Fragmentation.                                                          *)

(* Mutant: the payload of a fragment need not be a multiple of 8. *)
MaxPayloadOdd(p, mtu) == IF mtu < p.header THEN 0 ELSE mtu - p.header

(* The largest payload of a fragment, a multiple of 8. *)
MaxPayload(p, mtu) == IF mtu < p.header THEN 0 ELSE ((mtu - p.header) \div 8) * 8

(* The fragments of a packet that has to be cut. *)
Fragments(p, mtu) ==
  LET size == MaxPayload(p, mtu)
      count == (Payload(p) + size - 1) \div size
      Length(n) == IF n < count THEN p.header + size
                   ELSE p.header + Payload(p) - (n - 1) * size
  IN  [n \in 1..count |->
        [p EXCEPT !.total = Length(n), !.captured = Length(n), !.sum = TRUE,
                  !.offset = p.offset + (n - 1) * (size \div 8),
                  !.mf = p.mf \/ n < count]]

(* fragment_ipv4_for_tunnel: the fragments, or the reason there are none.    *)
FragmentError(p, mtu) ==
  IF \/ ~(p.captured >= 20 /\ p.header >= 20 /\ p.header <= p.captured)
     \/ p.total # p.captured \/ p.total < p.header THEN "InvalidPacket"
  ELSE IF p.total <= mtu THEN "none"
  ELSE IF p.header # 20 THEN "HeaderOptions"
  ELSE IF p.df THEN "DontFragment"
  ELSE IF MaxPayload(p, mtu) < 8 THEN "MtuTooSmall"
  ELSE IF Payload(p) = 0 \/ (p.mf /\ Payload(p) % 8 # 0) THEN "InvalidPacket"
  ELSE IF p.offset * 8 + Payload(p) > 65535 - p.header THEN "FragmentOffsetOverflow"
  ELSE "none"

FragmentsOf(p, mtu) == IF p.total <= mtu THEN <<p>> ELSE Fragments(p, mtu)

(* prepare_oversized_tunnel_data. *)
OversizedError(p, mtu) == IF p.family = 6 THEN "DropIpv6" ELSE FragmentError(p, mtu)
RequiresFeedback(error) == error \in {"DontFragment", "DropIpv6"}

(* tunnel_mtu: the path MTU less the outer IP, UDP and AMT headers. *)
TunnelMtu(pathMtu, outerFamily) ==
  LET overhead == MinHeader(outerFamily) + 8 + 2
  IN  IF pathMtu < overhead THEN 0 ELSE pathMtu - overhead
-----------------------------------------------------------------------------
(* ECN.                                                                    *)

(* decapsulation_result: the codepoint to deliver, or none. *)
Decapsulate(inner, outer) ==
  CASE outer = "Ce" -> IF inner = "NotEct" THEN {} ELSE {"Ce"}
    [] outer = "Ect1" /\ inner = "Ect0" -> {"Ect1"}
    [] OTHER -> {inner}
-----------------------------------------------------------------------------
(* Path MTU feedback.                                                      *)

(* suppress_icmp_error: no ICMP error about an ICMP error, nor about a       *)
(* packet that may be one.                                                   *)
Suppressed(p) ==
  \/ p.upper = "icmp error"
  \/ p.family = 4 /\ p.upper = "icmp query" /\ IsFragment(p)
  \/ p.family = 6 /\ p.upper = "hidden"

(* IPV4_MIN_REASSEMBLY_MTU and IPV6_MIN_MTU. *)
SmallestMtu(family) == IF family = 4 THEN 576 ELSE 1280

(* build_pmtu_feedback: how long the ICMP packet is.  It quotes as much of   *)
(* the packet as the smallest MTU allows.                                    *)
FeedbackLength(p) ==
  LET room == SmallestMtu(p.family) - MinHeader(p.family) - 8
  IN  MinHeader(p.family) + 8 + IF p.captured < room THEN p.captured ELSE room

(* The MTU field of an ICMPv4 error has 16 bits. *)
FeedbackMtuValid(p, mtu) == p.family = 6 \/ mtu <= 65535
=============================================================================
