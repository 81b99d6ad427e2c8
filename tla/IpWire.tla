------------------------------- MODULE IpWire -------------------------------
(***************************************************************************)
(* What IGMP and MLD packets have in common: addresses, checksums and the  *)
(* IP header with its router alert (checksum.rs, ip.rs, and the headers    *)
(* that membership.rs and query.rs write and check).                       *)
(*                                                                         *)
(* A packet is the fields of its fixed header and its content: the 16-bit  *)
(* words that follow, options or hop-by-hop header included.  Lengths are  *)
(* in octets and even.  An address is its words, two for IPv4 and eight    *)
(* for IPv6.  sum says whether the IPv4 header checksum is right.          *)
(***************************************************************************)
EXTENDS Integers, Sequences

CONSTANT Protocol  \* "Igmpv3" or "Mldv2"

ProtocolAssumption == Protocol \in {"Igmpv3", "Mldv2"}

Version == IF Protocol = "Igmpv3" THEN 4 ELSE 6
AddressWords == IF Protocol = "Igmpv3" THEN 2 ELSE 8
FixedHeader == IF Protocol = "Igmpv3" THEN 20 ELSE 40

High(word) == word \div 256
Low(word) == word % 256
Octets(words) == [n \in 1..2 * Len(words) |-> IF n % 2 = 1 THEN High(words[(n + 1) \div 2]) ELSE Low(words[n \div 2])]

Unspecified == [n \in 1..AddressWords |-> 0]

IsMulticast(address) ==
  IF Len(address) = 2 THEN High(address[1]) \in 224..239 ELSE High(address[1]) = 255

(* is_valid_source. *)
IsValidSource(address) ==
  /\ \E n \in DOMAIN address : address[n] # 0
  /\ ~IsMulticast(address)
  /\ address # <<65535, 65535>>

(* The source of a packet may be unspecified. *)
IsValidSender(address) == ~IsMulticast(address) /\ address # <<65535, 65535>>

(* is_amt_forwardable_group: not 224.0.0.0/24, and an IPv6 scope from 3 to 14. *)
IsForwardable(address) ==
  /\ IsMulticast(address)
  /\ IF Len(address) = 2 THEN ~(address[1] = 57344 /\ High(address[2]) = 0)
                         ELSE address[1] % 16 \in 3..14
-----------------------------------------------------------------------------
(* Checksums.                                                              *)

(* ones_complement_sum: the carry is added back, so that the order of the  *)
(* additions does not matter.                                              *)
OnesComplementSum(words) ==
  LET Add(a, b) == ((a + b) % 65536) + ((a + b) \div 65536)
      sum[i \in 1..Len(words), j \in 1..Len(words)] ==
        LET middle == (i + j) \div 2
        IN  IF i = j THEN words[i] ELSE Add(sum[i, middle], sum[middle + 1, j])
  IN  sum[1, Len(words)]

(* What the checksum of a message covers: the message and, for MLD, the      *)
(* addresses, the length and the protocol of the packet (icmpv6_checksum).   *)
Summed(source, destination, body) ==
  IF Protocol = "Igmpv3" THEN body
  ELSE source \o destination \o <<(2 * Len(body)) \div 65536, (2 * Len(body)) % 65536, 0, 58>> \o body

(* The message with its checksum, the second word, filled in. *)
WithChecksum(source, destination, body) ==
  LET blank == [body EXCEPT ![2] = 0]
  IN  [blank EXCEPT ![2] = 65535 - OnesComplementSum(Summed(source, destination, blank))]
-----------------------------------------------------------------------------
(* The router alert.                                                       *)

(* has_ipv4_router_alert. *)
HasIpv4RouterAlert(options) ==
  LET scan[offset \in 0..Len(options)] ==
        LET kind == options[offset + 1]
            length == options[offset + 2]
        IN  /\ offset < Len(options)
            /\ kind # 0
            /\ IF kind = 1 THEN scan[offset + 1]
               ELSE /\ offset + 1 < Len(options)
                    /\ length >= 2 /\ offset + length <= Len(options)
                    /\ \/ kind = 148 /\ length = 4 /\ options[offset + 3] = 0 /\ options[offset + 4] = 0
                       \/ scan[offset + length]
  IN  scan[0]

(* has_ipv6_router_alert. *)
HasIpv6RouterAlert(options) ==
  LET scan[offset \in 0..Len(options)] ==
        LET kind == options[offset + 1]
            length == options[offset + 2]
        IN  /\ offset < Len(options)
            /\ IF kind = 0 THEN scan[offset + 1]
               ELSE /\ offset + 1 < Len(options)
                    /\ offset + 2 + length <= Len(options)
                    /\ \/ kind = 5 /\ length = 2 /\ options[offset + 3] = 0 /\ options[offset + 4] = 0
                       \/ scan[offset + 2 + length]
  IN  scan[0]
-----------------------------------------------------------------------------
(* The IP header that both builders write, around a message.               *)
Packet(destination, body) ==
  IF Protocol = "Igmpv3"
  THEN [version |-> 4, header |-> 24, total |-> 24 + 2 * Len(body), protocol |-> 2, ttl |-> 1,
        fragment |-> FALSE, source |-> Unspecified, destination |-> destination, sum |-> TRUE,
        content |-> <<37892, 0>> \o WithChecksum(Unspecified, destination, body)]
  ELSE [version |-> 6, header |-> 40, total |-> 48 + 2 * Len(body), protocol |-> 0, ttl |-> 1,
        fragment |-> FALSE, source |-> Unspecified, destination |-> destination, sum |-> TRUE,
        content |-> <<14848, 1282, 0, 256>> \o WithChecksum(Unspecified, destination, body)]

Available(p) == FixedHeader + 2 * Len(p.content)

(* The content from one octet of the packet up to another. *)
Between(p, from, to) == SubSeq(p.content, (from - FixedHeader) \div 2 + 1, (to - FixedHeader) \div 2)

(* The checks on an IPv4 header that report and query share, up to its       *)
(* checksum.  The destination is checked with the message.                   *)
Ipv4HeaderValid(p) ==
  /\ p.version = 4
  /\ p.header >= 20 /\ p.header <= Available(p)
  /\ p.total >= p.header /\ p.total <= Available(p)
  /\ p.protocol = 2 /\ p.ttl = 1 /\ ~p.fragment
  /\ IsValidSender(p.source)
  /\ HasIpv4RouterAlert(Octets(Between(p, 20, p.header)))
  /\ p.sum

ChecksumValid(p, body) == OnesComplementSum(Summed(p.source, p.destination, body)) = 65535
=============================================================================
