----------------------------- MODULE AmtMessage -----------------------------
(***************************************************************************)
(* AMT messages on the wire (protocol.rs).  A datagram is a sequence of    *)
(* octets, and so is a field of a message that is carried as it is.        *)
(*                                                                         *)
(* A datagram starts out as the encoding of a message and is then damaged  *)
(* step by step: cut short, extended, its first octets changed.  After     *)
(* each step it is decoded.                                                *)
(***************************************************************************)
EXTENDS Integers, Sequences

CONSTANTS Nonces, Macs, Addresses, Ports, Payloads,  \* the fields of messages
          FirstOctets,                               \* what the first two may be changed to
          MaxLength                                  \* bound on how far a datagram grows

VARIABLES message,   \* the message that was sent, until its datagram is damaged
          datagram,  \* the octets that arrive
          decoded    \* what decode makes of them

vars == <<message, datagram, decoded>>
-----------------------------------------------------------------------------
(* MessageType. *)
TypeNumber == [RelayDiscovery |-> 1, RelayAdvertisement |-> 2, Request |-> 3, MembershipQuery |-> 4,
               MembershipUpdate |-> 5, MulticastData |-> 6, Teardown |-> 7]

GatewayFieldsLen == 18

Zeros(n) == [i \in 1..n |-> 0]

(* GatewayAddress::from_ip_addr: an IPv4 address is preceded by zeros. *)
GatewayAddress(address) == IF Len(address) = 4 THEN Zeros(12) \o address ELSE address

Endpoint(port, address) == [port |-> port, address |-> GatewayAddress(address)]

(* Message.  An optional endpoint is a set of at most one. *)
Messages ==
  [type : {"RelayDiscovery"}, discovery_nonce : Nonces]
  \cup [type : {"RelayAdvertisement"}, discovery_nonce : Nonces, relay_address : Addresses]
  \cup [type : {"Request"}, request_nonce : Nonces, mldv2 : BOOLEAN, ecn_capable : BOOLEAN]
  \cup [type : {"MembershipQuery"}, response_mac : Macs, request_nonce : Nonces, limit : BOOLEAN,
        gateway : {{}} \cup {{Endpoint(p, a)} : p \in Ports, a \in Addresses}, general_query : Payloads]
  \cup [type : {"MembershipUpdate"}, response_mac : Macs, request_nonce : Nonces, membership_update : Payloads]
  \cup [type : {"MulticastData"}, packet : Payloads]
  \cup [type : {"Teardown"}, response_mac : Macs, request_nonce : Nonces,
        gateway : {Endpoint(p, a) : p \in Ports, a \in Addresses}]

Bit(flag) == IF flag THEN 1 ELSE 0

(* put_gateway_endpoint. *)
EncodeEndpoint(endpoint) == endpoint.port \o endpoint.address

(* Message::encode. *)
Encode(m) ==
  LET header == <<TypeNumber[m.type]>>
  IN  CASE m.type = "RelayDiscovery" -> header \o Zeros(3) \o m.discovery_nonce
        [] m.type = "RelayAdvertisement" -> header \o Zeros(3) \o m.discovery_nonce \o m.relay_address
        [] m.type = "Request" ->
             header \o <<2 * Bit(m.ecn_capable) + Bit(m.mldv2), 0, 0>> \o m.request_nonce
        [] m.type = "MembershipQuery" ->
             header \o <<2 * Bit(m.limit) + Bit(m.gateway # {})>> \o m.response_mac \o m.request_nonce
             \o m.general_query
             \o (IF m.gateway = {} THEN <<>> ELSE EncodeEndpoint(CHOOSE e \in m.gateway : TRUE))
        [] m.type = "MembershipUpdate" ->
             header \o <<0>> \o m.response_mac \o m.request_nonce \o m.membership_update
        [] m.type = "MulticastData" -> header \o <<0>> \o m.packet
        [] m.type = "Teardown" ->
             header \o <<0>> \o m.response_mac \o m.request_nonce \o EncodeEndpoint(m.gateway)

(* Message::encoded_len. *)
EncodedLen(m) ==
  CASE m.type \in {"RelayDiscovery", "Request"} -> 8
    [] m.type = "RelayAdvertisement" -> 8 + Len(m.relay_address)
    [] m.type = "MembershipQuery" ->
         12 + Len(m.general_query) + (IF m.gateway = {} THEN 0 ELSE GatewayFieldsLen)
    [] m.type = "MembershipUpdate" -> 12 + Len(m.membership_update)
    [] m.type = "MulticastData" -> 2 + Len(m.packet)
    [] m.type = "Teardown" -> 12 + GatewayFieldsLen
-----------------------------------------------------------------------------
(* Decoding.  An index outside the datagram would be a panic.              *)

Panic == <<-1>>

(* The octets input[from..to]; offsets begin at 0. *)
Slice(input, from, to) == IF from <= to /\ to <= Len(input) THEN SubSeq(input, from + 1, to) ELSE Panic

Failed(error) == [type |-> error]

(* require_exact, require_at_least. *)
AtLeast(input, n, m) == IF Len(input) >= n THEN m ELSE Failed("Truncated")
Exactly(input, n, m) == AtLeast(input, n, IF Len(input) = n THEN m ELSE Failed("InvalidLength"))

Odd(octet) == octet % 2 = 1
SecondBit(octet) == (octet \div 2) % 2 = 1

(* read_gateway_endpoint. *)
DecodeEndpoint(octets) == [port |-> Slice(octets, 0, 2), address |-> Slice(octets, 2, 18)]

DecodeRelayDiscovery(d) ==
  Exactly(d, 8, [type |-> "RelayDiscovery", discovery_nonce |-> Slice(d, 4, 8)])

DecodeRelayAdvertisement(d) ==
  AtLeast(d, 8, IF Len(d) - 8 \in {4, 16}
                THEN [type |-> "RelayAdvertisement", discovery_nonce |-> Slice(d, 4, 8),
                      relay_address |-> Slice(d, 8, Len(d))]
                ELSE Failed("InvalidLength"))

DecodeRequest(d) ==
  Exactly(d, 8, [type |-> "Request", request_nonce |-> Slice(d, 4, 8),
                 mldv2 |-> Odd(d[2]), ecn_capable |-> SecondBit(d[2])])

DecodeMembershipQuery(d) ==
  AtLeast(d, 12,
    LET has_gateway == Odd(d[2])
        gateway_offset == IF has_gateway THEN Len(d) - GatewayFieldsLen ELSE Len(d)
    IN  IF has_gateway /\ Len(d) < 12 + GatewayFieldsLen THEN Failed("Truncated")
        ELSE [type |-> "MembershipQuery", response_mac |-> Slice(d, 2, 8), request_nonce |-> Slice(d, 8, 12),
              limit |-> SecondBit(d[2]),
              gateway |-> IF has_gateway THEN {DecodeEndpoint(Slice(d, gateway_offset, Len(d)))} ELSE {},
              general_query |-> Slice(d, 12, gateway_offset)])

DecodeMembershipUpdate(d) ==
  AtLeast(d, 12, [type |-> "MembershipUpdate", response_mac |-> Slice(d, 2, 8),
                  request_nonce |-> Slice(d, 8, 12), membership_update |-> Slice(d, 12, Len(d))])

DecodeMulticastData(d) == AtLeast(d, 2, [type |-> "MulticastData", packet |-> Slice(d, 2, Len(d))])

DecodeTeardown(d) ==
  Exactly(d, 30, [type |-> "Teardown", response_mac |-> Slice(d, 2, 8),
                  request_nonce |-> Slice(d, 8, 12), gateway |-> DecodeEndpoint(Slice(d, 12, 30))])

(* Message::decode: the version is the upper half of the first octet, the type *)
(* the lower half.                                                             *)
Decode(d) ==
  IF d = <<>> THEN Failed("Truncated")
  ELSE IF d[1] \div 16 # 0 THEN Failed("UnsupportedVersion")
  ELSE CASE d[1] = 1 -> DecodeRelayDiscovery(d)
         [] d[1] = 2 -> DecodeRelayAdvertisement(d)
         [] d[1] = 3 -> DecodeRequest(d)
         [] d[1] = 4 -> DecodeMembershipQuery(d)
         [] d[1] = 5 -> DecodeMembershipUpdate(d)
         [] d[1] = 6 -> DecodeMulticastData(d)
         [] d[1] = 7 -> DecodeTeardown(d)
         [] OTHER -> Failed("UnknownMessageType")
-----------------------------------------------------------------------------
Init ==
  /\ \E m \in Messages : message = {m} /\ datagram = Encode(m)
  /\ decoded = Decode(datagram)

Damage ==
  /\ datagram' \in {SubSeq(datagram, 1, Len(datagram) - 1) : x \in 1..Len(datagram)}
                   \cup (IF Len(datagram) < MaxLength THEN {Append(datagram, 0)} ELSE {})
                   \cup {[datagram EXCEPT ![n] = octet] : n \in DOMAIN datagram \cap 1..2, octet \in FirstOctets}
  /\ message' = {}
  /\ decoded' = Decode(datagram')

Next == Damage

Spec == Init /\ [][Next]_vars
-----------------------------------------------------------------------------
IsMessage(m) == m.type \in DOMAIN TypeNumber

(* What is sent is what is received: decode undoes encode for every message,    *)
(* and encoded_len is the length of the encoding.                               *)
RoundTrip == \A m \in message : decoded = m /\ Len(datagram) = EncodedLen(m)

(* The datagram with what is reserved cleared. *)
Clean(d) ==
  LET reserved == CASE d[1] \in {1, 2} -> {2, 3, 4} [] d[1] = 3 -> {3, 4} [] d[1] = 4 -> {} [] OTHER -> {2}
  IN  [n \in DOMAIN d |-> IF n \in reserved THEN 0 ELSE IF n = 2 /\ d[1] \in {3, 4} THEN d[n] % 4 ELSE d[n]]

(* A datagram that is accepted is the encoding of the message it is taken for,  *)
(* apart from reserved bits: decode neither drops nor invents anything, and     *)
(* never reads outside the datagram, however that was cut, extended or changed. *)
NothingIgnored == IsMessage(decoded) => Encode(decoded) = Clean(datagram)
=============================================================================
