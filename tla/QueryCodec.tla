----------------------------- MODULE QueryCodec -----------------------------
(***************************************************************************)
(* General Queries on the wire (query.rs): the relay, or a querier on a    *)
(* local network, writes its query interval as an eight-bit code; whoever  *)
(* receives the query checks it and reads the interval back.               *)
(***************************************************************************)
EXTENDS IpWire

CONSTANTS Seconds,    \* the intervals that are asked for
          Words,      \* what a word of the packet may be changed to
          MaxChanges  \* bound on the changes to one packet

VARIABLES seconds,  \* the interval the sender was configured with
          packet,   \* the query that arrives
          changes,  \* how often it has been changed on the way
          interval  \* what the receiver reads, {} if the query is refused

vars == <<seconds, packet, changes, interval>>
-----------------------------------------------------------------------------
(* query_interval: from 128 on a code is an exponent and a mantissa. *)
QueryInterval(code) ==
  IF code < 128 THEN code ELSE ((code % 16) + 16) * 2 ^ (((code \div 16) % 8) + 3)

(* encode_query_interval: the first code, exponent by exponent, whose        *)
(* interval is long enough.                                                  *)
EncodeQueryInterval(secs) ==
  LET fitting == {code \in 128..255 : QueryInterval(code) >= secs}
  IN  IF secs < 128 THEN secs
      ELSE IF fitting = {} THEN 255 ELSE CHOOSE code \in fitting : \A other \in fitting : code <= other

QueryType == IF Protocol = "Igmpv3" THEN 17 ELSE 130

(* 224.0.0.1 or ff02::1. *)
AllNodes == [n \in 1..AddressWords |->
               IF n = AddressWords THEN 1 ELSE IF n > 1 THEN 0 ELSE IF Protocol = "Igmpv3" THEN 57344 ELSE 65282]

(* Robustness and interval code, then no sources. *)
QueryTail(code) == <<2 * 256 + code, 0>>

(* The maximum response code is 1. *)
QueryBody(code) ==
  IF Protocol = "Igmpv3" THEN <<QueryType * 256 + 1, 0>> \o Unspecified \o QueryTail(code)
                         ELSE <<QueryType * 256, 0, 1, 0>> \o Unspecified \o QueryTail(code)

(* build_general_query. *)
BuildGeneralQuery(code) == Packet(AllNodes, QueryBody(code))

(* What is particular to a General Query: it has no group, no source and    *)
(* exactly its length.                                                      *)
IsGeneralQuery(body) ==
  /\ Len(body) = (IF Protocol = "Igmpv3" THEN 6 ELSE 14)
  /\ High(body[1]) = QueryType
  /\ Protocol = "Mldv2" => Low(body[1]) = 0
  /\ SubSeq(body, Len(body) - 1 - AddressWords, Len(body) - 2) = Unspecified
  /\ body[Len(body)] = 0

(* The checks on an IPv6 header: the hop-by-hop header is taken to be eight *)
(* octets long.                                                             *)
MldHeaderValid(p) ==
  /\ p.version = 6
  /\ p.total <= Available(p) /\ p.total = 40 + 8 + 28
  /\ p.protocol = 0 /\ p.ttl = 1
  /\ High(p.content[1]) = 58
  /\ HasIpv6RouterAlert(Tail(Tail(Octets(Between(p, 40, 48)))))
  /\ IsValidSender(p.source)

QueryMessage(p) == Between(p, IF Protocol = "Igmpv3" THEN p.header ELSE 48, p.total)

QueryHeaderValid(p) ==
  /\ IF Protocol = "Igmpv3" THEN Ipv4HeaderValid(p) ELSE MldHeaderValid(p)
  /\ p.destination = AllNodes

(* general_query_interval: the interval code is the second to last word's. *)
GeneralQueryInterval(p) ==
  LET message == QueryMessage(p)
  IN  IF QueryHeaderValid(p) /\ IsGeneralQuery(message) /\ ChecksumValid(p, message)
      THEN {QueryInterval(Low(message[Len(message) - 1]))} ELSE {}
-----------------------------------------------------------------------------
Init ==
  /\ seconds \in Seconds
  /\ packet = BuildGeneralQuery(EncodeQueryInterval(seconds))
  /\ changes = 0
  /\ interval = GeneralQueryInterval(packet)

(* A word changes on the way, or a field of the header. *)
Change ==
  /\ changes < MaxChanges /\ changes' = changes + 1
  /\ packet' \in {[packet EXCEPT !.content[n] = word] : n \in DOMAIN packet.content, word \in Words}
                 \cup {[packet EXCEPT !.total = @ + 2], [packet EXCEPT !.ttl = 2]}
                 \cup {[packet EXCEPT !.content = Append(@, word)] : word \in Words}
  /\ packet' # packet
  /\ interval' = GeneralQueryInterval(packet')
  /\ UNCHANGED seconds

Resend ==
  /\ changes = MaxChanges
  /\ packet' = BuildGeneralQuery(EncodeQueryInterval(seconds))
  /\ changes' = 0
  /\ interval' = GeneralQueryInterval(packet')
  /\ UNCHANGED seconds

Next == Change \/ Resend

Spec == Init /\ [][Next]_vars
-----------------------------------------------------------------------------
(* Properties.                                                             *)

LongestInterval == QueryInterval(255)

(* The receiver's interval is the shortest that a code can say and that is    *)
(* not shorter than the sender's; beyond the longest there is, it is that     *)
(* (encode_query_interval and query_interval).                                *)
IntervalLeast ==
  changes = 0 =>
    \E read \in interval :
      /\ read >= seconds \/ (read = LongestInterval /\ seconds > LongestInterval)
      /\ \A code \in 0..255 : QueryInterval(code) >= seconds => QueryInterval(code) >= read

(* A query with one word of its message changed is refused, and octets after  *)
(* the datagram or in its header make no difference to the interval: what is  *)
(* read is what was sent.                                                     *)
ReadAsSent == changes <= 1 => interval \subseteq {QueryInterval(EncodeQueryInterval(seconds))}
=============================================================================
