------------------------------- MODULE DataPath -------------------------------
(***************************************************************************)
(* A multicast packet from its capture at the relay to the hosts behind    *)
(* the gateways: drain_upstream sends it, whole or in fragments, to every  *)
(* endpoint that wants its flow, the network loses or remarks the tunnel   *)
(* datagrams, the gateways take the ECN field out and publish the packet.  *)
(* The relay tells the source of a packet that does not fit.               *)
(*                                                                         *)
(* A packet is forwarded when those of the one before have left the        *)
(* network: only the limiter of the feedback outlives a packet.            *)
(***************************************************************************)
EXTENDS IpPacket, FiniteSets

CONSTANTS Endpoint,      \* gateways
          OuterFamily,   \* [Endpoint -> {4, 6}]
          EcnGateway,    \* the gateways that decapsulate ECN
          Flow,          \* pairs of a source and a group
          Interests,     \* how endpoints want flows: [Endpoint -> [Flow -> Want]]
          Packets,       \* [Flow -> SUBSET Packet], what is captured
          PathMtu,       \* the configured path MTU
          FeedbackFamily, \* family of the upstream interface address, or none
          Interval,      \* DEFAULT_FEEDBACK_INTERVAL
          MaxFlows,      \* DEFAULT_TRACKED_FLOWS
          Remarks        \* what the network does to ECN fields: <<from, to>>

(* INCLUDE with the source, EXCLUDE without it, or not at all. *)
Want == {"include", "exclude", "none"}

(* The path MTU is one that validate_path_mtu accepts. *)
ASSUME TunnelAssumption ==
  /\ OuterFamily \in [Endpoint -> {4, 6}] /\ EcnGateway \subseteq Endpoint
  /\ PathMtu \in Nat /\ PathMtu >= 1280 /\ PathMtu <= 65535

ASSUME TrafficAssumption ==
  /\ Interests \subseteq [Endpoint -> [Flow -> Want]]
  /\ Packets \in [Flow -> SUBSET Packet]
  /\ Remarks \subseteq Codepoint \X Codepoint

ASSUME FeedbackAssumption == Interval \in Nat \ {0} /\ MaxFlows \in Nat \ {0}

VARIABLES interest,  \* the relay's interests, and those of the gateways
          capable,   \* the endpoints in the relay's ECN table
          flow,      \* the flow of the packet in hand
          packet,    \* the packet as it was captured, a set of at most one
          air,       \* tunnel datagrams under way
          arrived,   \* what the gateways published of the packet
          lossy,     \* endpoints that missed some of it for no fault of the code
          dropped,   \* endpoints the packet was too big for
          feedback,  \* the ICMP error it caused, a set of at most one
          last,      \* FeedbackRateLimiter: age of the last feedback, by flow
          queue,     \* FeedbackRateLimiter: expirations, oldest first
          since      \* history: age of the last slot a flow was given

limiter == <<last, queue, since>>
transit == <<interest, capable, flow, packet, dropped, feedback, last, queue, since>>
dataVars == <<transit, air, arrived, lossy>>

DataInit ==
  /\ interest \in Interests
  /\ capable \in SUBSET EcnGateway
  /\ flow \in Flow
  /\ packet = {} /\ air = {} /\ arrived = {} /\ lossy = {} /\ dropped = {}
  /\ feedback = {}
  /\ last = [f \in {} |-> 0] /\ queue = <<>>
  /\ since = [f \in Flow |-> Interval]
-----------------------------------------------------------------------------
(* The feedback limiter.                                                   *)

(* FeedbackRateLimiter::allow, the loop: expired entries leave the queue     *)
(* from the front, and the map with them.  An entry is a flow and its age.   *)
Expired(n) == queue[n].age >= Interval
ExpiredCount ==
  CHOOSE n \in 0..Len(queue) : /\ \A m \in 1..n : Expired(m)
                               /\ n = Len(queue) \/ ~Expired(n + 1)
AfterExpiry ==
  LET gone == {f \in DOMAIN last : \E n \in 1..ExpiredCount :
                 queue[n] = [flow |-> f, age |-> last[f]]}
  IN  [queue |-> SubSeq(queue, ExpiredCount + 1, Len(queue)),
       last |-> [f \in DOMAIN last \ gone |-> last[f]]]

(* Mutant: the table may be full. *)
AllowsOver(f) == f \notin DOMAIN AfterExpiry.last

(* FeedbackRateLimiter::allow, the answer. *)
Allows(f) ==
  /\ f \notin DOMAIN AfterExpiry.last
  /\ Cardinality(DOMAIN AfterExpiry.last) < MaxFlows

(* ... and what it leaves behind. *)
AllowFeedback(f, allowed) ==
  IF allowed
  THEN /\ last' = [x \in DOMAIN AfterExpiry.last \cup {f} |->
                     IF x = f THEN 0 ELSE AfterExpiry.last[x]]
       /\ queue' = Append(AfterExpiry.queue, [flow |-> f, age |-> 0])
       /\ since' = [since EXCEPT ![f] = 0]
  ELSE /\ last' = AfterExpiry.last
       /\ queue' = AfterExpiry.queue
       /\ UNCHANGED since

(* RelayPmtuFeedback::send and PmtuFeedbackSender::send: nothing happens     *)
(* unless the packet parses, is of the interface's family and is not an      *)
(* ICMP error.  A slot is used even when the error is not sent after all.    *)
SendFeedback(p, mtu) ==
  IF ~Parses(p) \/ p.family \notin FeedbackFamily \/ Suppressed(p)
  THEN UNCHANGED limiter /\ feedback' = {}
  ELSE /\ AllowFeedback(flow', Allows(flow'))
       /\ \/ feedback' = {}
          \/ /\ Allows(flow') /\ FeedbackMtuValid(p, mtu)
             /\ feedback' = {[mtu |-> mtu, length |-> FeedbackLength(p)]}
-----------------------------------------------------------------------------
(* The relay: drain_upstream.                                              *)

MatchingEndpoints(f) == {e \in Endpoint : interest[e][f] # "none"}
HasSsmInterest(f) == \E e \in Endpoint : interest[e][f] = "include"

(* tunnel_ecn: the inner field for a gateway known to decapsulate it. *)
TunnelEcn(e, p) == IF e \in capable /\ p.total = p.captured THEN p.ecn ELSE "NotEct"

(* The packets to send to an endpoint, in order; none if it must be dropped. *)
Pieces(p, e) ==
  LET mtu == TunnelMtu(PathMtu, OuterFamily[e])
  IN  IF p.captured <= mtu THEN <<p>>
      ELSE IF OversizedError(p, mtu) = "none" THEN FragmentsOf(p, mtu)
      ELSE <<>>

TooBig(p, e) ==
  LET mtu == TunnelMtu(PathMtu, OuterFamily[e])
  IN  p.captured > mtu /\ OversizedError(p, mtu) # "none"

(* The smallest MTU of a tunnel whose drop the source can do something about. *)
FeedbackMtu(p, endpoints) ==
  LET Mtu(e) == TunnelMtu(PathMtu, OuterFamily[e])
      mtus == {Mtu(e) : e \in {x \in endpoints :
                 TooBig(p, x) /\ RequiresFeedback(OversizedError(p, Mtu(x)))}}
  IN  {m \in mtus : \A x \in mtus : m <= x}

(* drain_upstream, one packet p of flow f.  sent[e] of the pieces for e go    *)
(* out before the socket fails, if it does.                                  *)
Forward(f, captured) ==
  LET p == Normalize(captured)
      to == MatchingEndpoints(f)
  IN  /\ air = {}
      /\ flow' = f /\ packet' = {captured}
      /\ \E sent \in [to -> UNION {0..Len(Pieces(p, e)) : e \in to}] :
           /\ \A e \in to : sent[e] <= Len(Pieces(p, e))
           /\ air' = UNION {{[to |-> e, inner |-> Pieces(p, e)[n],
                              outer |-> TunnelEcn(e, Pieces(p, e)[n])] : n \in 1..sent[e]} :
                             e \in to}
           /\ lossy' = {e \in to : sent[e] < Len(Pieces(p, e))}
      /\ dropped' = {e \in to : TooBig(p, e)}
      /\ arrived' = {}
      /\ IF HasSsmInterest(f) /\ FeedbackMtu(p, to) # {}
         THEN \E mtu \in FeedbackMtu(p, to) : SendFeedback(p, mtu)
         ELSE UNCHANGED limiter /\ feedback' = {}
      /\ UNCHANGED <<interest, capable>>
-----------------------------------------------------------------------------
(* The network.                                                            *)

Lose(d) ==
  /\ air' = air \ {d} /\ lossy' = lossy \cup {d.to}
  /\ UNCHANGED <<transit, arrived>>

Remark(d) ==
  /\ \E r \in Remarks : /\ r[1] = d.outer
                        /\ air' = (air \ {d}) \cup {[d EXCEPT !.outer = r[2]]}
  /\ UNCHANGED <<transit, arrived, lossy>>
-----------------------------------------------------------------------------
(* The gateway.                                                            *)

(* Gateway::handle_datagram for Multicast Data: the codepoint of the packet   *)
(* to publish, if it is to be published.                                      *)
Publishes(d) ==
  IF ~Parses(d.inner) THEN {}
  ELSE IF d.to \in EcnGateway THEN Decapsulate(d.inner.ecn, d.outer)
  ELSE {d.inner.ecn}

(* DownstreamPublisher::forward_ip_datagram: what is sent, unless the socket *)
(* fails (~ok) or the datagram is not one.                                   *)
DownstreamParses(p) ==
  /\ p.captured >= MinHeader(p.family) /\ p.header >= MinHeader(p.family)
  /\ p.captured >= p.header /\ p.total >= p.header /\ p.captured >= p.total
ForwardIpDatagram(p, ok) ==
  IF ok /\ DownstreamParses(p) THEN {[p EXCEPT !.captured = p.total]} ELSE {}

(* The gateway loop's data branch: publish the packet and go on if that      *)
(* fails.                                                                    *)
Receive(d, ok) ==
  LET taken == {[d.inner EXCEPT !.ecn = c] : c \in Publishes(d)}
      sent == UNION {ForwardIpDatagram(q, ok) : q \in taken}
  IN  /\ air' = air \ {d}
      /\ arrived' = arrived \cup {[at |-> d.to, piece |-> q, outer |-> d.outer] : q \in sent}
      /\ lossy' = lossy \cup IF ok /\ (taken # {} \/ d.outer # "Ce") THEN {} ELSE {d.to}
      /\ UNCHANGED transit
-----------------------------------------------------------------------------
DataTick ==
  /\ \E f \in Flow : since[f] < Interval
  /\ since' = [f \in Flow |-> IF since[f] < Interval THEN since[f] + 1 ELSE Interval]
  /\ last' = [f \in DOMAIN last |-> IF last[f] < Interval THEN last[f] + 1 ELSE Interval]
  /\ queue' = [n \in DOMAIN queue |->
                 [queue[n] EXCEPT !.age = IF @ < Interval THEN @ + 1 ELSE Interval]]
  /\ UNCHANGED <<interest, capable, flow, packet, dropped, feedback, air, arrived, lossy>>

DataNext ==
  \/ \E f \in Flow : \E p \in Packets[f] : Forward(f, p)
  \/ \E d \in air : Lose(d) \/ Remark(d) \/ Receive(d, TRUE) \/ Receive(d, FALSE)
  \/ DataTick

DataSpec == DataInit /\ [][DataNext]_dataVars
-----------------------------------------------------------------------------
DataTypeOK ==
  /\ interest \in [Endpoint -> [Flow -> Want]] /\ capable \subseteq EcnGateway
  /\ flow \in Flow /\ packet \subseteq Packet
  /\ \A d \in air : d.to \in Endpoint /\ d.inner \in Packet /\ d.outer \in Codepoint
  /\ \A x \in arrived : x.at \in Endpoint /\ x.piece \in Packet /\ x.outer \in Codepoint
  /\ lossy \subseteq Endpoint /\ dropped \subseteq Endpoint
  /\ feedback \subseteq [mtu : Nat, length : Nat]
  /\ DOMAIN last \subseteq Flow /\ \A f \in DOMAIN last : last[f] \in 0..Interval
  /\ \A n \in DOMAIN queue : queue[n] \in [flow : Flow, age : 0..Interval]
  /\ since \in [Flow -> 0..Interval]

(* Whatever is sent into a tunnel leaves the relay in one IP packet no        *)
(* longer than the configured path MTU (tunnel_mtu, fragment_ipv4_for_tunnel).*)
FitsPath ==
  \A d \in air : d.inner.captured + 2 + 8 + MinHeader(OuterFamily[d.to]) <= PathMtu

(* The pieces make up the packet p: they start where it starts, each but the  *)
(* last is followed by another and says so, and none overlap.                 *)
Reassembles(pieces, p) ==
  LET Start(q) == 8 * q.offset
      End(q) == Start(q) + Payload(q)
  IN  /\ \E q \in pieces : Start(q) = Start(p)
      /\ \A q \in pieces :
           /\ q.header = p.header /\ q.captured = q.total
           /\ \/ End(q) = End(p) /\ q.mf = p.mf
              \/ End(q) < End(p) /\ q.mf /\ \E r \in pieces : Start(r) = End(q)
      /\ \A q, r \in pieces : Start(q) < Start(r) => End(q) <= Start(r)

(* A packet that was captured whole reaches the hosts behind every gateway    *)
(* that wants it, in pieces that reassemble to it, unless a datagram is lost  *)
(* or the packet has to be dropped for its size; the checksum of a whole UDP  *)
(* datagram is then good, and any other as it was captured                    *)
(* (normalized_amt_datagram, drain_upstream, parse_multicast_packet).         *)
PiecesDelivered ==
  \A p \in packet : \A e \in MatchingEndpoints(flow) \ lossy :
    LET pieces == {x.piece : x \in {y \in arrived : y.at = e}}
    IN  /\ air = {} /\ CapturedWhole(p)
        /\ e \notin dropped \/ p.total <= TunnelMtu(PathMtu, OuterFamily[e])
        => /\ Reassembles(pieces, p)
           /\ \A q \in pieces : q.udpsum <=> p.udpsum \/ UdpWhole(p)

(* The two normalisations of the code, for a packet on its own and for one     *)
(* inside a Multicast Data message, do the same.                               *)
NormalizationsAgree == \A p \in packet : NormalizeForwarded(p) = Normalize(p)

(* Congestion on the tunnel or before it is seen by the hosts behind a        *)
(* gateway that decapsulates ECN, and a host that did not ask for ECN never   *)
(* sees a mark (tunnel_ecn, decapsulate_ecn).                                 *)
CongestionSeen ==
  \A p \in packet : \A x \in arrived :
    /\ x.at \in EcnGateway /\ x.outer = "Ce" => x.piece.ecn = "Ce"
    /\ p.ecn = "Ce" => x.piece.ecn = "Ce"
    /\ p.ecn = "NotEct" => x.piece.ecn = "NotEct"

(* An ICMP error is about a packet that was dropped for its size, names a      *)
(* size smaller than it that fits the tunnel of every receiver, is sent only   *)
(* for a flow someone joined as source-specific and never about an ICMP error, *)
(* and fits the smallest MTU itself (drain_upstream, PmtuFeedbackSender::send, *)
(* build_pmtu_feedback).                                                       *)
ErrorsJustified ==
  \A p \in packet : \A f \in feedback :
    /\ dropped # {} /\ HasSsmInterest(flow) /\ p.upper # "icmp error"
    /\ f.mtu < p.total
    /\ \A e \in MatchingEndpoints(flow) : f.mtu <= TunnelMtu(PathMtu, OuterFamily[e])
    /\ f.length <= SmallestMtu(p.family)

(* The limiter's map and queue never part: a flow is refused exactly while     *)
(* its last slot is younger than the interval or as many flows as can be       *)
(* tracked have younger ones (FeedbackRateLimiter::allow).                     *)
LimiterExact ==
  \A f \in Flow :
    Allows(f) <=> /\ since[f] = Interval
                  /\ Cardinality({x \in Flow : since[x] < Interval}) < MaxFlows

(* A packet captured whole is delivered whole to every gateway that wants it, *)
(* in pieces that fit the path, and with the congestion marks it met on the   *)
(* way; the two normalisations of a captured packet agree on what it is       *)
(* (drain_upstream, tunnel_mtu, parse_multicast_packet).                      *)
DeliveredWhole ==
  DataTypeOK /\ PiecesDelivered /\ FitsPath /\ NormalizationsAgree /\ CongestionSeen

(* An ICMP error is justified and names a size that helps, and its limiter    *)
(* refuses exactly what it must (PmtuFeedbackSender::send,                    *)
(* FeedbackRateLimiter::allow).                                               *)
FeedbackSound == ErrorsJustified /\ LimiterExact
=============================================================================
