----------------------------- MODULE GatewayLoop -----------------------------
(***************************************************************************)
(* The static gateway daemon (daemon::run_static_gateway): one thread that *)
(* turns round a loop.  Each round it looks at its timers ("top"), reads   *)
(* datagrams ("recv") and handles local membership ("local").  The relays  *)
(* and the network are the environment: any Discovery or Request in flight *)
(* may be answered, by a relay that sees the gateway at any address (a NAT *)
(* may move it), and messages are lost, duplicated, delayed and reordered. *)
(*                                                                         *)
(* Time.  Every Instant is the time since it (or, for the retry timer, the *)
(* time until it) in ticks; an Option of one is a set.                     *)
(***************************************************************************)
EXTENDS Gateway

CONSTANTS Candidates,     \* the configured relay and its fallbacks, in order
          Want,           \* the sets of interests the hosts may have
          QueryTimeout,   \* GATEWAY_QUERY_TIMEOUT
          RefreshEvery,   \* the configured membership refresh interval
          Suggested,      \* the query intervals relays may suggest
          RetryInitial,   \* GATEWAY_RETRY_INITIAL
          RetryMax,       \* GATEWAY_RETRY_MAX
          MaxAttempt,     \* where the backoff exponent stops growing
          Variants,       \* how relays answer: with the L flag, with gateway fields
          Carried,        \* the messages the environment reacts to
          MaxInFlight     \* bound: messages in flight; more are lost

ASSUME LoopAssumption ==
         /\ Candidates \in Seq(RelayAddr) /\ Candidates # <<>>
         /\ QueryTimeout \in Nat \ {0} /\ RefreshEvery \in Nat \ {0}
         /\ RetryInitial \in Nat \ {0} /\ RetryMax \in Nat /\ RetryInitial <= RetryMax
         /\ IsFiniteSet(Nonce) /\ Nonce \subseteq Nat
         /\ Cardinality(Nonce) >= MaxInFlight + 5   \* a fresh pair can always be drawn
         /\ Variants \subseteq [limit : BOOLEAN, fields : BOOLEAN]
         /\ Suggested \subseteq Nat /\ Want \subseteq Maps(Group, StoredInterest)

VARIABLES gw,         \* the Gateway
          want,       \* what the hosts and the configured joins ask for
          cycle,      \* query_cycle_started
          refresh,    \* last_membership_refresh
          effective,  \* effective_refresh_interval
          retry,      \* relay_retry
          pc,         \* where the loop is, or how it ended
          net,        \* messages in flight
          out,        \* what the last step sent, in order
          welcomed,   \* addresses at which the relay of this session invited the gateway
          faulty      \* does the network lose and duplicate messages?

vars == <<gw, want, cycle, refresh, effective, retry, pc, net, out, welcomed, faulty>>

Running == pc \in {"top", "recv", "local"}
-----------------------------------------------------------------------------
(* Timers.                                                                 *)

(* GatewayRetry::upper_delay. *)
UpperDelay(attempt) ==
  LET delay == RetryInitial * 2 ^ attempt IN IF delay < RetryMax THEN delay ELSE RetryMax

(* GatewayRetry::after_send: a random delay up to a bound that doubles. *)
RetryAfterSend(attempt) ==
  \E delay \in RetryInitial..UpperDelay(attempt) :
    retry' = [attempt |-> IF attempt < MaxAttempt THEN attempt + 1 ELSE attempt,
              wait |-> delay]

RetryDue == retry.wait = 0
CycleExpired == \E elapsed \in cycle : elapsed >= QueryTimeout

(* effective_refresh_interval_for. *)
EffectiveRefresh(suggested) ==
  IF suggested = 0 THEN RefreshEvery
  ELSE IF suggested < RefreshEvery THEN suggested ELSE RefreshEvery

Fresh(n) ==
  n \in Nonce /\ n \notin {m.msg.nonce : m \in net}
              /\ n \notin {gw.discovery_nonce, gw.request_nonce}
              /\ n \notin {s.nonce : s \in gw.session}

(* Which fresh nonces are drawn makes no difference: take the smallest. *)
FreshPair(discovery_nonce, request_nonce) ==
  /\ Fresh(discovery_nonce) /\ Fresh(request_nonce)
  /\ discovery_nonce < request_nonce
  /\ \A n \in Nonce : Fresh(n) => n >= discovery_nonce
  /\ \A n \in Nonce : Fresh(n) /\ n # discovery_nonce => n >= request_nonce
-----------------------------------------------------------------------------
(* The network.                                                            *)

ToRelay(relay, msg) == [relay |-> relay, up |-> TRUE, msg |-> msg]
ToGateway(relay, msg) == [relay |-> relay, up |-> FALSE, msg |-> msg]
ToEndpoint(msg) == ToRelay(CHOOSE r \in gw.endpoint : TRUE, msg)

(* An optional message as a sequence. *)
AtMostOne(option) == IF option = {} THEN <<>> ELSE <<CHOOSE m \in option : TRUE>>

(* Sending from a network that holds rest: each message may be lost. *)
SendFrom(rest, sent) ==
  LET carried == {m \in {sent[n] : n \in DOMAIN sent} : m.msg.kind \in Carried}
  IN  /\ out' = sent
      /\ \E kept \in IF faulty THEN SUBSET carried ELSE {carried} :
           /\ faulty => Cardinality(rest \cup kept) <= MaxInFlight
           /\ net' = rest \cup kept

Send(sent) == SendFrom(net, sent)
-----------------------------------------------------------------------------
Init ==
  /\ \E discovery_nonce, request_nonce \in Nonce :
       /\ discovery_nonce < request_nonce
       /\ \A n \in Nonce : n >= discovery_nonce
       /\ \A n \in Nonce : n > discovery_nonce => n >= request_nonce
       /\ gw = NewGateway(Head(Candidates), Tail(Candidates), discovery_nonce, request_nonce)
  /\ want \in Want
  /\ cycle = {} /\ refresh = {}
  /\ effective = RefreshEvery
  /\ retry = [attempt |-> 0, wait |-> 0]
  /\ pc = "top"
  /\ net = {}
  /\ out = <<>>
  /\ welcomed = {}
  /\ faulty = TRUE
-----------------------------------------------------------------------------
(* The top of the loop: what is due.                                       *)

(* Restarting discovery, as the timeout and an L flag do. *)
StartOver(rest, before) ==
  \E discovery_nonce, request_nonce \in Nonce :
    /\ FreshPair(discovery_nonce, request_nonce)
    /\ gw' = RestartDiscovery(gw, discovery_nonce, request_nonce)
    /\ SendFrom(rest, Append(before, ToRelay(gw'.relay, Discovery(discovery_nonce))))
    /\ cycle' = {0}
    /\ RetryAfterSend(0)
    /\ welcomed' = {}

(* Mutant: the timeout of the new exchange is not started. *)
TimeoutNotRearmed ==
  /\ CycleExpired
  /\ \E discovery_nonce, request_nonce \in Nonce :
       /\ FreshPair(discovery_nonce, request_nonce)
       /\ gw' = RestartDiscovery(gw, discovery_nonce, request_nonce)
       /\ Send(<<ToRelay(gw'.relay, Discovery(discovery_nonce))>>)
  /\ cycle' = {}
  /\ RetryAfterSend(0)
  /\ welcomed' = {}
  /\ UNCHANGED <<refresh, effective>>

QueryCycleTimesOut ==
  /\ CycleExpired
  /\ StartOver(net, <<>>)
  /\ UNCHANGED <<refresh, effective>>

RepeatDiscovery ==
  /\ ~CycleExpired /\ gw.endpoint = {} /\ RetryDue
  /\ Send(<<ToRelay(gw.relay, Discovery(gw.discovery_nonce))>>)
  /\ cycle' = IF cycle = {} THEN {0} ELSE cycle
  /\ RetryAfterSend(retry.attempt)
  /\ UNCHANGED <<gw, refresh, effective, welcomed>>

RepeatRequest ==
  /\ ~CycleExpired /\ gw.endpoint # {} /\ IsAwaitingQuery(gw) /\ RetryDue
  /\ Send(<<ToEndpoint(Request(gw.request_nonce))>>)
  /\ RetryAfterSend(retry.attempt)
  /\ UNCHANGED <<gw, cycle, refresh, effective, welcomed>>

RefreshDue == IsEstablished(gw) /\ \E elapsed \in refresh : elapsed >= effective

BeginRefresh ==
  /\ ~CycleExpired /\ RefreshDue
  /\ \E n \in Nonce :
       /\ Fresh(n) /\ \A k \in Nonce : Fresh(k) => k >= n
       /\ gw' = BeginQueryCycle(gw, n)
       /\ Send(<<ToEndpoint(Request(n))>>)
  /\ cycle' = {0}
  /\ RetryAfterSend(0)
  /\ UNCHANGED <<refresh, effective, welcomed>>

SomethingDue ==
  \/ CycleExpired
  \/ RefreshDue
  \/ RetryDue /\ (gw.endpoint = {} \/ IsAwaitingQuery(gw))

NothingDue ==
  /\ ~SomethingDue
  /\ out' = <<>>
  /\ UNCHANGED <<gw, cycle, refresh, effective, retry, net, welcomed>>

Top ==
  /\ pc = "top"
  /\ pc' = "recv"
  /\ \/ QueryCycleTimesOut
     \/ RepeatDiscovery
     \/ RepeatRequest
     \/ BeginRefresh
     \/ NothingDue
  /\ UNCHANGED want

(* shutdown_gateway. *)
Shutdown ==
  /\ pc = "top"
  /\ pc' = "stopped"
  /\ Send(AtMostOne({ToEndpoint(m) : m \in TeardownMessages(gw)}))
  /\ UNCHANGED <<gw, want, cycle, refresh, effective, retry, welcomed>>

(* A socket error ends the daemon wherever it happens. *)
SocketFails ==
  /\ Running
  /\ pc' = "failed"
  /\ out' = <<>>
  /\ UNCHANGED <<gw, want, cycle, refresh, effective, retry, net, welcomed>>
-----------------------------------------------------------------------------
(* Reading datagrams.                                                      *)

(* Whatever the handler sends goes out from a network without the message,   *)
(* or with it, if it was duplicated.                                         *)
Rest(m) == IF faulty THEN {net, net \ {m}} ELSE {net \ {m}}

RecvAdvertisement(m) ==
  /\ m.msg.kind = "Advertisement"
  /\ AcceptsAdvertisement(gw, m.relay, m.msg)
  /\ gw' = AfterAdvertisement(gw, m.msg)
  /\ \E rest \in Rest(m) :
       SendFrom(rest, <<ToRelay(m.msg.address, Request(gw.request_nonce))>>)
  /\ cycle' = {0}
  /\ RetryAfterSend(0)
  /\ UNCHANGED <<refresh, effective, welcomed>>

(* Mutant: the L flag counts only for a gateway that moved. *)
LimitOnlyWhenMoved(limit, reported, moved) == limit /\ moved

(* limit_requires_rediscovery. *)
LimitRequiresRediscovery(limit, reported, moved) == limit /\ (~reported \/ moved)

(* A Membership Query of a relay that will not have the gateway. *)
RecvRefusal(m) ==
  LET after == AfterQuery(gw, m.msg)
      previous == PreviousTeardown(gw, m.msg)
  IN  /\ m.msg.kind = "Query"
      /\ AcceptsQuery(gw, m.relay, m.msg)
      /\ LimitRequiresRediscovery(m.msg.limit, HasReported(after), previous # {})
      /\ \E rest \in Rest(m) :
           StartOver(rest, AtMostOne({ToEndpoint(t) : t \in previous}))
      /\ refresh' = {}
      /\ UNCHANGED effective

(* send_desired_membership, in a gateway that is now in state after. *)
UpdateFor(after, interests) ==
  LET report == ReplacementReport(after, interests)
  IN  IF report = <<>> THEN <<>> ELSE <<ToEndpoint(UpdateMessage(after, report))>>

AfterReplacement(after, interests) ==
  LET report == ReplacementReport(after, interests)
  IN  IF report = <<>> THEN after ELSE AfterUpdate(after, report)

(* A Membership Query that opens or renews the session. *)
RecvQuery(m) ==
  LET after == AfterQuery(gw, m.msg)
      previous == PreviousTeardown(gw, m.msg)
  IN  /\ m.msg.kind = "Query"
      /\ AcceptsQuery(gw, m.relay, m.msg)
      /\ ~LimitRequiresRediscovery(m.msg.limit, HasReported(after), previous # {})
      /\ gw' = AfterReplacement(after, want)
      /\ \E rest \in Rest(m) :
           SendFrom(rest, AtMostOne({ToEndpoint(t) : t \in previous}) \o UpdateFor(after, want))
      /\ effective' = EffectiveRefresh(m.msg.interval)
      /\ cycle' = {}
      /\ refresh' = {0}
      /\ welcomed' = IF m.msg.limit THEN welcomed ELSE welcomed \cup {m.msg.gateway}
      /\ UNCHANGED retry

(* Anything else is counted and dropped. *)
RecvRejected(m) ==
  /\ ~(m.msg.kind = "Advertisement" /\ AcceptsAdvertisement(gw, m.relay, m.msg))
  /\ ~(m.msg.kind = "Query" /\ AcceptsQuery(gw, m.relay, m.msg))
  /\ net' = net \ {m}
  /\ out' = <<>>
  /\ UNCHANGED <<gw, cycle, refresh, effective, retry, welcomed>>

Recv ==
  /\ pc = "recv"
  /\ \E m \in {x \in net : ~x.up} :
       RecvAdvertisement(m) \/ RecvRefusal(m) \/ RecvQuery(m) \/ RecvRejected(m)
  /\ UNCHANGED <<want, pc>>

(* Nothing left to read, or MAX_CONTROL_DRAIN datagrams read. *)
RecvDone ==
  /\ pc = "recv"
  /\ pc' = "local"
  /\ out' = <<>>
  /\ UNCHANGED <<gw, want, cycle, refresh, effective, retry, net, welcomed>>
-----------------------------------------------------------------------------
(* Local membership.                                                       *)

SendDesired(interests) ==
  /\ gw' = AfterReplacement(gw, interests)
  /\ Send(UpdateFor(gw, interests))

KeepQuiet == out' = <<>> /\ UNCHANGED <<gw, net>>

(* drain_local_membership: a report of a local host.  It is passed on when   *)
(* there is a session, even one that is being renewed.                       *)
LocalReport ==
  /\ pc = "local"
  /\ \E interests \in Want :
       /\ want' = interests
       /\ IF gw.session # {} THEN CanUpdate(gw) /\ SendDesired(interests) ELSE KeepQuiet
  /\ UNCHANGED <<cycle, refresh, effective, retry, pc, welcomed>>

(* Mutant: what a prune changed is not sent. *)
PruneSilently ==
  /\ pc = "local"
  /\ \E interests \in Want : want' = interests
  /\ KeepQuiet
  /\ pc' = "top"
  /\ UNCHANGED <<cycle, refresh, effective, retry, welcomed>>

(* Local reporters that fell silent are pruned; only an established gateway  *)
(* passes that on at once.                                                   *)
LocalPrune ==
  /\ pc = "local"
  /\ \E interests \in Want :
       /\ want' = interests
       /\ IF IsEstablished(gw) THEN SendDesired(interests) ELSE KeepQuiet
  /\ pc' = "top"
  /\ UNCHANGED <<cycle, refresh, effective, retry, welcomed>>

LocalDone ==
  /\ pc = "local"
  /\ pc' = "top"
  /\ out' = <<>>
  /\ UNCHANGED <<gw, want, cycle, refresh, effective, retry, net, welcomed>>
-----------------------------------------------------------------------------
(* The environment.                                                        *)

Tick ==
  /\ Running
  /\ cycle' = {IF t < QueryTimeout THEN t + 1 ELSE t : t \in cycle}
  /\ refresh' = {IF t < RefreshEvery THEN t + 1 ELSE t : t \in refresh}
  /\ retry' = [retry EXCEPT !.wait = IF @ = 0 THEN 0 ELSE @ - 1]
  /\ out' = <<>>
  /\ UNCHANGED <<gw, want, effective, pc, net, welcomed>>

Answer(m, msg) ==
  /\ Running
  /\ \E rest \in Rest(m) :
       /\ Cardinality(rest \cup {ToGateway(m.relay, msg)}) <= MaxInFlight
       /\ net' = rest \cup {ToGateway(m.relay, msg)}
  /\ out' = <<>>
  /\ UNCHANGED <<gw, want, cycle, refresh, effective, retry, pc, welcomed>>

(* The MAC of a relay, for a nonce and the address it sees; the code of the  *)
(* relay's answer is in module Relay.                                        *)
RelayMac(relay, nonce, gateway) == [relay |-> relay, nonce |-> nonce, gateway |-> gateway]

AnswerDiscovery(m) ==
  /\ m.msg.kind = "Discovery"
  /\ \E address \in RelayAddr : Answer(m, Advertisement(m.msg.nonce, address))

AnswerRequest(m) ==
  /\ m.msg.kind = "Request"
  /\ \E address \in Endpoint, variant \in Variants, interval \in Suggested :
       Answer(m, Query(m.msg.nonce, RelayMac(m.relay, m.msg.nonce, address), variant.limit,
                       IF variant.fields THEN {address} ELSE {}, interval))

Lose(m) ==
  /\ Running
  /\ net' = net \ {m}
  /\ out' = <<>>
  /\ UNCHANGED <<gw, want, cycle, refresh, effective, retry, pc, welcomed>>

Network == \E m \in net : AnswerDiscovery(m) \/ AnswerRequest(m) \/ Lose(m)

Ended == ~Running /\ UNCHANGED <<gw, want, cycle, refresh, effective, retry, pc, net, out, welcomed>>

Loop == Top \/ Recv \/ RecvDone \/ LocalReport \/ LocalPrune \/ LocalDone

Next == (Loop \/ Shutdown \/ SocketFails \/ Tick \/ Network \/ Ended) /\ UNCHANGED faulty

Spec == Init /\ [][Next]_vars

(* No timer moves any more. *)
TimeStands ==
  cycle \subseteq {QueryTimeout} /\ refresh \subseteq {RefreshEvery} /\ RetryDue

(* The thread gets through every part of its round and time passes, which   *)
(* is weak fairness of Top, RecvDone, LocalDone and Tick with their guards   *)
(* written out; nothing is assumed of the network.                           *)
FairSpec ==
  /\ Spec
  /\ []<>(pc # "top") /\ []<>(pc # "recv") /\ []<>(pc # "local")
  /\ []<>(~Running \/ TimeStands) \/ []<><<Tick>>_vars
-----------------------------------------------------------------------------
(* Properties.                                                             *)

(* The gateway is never left waiting for something no timer will bring: an  *)
(* open exchange has a timeout running, an established session a refresh.   *)
(* Each is set in one branch of run_static_gateway's loop and cleared in    *)
(* another.                                                                 *)
TimersCover ==
  /\ IsEstablished(gw) => cycle = {} /\ refresh # {}
  /\ gw.phase # "Established" => cycle # {} \/ (gw.endpoint = {} /\ RetryDue)

(* What an established gateway has told its relay, on balance over all the  *)
(* reports it sent, is what the hosts want now: nothing that changed while  *)
(* there was no session, or while one was being renewed, is forgotten       *)
(* (replace_memberships, drain_local_membership, prune_stale_reporters).    *)
AdvertisedIsDesired == IsEstablished(gw) => gw.reception = want

(* An Update or a Teardown goes to the relay whose MAC it carries, with the *)
(* nonce that MAC was made for, whatever late answers of this or another    *)
(* relay arrive (handle_datagram_with_ecn, begin_query_cycle,               *)
(* restart_discovery).                                                      *)
OutgoingAuthentic ==
  \A n \in DOMAIN out :
    out[n].msg.kind \in {"Update", "Teardown"} =>
      out[n].relay = out[n].msg.mac.relay /\ out[n].msg.nonce = out[n].msg.mac.nonce

(* Memberships are only held at a relay that invited the gateway, that is,  *)
(* sent a Query without the L flag for the address the session has          *)
(* (limit_requires_rediscovery).                                            *)
WelcomedOnly == HasReported(gw) => \A s \in gw.session : s.gateway \in welcomed

(* When a relay sees the gateway at a new address, the state at the old one *)
(* is torn down first, with the credentials of the old session              *)
(* (previous_teardown).                                                     *)
MoveTearsDown ==
  [][\A s \in gw.session, t \in gw'.session :
       s.gateway # {} /\ t.gateway # s.gateway =>
         /\ out' # <<>>
         /\ out'[1].msg.kind = "Teardown"
         /\ {out'[1].msg.gateway} = s.gateway /\ out'[1].msg.mac = s.mac]_vars

(* A gateway that finds no relay tries every candidate of its address      *)
(* family again and again: no answer, late or otherwise, keeps it from      *)
(* moving on (restart_discovery, the query timeout).                        *)
EveryCandidateTried ==
  \A r \in {c \in ToSet(Candidates) : SameFamily(c, Head(Candidates))} :
    []<>(gw.relay = r \/ IsEstablished(gw) \/ ~Running)

(* Every message carries the credentials of the session it is about: those    *)
(* of the relay it goes to, and those of the old address when that one is     *)
(* torn down (handle_datagram_with_ecn, previous_teardown).                   *)
CredentialsRight == []OutgoingAuthentic /\ MoveTearsDown
=============================================================================
