------------------------------- MODULE Gateway -------------------------------
(***************************************************************************)
(* The AMT gateway's protocol state (gateway::Gateway): which relay it     *)
(* asks, the nonces of its open exchanges, the session a Membership Query  *)
(* opened, and the memberships it reported.  Pure operators on a record,   *)
(* one per method; the loops that drive a gateway are in other modules.    *)
(*                                                                         *)
(* An Option is a set of at most one element.  A response MAC is whatever  *)
(* value the relay put into its Membership Query.                          *)
(***************************************************************************)
EXTENDS RelayState, SequencesExt

CONSTANTS RelayAddr,  \* socket addresses of relays
          Family,     \* [RelayAddr -> address family]
          Unusable,   \* relay addresses that are unspecified, multicast or broadcast
          Nonce       \* the nonces the gateway draws

ASSUME FamilyAssumption == Unusable \subseteq RelayAddr /\ DOMAIN Family = RelayAddr
-----------------------------------------------------------------------------
(* AMT messages.                                                           *)

Discovery(nonce) == [kind |-> "Discovery", nonce |-> nonce]
Advertisement(nonce, address) ==
  [kind |-> "Advertisement", nonce |-> nonce, address |-> address]
Request(nonce) == [kind |-> "Request", nonce |-> nonce]
Query(nonce, mac, limit, gateway, interval) ==
  [kind |-> "Query", nonce |-> nonce, mac |-> mac, limit |-> limit,
   gateway |-> gateway, interval |-> interval]
Update(nonce, mac, report) ==
  [kind |-> "Update", nonce |-> nonce, mac |-> mac, report |-> report]
Teardown(nonce, mac, gateway) ==
  [kind |-> "Teardown", nonce |-> nonce, mac |-> mac, gateway |-> gateway]
-----------------------------------------------------------------------------
(* Configuration and creation.                                             *)

SameFamily(a, b) == Family[a] = Family[b]

(* The first occurrence of every element. *)
Distinct(seq) ==
  LET Add(kept, x) == IF Contains(kept, x) THEN kept ELSE Append(kept, x)
  IN  FoldLeft(Add, <<>>, seq)

(* GatewayConfig::with_fallback_relays. *)
WithFallbackRelays(relay, relays) ==
  LET Usable(r) == r # relay /\ SameFamily(r, relay)
  IN  Distinct(SelectSeq(relays, Usable))

(* Gateway::new. *)
NewGateway(relay, relays, discovery_nonce, request_nonce) ==
  LET fallback == WithFallbackRelays(relay, relays)
  IN  [relay |-> relay, fallback |-> fallback, candidates |-> <<relay>> \o fallback,
       discovery_nonce |-> discovery_nonce, request_nonce |-> request_nonce,
       phase |-> "Discovering", endpoint |-> {}, session |-> {},
       reception |-> EmptyMap]

IsEstablished(gw) == gw.phase = "Established" /\ gw.session # {}
IsAwaitingQuery(gw) == gw.phase = "AwaitingMembershipQuery"
HasReported(gw) == \E s \in gw.session : s.reported
-----------------------------------------------------------------------------
(* Sending on its own account.                                             *)

(* Gateway::begin_query_cycle.  The session stays usable while the answer is *)
(* awaited.                                                                  *)
BeginQueryCycle(gw, fresh) ==
  [gw EXCEPT !.request_nonce = fresh, !.phase = "AwaitingMembershipQuery"]

(* Mutant: the relay that did not answer is forgotten. *)
RestartForgetsRelay(gw, discovery_nonce, request_nonce) ==
  [gw EXCEPT
     !.relay = IF gw.fallback = <<>> THEN @ ELSE Head(gw.fallback),
     !.fallback = IF @ = <<>> THEN @ ELSE Tail(@),
     !.discovery_nonce = discovery_nonce, !.request_nonce = request_nonce,
     !.phase = "Discovering", !.endpoint = {}, !.session = {}]

(* Mutant: the relay that did not answer is the next one again. *)
RestartSwaps(gw, discovery_nonce, request_nonce) ==
  LET retired == IF Contains(gw.candidates, gw.relay) THEN <<gw.relay>> ELSE <<>>
  IN  [gw EXCEPT
         !.relay = IF gw.fallback = <<>> THEN @ ELSE Head(gw.fallback),
         !.fallback = IF @ = <<>> THEN @ ELSE retired \o Tail(@),
         !.discovery_nonce = discovery_nonce, !.request_nonce = request_nonce,
         !.phase = "Discovering", !.endpoint = {}, !.session = {}]

(* Gateway::restart_discovery: on to the next candidate.  The current one    *)
(* goes to the back of the list, unless it was retired.  What was reported   *)
(* is remembered, the session is not.                                        *)
RestartDiscovery(gw, discovery_nonce, request_nonce) ==
  LET retired == IF Contains(gw.candidates, gw.relay) THEN <<gw.relay>> ELSE <<>>
  IN  [gw EXCEPT
         !.relay = IF gw.fallback = <<>> THEN @ ELSE Head(gw.fallback),
         !.fallback = IF @ = <<>> THEN @ ELSE Tail(@) \o retired,
         !.discovery_nonce = discovery_nonce, !.request_nonce = request_nonce,
         !.phase = "Discovering", !.endpoint = {}, !.session = {}]

(* Gateway::replace_relay_candidates: the relay in use stays. *)
ReplaceRelayCandidates(gw, relays) ==
  LET Usable(r) == SameFamily(r, gw.relay)
      Other(r) == r # gw.relay
      candidates == Distinct(SelectSeq(relays, Usable))
  IN  IF candidates = <<>> THEN gw
      ELSE IF candidates = gw.candidates THEN gw
      ELSE [gw EXCEPT !.candidates = candidates,
                      !.fallback = SelectSeq(candidates, Other)]
-----------------------------------------------------------------------------
(* Receiving.  A message that is not accepted is an error: it is counted and *)
(* dropped.                                                                  *)

FromExpectedPeer(gw, peer) ==
  IF gw.endpoint = {} THEN peer = gw.relay ELSE gw.endpoint = {peer}

AcceptsAdvertisement(gw, peer, msg) ==
  /\ FromExpectedPeer(gw, peer)
  /\ gw.phase = "Discovering"
  /\ msg.nonce = gw.discovery_nonce
  /\ msg.address \notin Unusable
  /\ SameFamily(msg.address, peer)

AfterAdvertisement(gw, msg) ==
  [gw EXCEPT !.endpoint = {msg.address}, !.phase = "AwaitingMembershipQuery"]

(* The nonce a Membership Query must carry: that of the open exchange, or,   *)
(* for a repeated Query, that of the session.                                *)
ExpectedNonce(gw) ==
  IF IsAwaitingQuery(gw) THEN {gw.request_nonce}
  ELSE IF gw.phase = "Established" THEN {s.nonce : s \in gw.session}
  ELSE {}

AcceptsQuery(gw, peer, msg) ==
  /\ FromExpectedPeer(gw, peer)
  /\ gw.endpoint # {}
  /\ msg.nonce \in ExpectedNonce(gw)

(* Mutant: the old address is torn down with the new session's MAC. *)
PreviousTeardownNewMac(gw, msg) ==
  UNION {{Teardown(msg.nonce, msg.mac, old) : old \in s.gateway} :
           s \in {t \in gw.session : t.gateway # msg.gateway}}

(* The Teardown owed for the address the gateway had before, if it moved. *)
PreviousTeardown(gw, msg) ==
  UNION {{Teardown(s.nonce, s.mac, old) : old \in s.gateway} :
           s \in {t \in gw.session : t.gateway # msg.gateway}}

AfterQuery(gw, msg) ==
  [gw EXCEPT
     !.session = {[mac |-> msg.mac, nonce |-> msg.nonce, gateway |-> msg.gateway,
                   reported |-> \E s \in gw.session :
                                  s.gateway = msg.gateway /\ s.reported]},
     !.phase = "Established"]

(* Multicast Data is taken from the relay of a session, and passed on if the *)
(* memberships reported last ask for it.                                     *)
AcceptsData(gw, peer, group, source) ==
  /\ FromExpectedPeer(gw, peer)
  /\ gw.endpoint # {}
  /\ gw.session # {}
  /\ group \in DOMAIN gw.reception
  /\ WantsSource(gw.reception[group], source)
-----------------------------------------------------------------------------
(* Memberships.                                                            *)

(* Gateway::membership_update; it needs a relay and a session. *)
CanUpdate(gw) == gw.endpoint # {} /\ gw.session # {}

AfterUpdate(gw, report) ==
  LET reception == ApplyRecords(gw.reception, report)
  IN  [gw EXCEPT !.reception = reception,
                 !.session = {[s EXCEPT !.reported = reception # EmptyMap] : s \in @}]

UpdateMessage(gw, report) ==
  LET s == CHOOSE x \in gw.session : TRUE IN Update(s.nonce, s.mac, report)

(* The records that state a complete set of interests. *)
StateRecord(group, interest) ==
  [kind |-> IF interest.mode = "Include" THEN "ModeIsInclude" ELSE "ModeIsExclude",
   group |-> group, sources |-> interest.sources]

StateReport(interests) ==
  LET groups == SetToSeq(DOMAIN interests)
  IN  [n \in DOMAIN groups |-> StateRecord(groups[n], interests[groups[n]])]

LeaveRecord(group) == [kind |-> "ChangeToInclude", group |-> group, sources |-> {}]

(* Mutant: only what changed since the last report is sent. *)
ReplacementDelta(gw, interests) ==
  LET changed == {g \in DOMAIN interests :
                    ~(g \in DOMAIN gw.reception /\ gw.reception[g] = interests[g])}
      leaves == SetToSeq(DOMAIN gw.reception \ DOMAIN interests)
  IN  StateReport([g \in changed |-> interests[g]])
        \o [n \in DOMAIN leaves |-> LeaveRecord(leaves[n])]

(* Gateway::replace_memberships: the state wanted now, and a leave for every *)
(* group reported before and wanted no more.  An empty report is not sent.   *)
ReplacementReport(gw, interests) ==
  LET leaves == SetToSeq(DOMAIN gw.reception \ DOMAIN interests)
  IN  StateReport(interests) \o [n \in DOMAIN leaves |-> LeaveRecord(leaves[n])]

(* Gateway::teardown. *)
TeardownMessages(gw) ==
  IF gw.endpoint = {} THEN {}
  ELSE UNION {{Teardown(s.nonce, s.mac, a) : a \in s.gateway} : s \in gw.session}
=============================================================================
