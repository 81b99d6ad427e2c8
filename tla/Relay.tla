-------------------------------- MODULE Relay --------------------------------
(***************************************************************************)
(* The AMT relay's control plane: relay::Relay and the part of             *)
(* daemon::run_relay that drives it.  Each datagram is handled by one      *)
(* action, as in the single relay thread: rotate the secret if it is due,  *)
(* decide (prepare_datagram), reconcile the native subscriptions with the  *)
(* candidate state, and only then commit it.                               *)
(*                                                                         *)
(* Time.  The code only looks at how long ago something happened.  Every   *)
(* Instant is therefore the time elapsed since it, in ticks, and stops     *)
(* growing once it is past every bound it is compared with.                *)
(*                                                                         *)
(* Response MACs.  A MAC is the pair of the secret and the address it was  *)
(* computed from; a MAC made from other inputs is a different pair.  The   *)
(* request nonce is a third input that both messages carry along: a nonce  *)
(* other than the MAC's own makes the MAC a wrong one.                     *)
(***************************************************************************)
EXTENDS RelayState

CONSTANTS Wire,             \* [Endpoint -> Endpoint], see below
          Report,           \* the well-formed reports gateways may send
          Ecn,              \* config.ecn
          RefuseNew,        \* config.limit
          QueryInterval,    \* the advertised query interval
          RotationInterval, \* secret_rotation_interval, or Never
          IdleTimeout,      \* gateway_idle_timeout, or Never
          PruneInterval,    \* gateway_prune_interval
          Never,
          MaxSecret         \* bound: secrets generated after the first

(* Wire[e] is the endpoint a Teardown for e names: the 16 address octets of *)
(* e read back as an address (12 leading zero octets mean IPv4) and a       *)
(* SocketAddr without IPv6 scope built from it.                             *)
ASSUME WireAssumption ==
         /\ Wire \in [Endpoint -> Endpoint]
         /\ \A e \in Endpoint : Wire[Wire[e]] = Wire[e]
ASSUME ReportAssumption == Report \subseteq Seq(MembershipRecord)
ASSUME ConfigAssumption ==
         /\ Ecn \in BOOLEAN
         /\ RefuseNew \in BOOLEAN
         /\ QueryInterval \in Nat
         /\ Never \notin Nat
         /\ RotationInterval \in Nat \cup {Never}
         /\ IdleTimeout \in Nat \cup {Never}
         /\ PruneInterval \in Nat
         /\ MaxSecret \in Nat

VARIABLES state,       \* Relay.state
          keys,        \* Relay.config.secret, secret_rotated_at, previous_secret
          ecn,         \* Relay.gateway_ecn_capabilities
          seen,        \* GatewayActivity.last_seen
          sincePrune,  \* run_relay's last_gateway_prune
          active,      \* UpstreamManager.active
          lastSync,    \* how the last reconcile ended
          issued       \* MACs in gateways' hands, and how long ago each was last sent

vars == <<state, keys, ecn, seen, sincePrune, active, lastSync, issued>>
-----------------------------------------------------------------------------
(* Elapsed time.                                                           *)

(* How long the previous secret, and an ECN capability, stay valid. *)
Grace == 2 * QueryInterval

(* The timers: how far each has to count. *)
KeyHorizon == IF RotationInterval = Never THEN 0 ELSE RotationInterval
SeenHorizon == IF IdleTimeout = Never THEN 0 ELSE IdleTimeout
MacHorizon == IF RotationInterval = Never THEN 0 ELSE Grace + 1

Older(elapsed, horizon) == IF elapsed < horizon THEN elapsed + 1 ELSE elapsed
AllOlder(ages, horizon) == [x \in DOMAIN ages |-> Older(ages[x], horizon)]

Secret == 0..MaxSecret
Mac == [gateway : Endpoint, secret : Secret]
-----------------------------------------------------------------------------
TypeOK ==
  /\ state.endpoints \in Endpoints
  /\ state = RebuildIndexes(state.endpoints)
  /\ keys \in [secret : Secret, age : 0..KeyHorizon,
               previous : SUBSET [secret : Secret, age : 0..(Grace + 1)]]
  /\ ecn \in Maps(Endpoint, 0..(Grace + 1))
  /\ seen \in Maps(Endpoint, 0..SeenHorizon)
  /\ sincePrune \in 0..PruneInterval
  /\ active \subseteq UpstreamSubscription
  /\ lastSync \in {"ok", "leave failed", "join failed"}
  /\ issued \in Maps(Mac, 0..MacHorizon)

Init ==
  /\ state = EmptyRelayState
  /\ keys = [secret |-> 0, age |-> 0, previous |-> {}]
  /\ ecn = EmptyMap
  /\ seen = EmptyMap
  /\ sincePrune = 0
  /\ active = {}
  /\ lastSync = "ok"
  /\ issued = EmptyMap
-----------------------------------------------------------------------------
(* Secrets.                                                                *)

(* Mutant: the next rotation does not wait for the grace period to end. *)
RotationDueInGrace ==
  /\ RotationInterval # Never
  /\ keys.age >= RotationInterval
  /\ keys.secret < MaxSecret

RotationDue ==
  /\ RotationInterval # Never
  /\ keys.age >= RotationInterval
  /\ \A p \in keys.previous : p.age > Grace
  /\ keys.secret < MaxSecret

(* Relay::rotate_secret_if_due, the first thing done with any datagram.     *)
(* When the system has no randomness to give, the secret stays.             *)
RotateSecretIfDue ==
  \/ /\ RotationDue
     /\ keys' = [secret |-> keys.secret + 1, age |-> 0,
                 previous |-> {[secret |-> keys.secret, age |-> 0]}]
  \/ keys' = keys

ResponseMac(ks, endpoint) == [gateway |-> Wire[endpoint], secret |-> ks.secret]

(* Mutant: the previous secret stays valid until the next rotation. *)
ValidMacForever(ks, mac, endpoint) ==
  /\ mac.gateway = Wire[endpoint]
  /\ \/ mac.secret = ks.secret
     \/ \E p \in ks.previous : mac.secret = p.secret

(* Relay::valid_response_mac. *)
ValidResponseMac(ks, mac, endpoint) ==
  /\ mac.gateway = Wire[endpoint]
  /\ \/ mac.secret = ks.secret
     \/ \E p \in ks.previous : p.age <= Grace /\ mac.secret = p.secret
-----------------------------------------------------------------------------
(* ECN capabilities.                                                       *)

(* Relay::remember_gateway_ecn_capability. *)
RememberEcn(peer, capable) ==
  LET fresh == RemoveAll(ecn, {e \in DOMAIN ecn : ecn[e] > Grace})
  IN  IF ~Ecn \/ ~capable THEN RemoveAll(fresh, {peer})
      ELSE IF \/ peer \in DOMAIN fresh
              \/ Cardinality(DOMAIN fresh) < Limits.max_endpoints
           THEN Insert(fresh, peer, 0)
           ELSE fresh
-----------------------------------------------------------------------------
(* The native subscriptions.                                               *)

(* Mutant: stale subscriptions are left before the missing ones are joined. *)
ReconcileFailsAfterLeaving(desired) ==
  /\ desired \ active # {}
  /\ active' = active \cap desired
  /\ lastSync' = "join failed"

(* UpstreamManager::reconcile and sync_upstream.  Missing subscriptions are *)
(* joined first; if one fails, those already added are rolled back and      *)
(* nothing is removed.  Then stale ones are left; those whose leave fails   *)
(* stay active.                                                             *)
ReconcileFails(desired) ==
  /\ desired \ active # {}
  /\ active' = active
  /\ lastSync' = "join failed"

ReconcileSucceeds(desired) ==
  \E stuck \in SUBSET (active \ desired) :
    /\ active' = desired \cup stuck
    /\ lastSync' = IF stuck = {} THEN "ok" ELSE "leave failed"
-----------------------------------------------------------------------------
(* Datagrams.                                                              *)

RefusingNewEndpoint(peer) ==
  \/ RefuseNew
  \/ IsNearLimits(state)
  \/ NearLimit(EndpointCountForIp(state, IpOf[peer]), Limits.max_endpoints_per_ip)

MarkSeen(endpoint) == seen' = Insert(seen, endpoint, 0)
MarkSeenIfKnown(endpoint) ==
  IF endpoint \in DOMAIN state.endpoints THEN MarkSeen(endpoint) ELSE UNCHANGED seen

(* Mutant: the sender is marked as seen whether or not it has state. *)
CandidateRejectedMarks(peer, candidate) ==
  /\ ReconcileFails(candidate.subscriptions)
  /\ MarkSeen(peer)
  /\ UNCHANGED state

(* A candidate state is reconciled, then committed; if the native joins      *)
(* fail it is dropped, and the sender is only marked as seen.                *)
CandidateRejected(peer, candidate) ==
  /\ ReconcileFails(candidate.subscriptions)
  /\ MarkSeenIfKnown(peer)
  /\ UNCHANGED state

CandidateCommitted(candidate) ==
  /\ ReconcileSucceeds(candidate.subscriptions)
  /\ state' = candidate

(* Relay Discovery, and every datagram that is undecodable or not for a      *)
(* relay: nothing but the rotation changes.                                  *)
HandleStateless ==
  /\ RotateSecretIfDue
  /\ UNCHANGED <<state, ecn, seen, sincePrune, active, lastSync, issued>>

(* Request, answered with a Membership Query that carries a fresh MAC. *)
HandleRequest(peer, capable) ==
  /\ RotateSecretIfDue
  /\ ecn' = RememberEcn(peer, capable)
  /\ issued' = Insert(issued, ResponseMac(keys', peer), 0)
  /\ UNCHANGED <<state, seen, sincePrune, active, lastSync>>

(* Is a Membership Update let through to the membership state? *)
UpdateAdmitted(peer, mac, report) ==
  /\ ValidResponseMac(keys', mac, peer)
  /\ peer \in DOMAIN state.endpoints \/ ~RefusingNewEndpoint(peer)
  /\ ReportWithinLimits(report)

(* A Membership Update with a bad MAC, from a new endpoint while the relay   *)
(* refuses them, malformed or over a limit: nothing changes.                 *)
UpdateDropped(peer, mac, report) ==
  /\ \/ ~UpdateAdmitted(peer, mac, report)
     \/ /\ ReportChanges(state, peer, report)
        /\ ~CandidateWithinLimits(ApplyReport(state, peer, report), peer)
  /\ UNCHANGED <<state, seen, active, lastSync>>

(* An Update that leaves the state as it is, typically a refresh. *)
UpdateRefreshes(peer, mac, report) ==
  /\ UpdateAdmitted(peer, mac, report)
  /\ ~ReportChanges(state, peer, report)
  /\ IF peer \in DOMAIN state.endpoints
     THEN MarkSeen(peer) ELSE seen' = RemoveAll(seen, {peer})
  /\ UNCHANGED <<state, active, lastSync>>

UpdateApplies(peer, mac, report) ==
  LET candidate == ApplyReport(state, peer, report)
  IN  /\ UpdateAdmitted(peer, mac, report)
      /\ ReportChanges(state, peer, report)
      /\ CandidateWithinLimits(candidate, peer)
      /\ \/ CandidateRejected(peer, candidate)
         \/ /\ CandidateCommitted(candidate)
            /\ IF peer \in DOMAIN candidate.endpoints
               THEN MarkSeen(peer) ELSE seen' = RemoveAll(seen, {peer})

HandleUpdate(peer, mac, report) ==
  /\ RotateSecretIfDue
  /\ \/ UpdateDropped(peer, mac, report)
     \/ UpdateRefreshes(peer, mac, report)
     \/ UpdateApplies(peer, mac, report)
  /\ UNCHANGED <<ecn, sincePrune, issued>>

(* Teardown of the endpoint named in it, which need not be the sender's.     *)
(* The ECN capability goes as soon as the MAC is found valid.                *)
TeardownApplies(peer, endpoint) ==
  LET candidate == RemoveEndpoints(state, {endpoint})
  IN  /\ ecn' = RemoveAll(ecn, {endpoint})
      /\ \/ /\ endpoint \notin DOMAIN state.endpoints
            /\ seen' = RemoveAll(seen, {endpoint})
            /\ UNCHANGED <<state, active, lastSync>>
         \/ /\ endpoint \in DOMAIN state.endpoints
            /\ CandidateRejected(peer, candidate)
         \/ /\ endpoint \in DOMAIN state.endpoints
            /\ CandidateCommitted(candidate)
            /\ seen' = RemoveAll(seen, {endpoint})

HandleTeardown(peer, gateway, mac) ==
  /\ RotateSecretIfDue
  /\ IF ValidResponseMac(keys', mac, gateway)
     THEN TeardownApplies(peer, Wire[gateway])
     ELSE UNCHANGED <<state, seen, active, lastSync, ecn>>
  /\ UNCHANGED <<sincePrune, issued>>
-----------------------------------------------------------------------------
(* Maintenance.                                                            *)

StaleEndpoints ==
  IF IdleTimeout = Never THEN {}
  ELSE {e \in DOMAIN seen : seen[e] >= IdleTimeout}

(* Mutant: the timers of silent gateways go, their memberships stay. *)
PruneTimersOnly ==
  /\ sincePrune >= PruneInterval
  /\ sincePrune' = 0
  /\ seen' = RemoveAll(seen, StaleEndpoints)
  /\ ecn' = RemoveAll(ecn, StaleEndpoints)
  /\ UNCHANGED <<state, active, lastSync, keys, issued>>

(* Mutant: a prune leaves the subscriptions to the next Update. *)
PruneUnsynced ==
  /\ sincePrune >= PruneInterval
  /\ sincePrune' = 0
  /\ seen' = RemoveAll(seen, StaleEndpoints)
  /\ ecn' = RemoveAll(ecn, StaleEndpoints)
  /\ state' = RemoveEndpoints(state, StaleEndpoints)
  /\ UNCHANGED <<keys, issued, active, lastSync>>

(* run_relay, when the prune interval has passed: idle gateways go, and the  *)
(* subscriptions are reconciled with whatever is left, which also retries    *)
(* what failed before.  A failure here is only logged.                       *)
Prune ==
  LET pruned == RemoveEndpoints(state, StaleEndpoints)
  IN  /\ sincePrune >= PruneInterval
      /\ sincePrune' = 0
      /\ seen' = RemoveAll(seen, StaleEndpoints)
      /\ ecn' = RemoveAll(ecn, StaleEndpoints)
      /\ state' = pruned
      /\ ReconcileFails(pruned.subscriptions) \/ ReconcileSucceeds(pruned.subscriptions)
      /\ UNCHANGED <<keys, issued>>

(* One tick of the clock. *)
Tick ==
  /\ keys' = [keys EXCEPT !.age = Older(@, KeyHorizon),
                          !.previous = {[p EXCEPT !.age = Older(@, Grace + 1)] : p \in @}]
  /\ ecn' = AllOlder(ecn, Grace + 1)
  /\ seen' = AllOlder(seen, SeenHorizon)
  /\ sincePrune' = Older(sincePrune, PruneInterval)
  /\ issued' = AllOlder(issued, MacHorizon)
  /\ UNCHANGED <<state, active, lastSync>>
-----------------------------------------------------------------------------
Next ==
  \/ HandleStateless
  \/ \E peer \in Endpoint, capable \in BOOLEAN : HandleRequest(peer, capable)
  \/ \E peer \in Endpoint, mac \in DOMAIN issued, report \in Report :
       HandleUpdate(peer, mac, report)
  \/ \E peer, gateway \in Endpoint, mac \in DOMAIN issued :
       HandleTeardown(peer, gateway, mac)
  \/ Prune
  \/ Tick

Spec == Init /\ [][Next]_vars

(* Nothing ages any more. *)
TimeStands ==
  /\ keys.age = Older(keys.age, KeyHorizon)
  /\ \A p \in keys.previous : p.age = Older(p.age, Grace + 1)
  /\ ecn = AllOlder(ecn, Grace + 1) /\ seen = AllOlder(seen, SeenHorizon)
  /\ sincePrune = Older(sincePrune, PruneInterval) /\ issued = AllOlder(issued, MacHorizon)

(* Weak fairness of Prune and Tick, with their guards written out: the relay *)
(* thread keeps running its loop and time passes.                            *)
FairSpec ==
  /\ Spec
  /\ []<>(sincePrune < PruneInterval) \/ []<><<Prune>>_vars
  /\ []<>TimeStands \/ []<><<Tick>>_vars
-----------------------------------------------------------------------------
(* Properties.                                                             *)

(* Every packet that some gateway's accepted membership asks for is covered *)
(* by a native subscription that is really active, whatever joins and       *)
(* leaves failed on the way (UpstreamManager::reconcile adds before it      *)
(* removes; run_relay commits a prune even when its reconcile fails).       *)
Coverage ==
  \A e \in DOMAIN state.endpoints : \A g \in DOMAIN state.endpoints[e] :
    \A s \in Source :
      WantsSource(state.endpoints[e][g], s) => Asm(g) \in active \/ Ssm(g, s) \in active

(* The idle timers run for exactly the endpoints that hold membership       *)
(* state.  An endpoint without one would never expire; a timer without an   *)
(* endpoint would be counted as an active gateway (GatewayActivity is kept  *)
(* apart from RelayState and updated after it, on every path).              *)
ActivityMatchesState == DOMAIN seen = DOMAIN state.endpoints

(* When the last reconcile went through completely, the native              *)
(* subscriptions are those of the live state, neither more nor fewer        *)
(* (handle_amt_datagram reconciles with a candidate, run_relay with the     *)
(* pruned state).                                                           *)
SyncedExactly ==
  /\ lastSync = "ok" => active = state.subscriptions
  /\ lastSync = "leave failed" => state.subscriptions \subseteq active

(* The indexes say what the endpoints say: a packet goes to exactly the     *)
(* endpoints that want it, and a group's aggregate interest asks for        *)
(* exactly the sources that somebody is to get (rebuild_indexes,            *)
(* GroupSummary, matching_endpoints).                                       *)
ForwardingExact ==
  \A g \in Group, s \in Source :
    LET wanting == {e \in Members(state.endpoints, g) :
                      WantsSource(state.endpoints[e][g], s)}
    IN  /\ MatchingEndpoints(state, s, g) = wanting
        /\ wanting # {} <=> /\ g \in DOMAIN state.aggregate
                            /\ WantsSource(state.aggregate[g], s)

(* The state never exceeds a configured limit, though limits are checked    *)
(* only for the endpoint that an update comes from (apply_report_limited).  *)
(* The limit on subscriptions is not among them: see the README.            *)
WithinLimits ==
  /\ Cardinality(DOMAIN state.endpoints) <= Limits.max_endpoints
  /\ \A ip \in Ip : EndpointCountForIp(state, ip) <= Limits.max_endpoints_per_ip
  /\ \A e \in DOMAIN state.endpoints :
       /\ Cardinality(DOMAIN state.endpoints[e]) <= Limits.max_groups_per_endpoint
       /\ \A g \in DOMAIN state.endpoints[e] :
            Cardinality(state.endpoints[e][g].sources) <= Limits.max_sources_per_group
  /\ state.total_endpoint_groups <= Limits.max_total_endpoint_groups
  /\ state.total_sources <= Limits.max_total_sources

(* A MAC sent in a Membership Query is honoured for the two query intervals *)
(* that follow, whenever the secret rotates: neither by the rotation that   *)
(* handling the next datagram may cause, nor by a second one, is it lost    *)
(* (rotate_secret_if_due, valid_response_mac).                              *)
MacHonoured ==
  \A mac \in DOMAIN issued :
    issued[mac] <= Grace =>
      \/ mac.secret = keys.secret
      \/ /\ \E p \in keys.previous : p.age <= Grace /\ mac.secret = p.secret
         /\ ~RotationDue

(* The table of ECN capable gateways never outgrows the endpoint limit      *)
(* (remember_gateway_ecn_capability), and Requests are not authenticated.   *)
EcnTableBounded == Cardinality(DOMAIN ecn) <= Limits.max_endpoints

(* What the relay holds for an endpoint only ever changes by a message with *)
(* a MAC that was sent to that endpoint's address and computed with the     *)
(* current secret or one rotated out at most two query intervals ago, or    *)
(* because the endpoint was silent for the idle timeout (prepare_datagram,  *)
(* prune_stale_gateways).                                                   *)
MembershipAuthenticated ==
  [][\A e \in Endpoint :
       Groups(state', e) # Groups(state, e) =>
         \/ IdleTimeout # Never /\ e \in DOMAIN seen /\ seen[e] >= IdleTimeout
         \/ \E mac \in DOMAIN issued :
              /\ mac.gateway = Wire[e]
              /\ \/ mac.secret = keys'.secret
                 \/ \E p \in keys'.previous : p.age <= Grace /\ mac.secret = p.secret]_vars

(* A gateway that falls silent does not keep its state: again and again it  *)
(* is either gone or has just been heard (prune_stale_gateways).            *)
SilentGatewayExpires ==
  \A e \in Endpoint :
    []<>(e \in DOMAIN state.endpoints => e \in DOMAIN seen /\ seen[e] = 0)
=============================================================================
