----------------------------- MODULE RelayProofs -----------------------------
(***************************************************************************)
(* Theorems about the relay's control plane, for every set of endpoints,   *)
(* groups, sources and reports, every setting of the limits and timers,    *)
(* and joins and leaves that fail at any time.                             *)
(***************************************************************************)
EXTENDS RelayRefinement, RelayStateProofs
-----------------------------------------------------------------------------
(* Timers.                                                                 *)

(* The horizons the timers count to are natural numbers. *)
LEMMA Horizons ==
  /\ Grace \in Nat
  /\ KeyHorizon \in Nat
  /\ SeenHorizon \in Nat
  /\ MacHorizon \in Nat
  BY ConfigAssumption DEF Grace, KeyHorizon, SeenHorizon, MacHorizon

(* One tick keeps a timer within its horizon. *)
LEMMA OlderType ==
  ASSUME NEW h \in Nat, NEW t \in 0..h
  PROVE  Older(t, h) \in 0..h
  BY DEF Older

(* One tick keeps a table of timers a table of timers. *)
LEMMA AllOlderType ==
  ASSUME NEW A, NEW h \in Nat, NEW f \in Maps(A, 0..h)
  PROVE  AllOlder(f, h) \in Maps(A, 0..h) /\ DOMAIN AllOlder(f, h) = DOMAIN f
<1>1. DOMAIN f \in SUBSET A /\ \A x \in DOMAIN f : f[x] \in 0..h
  BY MapsElement
<1>2. \A x \in DOMAIN f : Older(f[x], h) \in 0..h
  BY <1>1, OlderType
<1>3. AllOlder(f, h) \in [DOMAIN f -> 0..h] /\ DOMAIN AllOlder(f, h) = DOMAIN f
  BY <1>2 DEF AllOlder
<1> QED
  BY <1>1, <1>3, MapsElement
-----------------------------------------------------------------------------
(* The steps, by what they do to the memberships and the subscriptions.    *)

(* A membership state as the relay keeps it. *)
Sound(st) == st.endpoints \in Endpoints /\ st = RebuildIndexes(st.endpoints)

(* The native subscriptions after an attempt to reconcile them. *)
LEMMA ReconcileType ==
  ASSUME active \subseteq UpstreamSubscription, NEW desired,
         desired \subseteq UpstreamSubscription,
         ReconcileFails(desired) \/ ReconcileSucceeds(desired)
  PROVE  /\ active' \subseteq UpstreamSubscription
         /\ lastSync' \in {"ok", "leave failed", "join failed"}
  BY DEF ReconcileFails, ReconcileSucceeds

(* A sound state asks for subscriptions only (UpstreamSubscription). *)
LEMMA SoundSubscriptions ==
  ASSUME NEW st, Sound(st)
  PROVE  st.subscriptions \subseteq UpstreamSubscription
  BY SubscriptionsType DEF Sound

(* RelayState::apply_report leads from a sound state to a sound state. *)
LEMMA SoundApply ==
  ASSUME TypeOK, NEW peer \in Endpoint, NEW report \in Report
  PROVE  Sound(ApplyReport(state, peer, report))
  BY ApplyReportType, ReportAssumption DEF TypeOK, Sound

(* RelayState::remove_endpoints leads from a sound state to a sound state. *)
LEMMA SoundRemove ==
  ASSUME TypeOK, NEW K
  PROVE  Sound(RemoveEndpoints(state, K))
  BY RemoveEndpointsType DEF TypeOK, Sound

(* Removing endpoints leaves the others as they were. *)
LEMMA RemovedOnly ==
  ASSUME TypeOK, NEW K
  PROVE  LET next == RemoveEndpoints(state, K)
         IN  /\ DOMAIN next.endpoints = DOMAIN state.endpoints \ K
             /\ \A e \in DOMAIN next.endpoints : next.endpoints[e] = state.endpoints[e]
  BY RemoveEndpointsType DEF TypeOK

(* A report changes the state of its sender only. *)
LEMMA AppliedOnly ==
  ASSUME TypeOK, NEW peer \in Endpoint, NEW report \in Report
  PROVE  LET next == ApplyReport(state, peer, report)
         IN  \A e \in Endpoint \ {peer} :
               /\ e \in DOMAIN next.endpoints <=> e \in DOMAIN state.endpoints
               /\ e \in DOMAIN state.endpoints => next.endpoints[e] = state.endpoints[e]
<1>1. state.endpoints \in Endpoints /\ state = RebuildIndexes(state.endpoints)
  BY DEF TypeOK
<1>2. report \in Seq(MembershipRecord)
  BY ReportAssumption
<1> QED
  BY <1>1, <1>2, ApplyReportType

(* Marking an endpoint as seen keeps the table of idle timers well formed. *)
LEMMA SeenInsert ==
  ASSUME TypeOK, NEW e \in Endpoint
  PROVE  Insert(seen, e, 0) \in Maps(Endpoint, 0..SeenHorizon)
<1>1. 0 \in 0..SeenHorizon
  BY Horizons
<1>2. seen \in Maps(Endpoint, 0..SeenHorizon)
  BY DEF TypeOK
<1> QED
  BY <1>1, <1>2, InsertMap

(* So does forgetting some endpoints. *)
LEMMA SeenRemove ==
  ASSUME TypeOK, NEW K
  PROVE  RemoveAll(seen, K) \in Maps(Endpoint, 0..SeenHorizon)
  BY RemoveMap DEF TypeOK

(* Forgetting some endpoints keeps the table of ECN capabilities well formed. *)
LEMMA EcnRemove ==
  ASSUME NEW f \in Maps(Endpoint, 0..(Grace + 1)), NEW K
  PROVE  RemoveAll(f, K) \in Maps(Endpoint, 0..(Grace + 1))
  BY RemoveMap

(* So does remember_gateway_ecn_capability. *)
LEMMA RememberEcnType ==
  ASSUME TypeOK, NEW peer \in Endpoint, NEW capable \in BOOLEAN
  PROVE  RememberEcn(peer, capable) \in Maps(Endpoint, 0..(Grace + 1))
<1> DEFINE M == Maps(Endpoint, 0..(Grace + 1))
           fresh == RemoveAll(ecn, {e \in DOMAIN ecn : ecn[e] > Grace})
<1>1. fresh \in M
  BY EcnRemove DEF TypeOK
<1> HIDE DEF fresh
<1>2. RemoveAll(fresh, {peer}) \in M
  BY <1>1, EcnRemove
<1>3. 0 \in 0..(Grace + 1)
  BY Horizons
<1>4. Insert(fresh, peer, 0) \in M
  BY <1>1, <1>3, InsertMap
<1> QED
  BY <1>1, <1>2, <1>4 DEF RememberEcn, fresh

(* rotate_secret_if_due leaves well-formed keys. *)
LEMMA RotateType ==
  ASSUME TypeOK, RotateSecretIfDue
  PROVE  keys' \in [secret : Secret, age : 0..KeyHorizon,
                    previous : SUBSET [secret : Secret, age : 0..(Grace + 1)]]
<1> DEFINE P == [secret : Secret, age : 0..(Grace + 1)]
<1>1. CASE keys' = keys
  BY <1>1 DEF TypeOK
<1>2. CASE RotationDue /\ keys' = [secret |-> keys.secret + 1, age |-> 0,
                                  previous |-> {[secret |-> keys.secret, age |-> 0]}]
  <2>1. keys.secret \in Secret /\ keys.secret + 1 \in Secret
    <3>1. keys.secret \in Secret
      BY DEF TypeOK
    <3>2. MaxSecret \in Nat /\ keys.secret < MaxSecret
      BY <1>2, ConfigAssumption DEF RotationDue
    <3> QED
      BY <3>1, <3>2 DEF Secret
  <2>2. 0 \in 0..KeyHorizon /\ 0 \in 0..(Grace + 1)
    BY Horizons
  <2>3. {[secret |-> keys.secret, age |-> 0]} \in SUBSET P
    BY <2>1, <2>2
  <2> QED
    BY <1>2, <2>1, <2>2, <2>3
<1> QED
  BY <1>1, <1>2 DEF RotateSecretIfDue

(* Every step leaves the memberships alone, or replaces them by a state whose *)
(* subscriptions have all been joined, or drops idle endpoints although the   *)
(* reconcile that goes with it failed.                                        *)
LEMMA MembershipStep ==
  ASSUME TypeOK, [Next]_vars
  PROVE  \/ UNCHANGED <<state, active, lastSync>>
         \/ UNCHANGED <<state, active>> /\ lastSync' = "join failed"
         \/ Sound(state') /\ ReconcileSucceeds(state'.subscriptions)
         \/ /\ state' = RemoveEndpoints(state, StaleEndpoints)
            /\ active' = active
            /\ lastSync' = "join failed"
<1>1. CASE HandleStateless
  BY <1>1 DEF HandleStateless
<1>2. ASSUME NEW peer \in Endpoint, NEW capable \in BOOLEAN, HandleRequest(peer, capable)
      PROVE  UNCHANGED <<state, active, lastSync>>
  BY <1>2 DEF HandleRequest
<1>3. ASSUME NEW peer \in Endpoint, NEW mac, NEW report \in Report,
             HandleUpdate(peer, mac, report)
      PROVE  \/ UNCHANGED <<state, active, lastSync>>
             \/ UNCHANGED <<state, active>> /\ lastSync' = "join failed"
             \/ Sound(state') /\ ReconcileSucceeds(state'.subscriptions)
  <2>1. CASE UpdateDropped(peer, mac, report) \/ UpdateRefreshes(peer, mac, report)
    BY <2>1 DEF UpdateDropped, UpdateRefreshes
  <2>2. CASE UpdateApplies(peer, mac, report)
    <3> DEFINE candidate == ApplyReport(state, peer, report)
    <3>1. CandidateRejected(peer, candidate) \/ CandidateCommitted(candidate)
      BY <2>2 DEF UpdateApplies
    <3>2. Sound(candidate)
      BY SoundApply
    <3> QED
      BY <3>1, <3>2 DEF CandidateRejected, CandidateCommitted, ReconcileFails
  <2> QED
    BY <1>3, <2>1, <2>2 DEF HandleUpdate
<1>4. ASSUME NEW peer \in Endpoint, NEW gateway \in Endpoint, NEW mac,
             HandleTeardown(peer, gateway, mac)
      PROVE  \/ UNCHANGED <<state, active, lastSync>>
             \/ UNCHANGED <<state, active>> /\ lastSync' = "join failed"
             \/ Sound(state') /\ ReconcileSucceeds(state'.subscriptions)
  <2> DEFINE candidate == RemoveEndpoints(state, {Wire[gateway]})
  <2>1. \/ UNCHANGED <<state, active, lastSync>>
        \/ CandidateRejected(peer, candidate)
        \/ CandidateCommitted(candidate)
    BY <1>4 DEF HandleTeardown, TeardownApplies
  <2>2. Sound(candidate)
    BY SoundRemove
  <2> QED
    BY <2>1, <2>2 DEF CandidateRejected, CandidateCommitted, ReconcileFails
<1>5. CASE Prune
  <2>1. Sound(RemoveEndpoints(state, StaleEndpoints))
    BY SoundRemove
  <2> QED
    BY <1>5, <2>1 DEF Prune, ReconcileFails
<1>6. CASE Tick
  BY <1>6 DEF Tick
<1>7. CASE UNCHANGED vars
  BY <1>7 DEF vars
<1> QED
  BY <1>1, <1>2, <1>3, <1>4, <1>5, <1>6, <1>7 DEF Next
-----------------------------------------------------------------------------
(* Type correctness.                                                       *)

(* A new relay is well formed. *)
LEMMA TypeInit == Init => TypeOK
<1> SUFFICES ASSUME Init PROVE TypeOK
  OBVIOUS
<1>1. state.endpoints \in Endpoints /\ state = RebuildIndexes(state.endpoints)
  BY EmptyRelayStateType DEF Init
<1>2. /\ ecn \in Maps(Endpoint, 0..(Grace + 1))
      /\ seen \in Maps(Endpoint, 0..SeenHorizon)
      /\ issued \in Maps(Mac, 0..MacHorizon)
  BY EmptyMapType DEF Init
<1>3. keys \in [secret : Secret, age : 0..KeyHorizon,
                previous : SUBSET [secret : Secret, age : 0..(Grace + 1)]]
  <2>1. 0 \in Secret /\ 0 \in 0..KeyHorizon
    BY Horizons, ConfigAssumption DEF Secret
  <2> QED
    BY <2>1 DEF Init
<1>4. sincePrune \in 0..PruneInterval
  BY ConfigAssumption DEF Init
<1> QED
  BY <1>1, <1>2, <1>3, <1>4 DEF Init, TypeOK

(* The memberships and subscriptions keep their type. *)
LEMMA MembershipType ==
  ASSUME TypeOK, [Next]_vars
  PROVE  /\ Sound(state')
         /\ active' \subseteq UpstreamSubscription
         /\ lastSync' \in {"ok", "leave failed", "join failed"}
<1>1. /\ Sound(state)
      /\ active \subseteq UpstreamSubscription
      /\ lastSync \in {"ok", "leave failed", "join failed"}
  BY DEF TypeOK, Sound
<1>2. CASE UNCHANGED <<state, active, lastSync>>
  BY <1>1, <1>2
<1>3. CASE UNCHANGED <<state, active>> /\ lastSync' = "join failed"
  BY <1>1, <1>3
<1>4. CASE Sound(state') /\ ReconcileSucceeds(state'.subscriptions)
  <2>1. state'.subscriptions \subseteq UpstreamSubscription
    BY <1>4, SoundSubscriptions
  <2> QED
    BY <1>1, <1>4, <2>1, ReconcileType
<1>5. CASE /\ state' = RemoveEndpoints(state, StaleEndpoints)
           /\ active' = active
           /\ lastSync' = "join failed"
  BY <1>1, <1>5, SoundRemove
<1> QED
  BY <1>2, <1>3, <1>4, <1>5, MembershipStep

(* The clocks, keys and MACs keep their type. *)
LEMMA TimerType ==
  ASSUME TypeOK, [Next]_vars
  PROVE  /\ keys' \in [secret : Secret, age : 0..KeyHorizon,
                       previous : SUBSET [secret : Secret, age : 0..(Grace + 1)]]
         /\ ecn' \in Maps(Endpoint, 0..(Grace + 1))
         /\ seen' \in Maps(Endpoint, 0..SeenHorizon)
         /\ sincePrune' \in 0..PruneInterval
         /\ issued' \in Maps(Mac, 0..MacHorizon)
<1> DEFINE K == [secret : Secret, age : 0..KeyHorizon,
                 previous : SUBSET [secret : Secret, age : 0..(Grace + 1)]]
           E == Maps(Endpoint, 0..(Grace + 1))
           S == Maps(Endpoint, 0..SeenHorizon)
           I == Maps(Mac, 0..MacHorizon)
           Goal == /\ keys' \in K /\ ecn' \in E /\ seen' \in S
                   /\ sincePrune' \in 0..PruneInterval /\ issued' \in I
<1>0. keys \in K /\ ecn \in E /\ seen \in S /\ sincePrune \in 0..PruneInterval /\ issued \in I
  BY DEF TypeOK
<1>k. RotateSecretIfDue => keys' \in K
  BY RotateType
<1>i. \A e \in Endpoint : Insert(seen, e, 0) \in S
  BY SeenInsert
<1>r. \A D : RemoveAll(seen, D) \in S
  BY SeenRemove
<1>e. \A D : RemoveAll(ecn, D) \in E
  BY <1>0, EcnRemove
<1> SUFFICES Goal
  OBVIOUS
<1> HIDE DEF K, E, S, I
<1>m. \A peer : peer \in Endpoint /\ MarkSeenIfKnown(peer) => seen' \in S
  BY <1>0, <1>i DEF MarkSeenIfKnown, MarkSeen
<1>1. CASE HandleStateless
  BY <1>0, <1>k, <1>1 DEF HandleStateless
<1>2. ASSUME NEW peer \in Endpoint, NEW capable \in BOOLEAN, HandleRequest(peer, capable)
      PROVE  Goal
  <2>1. keys' \in K
    BY <1>k, <1>2 DEF HandleRequest
  <2>2. ecn' \in E
    BY <1>2, RememberEcnType DEF HandleRequest, E
  <2>3. issued' \in I
    <3>1. ResponseMac(keys', peer) \in Mac
      BY <2>1, WireAssumption DEF ResponseMac, Mac, K
    <3>2. 0 \in 0..MacHorizon
      BY Horizons
    <3>3. Insert(issued, ResponseMac(keys', peer), 0) \in I
      BY <1>0, <3>1, <3>2, InsertMap DEF I
    <3> QED
      BY <1>2, <3>3 DEF HandleRequest
  <2> QED
    BY <1>0, <1>2, <2>1, <2>2, <2>3 DEF HandleRequest
<1>3. ASSUME NEW peer \in Endpoint, NEW mac, NEW report, HandleUpdate(peer, mac, report)
      PROVE  Goal
  <2>1. seen' \in S
    <3>1. CASE UpdateDropped(peer, mac, report)
      BY <1>0, <3>1 DEF UpdateDropped
    <3>2. CASE UpdateRefreshes(peer, mac, report)
      BY <1>i, <1>r, <3>2 DEF UpdateRefreshes, MarkSeen
    <3>3. CASE UpdateApplies(peer, mac, report)
      BY <1>i, <1>r, <1>m, <3>3 DEF UpdateApplies, CandidateRejected, MarkSeen
    <3> QED
      BY <1>3, <3>1, <3>2, <3>3 DEF HandleUpdate
  <2> QED
    BY <1>0, <1>k, <1>3, <2>1 DEF HandleUpdate
<1>4. ASSUME NEW peer \in Endpoint, NEW gateway \in Endpoint, NEW mac,
             HandleTeardown(peer, gateway, mac)
      PROVE  Goal
  <2>1. ecn' \in E /\ seen' \in S
    <3>1. CASE TeardownApplies(peer, Wire[gateway])
      BY <1>e, <1>r, <1>m, <3>1 DEF TeardownApplies, CandidateRejected
    <3> QED
      BY <1>0, <1>4, <3>1 DEF HandleTeardown
  <2> QED
    BY <1>0, <1>k, <1>4, <2>1 DEF HandleTeardown
<1>5. CASE Prune
  <2>1. 0 \in 0..PruneInterval
    BY ConfigAssumption
  <2> QED
    BY <1>0, <1>e, <1>r, <1>5, <2>1 DEF Prune
<1>6. CASE Tick
  <2>1. ecn' \in E /\ seen' \in S /\ issued' \in I
    <3>1. Grace + 1 \in Nat /\ SeenHorizon \in Nat /\ MacHorizon \in Nat
      BY Horizons
    <3>2. AllOlder(ecn, Grace + 1) \in E
      BY <1>0, <3>1, AllOlderType DEF E
    <3>3. AllOlder(seen, SeenHorizon) \in S
      BY <1>0, <3>1, AllOlderType DEF S
    <3>4. AllOlder(issued, MacHorizon) \in I
      BY <1>0, <3>1, AllOlderType DEF I
    <3> QED
      BY <1>6, <3>2, <3>3, <3>4 DEF Tick
  <2>2. sincePrune' \in 0..PruneInterval
    BY <1>0, <1>6, OlderType, ConfigAssumption DEF Tick
  <2>3. keys' \in K
    <3>1. Older(keys.age, KeyHorizon) \in 0..KeyHorizon
      BY <1>0, OlderType, Horizons DEF K
    <3>2. \A p \in keys.previous :
            [p EXCEPT !.age = Older(@, Grace + 1)] \in [secret : Secret, age : 0..(Grace + 1)]
      BY <1>0, OlderType, Horizons DEF K
    <3>3. PICK age, previous :
            /\ age = Older(keys.age, KeyHorizon)
            /\ previous = {[p EXCEPT !.age = Older(@, Grace + 1)] : p \in keys.previous}
      OBVIOUS
    <3>4. previous \in SUBSET [secret : Secret, age : 0..(Grace + 1)]
      BY <3>2, <3>3
    <3>5. keys' = [keys EXCEPT !.age = age, !.previous = previous]
      BY <1>6, <3>3 DEF Tick
    <3>6. age \in 0..KeyHorizon
      BY <3>1, <3>3
    <3>7. /\ keys.secret \in Secret
          /\ keys = [secret |-> keys.secret, age |-> keys.age, previous |-> keys.previous]
      BY <1>0 DEF K
    <3>8. keys' = [secret |-> keys.secret, age |-> age, previous |-> previous]
      BY <3>5, <3>7, Zenon
    <3> QED
      BY <3>4, <3>6, <3>7, <3>8 DEF K
  <2> QED
    BY <2>1, <2>2, <2>3
<1>7. CASE UNCHANGED vars
  BY <1>0, <1>7 DEF vars
<1> QED
  BY <1>1, <1>2, <1>3, <1>4, <1>5, <1>6, <1>7 DEF Next

(* The relay's variables keep their types: in particular every endpoint in   *)
(* the state has at least one group, no group is an INCLUDE of nothing, and  *)
(* the indexes are those of the endpoints (apply_report, remove_endpoint,    *)
(* rebuild_indexes).                                                         *)
THEOREM TypeInvariant == Spec => []TypeOK
<1>1. TypeOK /\ [Next]_vars => TypeOK'
  BY MembershipType, TimerType DEF TypeOK, Sound
<1> QED
  BY <1>1, TypeInit, PTL DEF Spec
-----------------------------------------------------------------------------
(* Memberships and the subscriptions that serve them.                      *)

(* The indexes are exact: packets go to exactly the endpoints that want      *)
(* them, and the aggregate of a group asks for exactly what somebody wants.  *)
THEOREM ForwardingInvariant == Spec => []ForwardingExact
<1>1. TypeOK => ForwardingExact
  <2> SUFFICES ASSUME TypeOK, NEW g \in Group, NEW s \in Source
               PROVE  LET wanting == {e \in Members(state.endpoints, g) :
                                        WantsSource(state.endpoints[e][g], s)}
                      IN  /\ MatchingEndpoints(state, s, g) = wanting
                          /\ wanting # {} <=> /\ g \in DOMAIN state.aggregate
                                              /\ WantsSource(state.aggregate[g], s)
    BY DEF ForwardingExact
  <2> QED
    BY IndexesExact DEF TypeOK
<1> QED
  BY <1>1, TypeInvariant, PTL

(* Every packet a gateway asked for is covered by an active subscription,    *)
(* whichever native joins and leaves failed.  The invariant is inductive     *)
(* given the types: a state is committed only after its subscriptions were   *)
(* joined, and the one step that commits without, a prune, only forgets      *)
(* endpoints while the subscriptions stay.                                   *)
THEOREM CoverageInvariant == Spec => []Coverage
<1>1. Init => Coverage
  BY EmptyRelayStateType, EmptyMapType DEF Init, Coverage
<1>2. ASSUME TypeOK, Coverage, [Next]_vars PROVE Coverage'
  <2> SUFFICES ASSUME NEW e \in DOMAIN state'.endpoints,
                      NEW g \in DOMAIN state'.endpoints[e], NEW s \in Source,
                      WantsSource(state'.endpoints[e][g], s)
               PROVE  Asm(g) \in active' \/ Ssm(g, s) \in active'
    BY DEF Coverage
  <2>1. CASE UNCHANGED <<state, active>>
    BY <1>2, <2>1 DEF Coverage
  <2>2. CASE Sound(state') /\ ReconcileSucceeds(state'.subscriptions)
    <3>1. state'.subscriptions \subseteq active'
      BY <2>2 DEF ReconcileSucceeds
    <3>2. \/ Asm(g) \in state'.subscriptions
          \/ Ssm(g, s) \in state'.subscriptions
      BY <2>2, SubscriptionsCover DEF Sound
    <3> QED
      BY <3>1, <3>2
  <2>3. CASE state' = RemoveEndpoints(state, StaleEndpoints) /\ active' = active
    <3>1. e \in DOMAIN state.endpoints /\ state'.endpoints[e] = state.endpoints[e]
      BY <1>2, <2>3, RemovedOnly
    <3> QED
      BY <1>2, <2>3, <3>1 DEF Coverage
  <2> QED
    BY <1>2, <2>1, <2>2, <2>3, MembershipStep
<1> QED
  BY <1>1, <1>2, TypeInvariant, PTL DEF Spec

(* When the last reconcile was complete, the active subscriptions are those  *)
(* of the live state; when only leaves failed, they include them.            *)
THEOREM SyncedInvariant == Spec => []SyncedExactly
<1>1. Init => SyncedExactly
  <2>1. EmptyRelayState.subscriptions = {}
    <3>1. DOMAIN RebuildIndexes(EmptyMap).aggregate = {}
      BY RebuildFields, EmptyMapType DEF GroupsOf
    <3> QED
      BY <3>1, RebuildSubscriptions DEF EmptyRelayState
  <2> QED
    BY <2>1 DEF Init, SyncedExactly
<1>2. ASSUME TypeOK, SyncedExactly, [Next]_vars PROVE SyncedExactly'
  <2>1. CASE UNCHANGED <<state, active, lastSync>>
    BY <1>2, <2>1 DEF SyncedExactly
  <2>2. CASE lastSync' = "join failed"
    BY <2>2 DEF SyncedExactly
  <2>3. CASE ReconcileSucceeds(state'.subscriptions)
    BY <2>3 DEF ReconcileSucceeds, SyncedExactly
  <2> QED
    BY <1>2, <2>1, <2>2, <2>3, MembershipStep
<1> QED
  BY <1>1, <1>2, TypeInvariant, PTL DEF Spec
-----------------------------------------------------------------------------
(* Activity and authentication.                                            *)

(* The idle timers run for exactly the endpoints with state: none is kept   *)
(* forever because its timer was lost, and none is counted that is gone.    *)
THEOREM ActivityInvariant == Spec => []ActivityMatchesState
<1>1. Init => ActivityMatchesState
  BY EmptyRelayStateType, EmptyMapType DEF Init, ActivityMatchesState
<1>2. ASSUME TypeOK, ActivityMatchesState, [Next]_vars PROVE ActivityMatchesState'
  <2> DEFINE D == DOMAIN state.endpoints
  <2>0. DOMAIN seen = D /\ D \subseteq Endpoint
    BY <1>2, EndpointsElement DEF ActivityMatchesState, TypeOK
  <2>i. \A e : DOMAIN Insert(seen, e, 0) = DOMAIN seen \cup {e}
    BY DEF Insert
  <2>r. \A K : DOMAIN RemoveAll(seen, K) = DOMAIN seen \ K
    BY DEF RemoveAll
  <2>c. \A peer, candidate : CandidateRejected(peer, candidate) => ActivityMatchesState'
    BY <2>0, <2>i DEF CandidateRejected, MarkSeenIfKnown, MarkSeen, ActivityMatchesState
  <2>1. CASE UNCHANGED <<state, seen>>
    BY <1>2, <2>1 DEF ActivityMatchesState
  <2>2. ASSUME NEW peer \in Endpoint, NEW mac, NEW report \in Report,
               HandleUpdate(peer, mac, report)
        PROVE  ActivityMatchesState'
    <3>1. CASE UpdateDropped(peer, mac, report)
      BY <2>1, <3>1 DEF UpdateDropped
    <3>2. CASE UpdateRefreshes(peer, mac, report)
      BY <2>0, <2>i, <2>r, <3>2 DEF UpdateRefreshes, MarkSeen, ActivityMatchesState
    <3>3. CASE UpdateApplies(peer, mac, report)
      <4> DEFINE candidate == ApplyReport(state, peer, report)
      <4>1. CASE CandidateRejected(peer, candidate)
        BY <2>c, <4>1
      <4>2. CASE /\ CandidateCommitted(candidate)
                 /\ IF peer \in DOMAIN candidate.endpoints
                    THEN MarkSeen(peer) ELSE seen' = RemoveAll(seen, {peer})
        <5>1. \A e \in Endpoint \ {peer} : e \in DOMAIN candidate.endpoints <=> e \in D
          BY <1>2, AppliedOnly
        <5>2. DOMAIN candidate.endpoints \subseteq Endpoint
          BY <1>2, SoundApply, EndpointsElement DEF Sound
        <5> HIDE DEF candidate
        <5>3. DOMAIN seen' = DOMAIN candidate.endpoints
          BY <2>0, <2>i, <2>r, <4>2, <5>1, <5>2 DEF MarkSeen
        <5> QED
          BY <4>2, <5>3 DEF CandidateCommitted, ActivityMatchesState
      <4> QED
        BY <3>3, <4>1, <4>2 DEF UpdateApplies
    <3> QED
      BY <2>2, <3>1, <3>2, <3>3 DEF HandleUpdate
  <2>3. ASSUME NEW peer \in Endpoint, NEW gateway \in Endpoint, NEW mac,
               HandleTeardown(peer, gateway, mac)
        PROVE  ActivityMatchesState'
    <3> DEFINE endpoint == Wire[gateway]
               candidate == RemoveEndpoints(state, {endpoint})
    <3>1. CASE endpoint \notin D /\ seen' = RemoveAll(seen, {endpoint}) /\ UNCHANGED state
      BY <2>0, <2>r, <3>1 DEF ActivityMatchesState
    <3>2. CASE CandidateRejected(peer, candidate)
      BY <2>c, <3>2
    <3>3. CASE CandidateCommitted(candidate) /\ seen' = RemoveAll(seen, {endpoint})
      BY <1>2, <2>0, <2>r, <3>3, RemovedOnly DEF CandidateCommitted, ActivityMatchesState
    <3> QED
      BY <2>1, <2>3, <3>1, <3>2, <3>3 DEF HandleTeardown, TeardownApplies
  <2>4. CASE Prune
    BY <1>2, <2>0, <2>r, <2>4, RemovedOnly DEF Prune, ActivityMatchesState
  <2>5. CASE Tick
    BY <1>2, <2>5 DEF Tick, AllOlder, ActivityMatchesState
  <2> QED
    BY <1>2, <2>1, <2>2, <2>3, <2>4, <2>5 DEF Next, HandleStateless, HandleRequest, vars
<1> QED
  BY <1>1, <1>2, TypeInvariant, PTL DEF Spec

(* What the relay holds for an endpoint changes only on a message with a     *)
(* MAC that was sent to its address under a secret still valid, or because   *)
(* it was idle.                                                              *)
THEOREM Authentication == Spec => MembershipAuthenticated
<1> DEFINE Allowed(e) ==
             \/ IdleTimeout # Never /\ e \in DOMAIN seen /\ seen[e] >= IdleTimeout
             \/ \E mac \in DOMAIN issued :
                  /\ mac.gateway = Wire[e]
                  /\ \/ mac.secret = keys'.secret
                     \/ \E p \in keys'.previous : p.age <= Grace /\ mac.secret = p.secret
           A == \A e \in Endpoint : Groups(state', e) # Groups(state, e) => Allowed(e)
<1>1. ASSUME TypeOK, [Next]_vars PROVE [A]_vars
  <2> SUFFICES ASSUME NEW e \in Endpoint, Groups(state', e) # Groups(state, e)
               PROVE  Allowed(e)
    OBVIOUS
  <2>1. state' # state
    OBVIOUS
  <2>2. ASSUME NEW peer \in Endpoint, NEW mac \in DOMAIN issued, NEW report \in Report,
               HandleUpdate(peer, mac, report)
        PROVE  Allowed(e)
    <3>1. UpdateApplies(peer, mac, report) /\ state' = ApplyReport(state, peer, report)
      BY <2>1, <2>2 DEF HandleUpdate, UpdateDropped, UpdateRefreshes, UpdateApplies,
                        CandidateRejected, CandidateCommitted
    <3>2. e = peer
      BY <1>1, <3>1, AppliedOnly DEF Groups
    <3> QED
      BY <3>1, <3>2 DEF UpdateApplies, UpdateAdmitted, ValidResponseMac
  <2>3. ASSUME NEW peer \in Endpoint, NEW gateway \in Endpoint, NEW mac \in DOMAIN issued,
               HandleTeardown(peer, gateway, mac)
        PROVE  Allowed(e)
    <3>1. /\ ValidResponseMac(keys', mac, gateway)
          /\ state' = RemoveEndpoints(state, {Wire[gateway]})
      BY <2>1, <2>3 DEF HandleTeardown, TeardownApplies, CandidateRejected, CandidateCommitted
    <3>2. e = Wire[gateway]
      BY <1>1, <3>1, RemovedOnly DEF Groups
    <3>3. Wire[e] = Wire[gateway]
      BY <3>2, WireAssumption
    <3> QED
      BY <3>1, <3>3 DEF ValidResponseMac
  <2>4. CASE Prune
    <3>1. state' = RemoveEndpoints(state, StaleEndpoints)
      BY <2>4 DEF Prune
    <3>2. e \in StaleEndpoints
      BY <1>1, <3>1, RemovedOnly DEF Groups
    <3> QED
      BY <3>2 DEF StaleEndpoints
  <2> QED
    BY <1>1, <2>1, <2>2, <2>3, <2>4 DEF Next, HandleStateless, HandleRequest, Tick, vars
<1> QED
  BY <1>1, TypeInvariant, PTL DEF Spec, MembershipAuthenticated
-----------------------------------------------------------------------------
(* Response MACs over rotations of the secret.                             *)

(* The inductive strengthening of MacHonoured: a MAC of neither the current *)
(* secret nor an expired one is of the secret that was current before, and  *)
(* was sent no later than that secret was replaced.                         *)
MacInv ==
  /\ \A mac \in DOMAIN issued :
       \/ mac.secret = keys.secret
       \/ issued[mac] > Grace
       \/ \E p \in keys.previous : p.secret = mac.secret /\ p.age <= issued[mac]
  /\ RotationInterval = Never => \A mac \in DOMAIN issued : mac.secret = keys.secret

(* Ages are numbers. *)
LEMMA AgesType ==
  ASSUME TypeOK
  PROVE  /\ DOMAIN issued \subseteq Mac
         /\ \A mac \in DOMAIN issued : issued[mac] \in 0..MacHorizon /\ issued[mac] \in Nat
         /\ \A p \in keys.previous : p.age \in 0..(Grace + 1) /\ p.age \in Nat
<1>1. issued \in Maps(Mac, 0..MacHorizon) /\ MacHorizon \in Nat
  BY Horizons DEF TypeOK
<1>2. \A mac \in DOMAIN issued : issued[mac] \in 0..MacHorizon
  BY <1>1, MapsElement
<1>3. \A n \in 0..MacHorizon : n \in Nat
  BY <1>1
<1>4. \A p \in keys.previous : p \in [secret : Secret, age : 0..(Grace + 1)]
  BY DEF TypeOK
<1>5. \A p \in keys.previous : p.age \in 0..(Grace + 1)
  BY <1>4
<1>6. \A n \in 0..(Grace + 1) : n \in Nat
  BY Horizons
<1> QED
  BY <1>1, <1>2, <1>3, <1>5, <1>6, MapsElement

(* The rotation that any datagram may cause keeps the MACs in flight valid: *)
(* it waits until the previous secret's grace period is over.               *)
LEMMA RotationMac ==
  ASSUME TypeOK, MacInv, RotateSecretIfDue, NEW f,
         DOMAIN f \subseteq Mac,
         \A mac \in DOMAIN f :
           \/ mac.secret = keys'.secret
           \/ mac \in DOMAIN issued /\ f[mac] = issued[mac],
         issued' = f
  PROVE  MacInv'
<1>0. \A mac \in DOMAIN issued : issued[mac] \in Nat
  BY AgesType
<1>1. CASE keys' = keys
  BY <1>1 DEF MacInv
<1>2. CASE RotationDue /\ keys' = [secret |-> keys.secret + 1, age |-> 0,
                                  previous |-> {[secret |-> keys.secret, age |-> 0]}]
  <2>1. RotationInterval # Never /\ \A p \in keys.previous : p.age > Grace
    BY <1>2 DEF RotationDue
  <2>2. \A p \in keys.previous : p.age \in Nat
    BY AgesType
  <2>3. \A mac \in DOMAIN issued : mac.secret = keys.secret \/ issued[mac] > Grace
    BY <1>0, <2>1, <2>2, Horizons DEF MacInv
  <2>4. \A mac \in DOMAIN issued : mac.secret = keys.secret =>
          \E p \in keys'.previous : p.secret = mac.secret /\ p.age <= issued[mac]
    <3> DEFINE p == [secret |-> keys.secret, age |-> 0]
    <3>1. p \in keys'.previous /\ p.secret = keys.secret /\ p.age = 0
      BY <1>2
    <3> QED
      BY <1>0, <3>1
  <2> QED
    BY <2>1, <2>3, <2>4 DEF MacInv
<1> QED
  BY <1>1, <1>2 DEF RotateSecretIfDue

(* A MAC is honoured for two query intervals after the Query that carried    *)
(* it, however the rotation of secrets falls in between.                     *)
THEOREM MacInvariant == Spec => []MacHonoured
<1>1. Init => MacInv
  BY EmptyMapType DEF Init, MacInv
<1>2. ASSUME TypeOK, MacInv, [Next]_vars PROVE MacInv'
  <2>0. DOMAIN issued \subseteq Mac /\ \A mac \in DOMAIN issued : issued[mac] \in 0..MacHorizon
    BY <1>2, AgesType
  <2>1. CASE RotateSecretIfDue /\ UNCHANGED issued
    BY <1>2, <2>0, <2>1, RotationMac
  <2>2. ASSUME NEW peer \in Endpoint, NEW capable \in BOOLEAN, HandleRequest(peer, capable)
        PROVE  MacInv'
    <3> DEFINE new == ResponseMac(keys', peer)
               f == Insert(issued, new, 0)
    <3>1. RotateSecretIfDue /\ issued' = f
      BY <2>2 DEF HandleRequest
    <3>2. new.secret = keys'.secret /\ new \in Mac
      BY <1>2, <3>1, RotateType, WireAssumption DEF ResponseMac, Mac
    <3>3. DOMAIN f \subseteq Mac
      BY <2>0, <3>2 DEF Insert
    <3>4. \A mac \in DOMAIN f : \/ mac.secret = keys'.secret
                                \/ mac \in DOMAIN issued /\ f[mac] = issued[mac]
      <4> HIDE DEF new
      <4> QED
        BY <3>2 DEF Insert
    <3> HIDE DEF f
    <3> QED
      BY <1>2, <3>1, <3>3, <3>4, RotationMac
  <2>3. CASE Tick
    <3>1. /\ DOMAIN issued' = DOMAIN issued
          /\ \A mac \in DOMAIN issued : issued'[mac] = Older(issued[mac], MacHorizon)
      BY <2>3 DEF Tick, AllOlder
    <3>2. /\ keys'.secret = keys.secret
          /\ \A p \in keys.previous :
               [p EXCEPT !.age = Older(p.age, Grace + 1)] \in keys'.previous
      BY <1>2, <2>3 DEF Tick, TypeOK
    <3>3. \A p \in keys.previous : p \in [secret : Secret, age : 0..(Grace + 1)]
      BY <1>2 DEF TypeOK
    <3>4. ASSUME NEW mac \in DOMAIN issued, RotationInterval # Never
          PROVE  \/ mac.secret = keys'.secret
                 \/ issued'[mac] > Grace
                 \/ \E p \in keys'.previous : p.secret = mac.secret /\ p.age <= issued'[mac]
      <4>1. MacHorizon = Grace + 1 /\ Grace \in Nat /\ issued[mac] \in 0..(Grace + 1)
        BY <2>0, <3>4, Horizons DEF MacHorizon
      <4>2. CASE issued[mac] > Grace
        BY <3>1, <4>1, <4>2 DEF Older
      <4>3. ASSUME NEW p \in keys.previous, p.secret = mac.secret, p.age <= issued[mac]
            PROVE  \E q \in keys'.previous : q.secret = mac.secret /\ q.age <= issued'[mac]
        <5> DEFINE q == [p EXCEPT !.age = Older(p.age, Grace + 1)]
        <5>1. q \in keys'.previous /\ q.secret = mac.secret /\ q.age = Older(p.age, Grace + 1)
          BY <3>2, <3>3, <4>3
        <5>2. p.age \in 0..(Grace + 1)
          BY <3>3
        <5>3. Older(p.age, Grace + 1) <= issued'[mac]
          BY <3>1, <4>1, <4>3, <5>2 DEF Older
        <5> QED
          BY <5>1, <5>3
      <4> QED
        BY <1>2, <3>2, <4>2, <4>3 DEF MacInv
    <3> QED
      BY <1>2, <3>1, <3>2, <3>4 DEF MacInv
  <2>4. CASE UNCHANGED <<keys, issued>>
    BY <1>2, <2>4 DEF MacInv
  <2> QED
    BY <1>2, <2>1, <2>2, <2>3, <2>4
       DEF Next, HandleStateless, HandleUpdate, HandleTeardown, Prune, vars
<1>3. TypeOK /\ MacInv => MacHonoured
  <2> SUFFICES ASSUME TypeOK, MacInv, NEW mac \in DOMAIN issued, issued[mac] <= Grace,
                      mac.secret # keys.secret
               PROVE  /\ \E p \in keys.previous : p.age <= Grace /\ mac.secret = p.secret
                      /\ ~RotationDue
    BY DEF MacHonoured
  <2>1. issued[mac] \in Nat /\ Grace \in Nat
    BY Horizons, AgesType
  <2>2. PICK p \in keys.previous : p.secret = mac.secret /\ p.age <= issued[mac]
    BY <2>1 DEF MacInv
  <2>3. p.age \in Nat
    BY AgesType
  <2>4. p.age <= Grace /\ ~(p.age > Grace)
    BY <2>1, <2>2, <2>3
  <2> QED
    BY <2>2, <2>4 DEF RotationDue
<1> QED
  BY <1>1, <1>2, <1>3, TypeInvariant, PTL DEF Spec
-----------------------------------------------------------------------------
(* Limits.                                                                 *)

(* Dropping endpoints keeps every limit. *)
LEMMA RemoveWithin ==
  ASSUME TypeOK, WithinLimits, NEW K, state' = RemoveEndpoints(state, K)
  PROVE  WithinLimits'
<1> DEFINE eps == state.endpoints
           neps == state'.endpoints
<1>1. /\ eps \in Endpoints /\ state = RebuildIndexes(eps)
      /\ neps \in Endpoints /\ state' = RebuildIndexes(neps)
  BY SoundRemove DEF TypeOK, Sound
<1>2. DOMAIN neps \subseteq DOMAIN eps /\ \A e \in DOMAIN neps : neps[e] = eps[e]
  BY RemovedOnly
<1>3. /\ state.total_endpoint_groups = Cardinality(EndpointGroups(eps))
      /\ state.total_sources = Cardinality(EndpointSources(eps))
      /\ state'.total_endpoint_groups = Cardinality(EndpointGroups(neps))
      /\ state'.total_sources = Cardinality(EndpointSources(neps))
  BY <1>1, RebuildTotals
<1>4. /\ IsFiniteSet(DOMAIN eps)
      /\ IsFiniteSet(EndpointGroups(eps))
      /\ IsFiniteSet(EndpointSources(eps))
  BY <1>1, FiniteCounts
<1>5. /\ EndpointGroups(neps) \subseteq EndpointGroups(eps)
      /\ EndpointSources(neps) \subseteq EndpointSources(eps)
  <2> HIDE DEF eps, neps
  <2> QED
    BY <1>2, CountsShrink
<1>6. \A n \in LimitName : Limits[n] \in Nat
  BY LimitsAssumption
<1>7. /\ Limits.max_endpoints \in Nat /\ Limits.max_endpoints_per_ip \in Nat
      /\ Limits.max_total_endpoint_groups \in Nat /\ Limits.max_total_sources \in Nat
  BY <1>6 DEF LimitName
<1>8. Cardinality(DOMAIN neps) <= Limits.max_endpoints
  <2>1. Cardinality(DOMAIN eps) <= Limits.max_endpoints
    BY DEF WithinLimits
  <2> QED
    BY <1>2, <1>4, <1>7, <2>1, Smaller
<1>9. \A ip \in Ip : EndpointCountForIp(state', ip) <= Limits.max_endpoints_per_ip
  <2> TAKE ip \in Ip
  <2> DEFINE S == {e \in DOMAIN eps : IpOf[e] = ip}
             T == {e \in DOMAIN neps : IpOf[e] = ip}
  <2>1. IsFiniteSet(S)
    BY <1>4, FS_Subset
  <2>2. Cardinality(S) <= Limits.max_endpoints_per_ip
    BY DEF WithinLimits, EndpointCountForIp
  <2>3. T \subseteq S
    BY <1>2
  <2>4. EndpointCountForIp(state', ip) = Cardinality(T)
    BY DEF EndpointCountForIp
  <2> HIDE DEF S, T
  <2> QED
    BY <1>7, <2>1, <2>2, <2>3, <2>4, Smaller
<1>10. /\ state'.total_endpoint_groups <= Limits.max_total_endpoint_groups
       /\ state'.total_sources <= Limits.max_total_sources
  <2>1. /\ Cardinality(EndpointGroups(eps)) <= Limits.max_total_endpoint_groups
        /\ Cardinality(EndpointSources(eps)) <= Limits.max_total_sources
    BY <1>3 DEF WithinLimits
  <2> HIDE DEF eps, neps
  <2> QED
    BY <1>3, <1>4, <1>5, <1>7, <2>1, Smaller
<1>11. \A e \in DOMAIN neps :
         /\ Cardinality(DOMAIN neps[e]) <= Limits.max_groups_per_endpoint
         /\ \A g \in DOMAIN neps[e] :
              Cardinality(neps[e][g].sources) <= Limits.max_sources_per_group
  BY <1>2 DEF WithinLimits
<1> QED
  BY <1>8, <1>9, <1>10, <1>11 DEF WithinLimits

(* Committing what a report from one endpoint makes of the state keeps       *)
(* every limit, though only that endpoint's own are checked.                 *)
LEMMA ApplyWithin ==
  ASSUME TypeOK, WithinLimits, NEW peer \in Endpoint, NEW report \in Report,
         state' = ApplyReport(state, peer, report),
         CandidateWithinLimits(state', peer)
  PROVE  WithinLimits'
<1> DEFINE eps == state.endpoints
           neps == state'.endpoints
<1>1. \A e \in Endpoint \ {peer} : /\ e \in DOMAIN neps <=> e \in DOMAIN eps
                                   /\ e \in DOMAIN eps => neps[e] = eps[e]
  BY AppliedOnly
<1>2. DOMAIN eps \subseteq Endpoint /\ DOMAIN neps \subseteq Endpoint
  BY SoundApply, EndpointsElement DEF TypeOK, Sound
<1>3. \A e \in DOMAIN neps :
        /\ Cardinality(DOMAIN neps[e]) <= Limits.max_groups_per_endpoint
        /\ \A g \in DOMAIN neps[e] :
             Cardinality(neps[e][g].sources) <= Limits.max_sources_per_group
  <2> TAKE e \in DOMAIN neps
  <2>1. CASE e = peer
    BY <2>1 DEF CandidateWithinLimits, EndpointWithinLimits, Groups
  <2>2. CASE e # peer
    BY <1>1, <1>2, <2>2 DEF WithinLimits
  <2> QED
    BY <2>1, <2>2
<1>4. \A ip \in Ip : EndpointCountForIp(state', ip) <= Limits.max_endpoints_per_ip
  <2> TAKE ip \in Ip
  <2>1. CASE ip = IpOf[peer]
    BY <2>1 DEF CandidateWithinLimits
  <2>2. CASE ip # IpOf[peer]
    <3>1. {e \in DOMAIN neps : IpOf[e] = ip} = {e \in DOMAIN eps : IpOf[e] = ip}
      BY <1>1, <1>2, <2>2
    <3> QED
      BY <3>1 DEF WithinLimits, EndpointCountForIp
  <2> QED
    BY <2>1, <2>2
<1> QED
  BY <1>3, <1>4 DEF WithinLimits, CandidateWithinLimits

(* The state never exceeds the limits on endpoints, groups and sources. *)
THEOREM LimitsInvariant == Spec => []WithinLimits
<1>1. Init => WithinLimits
  <2> SUFFICES ASSUME Init PROVE WithinLimits
    OBVIOUS
  <2>1. DOMAIN state.endpoints = {} /\ state = RebuildIndexes(state.endpoints)
    BY EmptyRelayStateType, EmptyMapType DEF Init
  <2>2. /\ EndpointGroups(state.endpoints) = {}
        /\ EndpointSources(state.endpoints) = {}
    BY <2>1 DEF EndpointGroups, EndpointSources
  <2>3. state.total_endpoint_groups = 0 /\ state.total_sources = 0
    BY <2>1, <2>2, RebuildTotals, FS_EmptySet
  <2>4. \A ip \in Ip : EndpointCountForIp(state, ip) = 0
    <3> TAKE ip \in Ip
    <3>1. {e \in DOMAIN state.endpoints : IpOf[e] = ip} = {}
      BY <2>1
    <3> QED
      BY <3>1, FS_EmptySet DEF EndpointCountForIp
  <2>5. /\ 0 <= Limits.max_endpoints /\ 0 <= Limits.max_endpoints_per_ip
        /\ 0 <= Limits.max_total_endpoint_groups /\ 0 <= Limits.max_total_sources
    BY LimitsAssumption DEF LimitName
  <2> QED
    BY <2>1, <2>3, <2>4, <2>5, FS_EmptySet DEF WithinLimits
<1>2. ASSUME TypeOK, WithinLimits, [Next]_vars PROVE WithinLimits'
  <2>1. CASE UNCHANGED state
    BY <1>2, <2>1 DEF WithinLimits, EndpointCountForIp
  <2>2. ASSUME NEW peer \in Endpoint, NEW mac, NEW report \in Report,
               HandleUpdate(peer, mac, report), state' # state
        PROVE  WithinLimits'
    <3>1. /\ state' = ApplyReport(state, peer, report)
          /\ CandidateWithinLimits(state', peer)
      BY <2>2 DEF HandleUpdate, UpdateDropped, UpdateRefreshes, UpdateApplies,
                  CandidateRejected, CandidateCommitted
    <3> QED
      BY <1>2, <3>1, ApplyWithin
  <2>3. ASSUME NEW peer, NEW gateway, NEW mac,
               HandleTeardown(peer, gateway, mac), state' # state
        PROVE  WithinLimits'
    <3>1. state' = RemoveEndpoints(state, {Wire[gateway]})
      BY <2>3 DEF HandleTeardown, TeardownApplies, CandidateRejected, CandidateCommitted
    <3> QED
      BY <1>2, <3>1, RemoveWithin
  <2>4. CASE Prune
    BY <1>2, <2>4, RemoveWithin DEF Prune
  <2> QED
    BY <1>2, <2>1, <2>2, <2>3, <2>4 DEF Next, HandleStateless, HandleRequest, Tick, vars
<1> QED
  BY <1>1, <1>2, TypeInvariant, PTL DEF Spec

(* Requests, which nothing authenticates, cannot make the table of ECN      *)
(* capable gateways outgrow the endpoint limit.                              *)
THEOREM EcnInvariant == Spec => []EcnTableBounded
<1> DEFINE M == Limits.max_endpoints
<1>0. M \in Nat
  BY LimitsAssumption DEF LimitName
<1> HIDE DEF M
<1>1. Init => EcnTableBounded
  BY <1>0, EmptyMapType, FS_EmptySet DEF Init, EcnTableBounded, M
<1>2. ASSUME TypeOK, EcnTableBounded, [Next]_vars PROVE EcnTableBounded'
  <2>1. IsFiniteSet(DOMAIN ecn) /\ Cardinality(DOMAIN ecn) <= M
    <3>1. DOMAIN ecn \in SUBSET Endpoint
      BY <1>2, MapsElement DEF TypeOK
    <3> QED
      BY <1>2, <3>1, FS_Subset, SetsAssumption DEF EcnTableBounded, M
  <2>2. CASE DOMAIN ecn' \subseteq DOMAIN ecn
    <3>1. Cardinality(DOMAIN ecn') <= M
      BY <1>0, <2>1, <2>2, Smaller
    <3> QED
      BY <3>1 DEF EcnTableBounded, M
  <2>3. ASSUME NEW peer \in Endpoint, NEW capable \in BOOLEAN, HandleRequest(peer, capable)
        PROVE  EcnTableBounded'
    <3> DEFINE fresh == RemoveAll(ecn, {e \in DOMAIN ecn : ecn[e] > Grace})
    <3>1. DOMAIN fresh \subseteq DOMAIN ecn
      BY DEF RemoveAll
    <3>2. ecn' = RememberEcn(peer, capable)
      BY <2>3 DEF HandleRequest
    <3>3. \/ ecn' = fresh
          \/ ecn' = RemoveAll(fresh, {peer})
          \/ /\ ecn' = Insert(fresh, peer, 0)
             /\ peer \in DOMAIN fresh \/ Cardinality(DOMAIN fresh) < M
      BY <3>2 DEF RememberEcn, M
    <3> HIDE DEF fresh
    <3>4. DOMAIN RemoveAll(fresh, {peer}) \subseteq DOMAIN fresh
      BY DEF RemoveAll
    <3>5. DOMAIN Insert(fresh, peer, 0) = DOMAIN fresh \cup {peer}
      BY DEF Insert
    <3>6. CASE ecn' = Insert(fresh, peer, 0) /\ Cardinality(DOMAIN fresh) < M
      <4>1. IsFiniteSet(DOMAIN fresh)
        BY <2>1, <3>1, FS_Subset
      <4>2. /\ Cardinality(DOMAIN fresh) \in Nat
            /\ \/ Cardinality(DOMAIN ecn') = Cardinality(DOMAIN fresh)
               \/ Cardinality(DOMAIN ecn') = Cardinality(DOMAIN fresh) + 1
        BY <3>5, <3>6, <4>1, FS_AddElement, FS_CardinalityType
      <4>3. Cardinality(DOMAIN ecn') <= M
        BY <1>0, <3>6, <4>2
      <4> QED
        BY <4>3 DEF EcnTableBounded, M
    <3> QED
      BY <2>2, <3>1, <3>3, <3>4, <3>5, <3>6
  <2>4. \A K : DOMAIN RemoveAll(ecn, K) \subseteq DOMAIN ecn
    BY DEF RemoveAll
  <2>5. CASE HandleStateless \/ Prune \/ Tick \/ UNCHANGED vars
    BY <2>2, <2>4, <2>5 DEF HandleStateless, Prune, Tick, AllOlder, vars
  <2>6. ASSUME NEW peer, NEW mac, NEW report, HandleUpdate(peer, mac, report)
        PROVE  EcnTableBounded'
    BY <2>2, <2>6 DEF HandleUpdate
  <2>7. ASSUME NEW peer, NEW gateway, NEW mac, HandleTeardown(peer, gateway, mac)
        PROVE  EcnTableBounded'
    <3>1. ecn' = ecn \/ ecn' = RemoveAll(ecn, {Wire[gateway]})
      BY <2>7 DEF HandleTeardown, TeardownApplies
    <3> QED
      BY <2>2, <2>4, <3>1
  <2> QED
    BY <1>2, <2>3, <2>5, <2>6, <2>7 DEF Next
<1> QED
  BY <1>1, <1>2, TypeInvariant, PTL DEF Spec
-----------------------------------------------------------------------------
(* The relay implements the relay service.  Coverage is what makes the     *)
(* service's promise about native packets hold after each step.            *)

(* The service's own copies of the operators of RelayState are the same. *)
LEMMA SameMaps ==
  /\ Service!EmptyMap = EmptyMap
  /\ \A m, k : Service!RemoveAll(m, k) = RemoveAll(m, k)
  /\ \A m, k, v : Service!Insert(m, k, v) = Insert(m, k, v)
  /\ \A i, s : Service!WantsSource(i, s) = WantsSource(i, s)
  BY DEF Service!EmptyMap, EmptyMap, Service!RemoveAll, RemoveAll, Service!Insert, Insert,
         Service!WantsSource, WantsSource

(* What the records of a report leave behind, likewise. *)
LEMMA SameRecords ==
  ASSUME NEW groups, NEW report
  PROVE  Service!ApplyRecords(groups, report) = ApplyRecords(groups, report)
  BY DEF Service!ApplyRecords, ApplyRecords, Service!ApplyRecord, ApplyRecord,
         Service!NextInterest, NextInterest, Service!Include, Include, Service!Exclude,
         Exclude, Service!IncludeKind, IncludeKind, Service!ExcludeKind, ExcludeKind,
         Service!RemoveAll, RemoveAll, Service!Insert, Insert

(* What Coverage says of an endpoint is what the service needs (Needs). *)
LEMMA CoverageServes ==
  Coverage' => Service!Needs(state'.endpoints) \subseteq Arriving'
  BY SameMaps DEF Coverage, Arriving, Service!Needs

(* A step that leaves memberships, subscriptions and MACs alone is invisible. *)
LEMMA Invisible ==
  ASSUME UNCHANGED <<state, active>>, DOMAIN issued' = DOMAIN issued
  PROVE  UNCHANGED Service!serviceVars
  BY DEF Service!serviceVars, Credentialed, Arriving

(* A Request is answered with a MAC for the address it came from. *)
LEMMA RequestGrants ==
  ASSUME TypeOK, NEW peer \in Endpoint, NEW capable \in BOOLEAN, HandleRequest(peer, capable)
  PROVE  Service!Grant(peer)
<1>1. DOMAIN issued' = DOMAIN issued \cup {ResponseMac(keys', peer)}
  BY DEF HandleRequest, Insert
<1>2. ResponseMac(keys', peer).gateway = Wire[peer]
  BY DEF ResponseMac
<1>3. Credentialed' = Credentialed \cup {Wire[peer]}
  BY <1>1, <1>2 DEF Credentialed
<1>4. UNCHANGED <<state.endpoints, Arriving>>
  BY DEF HandleRequest, Arriving
<1> QED
  BY <1>3, <1>4 DEF Service!Grant

(* An Update that is committed was sent with a MAC made for its sender, and   *)
(* changes what the sender holds as the service says.                         *)
LEMMA UpdateAccepts ==
  ASSUME TypeOK, Coverage', NEW peer \in Endpoint, NEW mac \in DOMAIN issued,
         NEW report \in Report, UpdateApplies(peer, mac, report),
         CandidateCommitted(ApplyReport(state, peer, report)), UNCHANGED issued
  PROVE  Service!Accept(peer, report)
<1>1. Wire[peer] \in Credentialed
  BY DEF UpdateApplies, UpdateAdmitted, ValidResponseMac, Credentialed
<1>2. report # <<>> /\ state' = ApplyReport(state, peer, report)
  BY DEF UpdateApplies, ReportChanges, CandidateCommitted
<1>3. Groups(state, peer) = Service!Holds(state.endpoints, peer)
  BY SameMaps DEF Groups, Service!Holds
<1> DEFINE groups == ApplyRecords(Groups(state, peer), report)
<1>4. state'.endpoints = IF groups = EmptyMap THEN RemoveAll(state.endpoints, {peer})
                         ELSE Insert(state.endpoints, peer, groups)
  BY <1>2, RebuildFields DEF ApplyReport
<1>5. state'.endpoints = Service!AfterReport(state.endpoints, peer, report)
  BY <1>3, <1>4, SameMaps, SameRecords DEF Service!AfterReport
<1>6. Service!Needs(state'.endpoints) \subseteq Arriving'
  BY CoverageServes
<1>7. UNCHANGED Credentialed
  BY DEF Credentialed
<1> QED
  BY <1>1, <1>5, <1>6, <1>7 DEF Service!Accept

(* Removing endpoints, by Teardown or for silence, releases them. *)
LEMMA RemovalReleases ==
  ASSUME TypeOK, Coverage', NEW K, state' = RemoveEndpoints(state, K), UNCHANGED issued
  PROVE  Service!Release(K)
<1>1. state'.endpoints = RemoveAll(state.endpoints, K)
  BY RebuildFields DEF RemoveEndpoints
<1>2. Service!Needs(state'.endpoints) \subseteq Arriving'
  BY CoverageServes
<1>3. UNCHANGED Credentialed
  BY DEF Credentialed
<1> QED
  BY <1>1, <1>2, <1>3, SameMaps DEF Service!Release

(* Every step of the relay is a step of the service, or invisible. *)
LEMMA ServiceStep ==
  ASSUME TypeOK, Coverage', [Next]_vars
  PROVE  [Service!ServiceNext]_(Service!serviceVars)
<1>1. CASE HandleStateless
  BY <1>1, Invisible DEF HandleStateless
<1>2. ASSUME NEW peer \in Endpoint, NEW capable \in BOOLEAN, HandleRequest(peer, capable)
      PROVE  Service!ServiceNext
  BY <1>2, RequestGrants DEF Service!ServiceNext
<1>3. ASSUME NEW peer \in Endpoint, NEW mac \in DOMAIN issued, NEW report \in Report,
             HandleUpdate(peer, mac, report)
      PROVE  [Service!ServiceNext]_(Service!serviceVars)
  <2>1. CASE UpdateDropped(peer, mac, report) \/ UpdateRefreshes(peer, mac, report)
    BY <1>3, <2>1, Invisible DEF HandleUpdate, UpdateDropped, UpdateRefreshes
  <2>2. CASE UpdateApplies(peer, mac, report)
    <3>1. CASE CandidateRejected(peer, ApplyReport(state, peer, report))
      BY <1>3, <3>1, Invisible DEF HandleUpdate, CandidateRejected, ReconcileFails
    <3>2. CASE CandidateCommitted(ApplyReport(state, peer, report))
      BY <1>3, <2>2, <3>2, UpdateAccepts DEF HandleUpdate, Service!ServiceNext
    <3> QED
      BY <2>2, <3>1, <3>2 DEF UpdateApplies
  <2> QED
    BY <1>3, <2>1, <2>2 DEF HandleUpdate
<1>4. ASSUME NEW peer \in Endpoint, NEW gateway \in Endpoint, NEW mac \in DOMAIN issued,
             HandleTeardown(peer, gateway, mac)
      PROVE  [Service!ServiceNext]_(Service!serviceVars)
  <2> DEFINE K == {Wire[gateway]}
  <2>1. K \in SUBSET Endpoint
    BY WireAssumption
  <2>2. UNCHANGED issued
    BY <1>4 DEF HandleTeardown
  <2>3. \/ UNCHANGED <<state, active>>
        \/ CandidateRejected(peer, RemoveEndpoints(state, K))
        \/ CandidateCommitted(RemoveEndpoints(state, K))
    BY <1>4 DEF HandleTeardown, TeardownApplies
  <2>4. CASE CandidateCommitted(RemoveEndpoints(state, K))
    <3>1. Service!Release(K)
      BY <2>2, <2>4, RemovalReleases DEF CandidateCommitted
    <3> QED
      BY <2>1, <3>1 DEF Service!ServiceNext
  <2> QED
    BY <2>2, <2>3, <2>4, Invisible DEF CandidateRejected, ReconcileFails
<1>5. CASE Prune
  <2>1. StaleEndpoints \in SUBSET Endpoint
    <3>1. DOMAIN seen \subseteq Endpoint
      BY MapsElement DEF TypeOK
    <3> QED
      BY <3>1 DEF StaleEndpoints
  <2>2. Service!Release(StaleEndpoints)
    BY <1>5, RemovalReleases DEF Prune
  <2> QED
    BY <2>1, <2>2 DEF Service!ServiceNext
<1>6. CASE Tick
  BY <1>6, Invisible DEF Tick, AllOlder
<1>7. CASE UNCHANGED vars
  BY <1>7, Invisible DEF vars
<1> QED
  BY <1>1, <1>2, <1>3, <1>4, <1>5, <1>6, <1>7 DEF Next

(* A relay that has just started has promised nothing. *)
LEMMA ServiceStart == Init => Service!ServiceInit
<1> SUFFICES ASSUME Init PROVE Service!ServiceInit
  OBVIOUS
<1>1. state.endpoints = EmptyMap
  BY RebuildFields DEF Init, EmptyRelayState
<1>2. Credentialed = {} /\ Arriving = {}
  BY DEF Init, EmptyMap, Credentialed, Arriving
<1> QED
  BY <1>1, <1>2, SameMaps DEF Service!ServiceInit

(* The relay of relay.rs and run_relay implements the abstract relay service, *)
(* whatever joins and leaves fail and whenever secrets rotate.                *)
THEOREM Implementation == Spec => ImplementsService
<1>1. Init => Service!ServiceInit
  BY ServiceStart
<1>2. TypeOK /\ Coverage' /\ [Next]_vars => [Service!ServiceNext]_(Service!serviceVars)
  BY ServiceStep
<1>3. Spec => []TypeOK /\ []Coverage
  BY TypeInvariant, CoverageInvariant
<1> QED
  BY <1>1, <1>2, <1>3, PTL DEF Spec, ImplementsService, Service!ServiceSpec
=============================================================================
