-------------------------- MODULE RelayStateProofs --------------------------
(***************************************************************************)
(* What the operators of RelayState return, for every set of endpoints,    *)
(* groups and sources and for reports of every length.                     *)
(***************************************************************************)
EXTENDS RelayState, WellFoundedInduction, FiniteSetTheorems, TLAPS
-----------------------------------------------------------------------------
(* Induction over the natural numbers, with the set of numbers for which    *)
(* the claim holds as its parameter.                                        *)

(* A non-empty set of natural numbers has a least element. *)
LEMMA NatMinimum ==
  ASSUME NEW T \in SUBSET Nat, T # {}
  PROVE  \E x \in T : \A y \in T : x <= y
<1> DEFINE R == {ss \in Nat \X Nat : ss[1] < ss[2]}
<1>1. IsWellFoundedOn(R, Nat)
  BY NatLessThanWellFounded, Zenon DEF OpToRel
<1>2. \A x, y \in Nat : <<y, x>> \notin R => x <= y
  OBVIOUS
<1> HIDE DEF R
<1>3. \E x \in T : \A y \in T : ~ (<<y, x>> \in R)
  BY <1>1, WFMin
<1> QED
  BY <1>2, <1>3

(* A set with 0 and the successor of each of its members holds every number. *)
LEMMA SetInduction ==
  ASSUME NEW S, 0 \in S, \A n \in Nat : n \in S => n + 1 \in S
  PROVE  Nat \subseteq S
<1> SUFFICES ASSUME Nat \ S # {} PROVE FALSE
  OBVIOUS
<1>1. PICK x \in Nat \ S : \A y \in Nat \ S : x <= y
  BY NatMinimum
<1>2. x # 0 /\ x - 1 \in Nat /\ x - 1 \in S
  BY <1>1
<1> QED
  BY <1>1, <1>2
-----------------------------------------------------------------------------
(* Maps.                                                                   *)

(* What it is to be a map. *)
LEMMA MapsElement ==
  ASSUME NEW A, NEW B, NEW f
  PROVE  f \in Maps(A, B) <=> DOMAIN f \in SUBSET A /\ f \in [DOMAIN f -> B]
  BY DEF Maps

(* The empty map has every map type. *)
LEMMA EmptyMapType ==
  ASSUME NEW A, NEW B
  PROVE  EmptyMap \in Maps(A, B) /\ DOMAIN EmptyMap = {}
  BY DEF Maps, EmptyMap

(* A map without keys is the empty map. *)
LEMMA EmptyMapUnique ==
  ASSUME NEW A, NEW B, NEW f \in Maps(A, B), DOMAIN f = {}
  PROVE  f = EmptyMap
  BY DEF Maps, EmptyMap

(* BTreeMap::insert. *)
LEMMA InsertMap ==
  ASSUME NEW A, NEW B, NEW f \in Maps(A, B), NEW k \in A, NEW v \in B
  PROVE  /\ Insert(f, k, v) \in Maps(A, B)
         /\ DOMAIN Insert(f, k, v) = DOMAIN f \cup {k}
         /\ Insert(f, k, v)[k] = v
         /\ \A x \in DOMAIN f : x # k => Insert(f, k, v)[x] = f[x]
  BY MapsElement DEF Insert

(* BTreeMap::remove. *)
LEMMA RemoveMap ==
  ASSUME NEW A, NEW B, NEW f \in Maps(A, B), NEW K
  PROVE  /\ RemoveAll(f, K) \in Maps(A, B)
         /\ DOMAIN RemoveAll(f, K) = DOMAIN f \ K
         /\ \A x \in DOMAIN f \ K : RemoveAll(f, K)[x] = f[x]
  BY MapsElement DEF RemoveAll
-----------------------------------------------------------------------------
(* Records and reports.                                                    *)

(* A record turns an interest into an interest (EndpointState::apply_record). *)
LEMMA NextInterestType ==
  ASSUME NEW old \in GroupInterest, NEW r \in MembershipRecord
  PROVE  NextInterest(old, r) \in GroupInterest
<1>1. r.kind \in RecordKind /\ r.sources \in SUBSET Source
  BY DEF MembershipRecord
<1>2. \A S \in SUBSET Source : Include(S) \in GroupInterest /\ Exclude(S) \in GroupInterest
  BY DEF GroupInterest, Include, Exclude
<1>3. old.sources \in SUBSET Source
  BY DEF GroupInterest
<1> HIDE DEF Include
<1>4. CASE r.kind = "LegacyReport" \/ r.kind = "LegacyLeave"
  BY <1>2, <1>4 DEF NextInterest, IncludeKind, ExcludeKind
<1>5. CASE r.kind \in IncludeKind \cup ExcludeKind
  BY <1>1, <1>2, <1>5 DEF NextInterest, IncludeKind, ExcludeKind
<1>6. CASE r.kind = "AllowNewSources" \/ r.kind = "BlockOldSources"
  <2>1. /\ old.sources \cup r.sources \in SUBSET Source
        /\ old.sources \ r.sources \in SUBSET Source
    BY <1>1, <1>3
  <2> QED
    BY <1>2, <1>6, <2>1 DEF NextInterest, IncludeKind, ExcludeKind
<1> QED
  BY <1>1, <1>4, <1>5, <1>6 DEF RecordKind

(* apply_record leads from group interests to group interests. *)
LEMMA ApplyRecordType ==
  ASSUME NEW gs \in Maps(Group, StoredInterest), NEW r \in MembershipRecord
  PROVE  ApplyRecord(gs, r) \in Maps(Group, StoredInterest)
<1> DEFINE g == r.group
           old == IF g \in DOMAIN gs THEN gs[g] ELSE Include({})
           new == NextInterest(old, r)
<1>1. g \in Group
  BY DEF MembershipRecord
<1>2. old \in GroupInterest
  BY MapsElement DEF StoredInterest, GroupInterest, Include
<1>3. new \in GroupInterest
  BY <1>2, NextInterestType
<1>4. CASE new = Include({})
  BY <1>4, RemoveMap DEF ApplyRecord
<1>5. CASE new # Include({})
  <2>1. new \in StoredInterest
    BY <1>3, <1>5 DEF StoredInterest
  <2> QED
    BY <1>1, <1>5, <2>1, InsertMap DEF ApplyRecord
<1> QED
  BY <1>4, <1>5

(* The records of a report are applied one after the other; the maps in      *)
(* between are well formed (RelayState::apply_report).                       *)
LEMMA ApplyRecordsPath ==
  ASSUME NEW gs \in Maps(Group, StoredInterest), NEW report \in Seq(MembershipRecord)
  PROVE  \E f \in [0..Len(report) -> Maps(Group, StoredInterest)] :
           /\ f[0] = gs
           /\ \A i \in 1..Len(report) : f[i] = ApplyRecord(f[i - 1], report[i])
           /\ f[Len(report)] = ApplyRecords(gs, report)
<1> DEFINE M == Maps(Group, StoredInterest)
           n == Len(report)
           after == CHOOSE f : f = [i \in 0..n |->
                      IF i = 0 THEN gs ELSE ApplyRecord(f[i - 1], report[i])]
           Path(f, k) == /\ f \in [0..k -> M]
                         /\ f[0] = gs
                         /\ \A i \in 1..k : f[i] = ApplyRecord(f[i - 1], report[i])
           S == {k \in Nat : k <= n => \E f : Path(f, k)}
<1>1. n \in Nat /\ \A i \in 1..n : report[i] \in MembershipRecord
  OBVIOUS
<1>2. 0 \in S
  <2>1. Path([i \in 0..0 |-> gs], 0)
    OBVIOUS
  <2> QED
    BY <2>1
<1>3. ASSUME NEW k \in Nat, k \in S PROVE k + 1 \in S
  <2> SUFFICES ASSUME k + 1 <= n PROVE \E f : Path(f, k + 1)
    OBVIOUS
  <2>1. PICK f : Path(f, k)
    BY <1>1, <1>3
  <2> DEFINE h == [i \in 0..(k + 1) |->
                     IF i = k + 1 THEN ApplyRecord(f[k], report[k + 1]) ELSE f[i]]
  <2>2. f[k] \in M /\ report[k + 1] \in MembershipRecord
    BY <1>1, <2>1
  <2>3. ApplyRecord(f[k], report[k + 1]) \in M
    BY <2>2, ApplyRecordType
  <2>4. h \in [0..(k + 1) -> M]
    BY <2>1, <2>3
  <2>5. h[0] = gs
    BY <2>1
  <2>6. \A i \in 1..(k + 1) : h[i] = ApplyRecord(h[i - 1], report[i])
    BY <2>1
  <2> QED
    BY <2>4, <2>5, <2>6
<1>4. n \in S
  BY <1>1, <1>2, <1>3, SetInduction
<1>5. PICK f : Path(f, n)
  BY <1>1, <1>4
<1>6. f = [i \in 0..n |-> IF i = 0 THEN gs ELSE ApplyRecord(f[i - 1], report[i])]
  BY <1>1, <1>5
<1>7. after = [i \in 0..n |-> IF i = 0 THEN gs ELSE ApplyRecord(after[i - 1], report[i])]
  BY <1>6
<1> HIDE DEF after
<1> DEFINE T == {k \in Nat : k <= n => after[k] \in M}
<1>8. 0 \in T
  BY <1>1, <1>7
<1>9. ASSUME NEW k \in Nat, k \in T PROVE k + 1 \in T
  <2> SUFFICES ASSUME k + 1 <= n PROVE after[k + 1] \in M
    OBVIOUS
  <2>1. after[k] \in M /\ report[k + 1] \in MembershipRecord
    BY <1>1, <1>9
  <2>2. after[k + 1] = ApplyRecord(after[k], report[k + 1])
    BY <1>1, <1>7
  <2> QED
    BY <2>1, <2>2, ApplyRecordType
<1>10. Nat \subseteq T
  BY <1>8, <1>9, SetInduction
<1>11. ApplyRecords(gs, report) = after[n]
  BY DEF ApplyRecords, after
<1>12. after \in [0..n -> M]
  BY <1>1, <1>7, <1>10
<1>13. after[0] = gs /\ \A i \in 1..n : after[i] = ApplyRecord(after[i - 1], report[i])
  BY <1>1, <1>7
<1> QED
  BY <1>11, <1>12, <1>13

(* What a report leaves behind is well formed: no stored group is an INCLUDE *)
(* of nothing (RelayState::apply_report).                                    *)
LEMMA ApplyRecordsType ==
  ASSUME NEW gs \in Maps(Group, StoredInterest), NEW report \in Seq(MembershipRecord)
  PROVE  ApplyRecords(gs, report) \in Maps(Group, StoredInterest)
<1>1. PICK f \in [0..Len(report) -> Maps(Group, StoredInterest)] :
        f[Len(report)] = ApplyRecords(gs, report)
  BY ApplyRecordsPath
<1>2. Len(report) \in 0..Len(report)
  OBVIOUS
<1> QED
  BY <1>1, <1>2
-----------------------------------------------------------------------------
(* The indexes.                                                            *)

(* Removing endpoints keeps the endpoint map well formed. *)
LEMMA RemoveEndpointMap ==
  ASSUME NEW eps \in Maps(Endpoint, EndpointState), NEW K
  PROVE  /\ RemoveAll(eps, K) \in Maps(Endpoint, EndpointState)
         /\ DOMAIN RemoveAll(eps, K) = DOMAIN eps \ K
         /\ \A x \in DOMAIN eps \ K : RemoveAll(eps, K)[x] = eps[x]
  BY RemoveMap

(* Storing groups, not all of them gone, for an endpoint does too. *)
LEMMA InsertEndpointMap ==
  ASSUME NEW eps \in Maps(Endpoint, EndpointState), NEW k \in Endpoint,
         NEW v \in EndpointState
  PROVE  /\ Insert(eps, k, v) \in Maps(Endpoint, EndpointState)
         /\ DOMAIN Insert(eps, k, v) = DOMAIN eps \cup {k}
         /\ Insert(eps, k, v)[k] = v
         /\ \A x \in DOMAIN eps : x # k => Insert(eps, k, v)[x] = eps[x]
  BY MapsElement DEF Insert

(* What the endpoint map holds for an endpoint. *)
LEMMA EndpointsElement ==
  ASSUME NEW eps \in Endpoints, NEW e \in DOMAIN eps
  PROVE  /\ e \in Endpoint
         /\ eps[e] \in Maps(Group, StoredInterest)
         /\ \A g \in DOMAIN eps[e] : g \in Group /\ eps[e][g] \in StoredInterest
<1>1. eps[e] \in EndpointState /\ e \in Endpoint
  BY MapsElement DEF Endpoints
<1>2. eps[e] \in Maps(Group, StoredInterest)
  BY <1>1 DEF EndpointState
<1> QED
  BY <1>1, <1>2, MapsElement

(* What rebuild_indexes keeps, and which groups its indexes have. *)
LEMMA RebuildFields ==
  ASSUME NEW eps
  PROVE  /\ RebuildIndexes(eps).endpoints = eps
         /\ DOMAIN RebuildIndexes(eps).forwarding = GroupsOf(eps)
         /\ \A g \in GroupsOf(eps) : RebuildIndexes(eps).forwarding[g] = Members(eps, g)
         /\ \A g : g \in DOMAIN RebuildIndexes(eps).aggregate <=>
                     g \in GroupsOf(eps) /\ AggregateInterest(eps, g) # Include({})
         /\ \A g \in DOMAIN RebuildIndexes(eps).aggregate :
              RebuildIndexes(eps).aggregate[g] = AggregateInterest(eps, g)
  BY DEF RebuildIndexes

(* The aggregate interest in a group asks for exactly the sources that some *)
(* member of the group wants, whoever the members are (GroupSummary::apply, *)
(* into_interest).                                                          *)
LEMMA AggregateExact ==
  ASSUME NEW eps, \A e \in DOMAIN eps : eps[e] \in Maps(Group, StoredInterest), NEW g
  PROVE  /\ AggregateInterest(eps, g) \in GroupInterest
         /\ \A s \in Source :
              WantsSource(AggregateInterest(eps, g), s) <=>
                \E e \in Members(eps, g) : WantsSource(eps[e][g], s)
<1> DEFINE interests == {eps[e][g] : e \in Members(eps, g)}
           included == UNION {i.sources : i \in {j \in interests : j.mode = "Include"}}
           excludes == {i.sources : i \in {j \in interests : j.mode = "Exclude"}}
           common == {s \in UNION excludes : \A x \in excludes : s \in x}
           ag == AggregateInterest(eps, g)
<1>1. ag = IF excludes # {} THEN Exclude(common \ included) ELSE Include(included)
  BY DEF AggregateInterest
<1>2. \A e \in Members(eps, g) : eps[e][g] \in GroupInterest
  BY MapsElement DEF Members, StoredInterest
<1>3. \A i \in interests : i \in GroupInterest
  BY <1>2
<1>4. \A i \in interests :
        /\ i.sources \in SUBSET Source
        /\ i.mode = "Include" \/ i.mode = "Exclude"
  BY <1>3 DEF GroupInterest
<1>5. included \in SUBSET Source
  BY <1>4
<1>6. \A x \in excludes : x \in SUBSET Source
  BY <1>4
<1>7. common \ included \in SUBSET Source
  BY <1>6
<1>8. ag \in GroupInterest
  BY <1>1, <1>5, <1>7 DEF Include, Exclude, GroupInterest
<1>9. \A s : (\E e \in Members(eps, g) : WantsSource(eps[e][g], s)) <=>
             (\E i \in interests : WantsSource(i, s))
  OBVIOUS
<1>10. \A s : (\E i \in interests : WantsSource(i, s)) <=>
              (s \in included \/ \E x \in excludes : s \notin x)
  <2> SUFFICES ASSUME NEW s
               PROVE  (\E i \in interests : WantsSource(i, s)) <=>
                      (s \in included \/ \E x \in excludes : s \notin x)
    OBVIOUS
  <2>1. ASSUME NEW i \in interests, WantsSource(i, s)
        PROVE  s \in included \/ \E x \in excludes : s \notin x
    <3>1. CASE i.mode = "Include"
      BY <2>1, <3>1 DEF WantsSource
    <3>2. CASE i.mode = "Exclude"
      <4>1. i.sources \in excludes /\ s \notin i.sources
        BY <2>1, <3>2 DEF WantsSource
      <4> QED
        BY <4>1
    <3> QED
      BY <1>4, <3>1, <3>2
  <2>2. ASSUME s \in included PROVE \E i \in interests : WantsSource(i, s)
    BY <2>2 DEF WantsSource
  <2>3. ASSUME NEW x \in excludes, s \notin x
        PROVE  \E i \in interests : WantsSource(i, s)
    BY <2>3 DEF WantsSource
  <2> QED
    BY <2>1, <2>2, <2>3
<1>11. ASSUME NEW s
       PROVE  WantsSource(ag, s) <=> (s \in included \/ \E x \in excludes : s \notin x)
  <2>1. CASE excludes = {}
    <3>1. ag.mode = "Include" /\ ag.sources = included
      BY <1>1, <2>1 DEF Include
    <3> QED
      BY <2>1, <3>1 DEF WantsSource
  <2>2. CASE excludes # {}
    <3>1. ag.mode = "Exclude" /\ ag.sources = common \ included
      BY <1>1, <2>2 DEF Exclude
    <3>2. s \notin common <=> \E x \in excludes : s \notin x
      BY <2>2
    <3> QED
      BY <3>1, <3>2 DEF WantsSource
  <2> QED
    BY <2>1, <2>2
<1> QED
  BY <1>8, <1>9, <1>10, <1>11

(* The same of the gateways at a relay (rebuild_indexes). *)
LEMMA AggregateInterestExact ==
  ASSUME NEW eps \in Endpoints, NEW g
  PROVE  /\ AggregateInterest(eps, g) \in GroupInterest
         /\ \A s \in Source :
              WantsSource(AggregateInterest(eps, g), s) <=>
                \E e \in Members(eps, g) : WantsSource(eps[e][g], s)
  BY AggregateExact, EndpointsElement

(* The subscriptions rebuild_indexes derives from the aggregate interest. *)
LEMMA RebuildSubscriptions ==
  ASSUME NEW eps
  PROVE  RebuildIndexes(eps).subscriptions =
           LET ag == RebuildIndexes(eps).aggregate
           IN  {Asm(g) : g \in {x \in DOMAIN ag : ag[x].mode = "Exclude"}}
               \cup UNION {{Ssm(g, s) : s \in ag[g].sources} :
                             g \in {x \in DOMAIN ag : ag[x].mode = "Include"}}
<1> DEFINE ag == [g \in {x \in GroupsOf(eps) : AggregateInterest(eps, x) # Include({})}
                    |-> AggregateInterest(eps, g)]
           Subs(a) == {Asm(g) : g \in {x \in DOMAIN a : a[x].mode = "Exclude"}}
                      \cup UNION {{Ssm(g, s) : s \in a[g].sources} :
                                    g \in {x \in DOMAIN a : a[x].mode = "Include"}}
<1>1. RebuildIndexes(eps) =
        [endpoints |-> eps, forwarding |-> [g \in GroupsOf(eps) |-> Members(eps, g)],
         aggregate |-> ag, subscriptions |-> Subs(ag),
         total_endpoint_groups |-> Cardinality(EndpointGroups(eps)),
         total_sources |-> Cardinality(EndpointSources(eps))]
  BY Zenon DEF RebuildIndexes
<1> HIDE DEF Subs, ag
<1>2. RebuildIndexes(eps).subscriptions = Subs(RebuildIndexes(eps).aggregate)
  BY <1>1
<1> QED
  BY <1>2, Zenon DEF Subs

(* Every native subscription is for a known group and source. *)
LEMMA SubscriptionsType ==
  ASSUME NEW eps \in Endpoints
  PROVE  RebuildIndexes(eps).subscriptions \subseteq UpstreamSubscription
<1> DEFINE ag == RebuildIndexes(eps).aggregate
<1>1. \A g \in DOMAIN ag : g \in Group /\ ag[g] \in GroupInterest
  <2>1. GroupsOf(eps) \subseteq Group
    BY EndpointsElement DEF GroupsOf
  <2> QED
    BY <2>1, RebuildFields, AggregateInterestExact
<1>2. \A g \in DOMAIN ag : ag[g].sources \subseteq Source
  BY <1>1 DEF GroupInterest
<1> HIDE DEF ag
<1>3. {Asm(g) : g \in {x \in DOMAIN ag : ag[x].mode = "Exclude"}} \subseteq UpstreamSubscription
  BY <1>1 DEF UpstreamSubscription
<1>4. UNION {{Ssm(g, s) : s \in ag[g].sources} :
               g \in {x \in DOMAIN ag : ag[x].mode = "Include"}} \subseteq UpstreamSubscription
  BY <1>1, <1>2 DEF UpstreamSubscription
<1> QED
  BY <1>3, <1>4, RebuildSubscriptions DEF ag

(* The subscriptions computed for a set of endpoints cover every packet that *)
(* one of them wants (rebuild_indexes).                                      *)
LEMMA SubscriptionsCover ==
  ASSUME NEW eps \in Endpoints, NEW e \in DOMAIN eps, NEW g \in DOMAIN eps[e],
         NEW s \in Source, WantsSource(eps[e][g], s)
  PROVE  \/ Asm(g) \in RebuildIndexes(eps).subscriptions
         \/ Ssm(g, s) \in RebuildIndexes(eps).subscriptions
<1> DEFINE ag == RebuildIndexes(eps).aggregate
           i == AggregateInterest(eps, g)
<1>1. e \in Members(eps, g) /\ g \in GroupsOf(eps)
  BY DEF Members, GroupsOf
<1>2. i \in GroupInterest /\ WantsSource(i, s)
  BY <1>1, AggregateInterestExact
<1>3. i # Include({})
  BY <1>2 DEF WantsSource, Include
<1>4. g \in DOMAIN ag /\ ag[g] = i
  BY <1>1, <1>3, RebuildFields
<1>5. i.mode = "Include" \/ i.mode = "Exclude"
  BY <1>2 DEF GroupInterest
<1> HIDE DEF ag, i
<1>6. CASE i.mode = "Exclude"
  BY <1>4, <1>6, RebuildSubscriptions DEF ag
<1>7. CASE i.mode = "Include"
  <2>1. s \in ag[g].sources
    BY <1>2, <1>4, <1>7 DEF WantsSource
  <2> QED
    BY <1>4, <1>7, <2>1, RebuildSubscriptions DEF ag
<1> QED
  BY <1>5, <1>6, <1>7

(* A packet is forwarded to exactly the endpoints that want it, and the      *)
(* aggregate asks for it exactly when there is one (matching_endpoints).     *)
LEMMA IndexesExact ==
  ASSUME NEW eps \in Endpoints, NEW g \in Group, NEW s \in Source,
         NEW st, st = RebuildIndexes(eps)
  PROVE  LET wanting == {e \in Members(eps, g) : WantsSource(eps[e][g], s)}
         IN  /\ MatchingEndpoints(st, s, g) = wanting
             /\ wanting # {} <=> /\ g \in DOMAIN st.aggregate
                                 /\ WantsSource(st.aggregate[g], s)
<1> DEFINE wanting == {e \in Members(eps, g) : WantsSource(eps[e][g], s)}
<1>1. g \notin GroupsOf(eps) => Members(eps, g) = {}
  BY DEF GroupsOf, Members
<1>2. MatchingEndpoints(st, s, g) = wanting
  BY <1>1, RebuildFields DEF MatchingEndpoints
<1>3. wanting # {} <=> WantsSource(AggregateInterest(eps, g), s)
  BY AggregateInterestExact
<1>4. WantsSource(AggregateInterest(eps, g), s) => AggregateInterest(eps, g) # Include({})
  BY DEF WantsSource, Include
<1>5. /\ \A x : x \in DOMAIN st.aggregate <=>
                  x \in GroupsOf(eps) /\ AggregateInterest(eps, x) # Include({})
      /\ \A x \in DOMAIN st.aggregate : st.aggregate[x] = AggregateInterest(eps, x)
  BY RebuildFields
<1>6. wanting # {} => g \in GroupsOf(eps)
  BY <1>1
<1> QED
  BY <1>2, <1>3, <1>4, <1>5, <1>6
-----------------------------------------------------------------------------
(* Whole states.                                                           *)

(* A relay state is well formed when it is what rebuild_indexes makes of its *)
(* endpoints.                                                                *)
LEMMA EmptyRelayStateType ==
  /\ EmptyRelayState.endpoints = EmptyMap
  /\ EmptyMap \in Endpoints
  /\ EmptyRelayState = RebuildIndexes(EmptyRelayState.endpoints)
  BY RebuildFields, EmptyMapType DEF EmptyRelayState, Endpoints

(* A report changes the memberships of its sender and nobody else's, and     *)
(* leaves no endpoint without a group (apply_report).                        *)
LEMMA ApplyReportType ==
  ASSUME NEW st, st.endpoints \in Endpoints, st = RebuildIndexes(st.endpoints),
         NEW peer \in Endpoint, NEW report \in Seq(MembershipRecord)
  PROVE  LET next == ApplyReport(st, peer, report)
         IN  /\ next.endpoints \in Endpoints
             /\ next = RebuildIndexes(next.endpoints)
             /\ \A e \in Endpoint \ {peer} :
                  /\ e \in DOMAIN next.endpoints <=> e \in DOMAIN st.endpoints
                  /\ e \in DOMAIN st.endpoints => next.endpoints[e] = st.endpoints[e]
<1> DEFINE eps == st.endpoints
           new == ApplyRecords(Groups(st, peer), report)
           neps == IF new = EmptyMap THEN RemoveAll(eps, {peer}) ELSE Insert(eps, peer, new)
<1>1. Groups(st, peer) \in Maps(Group, StoredInterest)
  BY EndpointsElement, EmptyMapType DEF Groups
<1>2. new \in Maps(Group, StoredInterest)
  BY <1>1, ApplyRecordsType
<1> HIDE DEF new
<1>3. CASE report = <<>>
  BY <1>3 DEF ApplyReport
<1>4. CASE report # <<>>
  <2>1. ApplyReport(st, peer, report) = RebuildIndexes(neps)
    BY <1>4 DEF ApplyReport, new
  <2>2. eps \in Maps(Endpoint, EndpointState)
    BY DEF Endpoints
  <2>3. /\ neps \in Maps(Endpoint, EndpointState)
        /\ \A e \in Endpoint \ {peer} :
             /\ e \in DOMAIN neps <=> e \in DOMAIN eps
             /\ e \in DOMAIN eps => neps[e] = eps[e]
    <3> HIDE DEF eps
    <3>1. CASE new = EmptyMap
      <4>1. neps = RemoveAll(eps, {peer})
        BY <3>1
      <4>2. /\ RemoveAll(eps, {peer}) \in Maps(Endpoint, EndpointState)
            /\ DOMAIN RemoveAll(eps, {peer}) = DOMAIN eps \ {peer}
            /\ \A x \in DOMAIN eps \ {peer} : RemoveAll(eps, {peer})[x] = eps[x]
        BY <2>2, RemoveEndpointMap
      <4> HIDE DEF neps
      <4> QED
        BY <4>1, <4>2
    <3>2. CASE new # EmptyMap
      <4>1. neps = Insert(eps, peer, new) /\ new \in EndpointState
        BY <1>2, <3>2 DEF EndpointState
      <4>2. /\ Insert(eps, peer, new) \in Maps(Endpoint, EndpointState)
            /\ DOMAIN Insert(eps, peer, new) = DOMAIN eps \cup {peer}
            /\ \A x \in DOMAIN eps : x # peer => Insert(eps, peer, new)[x] = eps[x]
        BY <2>2, <4>1, InsertEndpointMap
      <4> HIDE DEF neps
      <4> QED
        BY <4>1, <4>2
    <3> QED
      BY <3>1, <3>2
  <2> HIDE DEF neps
  <2>4. RebuildIndexes(neps).endpoints = neps
    BY RebuildFields
  <2> QED
    BY <2>1, <2>3, <2>4 DEF Endpoints
<1> QED
  BY <1>3, <1>4

(* Removing endpoints leaves the others as they were (remove_endpoint). *)
LEMMA RemoveEndpointsType ==
  ASSUME NEW st, st.endpoints \in Endpoints, NEW K
  PROVE  LET next == RemoveEndpoints(st, K)
         IN  /\ next.endpoints \in Endpoints
             /\ next = RebuildIndexes(next.endpoints)
             /\ DOMAIN next.endpoints = DOMAIN st.endpoints \ K
             /\ \A e \in DOMAIN next.endpoints : next.endpoints[e] = st.endpoints[e]
<1> DEFINE eps == st.endpoints
           neps == RemoveAll(eps, K)
<1>1. RemoveEndpoints(st, K) = RebuildIndexes(neps)
  BY DEF RemoveEndpoints
<1>2. eps \in Maps(Endpoint, EndpointState)
  BY DEF Endpoints
<1>3. /\ neps \in Maps(Endpoint, EndpointState)
      /\ DOMAIN neps = DOMAIN eps \ K
      /\ \A e \in DOMAIN eps \ K : neps[e] = eps[e]
  <2> HIDE DEF eps
  <2> QED
    BY <1>2, RemoveEndpointMap
<1> HIDE DEF neps
<1>4. RebuildIndexes(neps).endpoints = neps
  BY RebuildFields
<1> QED
  BY <1>1, <1>3, <1>4 DEF Endpoints
-----------------------------------------------------------------------------
(* Sizes.                                                                  *)

(* A part of a finite set is no larger. *)
LEMMA Smaller ==
  ASSUME NEW S, IsFiniteSet(S), NEW T, T \subseteq S, NEW n \in Nat, Cardinality(S) <= n
  PROVE  Cardinality(T) <= n
<1>1. IsFiniteSet(T) /\ Cardinality(T) <= Cardinality(S)
  BY FS_Subset
<1>2. Cardinality(T) \in Nat /\ Cardinality(S) \in Nat
  BY <1>1, FS_CardinalityType
<1> QED
  BY <1>1, <1>2

(* The totals rebuild_indexes counts. *)
LEMMA RebuildTotals ==
  ASSUME NEW eps
  PROVE  /\ RebuildIndexes(eps).total_endpoint_groups = Cardinality(EndpointGroups(eps))
         /\ RebuildIndexes(eps).total_sources = Cardinality(EndpointSources(eps))
  BY DEF RebuildIndexes

(* What the totals count is finite, so that the counts are numbers. *)
LEMMA FiniteCounts ==
  ASSUME NEW eps \in Endpoints
  PROVE  /\ IsFiniteSet(DOMAIN eps)
         /\ IsFiniteSet(EndpointGroups(eps))
         /\ IsFiniteSet(EndpointSources(eps))
<1>1. DOMAIN eps \in SUBSET Endpoint
  BY EndpointsElement
<1>2. IsFiniteSet(Endpoint \X Group) /\ IsFiniteSet((Endpoint \X Group) \X Source)
  BY FS_Product, SetsAssumption
<1>3. /\ EndpointGroups(eps) \in SUBSET (Endpoint \X Group)
      /\ EndpointSources(eps) \in SUBSET ((Endpoint \X Group) \X Source)
  BY DEF EndpointGroups, EndpointSources
<1> QED
  BY <1>1, <1>2, <1>3, FS_Subset, SetsAssumption

(* What the totals count shrinks with the endpoints. *)
LEMMA CountsShrink ==
  ASSUME NEW eps, NEW neps, DOMAIN neps \subseteq DOMAIN eps,
         \A e \in DOMAIN neps : neps[e] = eps[e]
  PROVE  /\ EndpointGroups(neps) \subseteq EndpointGroups(eps)
         /\ EndpointSources(neps) \subseteq EndpointSources(eps)
<1>1. \A eg \in EndpointGroups(neps) : eg \in EndpointGroups(eps) /\ neps[eg[1]] = eps[eg[1]]
  BY DEF EndpointGroups
<1> QED
  BY <1>1 DEF EndpointSources
-----------------------------------------------------------------------------
(* What reports add up to.                                                 *)

(* Where interests stand for a group: INCLUDE of nothing is no interest. *)
At(interests, g) == IF g \in DOMAIN interests THEN interests[g] ELSE Include({})

(* Maps of interests that agree everywhere are the same. *)
LEMMA SameInterests ==
  ASSUME NEW a \in Maps(Group, StoredInterest), NEW b \in Maps(Group, StoredInterest),
         \A g \in Group : At(a, g) = At(b, g)
  PROVE  a = b
<1>1. \A g \in DOMAIN a : g \in Group /\ a[g] # Include({})
  BY MapsElement DEF StoredInterest
<1>2. \A g \in DOMAIN b : g \in Group /\ b[g] # Include({})
  BY MapsElement DEF StoredInterest
<1>3. DOMAIN a = DOMAIN b
  BY <1>1, <1>2 DEF At
<1>4. \A g \in DOMAIN a : a[g] = b[g]
  BY <1>1, <1>3 DEF At
<1>. QED  BY <1>3, <1>4, MapsElement

(* A record changes its own group only (EndpointState::apply_record). *)
LEMMA RecordAt ==
  ASSUME NEW gs \in Maps(Group, StoredInterest), NEW r \in MembershipRecord
  PROVE  /\ At(gs, r.group) \in GroupInterest
         /\ At(ApplyRecord(gs, r), r.group) = NextInterest(At(gs, r.group), r)
         /\ \A g \in Group \ {r.group} : At(ApplyRecord(gs, r), g) = At(gs, g)
<1>. DEFINE k == r.group
            new == NextInterest(At(gs, k), r)
<1>1. k \in Group
  BY DEF MembershipRecord
<1>2. At(gs, k) \in GroupInterest
  BY MapsElement DEF At, StoredInterest, GroupInterest, Include
<1>3. new \in GroupInterest
  BY <1>2, NextInterestType
<1>4. ApplyRecord(gs, r) = IF new = Include({}) THEN RemoveAll(gs, {k}) ELSE Insert(gs, k, new)
  BY DEF ApplyRecord, At
<1>5. CASE new = Include({})
  <2>1. /\ DOMAIN RemoveAll(gs, {k}) = DOMAIN gs \ {k}
        /\ \A x \in DOMAIN gs \ {k} : RemoveAll(gs, {k})[x] = gs[x]
    BY RemoveMap
  <2>. QED  BY <1>2, <1>4, <1>5, <2>1 DEF At
<1>6. CASE new # Include({})
  <2>1. new \in StoredInterest
    BY <1>3, <1>6 DEF StoredInterest
  <2>2. /\ DOMAIN Insert(gs, k, new) = DOMAIN gs \cup {k} /\ Insert(gs, k, new)[k] = new
        /\ \A x \in DOMAIN gs : x # k => Insert(gs, k, new)[x] = gs[x]
    BY <1>1, <2>1, InsertMap
  <2>. QED  BY <1>2, <1>4, <1>6, <2>2 DEF At
<1>. QED  BY <1>5, <1>6

(* Each record of a report brings its group to where it is wanted. *)
Brings(report, interests) ==
  \A i \in 1..Len(report) : \A o \in GroupInterest :
    NextInterest(o, report[i]) = At(interests, report[i].group)

Told(report, g) == \E i \in 1..Len(report) : report[i].group = g

(* Such a report brings the groups it has a record for to where they are      *)
(* wanted, and leaves the others alone.                                       *)
LEMMA ReportBrings ==
  ASSUME NEW old \in Maps(Group, StoredInterest), NEW interests,
         NEW report \in Seq(MembershipRecord), Brings(report, interests)
  PROVE  /\ ApplyRecords(old, report) \in Maps(Group, StoredInterest)
         /\ \A g \in Group : At(ApplyRecords(old, report), g) =
                             IF Told(report, g) THEN At(interests, g) ELSE At(old, g)
<1>. DEFINE n == Len(report)
<1>1. PICK f \in [0..n -> Maps(Group, StoredInterest)] :
        /\ f[0] = old
        /\ \A i \in 1..n : f[i] = ApplyRecord(f[i - 1], report[i])
        /\ f[n] = ApplyRecords(old, report)
  BY ApplyRecordsPath
<1>2. n \in Nat /\ \A i \in 1..n : report[i] \in MembershipRecord /\ report[i].group \in Group
  <2>1. n \in Nat /\ \A i \in 1..n : report[i] \in MembershipRecord
    OBVIOUS
  <2>. QED  BY <2>1 DEF MembershipRecord
<1>. DEFINE ToldBy(k, g) == \E i \in 1..k : report[i].group = g
            S == {k \in Nat : k <= n => \A g \in Group :
                    At(f[k], g) = IF ToldBy(k, g) THEN At(interests, g) ELSE At(old, g)}
<1>3. 0 \in S
  <2>1. \A g \in Group : ~ToldBy(0, g)
    OBVIOUS
  <2>. QED  BY <1>1, <2>1
<1>4. ASSUME NEW k \in Nat, k \in S PROVE k + 1 \in S
  <2>. SUFFICES ASSUME k + 1 <= n, NEW g \in Group
                PROVE  At(f[k + 1], g) = IF ToldBy(k + 1, g) THEN At(interests, g) ELSE At(old, g)
    OBVIOUS
  <2>1. k + 1 \in 1..n /\ k \in 0..n /\ (k + 1) - 1 = k
    BY <1>2
  <2>2. f[k] \in Maps(Group, StoredInterest) /\ f[k + 1] = ApplyRecord(f[k], report[k + 1])
    BY <1>1, <2>1
  <2>3. report[k + 1] \in MembershipRecord
    BY <1>2, <2>1
  <2>4. At(f[k], g) = IF ToldBy(k, g) THEN At(interests, g) ELSE At(old, g)
    BY <1>4, <2>1
  <2>5. CASE g = report[k + 1].group
    <3>1. ToldBy(k + 1, g)
      BY <2>5
    <3>2. At(f[k + 1], g) = NextInterest(At(f[k], g), report[k + 1]) /\ At(f[k], g) \in GroupInterest
      BY <2>2, <2>3, <2>5, RecordAt
    <3>3. At(f[k + 1], g) = At(interests, g)
      BY <2>1, <2>5, <3>2 DEF Brings
    <3>. QED  BY <3>1, <3>3
  <2>6. CASE g # report[k + 1].group
    <3>1. ToldBy(k + 1, g) <=> ToldBy(k, g)
      <4>1. \A i \in 1..(k + 1) : i \in 1..k \/ i = k + 1
        OBVIOUS
      <4>2. \A i \in 1..k : i \in 1..(k + 1)
        OBVIOUS
      <4>. QED  BY <4>1, <4>2, <2>6
    <3>2. At(f[k + 1], g) = At(f[k], g)
      BY <2>2, <2>3, <2>6, RecordAt
    <3>. QED  BY <3>1, <3>2, <2>4
  <2>. QED  BY <2>5, <2>6
<1>5. n \in S
  BY <1>2, <1>3, <1>4, SetInduction
<1>6. \A g \in Group : At(f[n], g) = IF ToldBy(n, g) THEN At(interests, g) ELSE At(old, g)
  BY <1>2, <1>5
<1>7. f[n] \in Maps(Group, StoredInterest)
  BY <1>1, <1>2
<1>. QED  BY <1>1, <1>6, <1>7 DEF Told

(* If it has a record for every group that is wanted otherwise than before,   *)
(* what it leaves is what is wanted.                                          *)
LEMMA ReportsAddUp ==
  ASSUME NEW old \in Maps(Group, StoredInterest), NEW interests \in Maps(Group, StoredInterest),
         NEW report \in Seq(MembershipRecord), Brings(report, interests),
         \A g \in Group : Told(report, g) \/ At(old, g) = At(interests, g)
  PROVE  ApplyRecords(old, report) = interests
<1>1. /\ ApplyRecords(old, report) \in Maps(Group, StoredInterest)
      /\ \A g \in Group : At(ApplyRecords(old, report), g) =
                          IF Told(report, g) THEN At(interests, g) ELSE At(old, g)
  BY ReportBrings
<1>2. \A g \in Group : At(ApplyRecords(old, report), g) = At(interests, g)
  BY <1>1
<1>. QED  BY <1>1, <1>2, SameInterests
=============================================================================
