----------------------------- MODULE RelayState -----------------------------
(***************************************************************************)
(* The relay's multicast membership state: what every gateway endpoint     *)
(* asked for, how one Membership Report changes it, and the indexes that   *)
(* are rebuilt from it (forwarding sets, aggregate interest per group,     *)
(* native subscriptions, totals).  Pure operators over values: the state   *)
(* machines that hold a relay state are in other modules.                  *)
(*                                                                         *)
(* A BTreeMap is a function whose domain is the set of its keys.           *)
(***************************************************************************)
EXTENDS Integers, Sequences, FiniteSets

CONSTANTS Endpoint,  \* gateway socket addresses
          Group,     \* multicast groups
          Source,    \* unicast sources
          Ip,        \* gateway IP addresses
          IpOf,      \* [Endpoint -> Ip], the address part of an endpoint
          Limits     \* the relay's configured resource limits

LimitName == {"max_endpoints", "max_endpoints_per_ip",
              "max_groups_per_endpoint", "max_sources_per_group",
              "max_total_endpoint_groups", "max_total_sources",
              "max_upstream_subscriptions", "max_records_per_report"}

ASSUME SetsAssumption ==
         /\ IsFiniteSet(Endpoint)
         /\ IsFiniteSet(Group)
         /\ IsFiniteSet(Source)
ASSUME IpAssumption == IpOf \in [Endpoint -> Ip]
ASSUME LimitsAssumption == Limits \in [LimitName -> Nat]
-----------------------------------------------------------------------------
(* Maps.                                                                   *)

EmptyMap == [x \in {} |-> x]

Insert(map, key, value) ==
  [x \in DOMAIN map \cup {key} |-> IF x = key THEN value ELSE map[x]]

RemoveAll(map, keys) == [x \in DOMAIN map \ keys |-> map[x]]

(* The maps from a subset of A to B. *)
Maps(A, B) == UNION {[D -> B] : D \in SUBSET A}
-----------------------------------------------------------------------------
(* Group interests and the native subscriptions that serve them.           *)

Include(sources) == [mode |-> "Include", sources |-> sources]
Exclude(sources) == [mode |-> "Exclude", sources |-> sources]

GroupInterest == [mode : {"Include", "Exclude"}, sources : SUBSET Source]

(* No stored interest is INCLUDE with no source: that means "no interest". *)
StoredInterest == GroupInterest \ {Include({})}

WantsSource(interest, source) ==
  IF interest.mode = "Include" THEN source \in interest.sources
                               ELSE source \notin interest.sources

(* The optional source is a set of at most one element. *)
Asm(group) == [group |-> group, source |-> {}]
Ssm(group, source) == [group |-> group, source |-> {source}]

UpstreamSubscription ==
  {Asm(g) : g \in Group} \cup {Ssm(g, s) : g \in Group, s \in Source}
-----------------------------------------------------------------------------
(* Membership records and how an endpoint's groups change under them.      *)

IncludeKind == {"ModeIsInclude", "ChangeToInclude"}
ExcludeKind == {"ModeIsExclude", "ChangeToExclude"}
RecordKind == IncludeKind \cup ExcludeKind \cup
              {"LegacyReport", "LegacyLeave", "AllowNewSources", "BlockOldSources"}

MembershipRecord == [kind : RecordKind, group : Group, sources : SUBSET Source]

(* The interest a record leaves behind, given the one before it. *)
NextInterest(old, record) ==
  CASE record.kind = "LegacyReport" -> Exclude({})
    [] record.kind = "LegacyLeave" -> Include({})
    [] record.kind \in IncludeKind -> Include(record.sources)
    [] record.kind \in ExcludeKind -> Exclude(record.sources)
    [] record.kind = "AllowNewSources" ->
         IF old.mode = "Include" THEN Include(old.sources \cup record.sources)
                                 ELSE Exclude(old.sources \ record.sources)
    [] record.kind = "BlockOldSources" ->
         IF old.mode = "Include" THEN Include(old.sources \ record.sources)
                                 ELSE Exclude(old.sources \cup record.sources)

(* Mutant: an INCLUDE left with no source is stored. *)
ApplyRecordKeepsEmpty(groups, record) ==
  LET g == record.group
      old == IF g \in DOMAIN groups THEN groups[g] ELSE Include({})
  IN  Insert(groups, g, NextInterest(old, record))

(* EndpointState::apply_record.  An ALLOW or BLOCK record with no source,   *)
(* and a BLOCK of a group that is not there, leave the map as it was; an    *)
(* INCLUDE left with no source is a removal.                                *)
ApplyRecord(groups, record) ==
  LET g == record.group
      old == IF g \in DOMAIN groups THEN groups[g] ELSE Include({})
      new == NextInterest(old, record)
  IN  IF new = Include({}) THEN RemoveAll(groups, {g})
                           ELSE Insert(groups, g, new)

(* The records of a report, applied in order. *)
ApplyRecords(groups, report) ==
  LET after[n \in 0..Len(report)] ==
        IF n = 0 THEN groups ELSE ApplyRecord(after[n - 1], report[n])
  IN  after[Len(report)]
-----------------------------------------------------------------------------
(* The indexes.                                                            *)

EndpointState == Maps(Group, StoredInterest) \ {EmptyMap}
Endpoints == Maps(Endpoint, EndpointState)

GroupsOf(endpoints) == UNION {DOMAIN endpoints[e] : e \in DOMAIN endpoints}

Members(endpoints, group) ==
  {e \in DOMAIN endpoints : group \in DOMAIN endpoints[e]}

(* Mutant: a source that some endpoint includes is still excluded. *)
AggregateForgetsIncluded(endpoints, group) ==
  LET interests == {endpoints[e][group] : e \in Members(endpoints, group)}
      included == UNION {i.sources : i \in {j \in interests : j.mode = "Include"}}
      excludes == {i.sources : i \in {j \in interests : j.mode = "Exclude"}}
      common == {s \in UNION excludes : \A x \in excludes : s \in x}
  IN  IF excludes # {} THEN Exclude(common) ELSE Include(included)

(* GroupSummary: the union of the INCLUDE sets, the intersection of the     *)
(* EXCLUDE sets, and the single interest that stands for both.              *)
AggregateInterest(endpoints, group) ==
  LET interests == {endpoints[e][group] : e \in Members(endpoints, group)}
      included == UNION {i.sources : i \in {j \in interests : j.mode = "Include"}}
      excludes == {i.sources : i \in {j \in interests : j.mode = "Exclude"}}
      common == {s \in UNION excludes : \A x \in excludes : s \in x}
  IN  IF excludes # {} THEN Exclude(common \ included) ELSE Include(included)

(* What the totals count: the groups of all endpoints, and their sources. *)
EndpointGroups(endpoints) ==
  {eg \in Endpoint \X Group : /\ eg[1] \in DOMAIN endpoints
                              /\ eg[2] \in DOMAIN endpoints[eg[1]]}

EndpointSources(endpoints) ==
  {egs \in (Endpoint \X Group) \X Source :
     /\ egs[1] \in EndpointGroups(endpoints)
     /\ egs[2] \in endpoints[egs[1][1]][egs[1][2]].sources}

(* RelayState::rebuild_indexes. *)
RebuildIndexes(endpoints) ==
  LET groups == GroupsOf(endpoints)
      aggregate == [g \in {x \in groups : AggregateInterest(endpoints, x) # Include({})}
                      |-> AggregateInterest(endpoints, g)]
  IN  [endpoints |-> endpoints,
       forwarding |-> [g \in groups |-> Members(endpoints, g)],
       aggregate |-> aggregate,
       subscriptions |->
         {Asm(g) : g \in {x \in DOMAIN aggregate : aggregate[x].mode = "Exclude"}}
         \cup UNION {{Ssm(g, s) : s \in aggregate[g].sources} :
                      g \in {x \in DOMAIN aggregate : aggregate[x].mode = "Include"}},
       total_endpoint_groups |-> Cardinality(EndpointGroups(endpoints)),
       total_sources |-> Cardinality(EndpointSources(endpoints))]

EmptyRelayState == RebuildIndexes(EmptyMap)
-----------------------------------------------------------------------------
(* Applying a report to the whole state.                                   *)

Groups(st, endpoint) ==
  IF endpoint \in DOMAIN st.endpoints THEN st.endpoints[endpoint] ELSE EmptyMap

(* RelayState::preview_report: would the report change the state? *)
ReportChanges(st, endpoint, report) ==
  LET candidate == ApplyRecords(Groups(st, endpoint), report)
  IN  /\ report # <<>>
      /\ IF candidate = EmptyMap THEN endpoint \in DOMAIN st.endpoints
                                 ELSE Groups(st, endpoint) # candidate

(* RelayState::apply_report. *)
ApplyReport(st, endpoint, report) ==
  LET candidate == ApplyRecords(Groups(st, endpoint), report)
  IN  IF report = <<>> THEN st
      ELSE RebuildIndexes(IF candidate = EmptyMap
                          THEN RemoveAll(st.endpoints, {endpoint})
                          ELSE Insert(st.endpoints, endpoint, candidate))

(* RelayState::remove_endpoint. *)
RemoveEndpoints(st, gone) == RebuildIndexes(RemoveAll(st.endpoints, gone))

EndpointCountForIp(st, ip) == Cardinality({e \in DOMAIN st.endpoints : IpOf[e] = ip})

(* What parsing with limits, and the first checks of apply_report_limited,  *)
(* say of a report before it is applied.                                    *)
ReportWithinLimits(report) ==
  /\ Len(report) <= Limits.max_records_per_report
  /\ \A n \in 1..Len(report) :
       Cardinality(report[n].sources) <= Limits.max_sources_per_group

EndpointWithinLimits(groups) ==
  /\ Cardinality(DOMAIN groups) <= Limits.max_groups_per_endpoint
  /\ \A g \in DOMAIN groups :
       Cardinality(groups[g].sources) <= Limits.max_sources_per_group

(* Mutant: the totals are not checked. *)
CandidateTotalsUnchecked(st, endpoint) ==
  /\ Cardinality(DOMAIN st.endpoints) <= Limits.max_endpoints
  /\ EndpointCountForIp(st, IpOf[endpoint]) <= Limits.max_endpoints_per_ip
  /\ EndpointWithinLimits(Groups(st, endpoint))
  /\ Cardinality(st.subscriptions) <= Limits.max_upstream_subscriptions

(* RelayState::apply_report_limited: the checks made on the result of        *)
(* applying a report from an endpoint.  A candidate that fails one is        *)
(* thrown away.                                                              *)
CandidateWithinLimits(st, endpoint) ==
  /\ Cardinality(DOMAIN st.endpoints) <= Limits.max_endpoints
  /\ EndpointCountForIp(st, IpOf[endpoint]) <= Limits.max_endpoints_per_ip
  /\ EndpointWithinLimits(Groups(st, endpoint))
  /\ st.total_endpoint_groups <= Limits.max_total_endpoint_groups
  /\ st.total_sources <= Limits.max_total_sources
  /\ Cardinality(st.subscriptions) <= Limits.max_upstream_subscriptions

NearLimit(value, limit) == limit # 0 /\ value >= limit - (limit \div 10)

IsNearLimits(st) ==
  \/ NearLimit(Cardinality(DOMAIN st.endpoints), Limits.max_endpoints)
  \/ NearLimit(st.total_endpoint_groups, Limits.max_total_endpoint_groups)
  \/ NearLimit(st.total_sources, Limits.max_total_sources)
  \/ NearLimit(Cardinality(st.subscriptions), Limits.max_upstream_subscriptions)

(* RelayState::matching_endpoints: who a packet is forwarded to. *)
MatchingEndpoints(st, source, group) ==
  IF group \in DOMAIN st.forwarding
  THEN {e \in st.forwarding[group] : WantsSource(st.endpoints[e][group], source)}
  ELSE {}
=============================================================================
