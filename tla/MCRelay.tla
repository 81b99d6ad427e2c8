------------------------------ MODULE MCRelay ------------------------------
(* Small instances of the relay for TLC. *)
EXTENDS RelayRefinement, TLC

CONSTANTS a, b, c,      \* endpoints
          g1, g2,         \* groups
          s1, s2,       \* sources
          i1, i2        \* gateway addresses

Record(kind, group, sources) == [kind |-> kind, group |-> group, sources |-> sources]
Reports1(kinds, group, sourceSets) ==
  {<<Record(k, group, ss)>> : k \in kinds, ss \in sourceSets}

(* Every kind of record, on two groups, to make the limits bite. *)
AllKinds ==
  Reports1({"LegacyReport", "LegacyLeave"}, g1, {{}})
  \cup Reports1({"ModeIsExclude", "ChangeToInclude", "AllowNewSources", "BlockOldSources"}, g1, {{s1}})
  \cup Reports1({"ModeIsInclude"}, g2, {{s1, s2}})
  \cup {<<Record("ChangeToExclude", g1, {}), Record("ChangeToInclude", g2, {})>>}

JoinAndLeave == {<<Record("ChangeToExclude", g1, {})>>, <<Record("LegacyLeave", g1, {})>>}

MCIpOf == [e \in Endpoint |-> IF e = c THEN i2 ELSE i1]
DirectWire == [e \in Endpoint |-> e]
LooseLimits == [n \in LimitName |-> 20]
TightLimits == [max_endpoints |-> 2, max_endpoints_per_ip |-> 2,
                max_groups_per_endpoint |-> 2, max_sources_per_group |-> 2,
                max_total_endpoint_groups |-> 3, max_total_sources |-> 3,
                max_upstream_subscriptions |-> 3, max_records_per_report |-> 2]
OneGateway == [LooseLimits EXCEPT !.max_endpoints = 1]
SameAddress == Permutations({a, b})
=============================================================================
