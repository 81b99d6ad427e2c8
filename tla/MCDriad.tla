------------------------------- MODULE MCDriad -------------------------------
(***************************************************************************)
(* Model checking the DRIAD gateway: the tunnels and the lookup threads of *)
(* DriadGateway, one tunnel of DriadTunnel and the lookups of              *)
(* DriadResolver, each on its own.  The scenario says which of them a      *)
(* behaviour is about; the others stay as they were initially.             *)
(***************************************************************************)
EXTENDS DriadGateway, DriadTunnel

CONSTANTS g1, g2, asm,     \* groups
          r1, r2, r3,      \* relays
          k1, k2           \* lookup workers

VARIABLES scenario,
          zone, worker, queries, started       \* of DriadResolver
-----------------------------------------------------------------------------
(* All tunnels, with changing interests and failures ("tunnels"), or with     *)
(* neither ("share").  There three tunnels share one worker, and refreshes    *)
(* are just so far apart that it suffices.                                    *)

In(sources) == [mode |-> "Include", sources |-> sources]
Ex(sources) == [mode |-> "Exclude", sources |-> sources]
Wants(groups, interest) == [x \in groups |-> interest]

Constant == {Wants({g1}, In({1, 2, 3}))}
Changing == Constant \cup {Wants({g1, g2, asm}, In({2, 3})), Wants({g1, g2}, In({1})), Wants({g1}, Ex({1}))}

Share == INSTANCE DriadGateway WITH
  Interests <- Constant, Failures <- FALSE, MaxTunnels <- 3, MinRefresh <- 2, MaxRefresh <- 3

ASSUME Share!WorkersSuffice
-----------------------------------------------------------------------------
(* One tunnel, when DNS answers change, sockets fail and two relays advertise *)
(* the same address ("select"), when relays fail but nothing else does        *)
(* ("failover"), and when a relay delivers nothing and is refreshed before    *)
(* the traffic timeout ("mute").                                              *)

At(relay, rank) == [relay |-> relay, rank |-> rank]
All(m) == [r \in {r1, r2, r3} |-> m]
Only(relay, m, others) == [r \in {r1, r2, r3} |-> IF r = relay THEN m ELSE others]

TwoTiers == <<At(r1, 1), At(r2, 1), At(r3, 2)>>
Reordered == <<At(r3, 1), At(r1, 2), At(r2, 2)>>
SelectMoods == {All("silent"), Only(r2, "willing", "loaded")}
FailoverMoods == {Only(r1, "silent", "willing"), Only(r1, "mute", "willing"),
                  Only(r1, "loaded", "willing"), All("silent"), Only(r2, "mute", "silent")}

Same == [r \in {r1, r2, r3} |-> r]
Shared == [r \in {r1, r2, r3} |-> IF r = r3 THEN r1 ELSE r]
NoAnycast == <<>>
SelectResults == {TwoTiers, Reordered}

Failover == INSTANCE DriadTunnel WITH
  Relay <- {r1, r2, r3}, Redirect <- Same, Allowed <- {r1, r2},
  DnsResults <- {<<At(r1, 1), At(r2, 2)>>}, NoRelayResult <- TRUE, Report <- {1},
  Ttl <- 1, Delay <- 1, MaxProbes <- 1, QueryTimeout <- 2, RefreshInterval <- 3, HoldDown <- 2,
  TrafficInitial <- 1, TrafficMax <- 2, RetryMax <- 2, Rtt <- 1,
  Faults <- FALSE, EveryTick <- TRUE, Duplicates <- FALSE, Moods <- FailoverMoods

Mute == INSTANCE DriadTunnel WITH
  Relay <- {r1, r2, r3}, Redirect <- Same, Allowed <- {r1, r2},
  DnsResults <- {<<At(r1, 1)>>}, NoRelayResult <- FALSE, Report <- {1},
  Ttl <- 1, Delay <- 1, MaxProbes <- 1, QueryTimeout <- 2, RefreshInterval <- 1, HoldDown <- 2,
  TrafficInitial <- 3, TrafficMax <- 3, RetryMax <- 2, Rtt <- 1,
  Faults <- FALSE, EveryTick <- TRUE, Duplicates <- FALSE, Moods <- {All("mute")}

ASSUME Failover!TimersAssumption /\ Mute!TimersAssumption
ASSUME Failover!RelayAssumption /\ Mute!RelayAssumption
-----------------------------------------------------------------------------
(* Lookups: one with all that DNS may hold ("lookup"), and two that share the *)
(* budget ("budget").                                                         *)

RR(owner, type, ttl, data) == [owner |-> owner, type |-> type, ttl |-> ttl, data |-> data]

Rdata(precedence, type, length, value) ==
  [precedence |-> precedence, type |-> type, length |-> length, value |-> value]

Name == <<"s", "rev">>
A == <<"a">>
B == <<"b">>
H == <<"host">>
I == <<"i">>

V4(precedence, value) == Rdata(precedence, 1, 4, value)
V6(precedence, value) == Rdata(precedence, 2, 16, value)
Host(precedence, name) == Rdata(precedence, 3, Len(name) + 2, name)
NoRelay(precedence) == Rdata(precedence, 0, 0, <<>>)

(* Aliases on the way to the record and to the addresses of its host, and the  *)
(* record of another source.                                                   *)
Aliased == << RR(Name, "CNAME", 5, A), RR(B, "AMTRELAY", 9, V4(0, "x4")),
              RR(A, "AMTRELAY", 9, Host(1, H)), RR(H, "CNAME", 2, I),
              RR(I, "A", 7, "y4"), RR(I, "AAAA", 1, "y6") >>

(* A renamed subtree, equal precedences, and a relay that two records name. *)
Renamed == << RR(<<"rev">>, "DNAME", 3, <<"new">>), RR(<<"s", "new">>, "AMTRELAY", 4, V4(1, "x4")),
              RR(<<"s", "new">>, "AMTRELAY", 4, V4(1, "y4")), RR(<<"s", "new">>, "AMTRELAY", 2, V6(1, "x6")),
              RR(<<"s", "new">>, "AMTRELAY", 9, V4(2, "x4")), RR(<<"s", "new">>, "AMTRELAY", 9, V4(0, "z4")) >>

Declined == << RR(Name, "AMTRELAY", 5, V4(0, "x4")), RR(Name, "AMTRELAY", 5, NoRelay(9)) >>

(* Records that cannot be read or used, and a host whose aliases are a circle. *)
Broken == << RR(Name, "AMTRELAY", 5, Rdata(0, 1, 5, "x4")), RR(Name, "AMTRELAY", 5, V4(1, "bad")),
             RR(Name, "AMTRELAY", 5, Rdata(1, 3, 1, <<>>)), RR(Name, "AMTRELAY", 5, Host(2, H)),
             RR(H, "CNAME", 4, I), RR(I, "CNAME", 4, H), RR(Name, "AMTRELAY", 5, V6(3, "y6")) >>

Circle == << RR(Name, "CNAME", 5, A), RR(A, "CNAME", 5, Name) >>

(* A renamed subtree inside itself: every name leads to a longer one. *)
Growing == << RR(<<"rev">>, "DNAME", 5, <<"x", "rev">>) >>

Lookup == INSTANCE DriadResolver WITH
  Worker <- {k1}, Zones <- {Aliased, Renamed, Declined, Broken, Circle, Growing},
  SourceName <- Name, Resolvers <- 2, Attempts <- 2, MaxAliasDepth <- 3, MaxCandidates <- 4,
  MaxQueries <- 2, Window <- 2, MaxTtl <- 100, Ipv6 <- {"x6", "y6"}, Unusable <- {"bad"},
  Stray <- <<RR(Name, "AMTRELAY", 9, V4(0, "stray"))>>, Faults <- TRUE

Budget == INSTANCE DriadResolver WITH
  Worker <- {k1, k2}, Zones <- {Aliased, Circle, Growing},
  SourceName <- Name, Resolvers <- 1, Attempts <- 1, MaxAliasDepth <- 3, MaxCandidates <- 4,
  MaxQueries <- 2, Window <- 2, MaxTtl <- 100, Ipv6 <- {"x6", "y6"}, Unusable <- {"bad"},
  Stray <- <<RR(Name, "AMTRELAY", 9, V4(0, "stray"))>>, Faults <- TRUE

ASSUME Lookup!ConfigAssumption /\ Budget!ConfigAssumption
-----------------------------------------------------------------------------
lookupVars == <<zone, worker, queries, started>>
allVars == <<scenario, vars, tunnelVars, lookupVars>>

GatewayIdle == Init /\ wanted \in Constant
TunnelIdle == Mute!TunnelInit
LookupIdle == Budget!Init /\ zone = Circle

OnlyGateway == UNCHANGED <<scenario, tunnelVars, lookupVars>>
OnlyTunnel == UNCHANGED <<scenario, vars, lookupVars>>
OnlyLookup == UNCHANGED <<scenario, vars, tunnelVars>>

(* What may never happen. *)
DriadInit ==
  \/ scenario = "tunnels" /\ Init /\ TunnelIdle /\ LookupIdle
  \/ scenario = "select" /\ GatewayIdle /\ TunnelInit /\ LookupIdle
  \/ scenario = "lookup" /\ GatewayIdle /\ TunnelIdle /\ Lookup!Init

DriadNext ==
  \/ scenario = "tunnels" /\ Next /\ OnlyGateway
  \/ scenario = "select" /\ TunnelNext /\ OnlyTunnel
  \/ scenario = "lookup" /\ Lookup!Next /\ OnlyLookup

DriadSpec == DriadInit /\ [][DriadNext]_allVars

(* What must happen, when the loops and the threads run, time passes, and     *)
(* queries are answered or time out.                                          *)
ProgressInit ==
  \/ scenario = "share" /\ Share!Init /\ TunnelIdle /\ LookupIdle
  \/ scenario = "failover" /\ GatewayIdle /\ Failover!TunnelInit /\ LookupIdle
  \/ scenario = "budget" /\ GatewayIdle /\ TunnelIdle /\ Budget!Init

ProgressNext ==
  \/ scenario = "share" /\ Share!Next /\ OnlyGateway
  \/ scenario = "failover" /\ Failover!TunnelNext /\ OnlyTunnel
  \/ scenario = "budget" /\ Budget!Next /\ OnlyLookup

ShareRuns ==
  /\ WF_vars(scenario = "share" /\ Share!LoopTop)
  /\ WF_vars(scenario = "share" /\ Share!Tick)
  /\ \A s \in 1..3 : WF_vars(scenario = "share" /\ Share!Poll(s))
  /\ \A t \in Thread : WF_vars(scenario = "share" /\ Share!ThreadStep(t))

FailoverRuns ==
  /\ WF_tunnelVars(scenario = "failover" /\ Failover!PollTunnel)
  /\ WF_tunnelVars(scenario = "failover" /\ Failover!TickTunnel)

BudgetRuns ==
  /\ WF_lookupVars(scenario = "budget" /\ Budget!Tick)
  /\ \A k \in {k1, k2} :
       \/ []<>(scenario = "budget" => Budget!Stopped(k))
       \/ []<><<scenario = "budget" /\ Budget!WorkerStep(k)>>_lookupVars

ProgressSpec ==
  ProgressInit /\ [][ProgressNext]_allVars /\ ShareRuns /\ FailoverRuns /\ BudgetRuns

MuteSpec ==
  /\ scenario = "mute" /\ GatewayIdle /\ Mute!TunnelInit /\ LookupIdle
  /\ [][Mute!TunnelNext /\ OnlyTunnel]_allVars
  /\ WF_tunnelVars(Mute!PollTunnel) /\ WF_tunnelVars(Mute!TickTunnel)
-----------------------------------------------------------------------------
(* While DNS names a relay that is willing, and says nothing new, the source  *)
(* has a tunnel again and again; and a relay that delivers nothing does not   *)
(* stay in use, when it is refreshed less often than the traffic timeout      *)
(* (schedule_next_round_if_exhausted, traffic_deadline).                      *)
SourceServed ==
  /\ scenario = "failover" => Failover!WillingIsFound
  /\ scenario = "failover" => Failover!MuteIsLeft

(* A relay that delivers nothing is left, however often it is refreshed. *)
MuteIsLeftAtAnyRefresh == Mute!MuteIsLeft

(* The candidates are the usable relays that DNS names for the source, each   *)
(* once, with the precedence of a record that leads to it and the least of    *)
(* the lifetimes on the way; better ones come first and among equals the      *)
(* families take turns; a source that declares it has no relay gets none      *)
(* (resolve_source_candidates, order_relay_candidates).                       *)
CandidatesRight ==
  Lookup!TypeOK /\ Lookup!CandidatesSaid /\ Lookup!CandidatesOrdered /\ Lookup!NoRelayObeyed

(* Lookups get done: although tunnels share the workers and are visited in a  *)
(* fixed order, each one gets its lookup, where the workers suffice for the   *)
(* others' refreshes (DriadWorkerPool); within the budget of queries every    *)
(* lookup ends, though aliases go in circles and resolvers do not answer      *)
(* (resolve_source_candidates, wait_for_query_budget).                        *)
LookupsGetDone ==
  /\ []Budget!BudgetKept
  /\ scenario = "share" => Share!EveryTunnelServed
  /\ \A k \in {k1, k2} : <>(scenario = "budget" => Budget!Finished(k))
=============================================================================
