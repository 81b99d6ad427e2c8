----------------------------- MODULE MCServices -----------------------------
(***************************************************************************)
(* Values for model checking the parts that a relay and a gateway call:    *)
(* the control limiter, the native subscriptions, the data path, the       *)
(* metrics files and the library's list of relays.  The parts share no     *)
(* state, so each behaviour is one part's.                                 *)
(***************************************************************************)
EXTENDS ControlLimiter, UpstreamManager, DataPath, Metrics

CONSTANTS u1, u2, u3,                 \* subscriptions
          e4, e6, f1, f2, f3, f4, f5, \* gateways and flows
          r1, r2, r3, r4              \* relays

VARIABLES scenario, gateway, lists

listVars == <<gateway, lists>>
suiteVars == <<scenario, vars, managerVars, dataVars, metricsVars, listVars>>

MCSubscription == {u1, u2, u3}
-----------------------------------------------------------------------------
(* The data path.  Packets of sizes around the tunnels' MTUs of 1250 and   *)
(* 1230: whole, in two, in three; with padding, with checksums left to the *)
(* hardware, truncated, with a length that cannot be; fragments, header    *)
(* options, the highest offset, nothing behind the header; UDP headers cut *)
(* short, with a length that is too small or too large, and behind         *)
(* extension headers; ICMP and IPv6.                                       *)

V4 == [family |-> 4, captured |-> 1000, total |-> 1000, header |-> 20, df |-> FALSE,
       mf |-> FALSE, offset |-> 0, ecn |-> "Ce", sum |-> TRUE, udpsum |-> TRUE,
       udplen |-> 980, upper |-> "udp"]
V6 == [V4 EXCEPT !.family = 6, !.header = 40, !.ecn = "Ect0"]
Sized(p, size) == [p EXCEPT !.captured = size, !.total = size, !.udplen = size - p.header]
NoSum(p) == [p EXCEPT !.udpsum = FALSE]
Df(size) == [Sized(V4, size) EXCEPT !.df = TRUE]

PacketsV4 ==
  {[Sized(V4, n) EXCEPT !.ecn = "Ect0"] : n \in {20, 1230, 1251}} \cup
  {Sized(V4, n) : n \in {1231, 2432}} \cup
  {[Df(n) EXCEPT !.ecn = "NotEct"] : n \in {1240, 1400}} \cup
  {NoSum([Sized(V4, 1250) EXCEPT !.captured = 1256, !.sum = FALSE]),
   NoSum(Sized(V4, 27)), NoSum([Sized(V4, 28) EXCEPT !.udplen = 9]),
   NoSum([Sized(V4, 1000) EXCEPT !.udplen = 7]),
   [Sized(V4, 1200) EXCEPT !.captured = 1000], [Sized(V4, 1200) EXCEPT !.total = 10],
   [Sized(V4, 1300) EXCEPT !.mf = TRUE, !.offset = 100],
   [Sized(V4, 1301) EXCEPT !.mf = TRUE], [Sized(V4, 1300) EXCEPT !.header = 24, !.udplen = 1276],
   [Sized(V4, 1300) EXCEPT !.offset = 8029], [Sized(V4, 1300) EXCEPT !.offset = 8031],
   [Df(1400) EXCEPT !.upper = "icmp error"], [Df(1400) EXCEPT !.upper = "icmp query"]}
PacketsV6 ==
  {Sized(V6, 1230), NoSum(Sized(V6, 1240)), NoSum([Sized(V6, 1200) EXCEPT !.upper = "extended udp"]),
   [Sized(V6, 1300) EXCEPT !.upper = "icmp error"],
   [Sized(V6, 1300) EXCEPT !.ecn = "Ce"], [Sized(V6, 1300) EXCEPT !.upper = "hidden"]}

(* The gateways want the flows of these packets, or three other flows whose  *)
(* packets do not fit while the feedback limiter tracks two.                  *)
MCPackets == [f \in {f1, f2, f3, f4, f5} |->
                CASE f = f1 -> PacketsV4 [] f = f2 -> PacketsV6 [] f \in {f3, f4, f5} -> {Df(1400)}]
MCOuterFamily == [e \in {e4, e6} |-> IF e = e4 THEN 4 ELSE 6]
MCInterests ==
  {[e \in {e4, e6} |-> [f \in {f1, f2, f3, f4, f5} |->
      IF (f \in {f1, f2}) # (w[3] = "traffic") THEN "none" ELSE IF e = e4 THEN w[1] ELSE w[2]]] :
     w \in {<<"include", "exclude", "traffic">>, <<"exclude", "exclude", "traffic">>,
            <<"none", "include", "traffic">>, <<"include", "none", "limit">>}}
MCRemarks == {<<"Ect0", "Ce">>, <<"NotEct", "Ce">>, <<"Ect0", "Ect1">>}
-----------------------------------------------------------------------------
(* Four relays, one of another family, and every list of up to three. *)
Relays == {r1, r2, r3, r4}
Lists == INSTANCE GatewayFailover WITH
  Endpoint <- {e4}, Group <- {f1}, Source <- {f2}, Ip <- {e4}, IpOf <- [e \in {e4} |-> e4],
  Limits <- [name \in {} |-> 0],
  RelayAddr <- Relays, Family <- [r \in Relays |-> IF r = r4 THEN "v6" ELSE "v4"], Unusable <- {},
  Nonce <- {1}, Lists <- UNION {[1..n -> Relays] : n \in 0..3}, Configured <- <<r1, r2, r4, r1>>,
  MaxLists <- 3, arrived <- lists
-----------------------------------------------------------------------------
(* Parts that are not looked at stay in an initial state. *)
LimiterIdle == Init
ManagerIdle == ManagerInit
DataIdle ==
  flow = f1 /\ capable = {} /\ interest = (CHOOSE i \in Interests : TRUE) /\ DataInit
MetricsIdle == writer = TRUE /\ MetricsInit
ListsIdle == Lists!Init

SuiteInit ==
  \/ scenario = "limiter" /\ Init /\ ManagerIdle /\ DataIdle /\ MetricsIdle /\ ListsIdle
  \/ scenario = "reconcile" /\ LimiterIdle /\ ManagerInit /\ DataIdle /\ MetricsIdle /\ ListsIdle
  \/ scenario = "traffic" /\ LimiterIdle /\ ManagerIdle /\ DataInit /\ MetricsIdle /\ ListsIdle
  \/ scenario = "metrics" /\ LimiterIdle /\ ManagerIdle /\ DataIdle /\ MetricsInit /\ ListsIdle
  \/ scenario = "lists" /\ LimiterIdle /\ ManagerIdle /\ DataIdle /\ MetricsIdle /\ Lists!Init

SuiteNext ==
  \/ /\ scenario = "limiter" /\ Next
     /\ UNCHANGED <<scenario, managerVars, dataVars, metricsVars, listVars>>
  \/ /\ scenario = "reconcile" /\ ManagerNext
     /\ UNCHANGED <<scenario, vars, dataVars, metricsVars, listVars>>
  \/ /\ scenario = "traffic" /\ DataNext
     /\ UNCHANGED <<scenario, vars, managerVars, metricsVars, listVars>>
  \/ /\ scenario = "metrics" /\ MetricsNext
     /\ UNCHANGED <<scenario, vars, managerVars, dataVars, listVars>>
  \/ /\ scenario = "lists" /\ Lists!Next
     /\ UNCHANGED <<scenario, vars, managerVars, dataVars, metricsVars>>

(* The daemon's loop calls maybe_emit again and again, and time passes.  The  *)
(* relays of the list never answer, so that discovery is restarted again and  *)
(* again.                                                                     *)
SuiteSpec ==
  /\ SuiteInit /\ [][SuiteNext]_suiteVars
  /\ WF_metricsVars(scenario = "metrics" /\ Emit)
  /\ WF_metricsVars(scenario = "metrics" /\ IntervalPasses)
  /\ WF_listVars(scenario = "lists" /\ Lists!Restart)
-----------------------------------------------------------------------------
(* The relay in use and the fallback relays are together the candidates, and  *)
(* one that stays a candidate is tried again and again (GatewayFailover:      *)
(* restart_discovery, replace_relay_candidates).                              *)
CandidatesTakeTurns ==
  /\ [](scenario = "lists" => Lists!FailoverSet)
  /\ scenario = "lists" => Lists!CandidatesTakeTurns
=============================================================================
