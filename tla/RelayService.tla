----------------------------- MODULE RelayService -----------------------------
(***************************************************************************)
(* What an AMT relay promises its gateways, without saying how: an address *)
(* that was given credentials may state what it wants; what it stated is   *)
(* held until it says otherwise or is released; and the packets that       *)
(* anybody asked for arrive from the native network.                       *)
(*                                                                         *)
(* Module RelayRefinement shows that module Relay implements this, module  *)
(* AmtTunnel puts it at the far end of a gateway.                          *)
(***************************************************************************)
EXTENDS RelayState

CONSTANTS Wire,    \* the address credentials are made for, of each endpoint
          Report   \* the reports gateways may send

VARIABLES held,     \* what every endpoint asked for
          granted,  \* addresses that credentials were made for
          native    \* the packets, <<group, source>>, that reach the relay

serviceVars == <<held, granted, native>>

Holds(endpoints, e) == IF e \in DOMAIN endpoints THEN endpoints[e] ELSE EmptyMap

(* The packets that somebody asked for. *)
Needs(endpoints) ==
  {gs \in Group \X Source :
     \E e \in DOMAIN endpoints : /\ gs[1] \in DOMAIN endpoints[e]
                                 /\ WantsSource(endpoints[e][gs[1]], gs[2])}

AfterReport(endpoints, e, report) ==
  LET groups == ApplyRecords(Holds(endpoints, e), report)
  IN  IF groups = EmptyMap THEN RemoveAll(endpoints, {e}) ELSE Insert(endpoints, e, groups)
-----------------------------------------------------------------------------
ServiceInit == held = EmptyMap /\ granted = {} /\ native = {}

Grant(e) ==
  /\ granted' = granted \cup {Wire[e]}
  /\ UNCHANGED <<held, native>>

(* A report is taken as a whole. *)
Accept(e, report) ==
  /\ Wire[e] \in granted
  /\ held' = AfterReport(held, e, report)
  /\ Needs(held') \subseteq native'
  /\ UNCHANGED granted

(* A Teardown, or silence. *)
Release(gone) ==
  /\ held' = RemoveAll(held, gone)
  /\ Needs(held') \subseteq native'
  /\ UNCHANGED granted

ServiceNext ==
  \/ \E e \in Endpoint : Grant(e)
  \/ \E e \in Endpoint, report \in Report : Accept(e, report)
  \/ \E gone \in SUBSET Endpoint : Release(gone)

ServiceSpec == ServiceInit /\ [][ServiceNext]_serviceVars
=============================================================================
