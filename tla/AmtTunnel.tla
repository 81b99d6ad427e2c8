------------------------------ MODULE AmtTunnel ------------------------------
(***************************************************************************)
(* A gateway and its relay, end to end: the loop of module GatewayLoop, a  *)
(* NAT that may give it another address, a network that loses, duplicates  *)
(* and reorders, and a relay that keeps the promises of module             *)
(* RelayService but may crash and come back with a new secret and no state.*)
(*                                                                         *)
(* The network stays faulty until a Settle step, which may or may not      *)
(* come.  From then on nothing is lost and no time passes while a message  *)
(* or a due step waits: the question is what the faults leave behind.      *)
(***************************************************************************)
EXTENDS GatewayLoop

CONSTANTS Wire, Report,
          Addresses,     \* the addresses the NAT gives the gateway, in turn
          IdleTimeout,   \* the relay's gateway_idle_timeout
          MaxDisruptions \* bound: moves of the gateway and restarts of the relay

ASSUME TunnelAssumption ==
         /\ Addresses \in Seq(Endpoint) /\ Addresses # <<>>
         /\ IdleTimeout \in Nat /\ MaxDisruptions \in Nat

VARIABLES held, granted, native,  \* the relay service
          moves,                  \* how often the gateway's address has changed
          silent,                 \* the relay's idle timers
          epoch                   \* which of the relay's secrets is in use

Service == INSTANCE RelayService

address == Addresses[moves + 1]

relayVars == <<held, granted, native, silent, epoch>>
gatewayVars == <<gw, want, cycle, refresh, effective, retry, pc, welcomed>>
tunnelVars == <<vars, relayVars, moves>>

TunnelInit ==
  /\ Init
  /\ Service!ServiceInit
  /\ moves = 0
  /\ silent = EmptyMap
  /\ epoch = 0

(* As few native packets as the service allows. *)
Exactly(endpoints) == native' = Service!Needs(endpoints)
-----------------------------------------------------------------------------
(* The relay.                                                              *)

(* The addresses a datagram of the gateway may come from: it may have passed *)
(* the NAT before the last move.                                             *)
Origins == IF faulty THEN {Addresses[n] : n \in 1..(moves + 1)} ELSE {address}

Reply(m, msg) ==
  \E rest \in Rest(m) : SendFrom(rest, <<ToGateway(m.relay, msg)>>)

TunnelMac(nonce, gateway) == [nonce |-> nonce, gateway |-> gateway, epoch |-> epoch]

AcceptMac(m, gateway) == m.msg.mac = TunnelMac(m.msg.nonce, gateway)

RelayAdvertises(m) ==
  /\ m.msg.kind = "Discovery"
  /\ Reply(m, Advertisement(m.msg.nonce, m.relay))
  /\ UNCHANGED relayVars

RelayQueries(m, from) ==
  /\ m.msg.kind = "Request"
  /\ Reply(m, Query(m.msg.nonce, TunnelMac(m.msg.nonce, from), FALSE, {from}, 0))
  /\ Service!Grant(from)
  /\ UNCHANGED <<silent, epoch>>

RelayUpdates(m, from) ==
  /\ m.msg.kind = "Update"
  /\ AcceptMac(m, from)
  /\ Exactly(Service!AfterReport(held, from, m.msg.report))
  /\ Service!Accept(from, m.msg.report)
  /\ silent' = IF from \in DOMAIN held' THEN Insert(silent, from, 0)
                                        ELSE RemoveAll(silent, {from})
  /\ \E rest \in Rest(m) : SendFrom(rest, <<>>)
  /\ UNCHANGED epoch

RelayTearsDown(m) ==
  /\ m.msg.kind = "Teardown"
  /\ AcceptMac(m, m.msg.gateway)
  /\ Exactly(RemoveAll(held, {m.msg.gateway}))
  /\ Service!Release({m.msg.gateway})
  /\ silent' = RemoveAll(silent, {m.msg.gateway})
  /\ \E rest \in Rest(m) : SendFrom(rest, <<>>)
  /\ UNCHANGED epoch

RelayDrops(m, from) ==
  /\ \/ m.msg.kind = "Update" /\ ~AcceptMac(m, from)
     \/ m.msg.kind = "Teardown" /\ ~AcceptMac(m, m.msg.gateway)
  /\ SendFrom(net \ {m}, <<>>)
  /\ UNCHANGED relayVars

RelayHandles(m) ==
  /\ m.up
  /\ \/ RelayAdvertises(m)
     \/ \E from \in Origins : RelayQueries(m, from) \/ RelayUpdates(m, from) \/ RelayDrops(m, from)
     \/ RelayTearsDown(m)
  /\ UNCHANGED <<gatewayVars, faulty, moves>>

(* Mutant: nobody is ever idle. *)
IdleNever == {e \in DOMAIN silent : silent[e] > IdleTimeout}

Idle == {e \in DOMAIN silent : silent[e] >= IdleTimeout}

RelayPrunes ==
  /\ Idle # {}
  /\ Exactly(RemoveAll(held, Idle))
  /\ Service!Release(Idle)
  /\ silent' = RemoveAll(silent, Idle)
  /\ out' = <<>>
  /\ UNCHANGED <<gatewayVars, net, faulty, moves, epoch>>

RelayRestarts ==
  /\ faulty /\ moves + epoch < MaxDisruptions
  /\ epoch' = epoch + 1
  /\ held' = EmptyMap /\ granted' = {} /\ native' = {}
  /\ silent' = EmptyMap
  /\ out' = <<>>
  /\ UNCHANGED <<gatewayVars, net, faulty, moves>>
-----------------------------------------------------------------------------
(* The environment.                                                        *)

(* A gateway that ended reads nothing. *)
Lost(m) ==
  /\ faulty \/ (~Running /\ ~m.up)
  /\ net' = net \ {m}
  /\ out' = <<>>
  /\ UNCHANGED <<gatewayVars, relayVars, faulty, moves>>

NatMoves ==
  /\ faulty /\ moves + 1 < Len(Addresses) /\ moves + epoch < MaxDisruptions
  /\ moves' = moves + 1
  /\ out' = <<>>
  /\ UNCHANGED <<gatewayVars, relayVars, net, faulty>>

Settle ==
  /\ faulty
  /\ faulty' = FALSE
  /\ out' = <<>>
  /\ UNCHANGED <<gatewayVars, relayVars, net, moves>>

Quiet == net = {} /\ Idle = {} /\ (Running => ~SomethingDue)

Passes ==
  /\ faulty \/ Quiet
  /\ IF Running THEN Tick ELSE out' = <<>> /\ UNCHANGED <<gatewayVars, net>>
  /\ silent' = [e \in DOMAIN silent |->
                  IF silent[e] < IdleTimeout THEN silent[e] + 1 ELSE silent[e]]
  /\ UNCHANGED <<held, granted, native, epoch, faulty, moves>>

(* Once the network has settled, what has arrived is read, and the hosts and *)
(* the operator leave the gateway alone.                                     *)
GatewaySteps ==
  /\ \/ Top \/ Recv \/ LocalDone
     \/ (faulty \/ \A m \in net : m.up) /\ RecvDone
     \/ faulty /\ (LocalReport \/ LocalPrune \/ Shutdown \/ SocketFails)
  /\ UNCHANGED <<relayVars, faulty, moves>>

TunnelNext ==
  \/ GatewaySteps
  \/ \E m \in net : RelayHandles(m) \/ Lost(m)
  \/ RelayPrunes \/ RelayRestarts
  \/ NatMoves \/ Settle \/ Passes

(* The gateway's thread, the relay's and the clock run; a settled network    *)
(* delivers.                                                                 *)
TunnelSpec ==
  /\ TunnelInit /\ [][TunnelNext]_tunnelVars
  /\ WF_tunnelVars(~faulty /\ GatewaySteps)
  /\ WF_tunnelVars(~faulty /\ \E m \in net : RelayHandles(m) \/ Lost(m))
  /\ WF_tunnelVars(~faulty /\ RelayPrunes)
  /\ WF_tunnelVars(~faulty /\ Passes)
-----------------------------------------------------------------------------
(* Properties.                                                             *)

(* Would a packet from source s to group g get through to the gateway's      *)
(* hosts now?                                                                *)
Flows(g, s) ==
  /\ <<g, s>> \in native
  /\ g \in DOMAIN Service!Holds(held, address) /\ WantsSource(held[address][g], s)
  /\ AcceptsData(gw, Head(Candidates), g, s)

(* Whatever was lost, duplicated or reordered, whether the relay restarted  *)
(* or the gateway moved: once the network has settled, every packet the     *)
(* hosts want gets through, and does so from some point on without a break, *)
(* across the refreshes (run_static_gateway, replace_memberships).          *)
WantedPacketsFlow ==
  <>[](~faulty /\ Running =>
         \A g \in DOMAIN want, s \in Source : WantsSource(want[g], s) => Flows(g, s))

(* The relay is left with no state for an address the gateway no longer     *)
(* has, nor for a gateway that ended: Teardown or the idle timeout takes it *)
(* (previous_teardown, shutdown_gateway, prune_stale_gateways).             *)
StateFollowsGateway ==
  <>[](~faulty => DOMAIN held \subseteq IF Running THEN {address} ELSE {})
=============================================================================
