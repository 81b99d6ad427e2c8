--------------------------- MODULE RelayRefinement ---------------------------
(***************************************************************************)
(* The relay implements the relay service: secrets and their rotation,     *)
(* limits, idle timers and native joins that fail stay inside.             *)
(***************************************************************************)
EXTENDS Relay

Credentialed == {mac.gateway : mac \in DOMAIN issued}

Arriving ==
  {gs \in Group \X Source : Asm(gs[1]) \in active \/ Ssm(gs[1], gs[2]) \in active}

Service ==
  INSTANCE RelayService WITH held <- state.endpoints, granted <- Credentialed,
                             native <- Arriving

(* Every step of the relay is a step of the service or invisible: a report  *)
(* is taken whole or not at all, from an address that was sent a MAC, and   *)
(* what the relay then holds is served by native subscriptions, whatever    *)
(* joins and leaves failed (handle_amt_datagram, sync_upstream,             *)
(* prune_stale_gateways).                                                   *)
ImplementsService == Service!ServiceSpec
=============================================================================
