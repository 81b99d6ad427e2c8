--------------------------- MODULE GatewayFailover ---------------------------
(***************************************************************************)
(* A gateway whose relays are replaced while it runs, as a user of the     *)
(* library may do (Gateway::replace_relay_candidates): between restarts of *)
(* the discovery any list of relays may arrive, with duplicates, of        *)
(* another family, and without the relay in use.                           *)
(***************************************************************************)
EXTENDS Gateway

CONSTANTS Lists,       \* the lists of relays that arrive
          Configured,  \* the first of them, not empty
          MaxLists     \* bound on how many arrive

VARIABLES gateway,
          arrived      \* how many lists have arrived

vars == <<gateway, arrived>>

InList(r, seq) == \E n \in 1..Len(seq) : seq[n] = r

(* The nonces do not matter here. *)
Init ==
  /\ \E nonce \in Nonce : gateway = NewGateway(Head(Configured), Tail(Configured), nonce, nonce)
  /\ arrived = 0

Restart ==
  /\ \E nonce \in Nonce : gateway' = RestartDiscovery(gateway, nonce, nonce)
  /\ UNCHANGED arrived

Replace ==
  /\ arrived < MaxLists
  /\ \E relays \in Lists : gateway' = ReplaceRelayCandidates(gateway, relays)
  /\ arrived' = arrived + 1

Next == Restart \/ Replace

Spec == Init /\ [][Next]_vars
-----------------------------------------------------------------------------
(* However lists arrive and restarts fall between them, the relay in use and  *)
(* the fallback relays are together the candidates, each of them once         *)
(* (restart_discovery, replace_relay_candidates); only the relay in use may be *)
(* none of them, and once left it is not chosen again.                        *)
FailoverSet ==
  LET rest == gateway.fallback
  IN  /\ \A r \in RelayAddr \ {gateway.relay} : InList(r, rest) <=> InList(r, gateway.candidates)
      /\ ~InList(gateway.relay, rest)
      /\ \A m, n \in 1..Len(rest) : rest[m] = rest[n] => m = n

(* Every relay that stays a candidate is tried again and again, whatever the  *)
(* order in which replace_relay_candidates left them.                         *)
CandidatesTakeTurns ==
  \A r \in RelayAddr : <>[]InList(r, gateway.candidates) => []<>(gateway.relay = r)
=============================================================================
