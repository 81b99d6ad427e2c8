----------------------------- MODULE MCAmtTunnel -----------------------------
(***************************************************************************)
(* Values for model checking AmtTunnel.                                    *)
(***************************************************************************)
EXTENDS AmtTunnel

CONSTANTS r1, a1, a2, g1, g2, s1

MCFamily == [r \in RelayAddr |-> "v4"]
MCCandidates == <<r1>>
MCIp == {a1}
MCIpOf == [e \in Endpoint |-> a1]
MCLimits == [name \in LimitName |-> 1]
MCPlain == {[limit |-> FALSE, fields |-> TRUE]}
MCWire == [e \in Endpoint |-> e]
MCAddresses == <<a1, a2>>

MCOne == [g \in {g1} |-> Include({s1})]
MCWantOne == {MCOne}
=============================================================================
