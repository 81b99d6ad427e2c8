---------------------------- MODULE MCGatewayLoop ----------------------------
(***************************************************************************)
(* Values for model checking GatewayLoop.                                  *)
(***************************************************************************)
EXTENDS GatewayLoop

CONSTANTS r1, r2, r3, a1, a2, g1, g2, s1

MCRelays == {r1, r2, r3}
MCFamily == [r \in MCRelays |-> IF r = r3 THEN "v6" ELSE "v4"]
MCCandidates == <<r1, r2, r3, r1>>
MCIp == {a1}
MCIpOf == [e \in Endpoint |-> a1]
MCLimits == [name \in LimitName |-> 1]

(* Nothing, or one group. *)
MCWantFew == {EmptyMap, [g \in {g1} |-> Exclude({})]}
MCAllVariants == [limit : BOOLEAN, fields : BOOLEAN]
=============================================================================
