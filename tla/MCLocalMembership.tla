------------------------- MODULE MCLocalMembership -------------------------
(***************************************************************************)
(* Values for model checking LocalMembership.                              *)
(***************************************************************************)
EXTENDS LocalMembership

CONSTANTS h1, h2, g1, g2, s1, s2, i1

MCIpOf == [h \in Endpoint |-> i1]
MCLimits == [name \in LimitName |-> IF name = "max_records_per_report" THEN 1 ELSE 9]
MCJoins == {Ssm(g1, s2)}
MCWant == {EmptyMap, [g \in {g1} |-> Exclude({})], [g \in {g1} |-> Include({s1})],
           [g \in {g2} |-> Exclude({s2})], [g \in {g1, g2} |-> Exclude({s2})]}
=============================================================================
