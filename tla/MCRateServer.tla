------------------------------ MODULE MCRateServer ------------------------------
(* RateServer for TLC: three requests on one limit of three units.           *)
EXTENDS RateServer, TLC

CONSTANTS a, b, c, tokens

ThreeRequests == {a, b, c}

OneLimit == <<tokens>>
ThreeUnits == [l \in Limits |-> 3]
TwoMilliseconds == [l \in Limits |-> 2]

ClientClocks == {0, 1}
=============================================================================
