------------------------------ MODULE MCRateLimiter ------------------------------
(* RateLimiter for TLC: a short window and a longer one with a larger limit.  *)
EXTENDS RateLimiter, TLC

CONSTANTS a, b, requests, tokens

TwoRequests == {a, b}

ShortFirst == <<requests, tokens>>
LongFirst == <<tokens, requests>>
MCLimit == [l \in Limits |-> IF l = tokens THEN 2 ELSE 1]
MCWindow == [l \in Limits |-> IF l = tokens THEN 3 ELSE 1]

Vector(x, y) == [l \in Limits |-> IF l = requests THEN x ELSE y]
MCAsks == {Vector(1, 1), Vector(0, 1), Vector(1, 2)}
=============================================================================
