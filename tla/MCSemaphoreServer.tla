--------------------------- MODULE MCSemaphoreServer ---------------------------
(* SemaphoreServer for TLC: owners with different lock timeouts.            *)
EXTENDS SemaphoreServer, TLC

CONSTANTS a, b, c

MCIdentifier == {a, b, c}

\* Two short lock timeouts and a long one on the same semaphore.
MixedTimeouts == [i \in MCIdentifier |-> IF i = c THEN 3 ELSE 1]

ServerClock == {0}
=============================================================================
