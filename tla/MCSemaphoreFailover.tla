-------------------------- MODULE MCSemaphoreFailover --------------------------
(* SemaphoreFailover for TLC: a mutex and two clients.                      *)
EXTENDS SemaphoreFailover

CONSTANTS a, b

MCIdentifier == {a, b}
OneTimeout == [i \in MCIdentifier |-> 2]
ServerClock == {0}
=============================================================================
