-------------------------- MODULE MCSemaphoreWaiters --------------------------
(* SemaphoreWaiters for TLC: a client of each kind and two that wait.       *)
EXTENDS SemaphoreWaiters

CONSTANTS a, b, c, d

MCClient == {a, b, c, d}
MCImpatient == {d}
MCTimed == {c}
=============================================================================
