--------------------------- MODULE MCSemaphoreClient ---------------------------
(* SemaphoreClient for TLC.                                                 *)
EXTENDS SemaphoreClient, TLC

CONSTANTS p, q

MCInstance == {p}
MCRival == {<<q, 1>>}
=============================================================================
