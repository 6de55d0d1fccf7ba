---------------------------- MODULE MCDispatchWorker ----------------------------
(* DispatchWorker for TLC: two workers of one queue.                         *)
EXTENDS DispatchWorker, TLC

CONSTANTS v, w

MCWorker == {v, w}
=============================================================================
