---------------------------- MODULE MCDispatchQueue ----------------------------
(* DispatchQueue for TLC: submitters with a timeout and without one.         *)
EXTENDS DispatchQueue, TLC

CONSTANTS p, q

MCBoth == {p, q}
MCAlone == {q}

MCTimeout == [s \in Submitter |-> IF s = p THEN 5 ELSE None]

\* The job of p may run twice.
MCRuns == [s \in Submitter |-> IF s = p THEN 2 ELSE 1]
=============================================================================
