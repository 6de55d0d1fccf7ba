---------------------------- MODULE SemaphoreFailover ----------------------------
(***************************************************************************)
(* SemaphoreServer on a master with an asynchronous replica, as the README *)
(* of the library describes it: the replica has an earlier state of both   *)
(* keys, and a failover makes that state the current one.  Replication is  *)
(* Redis's, not this repository's.                                         *)
(***************************************************************************)
EXTENDS SemaphoreServer

VARIABLE replica    \* what the replica has of the owners and fencing keys

fvars == <<vars, replica>>

FInit ==
    /\ Init
    /\ replica = [owners |-> owners, ownersExp |-> ownersExp, fencing |-> fencing]

\* A script or the clock, not yet replicated.
Serve == Next /\ UNCHANGED replica

Replicate ==
    /\ replica' = [owners |-> owners, ownersExp |-> ownersExp, fencing |-> fencing]
    /\ UNCHANGED vars

Failover ==
    /\ owners' = replica.owners
    /\ ownersExp' = replica.ownersExp
    /\ fencing' = replica.fencing
    /\ UNCHANGED <<now, token, replica>>

FNext == Serve \/ Replicate \/ Failover

FSpec == FInit /\ [][FNext]_fvars

-----------------------------------------------------------------------------

\* Every grant carries a token above all tokens granted before.  The README says
\* so of "every successful acquire" and offers it as the protection that still
\* works in a failover; the counter is replicated like the owners, so a failover
\* that loses a grant gives its token again.
TokensSurviveFailover ==
    [][\A i \in Identifier : token'[i] # token[i] =>
           \A j \in Identifier : token'[i] > token[j]]_fvars
=============================================================================
