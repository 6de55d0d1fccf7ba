----------------------------- MODULE LeaseSemaphore -----------------------------
(***************************************************************************)
(* What a semaphore promises, without the sorted set, the lazy eviction,   *)
(* the key TTL and the scripts: at most Limit identifiers hold a lease, a  *)
(* lease ends by its owner's release or by the clock, and every grant      *)
(* carries a fencing token above all earlier ones.                         *)
(*                                                                         *)
(* lease[i] is the time at which the lease of i ends, NoLease when it has  *)
(* none.  At the very instant it ends a lease no longer counts against     *)
(* Limit but may still be renewed, unless somebody looked at the semaphore *)
(* in that instant.                                                        *)
(***************************************************************************)
EXTENDS Integers, FiniteSets

CONSTANTS Identifier, Limit, LockTimeout

VARIABLES now, lease, fencing, token

vars == <<now, lease, fencing, token>>

NoLease == -1

Live == {i \in Identifier : lease[i] > now}

OnlyLive == [i \in Identifier |-> IF i \in Live THEN lease[i] ELSE NoLease]

Init ==
    /\ now = 0
    /\ lease = [i \in Identifier |-> NoLease]
    /\ fencing = 0
    /\ token = [i \in Identifier |-> 0]

\* A slot is granted, or granted again to its owner, with a new token.
Grant(i) ==
    /\ Cardinality(Live \ {i}) < Limit
    /\ lease' = [OnlyLive EXCEPT ![i] = now + LockTimeout[i]]
    /\ fencing' = fencing + 1
    /\ token' = [token EXCEPT ![i] = fencing + 1]
    /\ UNCHANGED now

Renew(i) ==
    /\ lease[i] >= now
    /\ Cardinality(Live \ {i}) < Limit
    /\ lease' = [lease EXCEPT ![i] = now + LockTimeout[i]]
    /\ UNCHANGED <<now, fencing, token>>

Release(i) ==
    /\ lease' = [lease EXCEPT ![i] = NoLease]
    /\ UNCHANGED <<now, fencing, token>>

\* Somebody looks at the semaphore: the leases that end now are over.
Settle ==
    /\ lease' = OnlyLive
    /\ UNCHANGED <<now, fencing, token>>

Tick ==
    /\ now' = now + 1
    /\ lease' = [i \in Identifier |-> IF lease[i] >= now + 1 THEN lease[i] ELSE NoLease]
    /\ UNCHANGED <<fencing, token>>

Next ==
    \/ \E i \in Identifier : Grant(i) \/ Renew(i) \/ Release(i)
    \/ Settle
    \/ Tick

Spec == Init /\ [][Next]_vars
=============================================================================
