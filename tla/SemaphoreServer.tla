----------------------------- MODULE SemaphoreServer -----------------------------
(***************************************************************************)
(* A semaphore on the Redis server: its owners and its fencing counter.    *)
(* Any identifier may run any script at any time, so whatever the clients, *)
(* their threads and the network do is a behaviour of this module.         *)
(*                                                                         *)
(* Skew is the set of differences between the time a script works with and *)
(* the clock of the server: {0} for TimeSource.SERVER, the clock errors of *)
(* the clients for TimeSource.CLIENT.  MaxTime and MaxToken bound the runs.*)
(***************************************************************************)
EXTENDS SemaphoreScripts

CONSTANTS Skew, MaxToken

ASSUME SkewAssumption == Skew \subseteq Int
ASSUME TokenAssumption == MaxToken \in Nat

VARIABLES
    fencing,    \* the fencing counter
    token       \* history: the last token each identifier was granted (0: none)

vars == <<store, fencing, token>>

TypeOK ==
    /\ StoreOK
    /\ fencing \in Nat
    /\ token \in [Identifier -> Nat]

Init ==
    /\ StoreInit
    /\ fencing = 0
    /\ token = [i \in Identifier |-> 0]

\* (fault) An owner that acquires again is given the current token.
AcquireRepeatsToken(id, n) ==
    /\ AcquireScript(id, n)
    /\ IF Admits(id, n)
       THEN /\ fencing < MaxToken
            /\ fencing' = IF id \in DOMAIN Unexpired(n) THEN fencing ELSE fencing + 1
            /\ token' = [token EXCEPT ![id] = fencing']
       ELSE UNCHANGED <<fencing, token>>

\* A success comes with the next value of the fencing counter.
Acquire(id, n) ==
    /\ AcquireScript(id, n)
    /\ IF Admits(id, n)
       THEN /\ fencing < MaxToken
            /\ fencing' = fencing + 1
            /\ token' = [token EXCEPT ![id] = fencing + 1]
       ELSE UNCHANGED <<fencing, token>>

Release(id) == ReleaseScript(id) /\ UNCHANGED <<fencing, token>>

Refresh(id, n) == RefreshScript(id, n) /\ UNCHANGED <<fencing, token>>

Cleanup(n) == CleanupScript(n) /\ UNCHANGED <<fencing, token>>

Tick == Clock /\ UNCHANGED <<fencing, token>>

\* The times a script may be given.
ScriptTimes == {now + s : s \in Skew}

Next ==
    \/ \E id \in Identifier, n \in ScriptTimes : Acquire(id, n) \/ Refresh(id, n)
    \/ \E id \in Identifier : Release(id)
    \/ \E n \in ScriptTimes : Cleanup(n)
    \/ Tick

Spec == Init /\ [][Next]_vars

-----------------------------------------------------------------------------
(* Properties                                                               *)

\* There are never more than Limit owners in the sorted set, whatever clocks
\* the clients have: ACQUIRE evicts, counts and adds in one atomic script.
OwnersWithinLimit == Cardinality(DOMAIN owners) <= Limit

\* A granted token exceeds every token granted before it to anybody, although
\* owners expire, release, are evicted and the owners key disappears with its
\* TTL: the counter lives in a key of its own that nothing resets.
FencingMonotonic ==
    [][\A i \in Identifier : token'[i] # token[i] =>
           \A j \in Identifier : token'[i] > token[j]]_vars

\* With the server's clock, an owner whose lease has not ended leaves the set
\* by its own release only: neither another client's script, with a shorter
\* lock_timeout perhaps, nor the TTL of the key takes the slot away.
LeaseHonoured ==
    [][\A i \in DOMAIN owners :
           i \notin DOMAIN owners' /\ owners[i] > now' => Release(i)]_vars

\* The owners key is there as long as its longest-lived member, even on the
\* clock of the client that is furthest behind: _LUA_BUMP_OWNERS_TTL adds one
\* lock_timeout "to absorb client/server clock difference".
KeyOutlivesMembers ==
    \A i \in DOMAIN owners, s \in Skew : owners[i] - s <= ownersExp

\* A lease is a score that has not passed: REFRESH renews it, and every other script
\* counts it as long as it is not over.
Abstract == INSTANCE LeaseSemaphore WITH
    lease <- [i \in Identifier |->
                 IF i \in DOMAIN owners /\ owners[i] >= now THEN owners[i] ELSE -1]

\* The scripts implement the semaphore of leases: eviction may be late, the key
\* may expire, a refresh may come in the last instant, and no client can tell.
ImplementsLeases == Abstract!Spec
=============================================================================
