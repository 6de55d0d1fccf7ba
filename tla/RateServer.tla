------------------------------ MODULE RateServer ------------------------------
(***************************************************************************)
(* A rate limiter on the Redis server.  Anybody may run any script at any  *)
(* time with any arguments the library can send, and a key may be lost     *)
(* (maxmemory eviction, a failover): whatever callers, retries and the     *)
(* network do is a behaviour of this module.                               *)
(***************************************************************************)
EXTENDS RateScripts

CONSTANTS
    Skew,       \* script time minus server time: {0} for TimeSource.SERVER
    KeysLost,   \* whether single keys may be lost
    MaxTime     \* bound of the runs

ASSUME SkewAssumption == Skew \subseteq Int
ASSUME TimeAssumption == MaxTime \in Nat

vars == <<now, rate>>

TypeOK ==
    /\ now \in Nat
    /\ rate = [l \in Limits |-> rate[l]]
    /\ \A l \in Limits : Keys(rate[l])

Init == now = 0 /\ rate = [l \in Limits |-> NoKeys]

ScriptTimes == {now + s : s \in Skew}
CostVectors == [Limits -> Costs]

Acquire(id, c, n) == RateAcquire(id, c, n) /\ UNCHANGED now

\* Adjusts of a request that was admitted at some earlier time.
Adjust(id, old, new, at, n) == RateAdjust(id, old, new, at, n) /\ UNCHANGED now

Status(n) == RateStatus(n) /\ UNCHANGED now

LoseTotal(l) ==
    /\ KeysLost
    /\ rate[l].total # None
    /\ rate' = [rate EXCEPT ![l].total = None, ![l].totalExp = None]
    /\ UNCHANGED now

LoseLog(l) ==
    /\ KeysLost
    /\ DOMAIN rate[l].log # {}
    /\ rate' = [rate EXCEPT ![l].log = NoLog, ![l].logExp = None]
    /\ UNCHANGED now

Tick == now < MaxTime /\ Passes

\* The admission times an adjust may carry.
Admissions == {now + s - d : s \in Skew, d \in 0 .. now}

Next ==
    \/ \E id \in Identifier, c \in CostVectors, n \in ScriptTimes : Acquire(id, c, n)
    \/ \E id \in Identifier, old \in CostVectors, new \in CostVectors,
          at \in Admissions, n \in ScriptTimes : Adjust(id, old, new, at, n)
    \/ \E n \in ScriptTimes : Status(n)
    \/ \E l \in Limits : LoseTotal(l) \/ LoseLog(l)
    \/ Tick

Spec == Init /\ [][Next]_vars

-----------------------------------------------------------------------------
(* Properties.                                                              *)

\* The running total of a limit is the sum of the costs in its log, as long as
\* there are both: neither evictions, nor resent or racing acquires and adjusts,
\* nor a rebuilt total make the two keys differ.
TotalMatchesLog ==
    \A l \in Limits : (DOMAIN rate[l].log # {} /\ rate[l].total # None) =>
        rate[l].total = Charge(DOMAIN rate[l].log)

\* Both keys always carry a TTL of at most two windows, so abandoned limiters
\* clean up.
KeysExpire ==
    \A l \in Limits :
        /\ DOMAIN rate[l].log # {} => rate[l].logExp \in now .. now + 2 * Window[l]
        /\ rate[l].total # None => rate[l].totalExp \in now .. now + 2 * Window[l]

\* No TTL takes an entry that is still in the window of some client's clock.
LogOutlivesEntries ==
    \A l \in Limits : \A m \in DOMAIN rate[l].log, s \in Skew :
        rate[l].log[m] + Window[l] <= rate[l].logExp + s

\* retry_after is the first moment at which a denied request fits, if nothing
\* else is admitted meanwhile: not a millisecond early, not a millisecond late.
RetryAfterExact ==
    \A id \in Identifier, c \in CostVectors, n \in ScriptTimes :
        LET fresh == \A l \in Limits : \A m \in DOMAIN rate[l].log : m[1] # id
            fits == \A l \in Limits : c[l] <= Limit[l]
            retry == RetryAfter(id, c, n)
        IN  (fresh /\ fits /\ retry > 0) =>
                Admits(id, c, n + retry) /\ ~Admits(id, c, n + retry - 1)
=============================================================================
