------------------------------ MODULE RateScripts ------------------------------
(***************************************************************************)
(* The limits of a rate limiter as Redis keeps them, and what the Lua      *)
(* scripts RATE_ACQUIRE, RATE_ADJUST and RATE_STATUS do to them, each in   *)
(* one atomic step.  A limit has two keys: a log, the sorted set of the    *)
(* requests charged to it, and a total, the running sum of their costs.    *)
(* Each key has a TTL of its own.  RateServer lets anybody run the scripts,*)
(* RateLimiter runs them on behalf of the callers of the library.          *)
(***************************************************************************)
EXTENDS Integers, FiniteSets, Sequences

CONSTANTS
    Identifier,     \* identifiers of requests
    Order,          \* the names of the limits, in the order of the configuration
    Limit, Window,  \* units and milliseconds of each limit
    MaxCost         \* no request costs more

Limits == {Order[i] : i \in DOMAIN Order}
Costs == 0 .. MaxCost

ASSUME OrderAssumption == Order \in Seq(Limits)
ASSUME QuotaAssumption == Limit \in [Limits -> Nat] /\ Window \in [Limits -> Nat \ {0}]
ASSUME CostAssumption == MaxCost \in Nat

VARIABLES
    now,    \* the clock of the server
    rate    \* the two keys of each limit

None == -1

\* "<cost>:<identifier>", an element of a log.
Member == Identifier \X (1 .. MaxCost)

\* The units a set of members stands for: one element for every unit.
Units(ms) == {u \in ms \X (1 .. MaxCost) : u[2] <= u[1][2]}

\* The sum of member_cost over a set of members.
Charge(ms) == Cardinality(Units(ms))

NoLog == [m \in {} |-> 0]
NoKeys == [log |-> NoLog, total |-> None, logExp |-> None, totalExp |-> None]

\* The keys of one limit.  A total of None: there is no such key.
Keys(k) ==
    /\ DOMAIN k = {"log", "total", "logExp", "totalExp"}
    /\ k = [log |-> k.log, total |-> k.total, logExp |-> k.logExp, totalExp |-> k.totalExp]
    /\ DOMAIN k.log \subseteq Member
    /\ IsFiniteSet(DOMAIN k.log)
    /\ k.log \in [DOMAIN k.log -> Int]
    /\ k.total \in Nat \cup {None}
    /\ k.logExp \in Int
    /\ k.totalExp \in Int

-----------------------------------------------------------------------------
(* The helpers of the scripts.  n is the time a script works with.          *)

\* GET of a total, where no key counts as 0.
TotalOf(k) == IF k.total = None THEN 0 ELSE k.total

Drop(log, ms) == [m \in DOMAIN log \ ms |-> log[m]]
Put(log, m, score) == [x \in DOMAIN log \cup {m} |-> IF x = m THEN score ELSE log[x]]

\* Members at or before the cutoff.
Expired(k, l, n) == {m \in DOMAIN k.log : k.log[m] <= n - Window[l]}

\* (fault) One window is the TTL of both keys.
TouchOneWindow(k, l) == [k EXCEPT !.logExp = now + Window[l], !.totalExp = now + Window[l]]

\* touch: both keys live for two windows from now.
Touch(k, l) == [k EXCEPT !.logExp = now + 2 * Window[l], !.totalExp = now + 2 * Window[l]]

\* (fault) The rebuilt total is SET without a TTL.
RecountForGood(k, l) == [k EXCEPT !.total = Charge(DOMAIN k.log), !.totalExp = None]

\* recount: the total is rebuilt from the log and must not outlive it.
Recount(k, l) ==
    [k EXCEPT !.total = Charge(DOMAIN k.log),
              !.totalExp = IF k.logExp > now THEN k.logExp ELSE now + 2 * Window[l]]

\* evict: drop the entries that left the window, and their units from the total.
Evict(k, l, n) ==
    LET gone == Expired(k, l, n)
        kept == [k EXCEPT !.log = Drop(@, gone)]
        left == k.total - Charge(gone)
    IN  IF DOMAIN kept.log = {} THEN NoKeys
        ELSE IF k.total = None \/ left < 0 THEN Recount(kept, l)
        ELSE [kept EXCEPT !.total = left]

-----------------------------------------------------------------------------
(* RATE_ACQUIRE of request id at the costs c.                               *)

\* (fault) Nobody looks for the request in the log.
NeverRecorded(ks, id, c, i) == FALSE

\* "already": the request was found in the log of one of the first i limits.
Recorded(ks, id, c, i) ==
    \E j \in 1 .. i : c[Order[j]] > 0 /\ <<id, c[Order[j]]>> \in DOMAIN ks[Order[j]].log

\* The units that must leave the window of l before c fits.
Excess(ks, l, c) == TotalOf(ks[l]) + c[l] - Limit[l]

Blocked(ks, id, c) ==
    {Order[i] : i \in {j \in DOMAIN Order :
        c[Order[j]] > 0 /\ ~Recorded(ks, id, c, j) /\ Excess(ks, Order[j], c) > 0}}

\* (fault) The walk goes on until more than the excess is freed.
WaitForOneUnitMore(k, l, need, n) ==
    LET enough == {s \in {k.log[m] : m \in DOMAIN k.log} :
                     Charge({m \in DOMAIN k.log : k.log[m] <= s}) > need}
    IN  IF enough = {} THEN Window[l]
        ELSE (CHOOSE s \in enough : \A t \in enough : s <= t) + Window[l] - n

\* The oldest-first walk of the log: the wait until need units have expired.
WaitFor(k, l, need, n) ==
    LET enough == {s \in {k.log[m] : m \in DOMAIN k.log} :
                     Charge({m \in DOMAIN k.log : k.log[m] <= s}) >= need}
        wait == IF enough = {} THEN Window[l]
                ELSE (CHOOSE s \in enough : \A t \in enough : s <= t) + Window[l] - n
    IN  IF wait < 1 THEN 1 ELSE wait

Evicted(n) == [l \in Limits |-> Evict(rate[l], l, n)]

\* retry_after: the longest of the waits, 0 when the request fits.
RetryAfter(id, c, n) ==
    LET ks == Evicted(n)
        waits == {WaitFor(ks[l], l, Excess(ks, l, c), n) : l \in Blocked(ks, id, c)}
    IN  IF waits = {} THEN 0 ELSE CHOOSE w \in waits : \A v \in waits : v <= w

Admits(id, c, n) == Blocked(Evicted(n), id, c) = {}

\* (fault) A request that is in the log already is charged again.
RecordAgain(k, l, id, cost, n) ==
    Touch([k EXCEPT !.log = Put(@, <<id, cost>>, n), !.total = TotalOf(k) + cost], l)

\* ZADD NX, with INCRBY only for a new member, then touch.
Record(k, l, id, cost, n) ==
    Touch(IF <<id, cost>> \in DOMAIN k.log THEN k
          ELSE [k EXCEPT !.log = Put(@, <<id, cost>>, n), !.total = TotalOf(k) + cost], l)

\* (fault) A limit the request is not charged to gets an entry of cost 0.
RateAcquireFree(id, c, n) ==
    LET ks == Evicted(n) IN
    rate' = IF Blocked(ks, id, c) # {} THEN ks
            ELSE [l \in Limits |-> Record(ks[l], l, id, c[l], n)]

RateAcquire(id, c, n) ==
    LET ks == Evicted(n) IN
    rate' = IF Blocked(ks, id, c) # {} THEN ks
            ELSE [l \in Limits |-> IF c[l] > 0 THEN Record(ks[l], l, id, c[l], n) ELSE ks[l]]

-----------------------------------------------------------------------------
(* RATE_ADJUST of request id, admitted at the time at, to other costs.      *)

\* (fault) DECRBY whether or not ZREM found the old entry.
TakeOutAlways(k, id, cost) ==
    IF cost > 0 /\ k.total # None
    THEN [k EXCEPT !.log = Drop(@, {<<id, cost>>}), !.total = @ - cost] ELSE k

\* ZREM and DECRBY of the old entry.
TakeOut(k, id, cost) ==
    IF cost > 0 /\ <<id, cost>> \in DOMAIN k.log
    THEN [k EXCEPT !.log = Drop(@, {<<id, cost>>}), !.total = @ - cost] ELSE k

\* ZADD of the new entry, with INCRBY if it is new.
PutIn(k, id, cost, at) ==
    [k EXCEPT !.log = Put(@, <<id, cost>>, at),
              !.total = IF <<id, cost>> \in DOMAIN k.log THEN @ ELSE TotalOf(k) + cost]

\* (fault) The new entry is charged from the time of the adjust on.
AdjustedFromNow(k, l, id, old, new, at, n) ==
    LET rest == TakeOut(Evict(k, l, n), id, old)
    IN  IF new > 0 THEN Touch(PutIn(rest, id, new, n), l)
        ELSE IF DOMAIN rest.log = {} THEN NoKeys
        ELSE rest

\* One round of the loop of RATE_ADJUST.
Adjusted(k, l, id, old, new, at, n) ==
    LET rest == TakeOut(Evict(k, l, n), id, old)
    IN  IF new > 0 /\ at > n - Window[l] THEN Touch(PutIn(rest, id, new, at), l)
        ELSE IF DOMAIN rest.log = {} THEN NoKeys
        ELSE rest

\* Only the limits whose cost changes are sent.
RateAdjust(id, old, new, at, n) ==
    rate' = [l \in Limits |-> IF old[l] # new[l]
                              THEN Adjusted(rate[l], l, id, old[l], new[l], at, n)
                              ELSE rate[l]]

\* RATE_STATUS
RateStatus(n) == rate' = Evicted(n)

-----------------------------------------------------------------------------
(* What Redis does by itself.                                               *)

\* A key without a TTL stays.
Over(exp, t) == exp # None /\ t > exp

\* Keys whose TTL is over are gone.
Alive(k, t) ==
    [log |-> IF Over(k.logExp, t) THEN NoLog ELSE k.log,
     total |-> IF Over(k.totalExp, t) THEN None ELSE k.total,
     logExp |-> IF Over(k.logExp, t) THEN None ELSE k.logExp,
     totalExp |-> IF Over(k.totalExp, t) THEN None ELSE k.totalExp]

Passes ==
    /\ now' = now + 1
    /\ rate' = [l \in Limits |-> Alive(rate[l], now')]
=============================================================================
