---------------------------- MODULE RateServerProofs ----------------------------
(***************************************************************************)
(* What holds of RateServer for every set of limits, all windows, costs and*)
(* clock errors, and whatever keys are lost: the types of the two keys of a*)
(* limit, that its running total is the sum of its log, that both expire   *)
(* but never take an entry that counts, and that retry_after is exact.     *)
(*                                                                         *)
(* The argument is about one limit at a time: RateScriptsProofs has the    *)
(* lemmas about what a script does to its keys.                            *)
(***************************************************************************)
EXTENDS RateServer, RateScriptsProofs

-----------------------------------------------------------------------------
(* The invariant: every limit has matching keys that expire.                *)

IInv ==
    /\ now \in Nat
    /\ rate = [l \in Limits |-> rate[l]]
    /\ \A l \in Limits : Matching(rate[l]) /\ Expiring(rate[l], l, now)

LEMMA InitInvariant == Init => IInv
BY NoKeysExact, ExactMatches, NoKeysExpiring DEF Init, IInv

LEMMA EvictedKeeps ==
    ASSUME IInv, NEW n \in Int, NEW l \in Limits
    PROVE  Exact(Evicted(n)[l]) /\ Expiring(Evicted(n)[l], l, now)
BY EvictExact, EvictExpiring DEF IInv, Evicted

LEMMA ScriptTimesAreIntegers ==
    ASSUME now \in Nat
    PROVE  ScriptTimes \subseteq Int /\ Admissions \subseteq Int
BY SkewAssumption DEF ScriptTimes, Admissions

LEMMA StepInvariant == IInv /\ [Next]_vars => IInv'
<1> SUFFICES ASSUME IInv, [Next]_vars PROVE IInv'
  OBVIOUS
<1> now \in Nat /\ ScriptTimes \subseteq Int /\ Admissions \subseteq Int
  BY ScriptTimesAreIntegers DEF IInv
<1>1. ASSUME NEW id \in Identifier, NEW c \in CostVectors, NEW n \in ScriptTimes,
             Acquire(id, c, n)
      PROVE  IInv'
  <2> DEFINE ks == Evicted(n)
             Granted(l) == IF c[l] > 0 THEN Record(ks[l], l, id, c[l], n) ELSE ks[l]
  <2>1. ks = [l \in Limits |-> ks[l]]
    BY DEF Evicted
  <2>2. \A l \in Limits : Matching(ks[l]) /\ Expiring(ks[l], l, now)
    BY EvictedKeeps, ExactMatches
  <2>3. \A l \in Limits : Matching(Granted(l)) /\ Expiring(Granted(l), l, now)
    <3>1. TAKE l \in Limits
    <3>2. CASE c[l] > 0
      <4>1. c[l] \in 1 .. MaxCost
        BY <3>2, CostAssumption DEF CostVectors, Costs
      <4>2. Exact(Record(ks[l], l, id, c[l], n)) /\ Expiring(Record(ks[l], l, id, c[l], n), l, now)
        BY <4>1, EvictedKeeps, RecordExact, RecordExpiring
      <4>3. QED
        BY <3>2, <4>2, ExactMatches
    <3>3. CASE ~(c[l] > 0)
      BY <2>2, <3>3
    <3>4. QED
      BY <3>2, <3>3
  <2>4. CASE rate' = ks
    BY <1>1, <2>1, <2>2, <2>4 DEF IInv, Acquire
  <2>5. CASE rate' = [l \in Limits |-> Granted(l)]
    BY <1>1, <2>3, <2>5 DEF IInv, Acquire
  <2>6. QED
    BY <1>1, <2>4, <2>5 DEF Acquire, RateAcquire
<1>2. ASSUME NEW id \in Identifier, NEW old \in CostVectors, NEW new \in CostVectors,
             NEW at \in Admissions, NEW n \in ScriptTimes, Adjust(id, old, new, at, n)
      PROVE  IInv'
  <2> DEFINE After(l) == IF old[l] # new[l]
                         THEN Adjusted(rate[l], l, id, old[l], new[l], at, n)
                         ELSE rate[l]
  <2>1. \A l \in Limits : old[l] \in Costs /\ new[l] \in Costs
    BY DEF CostVectors
  <2>2. \A l \in Limits : Matching(After(l)) /\ Expiring(After(l), l, now)
    BY <2>1, AdjustedExact, AdjustedExpiring, ExactMatches DEF IInv
  <2>3. rate' = [l \in Limits |-> After(l)] /\ now' = now
    BY <1>2 DEF Adjust, RateAdjust
  <2>4. QED
    BY <2>2, <2>3 DEF IInv
<1>3. ASSUME NEW n \in ScriptTimes, Status(n)
      PROVE  IInv'
  <2>1. rate' = [l \in Limits |-> Evicted(n)[l]] /\ now' = now
    BY <1>3 DEF Status, RateStatus, Evicted
  <2>2. QED
    BY <2>1, EvictedKeeps, ExactMatches DEF IInv
<1>4. ASSUME NEW l \in Limits, LoseTotal(l) \/ LoseLog(l)
      PROVE  IInv'
  <2> DEFINE lost == rate'[l]
  <2>k. rate[l] = [log |-> rate[l].log, total |-> rate[l].total,
                   logExp |-> rate[l].logExp, totalExp |-> rate[l].totalExp]
    BY DEF IInv, Matching, Keys
  <2>0. rate[l].logExp \in Int /\ rate[l].totalExp \in Int /\ None \in Int
    BY DEF IInv, Matching, Keys, None
  <2>1. \/ rate' = [rate EXCEPT ![l] = [log |-> rate[l].log, total |-> None,
                                        logExp |-> rate[l].logExp, totalExp |-> None]]
        \/ rate' = [rate EXCEPT ![l] = [log |-> NoLog, total |-> rate[l].total,
                                        logExp |-> None, totalExp |-> rate[l].totalExp]]
    BY <1>4, <2>k DEF LoseTotal, LoseLog
  <2>2. Matching(lost) /\ Expiring(lost, l, now)
    BY <2>0, <2>1, PartsMatch DEF IInv, Expiring, NoLog
  <2>3. rate' = [m \in Limits |-> IF m = l THEN lost ELSE rate[m]] /\ now' = now
    BY <1>4, <2>1 DEF IInv, LoseTotal, LoseLog
  <2>4. QED
    BY <2>2, <2>3 DEF IInv
<1>5. CASE Tick
  BY <1>5, AliveExpiring DEF IInv, Tick, Passes
<1>6. CASE UNCHANGED vars
  BY <1>6 DEF IInv, vars
<1>7. QED
  BY <1>1, <1>2, <1>3, <1>4, <1>5, <1>6 DEF Next

LEMMA Invariant == Spec => []IInv
<1>1. Init => IInv
  BY InitInvariant
<1>2. IInv /\ [Next]_vars => IInv'
  BY StepInvariant
<1>3. QED
  BY <1>1, <1>2, PTL DEF Spec

\* The two keys of every limit have the types the scripts rely on.
THEOREM TypeCorrect == Spec => []TypeOK
<1>1. IInv => TypeOK
  BY DEF IInv, TypeOK, Matching
<1>2. QED
  BY <1>1, Invariant, PTL

\* Evict, recount, ZADD NX with INCRBY and ZREM with DECRBY keep the running total
\* of a limit equal to the sum of its log, for all limits, costs and clock errors
\* and whichever of the two keys is lost.
THEOREM TotalsMatch == Spec => []TotalMatchesLog
<1>1. IInv => TotalMatchesLog
  BY DEF IInv, TotalMatchesLog, Matching
<1>2. QED
  BY <1>1, Invariant, PTL

\* touch and the TTL of a rebuilt total keep every key within two windows of its
\* end, so that an abandoned limiter leaves nothing behind.
THEOREM LimitersCleanUp == Spec => []KeysExpire
<1>1. IInv => KeysExpire
  BY DEF IInv, KeysExpire, Expiring, Fresh
<1>2. QED
  BY <1>1, Invariant, PTL

-----------------------------------------------------------------------------
(* The TTL of a log.                                                        *)

\* No two clocks differ by more than the shortest window.
SkewsClose == \A l \in Limits, s, t \in Skew : s - t <= Window[l]

LEMMA StepLasts ==
    ASSUME IInv, SkewsClose, [Next]_vars, NEW l \in Limits, Lasts(rate[l], l, Skew)
    PROVE  Lasts(rate'[l], l, Skew)
<1>1. /\ now \in Nat /\ ScriptTimes \subseteq Int
      /\ Matching(rate[l]) /\ Expiring(rate[l], l, now)
      /\ rate = [m \in Limits |-> rate[m]]
  BY ScriptTimesAreIntegers DEF IInv
<1>c. /\ Close(Skew)
      /\ \A n \in ScriptTimes : Past(n, Skew)
      /\ \A at \in Admissions : Past(at, Skew)
  <2>1. /\ \A n \in ScriptTimes : \E s \in Skew : n <= now + s
        /\ \A at \in Admissions : \E s \in Skew : at <= now + s
    BY <1>1, SkewAssumption DEF ScriptTimes, Admissions
  <2>2. QED
    BY <1>1, <2>1, ScriptTimesAreIntegers, SkewAssumption DEF Close, SkewsClose, Past
<1>2. ASSUME NEW n \in ScriptTimes
      PROVE  Evicted(n)[l] = Evict(rate[l], l, n) /\ Lasts(Evicted(n)[l], l, Skew)
  <2>1. n \in Int
    BY <1>1
  <2>2. QED
    BY <1>1, <2>1, EvictLasts DEF Evicted
<1>3. ASSUME NEW id \in Identifier, NEW c \in CostVectors, NEW n \in ScriptTimes,
             Acquire(id, c, n)
      PROVE  Lasts(rate'[l], l, Skew)
  <2>1. \/ rate'[l] = Evicted(n)[l]
        \/ c[l] > 0 /\ rate'[l] = Record(Evicted(n)[l], l, id, c[l], n)
    BY <1>3 DEF Acquire, RateAcquire
  <2>2. ASSUME c[l] > 0 PROVE Lasts(Record(Evicted(n)[l], l, id, c[l], n), l, Skew)
    <3>1. c[l] \in 1 .. MaxCost /\ n \in Int
      BY <1>1, <2>2, CostAssumption DEF CostVectors, Costs
    <3>2. Exact(Evicted(n)[l]) /\ Expiring(Evicted(n)[l], l, now)
      BY <3>1, EvictedKeeps
    <3>3. QED
      BY <1>1, <1>2, <1>c, <3>1, <3>2, RecordLasts
  <2>3. QED
    BY <1>2, <2>1, <2>2
<1>4. ASSUME NEW id \in Identifier, NEW old \in CostVectors, NEW new \in CostVectors,
             NEW at \in Admissions, NEW n \in ScriptTimes, Adjust(id, old, new, at, n)
      PROVE  Lasts(rate'[l], l, Skew)
  <2>1. \/ rate'[l] = rate[l]
        \/ rate'[l] = Adjusted(rate[l], l, id, old[l], new[l], at, n)
    BY <1>4 DEF Adjust, RateAdjust
  <2>2. old[l] \in Costs /\ new[l] \in Costs /\ n \in Int
    BY <1>1 DEF CostVectors
  <2>3. Lasts(Adjusted(rate[l], l, id, old[l], new[l], at, n), l, Skew)
    BY <1>1, <1>c, <2>2, AdjustedLasts, Zenon
  <2>4. QED
    BY <2>1, <2>3
<1>5. ASSUME NEW n \in ScriptTimes, Status(n) PROVE Lasts(rate'[l], l, Skew)
  BY <1>2, <1>5 DEF Status, RateStatus
<1>6. ASSUME NEW m \in Limits, LoseTotal(m) \/ LoseLog(m) PROVE Lasts(rate'[l], l, Skew)
  <2>k. rate[m] = [log |-> rate[m].log, total |-> rate[m].total,
                   logExp |-> rate[m].logExp, totalExp |-> rate[m].totalExp]
    BY DEF IInv, Matching, Keys
  <2>0. \/ rate' = [rate EXCEPT ![m] = [log |-> rate[m].log, total |-> None,
                                        logExp |-> rate[m].logExp, totalExp |-> None]]
        \/ rate' = [rate EXCEPT ![m] = [log |-> NoLog, total |-> rate[m].total,
                                        logExp |-> None, totalExp |-> rate[m].totalExp]]
    BY <1>6, <2>k DEF LoseTotal, LoseLog
  <2>1. \/ rate'[l].log = rate[l].log /\ rate'[l].logExp = rate[l].logExp
        \/ DOMAIN rate'[l].log = {}
    BY <1>1, <2>0 DEF NoLog
  <2>2. QED
    BY <2>1, EmptyLasts DEF Lasts
<1>7. CASE Tick
  <2>1. rate'[l] = Alive(rate[l], now + 1)
    BY <1>7 DEF Tick, Passes
  <2>2. CASE Over(rate[l].logExp, now + 1)
    BY <2>1, <2>2, AliveLog, EmptyLasts
  <2>3. CASE ~Over(rate[l].logExp, now + 1)
    <3>1. rate'[l].log = rate[l].log /\ rate'[l].logExp = rate[l].logExp
      BY <2>1, <2>3, AliveLog
    <3>2. QED
      BY <3>1 DEF Lasts
  <2>4. QED
    BY <2>2, <2>3
<1>8. CASE UNCHANGED vars
  BY <1>8 DEF vars
<1>9. QED
  BY <1>3, <1>4, <1>5, <1>6, <1>7, <1>8 DEF Next

\* touch gives a log two windows from now on the server's clock: if no two clocks
\* differ by more than a window, no client still counts an entry that it takes.
THEOREM LogsLast == ASSUME SkewsClose PROVE Spec => []LogOutlivesEntries
<1> DEFINE Lasting == \A l \in Limits : Lasts(rate[l], l, Skew)
<1>1. Init => Lasting
  BY EmptyLasts DEF Init, NoKeys, NoLog
<1>2. IInv /\ Lasting /\ [Next]_vars => Lasting'
  <2>1. SUFFICES ASSUME IInv, Lasting, [Next]_vars
                 PROVE  \A l \in Limits : Lasts(rate'[l], l, Skew)
    BY DEF Lasts
  <2>2. QED
    BY <2>1, StepLasts
<1>3. Lasting => LogOutlivesEntries
  BY DEF Lasts, LogOutlivesEntries
<1> HIDE DEF Lasting
<1>4. QED
  BY <1>1, <1>2, <1>3, Invariant, PTL DEF Spec

-----------------------------------------------------------------------------
(* retry_after.                                                             *)

\* A denied request that is in no log is admitted after retry_after and not before,
\* for all logs, limits and windows, whatever clock the request works with.
THEOREM RetriesExact == Spec => []RetryAfterExact
<1>1. IInv => RetryAfterExact
  <2> SUFFICES ASSUME IInv,
                      NEW id \in Identifier, NEW c \in CostVectors, NEW n \in ScriptTimes,
                      \A l \in Limits : \A m \in DOMAIN rate[l].log : m[1] # id,
                      \A l \in Limits : c[l] <= Limit[l],
                      RetryAfter(id, c, n) > 0
               PROVE  /\ Admits(id, c, n + RetryAfter(id, c, n))
                      /\ ~Admits(id, c, n + RetryAfter(id, c, n) - 1)
    BY Zenon DEF RetryAfterExact
  <2> DEFINE retry == RetryAfter(id, c, n)
             Full(l, t) == c[l] > 0 /\ InWindow(rate[l], l, t) + c[l] - Limit[l] > 0
  <2>1. /\ now \in Nat /\ n \in Int
        /\ \A l \in Limits : Matching(rate[l]) /\ Keys(rate[l])
        /\ \A l \in Limits : c[l] \in Nat /\ Limit[l] \in Nat /\ Window[l] \in Nat
    BY ScriptTimesAreIntegers, CostsAreNaturals, QuotaAssumption DEF IInv, Matching, CostVectors
  <2>2. ASSUME NEW t \in Int
        PROVE  /\ Blocked(Evicted(t), id, c) = {l \in Limits : Full(l, t)}
               /\ Admits(id, c, t) <=> \A l \in Limits : ~Full(l, t)
    BY <2>1, BlockedWhenFresh DEF Admits
  <2>3. /\ retry \in Nat
        /\ \E l \in Blocked(Evicted(n), id, c) : retry = WaitOf(c, l, n)
        /\ \A l \in Blocked(Evicted(n), id, c) : WaitOf(c, l, n) <= retry
    <3>1. /\ retry \in Nat
          /\ Admits(id, c, n) => retry = 0
          /\ ~Admits(id, c, n) => \E l \in Blocked(Evicted(n), id, c) : retry = WaitOf(c, l, n)
          /\ \A l \in Blocked(Evicted(n), id, c) : WaitOf(c, l, n) <= retry
      BY <2>1, RetryAfterIs
    <3> HIDE DEF retry
    <3>2. retry > 0
      BY DEF retry
    <3>3. QED
      BY <3>1, <3>2
  <2>4. ASSUME NEW l \in Limits, Full(l, n)
        PROVE  /\ WaitOf(c, l, n) \in Nat \ {0}
               /\ InWindow(rate[l], l, n + WaitOf(c, l, n)) + c[l] <= Limit[l]
               /\ InWindow(rate[l], l, n + WaitOf(c, l, n) - 1) + c[l] > Limit[l]
    <3> DEFINE need == InWindow(rate[l], l, n) + c[l] - Limit[l]
    <3>1. Excess(Evicted(n), l, c) = need
      BY <2>1, EvictTotal DEF Excess, Evicted
    <3>2. WaitOf(c, l, n) = WaitFor(Evict(rate[l], l, n), l, need, n)
      BY <3>1 DEF WaitOf, Evicted
    <3>3. need > 0
      BY <2>4
    <3> HIDE DEF need
    <3>4. need = InWindow(rate[l], l, n) + c[l] - Limit[l]
      BY DEF need
    <3>5. QED
      BY <2>1, <3>2, <3>3, <3>4, WaitForExact
  <2> HIDE DEF retry
  <2>5. ASSUME NEW l \in Limits, NEW t \in Int, NEW u \in Int, t <= u, ~Full(l, t)
        PROVE  ~Full(l, u)
    <3>1. InWindow(rate[l], l, u) <= InWindow(rate[l], l, t)
          /\ InWindow(rate[l], l, u) \in Nat /\ InWindow(rate[l], l, t) \in Nat
      BY <2>1, <2>5, WindowMoves
    <3>2. QED
      BY <2>1, <2>5, <3>1
  <2>6. Admits(id, c, n + retry)
    <3>1. SUFFICES ASSUME NEW l \in Limits PROVE ~Full(l, n + retry)
      BY <2>1, <2>2, <2>3
    <3>2. CASE ~Full(l, n)
      <4>1. n + retry \in Int /\ n <= n + retry
        BY <2>1, <2>3
      <4>2. QED
        BY <2>1, <2>5, <3>2, <4>1
    <3>3. CASE Full(l, n)
      <4> DEFINE w == WaitOf(c, l, n)
      <4>1. w \in Nat /\ InWindow(rate[l], l, n + w) + c[l] <= Limit[l]
        BY <2>4, <3>3
      <4>2. w <= retry
        BY <2>1, <2>2, <2>3, <3>3
      <4> HIDE DEF w
      <4>3. n + w \in Int /\ n + retry \in Int /\ n + w <= n + retry
        BY <2>1, <2>3, <4>1, <4>2
      <4>4. InWindow(rate[l], l, n + w) \in Nat
        BY <2>1, <4>3, WindowMoves
      <4>5. ~Full(l, n + w)
        BY <2>1, <4>1, <4>4
      <4>6. QED
        BY <2>5, <4>3, <4>5
    <3>4. QED
      BY <3>2, <3>3
  <2>7. ~Admits(id, c, n + retry - 1)
    <3>1. PICK l \in Blocked(Evicted(n), id, c) : retry = WaitOf(c, l, n)
      BY <2>3
    <3>2. l \in Limits /\ Full(l, n)
      BY <2>1, <2>2
    <3>3. retry \in Nat \ {0} /\ InWindow(rate[l], l, n + retry - 1) + c[l] > Limit[l]
      BY <2>4, <3>1, <3>2
    <3>4. n + retry - 1 \in Int /\ n + retry - 1 <= n + retry - 1
      BY <2>1, <3>3
    <3>5. InWindow(rate[l], l, n + retry - 1) \in Nat
      BY <2>1, <3>2, <3>4, WindowMoves
    <3>6. Full(l, n + retry - 1)
      BY <2>1, <3>2, <3>3, <3>5
    <3>7. QED
      BY <2>2, <3>2, <3>4, <3>6
  <2>8. QED
    BY <2>6, <2>7 DEF retry
<1>2. QED
  BY <1>1, Invariant, PTL

=============================================================================
