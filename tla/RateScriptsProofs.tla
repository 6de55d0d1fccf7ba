----------------------------- MODULE RateScriptsProofs -----------------------------
(***************************************************************************)
(* What the scripts of RateScripts do to the two keys of one limit, for    *)
(* every limit, window, cost and time a script may work with.  RateServer- *)
(* Proofs and RateLimiterProofs build their invariants on these lemmas.    *)
(*                                                                         *)
(* Evict turns any keys with matching log and total, or with one of them   *)
(* lost, into exact ones (the total is there unless the log is empty, and  *)
(* is the sum of the log); whatever a script writes after it keeps them    *)
(* exact.  What its log and its answers are then follows.                  *)
(***************************************************************************)
EXTENDS RateScripts, FiniteSetTheorems, TLAPS

LEMMA CostsAreNaturals == Costs \subseteq Nat
BY CostAssumption DEF Costs

-----------------------------------------------------------------------------
(* The sum of the costs of a set of members.                                *)

\* The units of finitely many members are finitely many.
LEMMA UnitsFinite ==
    ASSUME NEW ms, IsFiniteSet(ms)
    PROVE  IsFiniteSet(Units(ms)) /\ Charge(ms) \in Nat
<1>1. IsFiniteSet(1 .. MaxCost)
  BY FS_Interval, CostAssumption
<1>2. IsFiniteSet(ms \X (1 .. MaxCost))
  BY <1>1, FS_Product
<1>3. Units(ms) \subseteq ms \X (1 .. MaxCost)
  BY DEF Units
<1>4. QED
  BY <1>2, <1>3, FS_Subset, FS_CardinalityType DEF Charge

LEMMA EmptyCharge == Charge({}) = 0
<1>1. Units({}) = {}
  BY DEF Units
<1>2. QED
  BY <1>1, FS_EmptySet DEF Charge

\* What leaves a log takes its units with it.
LEMMA ChargeOfRest ==
    ASSUME NEW ms, IsFiniteSet(ms), NEW gone \in SUBSET ms
    PROVE  Charge(ms \ gone) = Charge(ms) - Charge(gone)
<1>1. Units(ms \ gone) = Units(ms) \ Units(gone)
  BY DEF Units
<1>2. Units(ms) \cap Units(gone) = Units(gone)
  BY DEF Units
<1>3. Cardinality(Units(ms) \ Units(gone)) =
          Cardinality(Units(ms)) - Cardinality(Units(ms) \cap Units(gone))
  BY UnitsFinite, FS_Difference
<1>4. QED
  BY <1>1, <1>2, <1>3 DEF Charge

\* A member stands for as many units as it costs.
LEMMA ChargeOfOne ==
    ASSUME NEW m \in Member
    PROVE  Charge({m}) = m[2]
<1>1. m[2] \in 1 .. MaxCost
  BY DEF Member
<1>2. Units({m}) = {m} \X (1 .. m[2])
  BY <1>1, CostAssumption DEF Units
<1>3. IsFiniteSet(1 .. m[2]) /\ Cardinality(1 .. m[2]) = m[2]
  <2>1. m[2] \in Nat /\ 1 <= m[2]
    BY <1>1, CostAssumption
  <2>2. IsFiniteSet(1 .. m[2]) /\ Cardinality(1 .. m[2]) = IF 1 > m[2] THEN 0 ELSE m[2] - 1 + 1
    BY <2>1, FS_Interval, SMTT(30)
  <2>3. QED
    BY <2>1, <2>2
<1>4. IsFiniteSet({m}) /\ Cardinality({m}) = 1
  BY FS_Singleton
<1>5. Cardinality({m} \X (1 .. m[2])) = 1 * m[2]
  BY <1>3, <1>4, FS_Product, ZenonT(30)
<1>6. 1 * m[2] = m[2]
  BY <1>1, CostAssumption
<1>7. QED
  BY <1>2, <1>5, <1>6 DEF Charge

\* A new member adds its cost.
LEMMA ChargeOfMore ==
    ASSUME NEW ms, IsFiniteSet(ms), NEW m \in Member, m \notin ms
    PROVE  /\ IsFiniteSet(ms \cup {m})
           /\ Charge(ms \cup {m}) = Charge(ms) + m[2]
<1>1. IsFiniteSet(ms \cup {m})
  BY FS_AddElement
<1>2. Charge((ms \cup {m}) \ {m}) = Charge(ms \cup {m}) - Charge({m})
  BY <1>1, ChargeOfRest
<1>3. (ms \cup {m}) \ {m} = ms
  OBVIOUS
<1>4. /\ Charge(ms \cup {m}) \in Nat /\ Charge(ms) \in Nat
      /\ Charge({m}) = m[2] /\ m[2] \in Nat
  BY <1>1, UnitsFinite, ChargeOfOne, CostAssumption DEF Member
<1>5. QED
  BY <1>1, <1>2, <1>3, <1>4

-----------------------------------------------------------------------------
(* The keys of one limit.                                                   *)

\* What holds of the keys between two scripts.
Matching(k) ==
    /\ Keys(k)
    /\ (DOMAIN k.log # {} /\ k.total # None) => k.total = Charge(DOMAIN k.log)

\* What holds of them within a script, once Evict has run.
Exact(k) ==
    /\ Keys(k)
    /\ TotalOf(k) = Charge(DOMAIN k.log)
    /\ DOMAIN k.log # {} => k.total # None

LEMMA ExactMatches == ASSUME NEW k, Exact(k) PROVE Matching(k)
BY DEF Exact, Matching, TotalOf

LEMMA NoKeysExact == Exact(NoKeys)
<1>1. DOMAIN NoLog = {} /\ NoLog \in [DOMAIN NoLog -> Int]
  BY DEF NoLog
<1>2. IsFiniteSet({})
  BY FS_EmptySet
<1>3. Keys(NoKeys)
  BY <1>1, <1>2 DEF Keys, NoKeys, None
<1>4. QED
  BY <1>1, <1>3, EmptyCharge DEF Exact, TotalOf, NoKeys, None

\* Keys put together from parts of the right types.
LEMMA KeysOf ==
    ASSUME NEW log, NEW total \in Nat \cup {None}, NEW logExp \in Int, NEW totalExp \in Int,
           DOMAIN log \subseteq Member, IsFiniteSet(DOMAIN log), log \in [DOMAIN log -> Int]
    PROVE  Keys([log |-> log, total |-> total, logExp |-> logExp, totalExp |-> totalExp])
BY DEF Keys

LEMMA DropIsLog ==
    ASSUME NEW log, NEW ms, DOMAIN log \subseteq Member, IsFiniteSet(DOMAIN log),
           log \in [DOMAIN log -> Int]
    PROVE  /\ DOMAIN Drop(log, ms) = DOMAIN log \ ms
           /\ DOMAIN Drop(log, ms) \subseteq Member
           /\ IsFiniteSet(DOMAIN Drop(log, ms))
           /\ Drop(log, ms) \in [DOMAIN Drop(log, ms) -> Int]
<1>1. IsFiniteSet(DOMAIN log \ ms)
  BY FS_Subset
<1>2. QED
  BY <1>1 DEF Drop

LEMMA PutIsLog ==
    ASSUME NEW log, NEW m \in Member, NEW score \in Int, DOMAIN log \subseteq Member,
           IsFiniteSet(DOMAIN log), log \in [DOMAIN log -> Int]
    PROVE  /\ DOMAIN Put(log, m, score) = DOMAIN log \cup {m}
           /\ DOMAIN Put(log, m, score) \subseteq Member
           /\ IsFiniteSet(DOMAIN Put(log, m, score))
           /\ Put(log, m, score) \in [DOMAIN Put(log, m, score) -> Int]
<1>1. IsFiniteSet(DOMAIN log \cup {m})
  BY FS_AddElement
<1>2. QED
  BY <1>1 DEF Put

\* evict makes the keys exact, whichever of them was lost.
LEMMA EvictExact ==
    ASSUME now \in Nat, NEW k, Matching(k), NEW l \in Limits, NEW n \in Int
    PROVE  Exact(Evict(k, l, n))
<1> DEFINE gone == Expired(k, l, n)
           log == Drop(k.log, gone)
           left == k.total - Charge(gone)
<1>k. /\ Keys(k)
      /\ k = [log |-> k.log, total |-> k.total, logExp |-> k.logExp, totalExp |-> k.totalExp]
      /\ k.total \in Nat \cup {None} /\ k.logExp \in Int /\ k.totalExp \in Int
      /\ DOMAIN k.log \subseteq Member /\ IsFiniteSet(DOMAIN k.log)
      /\ k.log \in [DOMAIN k.log -> Int]
  BY DEF Matching, Keys
<1>w. Window[l] \in Nat
  BY QuotaAssumption
<1>1. gone \in SUBSET DOMAIN k.log
  BY DEF Expired
<1>2. /\ DOMAIN log = DOMAIN k.log \ gone
      /\ DOMAIN log \subseteq Member /\ IsFiniteSet(DOMAIN log) /\ log \in [DOMAIN log -> Int]
  BY <1>k, DropIsLog
<1>3. Charge(DOMAIN log) = Charge(DOMAIN k.log) - Charge(gone)
  BY <1>k, <1>1, <1>2, ChargeOfRest
<1>4. /\ Charge(DOMAIN k.log) \in Nat /\ Charge(gone) \in Nat /\ Charge(DOMAIN log) \in Nat
  BY <1>k, <1>1, <1>2, UnitsFinite, FS_Subset
<1>5. [k EXCEPT !.log = log] =
          [log |-> log, total |-> k.total, logExp |-> k.logExp, totalExp |-> k.totalExp]
  BY <1>k
<1> DEFINE kept == [log |-> log, total |-> k.total, logExp |-> k.logExp,
                    totalExp |-> k.totalExp]
<1>6. CASE DOMAIN log = {}
  BY <1>5, <1>6, NoKeysExact DEF Evict
<1>7. CASE DOMAIN log # {} /\ (k.total = None \/ left < 0)
  <2>1. Evict(k, l, n) = Recount(kept, l)
    BY <1>5, <1>7 DEF Evict
  <2> DEFINE exp == IF k.logExp > now THEN k.logExp ELSE now + 2 * Window[l]
  <2>2. Recount(kept, l) = [log |-> log, total |-> Charge(DOMAIN log), logExp |-> k.logExp,
                            totalExp |-> exp]
    <3>1. kept.log = log /\ kept.logExp = k.logExp
      OBVIOUS
    <3>2. Recount(kept, l) = [kept EXCEPT !.total = Charge(DOMAIN log), !.totalExp = exp]
      BY <3>1, Zenon DEF Recount
    <3> HIDE DEF log, exp
    <3>3. QED
      BY <3>2
  <2>3. exp \in Int
    BY <1>k, <1>w
  <2>4. Keys(Recount(kept, l))
    BY <2>2, <2>3, <1>2, <1>4, <1>k, KeysOf
  <2>5. Charge(DOMAIN log) # None
    BY <1>4 DEF None
  <2>6. QED
    BY <2>1, <2>2, <2>4, <2>5 DEF Exact, TotalOf
<1>8. CASE DOMAIN log # {} /\ ~(k.total = None \/ left < 0)
  <2>1. Evict(k, l, n) = [kept EXCEPT !.total = left]
    BY <1>5, <1>8 DEF Evict
  <2>2. [kept EXCEPT !.total = left] =
            [log |-> log, total |-> left, logExp |-> k.logExp, totalExp |-> k.totalExp]
    OBVIOUS
  <2>3. k.total = Charge(DOMAIN k.log)
    BY <1>2, <1>8 DEF Matching
  <2>4. left = Charge(DOMAIN log) /\ left \in Nat /\ left # None
    BY <2>3, <1>3, <1>4 DEF None
  <2>5. Keys([log |-> log, total |-> left, logExp |-> k.logExp, totalExp |-> k.totalExp])
    BY <2>4, <1>2, <1>k, KeysOf
  <2>6. QED
    BY <2>1, <2>2, <2>4, <2>5 DEF Exact, TotalOf
<1>9. QED
  BY <1>6, <1>7, <1>8

\* touch writes only the TTLs.
LEMMA TouchExact ==
    ASSUME now \in Nat, NEW k, Exact(k), NEW l \in Limits
    PROVE  Exact(Touch(k, l))
<1> DEFINE exp == now + 2 * Window[l]
<1>1. exp \in Int
  BY QuotaAssumption
<1> HIDE DEF exp
<1>2. Touch(k, l) = [log |-> k.log, total |-> k.total, logExp |-> exp, totalExp |-> exp]
  <2>1. k = [log |-> k.log, total |-> k.total, logExp |-> k.logExp, totalExp |-> k.totalExp]
    BY DEF Exact, Keys
  <2>2. Touch(k, l) = [k EXCEPT !.logExp = exp, !.totalExp = exp]
    BY Zenon DEF Touch, exp
  <2>3. QED
    BY <2>1, <2>2
<1>3. Keys(Touch(k, l))
  BY <1>1, <1>2, KeysOf DEF Exact, Keys
<1>4. QED
  BY <1>2, <1>3 DEF Exact, TotalOf

\* A new member enters together with its cost.
LEMMA PutInExact ==
    ASSUME NEW k, Exact(k), NEW id \in Identifier, NEW cost \in 1 .. MaxCost,
           NEW score \in Int
    PROVE  Exact(PutIn(k, id, cost, score))
<1> DEFINE m == <<id, cost>>
           log == Put(k.log, m, score)
           total == IF m \in DOMAIN k.log THEN k.total ELSE TotalOf(k) + cost
<1>k. /\ k = [log |-> k.log, total |-> k.total, logExp |-> k.logExp, totalExp |-> k.totalExp]
      /\ k.total \in Nat \cup {None} /\ k.logExp \in Int /\ k.totalExp \in Int
      /\ DOMAIN k.log \subseteq Member /\ IsFiniteSet(DOMAIN k.log)
      /\ k.log \in [DOMAIN k.log -> Int]
  BY DEF Exact, Keys
<1>1. m \in Member /\ m[2] = cost /\ cost \in Nat
  BY CostAssumption DEF Member
<1>2. /\ DOMAIN log = DOMAIN k.log \cup {m}
      /\ DOMAIN log \subseteq Member /\ IsFiniteSet(DOMAIN log) /\ log \in [DOMAIN log -> Int]
  BY <1>k, <1>1, PutIsLog
<1>3. PutIn(k, id, cost, score) =
          [log |-> log, total |-> total, logExp |-> k.logExp, totalExp |-> k.totalExp]
  <2>1. PutIn(k, id, cost, score) = [k EXCEPT !.log = log, !.total = total]
    BY <1>k, Zenon DEF PutIn
  <2> HIDE DEF log, total
  <2>2. QED
    BY <1>k, <2>1
<1>4. TotalOf(k) = Charge(DOMAIN k.log) /\ Charge(DOMAIN k.log) \in Nat
  BY <1>k, UnitsFinite DEF Exact
<1> HIDE DEF m, log
<1>5. total \in Nat /\ total = Charge(DOMAIN log)
  <2>1. CASE m \in DOMAIN k.log
    <3>1. DOMAIN log = DOMAIN k.log /\ total = k.total
      BY <1>2, <2>1
    <3>2. k.total # None
      BY <2>1 DEF Exact
    <3>3. QED
      BY <1>4, <3>1, <3>2 DEF TotalOf
  <2>2. CASE m \notin DOMAIN k.log
    <3>1. Charge(DOMAIN k.log \cup {m}) = Charge(DOMAIN k.log) + m[2]
      BY <1>k, <1>1, <2>2, ChargeOfMore
    <3>2. QED
      BY <1>1, <1>2, <1>4, <2>2, <3>1
  <2>3. QED
    BY <2>1, <2>2
<1>6. total # None
  BY <1>5 DEF None
<1> HIDE DEF total
<1>7. Keys(PutIn(k, id, cost, score))
  BY <1>2, <1>3, <1>5, <1>k, KeysOf
<1>8. QED
  BY <1>3, <1>5, <1>6, <1>7 DEF Exact, TotalOf

\* ZADD NX and INCRBY, as RATE_ACQUIRE does them.
LEMMA RecordExact ==
    ASSUME now \in Nat, NEW k, Exact(k), NEW l \in Limits, NEW id \in Identifier,
           NEW cost \in 1 .. MaxCost, NEW n \in Int
    PROVE  Exact(Record(k, l, id, cost, n))
<1>1. CASE <<id, cost>> \in DOMAIN k.log
  BY <1>1, TouchExact DEF Record
<1>2. CASE <<id, cost>> \notin DOMAIN k.log
  <2>1. Record(k, l, id, cost, n) = Touch(PutIn(k, id, cost, n), l)
    BY <1>2 DEF Record, PutIn
  <2>2. QED
    BY <2>1, PutInExact, TouchExact
<1>3. QED
  BY <1>1, <1>2

\* The old entry leaves together with its cost, if it is there.
LEMMA TakeOutExact ==
    ASSUME NEW k, Exact(k), NEW id \in Identifier, NEW cost \in Costs
    PROVE  Exact(TakeOut(k, id, cost))
<1> DEFINE m == <<id, cost>>
           log == Drop(k.log, {m})
<1>1. CASE ~(cost > 0 /\ m \in DOMAIN k.log)
  BY <1>1 DEF TakeOut
<1>2. CASE cost > 0 /\ m \in DOMAIN k.log
  <2>k. /\ k = [log |-> k.log, total |-> k.total, logExp |-> k.logExp, totalExp |-> k.totalExp]
        /\ k.total \in Nat \cup {None} /\ k.logExp \in Int /\ k.totalExp \in Int
        /\ DOMAIN k.log \subseteq Member /\ IsFiniteSet(DOMAIN k.log)
        /\ k.log \in [DOMAIN k.log -> Int]
    BY DEF Exact, Keys
  <2>1. m \in Member /\ m[2] = cost
    BY <1>2, <2>k
  <2>2. /\ DOMAIN log = DOMAIN k.log \ {m}
        /\ DOMAIN log \subseteq Member /\ IsFiniteSet(DOMAIN log) /\ log \in [DOMAIN log -> Int]
    BY <2>k, DropIsLog
  <2>3. TakeOut(k, id, cost) = [log |-> log, total |-> k.total - cost, logExp |-> k.logExp,
                                totalExp |-> k.totalExp]
    BY <1>2, <2>k DEF TakeOut
  <2>4. k.total = Charge(DOMAIN k.log)
    BY <1>2 DEF Exact, TotalOf
  <2>5. /\ Charge(DOMAIN log) = Charge(DOMAIN k.log) - Charge({m})
        /\ Charge({m}) = cost
        /\ Charge(DOMAIN log) \in Nat
    BY <1>2, <2>k, <2>1, <2>2, ChargeOfRest, ChargeOfOne, UnitsFinite
  <2> HIDE DEF log, m
  <2>6. k.total - cost \in Nat /\ k.total - cost = Charge(DOMAIN log) /\ k.total - cost # None
    BY <2>4, <2>5 DEF None
  <2>7. Keys(TakeOut(k, id, cost))
    BY <2>2, <2>3, <2>6, <2>k, KeysOf
  <2>8. QED
    BY <2>3, <2>6, <2>7 DEF Exact, TotalOf
<1>3. QED
  BY <1>1, <1>2

\* One round of the loop of RATE_ADJUST.
LEMMA AdjustedExact ==
    ASSUME now \in Nat, NEW k, Matching(k), NEW l \in Limits, NEW id \in Identifier,
           NEW old \in Costs, NEW new \in Costs, NEW at \in Int, NEW n \in Int
    PROVE  Exact(Adjusted(k, l, id, old, new, at, n))
<1> DEFINE rest == TakeOut(Evict(k, l, n), id, old)
<1>1. Exact(rest)
  BY EvictExact, TakeOutExact
<1>2. CASE new > 0 /\ at > n - Window[l]
  <2>1. new \in 1 .. MaxCost
    BY <1>2, CostAssumption DEF Costs
  <2>2. Exact(Touch(PutIn(rest, id, new, at), l))
    BY <1>1, <2>1, PutInExact, TouchExact
  <2>3. QED
    BY <1>2, <2>2 DEF Adjusted
<1>3. CASE ~(new > 0 /\ at > n - Window[l])
  BY <1>1, <1>3, NoKeysExact DEF Adjusted
<1>4. QED
  BY <1>2, <1>3

\* A key that expires or is lost takes nothing away from what is said of both.
LEMMA PartsMatch ==
    ASSUME NEW k, Matching(k),
           NEW log \in {k.log, NoLog}, NEW total \in {k.total, None},
           NEW logExp \in Int, NEW totalExp \in Int
    PROVE  Matching([log |-> log, total |-> total, logExp |-> logExp, totalExp |-> totalExp])
<1>1. DOMAIN NoLog = {} /\ NoLog \in [DOMAIN NoLog -> Int] /\ IsFiniteSet(DOMAIN NoLog)
  <2>1. IsFiniteSet({})
    BY FS_EmptySet
  <2>2. QED
    BY <2>1 DEF NoLog
<1>2. /\ DOMAIN log \subseteq Member /\ IsFiniteSet(DOMAIN log) /\ log \in [DOMAIN log -> Int]
      /\ total \in Nat \cup {None}
  BY <1>1 DEF Matching, Keys
<1>3. Keys([log |-> log, total |-> total, logExp |-> logExp, totalExp |-> totalExp])
  BY <1>2, KeysOf
<1>4. QED
  BY <1>1, <1>3 DEF Matching

-----------------------------------------------------------------------------
(* The TTLs of one limit, at time t.                                        *)

Fresh(exp, l, t) == exp \in t .. t + 2 * Window[l]

Expiring(k, l, t) ==
    /\ DOMAIN k.log # {} => Fresh(k.logExp, l, t)
    /\ k.total # None => Fresh(k.totalExp, l, t)

LEMMA NoKeysExpiring == ASSUME NEW l, NEW t PROVE Expiring(NoKeys, l, t)
BY DEF Expiring, NoKeys, NoLog

LEMMA FreshFromNow ==
    ASSUME now \in Nat, NEW l \in Limits
    PROVE  Fresh(now + 2 * Window[l], l, now)
BY QuotaAssumption DEF Fresh

\* A total that is rebuilt takes the TTL of the log; all else keeps its own.
LEMMA EvictExpiring ==
    ASSUME now \in Nat, NEW k, Matching(k), NEW l \in Limits, NEW n \in Int,
           Expiring(k, l, now)
    PROVE  Expiring(Evict(k, l, n), l, now)
<1> DEFINE gone == Expired(k, l, n)
           log == Drop(k.log, gone)
           kept == [k EXCEPT !.log = log]
           exp == IF k.logExp > now THEN k.logExp ELSE now + 2 * Window[l]
<1>1. k = [log |-> k.log, total |-> k.total, logExp |-> k.logExp, totalExp |-> k.totalExp]
  BY DEF Matching, Keys
<1>2. DOMAIN log # {} => DOMAIN k.log # {}
  BY DEF Drop
<1>3. /\ kept.log = log /\ kept.logExp = k.logExp
      /\ kept.total = k.total /\ kept.totalExp = k.totalExp
  <2> HIDE DEF log
  <2>1. QED
    BY <1>1
<1>4. CASE DOMAIN log = {}
  BY <1>3, <1>4, NoKeysExpiring, Zenon DEF Evict
<1>5. CASE DOMAIN log # {}
  <2>1. CASE Evict(k, l, n) = Recount(kept, l)
    <3>1. Recount(kept, l) = [kept EXCEPT !.total = Charge(DOMAIN log), !.totalExp = exp]
      BY <1>3, Zenon DEF Recount
    <3>2. /\ Recount(kept, l).log = log /\ Recount(kept, l).logExp = k.logExp
          /\ Recount(kept, l).totalExp = exp
      <4> HIDE DEF log, exp
      <4>1. QED
        BY <1>1, <3>1
    <3>3. Fresh(k.logExp, l, now) /\ k.logExp \in Int
      BY <1>2, <1>5 DEF Expiring, Matching, Keys
    <3>4. Fresh(exp, l, now)
      BY <3>3, FreshFromNow
    <3>5. QED
      BY <2>1, <3>2, <3>3, <3>4 DEF Expiring
  <2>2. CASE Evict(k, l, n) = [kept EXCEPT !.total = k.total - Charge(gone)] /\ k.total # None
    <3> DEFINE left == k.total - Charge(gone)
    <3>1. /\ [kept EXCEPT !.total = left].log = log
          /\ [kept EXCEPT !.total = left].logExp = k.logExp
          /\ [kept EXCEPT !.total = left].totalExp = k.totalExp
      <4> HIDE DEF log, left
      <4>1. QED
        BY <1>1
    <3>2. QED
      BY <1>2, <2>2, <3>1 DEF Expiring
  <2>3. QED
    BY <1>3, <1>5, <2>1, <2>2, Zenon DEF Evict
<1>6. QED
  BY <1>4, <1>5

LEMMA TouchExpiring ==
    ASSUME now \in Nat, NEW k, Keys(k), NEW l \in Limits
    PROVE  Expiring(Touch(k, l), l, now)
<1> DEFINE exp == now + 2 * Window[l]
<1>1. Touch(k, l) = [k EXCEPT !.logExp = exp, !.totalExp = exp]
  BY Zenon DEF Touch
<1>2. Touch(k, l).logExp = exp /\ Touch(k, l).totalExp = exp
  <2> HIDE DEF exp
  <2>1. QED
    BY <1>1 DEF Keys
<1>3. QED
  BY <1>2, FreshFromNow DEF Expiring

LEMMA RecordExpiring ==
    ASSUME now \in Nat, NEW k, Exact(k), NEW l \in Limits, NEW id \in Identifier,
           NEW cost \in 1 .. MaxCost, NEW n \in Int
    PROVE  Expiring(Record(k, l, id, cost, n), l, now)
<1>1. CASE <<id, cost>> \in DOMAIN k.log
  BY <1>1, TouchExpiring DEF Record, Exact
<1>2. CASE <<id, cost>> \notin DOMAIN k.log
  <2>1. Record(k, l, id, cost, n) = Touch(PutIn(k, id, cost, n), l)
    BY <1>2 DEF Record, PutIn
  <2>2. Keys(PutIn(k, id, cost, n))
    BY PutInExact DEF Exact
  <2>3. QED
    BY <2>1, <2>2, TouchExpiring
<1>3. QED
  BY <1>1, <1>2

LEMMA TakeOutExpiring ==
    ASSUME NEW k, Exact(k), NEW id, NEW cost, NEW l, NEW t, Expiring(k, l, t)
    PROVE  Expiring(TakeOut(k, id, cost), l, t)
<1> DEFINE log == Drop(k.log, {<<id, cost>>})
           left == k.total - cost
<1>1. CASE cost > 0 /\ <<id, cost>> \in DOMAIN k.log
  <2>1. TakeOut(k, id, cost) = [k EXCEPT !.log = log, !.total = left]
    BY <1>1, Zenon DEF TakeOut
  <2>2. /\ TakeOut(k, id, cost).logExp = k.logExp
        /\ TakeOut(k, id, cost).totalExp = k.totalExp
    <3> HIDE DEF log, left
    <3>1. QED
      BY <2>1 DEF Exact, Keys
  <2>3. DOMAIN k.log # {} /\ k.total # None
    BY <1>1 DEF Exact
  <2>4. QED
    BY <2>2, <2>3 DEF Expiring
<1>2. CASE ~(cost > 0 /\ <<id, cost>> \in DOMAIN k.log)
  BY <1>2 DEF TakeOut
<1>3. QED
  BY <1>1, <1>2

LEMMA AdjustedExpiring ==
    ASSUME now \in Nat, NEW k, Matching(k), NEW l \in Limits, NEW id \in Identifier,
           NEW old \in Costs, NEW new \in Costs, NEW at \in Int, NEW n \in Int,
           Expiring(k, l, now)
    PROVE  Expiring(Adjusted(k, l, id, old, new, at, n), l, now)
<1> DEFINE rest == TakeOut(Evict(k, l, n), id, old)
<1>1. Exact(rest) /\ Expiring(rest, l, now)
  BY EvictExact, EvictExpiring, TakeOutExact, TakeOutExpiring
<1>2. CASE new > 0 /\ at > n - Window[l]
  <2>1. new \in 1 .. MaxCost
    BY <1>2, CostAssumption DEF Costs
  <2>2. Expiring(Touch(PutIn(rest, id, new, at), l), l, now)
    BY <1>1, <2>1, PutInExact, TouchExpiring DEF Exact
  <2>3. QED
    BY <1>2, <2>2 DEF Adjusted
<1>3. CASE ~(new > 0 /\ at > n - Window[l])
  BY <1>1, <1>3, NoKeysExpiring DEF Adjusted
<1>4. QED
  BY <1>2, <1>3

\* What is still there a millisecond later has not come to its TTL.
LEMMA AliveExpiring ==
    ASSUME now \in Nat, NEW k, Matching(k), NEW l \in Limits, Expiring(k, l, now)
    PROVE  Matching(Alive(k, now + 1)) /\ Expiring(Alive(k, now + 1), l, now + 1)
<1> DEFINE log == IF Over(k.logExp, now + 1) THEN NoLog ELSE k.log
           total == IF Over(k.totalExp, now + 1) THEN None ELSE k.total
           logExp == IF Over(k.logExp, now + 1) THEN None ELSE k.logExp
           totalExp == IF Over(k.totalExp, now + 1) THEN None ELSE k.totalExp
<1>1. Alive(k, now + 1) =
          [log |-> log, total |-> total, logExp |-> logExp, totalExp |-> totalExp]
  BY DEF Alive
<1>2. logExp \in Int /\ totalExp \in Int
  BY DEF Matching, Keys, None
<1>3. log \in {k.log, NoLog} /\ total \in {k.total, None}
  OBVIOUS
<1>w. Window[l] \in Nat
  BY QuotaAssumption
<1>4. DOMAIN log # {} => Fresh(logExp, l, now + 1)
  <2>1. SUFFICES ASSUME DOMAIN log # {} PROVE Fresh(logExp, l, now + 1)
    OBVIOUS
  <2>2. ~Over(k.logExp, now + 1)
    BY <2>1 DEF NoLog
  <2>3. k.logExp \in now .. now + 2 * Window[l]
    BY <2>1, <2>2 DEF Expiring, Fresh
  <2>4. QED
    BY <2>2, <2>3, <1>w DEF Over, None, Fresh
<1>5. total # None => Fresh(totalExp, l, now + 1)
  <2>1. SUFFICES ASSUME total # None PROVE Fresh(totalExp, l, now + 1)
    OBVIOUS
  <2>2. ~Over(k.totalExp, now + 1) /\ k.total # None
    BY <2>1
  <2>3. k.totalExp \in now .. now + 2 * Window[l]
    BY <2>1, <2>2 DEF Expiring, Fresh
  <2>4. QED
    BY <2>2, <2>3, <1>w DEF Over, None, Fresh
<1> HIDE DEF log, total, logExp, totalExp
<1>6. QED
  BY <1>1, <1>2, <1>3, <1>4, <1>5, PartsMatch DEF Expiring
-----------------------------------------------------------------------------
(* Highest and lowest elements, and images, of finite sets.                 *)

\* A finite set of numbers has a highest one: take one with the fewest above it.
LEMMA HighestExists ==
    ASSUME NEW S \in SUBSET Int, IsFiniteSet(S), S # {}
    PROVE  \E x \in S : \A y \in S : y <= x
<1> DEFINE Above(x) == {y \in S : y > x}
           T == {Above(x) : x \in S}
           R == StrictSubsetOrdering(S)
<1>1. T \subseteq FiniteSubsetsOf(S) /\ T # {}
  <2>1. \A t \in SUBSET S : IsFiniteSet(t)
    BY FS_Subset
  <2>2. \A t \in T : t \in SUBSET S
    OBVIOUS
  <2>3. FiniteSubsetsOf(S) = SUBSET S
    BY <2>1 DEF FiniteSubsetsOf
  <2>4. T # {}
    OBVIOUS
  <2> HIDE DEF T
  <2>5. QED
    BY <2>2, <2>3, <2>4
<1>2. IsWellFoundedOn(R, FiniteSubsetsOf(S))
  BY FS_StrictSubsetOrderingWellFounded
<1>3. \E t \in T : \A u \in T : ~(<<u, t>> \in R)
  <2> HIDE DEF R, T
  <2>1. QED
    BY <1>1, <1>2, WFMin
<1>4. PICK x \in S : \A u \in T : ~(<<u, Above(x)>> \in R)
  BY <1>3
<1>5. SUFFICES ASSUME NEW y \in S, y > x PROVE FALSE
  OBVIOUS
<1>6. Above(y) \subseteq Above(x) /\ y \in Above(x) /\ y \notin Above(y)
  <2>1. x \in Int /\ y \in Int /\ S \subseteq Int
    OBVIOUS
  <2>2. \A z \in S : z > y => z > x
    BY <1>5, <2>1
  <2>3. ~(y > y)
    BY <2>1
  <2>4. QED
    BY <1>5, <2>2, <2>3
<1>7. <<Above(y), Above(x)>> \in R
  BY <1>6 DEF StrictSubsetOrdering
<1>8. QED
  BY <1>4, <1>7

\* And a lowest one.
LEMMA LowestExists ==
    ASSUME NEW S \in SUBSET Int, IsFiniteSet(S), S # {}
    PROVE  \E x \in S : \A y \in S : x <= y
<1> DEFINE Below(x) == {y \in S : y < x}
           T == {Below(x) : x \in S}
           R == StrictSubsetOrdering(S)
<1>1. T \subseteq FiniteSubsetsOf(S) /\ T # {}
  <2>1. \A t \in SUBSET S : IsFiniteSet(t)
    BY FS_Subset
  <2>2. \A t \in T : t \in SUBSET S
    OBVIOUS
  <2>3. FiniteSubsetsOf(S) = SUBSET S
    BY <2>1 DEF FiniteSubsetsOf
  <2>4. T # {}
    OBVIOUS
  <2> HIDE DEF T
  <2>5. QED
    BY <2>2, <2>3, <2>4
<1>2. IsWellFoundedOn(R, FiniteSubsetsOf(S))
  BY FS_StrictSubsetOrderingWellFounded
<1>3. \E t \in T : \A u \in T : ~(<<u, t>> \in R)
  <2> HIDE DEF R, T
  <2>1. QED
    BY <1>1, <1>2, WFMin
<1>4. PICK x \in S : \A u \in T : ~(<<u, Below(x)>> \in R)
  BY <1>3
<1>5. SUFFICES ASSUME NEW y \in S, y < x PROVE FALSE
  OBVIOUS
<1>6. Below(y) \subseteq Below(x) /\ y \in Below(x) /\ y \notin Below(y)
  <2>1. x \in Int /\ y \in Int /\ S \subseteq Int
    OBVIOUS
  <2>2. \A z \in S : z < y => z < x
    BY <1>5, <2>1
  <2>3. ~(y < y)
    BY <2>1
  <2>4. QED
    BY <1>5, <2>2, <2>3
<1>7. <<Below(y), Below(x)>> \in R
  BY <1>6 DEF StrictSubsetOrdering
<1>8. QED
  BY <1>4, <1>7

\* The values of a function on a finite set are finitely many.
LEMMA ValuesFinite ==
    ASSUME NEW f, NEW S, IsFiniteSet(S), S \subseteq DOMAIN f
    PROVE  IsFiniteSet({f[x] : x \in S})
<1> DEFINE T == {f[x] : x \in S}
           g == [x \in S |-> f[x]]
<1>1. g \in Surjection(S, T)
  BY DEF Surjection
<1>2. QED
  BY <1>1, FS_Surjection

\* There are finitely many limits.
LEMMA LimitsFinite == IsFiniteSet(Limits)
<1>1. DOMAIN Order = 1 .. Len(Order) /\ Len(Order) \in Nat
  BY OrderAssumption
<1>2. IsFiniteSet(DOMAIN Order)
  BY <1>1, FS_Interval
<1>3. QED
  BY <1>2, ValuesFinite DEF Limits

-----------------------------------------------------------------------------
(* What is in a log after a script, when it was admitted, and the TTL.      *)

\* The log of k is that of j without some members.
Keeps(k, j, ms) ==
    /\ DOMAIN k.log = ms
    /\ \A m \in ms : k.log[m] = j.log[m]

LEMMA EvictLog ==
    ASSUME now \in Nat, NEW k, Matching(k), NEW l \in Limits, NEW n \in Int
    PROVE  /\ Keeps(Evict(k, l, n), k, DOMAIN k.log \ Expired(k, l, n))
           /\ DOMAIN Evict(k, l, n).log # {} => Evict(k, l, n).logExp = k.logExp
<1> DEFINE gone == Expired(k, l, n)
           log == Drop(k.log, gone)
           left == k.total - Charge(gone)
           kept == [k EXCEPT !.log = log]
           exp == IF k.logExp > now THEN k.logExp ELSE now + 2 * Window[l]
<1>1. k = [log |-> k.log, total |-> k.total, logExp |-> k.logExp, totalExp |-> k.totalExp]
  BY DEF Matching, Keys
<1>2. DOMAIN log = DOMAIN k.log \ gone /\ \A m \in DOMAIN log : log[m] = k.log[m]
  BY DEF Drop
<1>3. /\ kept.log = log /\ kept.logExp = k.logExp
      /\ kept.total = k.total /\ kept.totalExp = k.totalExp
  <2> HIDE DEF log
  <2>1. QED
    BY <1>1
<1>4. CASE DOMAIN log = {}
  <2>1. Evict(k, l, n) = NoKeys
    BY <1>3, <1>4, Zenon DEF Evict
  <2>2. QED
    BY <1>2, <1>4, <2>1 DEF NoKeys, NoLog, Keeps
<1>5. CASE DOMAIN log # {}
  <2>1. CASE Evict(k, l, n) = Recount(kept, l)
    <3>1. Recount(kept, l) = [kept EXCEPT !.total = Charge(DOMAIN log), !.totalExp = exp]
      BY <1>3, Zenon DEF Recount
    <3>2. Recount(kept, l).log = log /\ Recount(kept, l).logExp = k.logExp
      <4> HIDE DEF log, exp
      <4>1. QED
        BY <1>1, <3>1
    <3>3. QED
      BY <1>2, <2>1, <3>2 DEF Keeps
  <2>2. CASE Evict(k, l, n) = [kept EXCEPT !.total = left]
    <3>1. [kept EXCEPT !.total = left].log = log /\ [kept EXCEPT !.total = left].logExp = k.logExp
      <4> HIDE DEF log, left
      <4>1. QED
        BY <1>1
    <3>2. QED
      BY <1>2, <2>2, <3>1 DEF Keeps
  <2>3. QED
    BY <1>3, <1>5, <2>1, <2>2, Zenon DEF Evict
<1>6. QED
  BY <1>4, <1>5

LEMMA TouchLog ==
    ASSUME NEW k, Keys(k), NEW l
    PROVE  Touch(k, l).log = k.log /\ Touch(k, l).logExp = now + 2 * Window[l]
<1> DEFINE exp == now + 2 * Window[l]
<1>1. Touch(k, l) = [k EXCEPT !.logExp = exp, !.totalExp = exp]
  BY Zenon DEF Touch
<1> HIDE DEF exp
<1>2. Touch(k, l).log = k.log /\ Touch(k, l).logExp = exp
  BY <1>1 DEF Keys
<1>3. QED
  BY <1>2 DEF exp

\* The new member has the given time, also when it was there.
LEMMA PutInLog ==
    ASSUME NEW k, Keys(k), NEW id, NEW cost, NEW at
    PROVE  /\ DOMAIN PutIn(k, id, cost, at).log = DOMAIN k.log \cup {<<id, cost>>}
           /\ PutIn(k, id, cost, at).log[<<id, cost>>] = at
           /\ \A m \in DOMAIN k.log \ {<<id, cost>>} : PutIn(k, id, cost, at).log[m] = k.log[m]
<1> DEFINE log == Put(k.log, <<id, cost>>, at)
           total == IF <<id, cost>> \in DOMAIN k.log THEN k.total ELSE TotalOf(k) + cost
<1>1. PutIn(k, id, cost, at) = [k EXCEPT !.log = log, !.total = total]
  BY Zenon DEF PutIn, Keys
<1>2. PutIn(k, id, cost, at).log = log
  <2> HIDE DEF log, total
  <2>1. QED
    BY <1>1 DEF Keys
<1>3. QED
  BY <1>2 DEF Put

\* A member that is there keeps its time.
LEMMA RecordLog ==
    ASSUME NEW k, Exact(k), NEW l \in Limits, NEW id \in Identifier,
           NEW cost \in 1 .. MaxCost, NEW n \in Int
    PROVE  LET m == <<id, cost>>
               r == Record(k, l, id, cost, n)
           IN  /\ DOMAIN r.log = DOMAIN k.log \cup {m}
               /\ \A x \in DOMAIN k.log : r.log[x] = k.log[x]
               /\ m \notin DOMAIN k.log => r.log[m] = n
               /\ r.logExp = now + 2 * Window[l]
<1> DEFINE m == <<id, cost>>
<1>1. CASE m \in DOMAIN k.log
  <2>1. Record(k, l, id, cost, n) = Touch(k, l)
    BY <1>1, Zenon DEF Record
  <2>2. QED
    BY <1>1, <2>1, TouchLog DEF Exact
<1>2. CASE m \notin DOMAIN k.log
  <2> DEFINE p == PutIn(k, id, cost, n)
  <2>1. Record(k, l, id, cost, n) = Touch(p, l)
    BY <1>2 DEF Record, PutIn
  <2>2. Keys(p)
    BY PutInExact DEF Exact
  <2>3. /\ DOMAIN p.log = DOMAIN k.log \cup {m} /\ p.log[m] = n
        /\ \A x \in DOMAIN k.log \ {m} : p.log[x] = k.log[x]
    BY PutInLog DEF Exact
  <2>4. Touch(p, l).log = p.log /\ Touch(p, l).logExp = now + 2 * Window[l]
    BY <2>2, TouchLog
  <2> HIDE DEF p
  <2>5. QED
    BY <1>2, <2>1, <2>3, <2>4
<1>3. QED
  BY <1>1, <1>2

LEMMA TakeOutLog ==
    ASSUME NEW k, Keys(k), NEW id, NEW cost
    PROVE  /\ Keeps(TakeOut(k, id, cost), k, DOMAIN k.log \ {<<id, cost>>})
           /\ TakeOut(k, id, cost).logExp = k.logExp
<1> DEFINE log == Drop(k.log, {<<id, cost>>})
           left == k.total - cost
<1>1. CASE cost > 0 /\ <<id, cost>> \in DOMAIN k.log
  <2>1. TakeOut(k, id, cost) = [k EXCEPT !.log = log, !.total = left]
    BY <1>1, Zenon DEF TakeOut
  <2>2. TakeOut(k, id, cost).log = log /\ TakeOut(k, id, cost).logExp = k.logExp
    <3> HIDE DEF log, left
    <3>1. QED
      BY <2>1 DEF Keys
  <2>3. QED
    BY <2>2 DEF Keeps, Drop
<1>2. CASE ~(cost > 0 /\ <<id, cost>> \in DOMAIN k.log)
  <2>1. TakeOut(k, id, cost) = k
    BY <1>2, Zenon DEF TakeOut
  <2>2. <<id, cost>> \notin DOMAIN k.log
    <3>1. <<id, cost>> \in Member => cost \in 1 .. MaxCost
      BY DEF Member
    <3>2. QED
      BY <1>2, <3>1, CostAssumption DEF Keys
  <2>3. QED
    BY <2>1, <2>2 DEF Keeps
<1>3. QED
  BY <1>1, <1>2

\* One round of the loop of RATE_ADJUST: the old cost of the request goes, the new
\* one comes at the time of its admission.
Moved(a, k, l, id, old, new, at, n) ==
    LET rest == (DOMAIN k.log \ Expired(k, l, n)) \ {<<id, old>>}
    IN  IF new > 0 /\ at > n - Window[l]
        THEN /\ DOMAIN a.log = rest \cup {<<id, new>>}
             /\ a.log[<<id, new>>] = at
             /\ \A m \in rest \ {<<id, new>>} : a.log[m] = k.log[m]
             /\ a.logExp = now + 2 * Window[l]
        ELSE /\ Keeps(a, k, rest)
             /\ DOMAIN a.log # {} => a.logExp = k.logExp

LEMMA AdjustedLog ==
    ASSUME now \in Nat, NEW k, Matching(k), NEW l \in Limits, NEW id \in Identifier,
           NEW old \in Costs, NEW new \in Costs, NEW at \in Int, NEW n \in Int
    PROVE  Moved(Adjusted(k, l, id, old, new, at, n), k, l, id, old, new, at, n)
<1> DEFINE e == Evict(k, l, n)
           t == TakeOut(e, id, old)
           rest == (DOMAIN k.log \ Expired(k, l, n)) \ {<<id, old>>}
           p == PutIn(t, id, new, at)
<1>1. Exact(e) /\ Exact(t)
  BY EvictExact, TakeOutExact
<1>2. /\ Keeps(e, k, DOMAIN k.log \ Expired(k, l, n))
      /\ DOMAIN e.log # {} => e.logExp = k.logExp
  BY EvictLog
<1>3. Keeps(t, e, DOMAIN e.log \ {<<id, old>>}) /\ t.logExp = e.logExp
  BY <1>1, TakeOutLog DEF Exact
<1>4. Keeps(t, k, rest) /\ (DOMAIN t.log # {} => t.logExp = k.logExp)
  <2> HIDE DEF e, t
  <2>1. QED
    BY <1>2, <1>3 DEF Keeps
<1>5. CASE new > 0 /\ at > n - Window[l]
  <2>1. Adjusted(k, l, id, old, new, at, n) = Touch(p, l)
    BY <1>5, Zenon DEF Adjusted
  <2>2. new \in 1 .. MaxCost
    BY <1>5, CostAssumption DEF Costs
  <2>3. Keys(p)
    BY <1>1, <2>2, PutInExact DEF Exact
  <2>4. /\ DOMAIN p.log = DOMAIN t.log \cup {<<id, new>>} /\ p.log[<<id, new>>] = at
        /\ \A m \in DOMAIN t.log \ {<<id, new>>} : p.log[m] = t.log[m]
    BY <1>1, PutInLog DEF Exact
  <2>5. Touch(p, l).log = p.log /\ Touch(p, l).logExp = now + 2 * Window[l]
    BY <2>3, TouchLog
  <2> HIDE DEF t, p
  <2>6. QED
    BY <1>4, <1>5, <2>1, <2>4, <2>5 DEF Keeps, Moved
<1>6. CASE ~(new > 0 /\ at > n - Window[l])
  <2>1. Adjusted(k, l, id, old, new, at, n) = IF DOMAIN t.log = {} THEN NoKeys ELSE t
    BY <1>6, Zenon DEF Adjusted
  <2>2. DOMAIN NoKeys.log = {}
    BY DEF NoKeys, NoLog
  <2> HIDE DEF t
  <2>3. QED
    BY <1>4, <1>6, <2>1, <2>2 DEF Keeps, Moved
<1>7. QED
  BY <1>5, <1>6

\* What has no TTL in the past stays as it is.
LEMMA AliveLog ==
    ASSUME NEW k, NEW t
    PROVE  /\ Over(k.logExp, t) => DOMAIN Alive(k, t).log = {}
           /\ ~Over(k.logExp, t) => Alive(k, t).log = k.log /\ Alive(k, t).logExp = k.logExp
BY DEF Alive, NoLog

-----------------------------------------------------------------------------
(* The wait of a denied request.                                            *)

\* The units of the log that are in the window at time t.
InWindow(k, l, t) == Charge(DOMAIN k.log \ Expired(k, l, t))

LEMMA ChargeMonotone ==
    ASSUME NEW ms, IsFiniteSet(ms), NEW part \in SUBSET ms
    PROVE  Charge(part) <= Charge(ms)
<1>1. IsFiniteSet(Units(ms)) /\ Units(part) \subseteq Units(ms)
  BY UnitsFinite DEF Units
<1>2. QED
  BY <1>1, FS_Subset DEF Charge

\* As time passes, units leave the window, and none come.
LEMMA WindowMoves ==
    ASSUME NEW k, Keys(k), NEW l \in Limits, NEW t \in Int, NEW u \in Int, t <= u
    PROVE  InWindow(k, l, u) \in Nat /\ InWindow(k, l, u) <= InWindow(k, l, t)
<1>1. IsFiniteSet(DOMAIN k.log \ Expired(k, l, t)) /\ IsFiniteSet(DOMAIN k.log \ Expired(k, l, u))
  <2>1. IsFiniteSet(DOMAIN k.log)
    BY DEF Keys
  <2>2. QED
    BY <2>1, FS_Subset
<1>2. Expired(k, l, t) \subseteq Expired(k, l, u)
  <2>1. Window[l] \in Int /\ \A m \in DOMAIN k.log : k.log[m] \in Int
    BY QuotaAssumption DEF Keys
  <2>2. QED
    BY <2>1 DEF Expired
<1>3. DOMAIN k.log \ Expired(k, l, u) \in SUBSET (DOMAIN k.log \ Expired(k, l, t))
  BY <1>2
<1>4. QED
  BY <1>1, <1>3, ChargeMonotone, UnitsFinite DEF InWindow

\* After evict the total is what is in the window.
LEMMA EvictTotal ==
    ASSUME now \in Nat, NEW k, Matching(k), NEW l \in Limits, NEW t \in Int
    PROVE  TotalOf(Evict(k, l, t)) = InWindow(k, l, t)
<1>1. DOMAIN Evict(k, l, t).log = DOMAIN k.log \ Expired(k, l, t)
  BY EvictLog DEF Keeps
<1>2. QED
  BY <1>1, EvictExact DEF Exact, InWindow

UpTo(k, s) == {m \in DOMAIN k.log : k.log[m] <= s}

Scores(k) == {k.log[m] : m \in DOMAIN k.log}

Enough(k, need) == {s \in Scores(k) : Charge(UpTo(k, s)) >= need}

LEMMA ScoresFinite ==
    ASSUME NEW k, Keys(k), NEW need
    PROVE  /\ Scores(k) \in SUBSET Int /\ IsFiniteSet(Scores(k))
           /\ Enough(k, need) \in SUBSET Int /\ IsFiniteSet(Enough(k, need))
<1>1. Scores(k) \in SUBSET Int
  BY DEF Scores, Keys
<1>2. IsFiniteSet(Scores(k))
  BY ValuesFinite DEF Scores, Keys
<1>3. Enough(k, need) \subseteq Scores(k)
  BY DEF Enough
<1>4. QED
  BY <1>1, <1>2, <1>3, FS_Subset

\* The walk ends at the lowest score that is enough.
LEMMA WaitForIs ==
    ASSUME NEW k, Keys(k), NEW l \in Limits, NEW need, NEW n \in Int
    PROVE  /\ WaitFor(k, l, need, n) \in Nat \ {0}
           /\ Enough(k, need) # {} =>
                  \E s \in Enough(k, need) :
                      /\ \A t \in Enough(k, need) : s <= t
                      /\ s + Window[l] - n >= 1 => WaitFor(k, l, need, n) = s + Window[l] - n
<1> DEFINE enough == Enough(k, need)
           s == CHOOSE x \in enough : \A t \in enough : x <= t
           wait == IF enough = {} THEN Window[l] ELSE s + Window[l] - n
<1>1. WaitFor(k, l, need, n) = IF wait < 1 THEN 1 ELSE wait
  BY DEF WaitFor, Enough, Scores, UpTo
<1>2. Window[l] \in Nat
  BY QuotaAssumption
<1>3. CASE enough = {}
  <2>1. wait = Window[l]
    BY <1>3
  <2> HIDE DEF wait
  <2>2. QED
    BY <1>1, <1>2, <1>3, <2>1
<1>4. CASE enough # {}
  <2>1. \E x \in enough : \A t \in enough : x <= t
    BY <1>4, ScoresFinite, LowestExists
  <2>2. s \in enough /\ \A t \in enough : s <= t
    BY <2>1
  <2>3. s \in Int /\ wait = s + Window[l] - n
    BY <1>4, <2>2, ScoresFinite
  <2> HIDE DEF s, wait
  <2>4. QED
    BY <1>1, <1>2, <2>2, <2>3
<1>5. QED
  BY <1>3, <1>4

\* A member leaves the window of l when its score is a window old.
LEMMA WindowAfter ==
    ASSUME now \in Nat, NEW k, Matching(k), NEW l \in Limits, NEW n \in Int, NEW s \in Int,
           n <= s + Window[l]
    PROVE  InWindow(k, l, s + Window[l]) =
               InWindow(k, l, n) - Charge(UpTo(Evict(k, l, n), s))
<1> DEFINE e == Evict(k, l, n)
<1>1. Keeps(e, k, DOMAIN k.log \ Expired(k, l, n)) /\ Keys(e)
  BY EvictLog, EvictExact DEF Exact
<1>2. Window[l] \in Int /\ \A m \in DOMAIN k.log : k.log[m] \in Int
  BY QuotaAssumption DEF Matching, Keys
<1>3. DOMAIN k.log \ Expired(k, l, s + Window[l]) = DOMAIN e.log \ UpTo(e, s)
  <2> HIDE DEF e
  <2>1. \A m \in DOMAIN k.log :
            (k.log[m] > (s + Window[l]) - Window[l]) <=> (k.log[m] > n - Window[l] /\ ~(k.log[m] <= s))
    BY <1>2
  <2>2. DOMAIN e.log = {m \in DOMAIN k.log : ~(k.log[m] <= n - Window[l])}
    BY <1>1 DEF Keeps, Expired
  <2>3. \A m \in DOMAIN e.log : e.log[m] = k.log[m]
    BY <1>1 DEF Keeps
  <2>4. UpTo(e, s) = {m \in DOMAIN e.log : k.log[m] <= s}
    BY <2>3 DEF UpTo
  <2>5. \A m \in DOMAIN k.log : ~(k.log[m] <= (s + Window[l]) - Window[l])
                                <=> (~(k.log[m] <= n - Window[l]) /\ ~(k.log[m] <= s))
    BY <1>2, <2>1
  <2>6. \A m \in DOMAIN k.log : m \in Expired(k, l, s + Window[l])
                                <=> k.log[m] <= (s + Window[l]) - Window[l]
    BY DEF Expired
  <2>7. \A m \in DOMAIN k.log : m \notin Expired(k, l, s + Window[l])
                                <=> (m \in DOMAIN e.log /\ m \notin UpTo(e, s))
    <3>1. \A m \in DOMAIN k.log : m \in DOMAIN e.log <=> ~(k.log[m] <= n - Window[l])
      BY <2>2
    <3>2. \A m \in DOMAIN e.log : m \in UpTo(e, s) <=> k.log[m] <= s
      BY <2>4
    <3>3. QED
      BY <2>5, <2>6, <3>1, <3>2
  <2>8. DOMAIN e.log \subseteq DOMAIN k.log
    BY <2>2
  <2>9. QED
    BY <2>7, <2>8
<1>4. Charge(DOMAIN e.log \ UpTo(e, s)) = Charge(DOMAIN e.log) - Charge(UpTo(e, s))
  <2>1. IsFiniteSet(DOMAIN e.log) /\ UpTo(e, s) \in SUBSET DOMAIN e.log
    BY <1>1 DEF Keys, UpTo
  <2>2. QED
    BY <2>1, ChargeOfRest
<1>5. QED
  BY <1>1, <1>3, <1>4 DEF InWindow, Keeps

\* A request that fits the limit waits until enough units are out of the window, and
\* not a millisecond longer.
LEMMA WaitForExact ==
    ASSUME now \in Nat, NEW k, Matching(k), NEW l \in Limits, NEW n \in Int,
           NEW cost \in Nat, cost <= Limit[l],
           NEW need, need = InWindow(k, l, n) + cost - Limit[l], need > 0
    PROVE  LET w == WaitFor(Evict(k, l, n), l, need, n)
           IN  /\ w \in Nat \ {0}
               /\ InWindow(k, l, n + w) + cost <= Limit[l]
               /\ InWindow(k, l, n + w - 1) + cost > Limit[l]
<1> DEFINE e == Evict(k, l, n)
           w == WaitFor(e, l, need, n)
<1>1. Keeps(e, k, DOMAIN k.log \ Expired(k, l, n)) /\ Keys(e) /\ Keys(k)
  BY EvictLog, EvictExact DEF Exact, Matching
<1>2. /\ InWindow(k, l, n) = Charge(DOMAIN e.log) /\ InWindow(k, l, n) \in Nat
      /\ Limit[l] \in Nat /\ Window[l] \in Nat \ {0} /\ need \in Nat
  BY <1>1, WindowMoves, QuotaAssumption DEF Keeps, InWindow
<1>3. /\ \A m \in DOMAIN e.log : e.log[m] \in Int
      /\ \A m \in DOMAIN e.log : e.log[m] > n - Window[l]
      /\ IsFiniteSet(DOMAIN e.log)
  <2>1. \A m \in DOMAIN e.log : e.log[m] \in Int /\ m \in DOMAIN k.log /\ m \notin Expired(k, l, n)
                                /\ e.log[m] = k.log[m]
    BY <1>1 DEF Keeps, Keys
  <2>2. IsFiniteSet(DOMAIN e.log)
    BY <1>1 DEF Keys
  <2> HIDE DEF e
  <2>3. QED
    BY <1>2, <2>1, <2>2 DEF Expired
<1>4. ASSUME NEW s \in Int
      PROVE  UpTo(e, s) \in SUBSET DOMAIN e.log /\ IsFiniteSet(UpTo(e, s))
             /\ Charge(UpTo(e, s)) \in Nat
  <2>1. UpTo(e, s) \in SUBSET DOMAIN e.log
    BY DEF UpTo
  <2>2. QED
    BY <1>3, <2>1, FS_Subset, UnitsFinite
\* All that is in the log is enough, and so is its highest score; if less than s is
\* enough, so is a score below s.
<1>5. ASSUME NEW s \in Int, Charge(UpTo(e, s)) >= need
      PROVE  \E t \in Enough(e, need) : t <= s
  <2>1. UpTo(e, s) # {}
    BY <1>2, <1>5, EmptyCharge
  <2> DEFINE T == {e.log[m] : m \in UpTo(e, s)}
  <2>2. T \in SUBSET Int /\ IsFiniteSet(T) /\ T # {}
    BY <1>3, <1>4, <2>1, ValuesFinite
  <2>3. PICK t \in T : \A u \in T : u <= t
    BY <2>2, HighestExists
  <2>4. t \in Scores(e) /\ t <= s /\ t \in Int
    BY <1>3 DEF UpTo, Scores
  <2>5. UpTo(e, t) = UpTo(e, s)
    <3>1. \A m \in DOMAIN e.log : e.log[m] <= s => e.log[m] <= t
      BY <2>3 DEF UpTo
    <3>2. \A m \in DOMAIN e.log : e.log[m] <= t => e.log[m] <= s
      BY <1>3, <2>4
    <3>3. QED
      BY <3>1, <3>2 DEF UpTo
  <2>6. t \in Enough(e, need)
    BY <1>5, <2>4, <2>5 DEF Enough
  <2>7. QED
    BY <2>4, <2>6
<1>6. Enough(e, need) # {}
  <2>1. DOMAIN e.log # {}
    BY <1>2, EmptyCharge
  <2>2. Scores(e) \in SUBSET Int /\ IsFiniteSet(Scores(e)) /\ Scores(e) # {}
    BY <1>1, <2>1, ScoresFinite DEF Scores
  <2>3. PICK top \in Scores(e) : \A u \in Scores(e) : u <= top
    BY <2>2, HighestExists
  <2>4. UpTo(e, top) = DOMAIN e.log
    BY <2>3 DEF UpTo, Scores
  <2>5. Charge(UpTo(e, top)) >= need
    BY <1>2, <2>4
  <2>6. QED
    BY <2>3, <2>5 DEF Enough
<1>7. PICK s \in Enough(e, need) :
          /\ \A t \in Enough(e, need) : s <= t
          /\ s + Window[l] - n >= 1 => w = s + Window[l] - n
  BY <1>1, <1>6, WaitForIs
<1>8. s \in Int /\ s > n - Window[l] /\ Charge(UpTo(e, s)) >= need
  BY <1>3 DEF Enough, Scores
<1>9. w = s + Window[l] - n /\ w \in Nat \ {0}
  BY <1>2, <1>7, <1>8
<1>10. InWindow(k, l, n + w) + cost <= Limit[l]
  <2>1. n + w = s + Window[l] /\ n <= s + Window[l]
    <3>1. s \in Int /\ s > n - Window[l] /\ Window[l] \in Int /\ w = s + Window[l] - n
      BY <1>2, <1>8, <1>9
    <3> HIDE DEF w, e
    <3>2. QED
      BY <3>1
  <2>2. InWindow(k, l, n + w) = InWindow(k, l, n) - Charge(UpTo(e, s))
    BY <1>8, <2>1, WindowAfter
  <2>3. Charge(UpTo(e, s)) \in Nat
    BY <1>4, <1>8
  <2> HIDE DEF w, e
  <2>4. QED
    BY <1>2, <1>8, <2>2, <2>3
<1>11. InWindow(k, l, n + w - 1) + cost > Limit[l]
  <2>1. s - 1 \in Int /\ n + w - 1 = (s - 1) + Window[l] /\ n <= (s - 1) + Window[l]
    <3>1. s \in Int /\ s > n - Window[l] /\ Window[l] \in Int /\ w = s + Window[l] - n
      BY <1>2, <1>8, <1>9
    <3> HIDE DEF w, e
    <3>2. QED
      BY <3>1
  <2>2. InWindow(k, l, n + w - 1) = InWindow(k, l, n) - Charge(UpTo(e, s - 1))
    BY <2>1, WindowAfter
  <2>3. Charge(UpTo(e, s - 1)) \in Nat
    BY <1>4, <2>1
  <2>4. Charge(UpTo(e, s - 1)) < need
    <3>1. SUFFICES ASSUME Charge(UpTo(e, s - 1)) >= need PROVE FALSE
      BY <1>2, <2>3
    <3>2. PICK t \in Enough(e, need) : t <= s - 1
      BY <1>5, <2>1, <3>1
    <3>3. t \in Int /\ s <= t
      BY <1>1, <1>7, ScoresFinite
    <3>4. QED
      BY <1>8, <3>2, <3>3
  <2> HIDE DEF w, e
  <2>5. QED
    BY <1>2, <2>2, <2>3, <2>4
<1>12. QED
  BY <1>9, <1>10, <1>11

\* The wait for one limit.
WaitOf(c, l, n) == WaitFor(Evicted(n)[l], l, Excess(Evicted(n), l, c), n)

\* retry_after is the longest of the waits for the limits that block.
LEMMA RetryAfterIs ==
    ASSUME now \in Nat, \A l \in Limits : Matching(rate[l]), NEW id, NEW c, NEW n \in Int
    PROVE  /\ RetryAfter(id, c, n) \in Nat
           /\ Admits(id, c, n) => RetryAfter(id, c, n) = 0
           /\ ~Admits(id, c, n) => \E l \in Blocked(Evicted(n), id, c) :
                                       RetryAfter(id, c, n) = WaitOf(c, l, n)
           /\ \A l \in Blocked(Evicted(n), id, c) : WaitOf(c, l, n) <= RetryAfter(id, c, n)
<1> DEFINE B == Blocked(Evicted(n), id, c)
           f == [l \in Limits |-> WaitOf(c, l, n)]
           waits == {WaitOf(c, l, n) : l \in B}
           w == CHOOSE x \in waits : \A v \in waits : v <= x
<1>1. B \subseteq Limits
  BY DEF Blocked, Limits
<1>2. \A l \in Limits : f[l] \in Nat
  <2>1. TAKE l \in Limits
  <2>2. Keys(Evicted(n)[l])
    BY EvictExact DEF Evicted, Exact
  <2>3. QED
    BY <2>2, WaitForIs DEF WaitOf
<1>3. RetryAfter(id, c, n) = IF waits = {} THEN 0 ELSE w
  BY DEF RetryAfter, WaitOf
<1>v. waits = {f[l] : l \in B}
  BY <1>1
<1>4. waits \in SUBSET Int /\ IsFiniteSet(waits)
  <2>1. IsFiniteSet(B)
    BY <1>1, LimitsFinite, FS_Subset
  <2>2. waits \in SUBSET Int
    <3> HIDE DEF f, B, waits
    <3>1. QED
      BY <1>1, <1>2, <1>v
  <2>3. IsFiniteSet(waits)
    <3>1. B \subseteq DOMAIN f
      BY <1>1
    <3> HIDE DEF f, B, waits
    <3>2. QED
      BY <2>1, <3>1, <1>v, ValuesFinite
  <2>4. QED
    BY <2>2, <2>3
<1>5. Admits(id, c, n) <=> B = {}
  BY DEF Admits
<1>6. \A l \in B : f[l] = WaitOf(c, l, n)
  BY <1>1
<1>7. CASE B = {}
  <2>1. waits = {}
    BY <1>7
  <2> HIDE DEF f, waits
  <2>2. QED
    BY <1>3, <1>5, <1>7, <2>1
<1>8. CASE B # {}
  <2>1. waits # {}
    BY <1>8
  <2>2. \E x \in waits : \A v \in waits : v <= x
    <3> HIDE DEF waits
    <3>1. QED
      BY <1>4, <2>1, HighestExists
  <2>3. w \in waits /\ \A v \in waits : v <= w
    <3> HIDE DEF waits
    <3>1. QED
      BY <2>2
  <2>4. RetryAfter(id, c, n) = w
    BY <1>3, <2>1
  <2> HIDE DEF w, f, B, waits
  <2>5. PICK l \in B : w = f[l]
    BY <2>3, <1>v
  <2>6. w \in Nat
    BY <1>1, <1>2, <2>5
  <2>7. \A m \in B : f[m] <= w
    BY <2>3, <1>v
  <2>8. QED
    BY <1>5, <1>6, <1>8, <2>4, <2>5, <2>6, <2>7 DEF B
<1>9. QED
  BY <1>7, <1>8

\* What blocks a request that is in no log.
LEMMA BlockedWhenFresh ==
    ASSUME now \in Nat, \A l \in Limits : Matching(rate[l]), NEW id, NEW c, NEW n \in Int,
           \A l \in Limits : \A m \in DOMAIN rate[l].log : m[1] # id
    PROVE  Blocked(Evicted(n), id, c) =
               {l \in Limits : c[l] > 0 /\ InWindow(rate[l], l, n) + c[l] - Limit[l] > 0}
<1> DEFINE ks == Evicted(n)
<1>1. \A l \in Limits : Excess(ks, l, c) = InWindow(rate[l], l, n) + c[l] - Limit[l]
  BY EvictTotal DEF Evicted, Excess
<1>2. \A l \in Limits : \A m \in DOMAIN ks[l].log : m[1] # id
  BY EvictLog DEF Evicted, Keeps
<1>3. \A i \in DOMAIN Order : Order[i] \in Limits
  BY DEF Limits
<1>4. ASSUME NEW i \in DOMAIN Order
      PROVE  ~Recorded(ks, id, c, i)
  <2>1. DOMAIN Order = 1 .. Len(Order) /\ Len(Order) \in Nat
    BY OrderAssumption
  <2>2. \A j \in 1 .. i : j \in DOMAIN Order
    BY <2>1
  <2>3. \A j \in 1 .. i : <<id, c[Order[j]]>> \notin DOMAIN ks[Order[j]].log
    BY <1>2, <1>3, <2>2
  <2>4. QED
    BY <2>3 DEF Recorded
<1>5. \A l \in Limits : \E i \in DOMAIN Order : l = Order[i]
  BY DEF Limits
<1> HIDE DEF ks
<1>6. Blocked(ks, id, c) = {Order[i] : i \in {j \in DOMAIN Order :
                               c[Order[j]] > 0 /\ Excess(ks, Order[j], c) > 0}}
  BY <1>4 DEF Blocked
<1>7. QED
  BY <1>1, <1>3, <1>5, <1>6 DEF ks

-----------------------------------------------------------------------------
(* The TTL of a log.                                                        *)

\* Clocks that are off by the members of S differ by at most the shortest window.
Close(S) == S \subseteq Int /\ \A l \in Limits, s, t \in S : s - t <= Window[l]

\* No entry of the log is in the window on any of these clocks when the TTL ends.
Lasts(k, l, S) == \A m \in DOMAIN k.log, s \in S : k.log[m] + Window[l] <= k.logExp + s

\* t is not later than what one of these clocks shows.
Past(t, S) == t \in Int /\ \E s \in S : t <= now + s

\* The TTL that touch sets covers the old entries, and one of any client's time.
LEMMA TouchedLasts ==
    ASSUME now \in Nat, NEW S, Close(S), NEW l \in Limits, NEW j, NEW k, Keys(j), Keys(k),
           Lasts(j, l, S), Expiring(j, l, now), k.logExp = now + 2 * Window[l],
           \A m \in DOMAIN k.log : \/ m \in DOMAIN j.log /\ k.log[m] = j.log[m]
                                   \/ Past(k.log[m], S)
    PROVE  Lasts(k, l, S)
<1> SUFFICES ASSUME NEW m \in DOMAIN k.log, NEW s \in S
             PROVE  k.log[m] + Window[l] <= k.logExp + s
  BY DEF Lasts
<1>1. Window[l] \in Nat /\ k.log[m] \in Int /\ s \in Int /\ now \in Int
  BY QuotaAssumption DEF Keys, Close
<1>2. CASE m \in DOMAIN j.log /\ k.log[m] = j.log[m]
  <2>1. k.log[m] + Window[l] <= j.logExp + s
    BY <1>2 DEF Lasts
  <2>2. j.logExp <= now + 2 * Window[l] /\ j.logExp \in Int
    BY <1>1, <1>2 DEF Expiring, Fresh
  <2>3. QED
    BY <1>1, <2>1, <2>2
<1>3. CASE Past(k.log[m], S)
  <2>1. PICK t \in S : k.log[m] <= now + t
    BY <1>3 DEF Past
  <2>2. t \in Int /\ t - s <= Window[l]
    BY DEF Close
  <2>3. QED
    BY <1>1, <2>1, <2>2
<1>4. QED
  BY <1>2, <1>3

\* What a script only takes entries from lasts as long as before.
LEMMA KeptLasts ==
    ASSUME NEW S, NEW j, NEW k, NEW l, NEW ms, Lasts(j, l, S), Keeps(k, j, ms), ms \subseteq DOMAIN j.log,
           DOMAIN k.log # {} => k.logExp = j.logExp
    PROVE  Lasts(k, l, S)
BY DEF Lasts, Keeps

LEMMA EvictLasts ==
    ASSUME now \in Nat, NEW S, NEW k, Matching(k), NEW l \in Limits, NEW n \in Int,
           Lasts(k, l, S)
    PROVE  Lasts(Evict(k, l, n), l, S)
<1> DEFINE e == Evict(k, l, n)
           kept == DOMAIN k.log \ Expired(k, l, n)
<1>1. Keeps(e, k, kept) /\ (DOMAIN e.log # {} => e.logExp = k.logExp)
  BY EvictLog
<1>2. kept \subseteq DOMAIN k.log
  OBVIOUS
<1> HIDE DEF kept, e
<1>3. Lasts(e, l, S)
  BY <1>1, <1>2, KeptLasts
<1>4. QED
  BY <1>3 DEF e

LEMMA RecordLasts ==
    ASSUME now \in Nat, NEW S, Close(S), NEW k, Exact(k), NEW l \in Limits, NEW id \in Identifier,
           NEW cost \in 1 .. MaxCost, NEW n, Past(n, S), Expiring(k, l, now), Lasts(k, l, S)
    PROVE  Lasts(Record(k, l, id, cost, n), l, S)
<1> DEFINE r == Record(k, l, id, cost, n)
<1>1. n \in Int
  BY DEF Past
<1>2. Keys(r) /\ Keys(k)
  BY <1>1, RecordExact DEF Exact
<1>3. /\ DOMAIN r.log = DOMAIN k.log \cup {<<id, cost>>}
      /\ \A x \in DOMAIN k.log : r.log[x] = k.log[x]
      /\ <<id, cost>> \notin DOMAIN k.log => r.log[<<id, cost>>] = n
      /\ r.logExp = now + 2 * Window[l]
  BY <1>1, RecordLog
<1> HIDE DEF r
<1>4. \A m \in DOMAIN r.log : \/ m \in DOMAIN k.log /\ r.log[m] = k.log[m]
                              \/ Past(r.log[m], S)
  BY <1>1, <1>3
<1>5. Lasts(r, l, S)
  BY <1>2, <1>3, <1>4, TouchedLasts
<1>6. QED
  BY <1>5 DEF r

LEMMA AdjustedLasts ==
    ASSUME now \in Nat, NEW S, Close(S), NEW k, Matching(k), NEW l \in Limits, NEW id \in Identifier,
           NEW old \in Costs, NEW new \in Costs, NEW at, Past(at, S), NEW n \in Int,
           Expiring(k, l, now), Lasts(k, l, S)
    PROVE  Lasts(Adjusted(k, l, id, old, new, at, n), l, S)
<1> DEFINE a == Adjusted(k, l, id, old, new, at, n)
           rest == (DOMAIN k.log \ Expired(k, l, n)) \ {<<id, old>>}
<1>1. at \in Int
  BY DEF Past
<1>2. Keys(a) /\ Keys(k)
  BY <1>1, AdjustedExact DEF Exact, Matching
<1>3. Moved(a, k, l, id, old, new, at, n)
  <2>1. at \in Int
    BY <1>1
  <2>2. QED
    BY <2>1, AdjustedLog, Zenon
<1>4. rest \subseteq DOMAIN k.log
  OBVIOUS
<1> HIDE DEF a
<1>5. CASE new > 0 /\ at > n - Window[l]
  <2>1. \A m \in DOMAIN a.log : \/ m \in DOMAIN k.log /\ a.log[m] = k.log[m]
                                \/ Past(a.log[m], S)
    BY <1>1, <1>3, <1>4, <1>5 DEF Moved
  <2>2. Lasts(a, l, S)
    BY <1>2, <1>3, <1>5, <2>1, TouchedLasts DEF Moved
  <2>3. QED
    BY <2>2 DEF a
<1>6. CASE ~(new > 0 /\ at > n - Window[l])
  <2>0. Keeps(a, k, rest) /\ (DOMAIN a.log # {} => a.logExp = k.logExp)
    BY <1>3, <1>6 DEF Moved
  <2>1. Lasts(a, l, S)
    <3> HIDE DEF rest
    <3>1. QED
      BY <1>4, <2>0, KeptLasts
  <2>2. QED
    BY <2>1 DEF a
<1>7. QED
  BY <1>5, <1>6

LEMMA EmptyLasts == ASSUME NEW S, NEW k, NEW l, DOMAIN k.log = {} PROVE Lasts(k, l, S)
BY DEF Lasts

=============================================================================
