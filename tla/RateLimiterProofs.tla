---------------------------- MODULE RateLimiterProofs ----------------------------
(***************************************************************************)
(* What holds of RateLimiter for every set of limits, requests and costs,  *)
(* all windows, timeouts and bounds.  KeysOK says what is in Redis whoever *)
(* runs the scripts (RateScriptsProofs has a lemma for each); Waiting and  *)
(* Holding say what the logs hold of one request, where its caller stands. *)
(* A step of one request leaves the entries of all others that are in the  *)
(* window as they are, which is what Stays says of an entry.               *)
(***************************************************************************)
EXTENDS RateLimiter, RateScriptsProofs

-----------------------------------------------------------------------------
(* The keys.                                                                *)

\* Every limit has matching keys that expire, but not under an entry that counts.
KeysOK ==
    /\ now \in Nat
    /\ rate = [l \in Limits |-> rate[l]]
    /\ \A l \in Limits : /\ Matching(rate[l])
                         /\ Expiring(rate[l], l, now)
                         /\ Lasts(rate[l], l, {0})

LEMMA OneClock == Close({0}) /\ (now \in Nat => Past(now, {0}))
<1>1. \A l \in Limits : 0 - 0 <= Window[l]
  BY QuotaAssumption
<1>2. QED
  BY <1>1 DEF Close, Past

LEMMA EvictedKeysOK ==
    ASSUME KeysOK, NEW l \in Limits
    PROVE  /\ Exact(Evicted(now)[l]) /\ Matching(Evicted(now)[l])
           /\ Expiring(Evicted(now)[l], l, now) /\ Lasts(Evicted(now)[l], l, {0})
<1>1. now \in Int /\ Evicted(now)[l] = Evict(rate[l], l, now)
  BY DEF KeysOK, Evicted
<1>2. QED
  BY <1>1, EvictExact, EvictExpiring, EvictLasts, ExactMatches DEF KeysOK

LEMMA AcquireKeysOK ==
    ASSUME KeysOK, NEW r \in Identifier, NEW c \in [Limits -> Costs],
           RateAcquire(r, c, now), now' = now
    PROVE  KeysOK'
<1> DEFINE ks == Evicted(now)
           Granted(l) == IF c[l] > 0 THEN Record(ks[l], l, r, c[l], now) ELSE ks[l]
<1>1. \A l \in Limits : Matching(Granted(l)) /\ Expiring(Granted(l), l, now)
                        /\ Lasts(Granted(l), l, {0})
  <2>1. TAKE l \in Limits
  <2>2. CASE c[l] > 0
    <3>1. c[l] \in 1 .. MaxCost /\ now \in Int
      BY <2>2, CostAssumption DEF Costs, KeysOK
    <3>2. /\ Exact(Record(ks[l], l, r, c[l], now))
          /\ Expiring(Record(ks[l], l, r, c[l], now), l, now)
          /\ Lasts(Record(ks[l], l, r, c[l], now), l, {0})
      BY <3>1, EvictedKeysOK, OneClock, RecordExact, RecordExpiring, RecordLasts DEF KeysOK
    <3>3. QED
      BY <2>2, <3>2, ExactMatches
  <2>3. CASE ~(c[l] > 0)
    BY <2>3, EvictedKeysOK
  <2>4. QED
    BY <2>2, <2>3
<1>2. ks = [l \in Limits |-> ks[l]]
  BY DEF Evicted
<1>3. CASE rate' = ks
  BY <1>2, <1>3, EvictedKeysOK DEF KeysOK
<1>4. CASE rate' = [l \in Limits |-> Granted(l)]
  BY <1>1, <1>4 DEF KeysOK
<1>5. QED
  BY <1>3, <1>4 DEF RateAcquire

LEMMA AdjustKeysOK ==
    ASSUME KeysOK, NEW r \in Identifier, NEW old \in [Limits -> Costs],
           NEW new \in [Limits -> Costs], NEW at \in 0 .. now,
           RateAdjust(r, old, new, at, now), now' = now
    PROVE  KeysOK'
<1> DEFINE After(l) == IF old[l] # new[l] THEN Adjusted(rate[l], l, r, old[l], new[l], at, now)
                       ELSE rate[l]
<1>1. now \in Nat /\ now \in Int /\ at \in Int /\ Past(at, {0})
  BY DEF KeysOK, Past
<1>2. \A l \in Limits : Matching(After(l)) /\ Expiring(After(l), l, now) /\ Lasts(After(l), l, {0})
  <2>1. TAKE l \in Limits
  <2>2. old[l] \in Costs /\ new[l] \in Costs
    OBVIOUS
  <2>3. Matching(rate[l]) /\ Expiring(rate[l], l, now) /\ Lasts(rate[l], l, {0})
    BY DEF KeysOK
  <2>4. Matching(Adjusted(rate[l], l, r, old[l], new[l], at, now))
    BY <1>1, <2>2, <2>3, AdjustedExact, ExactMatches
  <2>5. Expiring(Adjusted(rate[l], l, r, old[l], new[l], at, now), l, now)
    BY <1>1, <2>2, <2>3, AdjustedExpiring
  <2>6. Lasts(Adjusted(rate[l], l, r, old[l], new[l], at, now), l, {0})
    BY <1>1, <2>2, <2>3, OneClock, AdjustedLasts, Zenon
  <2>7. QED
    BY <2>3, <2>4, <2>5, <2>6
<1>3. rate' = [l \in Limits |-> After(l)]
  BY DEF RateAdjust
<1>4. QED
  BY <1>2, <1>3 DEF KeysOK

LEMMA StatusKeysOK == ASSUME KeysOK, RateStatus(now), now' = now PROVE KeysOK'
<1>1. rate' = [l \in Limits |-> Evicted(now)[l]]
  BY DEF RateStatus, Evicted
<1>2. QED
  BY <1>1, EvictedKeysOK DEF KeysOK

LEMMA PassesKeysOK == ASSUME KeysOK, Passes PROVE KeysOK'
<1>1. now \in Nat /\ now' = now + 1 /\ rate' = [l \in Limits |-> Alive(rate[l], now + 1)]
  BY DEF KeysOK, Passes
<1>2. ASSUME NEW l \in Limits
      PROVE  Lasts(Alive(rate[l], now + 1), l, {0})
  <2>1. CASE Over(rate[l].logExp, now + 1)
    BY <2>1, AliveLog, EmptyLasts
  <2>2. CASE ~Over(rate[l].logExp, now + 1)
    <3>1. /\ Alive(rate[l], now + 1).log = rate[l].log
          /\ Alive(rate[l], now + 1).logExp = rate[l].logExp
      BY <2>2, AliveLog
    <3>2. QED
      BY <3>1 DEF Lasts, KeysOK
  <2>3. QED
    BY <2>1, <2>2
<1>3. \A l \in Limits : /\ Matching(Alive(rate[l], now + 1))
                        /\ Expiring(Alive(rate[l], now + 1), l, now + 1)
  BY AliveExpiring DEF KeysOK
<1>4. QED
  BY <1>1, <1>2, <1>3 DEF KeysOK

-----------------------------------------------------------------------------
(* Single entries.                                                          *)

\* The entry m of l is not changed by the step, and not lost while it counts.
Stays(l, m) ==
    /\ m \in DOMAIN rate'[l].log =>
           m \in DOMAIN rate[l].log /\ rate'[l].log[m] = rate[l].log[m]
    /\ (m \in DOMAIN rate[l].log /\ rate[l].log[m] > now' - Window[l]) =>
           m \in DOMAIN rate'[l].log

LEMMA EvictedStays ==
    ASSUME KeysOK, NEW l \in Limits, NEW m
    PROVE  /\ m \in DOMAIN Evicted(now)[l].log =>
                  m \in DOMAIN rate[l].log /\ Evicted(now)[l].log[m] = rate[l].log[m]
           /\ (m \in DOMAIN rate[l].log /\ rate[l].log[m] > now - Window[l]) =>
                  m \in DOMAIN Evicted(now)[l].log
<1>1. now \in Int /\ Evicted(now)[l] = Evict(rate[l], l, now)
  BY DEF KeysOK, Evicted
<1>2. Keeps(Evicted(now)[l], rate[l], DOMAIN rate[l].log \ Expired(rate[l], l, now))
  BY <1>1, EvictLog DEF KeysOK
<1>3. m \in DOMAIN rate[l].log => rate[l].log[m] \in Int
  BY DEF KeysOK, Matching, Keys
<1>4. Window[l] \in Int
  BY QuotaAssumption
<1>5. QED
  BY <1>1, <1>2, <1>3, <1>4 DEF Keeps, Expired

\* RATE_ACQUIRE: entries that count stay, and only its own entry comes, at now.
LEMMA AcquireLogs ==
    ASSUME KeysOK, NEW r \in Identifier, NEW c \in [Limits -> Costs],
           RateAcquire(r, c, now), now' = now, NEW l \in Limits
    PROVE  /\ \A m : \/ Stays(l, m)
                     \/ /\ Admits(r, c, now) /\ c[l] > 0 /\ m = <<r, c[l]>>
                        /\ m \in DOMAIN rate'[l].log /\ rate'[l].log[m] = now
                        /\ m \in DOMAIN rate[l].log => rate[l].log[m] <= now - Window[l]
           /\ (Admits(r, c, now) /\ c[l] > 0) => <<r, c[l]>> \in DOMAIN rate'[l].log
<1> DEFINE k == Evicted(now)[l]
           m == <<r, c[l]>>
           g == Record(k, l, r, c[l], now)
<1>n. now \in Int
  BY DEF KeysOK
<1>1. CASE ~(Admits(r, c, now) /\ c[l] > 0)
  <2>1. rate'[l] = k
    BY <1>1 DEF RateAcquire, Admits, Evicted
  <2>2. \A x : Stays(l, x)
    BY <2>1, EvictedStays DEF Stays
  <2>3. QED
    BY <1>1, <2>2
<1>2. CASE Admits(r, c, now) /\ c[l] > 0
  <2>1. rate'[l] = g
    BY <1>2 DEF RateAcquire, Admits
  <2>2. c[l] \in 1 .. MaxCost
    BY <1>2, CostAssumption DEF Costs
  <2>3. /\ DOMAIN g.log = DOMAIN k.log \cup {m}
        /\ \A x \in DOMAIN k.log : g.log[x] = k.log[x]
        /\ m \notin DOMAIN k.log => g.log[m] = now
    BY <1>n, <2>2, EvictedKeysOK, RecordLog
  <2>4. \A x : x # m => Stays(l, x)
    <3> HIDE DEF k, m, g
    <3>1. \A x : /\ x \in DOMAIN k.log => x \in DOMAIN rate[l].log /\ k.log[x] = rate[l].log[x]
                 /\ (x \in DOMAIN rate[l].log /\ rate[l].log[x] > now - Window[l]) =>
                        x \in DOMAIN k.log
      BY EvictedStays DEF k
    <3>2. QED
      BY <2>1, <2>3, <3>1 DEF Stays
  <2>5. /\ m \in DOMAIN k.log => m \in DOMAIN rate[l].log /\ k.log[m] = rate[l].log[m]
        /\ (m \in DOMAIN rate[l].log /\ rate[l].log[m] > now - Window[l]) => m \in DOMAIN k.log
    BY EvictedStays
  <2>6. m \in DOMAIN rate[l].log => rate[l].log[m] \in Int
    BY DEF KeysOK, Matching, Keys
  <2>7. Window[l] \in Int
    BY QuotaAssumption
  <2> HIDE DEF k, m, g
  <2>8. Stays(l, m) \/ /\ m \in DOMAIN rate'[l].log /\ rate'[l].log[m] = now
                       /\ m \in DOMAIN rate[l].log => rate[l].log[m] <= now - Window[l]
    <3>1. CASE m \in DOMAIN k.log
      BY <2>1, <2>3, <2>5, <3>1 DEF Stays
    <3>2. CASE m \notin DOMAIN k.log
      BY <1>n, <2>1, <2>3, <2>5, <2>6, <2>7, <3>2
    <3>3. QED
      BY <3>1, <3>2
  <2>9. QED
    BY <1>2, <2>1, <2>3, <2>4, <2>8 DEF m
<1>3. QED
  BY <1>1, <1>2

\* RATE_ADJUST: all entries but the two of the request stay; within its window the old
\* one goes and the new one has the time of the admission.
LEMMA AdjustLogs ==
    ASSUME KeysOK, NEW r \in Identifier, NEW old \in [Limits -> Costs],
           NEW new \in [Limits -> Costs], NEW at \in 0 .. now,
           RateAdjust(r, old, new, at, now), now' = now, NEW l \in Limits
    PROVE  /\ \A m : (old[l] = new[l] \/ m \notin {<<r, old[l]>>, <<r, new[l]>>}) => Stays(l, m)
           /\ (old[l] # new[l] /\ at > now - Window[l]) =>
                  /\ <<r, old[l]>> \notin DOMAIN rate'[l].log
                  /\ new[l] > 0 => /\ <<r, new[l]>> \in DOMAIN rate'[l].log
                                   /\ rate'[l].log[<<r, new[l]>>] = at
<1> DEFINE k == rate[l]
           a == Adjusted(k, l, r, old[l], new[l], at, now)
           rest == (DOMAIN k.log \ Expired(k, l, now)) \ {<<r, old[l]>>}
<1>n. /\ now \in Nat /\ now \in Int /\ at \in Int /\ Matching(k)
      /\ old[l] \in Costs /\ new[l] \in Costs /\ Costs \subseteq Nat
  BY CostsAreNaturals DEF KeysOK
<1>1. CASE old[l] = new[l]
  <2>1. rate'[l] = k
    BY <1>1 DEF RateAdjust
  <2>2. QED
    BY <1>1, <2>1 DEF Stays
<1>2. CASE old[l] # new[l]
  <2>1. rate'[l] = a
    BY <1>2 DEF RateAdjust
  <2>2. Moved(a, k, l, r, old[l], new[l], at, now)
    BY <1>n, AdjustedLog, Zenon
  <2>3. Window[l] \in Int /\ \A m \in DOMAIN k.log : k.log[m] \in Int
    BY <1>n, QuotaAssumption DEF Matching, Keys
  <2>4. \A m \in DOMAIN k.log : (k.log[m] > now - Window[l] /\ m # <<r, old[l]>>) => m \in rest
    BY <1>n, <2>3 DEF Expired
  <2>5. rest \subseteq DOMAIN k.log \ {<<r, old[l]>>}
    OBVIOUS
  <2>6. <<r, 0>> \notin DOMAIN k.log
    BY <1>n DEF Matching, Keys, Member
  <2> HIDE DEF a
  <2>7. CASE new[l] > 0 /\ at > now - Window[l]
    <3>1. /\ DOMAIN a.log = rest \cup {<<r, new[l]>>}
          /\ a.log[<<r, new[l]>>] = at
          /\ \A m \in rest \ {<<r, new[l]>>} : a.log[m] = k.log[m]
      BY <2>2, <2>7 DEF Moved
    <3> HIDE DEF rest, k
    <3>2. \A m : m \notin {<<r, old[l]>>, <<r, new[l]>>} =>
              /\ m \in DOMAIN a.log => m \in DOMAIN k.log /\ a.log[m] = k.log[m]
              /\ (m \in DOMAIN k.log /\ k.log[m] > now - Window[l]) => m \in DOMAIN a.log
      BY <2>4, <2>5, <3>1
    <3>3. <<r, old[l]>> # <<r, new[l]>>
      BY <1>2
    <3>4. <<r, old[l]>> \notin DOMAIN a.log
      BY <2>5, <3>1, <3>3
    <3>5. QED
      BY <1>2, <2>1, <3>1, <3>2, <3>4 DEF Stays, k
  <2>8. CASE ~(new[l] > 0 /\ at > now - Window[l])
    <3>1. DOMAIN a.log = rest /\ \A m \in rest : a.log[m] = k.log[m]
      BY <2>2, <2>8 DEF Moved, Keeps
    <3> HIDE DEF rest, k
    <3>2. \A m : m # <<r, old[l]>> =>
              /\ m \in DOMAIN a.log => m \in DOMAIN k.log /\ a.log[m] = k.log[m]
              /\ (m \in DOMAIN k.log /\ k.log[m] > now - Window[l]) => m \in DOMAIN a.log
      BY <2>4, <2>5, <3>1
    <3>3. <<r, old[l]>> \notin DOMAIN a.log
      BY <2>5, <3>1
    <3>4. QED
      BY <1>2, <2>1, <2>8, <3>2, <3>3 DEF Stays, k
  <2>9. QED
    BY <2>7, <2>8
<1>3. QED
  BY <1>1, <1>2

LEMMA StatusLogs ==
    ASSUME KeysOK, RateStatus(now), now' = now, NEW l \in Limits
    PROVE  \A m : Stays(l, m)
BY EvictedStays DEF RateStatus, Stays

\* A log that comes to its TTL has no entry left that counts.
LEMMA PassesLogs ==
    ASSUME KeysOK, Passes, NEW l \in Limits
    PROVE  \A m : Stays(l, m)
<1> TAKE m
<1>1. now \in Nat /\ now' = now + 1 /\ rate'[l] = Alive(rate[l], now + 1)
  BY DEF KeysOK, Passes
<1>2. CASE Over(rate[l].logExp, now + 1)
  <2>1. DOMAIN rate'[l].log = {}
    BY <1>1, <1>2, AliveLog
  <2>2. ASSUME m \in DOMAIN rate[l].log, rate[l].log[m] > now' - Window[l] PROVE FALSE
    <3>1. rate[l].log[m] + Window[l] <= rate[l].logExp + 0
      BY <2>2 DEF KeysOK, Lasts
    <3>2. rate[l].log[m] \in Int /\ rate[l].logExp \in Int /\ Window[l] \in Int
      BY <2>2, QuotaAssumption DEF KeysOK, Matching, Keys
    <3>3. now + 1 > rate[l].logExp
      BY <1>2 DEF Over
    <3>4. QED
      BY <1>1, <2>2, <3>1, <3>2, <3>3
  <2>3. QED
    BY <2>1, <2>2 DEF Stays
<1>3. CASE ~Over(rate[l].logExp, now + 1)
  BY <1>1, <1>3, AliveLog DEF Stays
<1>4. QED
  BY <1>2, <1>3

-----------------------------------------------------------------------------
(* What a log holds of a request.                                           *)

Entries(k, r) == {m \in DOMAIN k.log : m[1] = r}

\* It is charged the cost once, from the time t on.
RecordedAt(k, r, cost, t) ==
    /\ Entries(k, r) = IF cost = 0 THEN {} ELSE {<<r, cost>>}
    /\ \A m \in Entries(k, r) : k.log[m] = t

LEMMA EntriesQuiet ==
    ASSUME NEW l \in Limits, NEW r, \A m : m[1] = r => Stays(l, m)
    PROVE  /\ Entries(rate[l], r) = {} => Entries(rate'[l], r) = {}
           /\ \A cost, t : (RecordedAt(rate[l], r, cost, t) /\ t > now' - Window[l]) =>
                               RecordedAt(rate'[l], r, cost, t)
<1>1. \A m \in Entries(rate'[l], r) : m \in Entries(rate[l], r) /\ rate'[l].log[m] = rate[l].log[m]
  BY DEF Entries, Stays
<1>2. \A m \in Entries(rate[l], r) : rate[l].log[m] > now' - Window[l] => m \in Entries(rate'[l], r)
  BY DEF Entries, Stays
<1>3. QED
  BY <1>1, <1>2 DEF RecordedAt

\* A request that is not in the log is, once it is admitted.
LEMMA AcquireRecords ==
    ASSUME KeysOK, NEW r \in Identifier, NEW c \in [Limits -> Costs],
           RateAcquire(r, c, now), now' = now, NEW l \in Limits, Entries(rate[l], r) = {}
    PROVE  /\ Admits(r, c, now) => RecordedAt(rate'[l], r, c[l], now)
           /\ ~Admits(r, c, now) => Entries(rate'[l], r) = {}
<1>1. c[l] \in Nat
  BY CostsAreNaturals
<1>a. /\ \A m : \/ Stays(l, m)
                  \/ /\ Admits(r, c, now) /\ c[l] > 0 /\ m = <<r, c[l]>>
                     /\ m \in DOMAIN rate'[l].log /\ rate'[l].log[m] = now
                     /\ m \in DOMAIN rate[l].log => rate[l].log[m] <= now - Window[l]
      /\ (Admits(r, c, now) /\ c[l] > 0) => <<r, c[l]>> \in DOMAIN rate'[l].log
  BY AcquireLogs
<1>2. \A m \in Entries(rate'[l], r) : /\ Admits(r, c, now) /\ c[l] > 0 /\ m = <<r, c[l]>>
                                      /\ rate'[l].log[m] = now
  BY <1>a DEF Entries, Stays
<1>3. (Admits(r, c, now) /\ c[l] > 0) => <<r, c[l]>> \in Entries(rate'[l], r)
  BY <1>a DEF Entries
<1>4. QED
  BY <1>1, <1>2, <1>3 DEF RecordedAt

\* One that is there already keeps its time, and is admitted.
LEMMA AcquireAgain ==
    ASSUME KeysOK, NEW r \in Identifier, NEW c \in [Limits -> Costs],
           RateAcquire(r, c, now), now' = now, NEW l \in Limits, NEW t \in Int,
           RecordedAt(rate[l], r, c[l], t), t > now - Window[l]
    PROVE  RecordedAt(rate'[l], r, c[l], t)
<1>1. /\ c[l] \in Nat /\ now \in Int /\ Window[l] \in Int
  BY CostsAreNaturals, QuotaAssumption DEF KeysOK
<1>a. /\ \A m : \/ Stays(l, m)
                  \/ /\ Admits(r, c, now) /\ c[l] > 0 /\ m = <<r, c[l]>>
                     /\ m \in DOMAIN rate'[l].log /\ rate'[l].log[m] = now
                     /\ m \in DOMAIN rate[l].log => rate[l].log[m] <= now - Window[l]
      /\ (Admits(r, c, now) /\ c[l] > 0) => <<r, c[l]>> \in DOMAIN rate'[l].log
  BY AcquireLogs
<1>2. \A m : m[1] = r => Stays(l, m)
  <2>1. SUFFICES ASSUME NEW m, ~Stays(l, m) PROVE FALSE
    OBVIOUS
  <2>2. /\ c[l] > 0 /\ m = <<r, c[l]>>
        /\ m \in DOMAIN rate[l].log => rate[l].log[m] <= now - Window[l]
    BY <1>a, <2>1
  <2>3. m \in Entries(rate[l], r) /\ rate[l].log[m] = t
    BY <2>2 DEF RecordedAt
  <2>4. QED
    BY <1>1, <2>2, <2>3 DEF Entries
<1>3. QED
  BY <1>2, EntriesQuiet

LEMMA KnownAdmitted ==
    ASSUME KeysOK, NEW r, NEW c \in [Limits -> Costs],
           \A l \in Limits : c[l] > 0 => /\ <<r, c[l]>> \in DOMAIN rate[l].log
                                         /\ rate[l].log[<<r, c[l]>>] > now - Window[l]
    PROVE  Admits(r, c, now)
<1> DEFINE ks == Evicted(now)
<1>1. \A l \in Limits : c[l] > 0 => <<r, c[l]>> \in DOMAIN ks[l].log
  BY EvictedStays
<1>2. DOMAIN Order = 1 .. Len(Order) /\ Len(Order) \in Nat
  BY OrderAssumption
<1>3. ASSUME NEW i \in DOMAIN Order, c[Order[i]] > 0
      PROVE  Recorded(ks, r, c, i)
  <2>1. Order[i] \in Limits /\ i \in 1 .. i
    BY <1>2 DEF Limits
  <2> HIDE DEF ks
  <2>2. QED
    BY <1>1, <1>3, <2>1 DEF Recorded
<1> HIDE DEF ks
<1>4. Blocked(ks, r, c) = {}
  BY <1>3 DEF Blocked
<1>5. QED
  BY <1>4 DEF Admits, ks

\* An adjust replaces the old cost, also when it did so already.
LEMMA AdjustRecords ==
    ASSUME KeysOK, NEW r \in Identifier, NEW old \in [Limits -> Costs],
           NEW new \in [Limits -> Costs], NEW at \in 0 .. now,
           RateAdjust(r, old, new, at, now), now' = now, NEW l \in Limits,
           at > now - Window[l],
           RecordedAt(rate[l], r, old[l], at) \/ RecordedAt(rate[l], r, new[l], at)
    PROVE  RecordedAt(rate'[l], r, new[l], at)
<1>1. old[l] \in Nat /\ new[l] \in Nat
  BY CostsAreNaturals
<1>a. /\ \A m : (old[l] = new[l] \/ m \notin {<<r, old[l]>>, <<r, new[l]>>}) => Stays(l, m)
      /\ (old[l] # new[l] /\ at > now - Window[l]) =>
             /\ <<r, old[l]>> \notin DOMAIN rate'[l].log
             /\ new[l] > 0 => /\ <<r, new[l]>> \in DOMAIN rate'[l].log
                              /\ rate'[l].log[<<r, new[l]>>] = at
  BY AdjustLogs, SMTT(30)
<1>2. CASE old[l] = new[l]
  <2>1. \A m : Stays(l, m)
    BY <1>2, <1>a
  <2>2. RecordedAt(rate[l], r, new[l], at)
    BY <1>2
  <2>3. QED
    BY <2>1, <2>2, EntriesQuiet
<1>3. CASE old[l] # new[l]
  <2>1. \A m : m \notin {<<r, old[l]>>, <<r, new[l]>>} => Stays(l, m)
    BY <1>a
  <2>2. /\ <<r, old[l]>> \notin DOMAIN rate'[l].log
        /\ new[l] > 0 => /\ <<r, new[l]>> \in DOMAIN rate'[l].log
                         /\ rate'[l].log[<<r, new[l]>>] = at
    BY <1>3, <1>a
  <2>3. Entries(rate[l], r) \subseteq {<<r, old[l]>>, <<r, new[l]>>}
    BY DEF RecordedAt
  <2>4. ASSUME NEW m \in Entries(rate'[l], r)
        PROVE  m = <<r, new[l]>>
    <3>1. m # <<r, old[l]>>
      BY <2>2 DEF Entries
    <3>2. SUFFICES ASSUME m # <<r, new[l]>> PROVE FALSE
      OBVIOUS
    <3>3. m \in Entries(rate[l], r)
      BY <2>1, <3>1, <3>2 DEF Stays, Entries
    <3>4. QED
      BY <2>3, <3>1, <3>2, <3>3
  <2>5. <<r, 0>> \notin DOMAIN rate'[l].log
    <3>1. KeysOK'
      BY AdjustKeysOK
    <3>2. DOMAIN rate'[l].log \subseteq Member
      BY <3>1 DEF KeysOK, Matching, Keys
    <3>3. QED
      BY <3>2 DEF Member
  <2>6. QED
    BY <1>1, <2>2, <2>4, <2>5 DEF RecordedAt, Entries
<1>4. QED
  BY <1>2, <1>3

-----------------------------------------------------------------------------
(* Where the callers stand.                                                 *)

Calls ==
    \A r \in Identifier :
        /\ pc[r] \in {"trying", "resending", "sleeping"} =>
               since[r].call + AcquireTimeout <= MaxTime
        /\ pc[r] \in {"admitted", "readjusting"} => acquiredAt[r] \in 0 .. now
        /\ pc[r] \in {"resending", "readjusting"} =>
               /\ AnswersLost
               /\ since[r].lost \in 0 .. now
               /\ now <= since[r].lost + ResendDelay
        /\ pc[r] \in {"idle", "trying", "sleeping", "admitted"} => since[r].lost = None

Instants == 0 .. MaxTime
Sinces == [call : Instants, lost : {None} \cup Instants]
Vectors == Asks \cup {Nothing}

TypeInv == StateOK /\ KeysOK /\ Calls

LEMMA ConstantsTyped ==
    /\ {AcquireTimeout, WaitJitter, ResendDelay, MaxAdjusts, MaxTime} \subseteq Nat
    /\ 0 \in Instants /\ Instants \subseteq Nat
    /\ Never \in Sinces /\ Never.lost = None /\ None \notin Nat
    /\ Vectors \subseteq [Limits -> Costs] /\ Asks \subseteq Vectors /\ Nothing \in Vectors
<1>1. {AcquireTimeout, WaitJitter, ResendDelay, MaxAdjusts, MaxTime} \subseteq Nat
  BY TimingAssumption
<1>2. 0 \in Costs
  BY CostAssumption DEF Costs
<1>3. QED
  BY <1>1, <1>2, AsksAssumption DEF Instants, Sinces, Never, None, Vectors, Nothing

LEMMA TypeParts ==
    ASSUME TypeInv
    PROVE  /\ now \in Nat /\ now \in Instants
           /\ pc \in [Identifier -> States]
           /\ costs \in [Identifier -> Vectors] /\ target \in [Identifier -> Vectors]
           /\ acquiredAt \in [Identifier -> {None} \cup Instants]
           /\ since \in [Identifier -> Sinces]
           /\ wake \in [Identifier -> Instants]
           /\ adjusts \in [Identifier -> 0 .. MaxAdjusts]
BY ConstantsTyped DEF TypeInv, StateOK, Instants, Sinces, Vectors

LEMMA TypeFromParts ==
    ASSUME KeysOK, now \in Instants,
           pc \in [Identifier -> States],
           costs \in [Identifier -> Vectors], target \in [Identifier -> Vectors],
           acquiredAt \in [Identifier -> {None} \cup Instants],
           since \in [Identifier -> Sinces], wake \in [Identifier -> Instants],
           adjusts \in [Identifier -> 0 .. MaxAdjusts]
    PROVE  StateOK
BY DEF StateOK, KeysOK, Matching, Instants, Sinces, Vectors

\* One field of since[r] changes.
LEMMA SinceCall ==
    ASSUME since \in [Identifier -> Sinces], NEW r \in Identifier, NEW t \in Instants
    PROVE  LET s == [since EXCEPT ![r].call = t]
           IN  /\ s \in [Identifier -> Sinces]
               /\ s[r].call = t /\ s[r].lost = since[r].lost
               /\ \A q \in Identifier : q # r => s[q] = since[q]
<1>1. since[r] \in Sinces
  OBVIOUS
<1>2. [since[r] EXCEPT !.call = t] = [call |-> t, lost |-> since[r].lost]
  BY <1>1 DEF Sinces
<1>3. [since EXCEPT ![r].call = t] = [since EXCEPT ![r] = [call |-> t, lost |-> since[r].lost]]
  BY <1>2
<1>4. [call |-> t, lost |-> since[r].lost] \in Sinces
  BY <1>1 DEF Sinces
<1>5. QED
  BY <1>3, <1>4

LEMMA SinceLost ==
    ASSUME since \in [Identifier -> Sinces], NEW r \in Identifier,
           NEW t \in {None} \cup Instants
    PROVE  LET s == [since EXCEPT ![r].lost = t]
           IN  /\ s \in [Identifier -> Sinces]
               /\ s[r].lost = t /\ s[r].call = since[r].call
               /\ \A q \in Identifier : q # r => s[q] = since[q]
<1>1. since[r] \in Sinces
  OBVIOUS
<1>2. [since[r] EXCEPT !.lost = t] = [call |-> since[r].call, lost |-> t]
  BY <1>1 DEF Sinces
<1>3. [since EXCEPT ![r].lost = t] = [since EXCEPT ![r] = [call |-> since[r].call, lost |-> t]]
  BY <1>2
<1>4. [call |-> since[r].call, lost |-> t] \in Sinces
  BY <1>1 DEF Sinces
<1>5. QED
  BY <1>3, <1>4

LEMMA InitTypeInv == Init => TypeInv
<1> SUFFICES ASSUME Init PROVE TypeInv
  OBVIOUS
<1>1. KeysOK
  <2>1. \A l \in Limits : rate[l] = NoKeys /\ DOMAIN NoKeys.log = {}
    BY DEF Init, NoKeys, NoLog
  <2>2. \A l \in Limits : Lasts(NoKeys, l, {0})
    BY <2>1 DEF Lasts, NoKeys, NoLog
  <2>3. QED
    BY <2>1, <2>2, NoKeysExact, ExactMatches, NoKeysExpiring DEF Init, KeysOK
<1>2. StateOK
  BY <1>1, ConstantsTyped, TypeFromParts DEF Init, States
<1>3. Calls
  BY ConstantsTyped DEF Init, Calls
<1>4. QED
  BY <1>1, <1>2, <1>3 DEF TypeInv

\* What one attempt comes to.
Admitted(r) ==
    /\ Admits(r, costs[r], now)
    /\ pc' = [pc EXCEPT ![r] = "admitted"]
    /\ acquiredAt' = [acquiredAt EXCEPT ![r] = now]
    /\ since' = [since EXCEPT ![r] = Never]
Denied(r) ==
    /\ ~Admits(r, costs[r], now)
    /\ \/ pc' = [pc EXCEPT ![r] = "timed out"]
       \/ pc' = [pc EXCEPT ![r] = "sleeping"] /\ wake'[r] <= since[r].call + AcquireTimeout
    /\ acquiredAt' = acquiredAt
    /\ since' = [since EXCEPT ![r].lost = None]
Unheard(r) ==
    /\ AnswersLost
    /\ acquiredAt' = acquiredAt
    /\ \/ /\ since[r].lost = None
          /\ pc' = [pc EXCEPT ![r] = "resending"]
          /\ since' = [since EXCEPT ![r].lost = now]
       \/ /\ pc' = [pc EXCEPT ![r] = "failed"]
          /\ since' = [since EXCEPT ![r] = Never]

LEMMA TryOutcome ==
    ASSUME TypeInv, NEW r \in Identifier, TryAcquire(r)
    PROVE  /\ pc[r] \in {"trying", "resending", "sleeping"}
           /\ RateAcquire(r, costs[r], now)
           /\ UNCHANGED <<now, costs, target, adjusts>>
           /\ wake' \in [Identifier -> Instants]
           /\ \A q \in Identifier : q # r => wake'[q] = wake[q]
           /\ Admitted(r) \/ Denied(r) \/ Unheard(r)
<1>1. /\ pc[r] \in {"trying", "resending", "sleeping"}
      /\ RateAcquire(r, costs[r], now)
      /\ UNCHANGED <<now, costs, target, adjusts>>
      /\ \/ AnswerAcquire(r)
         \/ /\ LoseAnswer(r, "resending", "failed")
            /\ wake' = [wake EXCEPT ![r] = 0]
            /\ UNCHANGED acquiredAt
  BY DEF TryAcquire
<1>2. wake \in [Identifier -> Instants] /\ 0 \in Instants
  BY TypeParts, ConstantsTyped
<1>3. CASE AnswerAcquire(r) /\ Admits(r, costs[r], now)
  BY <1>1, <1>2, <1>3 DEF AnswerAcquire, Admitted
<1>4. CASE AnswerAcquire(r) /\ ~Admits(r, costs[r], now)
  <2> DEFINE retry == RetryAfter(r, costs[r], now)
             left == Remaining(r)
  <2>1. /\ NextWait(r, retry)
        /\ since' = [since EXCEPT ![r].lost = None]
        /\ acquiredAt' = acquiredAt
    BY <1>4 DEF AnswerAcquire
  <2>2. retry \in Nat
    <3>1. now \in Int /\ now \in Nat /\ \A l \in Limits : Matching(rate[l])
      BY DEF TypeInv, KeysOK
    <3>2. QED
      BY <3>1, RetryAfterIs
  <2>3. /\ left \in Int /\ now \in Nat
        /\ now + left = since[r].call + AcquireTimeout /\ now + left <= MaxTime
    <3>1. since[r].call \in Nat /\ since[r].call + AcquireTimeout <= MaxTime /\ now \in Nat
      BY <1>1, TypeParts, ConstantsTyped DEF TypeInv, Calls, Sinces
    <3>2. QED
      BY <3>1, ConstantsTyped DEF Remaining
  <2> HIDE DEF retry, left
  <2>4. CASE retry > left
    BY <1>1, <1>2, <1>4, <2>1, <2>4 DEF NextWait, Denied, left
  <2>5. CASE ~(retry > left)
    <3>1. PICK jitter \in 0 .. WaitJitter :
              /\ pc' = [pc EXCEPT ![r] = "sleeping"]
              /\ wake' = [wake EXCEPT ![r] =
                     now + IF retry + jitter < left THEN retry + jitter ELSE left]
      BY <2>1, <2>5 DEF NextWait, left
    <3> DEFINE w == now + IF retry + jitter < left THEN retry + jitter ELSE left
    <3>2. w \in Nat /\ w <= now + left /\ w <= MaxTime /\ MaxTime \in Nat
      BY <2>2, <2>3, <2>5, ConstantsTyped
    <3>3. w \in Instants
      BY <3>2 DEF Instants
    <3> HIDE DEF w
    <3>4. wake' = [wake EXCEPT ![r] = w]
      BY <3>1 DEF w
    <3>5. wake'[r] <= since[r].call + AcquireTimeout
      BY <1>2, <2>3, <3>2, <3>3, <3>4
    <3>6. QED
      BY <1>1, <1>2, <1>4, <2>1, <3>1, <3>3, <3>4, <3>5 DEF Denied
  <2>6. QED
    BY <2>4, <2>5
<1>5. CASE /\ LoseAnswer(r, "resending", "failed")
           /\ wake' = [wake EXCEPT ![r] = 0]
           /\ UNCHANGED acquiredAt
  BY <1>1, <1>2, <1>5 DEF LoseAnswer, Unheard
<1>6. QED
  BY <1>1, <1>3, <1>4, <1>5

\* What one adjust comes to.
Settled(r, new) ==
    /\ pc' = [pc EXCEPT ![r] = "admitted"]
    /\ costs' = [costs EXCEPT ![r] = new]
    /\ since' = [since EXCEPT ![r] = Never]
    /\ target' = [target EXCEPT ![r] = Nothing]
Unsettled(r, new) ==
    /\ AnswersLost
    /\ costs' = costs
    /\ \/ /\ pc' = [pc EXCEPT ![r] = "readjusting"]
          /\ since[r].lost = None
          /\ since' = [since EXCEPT ![r].lost = now]
          /\ target' = [target EXCEPT ![r] = new]
       \/ /\ AdjustFails
          /\ pc' = [pc EXCEPT ![r] = "admitted"]
          /\ since' = [since EXCEPT ![r] = Never]
          /\ target' = [target EXCEPT ![r] = Nothing]

LEMMA AdjustOutcome ==
    ASSUME TypeInv, NEW r \in Identifier, NEW new, SendAdjust(r, new)
    PROVE  /\ RateAdjust(r, costs[r], new, acquiredAt[r], now)
           /\ UNCHANGED <<now, acquiredAt, wake>>
           /\ Settled(r, new) \/ Unsettled(r, new)
<1>1. pc \in [Identifier -> States]
  BY TypeParts
<1>2. CASE /\ LoseAnswer(r, "readjusting", "admitted")
           /\ pc'[r] = "admitted" => AdjustFails
           /\ target' = [target EXCEPT ![r] = IF pc'[r] = "admitted" THEN Nothing ELSE new]
           /\ UNCHANGED costs
  <2>1. CASE /\ since[r].lost = None
             /\ pc' = [pc EXCEPT ![r] = "readjusting"]
             /\ since' = [since EXCEPT ![r].lost = now]
    <3>1. pc'[r] # "admitted"
      BY <1>1, <2>1
    <3>2. QED
      BY <1>2, <2>1, <3>1 DEF SendAdjust, LoseAnswer, Unsettled
  <2>2. CASE pc' = [pc EXCEPT ![r] = "admitted"] /\ since' = [since EXCEPT ![r] = Never]
    <3>1. pc'[r] = "admitted"
      BY <1>1, <2>2
    <3>2. QED
      BY <1>2, <2>2, <3>1 DEF SendAdjust, LoseAnswer, Unsettled
  <2>3. QED
    BY <1>2, <2>1, <2>2 DEF LoseAnswer
<1>3. QED
  BY <1>2 DEF SendAdjust, Settled

\* The steps one by one.
LEMMA CallTypes ==
    ASSUME TypeInv, NEW r \in Identifier, NEW c \in Asks, Call(r, c)
    PROVE  TypeInv'
<1> DEFINE s == [since EXCEPT ![r].call = now]
<1>1. /\ pc[r] = "idle" /\ now + AcquireTimeout <= MaxTime
      /\ pc' = [pc EXCEPT ![r] = "trying"]
      /\ costs' = [costs EXCEPT ![r] = c]
      /\ since' = s
      /\ now' = now /\ rate' = rate /\ acquiredAt' = acquiredAt /\ wake' = wake
      /\ target' = target /\ adjusts' = adjusts
  BY DEF Call
<1>2. KeysOK'
  BY <1>1 DEF TypeInv, KeysOK
<1>3. /\ s \in [Identifier -> Sinces] /\ s[r].call = now /\ s[r].lost = since[r].lost
      /\ \A q \in Identifier : q # r => s[q] = since[q]
  BY TypeParts, SinceCall
<1> HIDE DEF s
<1>4. StateOK'
  <2>1. /\ pc' \in [Identifier -> States] /\ costs' \in [Identifier -> Vectors]
        /\ since' \in [Identifier -> Sinces]
    BY <1>1, <1>3, TypeParts, ConstantsTyped DEF States
  <2>2. /\ now' \in Instants /\ target' \in [Identifier -> Vectors]
        /\ acquiredAt' \in [Identifier -> {None} \cup Instants]
        /\ wake' \in [Identifier -> Instants] /\ adjusts' \in [Identifier -> 0 .. MaxAdjusts]
    BY <1>1, TypeParts
  <2>3. QED
    BY <1>2, <2>1, <2>2 DEF StateOK, KeysOK, Matching, Instants, Sinces, Vectors
<1>5. Calls'
  <2>1. SUFFICES ASSUME NEW q \in Identifier
                 PROVE  Calls!(q)'
    BY DEF Calls
  <2>2. pc'[r] = "trying" /\ \A p \in Identifier : p # r => pc'[p] = pc[p]
    BY <1>1, TypeParts
  <2>3. CASE q = r
    BY <1>1, <1>3, <2>2, <2>3 DEF TypeInv, Calls
  <2>4. CASE q # r
    BY <1>1, <1>3, <2>2, <2>4 DEF TypeInv, Calls
  <2>5. QED
    BY <2>3, <2>4
<1>6. QED
  BY <1>2, <1>4, <1>5 DEF TypeInv

LEMMA TryTypes ==
    ASSUME TypeInv, NEW r \in Identifier, TryAcquire(r)
    PROVE  TypeInv'
<1>1. /\ pc[r] \in {"trying", "resending", "sleeping"}
      /\ RateAcquire(r, costs[r], now)
      /\ now' = now /\ costs' = costs /\ target' = target /\ adjusts' = adjusts
      /\ wake' \in [Identifier -> Instants]
      /\ Admitted(r) \/ Denied(r) \/ Unheard(r)
  BY TryOutcome
<1>2. costs[r] \in [Limits -> Costs] /\ since[r].call + AcquireTimeout <= MaxTime /\ now \in Nat
  BY <1>1, TypeParts, ConstantsTyped DEF TypeInv, Calls
<1>3. KeysOK'
  BY <1>1, <1>2, AcquireKeysOK DEF TypeInv
<1>4. \* what becomes of r, and of the others
      /\ pc' \in [Identifier -> States]
      /\ acquiredAt' \in [Identifier -> {None} \cup Instants]
      /\ since' \in [Identifier -> Sinces]
      /\ \A q \in Identifier : q # r =>
             pc'[q] = pc[q] /\ acquiredAt'[q] = acquiredAt[q] /\ since'[q] = since[q]
      /\ \/ pc'[r] = "admitted" /\ acquiredAt'[r] = now /\ since'[r] = Never
         \/ /\ pc'[r] \in {"timed out", "sleeping"}
            /\ since'[r].lost = None /\ since'[r].call = since[r].call
         \/ /\ pc'[r] = "resending" /\ AnswersLost
            /\ since'[r].lost = now /\ since'[r].call = since[r].call
         \/ pc'[r] = "failed"
  <2>1. CASE Admitted(r)
    BY <2>1, TypeParts, ConstantsTyped DEF Admitted, States
  <2>2. CASE Denied(r)
    <3> DEFINE s == [since EXCEPT ![r].lost = None]
    <3>1. /\ s \in [Identifier -> Sinces] /\ s[r].lost = None /\ s[r].call = since[r].call
          /\ \A q \in Identifier : q # r => s[q] = since[q]
      BY TypeParts, SinceLost
    <3>2. since' = s /\ acquiredAt' = acquiredAt
      BY <2>2 DEF Denied
    <3> HIDE DEF s
    <3>3. CASE pc' = [pc EXCEPT ![r] = "timed out"]
      BY <3>1, <3>2, <3>3, TypeParts DEF States
    <3>4. CASE pc' = [pc EXCEPT ![r] = "sleeping"]
      BY <3>1, <3>2, <3>4, TypeParts DEF States
    <3>5. QED
      BY <2>2, <3>3, <3>4 DEF Denied
  <2>3. CASE Unheard(r)
    <3> DEFINE s == [since EXCEPT ![r].lost = now]
    <3>1. /\ s \in [Identifier -> Sinces] /\ s[r].lost = now /\ s[r].call = since[r].call
          /\ \A q \in Identifier : q # r => s[q] = since[q]
      BY TypeParts, SinceLost
    <3>2. acquiredAt' = acquiredAt /\ AnswersLost
      BY <2>3 DEF Unheard
    <3> HIDE DEF s
    <3>3. CASE pc' = [pc EXCEPT ![r] = "resending"] /\ since' = s
      BY <3>1, <3>2, <3>3, TypeParts DEF States
    <3>4. CASE pc' = [pc EXCEPT ![r] = "failed"] /\ since' = [since EXCEPT ![r] = Never]
      BY <3>2, <3>4, TypeParts, ConstantsTyped DEF States
    <3>5. QED
      BY <2>3, <3>3, <3>4 DEF Unheard, s
  <2>4. QED
    BY <1>1, <2>1, <2>2, <2>3
<1>5. StateOK'
  <2>1. /\ now' \in Instants /\ target' \in [Identifier -> Vectors]
        /\ costs' \in [Identifier -> Vectors] /\ adjusts' \in [Identifier -> 0 .. MaxAdjusts]
    BY <1>1, TypeParts
  <2>2. QED
    BY <1>1, <1>3, <1>4, <2>1 DEF StateOK, KeysOK, Matching, Instants, Sinces, Vectors
<1>6. Calls'
  <2>1. SUFFICES ASSUME NEW q \in Identifier
                 PROVE  Calls!(q)'
    BY DEF Calls
  <2>2. CASE q = r
    <3>1. ResendDelay \in Nat /\ now \in 0 .. now /\ Never.lost = None
      BY <1>2, ConstantsTyped
    <3>2. now <= now + ResendDelay
      BY <1>2, <3>1
    <3>3. QED
      BY <1>1, <1>2, <1>4, <2>2, <3>1, <3>2
  <2>3. CASE q # r
    BY <1>1, <1>4, <2>3 DEF TypeInv, Calls
  <2>4. QED
    BY <2>2, <2>3
<1>7. QED
  BY <1>3, <1>5, <1>6 DEF TypeInv

LEMMA AdjustTypes ==
    ASSUME TypeInv, NEW r \in Identifier, NEW new \in Vectors,
           pc[r] \in {"admitted", "readjusting"}, SendAdjust(r, new),
           adjusts' \in [Identifier -> 0 .. MaxAdjusts]
    PROVE  TypeInv'
<1>1. /\ RateAdjust(r, costs[r], new, acquiredAt[r], now)
      /\ now' = now /\ acquiredAt' = acquiredAt /\ wake' = wake
      /\ Settled(r, new) \/ Unsettled(r, new)
  BY AdjustOutcome
<1>2. /\ costs[r] \in [Limits -> Costs] /\ new \in [Limits -> Costs]
      /\ acquiredAt[r] \in 0 .. now /\ now \in Nat
  BY TypeParts, ConstantsTyped DEF TypeInv, Calls
<1>3. KeysOK'
  BY <1>1, <1>2, AdjustKeysOK DEF TypeInv
<1>4. /\ pc' \in [Identifier -> States]
      /\ costs' \in [Identifier -> Vectors] /\ target' \in [Identifier -> Vectors]
      /\ since' \in [Identifier -> Sinces]
      /\ \A q \in Identifier : q # r => pc'[q] = pc[q] /\ since'[q] = since[q]
      /\ \/ pc'[r] = "admitted" /\ since'[r].lost = None
         \/ pc'[r] = "readjusting" /\ AnswersLost /\ since'[r].lost = now
  <2>1. CASE Settled(r, new)
    BY <2>1, TypeParts, ConstantsTyped DEF Settled, States
  <2>2. CASE Unsettled(r, new)
    <3> DEFINE s == [since EXCEPT ![r].lost = now]
    <3>1. /\ s \in [Identifier -> Sinces] /\ s[r].lost = now
          /\ \A q \in Identifier : q # r => s[q] = since[q]
      BY TypeParts, SinceLost
    <3>2. costs' = costs /\ AnswersLost
      BY <2>2 DEF Unsettled
    <3> HIDE DEF s
    <3>3. CASE /\ pc' = [pc EXCEPT ![r] = "readjusting"] /\ since' = s
               /\ target' = [target EXCEPT ![r] = new]
      BY <3>1, <3>2, <3>3, TypeParts DEF States
    <3>4. CASE /\ pc' = [pc EXCEPT ![r] = "admitted"] /\ since' = [since EXCEPT ![r] = Never]
               /\ target' = [target EXCEPT ![r] = Nothing]
      BY <3>2, <3>4, TypeParts, ConstantsTyped DEF States
    <3>5. QED
      BY <2>2, <3>3, <3>4 DEF Unsettled, s
  <2>3. QED
    BY <1>1, <2>1, <2>2
<1>5. StateOK'
  <2>1. /\ now' \in Instants /\ wake' \in [Identifier -> Instants]
        /\ acquiredAt' \in [Identifier -> {None} \cup Instants]
    BY <1>1, TypeParts
  <2>2. QED
    BY <1>3, <1>4, <2>1 DEF StateOK, KeysOK, Matching, Instants, Sinces, Vectors
<1>6. Calls'
  <2>1. SUFFICES ASSUME NEW q \in Identifier
                 PROVE  Calls!(q)'
    BY DEF Calls
  <2>2. CASE q = r
    <3>1. ResendDelay \in Nat /\ now \in 0 .. now
      BY <1>2, ConstantsTyped
    <3>2. now <= now + ResendDelay
      BY <1>2, <3>1
    <3>3. QED
      BY <1>1, <1>2, <1>4, <2>2, <3>1, <3>2
  <2>3. CASE q # r
    BY <1>1, <1>4, <2>3 DEF TypeInv, Calls
  <2>4. QED
    BY <2>2, <2>3
<1>7. QED
  BY <1>3, <1>5, <1>6 DEF TypeInv

LEMMA TickTypes ==
    ASSUME TypeInv, Tick
    PROVE  TypeInv'
<1>1. /\ now < MaxTime /\ Passes /\ now' = now + 1
      /\ \A r \in Identifier : pc[r] \in {"resending", "readjusting"} =>
             now < since[r].lost + ResendDelay
      /\ pc' = pc /\ costs' = costs /\ acquiredAt' = acquiredAt /\ since' = since
      /\ wake' = wake /\ target' = target /\ adjusts' = adjusts
  BY DEF Tick, Passes
<1>2. KeysOK'
  BY <1>1, PassesKeysOK DEF TypeInv
<1>3. now \in Nat /\ now' \in Instants
  BY <1>1, TypeParts, ConstantsTyped DEF Instants
<1>4. StateOK'
  BY <1>1, <1>2, <1>3, TypeParts DEF StateOK, KeysOK, Matching, Instants, Sinces, Vectors
<1>5. Calls'
  <2>1. SUFFICES ASSUME NEW q \in Identifier
                 PROVE  Calls!(q)'
    BY DEF Calls
  <2>2. ASSUME pc[q] \in {"resending", "readjusting"}
        PROVE  since[q].lost \in 0 .. now' /\ now' <= since[q].lost + ResendDelay
    <3>1. since[q].lost \in 0 .. now /\ now < since[q].lost + ResendDelay /\ ResendDelay \in Nat
      BY <1>1, <2>2, ConstantsTyped DEF TypeInv, Calls
    <3>2. QED
      BY <1>1, <1>3, <3>1
  <2>3. acquiredAt[q] \in 0 .. now => acquiredAt[q] \in 0 .. now'
    BY <1>1, <1>3
  <2>4. QED
    BY <1>1, <2>2, <2>3 DEF TypeInv, Calls
<1>6. QED
  BY <1>2, <1>4, <1>5 DEF TypeInv

LEMMA StepTypes == TypeInv /\ [Next]_vars => TypeInv'
<1> SUFFICES ASSUME TypeInv, [Next]_vars PROVE TypeInv'
  OBVIOUS
<1>1. ASSUME NEW r \in Identifier, NEW c \in Asks, Call(r, c) PROVE TypeInv'
  BY <1>1, CallTypes
<1>2. ASSUME NEW r \in Identifier, NEW c \in Asks, Adjust(r, c) PROVE TypeInv'
  <2>1. /\ pc[r] = "admitted" /\ adjusts[r] < MaxAdjusts
        /\ adjusts' = [adjusts EXCEPT ![r] = @ + 1] /\ SendAdjust(r, c)
    BY <1>2 DEF Adjust
  <2>2. adjusts \in [Identifier -> 0 .. MaxAdjusts] /\ MaxAdjusts \in Nat /\ c \in Vectors
    BY TypeParts, ConstantsTyped
  <2>3. adjusts[r] + 1 \in 0 .. MaxAdjusts
    BY <2>1, <2>2
  <2>4. adjusts' \in [Identifier -> 0 .. MaxAdjusts]
    BY <2>1, <2>2, <2>3
  <2>5. QED
    BY <2>1, <2>2, <2>4, AdjustTypes
<1>3. ASSUME NEW r \in Identifier, TryAcquire(r) PROVE TypeInv'
  BY <1>3, TryTypes
<1>4. ASSUME NEW r \in Identifier, ResendAdjust(r) PROVE TypeInv'
  <2>1. /\ pc[r] = "readjusting" /\ SendAdjust(r, target[r]) /\ adjusts' = adjusts
    BY <1>4 DEF ResendAdjust
  <2>2. target[r] \in Vectors /\ adjusts' \in [Identifier -> 0 .. MaxAdjusts]
    BY <2>1, TypeParts
  <2>3. QED
    BY <2>1, <2>2, AdjustTypes
<1>5. CASE Status
  <2>1. KeysOK'
    BY <1>5, StatusKeysOK DEF Status, TypeInv
  <2>2. StateOK' /\ Calls'
    BY <1>5, <2>1 DEF Status, TypeInv, StateOK, Calls, KeysOK, Matching
  <2>3. QED
    BY <2>1, <2>2 DEF TypeInv
<1>6. CASE Tick
  BY <1>6, TickTypes
<1>7. CASE UNCHANGED vars
  BY <1>7 DEF vars, TypeInv, StateOK, Calls, KeysOK
<1>8. QED
  BY <1>1, <1>2, <1>3, <1>4, <1>5, <1>6, <1>7 DEF Next

LEMMA TypeInvariance == Spec => []TypeInv
BY InitTypeInv, StepTypes, PTL DEF Spec

\* A step of another request leaves the deadline of r and its sleep alone; its own step
\* makes r sleep no longer than the time that remains.
LEMMA StepSleeps == TypeInv /\ SleepsInTime /\ [Next]_vars => SleepsInTime'
<1> SUFFICES ASSUME TypeInv, SleepsInTime, [Next]_vars, NEW q \in Identifier, pc'[q] = "sleeping"
             PROVE  wake'[q] <= since'[q].call + AcquireTimeout
  BY DEF SleepsInTime
<1>1. ASSUME NEW r \in Identifier, NEW c \in Asks, Call(r, c)
      PROVE  pc'[q] = pc[q] /\ wake'[q] = wake[q] /\ since'[q].call = since[q].call
  <2>1. /\ pc' = [pc EXCEPT ![r] = "trying"] /\ wake' = wake
        /\ since' = [since EXCEPT ![r].call = now]
    BY <1>1 DEF Call
  <2>2. q # r
    BY <2>1, TypeParts
  <2>3. QED
    BY <2>1, <2>2, TypeParts
<1>2. ASSUME NEW r \in Identifier, NEW new, SendAdjust(r, new)
      PROVE  pc'[q] = pc[q] /\ wake'[q] = wake[q] /\ since'[q].call = since[q].call
  <2>1. wake' = wake /\ (Settled(r, new) \/ Unsettled(r, new))
    BY <1>2, AdjustOutcome
  <2>2. /\ pc' = [pc EXCEPT ![r] = "admitted"] \/ pc' = [pc EXCEPT ![r] = "readjusting"]
        /\ \/ since' = [since EXCEPT ![r] = Never]
           \/ since' = [since EXCEPT ![r].lost = now]
    BY <2>1 DEF Settled, Unsettled
  <2>3. q # r
    BY <2>2, TypeParts
  <2>4. QED
    BY <2>1, <2>2, <2>3, TypeParts
<1>3. ASSUME NEW r \in Identifier, TryAcquire(r), q # r
      PROVE  pc'[q] = pc[q] /\ wake'[q] = wake[q] /\ since'[q].call = since[q].call
  <2>1. /\ wake'[q] = wake[q]
        /\ Admitted(r) \/ Denied(r) \/ Unheard(r)
    BY <1>3, TryOutcome
  <2>2. pc'[q] = pc[q]
    BY <1>3, <2>1, TypeParts DEF Admitted, Denied, Unheard
  <2>3. since'[q] = since[q]
    BY <1>3, <2>1, TypeParts DEF Admitted, Denied, Unheard
  <2>4. QED
    BY <2>1, <2>2, <2>3
<1>4. ASSUME TryAcquire(q)
      PROVE  wake'[q] <= since'[q].call + AcquireTimeout
  <2>1. Admitted(q) \/ Denied(q) \/ Unheard(q)
    BY <1>4, TryOutcome
  <2>2. Denied(q)
    BY <2>1, TypeParts DEF Admitted, Unheard
  <2>3. wake'[q] <= since[q].call + AcquireTimeout
    BY <2>2, TypeParts DEF Denied
  <2>4. since'[q].call = since[q].call
    <3>1. None \in {None} \cup Instants /\ since' = [since EXCEPT ![q].lost = None]
      BY <2>2 DEF Denied
    <3>2. QED
      BY <3>1, TypeParts, SinceLost
  <2>5. QED
    BY <2>3, <2>4
<1>5. CASE UNCHANGED <<pc, since, wake>>
  BY <1>5 DEF SleepsInTime
<1>6. QED
  BY <1>1, <1>2, <1>3, <1>4, <1>5 DEF Next, Adjust, ResendAdjust, Status, Tick, vars, SleepsInTime

\* The keys, the permits and the clocks of RATE_ACQUIRE, RATE_ADJUST and acquire() have
\* their types, and no caller sleeps past its acquire_timeout, however long the scripts
\* tell it to wait, whatever the jitter and however often it was denied (_next_wait).
THEOREM TypeCorrect == Spec => []TypeOK
<1>1. Init => SleepsInTime
  BY DEF Init, SleepsInTime
<1>2. TypeInv => StateOK
  BY DEF TypeInv
<1>3. TypeOK <=> StateOK /\ SleepsInTime
  BY DEF TypeOK
<1>4. QED
  BY <1>1, <1>2, <1>3, StepSleeps, TypeInvariance, PTL DEF Spec

-----------------------------------------------------------------------------
(* A step is of one request, or of none.                                    *)

\* The step is none of q's, and leaves its entries alone.
Quiet(q) ==
    /\ \A l \in Limits : \A m : m[1] = q => Stays(l, m)
    /\ pc'[q] = pc[q] /\ costs'[q] = costs[q] /\ acquiredAt'[q] = acquiredAt[q]
    /\ since'[q] = since[q] /\ target'[q] = target[q]

Calling(r) == \E c \in Asks : Call(r, c)

Settling(r) ==
    \E new \in Vectors :
        /\ pc[r] \in {"admitted", "readjusting"}
        /\ pc[r] = "readjusting" => new = target[r]
        /\ SendAdjust(r, new)

LEMMA OthersQuiet ==
    ASSUME TypeInv, NEW r \in Identifier, Calling(r) \/ TryAcquire(r) \/ Settling(r),
           NEW q \in Identifier, q # r
    PROVE  Quiet(q) /\ now' = now
<1>1. CASE Calling(r)
  <2>1. PICK c \in Asks : Call(r, c)
    BY <1>1 DEF Calling
  <2> DEFINE s == [since EXCEPT ![r].call = now]
  <2>2. s[q] = since[q]
    BY TypeParts, SinceCall
  <2>3. rate' = rate /\ now' = now /\ since'[q] = since[q]
    BY <2>1, <2>2 DEF Call
  <2>4. pc'[q] = pc[q] /\ costs'[q] = costs[q] /\ acquiredAt' = acquiredAt /\ target' = target
    BY <2>1, TypeParts DEF Call
  <2>5. QED
    BY <2>3, <2>4 DEF Quiet, Stays
<1>2. CASE TryAcquire(r)
  <2>1. /\ RateAcquire(r, costs[r], now)
        /\ now' = now /\ costs' = costs /\ target' = target
        /\ Admitted(r) \/ Denied(r) \/ Unheard(r)
    BY <1>2, TryOutcome
  <2>2. costs[r] \in [Limits -> Costs] /\ KeysOK
    BY TypeParts, ConstantsTyped DEF TypeInv
  <2>3. ASSUME NEW l \in Limits, NEW m, m[1] = q PROVE Stays(l, m)
    <3> DEFINE c == costs[r]
    <3>1. RateAcquire(r, c, now) /\ now' = now /\ c \in [Limits -> Costs] /\ KeysOK
      BY <2>1, <2>2
    <3> HIDE DEF c
    <3>2. \A x : \/ Stays(l, x)
                 \/ /\ Admits(r, c, now) /\ c[l] > 0 /\ x = <<r, c[l]>>
                    /\ x \in DOMAIN rate'[l].log /\ rate'[l].log[x] = now
                    /\ x \in DOMAIN rate[l].log => rate[l].log[x] <= now - Window[l]
      BY <3>1, AcquireLogs
    <3>3. QED
      BY <2>3, <3>2
  <2>4. \A t \in {None} \cup Instants : [since EXCEPT ![r].lost = t][q] = since[q]
    BY TypeParts, SinceLost
  <2>5. None \in {None} \cup Instants /\ now \in {None} \cup Instants
    BY TypeParts
  <2>6. pc'[q] = pc[q] /\ acquiredAt'[q] = acquiredAt[q] /\ since'[q] = since[q]
    <3>1. CASE Admitted(r)
      BY <3>1, TypeParts DEF Admitted
    <3>2. CASE Denied(r)
      BY <3>2, <2>4, <2>5, TypeParts DEF Denied
    <3>3. CASE Unheard(r)
      BY <3>3, <2>4, <2>5, TypeParts DEF Unheard
    <3>4. QED
      BY <2>1, <3>1, <3>2, <3>3
  <2>7. QED
    BY <2>1, <2>3, <2>6 DEF Quiet
<1>3. CASE Settling(r)
  <2>1. PICK new \in Vectors : /\ pc[r] \in {"admitted", "readjusting"}
                               /\ SendAdjust(r, new)
    BY <1>3 DEF Settling
  <2>2. /\ RateAdjust(r, costs[r], new, acquiredAt[r], now)
        /\ now' = now /\ acquiredAt' = acquiredAt
        /\ Settled(r, new) \/ Unsettled(r, new)
    BY <2>1, AdjustOutcome
  <2>3. /\ costs[r] \in [Limits -> Costs] /\ new \in [Limits -> Costs]
        /\ acquiredAt[r] \in 0 .. now /\ KeysOK
    BY <2>1, TypeParts, ConstantsTyped DEF TypeInv, Calls
  <2>4. ASSUME NEW l \in Limits, NEW m, m[1] = q PROVE Stays(l, m)
    <3>1. m \notin {<<r, costs[r][l]>>, <<r, new[l]>>} => Stays(l, m)
      BY <2>2, <2>3, AdjustLogs
    <3>2. QED
      BY <2>4, <3>1
  <2>5. [since EXCEPT ![r].lost = now][q] = since[q]
    BY TypeParts, SinceLost
  <2>6. /\ pc'[q] = pc[q] /\ costs'[q] = costs[q] /\ since'[q] = since[q]
        /\ target'[q] = target[q]
    <3>1. CASE Settled(r, new)
      BY <3>1, TypeParts DEF Settled
    <3>2. CASE Unsettled(r, new)
      BY <3>2, <2>5, TypeParts DEF Unsettled
    <3>3. QED
      BY <2>2, <3>1, <3>2
  <2>7. QED
    BY <2>2, <2>4, <2>6 DEF Quiet
<1>4. QED
  BY <1>1, <1>2, <1>3

\* Steps of r, or steps that are quiet for all.
StepOf(r) ==
    /\ Calling(r) \/ TryAcquire(r) \/ Settling(r)
    /\ now' = now
    /\ \A q \in Identifier : q # r => Quiet(q)

LEMMA StepSplits ==
    ASSUME TypeInv, [Next]_vars
    PROVE  (\E r \in Identifier : StepOf(r)) \/ (\A q \in Identifier : Quiet(q))
<1>1. ASSUME NEW r \in Identifier, Calling(r) \/ TryAcquire(r) \/ Settling(r)
      PROVE  StepOf(r)
  <2>1. \A q \in Identifier : q # r => Quiet(q)
    BY <1>1, OthersQuiet
  <2>2. now' = now
    <3>1. CASE Calling(r)
      BY <3>1 DEF Calling, Call
    <3>2. CASE TryAcquire(r)
      BY <3>2 DEF TryAcquire
    <3>3. CASE Settling(r)
      BY <3>3 DEF Settling, SendAdjust
    <3>4. QED
      BY <1>1, <3>1, <3>2, <3>3
  <2>3. QED
    BY <1>1, <2>1, <2>2 DEF StepOf
<1>2. ASSUME NEW r \in Identifier, NEW c \in Asks, Call(r, c)
      PROVE  StepOf(r)
  BY <1>1, <1>2 DEF Calling
<1>3. ASSUME NEW r \in Identifier, NEW c \in Asks, Adjust(r, c)
      PROVE  StepOf(r)
  <2>1. pc[r] = "admitted" /\ SendAdjust(r, c) /\ c \in Vectors
    BY <1>3, ConstantsTyped DEF Adjust
  <2>2. Settling(r)
    BY <2>1 DEF Settling
  <2>3. QED
    BY <1>1, <2>2
<1>4. ASSUME NEW r \in Identifier, ResendAdjust(r)
      PROVE  StepOf(r)
  <2>1. pc[r] = "readjusting" /\ SendAdjust(r, target[r]) /\ target[r] \in Vectors
    BY <1>4, TypeParts DEF ResendAdjust
  <2>2. Settling(r)
    BY <2>1 DEF Settling
  <2>3. QED
    BY <1>1, <2>2
<1>5. CASE Status
  BY <1>5, StatusLogs DEF Status, TypeInv, Quiet
<1>6. CASE Tick
  BY <1>6, PassesLogs DEF Tick, TypeInv, Quiet
<1>7. CASE UNCHANGED vars
  BY <1>7 DEF vars, Quiet, Stays
<1>8. QED
  BY <1>1, <1>2, <1>3, <1>4, <1>5, <1>6, <1>7 DEF Next

\* What was charged at the time t, and is in the window, still is after a quiet step.
LEMMA QuietKeeps ==
    ASSUME NEW q, Quiet(q), NEW l \in Limits
    PROVE  /\ Entries(rate[l], q) = {} => Entries(rate'[l], q) = {}
           /\ \A cost, t : (RecordedAt(rate[l], q, cost, t) /\ t > now' - Window[l]) =>
                               RecordedAt(rate'[l], q, cost, t)
<1>1. \A m : m[1] = q => Stays(l, m)
  BY DEF Quiet
<1>2. QED
  BY <1>1, EntriesQuiet

-----------------------------------------------------------------------------
(* Requests that wait: a resent acquire.                                    *)

\* A lost call is sent again before the shortest window is over.
ResendsInWindow == ~AnswersLost \/ \A l \in Limits : ResendDelay < Window[l]

Unrecorded(r) == \A l \in Limits : Entries(rate[l], r) = {}
AllRecorded(r) == \A l \in Limits : RecordedAt(rate[l], r, costs[r][l], since[r].lost)

\* Nothing is charged to a request before its first attempt is admitted; when the
\* answer of an attempt was lost, it is charged to all limits or to none.
Waits(r) ==
    /\ pc[r] \in {"idle", "trying", "sleeping"} => Unrecorded(r)
    /\ pc[r] = "resending" => Unrecorded(r) \/ AllRecorded(r)

Waiting == \A r \in Identifier : Waits(r)

\* A call that is resent is in every window of its first attempt.
LEMMA ResentInTime ==
    ASSUME TypeInv, ResendsInWindow, NEW r \in Identifier, NEW l \in Limits,
           pc[r] \in {"resending", "readjusting"}
    PROVE  since[r].lost \in Int /\ since[r].lost > now - Window[l]
<1>1. /\ AnswersLost /\ since[r].lost \in 0 .. now /\ now <= since[r].lost + ResendDelay
      /\ now \in Nat
  BY TypeParts DEF TypeInv, Calls
<1>2. ResendDelay < Window[l] /\ ResendDelay \in Nat /\ Window[l] \in Nat
  BY <1>1, ConstantsTyped, QuotaAssumption DEF ResendsInWindow
<1>3. QED
  BY <1>1, <1>2

LEMMA RecordedAdmitted ==
    ASSUME TypeInv, ResendsInWindow, NEW r \in Identifier, pc[r] = "resending", AllRecorded(r)
    PROVE  Admits(r, costs[r], now)
<1>1. costs[r] \in [Limits -> Costs]
  BY TypeParts, ConstantsTyped
<1>2. ASSUME NEW l \in Limits, costs[r][l] > 0
      PROVE  /\ <<r, costs[r][l]>> \in DOMAIN rate[l].log
             /\ rate[l].log[<<r, costs[r][l]>>] > now - Window[l]
  <2>1. costs[r][l] # 0
    BY <1>1, <1>2, CostsAreNaturals
  <2>2. since[r].lost > now - Window[l]
    BY ResentInTime
  <2>3. QED
    BY <2>1, <2>2 DEF AllRecorded, RecordedAt, Entries
<1>3. QED
  BY <1>1, <1>2, KnownAdmitted DEF TypeInv

LEMMA QuietWaits ==
    ASSUME TypeInv, TypeInv', ResendsInWindow, NEW q \in Identifier, Waits(q), Quiet(q)
    PROVE  Waits(q)'
<1>1. Unrecorded(q) => Unrecorded(q)'
  BY QuietKeeps DEF Unrecorded
<1>2. ASSUME pc[q] = "resending", AllRecorded(q)
      PROVE  AllRecorded(q)'
  <2>1. SUFFICES ASSUME NEW l \in Limits
                 PROVE  RecordedAt(rate'[l], q, costs'[q][l], since'[q].lost)
    BY DEF AllRecorded
  <2>2. pc'[q] = "resending" /\ costs'[q] = costs[q] /\ since'[q] = since[q]
    BY <1>2 DEF Quiet
  <2>3. since[q].lost > now' - Window[l]
    <3>1. /\ AnswersLost /\ since[q].lost \in 0 .. now' /\ now' <= since[q].lost + ResendDelay
          /\ now' \in Nat
      BY <2>2 DEF TypeInv, Calls, KeysOK
    <3>2. ResendDelay < Window[l] /\ ResendDelay \in Nat /\ Window[l] \in Nat
      BY <3>1, ConstantsTyped, QuotaAssumption DEF ResendsInWindow
    <3>3. QED
      BY <3>1, <3>2
  <2>4. RecordedAt(rate[l], q, costs[q][l], since[q].lost)
    BY <1>2 DEF AllRecorded
  <2>5. QED
    BY <2>2, <2>3, <2>4, QuietKeeps
<1>3. pc'[q] = pc[q]
  BY DEF Quiet
<1>4. QED
  BY <1>1, <1>2, <1>3 DEF Waits

\* What an attempt leaves in the logs of its own request.
LEMMA TryRecords ==
    ASSUME TypeInv, ResendsInWindow, NEW r \in Identifier, Waits(r), TryAcquire(r)
    PROVE  \/ Unrecorded(r) /\ /\ Admits(r, costs[r], now) =>
                                     \A l \in Limits : RecordedAt(rate'[l], r, costs[r][l], now)
                               /\ ~Admits(r, costs[r], now) =>
                                     \A l \in Limits : Entries(rate'[l], r) = {}
           \/ /\ pc[r] = "resending" /\ AllRecorded(r) /\ Admits(r, costs[r], now)
              /\ \A l \in Limits : RecordedAt(rate'[l], r, costs[r][l], since[r].lost)
<1>1. /\ pc[r] \in {"trying", "resending", "sleeping"}
      /\ RateAcquire(r, costs[r], now) /\ now' = now
  BY TryOutcome
<1>2. costs[r] \in [Limits -> Costs] /\ KeysOK
  BY TypeParts, ConstantsTyped DEF TypeInv
<1>3. CASE Unrecorded(r)
  BY <1>1, <1>2, <1>3, AcquireRecords DEF Unrecorded
<1>4. CASE pc[r] = "resending" /\ AllRecorded(r)
  <2>1. Admits(r, costs[r], now)
    BY <1>4, RecordedAdmitted
  <2>2. ASSUME NEW l \in Limits PROVE RecordedAt(rate'[l], r, costs[r][l], since[r].lost)
    <3>1. since[r].lost \in Int /\ since[r].lost > now - Window[l]
      BY <1>4, ResentInTime
    <3>2. RecordedAt(rate[l], r, costs[r][l], since[r].lost)
      BY <1>4 DEF AllRecorded
    <3>3. QED
      BY <1>1, <1>2, <3>1, <3>2, AcquireAgain
  <2>3. QED
    BY <1>4, <2>1, <2>2
<1>5. QED
  BY <1>1, <1>3, <1>4 DEF Waits

LEMMA TryWaits ==
    ASSUME TypeInv, ResendsInWindow, NEW r \in Identifier, Waits(r), TryAcquire(r)
    PROVE  Waits(r)'
<1>1. /\ pc[r] \in {"trying", "resending", "sleeping"} /\ costs' = costs
      /\ Admitted(r) \/ Denied(r) \/ Unheard(r)
  BY TryOutcome
<1>2. \/ Unrecorded(r) /\ /\ Admits(r, costs[r], now) =>
                                \A l \in Limits : RecordedAt(rate'[l], r, costs[r][l], now)
                          /\ ~Admits(r, costs[r], now) =>
                                \A l \in Limits : Entries(rate'[l], r) = {}
      \/ /\ pc[r] = "resending" /\ AllRecorded(r) /\ Admits(r, costs[r], now)
         /\ \A l \in Limits : RecordedAt(rate'[l], r, costs[r][l], since[r].lost)
  BY TryRecords
<1>3. CASE Admitted(r)
  <2>1. pc'[r] = "admitted"
    BY <1>3, TypeParts DEF Admitted
  <2>2. QED
    BY <2>1 DEF Waits
<1>4. CASE Denied(r)
  <2>1. \A l \in Limits : Entries(rate'[l], r) = {}
    BY <1>2, <1>4 DEF Denied
  <2>2. pc'[r] # "resending"
    BY <1>4, TypeParts DEF Denied
  <2>3. QED
    BY <2>1, <2>2 DEF Waits, Unrecorded
<1>5. CASE Unheard(r)
  <2>1. CASE /\ since[r].lost = None
             /\ pc' = [pc EXCEPT ![r] = "resending"]
             /\ since' = [since EXCEPT ![r].lost = now]
    <3>1. pc'[r] = "resending" /\ since'[r].lost = now
      BY <2>1, TypeParts, SinceLost
    <3>2. pc[r] # "resending"
      BY <2>1, ConstantsTyped DEF TypeInv, Calls
    <3>3. \/ \A l \in Limits : RecordedAt(rate'[l], r, costs[r][l], now)
          \/ \A l \in Limits : Entries(rate'[l], r) = {}
      BY <1>2, <3>2
    <3>4. QED
      BY <1>1, <3>1, <3>3 DEF Waits, Unrecorded, AllRecorded
  <2>2. CASE pc' = [pc EXCEPT ![r] = "failed"]
    <3>1. pc'[r] = "failed"
      BY <2>2, TypeParts
    <3>2. QED
      BY <3>1 DEF Waits
  <2>3. QED
    BY <1>5, <2>1, <2>2 DEF Unheard
<1>6. QED
  BY <1>1, <1>3, <1>4, <1>5

LEMMA StepWaiting ==
    ASSUME ResendsInWindow
    PROVE  TypeInv /\ TypeInv' /\ Waiting /\ [Next]_vars => Waiting'
<1> SUFFICES ASSUME TypeInv, TypeInv', Waiting, [Next]_vars, NEW q \in Identifier
             PROVE  Waits(q)'
  BY DEF Waiting
<1>w. Waits(q)
  BY DEF Waiting
<1>1. CASE Quiet(q)
  BY <1>1, <1>w, QuietWaits
<1>2. CASE Calling(q)
  <2>1. PICK c \in Asks : Call(q, c)
    BY <1>2 DEF Calling
  <2>2. pc[q] = "idle" /\ pc'[q] = "trying" /\ rate' = rate
    BY <2>1, TypeParts DEF Call
  <2>3. QED
    BY <1>w, <2>2 DEF Waits, Unrecorded
<1>3. CASE TryAcquire(q)
  BY <1>3, <1>w, TryWaits
<1>4. CASE Settling(q)
  <2>1. PICK new \in Vectors : SendAdjust(q, new)
    BY <1>4 DEF Settling
  <2>2. pc'[q] \in {"admitted", "readjusting"}
    <3>1. Settled(q, new) \/ Unsettled(q, new)
      BY <2>1, AdjustOutcome
    <3>2. QED
      BY <3>1, TypeParts DEF Settled, Unsettled
  <2>3. QED
    BY <2>2 DEF Waits
<1>5. QED
  BY <1>1, <1>2, <1>3, <1>4, StepSplits DEF StepOf

LEMMA InitWaiting == Init => Waiting
BY DEF Init, Waiting, Waits, Unrecorded, Entries, NoKeys, NoLog

LEMMA WaitingInvariance == ASSUME ResendsInWindow PROVE Spec => []Waiting
BY InitWaiting, StepWaiting, TypeInvariance, PTL DEF Spec

\* When the answer of an acquire was lost, the one that is sent again is not denied
\* against the units of the first, provided that it comes within every window.
THEOREM ResendsAdmitted == ASSUME ResendsInWindow PROVE Spec => ResentIsAdmitted
<1> DEFINE Kept == \A r \in Identifier :
                       (pc[r] = "resending" /\ OnRecord(r)) => pc'[r] \notin {"sleeping", "timed out"}
<1>1. TypeInv /\ Waiting /\ [Next]_vars => [Kept]_vars
  <2> SUFFICES ASSUME TypeInv, Waiting, [Next]_vars,
                      NEW r \in Identifier, pc[r] = "resending", OnRecord(r)
               PROVE  pc'[r] \notin {"sleeping", "timed out"}
    OBVIOUS
  <2>1. AllRecorded(r)
    <3>1. PICK l \in Limits : <<r, costs[r][l]>> \in DOMAIN rate[l].log
      BY DEF OnRecord
    <3>2. Entries(rate[l], r) # {}
      BY <3>1 DEF Entries
    <3>3. QED
      BY <3>2 DEF Waiting, Waits, Unrecorded
  <2>2. Admits(r, costs[r], now)
    BY <2>1, RecordedAdmitted
  <2>3. CASE TryAcquire(r)
    <3>1. Admitted(r) \/ Unheard(r)
      BY <2>2, <2>3, TryOutcome DEF Denied
    <3>2. QED
      BY <3>1, TypeParts DEF Admitted, Unheard
  <2>4. CASE Quiet(r)
    BY <2>4 DEF Quiet
  <2>5. ~Calling(r) /\ ~Settling(r)
    BY DEF Calling, Call, Settling
  <2>6. QED
    BY <2>3, <2>4, <2>5, StepSplits DEF StepOf
<1>2. QED
  BY <1>1, TypeInvariance, WaitingInvariance, PTL DEF Spec, ResentIsAdmitted

-----------------------------------------------------------------------------
(* Requests that hold a permit.                                             *)

\* Where answers may be lost, a call is sent again at once, and adjust does not raise
\* after its script ran.
ResendsAtOnce == ~AnswersLost \/ (ResendDelay = 0 /\ ~AdjustFails)

LEMMA AtOnceIsInWindow == ASSUME ResendsAtOnce PROVE ResendsInWindow
<1>1. \A l \in Limits : 0 < Window[l]
  BY QuotaAssumption
<1>2. QED
  BY <1>1 DEF ResendsAtOnce, ResendsInWindow

\* Each log in whose window the permit is has it once, at the cost the permit has or
\* is to have, and at its time.
Holds(r) ==
    pc[r] \in {"admitted", "readjusting"} =>
        \A l \in Limits : now < acquiredAt[r] + Window[l] =>
            RecordedAt(rate[l], r, Charged(r)[l], acquiredAt[r])

Holding == \A r \in Identifier : Holds(r)

LEMMA QuietHolds ==
    ASSUME TypeInv, TypeInv', now <= now', NEW q \in Identifier, Holds(q), Quiet(q)
    PROVE  Holds(q)'
<1>1. /\ pc'[q] = pc[q] /\ acquiredAt'[q] = acquiredAt[q]
      /\ costs'[q] = costs[q] /\ target'[q] = target[q]
  BY DEF Quiet
<1>2. SUFFICES ASSUME pc[q] \in {"admitted", "readjusting"}, NEW l \in Limits,
                      now' < acquiredAt[q] + Window[l]
               PROVE  RecordedAt(rate'[l], q, Charged(q)'[l], acquiredAt[q])
  BY <1>1 DEF Holds
<1>3. /\ acquiredAt[q] \in 0 .. now /\ now \in Nat /\ now' \in Nat /\ Window[l] \in Nat
  BY <1>2, QuotaAssumption DEF TypeInv, Calls, KeysOK
<1>4. now < acquiredAt[q] + Window[l] /\ acquiredAt[q] > now' - Window[l]
  BY <1>2, <1>3
<1>5. RecordedAt(rate[l], q, Charged(q)[l], acquiredAt[q])
  BY <1>2, <1>4 DEF Holds
<1>6. Charged(q)' = Charged(q)
  BY <1>1 DEF Charged
<1>7. QED
  BY <1>4, <1>5, <1>6, QuietKeeps

\* The answer of an acquire has the time of the entry.
LEMMA TryHolds ==
    ASSUME TypeInv, ResendsAtOnce, NEW r \in Identifier, Waits(r), TryAcquire(r)
    PROVE  Holds(r)'
<1>1. /\ now' = now /\ costs' = costs
      /\ Admitted(r) \/ Denied(r) \/ Unheard(r)
  BY TryOutcome
<1>2. CASE Admitted(r)
  <2>1. /\ pc'[r] = "admitted" /\ acquiredAt'[r] = now /\ Admits(r, costs[r], now)
    BY <1>2, TypeParts DEF Admitted
  <2>2. SUFFICES ASSUME NEW l \in Limits
                 PROVE  RecordedAt(rate'[l], r, costs[r][l], now)
    BY <1>1, <2>1 DEF Holds, Charged
  <2>3. pc[r] = "resending" => since[r].lost = now
    <3>1. SUFFICES ASSUME pc[r] = "resending" PROVE since[r].lost = now
      OBVIOUS
    <3>2. /\ AnswersLost /\ since[r].lost \in 0 .. now /\ now <= since[r].lost + ResendDelay
          /\ now \in Nat
      BY <3>1, TypeParts DEF TypeInv, Calls
    <3>3. ResendDelay = 0
      BY <3>2 DEF ResendsAtOnce
    <3>4. QED
      BY <3>2, <3>3
  <2>4. QED
    BY <2>1, <2>3, AtOnceIsInWindow, TryRecords
<1>3. CASE Denied(r) \/ Unheard(r)
  <2>1. pc'[r] \notin {"admitted", "readjusting"}
    BY <1>3, TypeParts DEF Denied, Unheard
  <2>2. QED
    BY <2>1 DEF Holds
<1>4. QED
  BY <1>1, <1>2, <1>3

LEMMA SettleHolds ==
    ASSUME TypeInv, ResendsAtOnce, NEW r \in Identifier, Holds(r), NEW new \in Vectors,
           pc[r] \in {"admitted", "readjusting"}, pc[r] = "readjusting" => new = target[r],
           SendAdjust(r, new)
    PROVE  /\ Holds(r)'
           /\ \A l \in Limits : now < acquiredAt[r] + Window[l] =>
                  RecordedAt(rate'[l], r, new[l], acquiredAt[r])
<1>1. /\ RateAdjust(r, costs[r], new, acquiredAt[r], now)
      /\ now' = now /\ acquiredAt' = acquiredAt
      /\ Settled(r, new) \/ Unsettled(r, new)
  BY AdjustOutcome
<1>2. /\ costs[r] \in [Limits -> Costs] /\ new \in [Limits -> Costs] /\ KeysOK
      /\ acquiredAt[r] \in 0 .. now /\ now \in Nat
  BY TypeParts, ConstantsTyped DEF TypeInv, Calls
<1>3. ASSUME NEW l \in Limits, now < acquiredAt[r] + Window[l]
      PROVE  RecordedAt(rate'[l], r, new[l], acquiredAt[r])
  <2>1. Window[l] \in Nat /\ acquiredAt[r] > now - Window[l]
    BY <1>2, <1>3, QuotaAssumption
  <2>2. \/ RecordedAt(rate[l], r, costs[r][l], acquiredAt[r])
        \/ RecordedAt(rate[l], r, new[l], acquiredAt[r])
    BY <1>3 DEF Holds, Charged
  <2>3. QED
    BY <1>1, <1>2, <2>1, <2>2, AdjustRecords
<1>4. /\ pc'[r] = "admitted" => costs'[r] = new
      /\ pc'[r] = "readjusting" => target'[r] = new
  <2>1. CASE Settled(r, new)
    BY <2>1, TypeParts DEF Settled
  <2>2. CASE Unsettled(r, new)
    BY <2>2, TypeParts DEF Unsettled, ResendsAtOnce
  <2>3. QED
    BY <1>1, <2>1, <2>2
<1>5. Holds(r)'
  BY <1>1, <1>3, <1>4 DEF Holds, Charged
<1>6. QED
  BY <1>3, <1>5

LEMMA StepHolding ==
    ASSUME ResendsAtOnce
    PROVE  TypeInv /\ TypeInv' /\ Waiting /\ Holding /\ [Next]_vars => Holding'
<1> SUFFICES ASSUME TypeInv, TypeInv', Waiting, Holding, [Next]_vars, NEW q \in Identifier
             PROVE  Holds(q)'
  BY DEF Holding
<1>w. Holds(q) /\ Waits(q)
  BY DEF Holding, Waiting
<1>n. now <= now'
  <2>1. now \in Nat
    BY TypeParts
  <2>2. now' = now \/ now' = now + 1
    <3>1. (\E r \in Identifier : StepOf(r)) => now' = now
      BY DEF StepOf
    <3>2. (Status \/ Tick \/ UNCHANGED vars) => (now' = now \/ now' = now + 1)
      BY DEF Status, Tick, Passes, vars
    <3>3. ASSUME NEW r \in Identifier, NEW c \in Asks,
                 Call(r, c) \/ Adjust(r, c) \/ TryAcquire(r) \/ ResendAdjust(r)
          PROVE  now' = now
      BY <3>3 DEF Call, Adjust, TryAcquire, ResendAdjust, SendAdjust
    <3>4. ASSUME NEW r \in Identifier, TryAcquire(r) \/ ResendAdjust(r)
          PROVE  now' = now
      BY <3>4 DEF TryAcquire, ResendAdjust, SendAdjust
    <3>5. QED
      BY <3>2, <3>3, <3>4 DEF Next
  <2>3. QED
    BY <2>1, <2>2
<1>1. CASE Quiet(q)
  BY <1>1, <1>n, <1>w, QuietHolds
<1>2. CASE Calling(q)
  <2>1. PICK c \in Asks : Call(q, c)
    BY <1>2 DEF Calling
  <2>2. pc'[q] = "trying"
    BY <2>1, TypeParts DEF Call
  <2>3. QED
    BY <2>2 DEF Holds
<1>3. CASE TryAcquire(q)
  BY <1>3, <1>w, TryHolds
<1>4. CASE Settling(q)
  <2>1. PICK new \in Vectors : /\ pc[q] \in {"admitted", "readjusting"}
                               /\ pc[q] = "readjusting" => new = target[q]
                               /\ SendAdjust(q, new)
    BY <1>4 DEF Settling
  <2>2. QED
    BY <1>w, <2>1, SettleHolds
<1>5. QED
  BY <1>1, <1>2, <1>3, <1>4, StepSplits DEF StepOf

LEMMA InitHolding == Init => Holding
BY DEF Init, Holding, Holds

LEMMA HoldingInvariance == ASSUME ResendsAtOnce PROVE Spec => []Holding
<1>1. Spec => []Waiting
  BY AtOnceIsInWindow, WaitingInvariance
<1>2. QED
  BY <1>1, InitHolding, StepHolding, TypeInvariance, PTL DEF Spec

\* A permit is charged what it says, once, from its acquired_at on, in every limit whose
\* window it is in, whatever is evicted, adjusted, resent or expires around it.
THEOREM PermitsMatch == ASSUME ResendsAtOnce PROVE Spec => []PermitMatchesLog
<1>1. TypeInv /\ Holding => PermitMatchesLog
  <2> SUFFICES ASSUME TypeInv, Holding, NEW r \in Identifier, NEW l \in Limits,
                      pc[r] = "admitted", now < acquiredAt[r] + Window[l]
               PROVE  LET entries == {m \in DOMAIN rate[l].log : m[1] = r}
                      IN  /\ entries = IF costs[r][l] = 0 THEN {} ELSE {<<r, costs[r][l]>>}
                          /\ \A m \in entries : rate[l].log[m] = acquiredAt[r]
    BY Zenon DEF PermitMatchesLog
  <2>1. Charged(r) = costs[r]
    BY DEF Charged
  <2>2. RecordedAt(rate[l], r, costs[r][l], acquiredAt[r])
    BY <2>1 DEF Holding, Holds
  <2>3. QED
    BY <2>2 DEF RecordedAt, Entries
<1>2. QED
  BY <1>1, TypeInvariance, HoldingInvariance, PTL

\* The request is charged the new cost, and nothing else, once adjust() has returned.
THEOREM AdjustsSettle == ASSUME ResendsAtOnce PROVE Spec => AdjustSettles
<1> DEFINE Set(r, l) == (costs'[r] # costs[r] /\ now < acquiredAt[r] + Window[l]) =>
                            {m[2] : m \in {k \in DOMAIN rate'[l].log : k[1] = r}}
                                = {costs'[r][l]} \ {0}
           Kept == \A r \in Holders, l \in Limits : Set(r, l)
<1>1. TypeInv /\ Holding /\ [Next]_vars => [Kept]_vars
  <2> SUFFICES ASSUME TypeInv, Holding, [Next]_vars, NEW r \in Holders, NEW l \in Limits,
                      costs'[r] # costs[r], now < acquiredAt[r] + Window[l]
               PROVE  {m[2] : m \in {k \in DOMAIN rate'[l].log : k[1] = r}}
                          = {costs'[r][l]} \ {0}
    OBVIOUS
  <2>1. r \in Identifier /\ pc[r] \in {"admitted", "readjusting"}
    BY DEF Holders
  <2>2. Settling(r)
    <3>1. ~Quiet(r) /\ ~Calling(r) /\ ~TryAcquire(r)
      BY <2>1 DEF Quiet, Calling, Call, TryAcquire
    <3>2. QED
      BY <2>1, <3>1, StepSplits DEF StepOf
  <2>3. PICK new \in Vectors : /\ pc[r] = "readjusting" => new = target[r]
                               /\ SendAdjust(r, new)
    BY <2>2 DEF Settling
  <2>4. RecordedAt(rate'[l], r, new[l], acquiredAt[r])
    BY <2>1, <2>3, SettleHolds DEF Holding
  <2>5. costs'[r] = new
    BY <2>1, <2>3, AdjustOutcome, TypeParts DEF Settled, Unsettled
  <2>6. new[l] \in Nat
    BY ConstantsTyped, CostsAreNaturals
  <2> DEFINE E == {k \in DOMAIN rate'[l].log : k[1] = r}
  <2>7. E = IF new[l] = 0 THEN {} ELSE {<<r, new[l]>>}
    BY <2>4 DEF RecordedAt, Entries
  <2> HIDE DEF E
  <2>8. {m[2] : m \in E} = {new[l]} \ {0}
    <3>1. CASE new[l] = 0
      <4>1. E = {}
        BY <2>7, <3>1
      <4>2. QED
        BY <3>1, <4>1
    <3>2. CASE new[l] # 0
      <4>1. E = {<<r, new[l]>>}
        BY <2>7, <3>2
      <4>2. {m[2] : m \in E} = {new[l]}
        BY <4>1
      <4>3. QED
        BY <3>2, <4>2
    <3>3. QED
      BY <3>1, <3>2
  <2>9. QED
    BY <2>5, <2>8 DEF E
<1>2. QED
  BY <1>1, TypeInvariance, HoldingInvariance, PTL DEF Spec, AdjustSettles

-----------------------------------------------------------------------------
(* Admission.                                                               *)

\* The units the callers count as theirs are units of the log.
InUseCharged ==
    \A l \in Limits : /\ InUse(l) \in Nat
                      /\ InUse(l) <= Charge(DOMAIN rate[l].log)

LEMMA InUseIsCharged == TypeInv /\ Holding => InUseCharged
<1> SUFFICES ASSUME TypeInv, Holding, NEW l \in Limits
             PROVE  InUse(l) \in Nat /\ InUse(l) <= Charge(DOMAIN rate[l].log)
  BY DEF InUseCharged
<1> DEFINE S == {u \in Holders \X (1 .. MaxCost) :
                     acquiredAt[u[1]] > now - Window[l] /\ u[2] <= Charged(u[1])[l]}
           T == Units(DOMAIN rate[l].log)
           f == [u \in S |-> <<<<u[1], Charged(u[1])[l]>>, u[2]>>]
<1>1. ASSUME NEW u \in S
      PROVE  f[u] \in T
  <2>1. /\ u[1] \in Identifier /\ pc[u[1]] \in {"admitted", "readjusting"}
        /\ u[2] \in 1 .. MaxCost /\ u[2] <= Charged(u[1])[l]
        /\ acquiredAt[u[1]] > now - Window[l]
    BY DEF Holders
  <2> DEFINE q == u[1]
             cost == Charged(u[1])[l]
  <2>2. cost \in Nat /\ acquiredAt[q] \in 0 .. now /\ now \in Nat /\ Window[l] \in Nat
    <3>1. Charged(q) \in [Limits -> Costs]
      BY <2>1, TypeParts, ConstantsTyped DEF Charged
    <3>2. QED
      BY <2>1, <3>1, TypeParts, CostsAreNaturals, QuotaAssumption DEF TypeInv, Calls
  <2>3. now < acquiredAt[q] + Window[l] /\ cost # 0
    BY <2>1, <2>2, CostAssumption
  <2>4. RecordedAt(rate[l], q, cost, acquiredAt[q])
    BY <2>1, <2>3 DEF Holding, Holds
  <2>5. <<q, cost>> \in DOMAIN rate[l].log
    BY <2>3, <2>4 DEF RecordedAt, Entries
  <2>6. f[u] = <<<<q, cost>>, u[2]>>
    OBVIOUS
  <2> HIDE DEF q, f
  <2>7. QED
    BY <2>1, <2>5, <2>6 DEF Units
<1>2. \A u, v \in S : f[u] = f[v] => u = v
  OBVIOUS
<1>3. f \in Injection(S, T)
  <2>1. f \in [S -> T]
    BY <1>1
  <2> HIDE DEF T
  <2>2. IsInjective(f)
    BY <1>2 DEF IsInjective
  <2> HIDE DEF f, S
  <2>3. QED
    BY <2>1, <2>2 DEF Injection
<1>4. IsFiniteSet(T)
  BY UnitsFinite DEF TypeInv, KeysOK, Matching, Keys
<1> HIDE DEF S, T, f
<1>5. IsFiniteSet(S) /\ Cardinality(S) \in Nat /\ Cardinality(S) <= Cardinality(T)
  BY <1>3, <1>4, FS_Injection, FS_CardinalityType
<1>6. QED
  BY <1>5 DEF InUse, Charge, S, T

\* A request that is in no log is only recorded where it fits.
LEMMA AdmittedFits ==
    ASSUME KeysOK, NEW r \in Identifier, NEW c \in [Limits -> Costs],
           RateAcquire(r, c, now), Admits(r, c, now), Unrecorded(r),
           NEW l \in Limits, c[l] > 0
    PROVE  Charge(DOMAIN rate'[l].log) <= Limit[l]
<1> DEFINE k == Evicted(now)[l]
           m == <<r, c[l]>>
<1>1. now \in Int /\ c[l] \in 1 .. MaxCost /\ c[l] \in Nat /\ Limit[l] \in Nat
  BY CostAssumption, QuotaAssumption DEF KeysOK, Costs
<1>2. rate'[l] = Record(k, l, r, c[l], now)
  BY DEF RateAcquire, Admits
<1>3. Exact(k)
  BY EvictedKeysOK
<1>4. \A j \in Limits : Entries(Evicted(now)[j], r) = {}
  BY EvictedStays DEF Unrecorded, Entries
<1>5. PICK i \in DOMAIN Order : l = Order[i]
  BY DEF Limits
<1>6. ~Recorded(Evicted(now), r, c, i)
  <2>1. DOMAIN Order = 1 .. Len(Order) /\ Len(Order) \in Nat
    BY OrderAssumption
  <2>2. \A j \in 1 .. i : Order[j] \in Limits
    BY <2>1 DEF Limits
  <2>3. \A j \in 1 .. i : <<r, c[Order[j]]>> \notin DOMAIN Evicted(now)[Order[j]].log
    BY <1>4, <2>2 DEF Entries
  <2>4. QED
    BY <2>3 DEF Recorded
<1>7. ~(Excess(Evicted(now), l, c) > 0)
  BY <1>5, <1>6 DEF Admits, Blocked
<1>8. m \notin DOMAIN k.log /\ m \in Member /\ m[2] = c[l]
  BY <1>1, <1>4 DEF Entries, Member
<1>9. DOMAIN rate'[l].log = DOMAIN k.log \cup {m}
  <2> DEFINE cost == c[l]
  <2>1. cost \in 1 .. MaxCost /\ m = <<r, cost>> /\ rate'[l] = Record(k, l, r, cost, now)
    BY <1>1, <1>2
  <2> HIDE DEF k, m, cost
  <2>2. DOMAIN Record(k, l, r, cost, now).log = DOMAIN k.log \cup {<<r, cost>>}
    BY <1>1, <1>3, <2>1, RecordLog
  <2>3. QED
    BY <2>1, <2>2
<1>10. Charge(DOMAIN rate'[l].log) = Charge(DOMAIN k.log) + c[l] /\ Charge(DOMAIN k.log) \in Nat
  <2>1. IsFiniteSet(DOMAIN k.log)
    BY <1>3 DEF Exact, Keys
  <2> HIDE DEF k, m
  <2>2. QED
    BY <1>8, <1>9, <2>1, ChargeOfMore, UnitsFinite
<1>11. TotalOf(k) = Charge(DOMAIN k.log)
  BY <1>3 DEF Exact
<1> HIDE DEF k, m
<1>12. ~(Charge(DOMAIN k.log) + c[l] - Limit[l] > 0)
  BY <1>7, <1>11 DEF Excess, k
<1>13. QED
  BY <1>1, <1>10, <1>12

\* A request is only admitted where its units and those that other callers hold in the
\* last window do not exceed the limit.
THEOREM AdmissionsFit == ASSUME ResendsAtOnce PROVE Spec => AdmissionWithinLimits
<1> DEFINE Fits == \A r \in Identifier : (r \in Holders' \ Holders /\ ~OnRecord(r)) =>
                       \A l \in Limits : costs'[r][l] > 0 => InUse(l)' <= Limit[l]
<1>1. TypeInv /\ TypeInv' /\ Waiting /\ InUseCharged' /\ [Next]_vars => [Fits]_vars
  <2> SUFFICES ASSUME TypeInv, TypeInv', Waiting, InUseCharged', [Next]_vars,
                      NEW r \in Identifier, r \in Holders', r \notin Holders, ~OnRecord(r),
                      NEW l \in Limits, costs'[r][l] > 0
               PROVE  InUse(l)' <= Limit[l]
    OBVIOUS
  <2>1. pc[r] \notin {"admitted", "readjusting"} /\ pc'[r] \in {"admitted", "readjusting"}
    BY DEF Holders
  <2>2. TryAcquire(r)
    <3>1. ~Quiet(r) /\ ~Settling(r)
      BY <2>1 DEF Quiet, Settling
    <3>2. ~Calling(r)
      BY <2>1, TypeParts DEF Calling, Call
    <3>3. QED
      BY <3>1, <3>2, StepSplits DEF StepOf
  <2>3. Admits(r, costs[r], now) /\ costs' = costs /\ RateAcquire(r, costs[r], now)
    <3>1. ~Denied(r) /\ ~Unheard(r)
      BY <2>1, TypeParts DEF Denied, Unheard
    <3>2. QED
      BY <2>2, <3>1, TryOutcome DEF Admitted
  <2>4. costs[r] \in [Limits -> Costs] /\ costs[r][l] > 0
    BY <2>3, TypeParts, ConstantsTyped
  <2>5. Unrecorded(r)
    <3>1. SUFFICES ASSUME AllRecorded(r) PROVE FALSE
      BY <2>2, TryOutcome DEF Waiting, Waits
    <3>2. \A j \in Limits : costs[r][j] > 0 => <<r, costs[r][j]>> \in DOMAIN rate[j].log
      BY <2>4, <3>1, CostsAreNaturals DEF AllRecorded, RecordedAt, Entries
    <3>3. QED
      BY <2>4, <3>2 DEF OnRecord
  <2>6. Charge(DOMAIN rate'[l].log) <= Limit[l]
    BY <2>3, <2>4, <2>5, AdmittedFits DEF TypeInv
  <2>7. InUse(l)' <= Charge(DOMAIN rate'[l].log)
    BY DEF InUseCharged
  <2>8. InUse(l)' \in Nat /\ Charge(DOMAIN rate'[l].log) \in Nat /\ Limit[l] \in Nat
    <3>1. InUse(l)' \in Nat
      BY DEF InUseCharged
    <3>2. IsFiniteSet(DOMAIN rate'[l].log)
      BY DEF TypeInv, KeysOK, Matching, Keys
    <3>3. QED
      BY <3>1, <3>2, UnitsFinite, QuotaAssumption
  <2>9. QED
    BY <2>6, <2>7, <2>8
<1>2. Spec => []Waiting
  BY AtOnceIsInWindow, WaitingInvariance
<1>3. Spec => []InUseCharged
  BY InUseIsCharged, TypeInvariance, HoldingInvariance, PTL
<1>4. QED
  BY <1>1, <1>2, <1>3, TypeInvariance, PTL DEF Spec, AdmissionWithinLimits

=============================================================================
