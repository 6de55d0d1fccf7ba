-------------------------- MODULE SemaphoreServerProofs --------------------------
(***************************************************************************)
(* What holds of SemaphoreServer for every set of identifiers, every       *)
(* limit, all lock timeouts and all clock errors of the clients: its types,*)
(* the limit on its owners and the order of its fencing tokens.            *)
(***************************************************************************)
EXTENDS SemaphoreServer, FiniteSetTheorems, TLAPS

\* ZREM and ZREMRANGEBYSCORE leave a part of the set, scores unchanged.
LEMMA WithoutShrinks ==
    ASSUME NEW zset, NEW ids, zset \in [DOMAIN zset -> Int]
    PROVE  /\ DOMAIN Without(zset, ids) = DOMAIN zset \ ids
           /\ Without(zset, ids) \in [DOMAIN Without(zset, ids) -> Int]
BY DEF Without

\* ZADD adds one member at most and gives it its score.
LEMMA WithAdds ==
    ASSUME NEW zset, NEW id, NEW score \in Int, zset \in [DOMAIN zset -> Int]
    PROVE  /\ DOMAIN With(zset, id, score) = DOMAIN zset \cup {id}
           /\ With(zset, id, score) \in [DOMAIN With(zset, id, score) -> Int]
BY DEF With

\* The owners that a script finds unexpired are some of the owners.
LEMMA UnexpiredShrinks ==
    ASSUME StoreOK, NEW n \in Int
    PROVE  /\ DOMAIN Unexpired(n) \subseteq DOMAIN owners
           /\ Unexpired(n) \in [DOMAIN Unexpired(n) -> Int]
           /\ IsFiniteSet(DOMAIN Unexpired(n))
           /\ Cardinality(DOMAIN Unexpired(n)) <= Cardinality(DOMAIN owners)
           /\ Cardinality(DOMAIN Unexpired(n)) \in Nat
<1>1. DOMAIN Unexpired(n) \subseteq DOMAIN owners
  BY WithoutShrinks DEF Unexpired, StoreOK
<1>2. Unexpired(n) \in [DOMAIN Unexpired(n) -> Int]
  BY WithoutShrinks DEF Unexpired, StoreOK
<1>3. IsFiniteSet(DOMAIN owners)
  BY DEF StoreOK
<1>4. QED
  BY <1>1, <1>2, <1>3, FS_Subset, FS_CardinalityType

\* A time that a script is given is an integer.
LEMMA TimesAreIntegers == ASSUME StoreOK PROVE ScriptTimes \subseteq Int
BY SkewAssumption DEF StoreOK, ScriptTimes

LEMMA TimeoutsAreNaturals == \A id \in Identifier : LockTimeout[id] \in Nat \ {0}
BY TimeoutAssumption

-----------------------------------------------------------------------------
(* One step: the owners stay a finite sorted set within the limit.          *)

\* What every script and the clock preserve: the types, and the limit.
StoreInv == StoreOK /\ OwnersWithinLimit

\* A step that only removes owners preserves it.
LEMMA ShrinkingPreserves ==
    ASSUME StoreInv, DOMAIN owners' \subseteq DOMAIN owners,
           owners' \in [DOMAIN owners' -> Int], now' \in Nat, ownersExp' \in Int
    PROVE  StoreInv'
<1>1. IsFiniteSet(DOMAIN owners)
  BY DEF StoreInv, StoreOK
<1>2. /\ IsFiniteSet(DOMAIN owners')
      /\ Cardinality(DOMAIN owners') <= Cardinality(DOMAIN owners)
      /\ Cardinality(DOMAIN owners') \in Nat
      /\ Cardinality(DOMAIN owners) \in Nat
  BY <1>1, FS_Subset, FS_CardinalityType
<1>3. StoreOK'
  BY <1>2 DEF StoreInv, StoreOK
<1>4. OwnersWithinLimit'
  BY <1>2, LimitAssumption DEF StoreInv, OwnersWithinLimit
<1>5. QED
  BY <1>3, <1>4 DEF StoreInv

\* KeepTTL leaves an integer.
LEMMA KeepTTLType == ASSUME StoreOK, KeepTTL PROVE ownersExp' \in Int
BY DEF StoreOK, KeepTTL

\* So does PEXPIRE.
LEMMA BumpType ==
    ASSUME StoreOK, NEW id \in Identifier, NEW n \in Int,
           owners' \in [DOMAIN owners' -> Int], BumpOwnersTTL(id, n)
    PROVE  ownersExp' \in Int
<1>1. PICK top \in {owners'[i] : i \in DOMAIN owners'} :
          ownersExp' = now + (top - n + LockTimeout[id])
  BY DEF BumpOwnersTTL
<1>2. top \in Int
  BY <1>1
<1>3. QED
  BY <1>1, <1>2, TimeoutsAreNaturals DEF StoreOK

\* ACQUIRE adds an owner only where there is room for it after the eviction.
LEMMA AcquirePreserves ==
    ASSUME StoreInv, NEW id \in Identifier, NEW n \in Int, AcquireScript(id, n)
    PROVE  StoreInv'
<1> DEFINE held == Unexpired(n)
<1>1. StoreOK /\ OwnersWithinLimit
  BY DEF StoreInv
<1>2. /\ DOMAIN held \subseteq DOMAIN owners
      /\ held \in [DOMAIN held -> Int]
      /\ IsFiniteSet(DOMAIN held)
      /\ Cardinality(DOMAIN held) <= Cardinality(DOMAIN owners)
      /\ Cardinality(DOMAIN held) \in Nat
  BY <1>1, UnexpiredShrinks
<1>3. now' \in Nat
  BY <1>1 DEF AcquireScript, StoreOK
<1>4. CASE Admits(id, n)
  <2>1. owners' = With(held, id, n + LockTimeout[id]) /\ BumpOwnersTTL(id, n)
    BY <1>4 DEF AcquireScript
  <2>2. n + LockTimeout[id] \in Int
    BY TimeoutsAreNaturals
  <2>3. /\ DOMAIN owners' = DOMAIN held \cup {id}
        /\ owners' \in [DOMAIN owners' -> Int]
    <3> HIDE DEF held
    <3>1. QED
      BY <1>2, <2>1, <2>2, WithAdds
  <2>4. ownersExp' \in Int
    BY <1>1, <2>1, <2>3, BumpType
  <2>5. id \in DOMAIN held \/ Cardinality(DOMAIN held) < Limit
    BY <1>4 DEF Admits
  <2>6. /\ IsFiniteSet(DOMAIN owners')
        /\ Cardinality(DOMAIN owners') <= Limit
    <3>1. CASE id \in DOMAIN held
      <4>1. DOMAIN owners' = DOMAIN held
        BY <2>3, <3>1
      <4>2. Cardinality(DOMAIN owners) \in Nat
        BY <1>1, FS_CardinalityType DEF StoreOK
      <4>3. QED
        BY <1>1, <1>2, <4>1, <4>2, LimitAssumption DEF OwnersWithinLimit
    <3>2. CASE id \notin DOMAIN held
      <4>1. IsFiniteSet(DOMAIN held \cup {id})
            /\ Cardinality(DOMAIN held \cup {id}) = Cardinality(DOMAIN held) + 1
        BY <1>2, <3>2, FS_AddElement
      <4>2. QED
        BY <1>2, <2>3, <2>5, <3>2, <4>1, LimitAssumption
    <3>3. QED
      BY <3>1, <3>2
  <2>7. DOMAIN owners' \subseteq Identifier
    BY <1>1, <1>2, <2>3 DEF StoreOK
  <2>8. QED
    BY <1>3, <2>3, <2>4, <2>6, <2>7 DEF StoreInv, StoreOK, OwnersWithinLimit
<1>5. CASE ~Admits(id, n)
  <2>1. owners' = held /\ KeepTTL
    BY <1>5 DEF AcquireScript
  <2>2. QED
    BY <1>1, <1>2, <1>3, <2>1, KeepTTLType, ShrinkingPreserves
<1>6. QED
  BY <1>4, <1>5

\* RELEASE removes one owner.
LEMMA ReleasePreserves ==
    ASSUME StoreInv, NEW id \in Identifier, ReleaseScript(id)
    PROVE  StoreInv'
<1>1. owners' = Without(owners, {id}) /\ KeepTTL /\ now' = now
  BY DEF ReleaseScript
<1>2. StoreOK /\ now' \in Nat
  BY <1>1 DEF StoreInv, StoreOK
<1>3. DOMAIN owners' \subseteq DOMAIN owners /\ owners' \in [DOMAIN owners' -> Int]
  BY <1>1, <1>2, WithoutShrinks DEF StoreOK
<1>4. QED
  BY <1>1, <1>2, <1>3, KeepTTLType, ShrinkingPreserves

\* REFRESH changes the score of an owner, or removes the owner.
LEMMA RefreshPreserves ==
    ASSUME StoreInv, NEW id \in Identifier, NEW n \in Int, RefreshScript(id, n)
    PROVE  StoreInv'
<1>1. StoreOK /\ now' \in Nat
  BY DEF StoreInv, StoreOK, RefreshScript
<1>2. CASE Renewable(id, n)
  <2>1. owners' = With(owners, id, n + LockTimeout[id]) /\ BumpOwnersTTL(id, n)
    BY <1>2 DEF RefreshScript
  <2>2. n + LockTimeout[id] \in Int /\ id \in DOMAIN owners
    BY <1>2, TimeoutsAreNaturals DEF Renewable
  <2>3. DOMAIN owners' = DOMAIN owners /\ owners' \in [DOMAIN owners' -> Int]
    <3>1. owners \in [DOMAIN owners -> Int]
      BY <1>1 DEF StoreOK
    <3>2. DOMAIN owners' = DOMAIN owners \cup {id} /\ owners' \in [DOMAIN owners' -> Int]
      BY <2>1, <2>2, <3>1, WithAdds
    <3>3. QED
      BY <2>2, <3>2
  <2>4. QED
    BY <1>1, <2>1, <2>3, BumpType, ShrinkingPreserves
<1>3. CASE ~Renewable(id, n)
  <2>1. owners' = Without(owners, {id}) /\ KeepTTL
    BY <1>3 DEF RefreshScript
  <2>2. DOMAIN owners' \subseteq DOMAIN owners /\ owners' \in [DOMAIN owners' -> Int]
    BY <1>1, <2>1, WithoutShrinks DEF StoreOK
  <2>3. QED
    BY <1>1, <2>1, <2>2, KeepTTLType, ShrinkingPreserves
<1>4. QED
  BY <1>2, <1>3

\* CLEANUP and STATUS remove the expired owners.
LEMMA CleanupPreserves ==
    ASSUME StoreInv, NEW n \in Int, CleanupScript(n)
    PROVE  StoreInv'
<1>1. StoreOK /\ now' \in Nat /\ owners' = Unexpired(n) /\ KeepTTL
  BY DEF StoreInv, StoreOK, CleanupScript
<1>2. QED
  BY <1>1, UnexpiredShrinks, KeepTTLType, ShrinkingPreserves

\* The clock removes all owners or none.
LEMMA ClockPreserves ==
    ASSUME StoreInv, Clock
    PROVE  StoreInv'
<1>1. now' \in Nat /\ StoreOK
  BY DEF StoreInv, StoreOK, Clock
<1>2. CASE DOMAIN owners # {} /\ now' > ownersExp
  <2>1. owners' = NoOwners /\ ownersExp' = 0
    BY <1>2 DEF Clock
  <2>2. DOMAIN owners' = {} /\ owners' \in [DOMAIN owners' -> Int]
    BY <2>1 DEF NoOwners
  <2>3. QED
    BY <1>1, <2>1, <2>2, ShrinkingPreserves
<1>3. CASE ~(DOMAIN owners # {} /\ now' > ownersExp)
  <2>1. owners' = owners /\ ownersExp' = ownersExp
    BY <1>3 DEF Clock
  <2>2. QED
    BY <1>1, <2>1, ShrinkingPreserves DEF StoreOK
<1>4. QED
  BY <1>2, <1>3

-----------------------------------------------------------------------------
(* The invariant, and the theorems.                                         *)

\* No identifier has a token the counter has not given out.  The order of the
\* tokens needs it: the next value is above all tokens only if they are not above
\* the counter.
TokensGiven == \A i \in Identifier : token[i] <= fencing

IInv == TypeOK /\ OwnersWithinLimit /\ TokensGiven

LEMMA InitIInv == Init => IInv
<1> SUFFICES ASSUME Init PROVE IInv
  OBVIOUS
<1>1. owners = NoOwners /\ DOMAIN NoOwners = {}
  BY DEF Init, StoreInit, NoOwners
<1>2. IsFiniteSet(DOMAIN owners) /\ Cardinality(DOMAIN owners) = 0
  BY <1>1, FS_EmptySet
<1>3. StoreOK
  BY <1>1, <1>2 DEF StoreOK, Init, StoreInit, NoOwners
<1>4. TypeOK /\ TokensGiven
  BY <1>3 DEF TypeOK, TokensGiven, Init
<1>5. OwnersWithinLimit
  BY <1>2, LimitAssumption DEF OwnersWithinLimit
<1>6. QED
  BY <1>4, <1>5 DEF IInv

\* The scripts and the clock preserve what is said of the store.
LEMMA NextStore == IInv /\ [Next]_vars => StoreInv'
<1> SUFFICES ASSUME IInv, [Next]_vars PROVE StoreInv'
  OBVIOUS
<1>1. StoreInv /\ StoreOK
  BY DEF IInv, TypeOK, StoreInv
<1>2. ASSUME NEW id \in Identifier, NEW n \in ScriptTimes, Acquire(id, n)
      PROVE  StoreInv'
  BY <1>1, <1>2, TimesAreIntegers, AcquirePreserves DEF Acquire
<1>3. ASSUME NEW id \in Identifier, NEW n \in ScriptTimes, Refresh(id, n)
      PROVE  StoreInv'
  BY <1>1, <1>3, TimesAreIntegers, RefreshPreserves DEF Refresh
<1>4. ASSUME NEW id \in Identifier, Release(id)
      PROVE  StoreInv'
  BY <1>1, <1>4, ReleasePreserves DEF Release
<1>5. ASSUME NEW n \in ScriptTimes, Cleanup(n)
      PROVE  StoreInv'
  BY <1>1, <1>5, TimesAreIntegers, CleanupPreserves DEF Cleanup
<1>6. CASE Tick
  BY <1>1, <1>6, ClockPreserves DEF Tick
<1>7. CASE UNCHANGED vars
  BY <1>1, <1>7 DEF vars, store, StoreInv, StoreOK, OwnersWithinLimit
<1>8. QED
  BY <1>2, <1>3, <1>4, <1>5, <1>6, <1>7 DEF Next

\* The tokens change by a grant, and then the identifier gets the next value.
LEMMA NextTokens ==
    ASSUME IInv, [Next]_vars
    PROVE  \/ UNCHANGED <<fencing, token>>
           \/ \E id \in Identifier : /\ fencing' = fencing + 1
                                     /\ token' = [token EXCEPT ![id] = fencing + 1]
<1>1. ASSUME NEW id \in Identifier, NEW n \in ScriptTimes, Acquire(id, n)
      PROVE  \/ UNCHANGED <<fencing, token>>
             \/ /\ fencing' = fencing + 1
                /\ token' = [token EXCEPT ![id] = fencing + 1]
  BY <1>1 DEF Acquire
<1>2. ASSUME NEW id \in Identifier, NEW n \in ScriptTimes, Refresh(id, n)
      PROVE  UNCHANGED <<fencing, token>>
  BY <1>2 DEF Refresh
<1>3. ASSUME NEW id \in Identifier, Release(id)
      PROVE  UNCHANGED <<fencing, token>>
  BY <1>3 DEF Release
<1>4. ASSUME NEW n \in ScriptTimes, Cleanup(n)
      PROVE  UNCHANGED <<fencing, token>>
  BY <1>4 DEF Cleanup
<1>5. Tick \/ UNCHANGED vars => UNCHANGED <<fencing, token>>
  BY DEF Tick, vars
<1>6. QED
  BY <1>1, <1>2, <1>3, <1>4, <1>5 DEF Next

LEMMA NextIInv == IInv /\ [Next]_vars => IInv'
<1> SUFFICES ASSUME IInv, [Next]_vars PROVE IInv'
  OBVIOUS
<1>1. StoreOK' /\ OwnersWithinLimit'
  BY NextStore DEF StoreInv
<1>2. fencing \in Nat /\ token \in [Identifier -> Nat] /\ TokensGiven
  BY DEF IInv, TypeOK
<1>3. CASE UNCHANGED <<fencing, token>>
  BY <1>1, <1>2, <1>3 DEF IInv, TypeOK, TokensGiven
<1>4. ASSUME NEW id \in Identifier, fencing' = fencing + 1,
             token' = [token EXCEPT ![id] = fencing + 1]
      PROVE  IInv'
  <2>1. fencing' \in Nat /\ token' \in [Identifier -> Nat]
    BY <1>2, <1>4
  <2>2. TokensGiven'
    BY <1>2, <1>4 DEF TokensGiven
  <2>3. QED
    BY <1>1, <2>1, <2>2 DEF IInv, TypeOK
<1>5. QED
  BY <1>3, <1>4, NextTokens

\* The invariant holds of every state of the server.
THEOREM ServerInvariant == Spec => []IInv
<1>1. Init => IInv
  BY InitIInv
<1>2. IInv /\ [Next]_vars => IInv'
  BY NextIInv
<1>3. QED
  BY <1>1, <1>2, PTL DEF Spec

\* The variables keep their types: the scores and the TTL stay numbers, and the
\* sorted set stays finite.
THEOREM TypeCorrect == Spec => []TypeOK
<1>1. IInv => TypeOK
  BY DEF IInv
<1>2. QED
  BY <1>1, ServerInvariant, PTL

\* Mutual exclusion on the server: "there can never be more than limit owners at
\* once", whatever the lock timeouts and the clocks of the clients are.
THEOREM LimitRespected == Spec => []OwnersWithinLimit
<1>1. IInv => OwnersWithinLimit
  BY DEF IInv
<1>2. QED
  BY <1>1, ServerInvariant, PTL

\* Fencing tokens increase: a granted token is above all tokens granted before.
THEOREM TokensIncrease == Spec => FencingMonotonic
<1>1. IInv /\ [Next]_vars =>
          [\A i \in Identifier : token'[i] # token[i] =>
              \A j \in Identifier : token'[i] > token[j]]_vars
  <2> SUFFICES ASSUME IInv, [Next]_vars, NEW i \in Identifier,
                      token'[i] # token[i], NEW j \in Identifier
               PROVE  token'[i] > token[j]
    OBVIOUS
  <2>1. fencing \in Nat /\ token \in [Identifier -> Nat] /\ TokensGiven
    BY DEF IInv, TypeOK
  <2>2. PICK id \in Identifier : token' = [token EXCEPT ![id] = fencing + 1]
    BY NextTokens
  <2>3. token'[i] = fencing + 1
    BY <2>1, <2>2
  <2>4. token[j] <= fencing /\ token[j] \in Nat
    BY <2>1 DEF TokensGiven
  <2>5. QED
    BY <2>1, <2>3, <2>4
<1>2. QED
  BY <1>1, ServerInvariant, PTL DEF Spec, FencingMonotonic

-----------------------------------------------------------------------------
(* The TTL of the owners key.                                               *)

\* What the margin of _LUA_BUMP_OWNERS_TTL is for: no two clocks differ by more than
\* any lock_timeout.  With the server's clock they do not differ at all.
ClocksAgree == \A id \in Identifier : \A s, t \in Skew : s - t <= LockTimeout[id]

KeyInv == IInv /\ KeyOutlivesMembers

\* A script that removes owners, or none, leaves the TTL of those that stay.
LEMMA KeepTTLKeepsKey ==
    ASSUME StoreOK, KeyOutlivesMembers, NEW ids, owners' = Without(owners, ids), KeepTTL
    PROVE  KeyOutlivesMembers'
<1>1. \A i \in DOMAIN owners' : i \in DOMAIN owners /\ owners'[i] = owners[i]
  BY DEF Without
<1>2. DOMAIN owners' # {} => ownersExp' = ownersExp
  BY DEF KeepTTL
<1>3. QED
  BY <1>1, <1>2 DEF KeyOutlivesMembers

\* A script that grants or renews a lease sets the TTL a lock_timeout beyond the
\* last of the leases, on its own clock.
LEMMA BumpKeepsKey ==
    ASSUME ClocksAgree, now \in Nat, NEW id \in Identifier, NEW n \in ScriptTimes,
           owners' \in [DOMAIN owners' -> Int], BumpOwnersTTL(id, n)
    PROVE  KeyOutlivesMembers'
<1>1. PICK s \in Skew : n = now + s
  BY DEF ScriptTimes
<1>2. PICK top \in {owners'[i] : i \in DOMAIN owners'} :
          /\ \A i \in DOMAIN owners' : owners'[i] <= top
          /\ ownersExp' = now + (top - n + LockTimeout[id])
  BY DEF BumpOwnersTTL
<1>3. top \in Int /\ s \in Int /\ LockTimeout[id] \in Int
  BY <1>2, SkewAssumption, TimeoutsAreNaturals
<1>4. ownersExp' = top - s + LockTimeout[id]
  BY <1>1, <1>2, <1>3
<1>5. SUFFICES ASSUME NEW i \in DOMAIN owners', NEW t \in Skew
               PROVE  owners'[i] - t <= ownersExp'
  BY DEF KeyOutlivesMembers
<1>6. owners'[i] <= top /\ owners'[i] \in Int /\ t \in Int
  BY <1>2, SkewAssumption
<1>7. s - t <= LockTimeout[id]
  BY DEF ClocksAgree
<1>8. QED
  BY <1>3, <1>4, <1>6, <1>7

LEMMA AcquireKeepsKey ==
    ASSUME ClocksAgree, StoreOK, KeyOutlivesMembers, NEW id \in Identifier,
           NEW n \in ScriptTimes, AcquireScript(id, n)
    PROVE  KeyOutlivesMembers'
<1>1. n \in Int /\ now \in Nat
  BY TimesAreIntegers DEF StoreOK
<1>2. CASE Admits(id, n)
  <2>1. owners' = With(Unexpired(n), id, n + LockTimeout[id]) /\ BumpOwnersTTL(id, n)
    BY <1>2 DEF AcquireScript
  <2>2. Unexpired(n) \in [DOMAIN Unexpired(n) -> Int] /\ n + LockTimeout[id] \in Int
    BY <1>1, UnexpiredShrinks, TimeoutsAreNaturals
  <2>3. owners' \in [DOMAIN owners' -> Int]
    BY <2>1, <2>2, WithAdds
  <2>4. QED
    BY <1>1, <2>1, <2>3, BumpKeepsKey
<1>3. CASE ~Admits(id, n)
  BY <1>3, KeepTTLKeepsKey DEF AcquireScript, Unexpired
<1>4. QED
  BY <1>2, <1>3

LEMMA RefreshKeepsKey ==
    ASSUME ClocksAgree, StoreOK, KeyOutlivesMembers, NEW id \in Identifier,
           NEW n \in ScriptTimes, RefreshScript(id, n)
    PROVE  KeyOutlivesMembers'
<1>1. n \in Int /\ now \in Nat /\ owners \in [DOMAIN owners -> Int]
  BY TimesAreIntegers DEF StoreOK
<1>2. CASE Renewable(id, n)
  <2>1. owners' = With(owners, id, n + LockTimeout[id]) /\ BumpOwnersTTL(id, n)
    BY <1>2 DEF RefreshScript
  <2>2. n + LockTimeout[id] \in Int
    BY <1>1, TimeoutsAreNaturals
  <2>3. owners' \in [DOMAIN owners' -> Int]
    BY <1>1, <2>1, <2>2, WithAdds
  <2>4. QED
    BY <1>1, <2>1, <2>3, BumpKeepsKey
<1>3. CASE ~Renewable(id, n)
  BY <1>3, KeepTTLKeepsKey DEF RefreshScript
<1>4. QED
  BY <1>2, <1>3

LEMMA NextKey == ASSUME ClocksAgree PROVE KeyInv /\ [Next]_vars => KeyInv'
<1> SUFFICES ASSUME KeyInv, [Next]_vars PROVE KeyInv'
  OBVIOUS
<1>1. IInv' /\ StoreOK
  BY NextIInv DEF KeyInv, IInv, TypeOK
<1>2. SUFFICES KeyOutlivesMembers'
  BY <1>1 DEF KeyInv
<1> USE DEF KeyInv
<1>3. ASSUME NEW id \in Identifier, NEW n \in ScriptTimes, Acquire(id, n)
      PROVE  KeyOutlivesMembers'
  BY <1>1, <1>3, AcquireKeepsKey DEF Acquire
<1>4. ASSUME NEW id \in Identifier, NEW n \in ScriptTimes, Refresh(id, n)
      PROVE  KeyOutlivesMembers'
  BY <1>1, <1>4, RefreshKeepsKey DEF Refresh
<1>5. ASSUME NEW id \in Identifier, Release(id)
      PROVE  KeyOutlivesMembers'
  BY <1>1, <1>5, KeepTTLKeepsKey DEF Release, ReleaseScript
<1>6. ASSUME NEW n \in ScriptTimes, Cleanup(n)
      PROVE  KeyOutlivesMembers'
  BY <1>1, <1>6, KeepTTLKeepsKey DEF Cleanup, CleanupScript, Unexpired
<1>7. CASE Tick
  BY <1>7 DEF Tick, Clock, KeyOutlivesMembers, NoOwners
<1>8. CASE UNCHANGED vars
  BY <1>8 DEF vars, store, KeyOutlivesMembers
<1>9. QED
  BY <1>3, <1>4, <1>5, <1>6, <1>7, <1>8 DEF Next

LEMMA KeyInvariant == ASSUME ClocksAgree PROVE Spec => []KeyInv
<1>1. Init => KeyInv
  BY InitIInv DEF Init, StoreInit, NoOwners, KeyInv, KeyOutlivesMembers
<1>2. KeyInv /\ [Next]_vars => KeyInv'
  BY NextKey
<1>3. QED
  BY <1>1, <1>2, PTL DEF Spec

\* The TTL of the owners key takes no owner whose lease has not ended, on any of the
\* clocks: one lock_timeout absorbs the differences, as the script's comment says,
\* as long as no two clocks differ by more.
THEOREM KeyStays == ASSUME ClocksAgree PROVE Spec => []KeyOutlivesMembers
<1>1. KeyInv => KeyOutlivesMembers
  BY DEF KeyInv
<1>2. QED
  BY <1>1, KeyInvariant, PTL

-----------------------------------------------------------------------------
(* With the server's clock: leases are honoured, and the scripts implement  *)
(* the semaphore of leases.                                                 *)

ServerTime == Skew = {0}

LEMMA ServerTimeAgrees ==
    ASSUME ServerTime
    PROVE  ClocksAgree /\ ScriptTimes = {now + 0}
BY TimeoutsAreNaturals DEF ServerTime, ClocksAgree, ScriptTimes

\* No lease outlives the key, on the one clock there is.
LEMMA KeyCovers ==
    ASSUME ServerTime, KeyInv, NEW i \in DOMAIN owners
    PROVE  /\ owners[i] <= ownersExp /\ i \in Identifier
           /\ owners[i] \in Int /\ ownersExp \in Int /\ now \in Nat
<1>1. /\ owners[i] - 0 <= ownersExp /\ owners[i] \in Int /\ ownersExp \in Int
      /\ now \in Nat /\ i \in Identifier
  BY DEF KeyInv, KeyOutlivesMembers, ServerTime, IInv, TypeOK, StoreOK
<1>2. QED
  BY <1>1

\* An owner leaves by its own release or with its lease: not by the scripts of the
\* others, whose lock_timeouts may be shorter, nor by the TTL of the key.
THEOREM LeasesHonoured == ASSUME ServerTime PROVE Spec => LeaseHonoured
<1> DEFINE Honours == [\A i \in DOMAIN owners :
                          i \notin DOMAIN owners' /\ owners[i] > now' => Release(i)]_vars
<1>1. KeyInv /\ [Next]_vars => Honours
  <2> SUFFICES ASSUME KeyInv, [Next]_vars, NEW i \in DOMAIN owners,
                      i \notin DOMAIN owners', owners[i] > now'
               PROVE  Release(i)
    OBVIOUS
  <2>1. /\ owners[i] <= ownersExp /\ i \in Identifier
        /\ owners[i] \in Int /\ ownersExp \in Int /\ now \in Nat
    BY KeyCovers
  <2>2. ASSUME NEW id \in Identifier, NEW n \in ScriptTimes, Acquire(id, n)
        PROVE  FALSE
    <3>1. n = now /\ now' = now
      BY <2>1, <2>2, ServerTimeAgrees DEF Acquire, AcquireScript
    <3>2. DOMAIN Unexpired(n) = DOMAIN owners \ {j \in DOMAIN owners : owners[j] <= n}
      BY DEF Unexpired, Without
    <3>3. i \in DOMAIN Unexpired(n)
      BY <2>1, <3>1, <3>2
    <3>4. DOMAIN Unexpired(n) \subseteq DOMAIN owners'
      BY <2>2 DEF Acquire, AcquireScript, With
    <3>5. QED
      BY <3>3, <3>4
  <2>3. ASSUME NEW id \in Identifier, NEW n \in ScriptTimes, Refresh(id, n)
        PROVE  FALSE
    <3>1. n = now /\ now' = now
      BY <2>1, <2>3, ServerTimeAgrees DEF Refresh, RefreshScript
    <3>2. CASE Renewable(id, n)
      BY <2>3, <3>2 DEF Refresh, RefreshScript, With
    <3>3. CASE ~Renewable(id, n)
      <4>1. DOMAIN owners' = DOMAIN owners \ {id}
        BY <2>3, <3>3 DEF Refresh, RefreshScript, Without
      <4>2. i = id
        BY <4>1
      <4>3. QED
        BY <2>1, <3>1, <3>3, <4>2 DEF Renewable
    <3>4. QED
      BY <3>2, <3>3
  <2>4. ASSUME NEW id \in Identifier, Release(id)
        PROVE  Release(i)
    <3>1. DOMAIN owners' = DOMAIN owners \ {id}
      BY <2>4 DEF Release, ReleaseScript, Without
    <3>2. i = id
      BY <3>1
    <3>3. QED
      BY <2>4, <3>2
  <2>5. ASSUME NEW n \in ScriptTimes, Cleanup(n)
        PROVE  FALSE
    <3>1. n = now /\ now' = now
      BY <2>1, <2>5, ServerTimeAgrees DEF Cleanup, CleanupScript
    <3>2. DOMAIN owners' = DOMAIN owners \ {j \in DOMAIN owners : owners[j] <= n}
      BY <2>5 DEF Cleanup, CleanupScript, Unexpired, Without
    <3>3. QED
      BY <2>1, <3>1, <3>2
  <2>6. CASE Tick
    BY <2>1, <2>6 DEF Tick, Clock
  <2>7. CASE UNCHANGED vars
    BY <2>7 DEF vars, store
  <2>8. QED
    BY <2>2, <2>3, <2>4, <2>5, <2>6, <2>7 DEF Next
<1>2. QED
  BY <1>1, ServerTimeAgrees, KeyInvariant, PTL DEF Spec, LeaseHonoured

\* The refinement mapping of ImplementsLeases, at one identifier.
Lease(i) == IF i \in DOMAIN owners /\ owners[i] >= now THEN owners[i] ELSE -1
Leases == [i \in Identifier |-> Lease(i)]

\* The instance counts as this module does.
LEMMA SameCardinality == \A S : Abstract!Cardinality(S) = Cardinality(S)
BY DEF Abstract!Cardinality, Cardinality

\* An identifier that counts against the limit is an owner with time left.
LEMMA LiveOwners ==
    ASSUME StoreOK
    PROVE  Abstract!Live = {i \in DOMAIN owners : owners[i] > now}
<1>1. now \in Nat /\ DOMAIN owners \subseteq Identifier /\ owners \in [DOMAIN owners -> Int]
  BY DEF StoreOK
<1>2. QED
  BY <1>1 DEF Abstract!Live

\* With id set aside there is room: at most Limit owners, id one of them or not.
LEMMA RoomBeside ==
    ASSUME StoreInv, NEW id,
           \/ id \in DOMAIN owners
           \/ Cardinality({i \in DOMAIN owners : owners[i] > now}) < Limit
    PROVE  Abstract!Cardinality(Abstract!Live \ {id}) < Limit
<1> DEFINE live == {i \in DOMAIN owners : owners[i] > now}
<1>1. Abstract!Live = live
  BY LiveOwners DEF StoreInv
<1>2. /\ IsFiniteSet(DOMAIN owners) /\ Cardinality(DOMAIN owners) <= Limit
      /\ Cardinality(DOMAIN owners) \in Nat /\ Limit \in Nat
  BY FS_CardinalityType, LimitAssumption DEF StoreInv, StoreOK, OwnersWithinLimit
<1>3. IsFiniteSet(live)
  BY <1>2, FS_Subset
<1>4. CASE id \in DOMAIN owners
  <2>1. /\ IsFiniteSet(DOMAIN owners \ {id})
        /\ Cardinality(DOMAIN owners \ {id}) = Cardinality(DOMAIN owners) - 1
    BY <1>2, <1>4, FS_RemoveElement
  <2>2. /\ Cardinality(live \ {id}) <= Cardinality(DOMAIN owners \ {id})
        /\ Cardinality(live \ {id}) \in Nat
    BY <2>1, FS_Subset, FS_CardinalityType
  <2>3. QED
    BY <1>1, <1>2, <2>1, <2>2, SameCardinality
<1>5. CASE Cardinality(live) < Limit
  <2>1. /\ Cardinality(live \ {id}) <= Cardinality(live)
        /\ Cardinality(live \ {id}) \in Nat /\ Cardinality(live) \in Nat
    BY <1>3, FS_Subset, FS_CardinalityType
  <2>2. QED
    BY <1>1, <1>2, <1>5, <2>1, SameCardinality
<1>6. QED
  BY <1>4, <1>5

\* Who is left after the eviction that the scripts begin with.
LEMMA EvictionSettles ==
    ASSUME StoreOK
    PROVE  /\ DOMAIN Unexpired(now) = {i \in DOMAIN owners : owners[i] > now}
           /\ \A i \in DOMAIN Unexpired(now) : Unexpired(now)[i] = owners[i]
           /\ \A i \in Identifier :
                  Abstract!OnlyLive[i] = IF i \in DOMAIN Unexpired(now) THEN owners[i] ELSE -1
<1>1. now \in Nat /\ DOMAIN owners \subseteq Identifier /\ owners \in [DOMAIN owners -> Int]
  BY DEF StoreOK
<1>2. /\ DOMAIN Unexpired(now) = {i \in DOMAIN owners : owners[i] > now}
      /\ \A i \in DOMAIN Unexpired(now) : Unexpired(now)[i] = owners[i]
  BY <1>1 DEF Unexpired, Without
<1>3. QED
  BY <1>1, <1>2, LiveOwners DEF Abstract!OnlyLive, Abstract!NoLease

\* A script that only evicts settles the leases.
LEMMA EvictingSettles ==
    ASSUME StoreOK, owners' = Unexpired(now), now' = now, UNCHANGED <<fencing, token>>
    PROVE  Abstract!Settle
<1>1. Leases' = Abstract!OnlyLive
  <2>1. ASSUME NEW i \in Identifier PROVE Lease(i)' = Abstract!OnlyLive[i]
    <3>1. i \in DOMAIN owners' <=> i \in DOMAIN owners /\ owners[i] > now
      BY EvictionSettles
    <3>2. i \in DOMAIN owners' => owners'[i] = owners[i]
      BY EvictionSettles
    <3>3. Abstract!OnlyLive[i] = IF i \in DOMAIN owners' THEN owners[i] ELSE -1
      BY EvictionSettles
    <3>4. i \in DOMAIN owners => owners[i] \in Int
      BY DEF StoreOK
    <3>5. now \in Nat
      BY DEF StoreOK
    <3>6. QED
      BY <3>1, <3>2, <3>3, <3>4, <3>5 DEF Lease
  <2>2. QED
    BY <2>1 DEF Leases, Abstract!OnlyLive
<1>2. QED
  BY <1>1 DEF Abstract!Settle, Leases, Lease

\* ACQUIRE grants a slot, or settles the leases.
LEMMA AcquireRefines ==
    ASSUME StoreInv, NEW id \in Identifier, Acquire(id, now)
    PROVE  Abstract!Grant(id) \/ Abstract!Settle
<1>1. StoreOK /\ now \in Nat /\ now' = now
  BY DEF StoreInv, StoreOK, Acquire, AcquireScript
<1>2. CASE Admits(id, now)
  <2>1. Abstract!Cardinality(Abstract!Live \ {id}) < Limit
    BY <1>1, <1>2, RoomBeside, EvictionSettles DEF Admits
  <2>2. /\ owners' = With(Unexpired(now), id, now + LockTimeout[id])
        /\ fencing' = fencing + 1 /\ token' = [token EXCEPT ![id] = fencing + 1]
    BY <1>2 DEF Acquire, AcquireScript
  <2>3. \A i \in Identifier :
            Lease(i)' = [Abstract!OnlyLive EXCEPT ![id] = now + LockTimeout[id]][i]
    <3>1. /\ DOMAIN owners' = DOMAIN Unexpired(now) \cup {id}
          /\ \A i \in DOMAIN owners' :
                 owners'[i] = IF i = id THEN now + LockTimeout[id] ELSE owners[i]
      BY <1>1, <2>2, EvictionSettles DEF With
    <3>2. /\ DOMAIN Abstract!OnlyLive = Identifier
          /\ LockTimeout[id] \in Nat
          /\ \A i \in DOMAIN owners : owners[i] \in Int
      BY <1>1, TimeoutsAreNaturals DEF Abstract!OnlyLive, StoreOK
    <3>3. TAKE i \in Identifier
    <3>4. CASE i = id
      <4>1. owners'[id] = now + LockTimeout[id] /\ id \in DOMAIN owners'
        BY <3>1
      <4>2. Lease(id)' = now + LockTimeout[id]
        BY <1>1, <3>2, <4>1 DEF Lease
      <4>3. QED
        BY <3>2, <3>4, <4>2
    <3>5. CASE i # id
      <4>1. i \in DOMAIN Unexpired(now) => i \in DOMAIN owners /\ owners[i] > now
        BY <1>1, EvictionSettles
      <4>2. Lease(i)' = IF i \in DOMAIN Unexpired(now) THEN owners[i] ELSE -1
        BY <1>1, <3>1, <3>2, <3>5, <4>1 DEF Lease
      <4>3. Abstract!OnlyLive[i] = IF i \in DOMAIN Unexpired(now) THEN owners[i] ELSE -1
        BY <1>1, EvictionSettles
      <4>4. QED
        BY <3>5, <4>2, <4>3
    <3>6. QED
      BY <3>4, <3>5
  <2>4. Leases' = [Abstract!OnlyLive EXCEPT ![id] = now + LockTimeout[id]]
    BY <2>3 DEF Leases, Abstract!OnlyLive
  <2>5. QED
    BY <1>1, <2>1, <2>2, <2>4, Zenon DEF Abstract!Grant, Leases, Lease
<1>3. CASE ~Admits(id, now)
  BY <1>1, <1>3, EvictingSettles DEF Acquire, AcquireScript
<1>4. QED
  BY <1>2, <1>3

\* RELEASE, and a REFRESH that finds no lease, end the lease if there is one.
LEMMA RemovalRefines ==
    ASSUME StoreOK, NEW id \in Identifier, owners' = Without(owners, {id}), now' = now,
           UNCHANGED <<fencing, token>>
    PROVE  Abstract!Release(id)
<1>1. Leases' = [Leases EXCEPT ![id] = -1]
  BY DEF Leases, Lease, Without
<1>2. QED
  BY <1>1 DEF Abstract!Release, Abstract!NoLease, Leases, Lease

LEMMA RefreshRefines ==
    ASSUME StoreInv, NEW id \in Identifier, Refresh(id, now)
    PROVE  Abstract!Renew(id) \/ Abstract!Release(id)
<1>1. /\ StoreOK /\ now \in Nat /\ now' = now /\ UNCHANGED <<fencing, token>>
      /\ LockTimeout[id] \in Nat
  BY TimeoutsAreNaturals DEF StoreInv, StoreOK, Refresh, RefreshScript
<1>2. CASE Renewable(id, now)
  <2>1. owners' = With(owners, id, now + LockTimeout[id])
    BY <1>2 DEF Refresh, RefreshScript
  <2>2. id \in DOMAIN owners /\ owners[id] >= now
    BY <1>2 DEF Renewable
  <2>3. Abstract!Cardinality(Abstract!Live \ {id}) < Limit
    BY <2>2, RoomBeside
  <2>4. Leases' = [Leases EXCEPT ![id] = now + LockTimeout[id]]
    <3>1. /\ DOMAIN owners' = DOMAIN owners
          /\ owners'[id] = now + LockTimeout[id]
          /\ \A i \in DOMAIN owners \ {id} : owners'[i] = owners[i]
      BY <2>1, <2>2 DEF With
    <3>2. Lease(id)' = now + LockTimeout[id]
      BY <1>1, <2>2, <3>1 DEF Lease
    <3>3. \A i \in Identifier \ {id} : Lease(i)' = Lease(i)
      BY <1>1, <3>1 DEF Lease
    <3>4. \A i \in Identifier :
              Lease(i)' = IF i = id THEN now + LockTimeout[id] ELSE Lease(i)
      BY <3>2, <3>3
    <3>5. QED
      BY <3>4 DEF Leases
  <2>5. Leases[id] >= now
    BY <1>1, <2>2 DEF Leases, Lease
  <2>6. QED
    BY <1>1, <2>3, <2>4, <2>5 DEF Abstract!Renew, Leases, Lease
<1>3. CASE ~Renewable(id, now)
  BY <1>1, <1>3, RemovalRefines DEF Refresh, RefreshScript
<1>4. QED
  BY <1>2, <1>3

\* The clock ends the leases it passes; a key whose TTL is over holds no other.
LEMMA TickRefines ==
    ASSUME ServerTime, KeyInv, Tick
    PROVE  Abstract!Tick
<1>1. now \in Nat /\ now' = now + 1 /\ UNCHANGED <<fencing, token>>
  BY DEF Tick, Clock, KeyInv, IInv, TypeOK, StoreOK
<1>2. \A i \in Identifier : Lease(i)' = IF Lease(i) >= now + 1 THEN Lease(i) ELSE -1
  <2>1. TAKE i \in Identifier
  <2>2. i \in DOMAIN owners => owners[i] <= ownersExp /\ owners[i] \in Int /\ ownersExp \in Int
    BY KeyCovers
  <2>3. CASE owners' = owners
    BY <1>1, <2>2, <2>3 DEF Lease
  <2>4. CASE owners' = NoOwners /\ now' > ownersExp
    BY <1>1, <2>2, <2>4 DEF Lease, NoOwners
  <2>5. QED
    BY <2>3, <2>4 DEF Tick, Clock
<1>3. QED
  BY <1>1, <1>2 DEF Abstract!Tick, Abstract!NoLease, Lease

\* The scripts of the semaphore implement LeaseSemaphore: late eviction, the TTL of
\* the key and a renewal in the last instant are not to be told from leases that
\* end on time.
THEOREM LeasesImplemented == ASSUME ServerTime PROVE Spec => ImplementsLeases
<1>1. Init => Abstract!Init
  BY DEF Init, StoreInit, NoOwners, Abstract!Init, Abstract!NoLease
<1>2. KeyInv /\ [Next]_vars => [Abstract!Next]_(Abstract!vars)
  <2> SUFFICES ASSUME KeyInv, [Next]_vars
               PROVE  Abstract!Next \/ UNCHANGED Abstract!vars
    OBVIOUS
  <2>1. StoreInv /\ StoreOK /\ ScriptTimes = {now}
    BY ServerTimeAgrees DEF KeyInv, IInv, TypeOK, StoreInv, StoreOK
  <2>2. ASSUME NEW id \in Identifier, NEW n \in ScriptTimes, Acquire(id, n)
        PROVE  Abstract!Next
    BY <2>1, <2>2, AcquireRefines DEF Abstract!Next
  <2>3. ASSUME NEW id \in Identifier, NEW n \in ScriptTimes, Refresh(id, n)
        PROVE  Abstract!Next
    BY <2>1, <2>3, RefreshRefines DEF Abstract!Next
  <2>4. ASSUME NEW id \in Identifier, Release(id)
        PROVE  Abstract!Next
    BY <2>1, <2>4, RemovalRefines DEF Release, ReleaseScript, Abstract!Next
  <2>5. ASSUME NEW n \in ScriptTimes, Cleanup(n)
        PROVE  Abstract!Next
    BY <2>1, <2>5, EvictingSettles DEF Cleanup, CleanupScript, Abstract!Next
  <2>6. CASE Tick
    BY <2>6, TickRefines DEF Abstract!Next
  <2>7. CASE UNCHANGED vars
    BY <2>7 DEF vars, store, Abstract!vars
  <2>8. QED
    BY <2>2, <2>3, <2>4, <2>5, <2>6, <2>7 DEF Next
<1>3. QED
  BY <1>1, <1>2, ServerTimeAgrees, KeyInvariant, PTL DEF Spec, ImplementsLeases, Abstract!Spec
=============================================================================
