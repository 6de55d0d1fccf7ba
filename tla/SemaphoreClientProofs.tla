-------------------------- MODULE SemaphoreClientProofs --------------------------
(***************************************************************************)
(* What holds of SemaphoreClient for any number of instances, identifiers, *)
(* heartbeats and faults: its types, that no entry of the server is left   *)
(* without an owner, that the loss of a lock is noticed once and for real, *)
(* and how late.                                                           *)
(***************************************************************************)
EXTENDS SemaphoreClient, FiniteSetTheorems, TLAPS

\* A lost lock has to be released, and a held one is not acquired again.
Careful == Strict /\ Forbid

\* A heartbeat that is refreshing when it is told to stop is back before its owner
\* gives up waiting for it.
StopsInTime == Async \/ CallTimeout < 2 * RefreshInterval

\* The next refresh is due before the lease that the last one gave can have ended.
RefreshesInTime == RefreshInterval + CallTimeout <= LockTimeout

Ops == {"acquire", "release", "refresh"}
CallerSteps == {"idle", "acquire", "blocked", "release", "refresh", "stop_release",
                "stop_lost", "crashed"}
BeatSteps == {"unborn", "wait", "refreshing", "done"}
Stopping == {"stop_release", "stop_lost"}

Calls == [op : Ops, id : Own, executed : BOOLEAN, ok : BOOLEAN]

\* The identifier of an instance, and its current heartbeat.
Mine(i) == <<i, identifier[i]>>
Beat(i) == <<i, heartbeat[i]>>

Typed ==
    /\ TypeOK
    /\ pc \in [Thread -> CallerSteps \cup BeatSteps]
    /\ call \in [Thread -> Calls \cup {NoCall}]
    /\ timer \in [Thread -> Nat]

\* A thread is in a call exactly at the steps that make one, and no longer than the
\* call may take; a caller asks for its own identifier.
CallOK(t) ==
    /\ call[t] # NoCall <=> pc[t] \in Ops \cup {"refreshing"}
    /\ call[t] # NoCall =>
           /\ timer[t] - CallTimeout \in 0 .. now
           /\ now <= timer[t]
           /\ pc[t] \in Ops => call[t].op = pc[t] /\ call[t].id = Mine(t[1])
           /\ pc[t] = "refreshing" => call[t].op = "refresh"

\* What an instance keeps of its acquisition belongs together: the identifier and
\* the heartbeat that was started for it.
AcquisitionOK(i) ==
    /\ pc[Caller(i)] \notin {"idle", "crashed"} => identifier[i] # 0
    /\ pc[Caller(i)] = "release" => heartbeat[i] = 0
    /\ pc[Caller(i)] \in Stopping => heartbeat[i] # 0 /\ stopped[Beat(i)]
    /\ heartbeat[i] # 0 =>
           /\ identifier[i] # 0
           /\ beatsFor[Beat(i)] = identifier[i]
           /\ pc[Beat(i)] # "unborn"
           /\ pc[Beat(i)] = "refreshing" => call[Beat(i)].id = Mine(i)

\* The server has an entry for somebody who does not use it: an acquire that came late.
Late(id) == [op |-> "acquire", id |-> id, done |-> TRUE] \in strays

\* No entry is left behind by a release that has been answered.
Slots ==
    /\ SlotHasOwner
    /\ \A i \in Instance :
           pc[Caller(i)] = "release" /\ call[Caller(i)].executed =>
               Mine(i) \notin DOMAIN owners \/ Late(Mine(i))

IInv ==
    /\ Typed
    /\ \A t \in Thread : CallOK(t)
    /\ \A i \in Instance : AcquisitionOK(i)
    /\ \A h \in Heartbeat : pc[h] = "unborn" => ~stopped[h]
    /\ Slots

\* Who is careful acquires with nothing in hand.
CarefulOK(i) ==
    /\ lostEvent[i] <=> state[i] = "LOST"
    /\ Holds(i) /\ heartbeat[i] # 0 =>
           pc[Beat(i)] \in {"wait", "refreshing"} /\ ~stopped[Beat(i)]
    /\ pc[Caller(i)] \in {"acquire", "blocked"} => state[i] = "RELEASED"
    /\ state[i] = "RELEASED" => heartbeat[i] = 0

CarefulInv == IInv /\ \A i \in Instance : CarefulOK(i)

\* The only heartbeat of an instance that runs is its current one, and that one ends
\* before the wait for it does.
CurrentOK(h) ==
    pc[h] \in {"wait", "refreshing"} =>
        /\ h = Beat(h[1])
        /\ ~Async /\ pc[Caller(h[1])] \in Stopping =>
               /\ pc[h] = "wait" => now < timer[Caller(h[1])]
               /\ pc[h] = "refreshing" => timer[h] < timer[Caller(h[1])]

CurrentInv == IInv /\ \A h \in Heartbeat : CurrentOK(h)

\* The lease that an answer tells of is the one the server remembers.
Granted(t) ==
    Answered(t) /\ call[t].ok => lease[t[1]] >= (timer[t] - CallTimeout) + LockTimeout

\* The deadline of a heartbeat is one call late at most, and its next attempt begins
\* by the deadline.
DeadlineOK(i) ==
    /\ lease[i] <= now + LockTimeout
    /\ pc[Caller(i)] = "acquire" => Granted(Caller(i))
    /\ heartbeat[i] # 0 /\ pc[Beat(i)] \in {"wait", "refreshing"} =>
           /\ deadline[Beat(i)] <= lease[i] + CallTimeout
           /\ pc[Beat(i)] = "wait" =>
                  now <= timer[Beat(i)] /\ timer[Beat(i)] <= deadline[Beat(i)]
           /\ pc[Beat(i)] = "refreshing" =>
                  timer[Beat(i)] <= deadline[Beat(i)] + CallTimeout /\ Granted(Beat(i))

DeadlineInv == IInv /\ \A i \in Instance : DeadlineOK(i)

-----------------------------------------------------------------------------
(* The threads and the identifiers.                                          *)

LEMMA Constants ==
    /\ Limit \in Nat \ {0} /\ LockTimeout \in Nat \ {0} /\ RefreshInterval \in Nat \ {0}
    /\ RetryStep \in Nat \ {0} /\ CallTimeout \in Nat \ {0}
    /\ Strict \in BOOLEAN /\ Forbid \in BOOLEAN /\ Async \in BOOLEAN
    /\ MaxIdentifiers \in Nat /\ MaxHeartbeats \in Nat /\ MaxFaults \in Nat
BY LimitAssumption, TimingAssumption, ModeAssumption, BoundAssumption

LEMMA Threads ==
    /\ \A i \in Instance : Caller(i) \in Thread /\ Caller(i) \notin Heartbeat /\ Caller(i)[1] = i
    /\ \A h \in Heartbeat : /\ h \in Thread /\ h[1] \in Instance /\ h[2] \in 1 .. MaxHeartbeats
                            /\ h = <<h[1], h[2]>>
    /\ \A i \in Instance, k \in 1 .. MaxHeartbeats :
           <<i, k>> \in Heartbeat /\ <<i, k>>[1] = i /\ <<i, k>>[2] = k
    /\ \A t \in Thread : t[1] \in Instance /\ (t \in Heartbeat \/ t = Caller(t[1]))
<1>1. \A i \in Instance : Caller(i) \notin Heartbeat
  <2> SUFFICES ASSUME NEW i \in Instance, Caller(i) \in Heartbeat PROVE FALSE
    OBVIOUS
  <2>1. 0 \in 1 .. MaxHeartbeats
    BY DEF Caller, Heartbeat
  <2>2. QED
    BY <2>1, Constants
<1>2. QED
  BY <1>1 DEF Thread, Heartbeat, Caller

LEMMA Identifiers ==
    /\ \A i \in Instance, k \in 1 .. MaxIdentifiers : <<i, k>> \in Own
    /\ \A id \in Own : id[1] \in Instance /\ id[2] \in 1 .. MaxIdentifiers /\ id = <<id[1], id[2]>>
    /\ Own \subseteq Identifier /\ Rival \subseteq Identifier
BY DEF Own, Identifier

LEMMA NoCallIsNone == \A c \in Calls : c # NoCall
BY DEF Calls, NoCall, Ops

\* A step of one thread leaves the others where they are.
Only(t) ==
    \A u \in Thread : u # t => /\ pc'[u] = pc[u]
                              /\ call'[u] = call[u]
                              /\ timer'[u] = timer[u]

ThreadTypes ==
    /\ pc \in [Thread -> CallerSteps \cup BeatSteps]
    /\ call \in [Thread -> Calls \cup {NoCall}]
    /\ timer \in [Thread -> Nat]

LEMMA SendEffect ==
    ASSUME ThreadTypes, now \in Nat, NEW t \in Thread, NEW step \in CallerSteps \cup BeatSteps,
           NEW op \in Ops, NEW k \in 1 .. MaxIdentifiers, Send(t, step, op, k)
    PROVE  /\ ThreadTypes' /\ Only(t)
           /\ pc'[t] = step /\ timer'[t] = now + CallTimeout
           /\ call'[t] # NoCall /\ ~call'[t].executed
           /\ call'[t].op = op /\ call'[t].id = <<t[1], k>>
<1>1. [op |-> op, id |-> <<t[1], k>>, executed |-> FALSE, ok |-> FALSE] \in Calls
  BY Threads, Identifiers DEF Calls
<1>2. now + CallTimeout \in Nat
  BY Constants
<1>3. QED
  BY <1>1, <1>2, NoCallIsNone DEF Send, ThreadTypes, Only

LEMMA ReturnEffect ==
    ASSUME ThreadTypes, NEW t \in Thread, NEW step \in CallerSteps \cup BeatSteps,
           NEW wake \in Nat, Return(t, step, wake)
    PROVE  /\ ThreadTypes' /\ Only(t)
           /\ pc'[t] = step /\ timer'[t] = wake /\ call'[t] = NoCall
BY DEF Return, ThreadTypes, Only

-----------------------------------------------------------------------------
(* The scripts.                                                              *)

StoreOK == Server!StoreOK

\* The instance knows finite sets as this module does.
LEMMA SameFinite == \A S : Server!IsFiniteSet(S) <=> IsFiniteSet(S)
BY DEF Server!IsFiniteSet, IsFiniteSet

LEMMA StoreIs ==
    StoreOK <=> /\ now \in Nat /\ ownersExp \in Int
                /\ DOMAIN owners \subseteq Identifier /\ IsFiniteSet(DOMAIN owners)
                /\ owners \in [DOMAIN owners -> Int]
BY SameFinite DEF StoreOK, Server!StoreOK

LEMMA StoreIsNext ==
    StoreOK' <=> /\ now' \in Nat /\ ownersExp' \in Int
                 /\ DOMAIN owners' \subseteq Identifier /\ IsFiniteSet(DOMAIN owners')
                 /\ owners' \in [DOMAIN owners' -> Int]
BY SameFinite DEF StoreOK, Server!StoreOK

LEMMA WithoutIs ==
    ASSUME NEW zset, NEW ids, zset \in [DOMAIN zset -> Int]
    PROVE  /\ DOMAIN Server!Without(zset, ids) = DOMAIN zset \ ids
           /\ Server!Without(zset, ids) \in [DOMAIN Server!Without(zset, ids) -> Int]
BY DEF Server!Without

LEMMA WithIs ==
    ASSUME NEW zset, NEW id, NEW score \in Int, zset \in [DOMAIN zset -> Int]
    PROVE  /\ DOMAIN Server!With(zset, id, score) = DOMAIN zset \cup {id}
           /\ Server!With(zset, id, score) \in [DOMAIN Server!With(zset, id, score) -> Int]
BY DEF Server!With

LEMMA StoreTyped ==
    ASSUME StoreOK, NEW id \in Identifier, now' = now,
           DOMAIN owners' \subseteq DOMAIN owners \cup {id},
           owners' \in [DOMAIN owners' -> Int],
           Server!KeepTTL \/ Server!BumpOwnersTTL(id, now)
    PROVE  StoreOK'
<1>1. IsFiniteSet(DOMAIN owners \cup {id})
  BY FS_AddElement, StoreIs
<1>2. IsFiniteSet(DOMAIN owners')
  BY <1>1, FS_Subset
<1>3. ownersExp' \in Int
  <2>1. CASE Server!KeepTTL
    BY <2>1, StoreIs DEF Server!KeepTTL
  <2>2. CASE Server!BumpOwnersTTL(id, now)
    <3>1. PICK top \in {owners'[j] : j \in DOMAIN owners'} :
              ownersExp' = now + (top - now + LockTimeout)
      BY <2>2 DEF Server!BumpOwnersTTL
    <3>2. top \in Int
      BY <3>1
    <3>3. QED
      BY <3>1, <3>2, Constants, StoreIs
  <2>3. QED
    BY <2>1, <2>2
<1>4. QED
  BY <1>2, <1>3, StoreIs, StoreIsNext

\* ACQUIRE adds the identifier it is given, and no other.
LEMMA AcquireIs ==
    ASSUME StoreOK, NEW id \in Identifier, Server!AcquireScript(id, now)
    PROVE  StoreOK' /\ now' = now /\ DOMAIN owners' \subseteq DOMAIN owners \cup {id}
<1>1. now \in Nat /\ owners \in [DOMAIN owners -> Int] /\ now + LockTimeout \in Int
  BY Constants, StoreIs
<1>2. /\ DOMAIN Server!Unexpired(now) \subseteq DOMAIN owners
      /\ Server!Unexpired(now) \in [DOMAIN Server!Unexpired(now) -> Int]
  BY <1>1, WithoutIs DEF Server!Unexpired
<1>3. CASE Server!Admits(id, now)
  <2>1. /\ owners' = Server!With(Server!Unexpired(now), id, now + LockTimeout)
        /\ Server!BumpOwnersTTL(id, now) /\ now' = now
    BY <1>3 DEF Server!AcquireScript
  <2>2. /\ DOMAIN owners' = DOMAIN Server!Unexpired(now) \cup {id}
        /\ owners' \in [DOMAIN owners' -> Int]
    BY <1>1, <1>2, <2>1, WithIs
  <2>3. QED
    BY <1>2, <2>1, <2>2, StoreTyped
<1>4. CASE ~Server!Admits(id, now)
  <2>1. owners' = Server!Unexpired(now) /\ Server!KeepTTL /\ now' = now
    BY <1>4 DEF Server!AcquireScript
  <2>2. QED
    BY <1>2, <2>1, StoreTyped
<1>5. QED
  BY <1>3, <1>4

LEMMA ReleaseIs ==
    ASSUME StoreOK, NEW id \in Identifier, Server!ReleaseScript(id)
    PROVE  StoreOK' /\ now' = now /\ DOMAIN owners' = DOMAIN owners \ {id}
<1>1. owners \in [DOMAIN owners -> Int]
  BY StoreIs
<1>2. owners' = Server!Without(owners, {id}) /\ Server!KeepTTL /\ now' = now
  BY DEF Server!ReleaseScript
<1>3. DOMAIN owners' = DOMAIN owners \ {id} /\ owners' \in [DOMAIN owners' -> Int]
  BY <1>1, <1>2, WithoutIs
<1>4. QED
  BY <1>2, <1>3, StoreTyped

LEMMA RefreshIs ==
    ASSUME StoreOK, NEW id \in Identifier, Server!RefreshScript(id, now)
    PROVE  StoreOK' /\ now' = now /\ DOMAIN owners' \subseteq DOMAIN owners
<1>1. now \in Nat /\ owners \in [DOMAIN owners -> Int] /\ now + LockTimeout \in Int
  BY Constants, StoreIs
<1>2. CASE Server!Renewable(id, now)
  <2>1. /\ owners' = Server!With(owners, id, now + LockTimeout) /\ id \in DOMAIN owners
        /\ Server!BumpOwnersTTL(id, now) /\ now' = now
    BY <1>2 DEF Server!RefreshScript, Server!Renewable
  <2>2. /\ DOMAIN owners' = DOMAIN owners \cup {id}
        /\ owners' \in [DOMAIN owners' -> Int]
    BY <1>1, <2>1, WithIs
  <2>3. QED
    BY <2>1, <2>2, StoreTyped
<1>3. CASE ~Server!Renewable(id, now)
  <2>1. owners' = Server!Without(owners, {id}) /\ Server!KeepTTL /\ now' = now
    BY <1>3 DEF Server!RefreshScript
  <2>2. DOMAIN owners' \subseteq DOMAIN owners /\ owners' \in [DOMAIN owners' -> Int]
    BY <1>1, <2>1, WithoutIs
  <2>3. QED
    BY <2>1, <2>2, StoreTyped
<1>4. QED
  BY <1>2, <1>3

LEMMA ClockIs ==
    ASSUME StoreOK, Server!Clock
    PROVE  StoreOK' /\ now' = now + 1 /\ DOMAIN owners' \subseteq DOMAIN owners
<1>1. CASE DOMAIN owners # {} /\ now' > ownersExp
  <2>1. owners' = Server!NoOwners /\ ownersExp' = 0 /\ now' = now + 1
    BY <1>1 DEF Server!Clock
  <2>2. DOMAIN owners' = {} /\ owners' \in [DOMAIN owners' -> Int]
    BY <2>1 DEF Server!NoOwners
  <2>3. IsFiniteSet(DOMAIN owners')
    BY <2>2, FS_EmptySet
  <2>4. QED
    BY <2>1, <2>2, <2>3, StoreIs, StoreIsNext
<1>2. CASE ~(DOMAIN owners # {} /\ now' > ownersExp)
  BY <1>2, StoreIs, StoreIsNext DEF Server!Clock
<1>3. QED
  BY <1>1, <1>2

\* What executing a request does to the owners.
LEMMA ExecuteIs ==
    ASSUME StoreOK, NEW op \in Ops, NEW id \in Identifier, Execute(op, id)
    PROVE  /\ StoreOK' /\ now' = now
           /\ DOMAIN owners' \subseteq DOMAIN owners \cup {id}
           /\ op # "acquire" => DOMAIN owners' \subseteq DOMAIN owners
           /\ op = "release" => id \notin DOMAIN owners'
<1>1. CASE op = "acquire"
  BY <1>1, AcquireIs DEF Execute
<1>2. CASE op = "release"
  BY <1>2, ReleaseIs DEF Execute
<1>3. CASE op = "refresh"
  BY <1>3, RefreshIs DEF Execute
<1>4. QED
  BY <1>1, <1>2, <1>3 DEF Ops

-----------------------------------------------------------------------------
(* One step, in parts.                                                       *)

LEMMA TypesOf ==
    ASSUME Typed
    PROVE  /\ ThreadTypes /\ StoreOK /\ now \in Nat
           /\ \A i \in Instance : pc[Caller(i)] \in CallerSteps
           /\ \A h \in Heartbeat : pc[h] \in BeatSteps
           /\ \A i \in Instance : identifier[i] \in 0 .. MaxIdentifiers
           /\ \A i \in Instance : heartbeat[i] \in 0 .. MaxHeartbeats
           /\ \A i \in Instance : heartbeat[i] # 0 => Beat(i) \in Heartbeat /\ Beat(i)[1] = i
<1>1. ThreadTypes /\ StoreOK /\ now \in Nat
  BY StoreIs DEF Typed, TypeOK, ThreadTypes, StoreOK
<1>2. \A i \in Instance : identifier[i] \in 0 .. MaxIdentifiers /\ heartbeat[i] \in 0 .. MaxHeartbeats
  BY DEF Typed, TypeOK
<1>3. \A i \in Instance : heartbeat[i] # 0 => heartbeat[i] \in 1 .. MaxHeartbeats
  BY <1>2, Constants
<1>4. QED
  BY <1>1, <1>2, <1>3, Threads DEF Typed, TypeOK, CallerSteps, BeatSteps, Beat

\* Most steps are those of one thread.  What has to be shown of one is that its own call
\* and the acquisition of its instance stay in order.
LEMMA OneThread ==
    ASSUME IInv, Typed', UNCHANGED <<now, owners, beatsFor>>,
           NEW t \in Thread, Only(t),
           \A j \in Instance : j # t[1] => identifier'[j] = identifier[j] /\ heartbeat'[j] = heartbeat[j],
           t \in Heartbeat => identifier' = identifier,
           \A h \in Heartbeat : h[1] # t[1] => stopped'[h] = stopped[h],
           \A h \in Heartbeat : pc'[h] = "unborn" => ~stopped'[h],
           \A r \in strays : r.done => r \in strays',
           CallOK(t)', AcquisitionOK(t[1])',
           pc[t] = "crashed" => pc'[t] = "crashed",
           identifier'[t[1]] # identifier[t[1]] =>
               \A id \in DOMAIN owners \ Rival : id[1] = t[1] => Late(id) \/ ~Alive(t[1]),
           pc'[t] = "release" /\ call'[t].executed =>
               pc[t] = "release" /\ call[t].executed /\ identifier' = identifier
    PROVE  IInv'
<1>1. \A u \in Thread : CallOK(u)'
  <2> SUFFICES ASSUME NEW u \in Thread, u # t PROVE CallOK(u)'
    OBVIOUS
  <2>1. CallOK(u) /\ pc'[u] = pc[u] /\ call'[u] = call[u] /\ timer'[u] = timer[u] /\ now' = now
    BY DEF IInv, Only
  <2>2. pc[u] \in Ops => identifier'[u[1]] = identifier[u[1]]
    <3> SUFFICES ASSUME pc[u] \in Ops, u[1] = t[1], t = Caller(t[1]) PROVE FALSE
      BY Threads
    <3>1. u = Caller(u[1])
      BY Threads, TypesOf DEF IInv, BeatSteps, Ops
    <3>2. QED
      BY <3>1
  <2>3. QED
    BY <2>1, <2>2 DEF CallOK, Mine
<1>2. \A j \in Instance : AcquisitionOK(j)'
  <2> SUFFICES ASSUME NEW j \in Instance, j # t[1] PROVE AcquisitionOK(j)'
    OBVIOUS
  <2>1. AcquisitionOK(j) /\ identifier'[j] = identifier[j] /\ heartbeat'[j] = heartbeat[j]
    BY DEF IInv
  <2>2. pc'[Caller(j)] = pc[Caller(j)]
    BY Threads DEF Only
  <2>3. heartbeat[j] # 0 => /\ pc'[Beat(j)] = pc[Beat(j)] /\ call'[Beat(j)] = call[Beat(j)]
                            /\ stopped'[Beat(j)] = stopped[Beat(j)]
    BY Threads, TypesOf DEF IInv, Only
  <2>4. Beat(j)' = Beat(j) /\ Mine(j)' = Mine(j)
    BY <2>1 DEF Beat, Mine
  <2>5. QED
    BY <2>1, <2>2, <2>3, <2>4 DEF AcquisitionOK
<1>3. \A j \in Instance : ~Alive(j) => ~Alive(j)'
  BY Threads DEF Only, Alive
<1>4. \A id : Late(id) => Late(id)'
  BY DEF Late
<1>5. SlotHasOwner'
  <2> SUFFICES ASSUME NEW id \in DOMAIN owners \ Rival
               PROVE  identifier'[id[1]] = id[2] \/ ~Alive(id[1])' \/ Late(id)'
    BY DEF SlotHasOwner, Late
  <2>1. id[1] \in Instance
    BY TypesOf, StoreIs, Identifiers DEF IInv, Identifier
  <2>2. identifier[id[1]] = id[2] \/ ~Alive(id[1]) \/ Late(id)
    BY DEF IInv, Slots, SlotHasOwner, Late
  <2>3. QED
    BY <1>3, <1>4, <2>1, <2>2
<1>6. \A j \in Instance :
          pc'[Caller(j)] = "release" /\ call'[Caller(j)].executed =>
               Mine(j)' \notin DOMAIN owners' \/ Late(Mine(j))'
  <2> SUFFICES ASSUME NEW j \in Instance, pc'[Caller(j)] = "release", call'[Caller(j)].executed
               PROVE  Mine(j)' \notin DOMAIN owners \/ Late(Mine(j))'
    OBVIOUS
  <2>1. pc[Caller(j)] = "release" /\ call[Caller(j)].executed /\ identifier'[j] = identifier[j]
    <3>1. CASE Caller(j) = t
      BY <3>1
    <3>2. CASE Caller(j) # t
      <4>1. pc'[Caller(j)] = pc[Caller(j)] /\ call'[Caller(j)] = call[Caller(j)]
        BY <3>2, Threads DEF Only
      <4>2. j = t[1] => identifier' = identifier
        BY <3>2, Threads
      <4>3. QED
        BY <4>1, <4>2
    <3>3. QED
      BY <3>1, <3>2
  <2>2. Mine(j)' = Mine(j)
    BY <2>1 DEF Mine
  <2>3. Mine(j) \notin DOMAIN owners \/ Late(Mine(j))
    BY <2>1 DEF IInv, Slots
  <2>4. QED
    BY <1>4, <2>2, <2>3
<1>7. Slots'
  BY <1>5, <1>6 DEF Slots
<1>8. QED
  BY <1>1, <1>2, <1>7 DEF IInv

Requests == [op : Ops, id : Own, done : BOOLEAN]

LEMMA StaysTyped ==
    ASSUME Typed, NEW t \in Thread, Only(t), ThreadTypes', StoreOK',
           t \in Heartbeat => pc'[t] \in BeatSteps,
           t \notin Heartbeat => pc'[t] \in CallerSteps,
           state' \in [Instance -> {"RELEASED", "ACQUIRED", "LOST"}],
           identifier' \in [Instance -> 0 .. MaxIdentifiers],
           made' \in [Instance -> 0 .. MaxIdentifiers],
           heartbeat' \in [Instance -> 0 .. MaxHeartbeats],
           lostEvent' \in [Instance -> BOOLEAN],
           beatsFor' \in [Heartbeat -> 0 .. MaxIdentifiers],
           stopped' \in [Heartbeat -> BOOLEAN], deadline' \in [Heartbeat -> Nat],
           strays' \subseteq Requests, faults' \in 0 .. MaxFaults, lease' \in [Instance -> Nat],
           \A i \in Instance : identifier'[i] = 0 => state'[i] = "RELEASED"
    PROVE  Typed'
<1>1. \A i \in Instance : pc'[Caller(i)] \in CallerSteps
  BY Threads, TypesOf, SMTT(30) DEF Only
<1>2. \A h \in Heartbeat : pc'[h] \in BeatSteps
  BY Threads, TypesOf DEF Only
<1>3. \A u \in Thread : /\ timer'[u] \in Nat
                        /\ call'[u] = NoCall \/ [op |-> call'[u].op, id |-> call'[u].id] \in Request
  BY DEF ThreadTypes, Calls, Request, Ops
<1>4. TypeOK'
  BY <1>1, <1>2, <1>3 DEF TypeOK, CallerSteps, BeatSteps, StoreOK, Requests, Ops
<1>5. QED
  BY <1>4 DEF Typed, ThreadTypes

\* The types of what a step leaves alone.
LEMMA RestTyped ==
    ASSUME Typed
    PROVE  /\ state \in [Instance -> {"RELEASED", "ACQUIRED", "LOST"}]
           /\ identifier \in [Instance -> 0 .. MaxIdentifiers]
           /\ made \in [Instance -> 0 .. MaxIdentifiers]
           /\ heartbeat \in [Instance -> 0 .. MaxHeartbeats]
           /\ lostEvent \in [Instance -> BOOLEAN]
           /\ beatsFor \in [Heartbeat -> 0 .. MaxIdentifiers]
           /\ stopped \in [Heartbeat -> BOOLEAN] /\ deadline \in [Heartbeat -> Nat]
           /\ strays \subseteq Requests /\ faults \in 0 .. MaxFaults /\ lease \in [Instance -> Nat]
           /\ \A i \in Instance : identifier[i] = 0 => state[i] = "RELEASED"
BY DEF Typed, TypeOK, Requests, Ops

\* A step that leaves the server alone leaves it typed.
LEMMA ServerKept == ASSUME Typed, UNCHANGED server PROVE StoreOK' /\ now' = now /\ owners' = owners
BY TypesOf, StoreIs, StoreIsNext DEF server

LEMMA CallTyped ==
    ASSUME IInv, NEW t \in Thread, call[t] # NoCall
    PROVE  /\ call[t] \in Calls /\ timer[t] \in Nat /\ timer[t] - CallTimeout \in 0 .. now
           /\ now <= timer[t] /\ call[t].op \in Ops /\ call[t].id \in Own
BY TypesOf DEF IInv, CallOK, ThreadTypes, Calls

LEMMA AbandonKeeps ==
    ASSUME IInv, NEW ts, ts \subseteq Thread, Abandon(ts)
    PROVE  strays \subseteq strays' /\ strays' \subseteq Requests
<1>1. PICK sent \in SUBSET {t \in ts : Sent(t)} :
          strays' = strays \cup
                    {[op |-> call[t].op, id |-> call[t].id, done |-> FALSE] : t \in sent}
  BY DEF Abandon
<1>2. \A t \in sent : [op |-> call[t].op, id |-> call[t].id, done |-> FALSE] \in Requests
  BY CallTyped DEF Sent, Requests
<1>3. QED
  BY <1>1, <1>2, RestTyped DEF IInv

LEMMA LostKeeps ==
    ASSUME Typed, NEW i \in Instance, OnLost(i) \/ UNCHANGED <<state, lostEvent>>
    PROVE  /\ state' \in [Instance -> {"RELEASED", "ACQUIRED", "LOST"}]
           /\ lostEvent' \in [Instance -> BOOLEAN]
           /\ \A j \in Instance : identifier[j] = 0 => state'[j] = "RELEASED"
BY RestTyped DEF OnLost

\* A thread that waits or has ended has no call to be in order.
LEMMA NoCallOK ==
    ASSUME NEW t, call'[t] = NoCall, pc'[t] \notin Ops \cup {"refreshing"}
    PROVE  CallOK(t)'
BY DEF CallOK

\* A heartbeat leaves the acquisition as it is, unless it refreshes it.
LEMMA OneBeat ==
    ASSUME IInv, Typed', NEW h \in Heartbeat, Only(h),
           UNCHANGED <<now, owners, identifier, heartbeat, beatsFor, stopped>>,
           pc'[h] \in {"wait", "refreshing", "done"},
           pc'[h] = "refreshing" => call'[h].id = Mine(h[1]),
           strays \subseteq strays', CallOK(h)'
    PROVE  IInv'
<1> DEFINE i == h[1]
<1>1. i \in Instance /\ Caller(i) # h /\ AcquisitionOK(i) /\ h \in Thread
  BY Threads DEF IInv
<1>2. pc'[Caller(i)] = pc[Caller(i)] /\ Beat(i)' = Beat(i) /\ Mine(i)' = Mine(i)
  BY <1>1, Threads DEF Only, Beat, Mine
<1>3. heartbeat[i] # 0 => /\ Beat(i) \in Heartbeat
                          /\ Beat(i) # h => pc'[Beat(i)] = pc[Beat(i)] /\ call'[Beat(i)] = call[Beat(i)]
  BY <1>1, TypesOf, Threads DEF IInv, Only
<1>4. AcquisitionOK(i)'
  <2> HIDE DEF i
  <2>1. QED
    BY <1>1, <1>2, <1>3 DEF AcquisitionOK, i
<1>5. \A g \in Heartbeat : pc'[g] = "unborn" => ~stopped'[g]
  BY Threads DEF IInv, Only
<1>6. pc[h] # "crashed"
  BY TypesOf DEF IInv, BeatSteps
<1>7. QED
  BY <1>1, <1>4, <1>5, <1>6, OneThread

LEMMA HbAttemptsKeeps == ASSUME IInv, NEW h \in Heartbeat, HbAttempts(h) PROVE IInv'
<1> DEFINE i == h[1]
<1>1. /\ h \in Thread /\ i \in Instance /\ pc[h] = "wait" /\ ~stopped[h]
      /\ ThreadTypes /\ now \in Nat /\ identifier[i] \in 0 .. MaxIdentifiers
      /\ UNCHANGED <<identifier, heartbeat, beatsFor, stopped, strays>>
      /\ StoreOK' /\ now' = now /\ owners' = owners
  BY Threads, TypesOf, ServerKept DEF IInv, HbAttempts, local
<1>2. \/ state[i] = "ACQUIRED" /\ Send(h, "refreshing", "refresh", identifier[i])
      \/ Return(h, "done", 0)
  BY DEF HbAttempts
<1>3. /\ ThreadTypes' /\ Only(h) /\ pc'[h] \in {"refreshing", "done"}
      /\ CallOK(h)'
      /\ (pc'[h] = "refreshing" => call'[h].id = Mine(i))
  <2>1. CASE state[i] = "ACQUIRED" /\ Send(h, "refreshing", "refresh", identifier[i])
    <3>1. identifier[i] \in 1 .. MaxIdentifiers
      BY <1>1, <2>1, RestTyped, Constants DEF IInv
    <3> "refreshing" \in CallerSteps \cup BeatSteps /\ "refresh" \in Ops
      BY DEF BeatSteps, Ops
    <3>2. /\ ThreadTypes' /\ Only(h) /\ pc'[h] = "refreshing" /\ timer'[h] = now + CallTimeout
          /\ call'[h] # NoCall /\ call'[h].op = "refresh" /\ call'[h].id = Mine(i)
      BY <1>1, <2>1, <3>1, SendEffect DEF Mine
    <3>3. CallOK(h)'
      BY <1>1, <3>2, Constants DEF CallOK, Ops
    <3>4. QED
      BY <3>2, <3>3
  <2>2. CASE Return(h, "done", 0)
    <3>1. ThreadTypes' /\ Only(h) /\ pc'[h] = "done" /\ call'[h] = NoCall
      BY <1>1, <2>2, ReturnEffect DEF BeatSteps
    <3>2. QED
      BY <3>1, NoCallOK DEF Ops
  <2>3. QED
    BY <1>2, <2>1, <2>2
<1>4. Typed'
  BY <1>1, <1>3, StaysTyped, RestTyped DEF IInv, HbAttempts, local, BeatSteps
<1>5. QED
  BY <1>1, <1>3, <1>4, OneBeat

LEMMA HbReturns ==
    ASSUME IInv, NEW h \in Heartbeat, NEW step \in {"wait", "done"}, NEW wake \in Nat,
           Return(h, step, wake), OnLost(h[1]) \/ UNCHANGED <<state, lostEvent>>,
           UNCHANGED <<server, identifier, made, heartbeat, beatsFor, stopped, faults, lease>>,
           strays \subseteq strays', strays' \subseteq Requests,
           deadline' \in [Heartbeat -> Nat]
    PROVE  IInv'
<1>1. h \in Thread /\ h[1] \in Instance /\ ThreadTypes
  BY Threads, TypesOf DEF IInv
<1>2. StoreOK' /\ now' = now /\ owners' = owners
  BY ServerKept DEF IInv
<1>3. step \in CallerSteps \cup BeatSteps
  BY DEF BeatSteps
<1>4. ThreadTypes' /\ Only(h) /\ pc'[h] = step /\ call'[h] = NoCall
  BY <1>1, <1>3, ReturnEffect
<1>5. CallOK(h)'
  BY <1>4, NoCallOK DEF Ops
<1>6. /\ state' \in [Instance -> {"RELEASED", "ACQUIRED", "LOST"}]
      /\ lostEvent' \in [Instance -> BOOLEAN]
      /\ \A j \in Instance : identifier[j] = 0 => state'[j] = "RELEASED"
  BY <1>1, LostKeeps DEF IInv
<1>7. Typed'
  BY <1>1, <1>2, <1>4, <1>6, StaysTyped, RestTyped DEF IInv, BeatSteps
<1>8. QED
  BY <1>2, <1>4, <1>5, <1>7, OneBeat

LEMMA HbRefreshedKeeps == ASSUME IInv, NEW h \in Heartbeat, HbRefreshed(h) PROVE IInv'
<1>1. call[h] # NoCall /\ h \in Thread /\ now \in Nat
  BY Threads, TypesOf DEF HbRefreshed, Answered, IInv
<1>2. timer[h] - CallTimeout \in Nat
  BY <1>1, CallTyped
<1>3. now + RefreshInterval \in Nat /\ (timer[h] - CallTimeout) + LockTimeout \in Nat
  BY <1>1, <1>2, Constants
<1>4. deadline' \in [Heartbeat -> Nat]
  BY <1>3, RestTyped DEF IInv, HbRefreshed
<1>5. QED
  BY <1>3, <1>4, RestTyped, HbReturns DEF IInv, HbRefreshed, local

LEMMA HbLosesKeeps == ASSUME IInv, NEW h \in Heartbeat, HbLoses(h) PROVE IInv'
BY RestTyped, HbReturns DEF IInv, HbLoses

LEMMA HbRaisesKeeps == ASSUME IInv, NEW h \in Heartbeat, HbRaises(h) PROVE IInv'
<1>1. strays \subseteq strays' /\ strays' \subseteq Requests
  BY Threads, AbandonKeeps DEF HbRaises
<1>2. PICK permanent \in BOOLEAN :
          IF GivesUp(h, permanent)
          THEN Return(h, "done", 0) /\ OnLost(h[1])
          ELSE /\ Return(h, "wait", now + RetryPause(h))
               /\ UNCHANGED <<state, lostEvent>>
  BY DEF HbRaises
<1>3. CASE GivesUp(h, permanent)
  BY <1>1, <1>2, <1>3, RestTyped, HbReturns DEF IInv, HbRaises
<1>4. CASE ~GivesUp(h, permanent)
  <2>1. now \in Nat /\ deadline[h] \in Nat /\ now < deadline[h]
    BY <1>4, TypesOf, RestTyped DEF IInv, GivesUp
  <2>2. now + RetryPause(h) \in Nat
    BY <2>1, Constants DEF RetryPause
  <2>3. QED
    BY <1>1, <1>2, <1>4, <2>2, RestTyped, HbReturns DEF IInv, HbRaises
<1>5. QED
  BY <1>3, <1>4

LEMMA HbStopsKeeps == ASSUME IInv, NEW h \in Heartbeat, HbStops(h) PROVE IInv'
<1>1. strays \subseteq strays' /\ strays' \subseteq Requests
  BY Threads, AbandonKeeps DEF HbStops
<1>2. QED
  BY <1>1, RestTyped, HbReturns DEF IInv, HbStops, local

\* The caller makes a call, for an identifier it may just have generated.
LEMMA CallerSends ==
    ASSUME IInv, NEW i \in Instance, NEW step \in Ops,
           pc[Caller(i)] # "crashed", pc[Caller(i)] # "release",
           Send(Caller(i), step, step, identifier'[i]),
           identifier' \in [Instance -> 0 .. MaxIdentifiers], identifier'[i] # 0,
           made' \in [Instance -> 0 .. MaxIdentifiers],
           heartbeat' \in [Instance -> 0 .. MaxHeartbeats],
           identifier'[i] # identifier[i] => identifier[i] = 0,
           heartbeat'[i] # heartbeat[i] => heartbeat'[i] = 0,
           \A j \in Instance : j # i => identifier'[j] = identifier[j] /\ heartbeat'[j] = heartbeat[j],
           step = "release" => heartbeat'[i] = 0,
           UNCHANGED <<server, state, lostEvent, beatsFor, stopped, deadline, strays, faults, lease>>
    PROVE  IInv'
<1> DEFINE t == Caller(i)
<1>1. t \in Thread /\ t \notin Heartbeat /\ t[1] = i /\ ThreadTypes /\ now \in Nat
  BY Threads, TypesOf DEF IInv
<1>2. StoreOK' /\ now' = now /\ owners' = owners
  BY ServerKept DEF IInv
<1>3. identifier'[i] \in 1 .. MaxIdentifiers
  BY Constants
<1>4. step \in CallerSteps /\ step \notin Stopping /\ step \notin {"crashed", "idle", "refreshing"}
  BY DEF CallerSteps, Ops, Stopping
<1> HIDE DEF t
<1>5. /\ ThreadTypes' /\ Only(t) /\ pc'[t] = step /\ timer'[t] = now + CallTimeout
      /\ call'[t] # NoCall /\ ~call'[t].executed
      /\ call'[t].op = step /\ call'[t].id = <<i, identifier'[i]>>
  BY <1>1, <1>3, <1>4, SendEffect DEF t
<1>6. CallOK(t)'
  BY <1>1, <1>2, <1>4, <1>5, Constants DEF CallOK, Mine
<1>7. Typed'
  <2>1. \A j \in Instance : identifier'[j] = 0 => state'[j] = "RELEASED"
    BY RestTyped DEF IInv
  <2>2. QED
    BY <1>1, <1>2, <1>4, <1>5, <2>1, StaysTyped, RestTyped DEF IInv
<1>8. AcquisitionOK(i)'
  <2>1. AcquisitionOK(i) /\ pc'[Caller(i)] = step
    BY <1>5 DEF IInv, t
  <2>2. CASE heartbeat'[i] = 0
    BY <1>4, <2>1, <2>2 DEF AcquisitionOK
  <2>3. CASE heartbeat'[i] # 0
    <3>1. heartbeat'[i] = heartbeat[i] /\ identifier'[i] = identifier[i]
      BY <2>1, <2>3 DEF AcquisitionOK
    <3>2. Beat(i)' = Beat(i) /\ Mine(i)' = Mine(i) /\ Beat(i) \in Thread /\ Beat(i) # t
      BY <1>1, <2>3, <3>1, TypesOf, Threads DEF Beat, Mine, IInv
    <3>3. pc'[Beat(i)] = pc[Beat(i)] /\ call'[Beat(i)] = call[Beat(i)]
      BY <1>5, <3>2 DEF Only
    <3>4. QED
      BY <1>4, <2>1, <2>3, <3>1, <3>2, <3>3 DEF AcquisitionOK
  <2>4. QED
    BY <2>2, <2>3
<1>9. \A h \in Heartbeat : pc'[h] = "unborn" => ~stopped'[h]
  BY <1>1, <1>5, Threads DEF IInv, Only
<1>10. identifier'[i] # identifier[i] =>
           \A id \in DOMAIN owners \ Rival : id[1] = i => Late(id) \/ ~Alive(i)
  <2> SUFFICES ASSUME identifier[i] = 0, NEW id \in DOMAIN owners \ Rival, id[1] = i
               PROVE  Late(id) \/ ~Alive(i)
    OBVIOUS
  <2>1. id[2] # 0
    BY TypesOf, StoreIs, Identifiers DEF IInv, Identifier
  <2>2. QED
    BY <2>1 DEF IInv, Slots, SlotHasOwner, Late
<1>11. QED
  BY <1>1, <1>2, <1>5, <1>6, <1>7, <1>8, <1>9, <1>10, OneThread DEF t

\* The caller returns, or starts to wait, with what it keeps of the acquisition.
LEMMA CallerReturns ==
    ASSUME IInv, NEW i \in Instance, NEW step \in {"idle", "blocked"},
           pc[Caller(i)] # "crashed", Return(Caller(i), step, 0),
           identifier' \in [Instance -> 0 .. MaxIdentifiers],
           step = "blocked" => identifier'[i] # 0,
           heartbeat' \in [Instance -> 0 .. MaxHeartbeats],
           heartbeat'[i] # heartbeat[i] => heartbeat'[i] = 0,
           identifier'[i] # identifier[i] =>
               /\ heartbeat'[i] = 0
               /\ \A id \in DOMAIN owners \ Rival : id[1] = i => Late(id) \/ ~Alive(i),
           \A j \in Instance : j # i => identifier'[j] = identifier[j] /\ heartbeat'[j] = heartbeat[j],
           state' \in [Instance -> {"RELEASED", "ACQUIRED", "LOST"}],
           lostEvent' \in [Instance -> BOOLEAN],
           \A j \in Instance : identifier'[j] = 0 => state'[j] = "RELEASED",
           strays \subseteq strays', strays' \subseteq Requests,
           faults' \in 0 .. MaxFaults, lease' \in [Instance -> Nat],
           UNCHANGED <<server, made, beatsFor, stopped, deadline>>
    PROVE  IInv'
<1> DEFINE t == Caller(i)
<1>1. t \in Thread /\ t \notin Heartbeat /\ t[1] = i /\ ThreadTypes /\ now \in Nat
  BY Threads, TypesOf DEF IInv
<1>2. StoreOK' /\ now' = now /\ owners' = owners
  BY ServerKept DEF IInv
<1>4. step \in CallerSteps /\ step \notin Stopping /\ step \notin Ops \cup {"crashed", "refreshing"}
  BY DEF CallerSteps, Ops, Stopping
<1> HIDE DEF t
<1>5. ThreadTypes' /\ Only(t) /\ pc'[t] = step /\ call'[t] = NoCall
  BY <1>1, <1>4, ReturnEffect DEF t
<1>6. CallOK(t)'
  BY <1>4, <1>5, NoCallOK
<1>7. Typed'
  BY <1>1, <1>2, <1>4, <1>5, StaysTyped, RestTyped DEF IInv
<1>8. AcquisitionOK(i)'
  <2>1. AcquisitionOK(i) /\ pc'[Caller(i)] = step /\ step # "release"
    BY <1>4, <1>5 DEF IInv, t, Ops
  <2>2. CASE heartbeat'[i] = 0
    BY <1>4, <2>1, <2>2 DEF AcquisitionOK
  <2>3. CASE heartbeat'[i] # 0
    <3>1. heartbeat'[i] = heartbeat[i] /\ identifier'[i] = identifier[i]
      BY <2>1, <2>3 DEF AcquisitionOK
    <3>2. Beat(i)' = Beat(i) /\ Mine(i)' = Mine(i) /\ Beat(i) \in Thread /\ Beat(i) # t
      BY <1>1, <2>3, <3>1, TypesOf, Threads DEF Beat, Mine, IInv
    <3>3. pc'[Beat(i)] = pc[Beat(i)] /\ call'[Beat(i)] = call[Beat(i)]
      BY <1>5, <3>2 DEF Only
    <3>4. QED
      BY <1>4, <2>1, <2>3, <3>1, <3>2, <3>3 DEF AcquisitionOK
  <2>4. QED
    BY <2>2, <2>3
<1>9. \A h \in Heartbeat : pc'[h] = "unborn" => ~stopped'[h]
  BY <1>1, <1>5, Threads DEF IInv, Only
<1>10. pc'[t] # "release"
  BY <1>4, <1>5 DEF Ops
<1>11. QED
  BY <1>1, <1>2, <1>5, <1>6, <1>7, <1>8, <1>9, <1>10, OneThread DEF t

\* The caller begins to wait for its heartbeat.
LEMMA CallerStops ==
    ASSUME IInv, NEW i \in Instance, NEW step \in Stopping, StopHeartbeat(i, step),
           pc[Caller(i)] # "crashed", identifier[i] # 0, heartbeat[i] # 0,
           call' \in [Thread -> Calls \cup {NoCall}], call'[Caller(i)] = NoCall,
           \A u \in Thread : u # Caller(i) => call'[u] = call[u],
           state' \in [Instance -> {"RELEASED", "ACQUIRED", "LOST"}],
           lostEvent' \in [Instance -> BOOLEAN],
           \A j \in Instance : identifier[j] = 0 => state'[j] = "RELEASED",
           UNCHANGED <<server, identifier, made, heartbeat, beatsFor, deadline, strays, faults, lease>>
    PROVE  IInv'
<1> DEFINE t == Caller(i)
<1>1. /\ t \in Thread /\ t \notin Heartbeat /\ t[1] = i /\ ThreadTypes /\ now \in Nat
      /\ Beat(i) \in Heartbeat /\ Beat(i)[1] = i /\ Beat(i) \in Thread
  BY Threads, TypesOf DEF IInv
<1>2. StoreOK' /\ now' = now /\ owners' = owners
  BY ServerKept DEF IInv
<1>3. /\ step \in CallerSteps /\ step \notin Ops \cup {"crashed", "refreshing", "unborn"}
      /\ now + 2 * RefreshInterval \in Nat
  BY <1>1, Constants DEF CallerSteps, Ops, Stopping
<1> HIDE DEF t
<1>4. /\ stopped' = [stopped EXCEPT ![Beat(i)] = TRUE]
      /\ pc' = [pc EXCEPT ![t] = step]
      /\ timer' = [timer EXCEPT ![t] = now + 2 * RefreshInterval]
  BY DEF StopHeartbeat, Beat, t
<1>5. ThreadTypes' /\ Only(t) /\ pc'[t] = step /\ call'[t] = NoCall
  BY <1>1, <1>3, <1>4 DEF ThreadTypes, Only, t
<1>6. CallOK(t)'
  BY <1>3, <1>5, NoCallOK
<1>7. Typed'
  <2>1. stopped' \in [Heartbeat -> BOOLEAN]
    BY <1>4, RestTyped DEF IInv
  <2>2. QED
    BY <1>1, <1>2, <1>3, <1>5, <2>1, StaysTyped, RestTyped DEF IInv
<1>8. AcquisitionOK(i)'
  <2>1. AcquisitionOK(i) /\ pc'[Caller(i)] = step /\ step # "release"
    BY <1>3, <1>5 DEF IInv, t, Ops
  <2>2. Beat(i)' = Beat(i) /\ Mine(i)' = Mine(i) /\ Beat(i) # t
    BY <1>1 DEF Beat, Mine
  <2>3. pc'[Beat(i)] = pc[Beat(i)] /\ call'[Beat(i)] = call[Beat(i)] /\ stopped'[Beat(i)]
    BY <1>1, <1>4, <1>5, <2>2, RestTyped DEF Only, IInv
  <2>4. QED
    BY <2>1, <2>2, <2>3 DEF AcquisitionOK
<1>9. /\ \A h \in Heartbeat : h[1] # i => stopped'[h] = stopped[h]
      /\ \A h \in Heartbeat : pc'[h] = "unborn" => ~stopped'[h]
  <2>1. pc[Beat(i)] # "unborn" /\ \A h \in Heartbeat : pc[h] = "unborn" => ~stopped[h]
    BY DEF IInv, AcquisitionOK
  <2>2. \A h \in Heartbeat : h # Beat(i) => stopped'[h] = stopped[h]
    BY <1>4, RestTyped DEF IInv
  <2>3. \A h \in Heartbeat : pc'[h] = pc[h]
    BY <1>1, <1>5, Threads DEF Only
  <2>4. QED
    BY <1>1, <2>1, <2>2, <2>3
<1>10. pc'[t] # "release"
  BY <1>3, <1>5 DEF Ops
<1>11. QED
  BY <1>1, <1>2, <1>5, <1>6, <1>7, <1>8, <1>9, <1>10, OneThread DEF t

-----------------------------------------------------------------------------
(* The steps of the callers.                                                 *)

LEMMA BeginAcquireKeeps == ASSUME IInv, NEW i \in Instance, BeginAcquire(i) PROVE IInv'
<1>1. /\ pc[Caller(i)] = "idle"
      /\ Send(Caller(i), "acquire", "acquire", identifier'[i])
      /\ UNCHANGED <<server, state, heartbeat, lostEvent, beatsFor, stopped, deadline,
                     strays, faults, lease>>
  BY DEF BeginAcquire
<1>2. /\ identifier' \in [Instance -> 0 .. MaxIdentifiers] /\ identifier'[i] # 0
      /\ made' \in [Instance -> 0 .. MaxIdentifiers]
      /\ identifier'[i] # identifier[i] => identifier[i] = 0
      /\ \A j \in Instance : j # i => identifier'[j] = identifier[j]
  <2>1. CASE identifier[i] # 0
    BY <2>1, RestTyped DEF IInv, BeginAcquire, UseIdentifier
  <2>2. CASE identifier[i] = 0
    <3>1. made[i] \in 0 .. MaxIdentifiers /\ made[i] < MaxIdentifiers /\ MaxIdentifiers \in Nat
      BY <2>2, RestTyped, Constants DEF IInv, BeginAcquire, UseIdentifier, NewIdentifier
    <3>2. made[i] + 1 \in 1 .. MaxIdentifiers
      BY <3>1
    <3>3. QED
      BY <2>2, <3>2, RestTyped DEF IInv, BeginAcquire, UseIdentifier, NewIdentifier
  <2>3. QED
    BY <2>1, <2>2
<1>3. QED
  BY <1>1, <1>2, RestTyped, CallerSends DEF IInv, Ops

LEMMA RefusedKeeps == ASSUME IInv, NEW i \in Instance, Refused(i) PROVE IInv'
<1>1. identifier[i] # 0
  BY DEF Refused, IInv, AcquisitionOK
<1>2. PICK step \in {"idle", "blocked"} : Return(Caller(i), step, 0)
  BY DEF Refused
<1>3. QED
  BY <1>1, <1>2, RestTyped, CallerReturns DEF IInv, Refused, local

LEMMA RetryAcquireKeeps == ASSUME IInv, NEW i \in Instance, RetryAcquire(i) PROVE IInv'
<1>1. identifier[i] # 0 /\ pc[Caller(i)] = "blocked"
  BY DEF RetryAcquire, IInv, AcquisitionOK
<1>2. QED
  BY <1>1, RestTyped, CallerSends DEF IInv, RetryAcquire, local, Ops

LEMMA AcquireTimesOutKeeps == ASSUME IInv, NEW i \in Instance, AcquireTimesOut(i) PROVE IInv'
BY RestTyped, CallerReturns DEF IInv, AcquireTimesOut, local

LEMMA BeginReleaseKeeps == ASSUME IInv, NEW i \in Instance, BeginRelease(i) PROVE IInv'
<1>1. pc[Caller(i)] = "idle" /\ identifier[i] # 0
  BY DEF BeginRelease
<1>2. CASE heartbeat[i] # 0
  <2>1. call[Caller(i)] = NoCall
    BY <1>1, Threads DEF IInv, CallOK, Ops
  <2>2. QED
    BY <1>1, <1>2, <2>1, TypesOf, RestTyped, CallerStops
       DEF IInv, BeginRelease, local, Stopping, ThreadTypes
<1>3. CASE heartbeat[i] = 0
  BY <1>1, <1>3, RestTyped, CallerSends DEF IInv, BeginRelease, local, Ops
<1>4. QED
  BY <1>2, <1>3

\* The instance has no heartbeat any more.
LEMMA Dropped ==
    ASSUME IInv, NEW i \in Instance, heartbeat' = [heartbeat EXCEPT ![i] = 0]
    PROVE  /\ heartbeat' \in [Instance -> 0 .. MaxHeartbeats] /\ heartbeat'[i] = 0
           /\ \A j \in Instance : j # i => heartbeat'[j] = heartbeat[j]
BY RestTyped, Constants DEF IInv

LEMMA JoinedForReleaseKeeps == ASSUME IInv, NEW i \in Instance, JoinedForRelease(i) PROVE IInv'
<1>1. /\ pc[Caller(i)] = "stop_release" /\ identifier' = identifier
      /\ heartbeat' = [heartbeat EXCEPT ![i] = 0]
      /\ Send(Caller(i), "release", "release", identifier'[i])
      /\ UNCHANGED <<server, state, made, lostEvent, beatsFor, stopped, deadline, strays, faults, lease>>
  BY DEF JoinedForRelease
<1>2. identifier[i] # 0
  BY <1>1 DEF IInv, AcquisitionOK
<1>3. QED
  BY <1>1, <1>2, Dropped, RestTyped, CallerSends DEF IInv, Ops

LEMMA ReleasedKeeps == ASSUME IInv, NEW i \in Instance, Released(i) PROVE IInv'
<1>1. /\ pc[Caller(i)] = "release" /\ Answered(Caller(i))
      /\ Return(Caller(i), "idle", 0)
      /\ state' = [state EXCEPT ![i] = "RELEASED"]
      /\ identifier' = [identifier EXCEPT ![i] = 0]
      /\ lostEvent' = [lostEvent EXCEPT ![i] = FALSE]
      /\ lease' = [lease EXCEPT ![i] = 0]
      /\ UNCHANGED <<server, beatsFor, made, heartbeat, stopped, deadline, strays, faults>>
  BY DEF Released, ResetState
<1>2. heartbeat'[i] = 0
  BY <1>1 DEF IInv, AcquisitionOK
<1>3. ASSUME NEW id \in DOMAIN owners \ Rival, id[1] = i
      PROVE  Late(id) \/ ~Alive(i)
  <2>1. identifier[i] = id[2] \/ ~Alive(i) \/ Late(id)
    BY <1>3 DEF IInv, Slots, SlotHasOwner, Late
  <2>2. Mine(i) \notin DOMAIN owners \/ Late(Mine(i))
    BY <1>1 DEF IInv, Slots, Answered
  <2>3. id = <<id[1], id[2]>>
    BY TypesOf, StoreIs, Identifiers DEF IInv, Identifier
  <2>4. QED
    BY <1>3, <2>1, <2>2, <2>3 DEF Mine
<1>4. /\ identifier' \in [Instance -> 0 .. MaxIdentifiers]
      /\ state' \in [Instance -> {"RELEASED", "ACQUIRED", "LOST"}]
      /\ lostEvent' \in [Instance -> BOOLEAN] /\ lease' \in [Instance -> Nat]
      /\ \A j \in Instance : j # i => identifier'[j] = identifier[j]
      /\ \A j \in Instance : identifier'[j] = 0 => state'[j] = "RELEASED"
  BY <1>1, RestTyped, Constants DEF IInv
<1>5. QED
  BY <1>1, <1>2, <1>3, <1>4, RestTyped, CallerReturns DEF IInv

LEMMA BeginRefreshKeeps == ASSUME IInv, NEW i \in Instance, BeginRefresh(i) PROVE IInv'
<1>1. identifier[i] # 0 /\ pc[Caller(i)] = "idle"
  BY RestTyped DEF BeginRefresh, IInv
<1>2. QED
  BY <1>1, RestTyped, CallerSends DEF IInv, BeginRefresh, local, Ops

LEMMA RefreshedKeeps == ASSUME IInv, NEW i \in Instance, Refreshed(i) PROVE IInv'
BY RestTyped, CallerReturns DEF IInv, Refreshed, local

LEMMA RefreshFindsLostKeeps == ASSUME IInv, NEW i \in Instance, RefreshFindsLost(i) PROVE IInv'
<1>1. /\ pc[Caller(i)] = "refresh" /\ identifier[i] # 0
      /\ state' = [state EXCEPT ![i] = "LOST"]
      /\ lostEvent' = [lostEvent EXCEPT ![i] = TRUE]
      /\ call' = [call EXCEPT ![Caller(i)] = NoCall]
      /\ UNCHANGED <<server, identifier, made, heartbeat, beatsFor, deadline, strays, faults, lease>>
  BY DEF RefreshFindsLost, IInv, AcquisitionOK
<1>2. /\ state' \in [Instance -> {"RELEASED", "ACQUIRED", "LOST"}]
      /\ lostEvent' \in [Instance -> BOOLEAN]
      /\ \A j \in Instance : identifier[j] = 0 => state'[j] = "RELEASED"
  BY <1>1, RestTyped DEF IInv
<1>3. CASE heartbeat[i] # 0
  <2>1. /\ call' \in [Thread -> Calls \cup {NoCall}] /\ call'[Caller(i)] = NoCall
        /\ \A u \in Thread : u # Caller(i) => call'[u] = call[u]
    BY <1>1, Threads, TypesOf DEF ThreadTypes, IInv
  <2>2. StopHeartbeat(i, "stop_lost")
    BY <1>3 DEF RefreshFindsLost
  <2>3. QED
    BY <1>1, <1>2, <1>3, <2>1, <2>2, CallerStops DEF Stopping
<1>4. CASE heartbeat[i] = 0
  <2>1. Return(Caller(i), "idle", 0) /\ UNCHANGED stopped
    BY <1>4 DEF RefreshFindsLost, Return
  <2>2. QED
    BY <1>1, <1>2, <2>1, RestTyped, CallerReturns DEF IInv
<1>5. QED
  BY <1>3, <1>4

LEMMA JoinedForLostKeeps == ASSUME IInv, NEW i \in Instance, JoinedForLost(i) PROVE IInv'
<1>1. /\ pc[Caller(i)] = "stop_lost" /\ Return(Caller(i), "idle", 0)
      /\ heartbeat' = [heartbeat EXCEPT ![i] = 0]
      /\ UNCHANGED <<server, beatsFor, state, identifier, made, lostEvent, stopped, deadline,
                     strays, faults, lease>>
  BY DEF JoinedForLost
<1>2. QED
  BY <1>1, Dropped, RestTyped, CallerReturns DEF IInv

LEMMA CallRaisesKeeps == ASSUME IInv, NEW i \in Instance, CallRaises(i) PROVE IInv'
<1>1. strays \subseteq strays' /\ strays' \subseteq Requests
  BY Threads, AbandonKeeps DEF CallRaises
<1>2. faults' \in 0 .. MaxFaults
  BY RestTyped, Constants DEF CallRaises, Fault, IInv
<1>3. /\ pc[Caller(i)] # "crashed" /\ Return(Caller(i), "idle", 0)
      /\ UNCHANGED <<server, local, stopped, deadline, lease>>
  BY DEF CallRaises
<1>4. QED
  BY <1>1, <1>2, <1>3, RestTyped, CallerReturns DEF IInv, local

LEMMA AcquiredKeeps == ASSUME IInv, NEW i \in Instance, Acquired(i) PROVE IInv'
<1>1. /\ pc[Caller(i)] = "acquire" /\ identifier[i] # 0
      /\ state' = [state EXCEPT ![i] = "ACQUIRED"] /\ StartHeartbeat(i)
      /\ UNCHANGED <<server, identifier, made, lostEvent, stopped, strays, faults, lease>>
  BY DEF Acquired, IInv, AcquisitionOK
<1>2. /\ state' \in [Instance -> {"RELEASED", "ACQUIRED", "LOST"}]
      /\ \A j \in Instance : identifier[j] = 0 => state'[j] = "RELEASED"
  BY <1>1, RestTyped DEF IInv
<1>3. CASE heartbeat[i] # 0
  <2>1. Return(Caller(i), "idle", 0) /\ UNCHANGED <<heartbeat, beatsFor, deadline>>
    BY <1>1, <1>3 DEF StartHeartbeat
  <2>2. QED
    BY <1>1, <1>2, <2>1, RestTyped, CallerReturns DEF IInv
<1>4. ASSUME NEW k \in 1 .. MaxHeartbeats, heartbeat[i] = 0, pc[<<i, k>>] = "unborn",
             heartbeat' = [heartbeat EXCEPT ![i] = k],
             beatsFor' = [beatsFor EXCEPT ![<<i, k>>] = identifier[i]],
             pc' = [pc EXCEPT ![Caller(i)] = "idle", ![<<i, k>>] = "wait"],
             call' = [call EXCEPT ![Caller(i)] = NoCall],
             timer' = [timer EXCEPT ![Caller(i)] = 0, ![<<i, k>>] = now + RefreshInterval],
             deadline' = [deadline EXCEPT ![<<i, k>>] = now + LockTimeout]
      PROVE  IInv'
  <2> DEFINE t == Caller(i)
             h == <<i, k>>
  <2>1. /\ t \in Thread /\ t \notin Heartbeat /\ t[1] = i /\ ThreadTypes /\ now \in Nat
        /\ h \in Heartbeat /\ h \in Thread /\ h # t /\ h[1] = i /\ k # 0
    BY Threads, TypesOf DEF IInv
  <2>2. StoreOK' /\ now' = now /\ owners' = owners
    BY <1>1, ServerKept DEF IInv
  <2>3. now + RefreshInterval \in Nat /\ now + LockTimeout \in Nat
    BY <2>1, Constants
  <2>4. /\ call[h] = NoCall /\ ~stopped[h]
    BY <1>4, <2>1 DEF IInv, CallOK, Ops
  <2> HIDE DEF t, h
  <2>5. /\ ThreadTypes' /\ pc'[t] = "idle" /\ call'[t] = NoCall
        /\ pc'[h] = "wait" /\ call'[h] = NoCall /\ timer'[h] = now + RefreshInterval
        /\ \A u \in Thread : u # t /\ u # h => /\ pc'[u] = pc[u] /\ call'[u] = call[u]
                                                /\ timer'[u] = timer[u]
    BY <1>4, <2>1, <2>3, <2>4 DEF ThreadTypes, t, h, CallerSteps, BeatSteps
  <2>6. /\ heartbeat' \in [Instance -> 0 .. MaxHeartbeats] /\ heartbeat'[i] = k
        /\ \A j \in Instance : j # i => heartbeat'[j] = heartbeat[j]
        /\ beatsFor' \in [Heartbeat -> 0 .. MaxIdentifiers] /\ beatsFor'[h] = identifier[i]
        /\ \A g \in Heartbeat : g # h => beatsFor'[g] = beatsFor[g]
        /\ deadline' \in [Heartbeat -> Nat]
    BY <1>4, <2>1, <2>3, RestTyped, Constants DEF IInv, h
  <2>7. Typed'
    <3>1. \A j \in Instance : pc'[Caller(j)] \in CallerSteps
      BY <2>1, <2>5, Threads, TypesOf DEF IInv, CallerSteps
    <3>2. \A g \in Heartbeat : pc'[g] \in BeatSteps
      BY <2>1, <2>5, Threads, TypesOf DEF IInv, BeatSteps
    <3>3. \A u \in Thread : /\ timer'[u] \in Nat
                            /\ call'[u] = NoCall \/ [op |-> call'[u].op, id |-> call'[u].id] \in Request
      BY <2>5 DEF ThreadTypes, Calls, Request, Ops
    <3>4. TypeOK'
      BY <1>1, <1>2, <2>2, <2>6, <3>1, <3>2, <3>3, RestTyped
         DEF IInv, TypeOK, CallerSteps, BeatSteps, StoreOK, Requests, Ops
    <3>5. QED
      BY <2>5, <3>4 DEF Typed, ThreadTypes
  <2>8. \A u \in Thread : CallOK(u)'
    <3>1. CallOK(t)' /\ CallOK(h)'
      BY <2>5, NoCallOK DEF Ops
    <3>2. ASSUME NEW u \in Thread, u # t, u # h PROVE CallOK(u)'
      BY <1>1, <2>2, <2>5, <3>2 DEF IInv, CallOK, Mine
    <3>3. QED
      BY <3>1, <3>2
  <2>9. \A j \in Instance : AcquisitionOK(j)'
    <3>1. AcquisitionOK(i)'
      <4>1. Beat(i)' = h /\ pc'[Caller(i)] = "idle"
        BY <2>5, <2>6 DEF Beat, h, t
      <4>2. QED
        BY <1>1, <2>5, <2>6, <4>1 DEF AcquisitionOK, Stopping
    <3>2. ASSUME NEW j \in Instance, j # i PROVE AcquisitionOK(j)'
      <4>1. AcquisitionOK(j) /\ Beat(j)' = Beat(j) /\ Mine(j)' = Mine(j) /\ heartbeat'[j] = heartbeat[j]
        BY <1>1, <2>6, <3>2 DEF IInv, Beat, Mine
      <4>2. pc'[Caller(j)] = pc[Caller(j)]
        BY <2>1, <2>5, <3>2, Threads
      <4>3. heartbeat[j] # 0 => /\ pc'[Beat(j)] = pc[Beat(j)] /\ call'[Beat(j)] = call[Beat(j)]
                                /\ beatsFor'[Beat(j)] = beatsFor[Beat(j)]
        BY <2>1, <2>5, <2>6, <3>2, Threads, TypesOf DEF IInv
      <4>4. QED
        BY <1>1, <4>1, <4>2, <4>3 DEF AcquisitionOK
    <3>3. QED
      BY <3>1, <3>2
  <2>10. \A g \in Heartbeat : pc'[g] = "unborn" => ~stopped'[g]
    BY <1>1, <2>1, <2>5, Threads DEF IInv
  <2>11. Slots'
    <3>1. \A j \in Instance : /\ pc'[Caller(j)] = "release" => j # i
                              /\ j # i => pc'[Caller(j)] = pc[Caller(j)] /\ call'[Caller(j)] = call[Caller(j)]
      BY <2>1, <2>5, Threads DEF t
    <3>2. \A id \in DOMAIN owners \ Rival : id[1] \in Instance
      BY TypesOf, StoreIs, Identifiers DEF IInv, Identifier
    <3>3. SlotHasOwner /\ Alive(i)
      BY <1>1 DEF IInv, Slots, Alive
    <3>4. SlotHasOwner'
      BY <1>1, <2>2, <3>1, <3>2, <3>3 DEF SlotHasOwner, Alive
    <3>5. QED
      BY <1>1, <2>2, <3>1, <3>4 DEF IInv, Slots, Mine, Late
  <2>12. QED
    BY <2>7, <2>8, <2>9, <2>10, <2>11 DEF IInv
<1>5. QED
  BY <1>1, <1>3, <1>4 DEF StartHeartbeat

-----------------------------------------------------------------------------
(* The server, and time.                                                     *)

\* A step that leaves the threads where they are, and what they have asked for.
LEMMA ThreadsStay ==
    ASSUME IInv, StoreOK', now' \in {now, now + 1},
           UNCHANGED <<local, pc, timer, stopped, deadline>>,
           call' \in [Thread -> Calls \cup {NoCall}],
           \A t \in Thread : /\ call'[t] # NoCall <=> call[t] # NoCall
                             /\ call[t] # NoCall => call'[t].op = call[t].op /\ call'[t].id = call[t].id
                             /\ call[t] # NoCall /\ now' # now => now < timer[t],
           strays' \subseteq Requests, faults' \in 0 .. MaxFaults, lease' \in [Instance -> Nat],
           Slots'
    PROVE  IInv'
<1>1. ThreadTypes /\ ThreadTypes'
  BY TypesOf DEF IInv, ThreadTypes
<1>2. Typed'
  <2>1. \A u \in Thread : /\ timer'[u] \in Nat
                          /\ call'[u] = NoCall \/ [op |-> call'[u].op, id |-> call'[u].id] \in Request
    BY <1>1 DEF ThreadTypes, Calls, Request, Ops
  <2>2. TypeOK'
    BY <2>1 DEF IInv, Typed, TypeOK, StoreOK, Requests, Ops, local
  <2>3. QED
    BY <1>1, <2>2 DEF Typed, ThreadTypes
<1>3. \A u \in Thread : CallOK(u)'
  <2> SUFFICES ASSUME NEW u \in Thread PROVE CallOK(u)'
    OBVIOUS
  <2>1. CASE call[u] = NoCall
    BY <2>1 DEF IInv, CallOK
  <2>2. CASE call[u] # NoCall
    <3>1. now \in Nat /\ timer[u] \in Nat /\ timer[u] - CallTimeout \in 0 .. now /\ now <= timer[u]
      BY <2>2, CallTyped, TypesOf DEF IInv
    <3>2. timer[u] - CallTimeout \in 0 .. now' /\ now' <= timer[u]
      BY <2>2, <3>1, Constants
    <3>3. CallOK(u) /\ Mine(u[1])' = Mine(u[1])
      BY DEF IInv, local, Mine
    <3>4. QED
      BY <2>2, <3>2, <3>3 DEF CallOK
  <2>3. QED
    BY <2>1, <2>2
<1>4. \A j \in Instance : AcquisitionOK(j)'
  <2> SUFFICES ASSUME NEW j \in Instance PROVE AcquisitionOK(j)'
    OBVIOUS
  <2>1. AcquisitionOK(j) /\ Beat(j)' = Beat(j) /\ Mine(j)' = Mine(j)
    BY DEF IInv, local, Beat, Mine
  <2>2. heartbeat[j] # 0 /\ pc[Beat(j)] = "refreshing" => call'[Beat(j)].id = call[Beat(j)].id
    <3>1. heartbeat[j] # 0 => Beat(j) \in Thread
      BY TypesOf, Threads DEF IInv
    <3>2. QED
      BY <3>1 DEF IInv, CallOK
  <2>3. QED
    BY <2>1, <2>2 DEF AcquisitionOK, local
<1>5. \A h \in Heartbeat : pc'[h] = "unborn" => ~stopped'[h]
  BY DEF IInv
<1>6. QED
  BY <1>2, <1>3, <1>4, <1>5 DEF IInv

\* The identifiers of the instances that an entry can be for.
LEMMA EntryOf ==
    ASSUME IInv
    PROVE  \A id \in DOMAIN owners \ Rival :
               id[1] \in Instance /\ id = <<id[1], id[2]>> /\ id[2] # 0
BY TypesOf, StoreIs, Identifiers DEF IInv, Identifier

\* The history of the leases stays one of times.
LEMMA NoteTyped ==
    ASSUME IInv, NEW op, NEW id \in Own, NoteLease(op, id)
    PROVE  lease' \in [Instance -> Nat]
<1>1. now + LockTimeout \in Nat /\ lease \in [Instance -> Nat]
  BY TypesOf, RestTyped, Constants DEF IInv
<1>2. QED
  BY <1>1 DEF NoteLease

LEMMA ServeKeeps == ASSUME IInv, NEW t \in Thread, Serve(t) PROVE IInv'
<1> DEFINE id == call[t].id
           op == call[t].op
<1>1. /\ call[t] # NoCall /\ Execute(op, id) /\ NoteLease(op, id)
      /\ call' = [call EXCEPT ![t].executed = TRUE, ![t].ok = Succeeds(op, id)]
      /\ UNCHANGED <<local, pc, timer, stopped, deadline, strays, faults>>
  BY DEF Serve, Sent
<1>2. call[t] \in Calls /\ id \in Own /\ op \in Ops /\ id \in Identifier /\ StoreOK
  BY <1>1, CallTyped, Identifiers, TypesOf DEF IInv
<1>3. /\ StoreOK' /\ now' = now /\ DOMAIN owners' \subseteq DOMAIN owners \cup {id}
      /\ op # "acquire" => DOMAIN owners' \subseteq DOMAIN owners
      /\ op = "release" => id \notin DOMAIN owners'
  BY <1>1, <1>2, ExecuteIs
<1>4. /\ call'[t] \in Calls /\ call'[t].op = op /\ call'[t].id = id /\ call'[t].executed
      /\ call'[t] # NoCall
      /\ \A u \in Thread : u # t => call'[u] = call[u]
      /\ call' \in [Thread -> Calls \cup {NoCall}]
  <2>1. Succeeds(op, id) \in BOOLEAN
    BY <1>2 DEF Succeeds
  <2>2. call \in [Thread -> Calls \cup {NoCall}]
    BY DEF IInv, Typed
  <2>3. call'[t] \in Calls /\ call'[t].op = op /\ call'[t].id = id /\ call'[t].executed
    <3> HIDE DEF op, id
    <3>1. call'[t] = [call[t] EXCEPT !.executed = TRUE, !.ok = Succeeds(op, id)]
      BY <1>1, <2>2
    <3>2. QED
      BY <1>2, <2>1, <3>1 DEF Calls, op, id
  <2>4. QED
    BY <1>1, <2>2, <2>3, NoCallIsNone
<1>5. op = "acquire" => id = Mine(id[1]) /\ id[1] \in Instance
  <2> SUFFICES ASSUME op = "acquire" PROVE id = Mine(id[1]) /\ id[1] \in Instance
    OBVIOUS
  <2>1. pc[t] \in Ops
    BY <1>1 DEF IInv, CallOK
  <2>2. id = Mine(t[1])
    BY <1>1, <2>1 DEF IInv, CallOK
  <2>3. QED
    BY <2>2, Threads DEF Mine
<1> HIDE DEF id, op
<1>6. SlotHasOwner'
  <2> SUFFICES ASSUME NEW e \in DOMAIN owners' \ Rival
               PROVE  identifier[e[1]] = e[2] \/ ~Alive(e[1]) \/ Late(e)
    BY <1>1 DEF SlotHasOwner, Late, Alive, local
  <2>1. CASE e \in DOMAIN owners
    BY <2>1 DEF IInv, Slots, SlotHasOwner, Late
  <2>2. CASE e \notin DOMAIN owners
    <3>1. e = id /\ op = "acquire"
      BY <1>3, <2>2
    <3>2. e = <<e[1], identifier[e[1]]>>
      BY <1>5, <3>1 DEF Mine
    <3>3. QED
      BY <3>2
  <2>3. QED
    BY <2>1, <2>2
<1>7. ASSUME NEW j \in Instance, pc[Caller(j)] = "release", call'[Caller(j)].executed
      PROVE  Mine(j) \notin DOMAIN owners' \/ Late(Mine(j))
  <2>1. CASE Caller(j) = t
    <3>1. op = "release" /\ id = Mine(j)
      BY <1>1, <1>7, <2>1, Threads DEF IInv, CallOK, Ops, op, id
    <3>2. QED
      BY <1>3, <3>1
  <2>2. CASE Caller(j) # t
    <3>1. Mine(j) \notin DOMAIN owners \/ Late(Mine(j))
      BY <1>4, <1>7, <2>2, Threads DEF IInv, Slots
    <3>2. Mine(j) # id \/ op # "acquire"
      <4> SUFFICES ASSUME Mine(j) = id, op = "acquire" PROVE FALSE
        OBVIOUS
      <4>1. pc[t] \in Ops /\ id = Mine(t[1]) /\ pc[t] = "acquire"
        BY <1>1 DEF IInv, CallOK, op, id
      <4>2. t = Caller(t[1])
        BY <4>1, Threads, TypesOf DEF IInv, BeatSteps, Ops
      <4>3. t[1] = j
        BY <4>1 DEF Mine
      <4>4. QED
        BY <2>2, <4>2, <4>3
    <3>3. QED
      BY <1>3, <3>1, <3>2
  <2>3. QED
    BY <2>1, <2>2
<1>8. Slots'
  BY <1>1, <1>6, <1>7 DEF Slots, local, Mine, Late
<1>9. lease' \in [Instance -> Nat]
  BY <1>1, <1>2, NoteTyped DEF id, op
<1>10. QED
  BY <1>1, <1>3, <1>4, <1>8, <1>9, RestTyped, ThreadsStay DEF IInv, op, id

LEMMA ResendKeeps == ASSUME IInv, NEW t \in Thread, Resend(t) PROVE IInv'
<1>1. /\ call[t] # NoCall /\ faults' \in 0 .. MaxFaults
      /\ call' = [call EXCEPT ![t].executed = FALSE]
      /\ UNCHANGED <<server, local, pc, timer, stopped, deadline, strays, lease>>
  BY RestTyped, Constants DEF Resend, Answered, Fault, IInv
<1>2. StoreOK' /\ now' = now /\ owners' = owners
  BY <1>1, ServerKept DEF IInv
<1>3. /\ call'[t] \in Calls /\ call'[t].op = call[t].op /\ call'[t].id = call[t].id
      /\ ~call'[t].executed /\ call'[t] # NoCall
      /\ \A u \in Thread : u # t => call'[u] = call[u]
      /\ call' \in [Thread -> Calls \cup {NoCall}]
  <2>1. call \in [Thread -> Calls \cup {NoCall}] /\ call[t] \in Calls
    BY <1>1, CallTyped DEF IInv, Typed
  <2>2. call'[t] = [call[t] EXCEPT !.executed = FALSE]
    BY <1>1, <2>1
  <2>3. call'[t] \in Calls /\ call'[t].op = call[t].op /\ call'[t].id = call[t].id /\ ~call'[t].executed
    BY <2>1, <2>2 DEF Calls
  <2>4. QED
    BY <1>1, <2>1, <2>3, NoCallIsNone
<1>4. Slots'
  <2>1. \A j \in Instance : call'[Caller(j)].executed => call'[Caller(j)] = call[Caller(j)]
    BY <1>3, Threads
  <2>2. QED
    BY <1>1, <1>2, <2>1 DEF IInv, Slots, SlotHasOwner, Alive, Mine, Late, local
<1>5. QED
  BY <1>1, <1>2, <1>3, <1>4, RestTyped, ThreadsStay DEF IInv

\* The threads do not notice what others do to the server.
LEMMA OthersAct ==
    ASSUME IInv, StoreOK', now' \in {now, now + 1}, UNCHANGED <<local, threads, faults>>,
           strays' \subseteq Requests, lease' \in [Instance -> Nat],
           \A e : Late(e) => Late(e)',
           \A e \in DOMAIN owners' \ Rival : e \in DOMAIN owners \/ Late(e)',
           \A t \in Thread : call[t] # NoCall /\ now' # now => now < timer[t]
    PROVE  IInv'
<1>1. Slots'
  <2>1. SlotHasOwner'
    <3> SUFFICES ASSUME NEW e \in DOMAIN owners' \ Rival
                 PROVE  identifier[e[1]] = e[2] \/ ~Alive(e[1]) \/ Late(e)'
      BY DEF SlotHasOwner, Late, Alive, local, threads
    <3>1. QED
      BY DEF IInv, Slots, SlotHasOwner, Late
  <2>2. ASSUME NEW j \in Instance, pc[Caller(j)] = "release", call[Caller(j)].executed
        PROVE  Mine(j) \notin DOMAIN owners' \/ Late(Mine(j))'
    <3>1. Mine(j) \notin DOMAIN owners \/ Late(Mine(j))
      BY <2>2 DEF IInv, Slots
    <3>2. Mine(j) \notin Rival
      <4>1. identifier[j] \in 1 .. MaxIdentifiers
        BY <2>2, TypesOf, Constants DEF IInv, AcquisitionOK
      <4>2. QED
        BY <4>1, Identifiers, RivalAssumption DEF Mine
    <3>3. Mine(j)' = Mine(j)
      BY DEF Mine, local
    <3>4. QED
      BY <3>1, <3>2, <3>3 DEF Late
  <2>3. QED
    BY <2>1, <2>2 DEF Slots, local, threads, Mine
<1>2. QED
  BY <1>1, RestTyped, ThreadsStay DEF IInv, Typed, threads

LEMMA ServeStrayKeeps == ASSUME IInv, NEW r \in strays, ServeStray(r) PROVE IInv'
<1>1. /\ ~r.done /\ Execute(r.op, r.id) /\ NoteLease(r.op, r.id)
      /\ strays' = (strays \ {r}) \cup
                   (IF r.op = "acquire" THEN {[r EXCEPT !.done = TRUE]} ELSE {})
      /\ UNCHANGED <<local, threads, faults>>
  BY DEF ServeStray
<1> DEFINE served == [r EXCEPT !.done = TRUE]
<1>2. /\ r \in Requests /\ r.op \in Ops /\ r.id \in Own /\ r.id \in Identifier
      /\ served \in Requests /\ served = [op |-> r.op, id |-> r.id, done |-> TRUE]
  <2>1. r \in Requests
    BY RestTyped DEF IInv
  <2>2. r.op \in Ops /\ r.id \in Own
    BY <2>1 DEF Requests
  <2>3. served = [op |-> r.op, id |-> r.id, done |-> TRUE]
    <3>1. served \in Requests /\ served.op = r.op /\ served.id = r.id /\ served.done = TRUE
      BY <2>1 DEF Requests
    <3> HIDE DEF served
    <3>2. served = [op |-> served.op, id |-> served.id, done |-> served.done]
      BY <3>1 DEF Requests
    <3>3. QED
      BY <3>1, <3>2
  <2>4. served \in Requests
    BY <2>2, <2>3 DEF Requests
  <2>5. QED
    BY <2>1, <2>2, <2>3, <2>4, Identifiers
<1> HIDE DEF served
<1>3. /\ StoreOK' /\ now' = now /\ DOMAIN owners' \subseteq DOMAIN owners \cup {r.id}
      /\ r.op # "acquire" => DOMAIN owners' \subseteq DOMAIN owners
  BY <1>1, <1>2, ExecuteIs, TypesOf DEF IInv
<1>4. strays' \subseteq Requests /\ \A e : Late(e) => Late(e)'
  <2>1. strays' \subseteq strays \cup {served}
    BY <1>1 DEF served
  <2>2. \A e : Late(e) => Late(e)'
    BY <1>1 DEF Late
  <2>3. QED
    BY <1>2, <2>1, <2>2, RestTyped DEF IInv
<1>5. \A e \in DOMAIN owners' \ Rival : e \in DOMAIN owners \/ Late(e)'
  <2>1. r.op = "acquire" => Late(r.id)'
    BY <1>1, <1>2 DEF Late, served
  <2>2. QED
    BY <1>3, <2>1
<1>6. lease' \in [Instance -> Nat]
  BY <1>1, <1>2, NoteTyped
<1>7. QED
  BY <1>1, <1>3, <1>4, <1>5, <1>6, OthersAct

LEMMA RivalActsKeeps == ASSUME IInv, NEW id \in Rival, RivalActs(id) PROVE IInv'
<1>1. /\ id \in Identifier /\ StoreOK
      /\ Server!AcquireScript(id, now) \/ Server!ReleaseScript(id)
      /\ UNCHANGED <<local, threads, strays, faults, lease>>
  BY Identifiers, TypesOf DEF RivalActs, IInv
<1>2. StoreOK' /\ now' = now /\ DOMAIN owners' \subseteq DOMAIN owners \cup {id}
  BY <1>1, AcquireIs, ReleaseIs
<1>3. QED
  BY <1>1, <1>2, OthersAct, RestTyped DEF IInv, Late

LEMMA TickKeeps == ASSUME IInv, Tick PROVE IInv'
<1>1. StoreOK' /\ now' = now + 1 /\ DOMAIN owners' \subseteq DOMAIN owners
  BY ClockIs, TypesOf DEF IInv, Tick
<1>2. \A t \in Thread : call[t] # NoCall => now < timer[t]
  <2> SUFFICES ASSUME NEW t \in Thread, call[t] # NoCall PROVE now < timer[t]
    OBVIOUS
  <2>1. ~(now >= timer[t])
    BY DEF Tick, Due
  <2>2. QED
    BY <2>1, CallTyped, TypesOf DEF IInv
<1>3. QED
  BY <1>1, <1>2, OthersAct, RestTyped DEF IInv, Late, Tick

LEMMA CrashKeeps == ASSUME IInv, NEW i \in Instance, Crash(i) PROVE IInv'
<1> DEFINE ts == {t \in Thread : t[1] = i}
<1>1. /\ Abandon(ts) /\ faults' \in 0 .. MaxFaults
      /\ pc' = [t \in Thread |-> IF t \notin ts THEN pc[t]
                                 ELSE IF t = Caller(i) THEN "crashed" ELSE "done"]
      /\ call' = [t \in Thread |-> IF t \in ts THEN NoCall ELSE call[t]]
      /\ timer' = [t \in Thread |-> IF t \in ts THEN 0 ELSE timer[t]]
      /\ UNCHANGED <<server, local, stopped, deadline, lease>>
  BY RestTyped, Constants DEF Crash, Fault, IInv
<1>2. strays \subseteq strays' /\ strays' \subseteq Requests
  BY <1>1, AbandonKeeps
<1>3. StoreOK' /\ now' = now /\ owners' = owners
  BY <1>1, ServerKept DEF IInv
<1>4. /\ ThreadTypes
      /\ \A t \in Thread : t[1] = i => /\ call'[t] = NoCall /\ timer'[t] = 0
                                       /\ pc'[t] = IF t = Caller(i) THEN "crashed" ELSE "done"
      /\ \A t \in Thread : t[1] # i => /\ call'[t] = call[t] /\ timer'[t] = timer[t]
                                       /\ pc'[t] = pc[t]
  BY <1>1, TypesOf DEF IInv
<1>5. ThreadTypes'
  BY <1>1, <1>4 DEF ThreadTypes, CallerSteps, BeatSteps
<1> HIDE DEF ts
<1>6. Typed'
  <2>1. \A j \in Instance : pc'[Caller(j)] \in CallerSteps
    BY <1>4, Threads, TypesOf DEF IInv, CallerSteps
  <2>2. \A g \in Heartbeat : pc'[g] \in BeatSteps
    BY <1>4, Threads, TypesOf DEF IInv, BeatSteps
  <2>3. \A u \in Thread : /\ timer'[u] \in Nat
                          /\ call'[u] = NoCall \/ [op |-> call'[u].op, id |-> call'[u].id] \in Request
    BY <1>5 DEF ThreadTypes, Calls, Request, Ops
  <2>4. TypeOK'
    BY <1>1, <1>2, <1>3, <2>1, <2>2, <2>3, RestTyped
       DEF IInv, TypeOK, CallerSteps, BeatSteps, StoreOK, Requests, Ops, local
  <2>5. QED
    BY <1>5, <2>4 DEF Typed, ThreadTypes
<1>7. \A u \in Thread : CallOK(u)'
  <2> SUFFICES ASSUME NEW u \in Thread PROVE CallOK(u)'
    OBVIOUS
  <2>1. CASE u[1] = i
    BY <1>4, <2>1, NoCallOK DEF Ops
  <2>2. CASE u[1] # i
    BY <1>1, <1>3, <1>4, <2>2 DEF IInv, CallOK, Mine, local
  <2>3. QED
    BY <2>1, <2>2
<1>8. \A j \in Instance : AcquisitionOK(j)'
  <2> SUFFICES ASSUME NEW j \in Instance PROVE AcquisitionOK(j)'
    OBVIOUS
  <2>1. /\ AcquisitionOK(j) /\ Beat(j)' = Beat(j) /\ Mine(j)' = Mine(j)
        /\ Caller(j) \in Thread /\ Caller(j)[1] = j
        /\ heartbeat[j] # 0 => Beat(j) \in Thread /\ Beat(j)[1] = j /\ Beat(j) # Caller(j)
    BY <1>1, Threads, TypesOf DEF IInv, local, Beat, Mine
  <2>2. CASE j = i
    BY <1>1, <1>4, <2>1, <2>2 DEF AcquisitionOK, local, Stopping
  <2>3. CASE j # i
    BY <1>1, <1>4, <2>1, <2>3 DEF AcquisitionOK, local
  <2>4. QED
    BY <2>2, <2>3
<1>9. \A h \in Heartbeat : pc'[h] = "unborn" => ~stopped'[h]
  BY <1>1, <1>4, Threads DEF IInv
<1>10. Slots'
  <2>1. SlotHasOwner'
    <3> SUFFICES ASSUME NEW e \in DOMAIN owners \ Rival
                 PROVE  identifier[e[1]] = e[2] \/ ~Alive(e[1])' \/ Late(e)'
      BY <1>1, <1>3 DEF SlotHasOwner, Late, Alive, local
    <3>1. e[1] \in Instance /\ (identifier[e[1]] = e[2] \/ ~Alive(e[1]) \/ Late(e))
      BY EntryOf DEF IInv, Slots, SlotHasOwner, Late
    <3>2. ~Alive(e[1]) => ~Alive(e[1])'
      BY <1>4, <3>1, Threads DEF Alive
    <3>3. QED
      BY <1>2, <3>1, <3>2 DEF Late
  <2>2. ASSUME NEW j \in Instance, pc'[Caller(j)] = "release", call'[Caller(j)].executed
        PROVE  Mine(j) \notin DOMAIN owners \/ Late(Mine(j))'
    <3>1. pc[Caller(j)] = "release" /\ call[Caller(j)].executed
      BY <1>4, <2>2, Threads
    <3>2. Mine(j)' = Mine(j)
      BY <1>1 DEF Mine, local
    <3>3. QED
      BY <1>2, <3>1, <3>2 DEF IInv, Slots, Late
  <2>3. QED
    BY <1>1, <1>3, <2>1, <2>2 DEF Slots, local, Mine
<1>11. QED
  BY <1>6, <1>7, <1>8, <1>9, <1>10 DEF IInv

LEMMA StutterKeeps == ASSUME IInv, UNCHANGED vars PROVE IInv'
<1>1. StoreOK' /\ now' = now /\ owners' = owners
  BY ServerKept DEF IInv, vars
<1>2. QED
  BY <1>1, OthersAct, RestTyped DEF IInv, Late, vars

LEMMA InitInvariant == Init => IInv
<1> SUFFICES ASSUME Init PROVE IInv
  OBVIOUS
<1>1. StoreOK /\ now = 0 /\ DOMAIN owners = {}
  BY FS_EmptySet, StoreIs DEF Init, Server!StoreInit, Server!NoOwners
<1>2. /\ \A i \in Instance : pc[Caller(i)] = "idle" /\ heartbeat[i] = 0 /\ identifier[i] = 0
      /\ \A h \in Heartbeat : pc[h] = "unborn" /\ ~stopped[h]
      /\ \A t \in Thread : call[t] = NoCall /\ timer[t] = 0
  BY Threads DEF Init
<1>3. ThreadTypes
  BY DEF Init, ThreadTypes, CallerSteps, BeatSteps
<1>4. TypeOK
  BY <1>1, <1>2, Constants DEF Init, TypeOK, StoreOK
<1>5. \A t \in Thread : CallOK(t)
  BY <1>2, Threads DEF CallOK, Ops
<1>6. \A i \in Instance : AcquisitionOK(i)
  BY <1>2 DEF AcquisitionOK, Stopping
<1>7. Slots
  BY <1>1, <1>2 DEF Slots, SlotHasOwner
<1>8. QED
  BY <1>2, <1>3, <1>4, <1>5, <1>6, <1>7 DEF IInv, Typed, ThreadTypes

LEMMA StepInvariant == IInv /\ [Next]_vars => IInv'
<1> SUFFICES ASSUME IInv, [Next]_vars PROVE IInv'
  OBVIOUS
<1>1. CASE UNCHANGED vars
  BY <1>1, StutterKeeps
<1>2. ASSUME NEW t \in Thread, Serve(t) \/ Resend(t) PROVE IInv'
  BY <1>2, ServeKeeps, ResendKeeps
<1>3. ASSUME NEW r \in strays, ServeStray(r) PROVE IInv'
  BY <1>3, ServeStrayKeeps
<1>4. ASSUME NEW h \in Heartbeat,
             HbAttempts(h) \/ HbRefreshed(h) \/ HbLoses(h) \/ HbRaises(h) \/ HbStops(h)
      PROVE  IInv'
  BY <1>4, HbAttemptsKeeps, HbRefreshedKeeps, HbLosesKeeps, HbRaisesKeeps, HbStopsKeeps
<1>5. ASSUME NEW i \in Instance,
             BeginAcquire(i) \/ Acquired(i) \/ Refused(i) \/ RetryAcquire(i) \/ AcquireTimesOut(i)
      PROVE  IInv'
  BY <1>5, BeginAcquireKeeps, AcquiredKeeps, RefusedKeeps, RetryAcquireKeeps, AcquireTimesOutKeeps
<1>6. ASSUME NEW i \in Instance,
             \/ BeginRelease(i) \/ JoinedForRelease(i) \/ Released(i) \/ BeginRefresh(i)
             \/ Refreshed(i) \/ RefreshFindsLost(i) \/ JoinedForLost(i) \/ CallRaises(i) \/ Crash(i)
      PROVE  IInv'
  BY <1>6, BeginReleaseKeeps, JoinedForReleaseKeeps, ReleasedKeeps, BeginRefreshKeeps,
     RefreshedKeeps, RefreshFindsLostKeeps, JoinedForLostKeeps, CallRaisesKeeps, CrashKeeps
<1>7. ASSUME NEW id \in Rival, RivalActs(id) PROVE IInv'
  BY <1>7, RivalActsKeeps
<1>8. CASE Tick
  BY <1>8, TickKeeps
<1>9. QED
  BY <1>1, <1>2, <1>3, <1>4, <1>5, <1>6, <1>7, <1>8 DEF Next

LEMMA Invariant == Spec => []IInv
<1>1. QED
  BY InitInvariant, StepInvariant, PTL DEF Spec

\* The threads, their calls and what the instance keeps of its acquisition always fit
\* together: an identifier is None only while nothing is held.
THEOREM TypeCorrect == Spec => []TypeOK
<1>1. IInv => TypeOK
  BY DEF IInv, Typed
<1>2. QED
  BY <1>1, Invariant, PTL

\* A failed acquire keeps its identifier and a failed release its state, so that no slot
\* is left to an entry of which nobody knows, but by an acquire that comes late.
THEOREM SlotsHaveOwners == Spec => []SlotHasOwner
<1>1. IInv => SlotHasOwner
  BY DEF IInv, Slots
<1>2. QED
  BY <1>1, Invariant, PTL

-----------------------------------------------------------------------------
(* What the steps of one instance leave alone.                               *)

\* The instance j does nothing.
Aside(j) ==
    /\ state'[j] = state[j] /\ lostEvent'[j] = lostEvent[j] /\ lease'[j] = lease[j]
    /\ heartbeat'[j] = heartbeat[j] /\ identifier'[j] = identifier[j]
    /\ \A u \in Thread : u[1] = j => /\ pc'[u] = pc[u] /\ call'[u] = call[u]
                                     /\ timer'[u] = timer[u]
    /\ \A h \in Heartbeat : h[1] = j => stopped'[h] = stopped[h] /\ deadline'[h] = deadline[h]

\* A step of a heartbeat: what it changes of its instance is that a lock is lost.
BeatStep(h) == HbAttempts(h) \/ HbRefreshed(h) \/ HbLoses(h) \/ HbRaises(h) \/ HbStops(h)

LEMMA BeatEffect ==
    ASSUME IInv, NEW h \in Heartbeat, BeatStep(h)
    PROVE  /\ Only(h) /\ UNCHANGED <<now, identifier, heartbeat, stopped, lease>>
           /\ \A j \in Instance : j # h[1] => Aside(j)
           /\ OnLost(h[1]) \/ UNCHANGED <<state, lostEvent>>
           /\ pc[h] \in {"wait", "refreshing"} /\ pc'[h] \in {"wait", "refreshing", "done"}
           /\ pc'[h] = "wait" => pc[h] = "refreshing"
           /\ pc'[h] = "refreshing" => /\ pc[h] = "wait" /\ ~stopped[h] /\ now >= timer[h]
                                       /\ timer'[h] = now + CallTimeout /\ ~call'[h].executed
                                       /\ deadline' = deadline
           /\ pc'[h] = "done" => stopped[h] \/ state'[h[1]] # "ACQUIRED"
           /\ \A g \in Heartbeat : g # h => deadline'[g] = deadline[g]
<1> DEFINE i == h[1]
<1>1. /\ h \in Thread /\ i \in Instance /\ ThreadTypes /\ now \in Nat
      /\ identifier[i] \in 0 .. MaxIdentifiers
  BY Threads, TypesOf DEF IInv
<1>2. /\ UNCHANGED <<now, identifier, heartbeat, stopped, lease>>
      /\ OnLost(i) \/ UNCHANGED <<state, lostEvent>>
      /\ pc[h] \in {"wait", "refreshing"}
      /\ \A g \in Heartbeat : g # h => deadline'[g] = deadline[g]
  <2>1. UNCHANGED <<now, identifier, heartbeat, stopped, lease>>
    BY DEF BeatStep, HbAttempts, HbRefreshed, HbLoses, HbRaises, HbStops, server, local
  <2>2. OnLost(i) \/ UNCHANGED <<state, lostEvent>>
    BY DEF BeatStep, HbAttempts, HbRefreshed, HbLoses, HbRaises, HbStops, local
  <2>3. pc[h] \in {"wait", "refreshing"}
    BY DEF BeatStep, HbAttempts, HbRefreshed, HbLoses, HbRaises, HbStops
  <2>4. \A g \in Heartbeat : g # h => deadline'[g] = deadline[g]
    BY RestTyped DEF IInv, BeatStep, HbAttempts, HbRefreshed, HbLoses, HbRaises, HbStops
  <2>5. QED
    BY <2>1, <2>2, <2>3, <2>4
<1>3. /\ Only(h) /\ pc'[h] \in {"wait", "refreshing", "done"}
      /\ (pc'[h] = "wait" => pc[h] = "refreshing")
      /\ (pc'[h] = "refreshing" => /\ pc[h] = "wait" /\ ~stopped[h] /\ now >= timer[h]
                                   /\ timer'[h] = now + CallTimeout /\ ~call'[h].executed
                                   /\ deadline' = deadline)
      /\ (pc'[h] = "done" => stopped[h] \/ state'[i] # "ACQUIRED")
  <2> "refreshing" \in CallerSteps \cup BeatSteps /\ "refresh" \in Ops /\ "wait" \in BeatSteps
         /\ "done" \in BeatSteps
    BY DEF BeatSteps, Ops
  <2>1. CASE HbAttempts(h) /\ state[i] = "ACQUIRED"
    <3>1. identifier[i] \in 1 .. MaxIdentifiers
      BY <1>1, <2>1, RestTyped, Constants DEF IInv
    <3>2. Send(h, "refreshing", "refresh", identifier[i])
      BY <2>1 DEF HbAttempts
    <3>3. Only(h) /\ pc'[h] = "refreshing" /\ timer'[h] = now + CallTimeout /\ ~call'[h].executed
      BY <1>1, <3>1, <3>2, SendEffect
    <3>4. QED
      BY <2>1, <3>3 DEF HbAttempts
  <2>2. CASE HbAttempts(h) /\ state[i] # "ACQUIRED"
    <3>1. Return(h, "done", 0) /\ state' = state
      BY <2>2 DEF HbAttempts, local
    <3>2. QED
      BY <1>1, <2>2, <3>1, ReturnEffect
  <2>3. CASE HbRefreshed(h)
    <3>1. now + RefreshInterval \in Nat /\ Return(h, "wait", now + RefreshInterval)
      BY <1>1, <2>3, Constants DEF HbRefreshed
    <3>2. QED
      BY <1>1, <2>3, <3>1, ReturnEffect DEF HbRefreshed
  <2>4. CASE HbLoses(h)
    <3>1. Return(h, "done", 0) /\ state'[i] # "ACQUIRED"
      BY <1>1, <2>4, RestTyped DEF HbLoses, OnLost, IInv
    <3>2. QED
      BY <1>1, <3>1, ReturnEffect
  <2>5. CASE HbRaises(h)
    <3>1. PICK permanent \in BOOLEAN :
              IF GivesUp(h, permanent)
              THEN Return(h, "done", 0) /\ OnLost(i)
              ELSE Return(h, "wait", now + RetryPause(h))
      BY <2>5 DEF HbRaises
    <3>2. CASE GivesUp(h, permanent)
      <4>1. Return(h, "done", 0) /\ state'[i] # "ACQUIRED"
        BY <1>1, <3>1, <3>2, RestTyped DEF OnLost, IInv
      <4>2. QED
        BY <1>1, <4>1, ReturnEffect
    <3>3. CASE ~GivesUp(h, permanent)
      <4>1. now < deadline[h] /\ deadline[h] \in Nat
        BY <1>1, <3>3, RestTyped DEF IInv, GivesUp
      <4>2. now + RetryPause(h) \in Nat
        BY <1>1, <4>1, Constants DEF RetryPause
      <4>3. QED
        BY <1>1, <2>5, <3>1, <3>3, <4>2, ReturnEffect DEF HbRaises
    <3>4. QED
      BY <3>2, <3>3
  <2>6. CASE HbStops(h)
    <3>1. Return(h, "done", 0) /\ stopped[h]
      BY <2>6 DEF HbStops
    <3>2. QED
      BY <1>1, <3>1, ReturnEffect
  <2>7. QED
    BY <2>1, <2>2, <2>3, <2>4, <2>5, <2>6 DEF BeatStep
<1>4. \A j \in Instance : j # i => Aside(j)
  <2> SUFFICES ASSUME NEW j \in Instance, j # i PROVE Aside(j)
    OBVIOUS
  <2>1. state'[j] = state[j] /\ lostEvent'[j] = lostEvent[j]
    BY <1>1, <1>2, RestTyped DEF OnLost, IInv
  <2>2. QED
    BY <1>1, <1>2, <1>3, <2>1 DEF Aside, Only
<1>5. QED
  BY <1>2, <1>3, <1>4

\* A step of the caller, but for the start of a heartbeat.
CallerStep(i) ==
    \/ BeginAcquire(i) \/ (Acquired(i) /\ heartbeat[i] # 0) \/ Refused(i) \/ RetryAcquire(i)
    \/ AcquireTimesOut(i) \/ BeginRelease(i) \/ JoinedForRelease(i) \/ Released(i)
    \/ BeginRefresh(i) \/ Refreshed(i) \/ RefreshFindsLost(i) \/ JoinedForLost(i) \/ CallRaises(i)

\* It makes a call, starts to wait for its heartbeat, or is back from either.
Moved(i) ==
    /\ Only(Caller(i))
    /\ pc'[Caller(i)] = "acquire" => ~call'[Caller(i)].executed
    /\ pc'[Caller(i)] \in Stopping =>
           /\ timer'[Caller(i)] = now + 2 * RefreshInterval
           /\ heartbeat' = heartbeat
           /\ pc'[Caller(i)] = "stop_lost" => state'[i] = "LOST"
    /\ \A h \in Heartbeat : stopped'[h] # stopped[h] =>
           h = Beat(i) /\ pc'[Caller(i)] \in Stopping
    /\ pc'[Caller(i)] # "crashed"

LEMMA CallerMoves ==
    ASSUME IInv, NEW i \in Instance, CallerStep(i)
    PROVE  Moved(i) /\ UNCHANGED <<now, deadline>>
<1> DEFINE c == Caller(i)
<1>1. /\ c \in Thread /\ c[1] = i /\ ThreadTypes /\ now \in Nat
      /\ heartbeat[i] # 0 => Beat(i) \in Heartbeat
  BY Threads, TypesOf DEF IInv
<1>2. UNCHANGED <<now, deadline>>
  <2>1. CASE Acquired(i) /\ heartbeat[i] # 0
    BY <2>1 DEF Acquired, StartHeartbeat, server
  <2>2. CASE ~(Acquired(i) /\ heartbeat[i] # 0)
    BY <2>2 DEF CallerStep, BeginAcquire, Refused, RetryAcquire, AcquireTimesOut, BeginRelease,
                JoinedForRelease, Released, BeginRefresh, Refreshed, RefreshFindsLost,
                JoinedForLost, CallRaises, server, local
  <2>3. QED
    BY <2>1, <2>2
<1> SUFFICES Moved(i)
  BY <1>2
<1>3. ASSUME NEW step \in Ops, NEW k \in 1 .. MaxIdentifiers, Send(c, step, step, k)
      PROVE  Only(c) /\ pc'[c] = step /\ ~call'[c].executed
  <2>1. step \in CallerSteps \cup BeatSteps
    BY <1>3 DEF CallerSteps, Ops
  <2>2. QED
    BY <1>1, <1>3, <2>1, SendEffect
<1>4. ASSUME NEW step \in {"idle", "blocked"}, Return(c, step, 0)
      PROVE  Only(c) /\ pc'[c] = step
  BY <1>1, <1>4, ReturnEffect DEF CallerSteps
<1>5. ASSUME NEW step \in Stopping, heartbeat[i] # 0, StopHeartbeat(i, step),
             \A u \in Thread : u # c => call'[u] = call[u]
      PROVE  /\ Only(c) /\ pc'[c] = step /\ timer'[c] = now + 2 * RefreshInterval
             /\ \A h \in Heartbeat : stopped'[h] # stopped[h] => h = Beat(i)
  BY <1>1, <1>5, RestTyped DEF StopHeartbeat, Only, ThreadTypes, Beat, IInv
<1>6. ASSUME NEW step \in Ops, Send(c, step, step, identifier'[i]), identifier'[i] # 0,
             identifier'[i] \in 0 .. MaxIdentifiers, UNCHANGED stopped
      PROVE  Moved(i)
  <2>1. identifier'[i] \in 1 .. MaxIdentifiers
    BY <1>6, Constants
  <2>2. Only(c) /\ pc'[c] = step /\ ~call'[c].executed
    BY <1>3, <1>6, <2>1
  <2>3. QED
    BY <1>6, <2>2 DEF Moved, Stopping, Ops
<1>7. ASSUME NEW step \in {"idle", "blocked"}, Return(c, step, 0), UNCHANGED stopped
      PROVE  Moved(i)
  BY <1>4, <1>7 DEF Moved, Stopping
<1>8. identifier[i] \in 0 .. MaxIdentifiers /\ (pc[c] \notin {"idle", "crashed"} => identifier[i] # 0)
  BY RestTyped DEF IInv, AcquisitionOK
<1>9. CASE BeginAcquire(i)
  <2>1. identifier'[i] # 0 /\ identifier'[i] \in 0 .. MaxIdentifiers
    <3>1. made[i] \in 0 .. MaxIdentifiers /\ MaxIdentifiers \in Nat
      BY RestTyped, Constants DEF IInv
    <3>2. QED
      BY <1>9, <3>1, RestTyped DEF BeginAcquire, UseIdentifier, NewIdentifier, IInv
  <2>2. Send(c, "acquire", "acquire", identifier'[i]) /\ UNCHANGED stopped
    BY <1>9 DEF BeginAcquire
  <2>3. QED
    BY <1>6, <2>1, <2>2 DEF Ops
<1>10. CASE RetryAcquire(i)
  <2>1. Send(c, "acquire", "acquire", identifier'[i]) /\ UNCHANGED <<stopped, identifier>>
        /\ pc[c] = "blocked"
    BY <1>10 DEF RetryAcquire, local
  <2>2. QED
    BY <1>6, <1>8, <2>1 DEF Ops
<1>11. CASE BeginRelease(i) /\ heartbeat[i] = 0
  <2>1. Send(c, "release", "release", identifier'[i]) /\ UNCHANGED <<stopped, identifier>>
        /\ identifier[i] # 0
    BY <1>11 DEF BeginRelease, local
  <2>2. QED
    BY <1>6, <1>8, <2>1 DEF Ops
<1>12. CASE JoinedForRelease(i)
  <2>1. Send(c, "release", "release", identifier'[i]) /\ UNCHANGED <<stopped, identifier>>
        /\ pc[c] = "stop_release"
    BY <1>12 DEF JoinedForRelease
  <2>2. QED
    BY <1>6, <1>8, <2>1 DEF Ops
<1>13. CASE BeginRefresh(i)
  <2>1. Send(c, "refresh", "refresh", identifier'[i]) /\ UNCHANGED <<stopped, identifier>>
        /\ identifier[i] # 0
    BY <1>13, RestTyped DEF BeginRefresh, local, IInv
  <2>2. QED
    BY <1>6, <1>8, <2>1 DEF Ops
<1>14. CASE Acquired(i) /\ heartbeat[i] # 0
  BY <1>7, <1>14 DEF Acquired, StartHeartbeat
<1>15. CASE Refused(i)
  <2>1. PICK step \in {"idle", "blocked"} : Return(c, step, 0)
    BY <1>15 DEF Refused
  <2>2. QED
    BY <1>7, <1>15, <2>1 DEF Refused
<1>16. CASE AcquireTimesOut(i) \/ Released(i) \/ Refreshed(i) \/ JoinedForLost(i) \/ CallRaises(i)
  <2>1. Return(c, "idle", 0) /\ UNCHANGED stopped
    BY <1>16 DEF AcquireTimesOut, Released, Refreshed, JoinedForLost, CallRaises
  <2>2. QED
    BY <1>7, <2>1
<1>17. CASE RefreshFindsLost(i) /\ heartbeat[i] = 0
  <2>1. Return(c, "idle", 0) /\ UNCHANGED stopped
    BY <1>17 DEF RefreshFindsLost, Return
  <2>2. QED
    BY <1>7, <2>1
<1>18. CASE BeginRelease(i) /\ heartbeat[i] # 0
  <2>1. StopHeartbeat(i, "stop_release") /\ call' = call /\ heartbeat' = heartbeat
    BY <1>18 DEF BeginRelease, local
  <2>2. /\ Only(c) /\ pc'[c] = "stop_release" /\ timer'[c] = now + 2 * RefreshInterval
        /\ \A h \in Heartbeat : stopped'[h] # stopped[h] => h = Beat(i)
    BY <1>5, <1>18, <2>1 DEF Stopping
  <2>3. QED
    BY <2>1, <2>2 DEF Moved, Stopping
<1>19. CASE RefreshFindsLost(i) /\ heartbeat[i] # 0
  <2>1. /\ StopHeartbeat(i, "stop_lost") /\ heartbeat' = heartbeat /\ state'[i] = "LOST"
        /\ \A u \in Thread : u # c => call'[u] = call[u]
    BY <1>1, <1>19, RestTyped DEF RefreshFindsLost, ThreadTypes, IInv
  <2>2. /\ Only(c) /\ pc'[c] = "stop_lost" /\ timer'[c] = now + 2 * RefreshInterval
        /\ \A h \in Heartbeat : stopped'[h] # stopped[h] => h = Beat(i)
    BY <1>5, <1>19, <2>1 DEF Stopping
  <2>3. QED
    BY <2>1, <2>2 DEF Moved, Stopping
<1>20. QED
  BY <1>9, <1>10, <1>11, <1>12, <1>13, <1>14, <1>15, <1>16, <1>17, <1>18, <1>19 DEF CallerStep

\* What becomes of the acquisition.
LEMMA CallerEffect ==
    ASSUME IInv, NEW i \in Instance, CallerStep(i)
    PROVE  /\ \A j \in Instance : j # i => Aside(j)
           /\ pc[Caller(i)] # "crashed"
           /\ pc[Caller(i)] \in {"stop_release", "release"} => heartbeat'[i] = 0
           /\ heartbeat'[i] # heartbeat[i] =>
                  heartbeat'[i] = 0 /\ Joined(i) /\ pc[Caller(i)] \in Stopping
           /\ lease'[i] # lease[i] => lease'[i] = 0 /\ heartbeat'[i] = 0
           /\ pc'[Caller(i)] \in {"acquire", "blocked"} =>
                  /\ state'[i] = state[i]
                  /\ pc[Caller(i)] \in {"acquire", "blocked"} \/ MayAcquire(i)
           /\ \/ state'[i] = state[i] /\ lostEvent'[i] = lostEvent[i]
              \/ /\ state'[i] = "RELEASED" /\ lostEvent'[i] = FALSE /\ heartbeat'[i] = 0
                 /\ Released(i)
              \/ state'[i] = "LOST" /\ lostEvent'[i] = TRUE /\ RefreshFindsLost(i)
              \/ Acquired(i) /\ heartbeat[i] # 0
<1> DEFINE c == Caller(i)
<1>1. /\ c \in Thread /\ c \notin Heartbeat /\ c[1] = i /\ ThreadTypes
      /\ heartbeat[i] # 0 => Beat(i) \in Heartbeat /\ Beat(i)[1] = i
  BY Threads, TypesOf DEF IInv
<1>2. /\ state \in [Instance -> {"RELEASED", "ACQUIRED", "LOST"}]
      /\ lostEvent \in [Instance -> BOOLEAN] /\ heartbeat \in [Instance -> 0 .. MaxHeartbeats]
      /\ identifier \in [Instance -> 0 .. MaxIdentifiers] /\ lease \in [Instance -> Nat]
  BY RestTyped DEF IInv
<1>3. /\ \A j \in Instance : j # i =>
             /\ state'[j] = state[j] /\ lostEvent'[j] = lostEvent[j] /\ lease'[j] = lease[j]
             /\ heartbeat'[j] = heartbeat[j] /\ identifier'[j] = identifier[j]
  <2>1. CASE BeginAcquire(i)
    BY <1>2, <2>1 DEF BeginAcquire, UseIdentifier, NewIdentifier
  <2>2. CASE Acquired(i) /\ heartbeat[i] # 0
    BY <1>2, <2>2 DEF Acquired, StartHeartbeat
  <2>3. CASE JoinedForRelease(i) \/ Released(i) \/ RefreshFindsLost(i) \/ JoinedForLost(i)
    BY <1>2, <2>3 DEF JoinedForRelease, Released, ResetState, RefreshFindsLost, JoinedForLost
  <2>4. CASE \/ Refused(i) \/ RetryAcquire(i) \/ AcquireTimesOut(i) \/ BeginRelease(i)
             \/ BeginRefresh(i) \/ Refreshed(i) \/ CallRaises(i)
    BY <2>4 DEF Refused, RetryAcquire, AcquireTimesOut, BeginRelease, BeginRefresh, Refreshed,
                CallRaises, local
  <2>5. QED
    BY <2>1, <2>2, <2>3, <2>4 DEF CallerStep
<1>4. \A j \in Instance : j # i => Aside(j)
  <2> SUFFICES ASSUME NEW j \in Instance, j # i PROVE Aside(j)
    OBVIOUS
  <2>1. Moved(i) /\ deadline' = deadline
    BY CallerMoves
  <2>2. \A u \in Thread : u[1] = j => u # c
    BY <1>1
  <2>3. \A h \in Heartbeat : h[1] = j => stopped'[h] = stopped[h]
    <3>1. heartbeat[i] = 0 => pc'[c] \notin Stopping
      <4>1. CASE heartbeat'[i] # 0
        BY <2>1, <4>1 DEF Moved
      <4>2. CASE pc'[c] \in Stopping
        <5>1. heartbeat' = heartbeat /\ IInv'
          BY <2>1, <4>2, StepInvariant DEF Moved, CallerStep, Next
        <5>2. QED
          BY <4>2, <5>1 DEF IInv, AcquisitionOK
      <4>3. QED
        BY <4>2
    <3>2. QED
      BY <1>1, <2>1, <3>1 DEF Moved
  <2>4. QED
    BY <1>3, <2>1, <2>2, <2>3 DEF Aside, Moved, Only
<1>5. pc[c] # "crashed"
  BY DEF CallerStep, BeginAcquire, Acquired, Refused, RetryAcquire, AcquireTimesOut, BeginRelease,
         JoinedForRelease, Released, BeginRefresh, Refreshed, RefreshFindsLost, JoinedForLost,
         CallRaises
<1>6. /\ (pc[c] \in {"stop_release", "release"} => heartbeat'[i] = 0)
      /\ (heartbeat'[i] # heartbeat[i] => heartbeat'[i] = 0 /\ Joined(i) /\ pc[c] \in Stopping)
      /\ (lease'[i] # lease[i] => lease'[i] = 0 /\ heartbeat'[i] = 0)
  <2> pc[c] = "release" => heartbeat[i] = 0
    BY DEF IInv, AcquisitionOK
  <2>1. CASE JoinedForRelease(i) \/ JoinedForLost(i)
    BY <1>2, <2>1 DEF JoinedForRelease, JoinedForLost, Stopping
  <2>2. CASE Released(i)
    BY <1>2, <2>2 DEF Released
  <2>3. CASE Acquired(i) /\ heartbeat[i] # 0
    BY <2>3 DEF Acquired, StartHeartbeat
  <2>4. CASE BeginAcquire(i) \/ RefreshFindsLost(i)
    BY <2>4 DEF BeginAcquire, RefreshFindsLost
  <2>5. CASE \/ Refused(i) \/ RetryAcquire(i) \/ AcquireTimesOut(i) \/ BeginRelease(i)
             \/ BeginRefresh(i) \/ Refreshed(i) \/ CallRaises(i)
    BY <2>5 DEF Refused, RetryAcquire, AcquireTimesOut, BeginRelease, BeginRefresh, Refreshed,
                CallRaises, local
  <2>6. QED
    BY <2>1, <2>2, <2>3, <2>4, <2>5 DEF CallerStep
<1>7. pc'[c] \in {"acquire", "blocked"} =>
          /\ state'[i] = state[i]
          /\ pc[c] \in {"acquire", "blocked"} \/ MayAcquire(i)
  <2>1. CASE BeginAcquire(i)
    BY <2>1 DEF BeginAcquire
  <2>2. CASE Refused(i) \/ RetryAcquire(i)
    BY <2>2 DEF Refused, RetryAcquire, local
  <2>3. CASE \/ (Acquired(i) /\ heartbeat[i] # 0) \/ AcquireTimesOut(i) \/ Released(i)
             \/ Refreshed(i) \/ JoinedForLost(i) \/ CallRaises(i)
    <3>1. pc'[c] = "idle"
      BY <1>1, <2>3 DEF Acquired, StartHeartbeat, AcquireTimesOut, Released, Refreshed,
                        JoinedForLost, CallRaises, Return, ThreadTypes
    <3>2. QED
      BY <3>1
  <2>4. CASE BeginRelease(i) \/ JoinedForRelease(i) \/ BeginRefresh(i) \/ RefreshFindsLost(i)
    <3>1. pc'[c] \in {"stop_release", "release", "refresh", "stop_lost", "idle"}
      BY <1>1, <2>4 DEF BeginRelease, JoinedForRelease, BeginRefresh, RefreshFindsLost,
                        StopHeartbeat, Send, ThreadTypes
    <3>2. QED
      BY <3>1
  <2>5. QED
    BY <2>1, <2>2, <2>3, <2>4 DEF CallerStep
<1>8. \/ state'[i] = state[i] /\ lostEvent'[i] = lostEvent[i]
      \/ /\ state'[i] = "RELEASED" /\ lostEvent'[i] = FALSE /\ heartbeat'[i] = 0
         /\ Released(i)
      \/ state'[i] = "LOST" /\ lostEvent'[i] = TRUE /\ RefreshFindsLost(i)
      \/ Acquired(i) /\ heartbeat[i] # 0
  <2>1. CASE Released(i)
    BY <1>2, <2>1 DEF Released, ResetState, IInv, AcquisitionOK
  <2>2. CASE RefreshFindsLost(i)
    BY <1>2, <2>2 DEF RefreshFindsLost
  <2>3. CASE BeginAcquire(i) \/ JoinedForRelease(i) \/ JoinedForLost(i)
    BY <2>3 DEF BeginAcquire, JoinedForRelease, JoinedForLost
  <2>4. CASE \/ Refused(i) \/ RetryAcquire(i) \/ AcquireTimesOut(i) \/ BeginRelease(i)
             \/ BeginRefresh(i) \/ Refreshed(i) \/ CallRaises(i)
    BY <2>4 DEF Refused, RetryAcquire, AcquireTimesOut, BeginRelease, BeginRefresh, Refreshed,
                CallRaises, local
  <2>5. QED
    BY <2>1, <2>2, <2>3, <2>4 DEF CallerStep
<1>9. QED
  BY <1>4, <1>5, <1>6, <1>7, <1>8

\* The caller has acquired, and starts a heartbeat.
StartStep(i) == Acquired(i) /\ heartbeat[i] = 0

LEMMA StartEffect ==
    ASSUME IInv, NEW i \in Instance, StartStep(i)
    PROVE  /\ UNCHANGED <<now, stopped, lease, lostEvent>> /\ \A j \in Instance : j # i => Aside(j)
           /\ pc[Caller(i)] = "acquire" /\ Answered(Caller(i)) /\ call[Caller(i)].ok
           /\ pc'[Caller(i)] = "idle" /\ state'[i] = "ACQUIRED"
           /\ heartbeat[i] = 0 /\ heartbeat'[i] # 0
           /\ Beat(i)' \in Heartbeat /\ Beat(i)'[1] = i
           /\ pc[Beat(i)'] = "unborn" /\ pc'[Beat(i)'] = "wait"
           /\ timer'[Beat(i)'] = now + RefreshInterval /\ deadline'[Beat(i)'] = now + LockTimeout
           /\ \A h \in Heartbeat : h # Beat(i)' => pc'[h] = pc[h] /\ timer'[h] = timer[h]
<1>1. PICK k \in 1 .. MaxHeartbeats :
           /\ heartbeat[i] = 0
           /\ pc[<<i, k>>] = "unborn"
           /\ heartbeat' = [heartbeat EXCEPT ![i] = k]
           /\ pc' = [pc EXCEPT ![Caller(i)] = "idle", ![<<i, k>>] = "wait"]
           /\ call' = [call EXCEPT ![Caller(i)] = NoCall]
           /\ timer' = [timer EXCEPT ![Caller(i)] = 0, ![<<i, k>>] = now + RefreshInterval]
           /\ deadline' = [deadline EXCEPT ![<<i, k>>] = now + LockTimeout]
  BY DEF StartStep, Acquired, StartHeartbeat
<1>2. /\ pc[Caller(i)] = "acquire" /\ Answered(Caller(i)) /\ call[Caller(i)].ok
      /\ state' = [state EXCEPT ![i] = "ACQUIRED"]
      /\ UNCHANGED <<now, identifier, lostEvent, stopped, lease>>
  BY DEF StartStep, Acquired, server
<1> DEFINE c == Caller(i)
           h == <<i, k>>
<1>3. /\ c \in Thread /\ c \notin Heartbeat /\ c[1] = i /\ ThreadTypes
      /\ h \in Heartbeat /\ h \in Thread /\ h[1] = i /\ h # c /\ k # 0
      /\ \A g \in Heartbeat : g \in Thread /\ g # c
  BY Threads, TypesOf DEF IInv
<1>4. /\ state \in [Instance -> {"RELEASED", "ACQUIRED", "LOST"}]
      /\ heartbeat \in [Instance -> 0 .. MaxHeartbeats] /\ deadline \in [Heartbeat -> Nat]
  BY RestTyped DEF IInv
<1> HIDE DEF c, h
<1>5. heartbeat'[i] = k /\ Beat(i)' = h /\ state'[i] = "ACQUIRED"
  BY <1>1, <1>2, <1>4 DEF Beat, h
<1>6. /\ pc'[c] = "idle" /\ pc'[h] = "wait" /\ timer'[h] = now + RefreshInterval
      /\ deadline'[h] = now + LockTimeout
      /\ \A u \in Thread : u # c /\ u # h => /\ pc'[u] = pc[u] /\ call'[u] = call[u]
                                              /\ timer'[u] = timer[u]
      /\ \A g \in Heartbeat : g # h => deadline'[g] = deadline[g]
  BY <1>1, <1>3, <1>4 DEF ThreadTypes, c, h
<1>7. ASSUME NEW j \in Instance, j # i PROVE Aside(j)
  BY <1>1, <1>2, <1>3, <1>4, <1>6, <1>7, ZenonT(30) DEF Aside
<1>8. QED
  BY <1>1, <1>2, <1>3, <1>5, <1>6, <1>7 DEF c, h

LEMMA CrashEffect ==
    ASSUME IInv, NEW i \in Instance, Crash(i)
    PROVE  /\ UNCHANGED <<now, local, stopped, deadline, lease>>
           /\ \A j \in Instance : j # i => Aside(j)
           /\ pc'[Caller(i)] = "crashed" /\ \A h \in Heartbeat : h[1] = i => pc'[h] = "done"
<1>1. /\ pc' = [t \in Thread |-> IF t \notin {u \in Thread : u[1] = i} THEN pc[t]
                                 ELSE IF t = Caller(i) THEN "crashed" ELSE "done"]
      /\ call' = [t \in Thread |-> IF t \in {u \in Thread : u[1] = i} THEN NoCall ELSE call[t]]
      /\ timer' = [t \in Thread |-> IF t \in {u \in Thread : u[1] = i} THEN 0 ELSE timer[t]]
      /\ UNCHANGED <<server, local, stopped, deadline, lease>>
  BY DEF Crash
<1>2. \A t \in Thread : /\ t[1] # i => /\ pc'[t] = pc[t] /\ call'[t] = call[t]
                                       /\ timer'[t] = timer[t]
                        /\ t[1] = i => pc'[t] = IF t = Caller(i) THEN "crashed" ELSE "done"
  BY <1>1
<1>3. QED
  BY <1>1, <1>2, Threads DEF Aside, local, server

\* A step of the server, or of time, or of nobody.
ServerStep ==
    \/ \E t \in Thread : Serve(t) \/ Resend(t)
    \/ \E r \in strays : ServeStray(r)
    \/ \E id \in Rival : RivalActs(id)
    \/ Tick
    \/ UNCHANGED vars

LEMMA ServerEffect ==
    ASSUME IInv, ServerStep
    PROVE  UNCHANGED <<local, pc, timer, stopped, deadline>> /\ (now' = now \/ (now' = now + 1 /\ Tick))
<1>1. ASSUME NEW op \in Ops, NEW id \in Identifier, Execute(op, id) PROVE now' = now
  BY <1>1, ExecuteIs, TypesOf DEF IInv
<1>2. CASE \E t \in Thread : Serve(t) \/ Resend(t)
  <2>1. PICK t \in Thread : Serve(t) \/ Resend(t)
    BY <1>2
  <2>2. Serve(t) => call[t].op \in Ops /\ call[t].id \in Identifier
    BY CallTyped, Identifiers DEF Serve, Sent
  <2>3. now' = now
    BY <1>1, <2>1, <2>2 DEF Serve, Resend, server
  <2>4. UNCHANGED <<local, pc, timer, stopped, deadline>>
    BY <2>1 DEF Serve, Resend
  <2>5. QED
    BY <2>3, <2>4
<1>3. CASE \E r \in strays : ServeStray(r)
  <2>1. PICK r \in strays : ServeStray(r)
    BY <1>3
  <2>2. r \in Requests
    BY RestTyped DEF IInv
  <2>3. r.op \in Ops /\ r.id \in Identifier
    BY <2>2, Identifiers DEF Requests
  <2>4. now' = now
    BY <1>1, <2>1, <2>3 DEF ServeStray
  <2>5. UNCHANGED <<local, pc, timer, stopped, deadline>>
    BY <2>1 DEF ServeStray, threads
  <2>6. QED
    BY <2>4, <2>5
<1>4. CASE \E id \in Rival : RivalActs(id)
  <2>1. PICK id \in Rival : RivalActs(id)
    BY <1>4
  <2>2. now' = now
    BY <2>1, Identifiers, TypesOf, AcquireIs, ReleaseIs DEF RivalActs, IInv
  <2>3. UNCHANGED <<local, pc, timer, stopped, deadline>>
    BY <2>1 DEF RivalActs, threads
  <2>4. QED
    BY <2>2, <2>3
<1>5. CASE Tick
  <2>1. now' = now + 1
    BY <1>5, ClockIs, TypesOf DEF Tick, IInv
  <2>2. UNCHANGED <<local, pc, timer, stopped, deadline>>
    BY <1>5 DEF Tick, threads
  <2>3. QED
    BY <1>5, <2>1, <2>2
<1>6. CASE UNCHANGED vars
  <2>1. now' = now
    BY <1>6 DEF vars, server
  <2>2. UNCHANGED <<local, pc, timer, stopped, deadline>>
    BY <1>6 DEF vars, threads
  <2>3. QED
    BY <2>1, <2>2
<1>7. QED
  BY <1>2, <1>3, <1>4, <1>5, <1>6 DEF ServerStep

\* Every step is one of these.
LEMMA Kinds ==
    ASSUME [Next]_vars
    PROVE  \/ ServerStep
           \/ \E h \in Heartbeat : BeatStep(h)
           \/ \E i \in Instance : CallerStep(i) \/ StartStep(i) \/ Crash(i)
<1>1. CASE \E i \in Instance : Acquired(i)
  <2>1. PICK i \in Instance : Acquired(i)
    BY <1>1
  <2>2. CallerStep(i) \/ StartStep(i)
    BY <2>1 DEF CallerStep, StartStep
  <2>3. QED
    BY <2>2
<1>2. CASE ~\E i \in Instance : Acquired(i)
  BY <1>2 DEF Next, ServerStep, BeatStep, CallerStep
<1>3. QED
  BY <1>1, <1>2

-----------------------------------------------------------------------------
(* In strict mode, and with FORBID: what is known of a loss.                 *)

LEMMA MineIsThere ==
    ASSUME IInv, NEW i \in Instance
    PROVE  /\ Caller(i) \in Thread /\ Caller(i)[1] = i
           /\ heartbeat[i] # 0 => /\ Beat(i) \in Heartbeat /\ Beat(i) \in Thread /\ Beat(i)[1] = i
                                  /\ Beat(i) # Caller(i)
           /\ state[i] \in {"RELEASED", "ACQUIRED", "LOST"} /\ lostEvent[i] \in BOOLEAN
BY Threads, TypesOf, RestTyped DEF IInv

LEMMA AsideCareful ==
    ASSUME IInv, NEW j \in Instance, Aside(j), CarefulOK(j)
    PROVE  CarefulOK(j)'
<1>1. Beat(j)' = Beat(j) /\ Caller(j)' = Caller(j)
  BY DEF Aside, Beat, Caller
<1>2. /\ pc'[Caller(j)] = pc[Caller(j)]
      /\ heartbeat[j] # 0 => pc'[Beat(j)] = pc[Beat(j)] /\ stopped'[Beat(j)] = stopped[Beat(j)]
  BY MineIsThere DEF Aside
<1>3. QED
  BY <1>1, <1>2 DEF CarefulOK, Aside, Holds, Alive

LEMMA CarefulStep == ASSUME Careful PROVE CarefulInv /\ [Next]_vars => CarefulInv'
<1> SUFFICES ASSUME CarefulInv, [Next]_vars PROVE CarefulInv'
  OBVIOUS
<1>1. IInv /\ IInv' /\ \A j \in Instance : CarefulOK(j)
  BY StepInvariant DEF CarefulInv
<1>2. CASE ServerStep
  <2>1. UNCHANGED <<local, pc, stopped>>
    BY <1>1, <1>2, ServerEffect
  <2>2. \A j \in Instance : CarefulOK(j)'
    BY <1>1, <2>1 DEF CarefulOK, Holds, Alive, Beat, local
  <2>3. QED
    BY <1>1, <2>2 DEF CarefulInv
<1>3. ASSUME NEW h \in Heartbeat, BeatStep(h) PROVE CarefulInv'
  <2> DEFINE i == h[1]
  <2>1. i \in Instance /\ h \in Thread /\ Caller(i) # h
    BY Threads
  <2>2. /\ Only(h) /\ UNCHANGED <<heartbeat, stopped>>
        /\ \A j \in Instance : j # i => Aside(j)
        /\ OnLost(i) \/ UNCHANGED <<state, lostEvent>>
        /\ pc'[h] \in {"wait", "refreshing", "done"}
        /\ (pc'[h] = "done" => stopped[h] \/ state'[i] # "ACQUIRED")
    BY <1>1, <1>3, BeatEffect
  <2>3. CarefulOK(i)'
    <3> HIDE DEF i
    <3>1. /\ pc'[Caller(i)] = pc[Caller(i)] /\ Beat(i)' = Beat(i)
          /\ heartbeat[i] # 0 /\ Beat(i) # h => pc'[Beat(i)] = pc[Beat(i)]
      BY <1>1, <2>1, <2>2, MineIsThere DEF Only, Beat
    <3>2. \/ state'[i] = state[i] /\ lostEvent'[i] = lostEvent[i]
          \/ state[i] = "ACQUIRED" /\ state'[i] = "LOST" /\ lostEvent'[i] = TRUE
      <4>1. state \in [Instance -> {"RELEASED", "ACQUIRED", "LOST"}] /\ lostEvent \in [Instance -> BOOLEAN]
        BY <1>1, RestTyped DEF IInv
      <4>2. CASE OnLost(i) /\ state[i] = "ACQUIRED"
        BY <2>1, <4>1, <4>2 DEF OnLost
      <4>3. CASE ~(OnLost(i) /\ state[i] = "ACQUIRED")
        BY <2>2, <4>3 DEF OnLost
      <4>4. QED
        BY <4>2, <4>3
    <3>3. /\ lostEvent[i] <=> state[i] = "LOST"
          /\ Holds(i) /\ heartbeat[i] # 0 =>
                 pc[Beat(i)] \in {"wait", "refreshing"} /\ ~stopped[Beat(i)]
          /\ pc[Caller(i)] \in {"acquire", "blocked"} => state[i] = "RELEASED"
          /\ state[i] = "RELEASED" => heartbeat[i] = 0
      BY <1>1, <2>1 DEF CarefulOK
    <3>4. Holds(i)' => Holds(i) /\ state'[i] = "ACQUIRED"
      BY <3>1, <3>2 DEF Holds, Alive
    <3>5. QED
      BY <2>2, <3>1, <3>2, <3>3, <3>4 DEF CarefulOK, i
  <2>4. QED
    BY <1>1, <2>2, <2>3, AsideCareful DEF CarefulInv
<1>4. ASSUME NEW i \in Instance, CallerStep(i) PROVE CarefulInv'
  <2> DEFINE c == Caller(i)
  <2>1. /\ Only(c) /\ (pc'[c] \in Stopping => (pc'[c] = "stop_lost" => state'[i] = "LOST"))
        /\ \A h \in Heartbeat : stopped'[h] # stopped[h] => h = Beat(i) /\ pc'[c] \in Stopping
    BY <1>1, <1>4, CallerMoves DEF Moved
  <2>2. /\ \A j \in Instance : j # i => Aside(j)
        /\ pc[c] # "crashed"
        /\ (pc[c] \in {"stop_release", "release"} => heartbeat'[i] = 0)
        /\ (heartbeat'[i] # heartbeat[i] => heartbeat'[i] = 0)
        /\ (pc'[c] \in {"acquire", "blocked"} =>
                state'[i] = state[i] /\ (pc[c] \in {"acquire", "blocked"} \/ MayAcquire(i)))
        /\ \/ state'[i] = state[i] /\ lostEvent'[i] = lostEvent[i]
           \/ state'[i] = "RELEASED" /\ lostEvent'[i] = FALSE /\ heartbeat'[i] = 0
           \/ state'[i] = "LOST" /\ lostEvent'[i] = TRUE
           \/ Acquired(i) /\ heartbeat[i] # 0
    BY <1>1, <1>4, CallerEffect
  <2>3. /\ lostEvent[i] <=> state[i] = "LOST"
        /\ Holds(i) /\ heartbeat[i] # 0 =>
               pc[Beat(i)] \in {"wait", "refreshing"} /\ ~stopped[Beat(i)]
        /\ pc[c] \in {"acquire", "blocked"} => state[i] = "RELEASED"
        /\ state[i] = "RELEASED" => heartbeat[i] = 0
    BY <1>1 DEF CarefulOK
  <2>4. ~(Acquired(i) /\ heartbeat[i] # 0)
    BY <2>3 DEF Acquired
  <2>5. MayAcquire(i) => state[i] = "RELEASED"
    BY <1>1, MineIsThere DEF MayAcquire, Careful
  <2>6. ASSUME Holds(i)', heartbeat'[i] # 0
        PROVE  pc'[Beat(i)'] \in {"wait", "refreshing"} /\ ~stopped'[Beat(i)']
    <3>1. /\ heartbeat[i] # 0 /\ heartbeat'[i] = heartbeat[i] /\ Beat(i)' = Beat(i)
          /\ pc[c] \notin {"stop_release", "release"}
      BY <2>2, <2>6 DEF Beat
    <3>2. state'[i] = "ACQUIRED" /\ pc'[c] # "stop_release"
      BY <2>6 DEF Holds
    <3>3. Holds(i)
      BY <2>2, <2>4, <3>1, <3>2 DEF Holds, Alive
    <3>4. pc'[c] \notin Stopping
      BY <2>1, <3>2 DEF Stopping
    <3>5. pc'[Beat(i)] = pc[Beat(i)] /\ stopped'[Beat(i)] = stopped[Beat(i)]
      BY <1>1, <2>1, <3>1, <3>4, MineIsThere DEF Only
    <3>6. QED
      BY <2>3, <3>1, <3>3, <3>5
  <2>7. CarefulOK(i)'
    BY <2>2, <2>3, <2>4, <2>5, <2>6 DEF CarefulOK
  <2>8. QED
    BY <1>1, <2>2, <2>7, AsideCareful DEF CarefulInv
<1>5. ASSUME NEW i \in Instance, StartStep(i) PROVE CarefulInv'
  <2>1. /\ UNCHANGED <<stopped, lostEvent>> /\ \A j \in Instance : j # i => Aside(j)
        /\ pc[Caller(i)] = "acquire" /\ pc'[Caller(i)] = "idle" /\ state'[i] = "ACQUIRED"
        /\ Beat(i)' \in Heartbeat /\ pc[Beat(i)'] = "unborn" /\ pc'[Beat(i)'] = "wait"
    BY <1>1, <1>5, StartEffect
  <2>2. ~stopped'[Beat(i)']
    BY <1>1, <2>1 DEF IInv
  <2>3. lostEvent'[i] = FALSE
    BY <1>1, <2>1, MineIsThere DEF CarefulOK
  <2>4. CarefulOK(i)'
    BY <2>1, <2>2, <2>3 DEF CarefulOK
  <2>5. QED
    BY <1>1, <2>1, <2>4, AsideCareful DEF CarefulInv
<1>6. ASSUME NEW i \in Instance, Crash(i) PROVE CarefulInv'
  <2>1. UNCHANGED local /\ pc'[Caller(i)] = "crashed" /\ \A j \in Instance : j # i => Aside(j)
    BY <1>1, <1>6, CrashEffect
  <2>2. CarefulOK(i)'
    BY <1>1, <2>1 DEF CarefulOK, Holds, Alive, local
  <2>3. QED
    BY <1>1, <2>1, <2>2, AsideCareful DEF CarefulInv
<1>7. QED
  BY <1>2, <1>3, <1>4, <1>5, <1>6, Kinds

LEMMA CarefulInvariant == ASSUME Careful PROVE Spec => []CarefulInv
<1>1. Init => CarefulInv
  <2> SUFFICES ASSUME Init PROVE CarefulInv
    OBVIOUS
  <2>1. \A i \in Instance : /\ state[i] = "RELEASED" /\ heartbeat[i] = 0 /\ lostEvent[i] = FALSE
                            /\ pc[Caller(i)] = "idle"
    BY Threads DEF Init
  <2>2. QED
    BY <2>1, InitInvariant DEF CarefulInv, CarefulOK
<1>2. QED
  BY <1>1, CarefulStep, PTL DEF Spec

\* Whoever waits for the event learns of every loss, and of none that has been dealt with,
\* in strict mode and with FORBID: no acquire can find the lock lost under its hands.
THEOREM EventsTruthful == ASSUME Careful PROVE Spec => []LostEventTruthful
<1>1. CarefulInv => LostEventTruthful
  BY DEF CarefulInv, CarefulOK, LostEventTruthful
<1>2. QED
  BY <1>1, CarefulInvariant, PTL

\* A holder is never left with a heartbeat that has ended or is being stopped, in strict
\* mode and with FORBID: acquire starts one each time, release and refresh stop only the
\* heartbeat of a slot that is given up.
THEOREM HoldersCovered == ASSUME Careful PROVE Spec => []HeartbeatCovers
<1>1. CarefulInv => HeartbeatCovers
  BY DEF CarefulInv, CarefulOK, HeartbeatCovers, Beat
<1>2. QED
  BY <1>1, CarefulInvariant, PTL

\* In strict mode and with FORBID only a release ends the state LOST.
THEOREM LossStays == ASSUME Careful PROVE Spec => LossSticks
<1>1. CarefulInv /\ [Next]_vars =>
          [\A i \in Instance : state[i] = "LOST" /\ state'[i] # "LOST" => Released(i)]_vars
  <2> SUFFICES ASSUME CarefulInv, [Next]_vars, NEW i \in Instance,
                      state[i] = "LOST", state'[i] # "LOST"
               PROVE  Released(i)
    OBVIOUS
  <2>1. IInv /\ CarefulOK(i) /\ pc[Caller(i)] # "acquire"
    BY DEF CarefulInv, CarefulOK
  <2>2. CASE ServerStep
    BY <2>1, <2>2, ServerEffect DEF local
  <2>3. ASSUME NEW j \in Instance, Aside(j), j = i PROVE FALSE
    BY <2>3 DEF Aside
  <2>4. ASSUME NEW h \in Heartbeat, BeatStep(h) PROVE FALSE
    <3>1. h[1] \in Instance /\ (OnLost(h[1]) \/ UNCHANGED <<state, lostEvent>>)
      BY <2>1, <2>4, BeatEffect, Threads
    <3>2. QED
      BY <2>1, <3>1, RestTyped DEF OnLost, IInv
  <2>5. ASSUME NEW j \in Instance, CallerStep(j) PROVE Released(i)
    <3>1. j = i
      BY <2>1, <2>3, <2>5, CallerEffect
    <3>2. QED
      BY <2>1, <2>5, <3>1, CallerEffect DEF Acquired
  <2>6. ASSUME NEW j \in Instance, StartStep(j) PROVE Released(i)
    <3>1. pc[Caller(j)] = "acquire" /\ (j # i => Aside(i))
      BY <2>1, <2>6, StartEffect
    <3>2. QED
      BY <2>1, <2>3, <3>1
  <2>7. ASSUME NEW j \in Instance, Crash(j) PROVE Released(i)
    BY <2>1, <2>7, CrashEffect DEF local
  <2>8. QED
    BY <2>2, <2>4, <2>5, <2>6, <2>7, Kinds
<1>2. QED
  BY <1>1, CarefulInvariant, PTL DEF Spec, LossSticks

-----------------------------------------------------------------------------
(* With a heartbeat that stops in time: only the present one speaks.         *)

LEMMA AsideCurrent ==
    ASSUME IInv, NEW h \in Heartbeat, Aside(h[1]), now' = now, CurrentOK(h)
    PROVE  CurrentOK(h)'
<1>1. Beat(h[1])' = Beat(h[1])
  BY DEF Aside, Beat
<1>2. /\ pc'[h] = pc[h] /\ timer'[h] = timer[h]
      /\ pc'[Caller(h[1])] = pc[Caller(h[1])] /\ timer'[Caller(h[1])] = timer[Caller(h[1])]
  BY Threads DEF Aside
<1>3. QED
  BY <1>1, <1>2 DEF CurrentOK

\* What holds of the times of a heartbeat that is refreshing.
LEMMA RefreshingTimes ==
    ASSUME IInv, NEW h \in Heartbeat, pc[h] = "refreshing"
    PROVE  now \in Nat /\ timer[h] \in Nat /\ now <= timer[h] /\ timer[h] <= now + CallTimeout
<1>1. h \in Thread /\ call[h] # NoCall
  BY Threads DEF IInv, CallOK
<1>2. QED
  BY <1>1, CallTyped, TypesOf, Constants DEF IInv

\* While the caller stops the current heartbeat, that one has been told.
LEMMA ToldToStop ==
    ASSUME IInv, NEW h \in Heartbeat, h = Beat(h[1]), pc[Caller(h[1])] \in Stopping
    PROVE  stopped[h]
<1>1. h[1] \in Instance
  BY Threads
<1>2. QED
  BY <1>1 DEF IInv, AcquisitionOK

LEMMA CurrentStep == ASSUME StopsInTime PROVE CurrentInv /\ [Next]_vars => CurrentInv'
<1> SUFFICES ASSUME CurrentInv, [Next]_vars PROVE CurrentInv'
  OBVIOUS
<1>1. IInv /\ IInv' /\ \A h \in Heartbeat : CurrentOK(h)
  BY StepInvariant DEF CurrentInv
<1>2. ASSUME ServerStep, NEW h \in Heartbeat PROVE CurrentOK(h)'
  <2>1. /\ UNCHANGED <<pc, timer>> /\ (now' = now \/ (now' = now + 1 /\ Tick))
        /\ Beat(h[1])' = Beat(h[1])
    BY <1>1, <1>2, ServerEffect DEF local, Beat
  <2>2. CASE now' = now
    BY <1>1, <2>1, <2>2 DEF CurrentOK
  <2>3. CASE Tick
    <3>1. pc[h] = "wait" => ~stopped[h]
      BY <2>3 DEF Tick, Due
    <3>2. CurrentOK(h)
      BY <1>1
    <3>3. pc[h] = "wait" => ~(pc[Caller(h[1])] \in Stopping)
      BY <1>1, <3>1, <3>2, ToldToStop DEF CurrentOK
    <3>4. QED
      BY <2>1, <3>2, <3>3 DEF CurrentOK
  <2>4. QED
    BY <2>1, <2>2, <2>3
<1>3. ASSUME NEW h \in Heartbeat, BeatStep(h), NEW g \in Heartbeat PROVE CurrentOK(g)'
  <2>1. /\ Only(h) /\ UNCHANGED <<now, heartbeat>>
        /\ \A j \in Instance : j # h[1] => Aside(j)
        /\ pc[h] \in {"wait", "refreshing"} /\ pc'[h] \in {"wait", "refreshing", "done"}
        /\ (pc'[h] = "wait" => pc[h] = "refreshing")
        /\ (pc'[h] = "refreshing" => ~stopped[h])
    BY <1>1, <1>3, BeatEffect
  <2>2. CurrentOK(g) /\ g \in Thread /\ g[1] \in Instance /\ Beat(g[1])' = Beat(g[1])
    BY <1>1, <2>1, Threads DEF Beat
  <2>3. /\ Caller(g[1]) # h /\ pc'[Caller(g[1])] = pc[Caller(g[1])]
        /\ timer'[Caller(g[1])] = timer[Caller(g[1])]
    BY <2>1, <2>2, Threads DEF Only
  <2>4. CASE g # h
    <3>1. pc'[g] = pc[g] /\ timer'[g] = timer[g]
      BY <2>1, <2>2, <2>4 DEF Only
    <3>2. QED
      BY <2>1, <2>2, <2>3, <3>1 DEF CurrentOK
  <2>5. CASE g = h
    <3>1. h = Beat(h[1])
      BY <2>1, <2>2, <2>5 DEF CurrentOK
    <3>2. pc'[h] = "refreshing" => pc[Caller(h[1])] \notin Stopping
      BY <1>1, <2>1, <3>1, ToldToStop
    <3>3. ASSUME pc'[h] = "wait", ~Async, pc[Caller(h[1])] \in Stopping
          PROVE  now < timer[Caller(h[1])]
      <4>1. timer[h] < timer[Caller(h[1])] /\ pc[h] = "refreshing"
        BY <2>1, <2>2, <2>5, <3>3 DEF CurrentOK
      <4>2. timer[Caller(h[1])] \in Nat
        BY <1>1, <2>2, <2>5, TypesOf, Threads DEF IInv, ThreadTypes
      <4>3. QED
        BY <1>1, <4>1, <4>2, RefreshingTimes
    <3>4. QED
      BY <2>1, <2>2, <2>3, <2>5, <3>1, <3>2, <3>3 DEF CurrentOK
  <2>6. QED
    BY <2>4, <2>5
<1>4. ASSUME NEW i \in Instance, CallerStep(i), NEW h \in Heartbeat PROVE CurrentOK(h)'
  <2> DEFINE c == Caller(i)
  <2>1. /\ Only(c) /\ UNCHANGED now
        /\ (pc'[c] \in Stopping => timer'[c] = now + 2 * RefreshInterval)
    BY <1>1, <1>4, CallerMoves DEF Moved
  <2>2. /\ \A j \in Instance : j # i => Aside(j)
        /\ (heartbeat'[i] # heartbeat[i] => Joined(i) /\ pc[c] \in Stopping)
    BY <1>1, <1>4, CallerEffect
  <2>3. CASE h[1] # i
    BY <1>1, <2>1, <2>2, <2>3, AsideCurrent, Threads
  <2>4. ASSUME h[1] = i, pc'[h] \in {"wait", "refreshing"}
        PROVE  /\ h = Beat(i)'
               /\ ~Async /\ pc'[c] \in Stopping =>
                      /\ pc[h] = "wait" => now < timer'[c]
                      /\ pc[h] = "refreshing" => timer[h] < timer'[c]
    <3>1. pc'[h] = pc[h] /\ h \in Thread /\ c \in Thread
      BY <2>1, Threads DEF Only
    <3>2. h = Beat(i) /\ (~Async /\ pc[c] \in Stopping =>
                              /\ pc[h] = "wait" => now < timer[c]
                              /\ pc[h] = "refreshing" => timer[h] < timer[c])
      BY <1>1, <2>4, <3>1 DEF CurrentOK
    <3>3. /\ now \in Nat /\ timer[c] \in Nat /\ timer[h] \in Nat
          /\ (pc[h] = "refreshing" => now <= timer[h] /\ timer[h] <= now + CallTimeout)
      BY <1>1, <3>1, TypesOf, RefreshingTimes DEF IInv, ThreadTypes
    <3>4. ~(Joined(i) /\ pc[c] \in Stopping)
      <4> SUFFICES ASSUME Joined(i), pc[c] \in Stopping PROVE FALSE
        OBVIOUS
      <4>1. ~Async /\ now >= timer[c]
        BY <2>4, <3>1, <3>2 DEF Joined, Beat
      <4>2. QED
        BY <2>4, <3>1, <3>2, <3>3, <4>1
    <3>5. Beat(i)' = Beat(i)
      BY <2>2, <3>4 DEF Beat
    <3>6. ASSUME ~Async, pc'[c] \in Stopping
          PROVE  /\ pc[h] = "wait" => now < timer'[c]
                 /\ pc[h] = "refreshing" => timer[h] < timer'[c]
      <4>1. timer'[c] = now + 2 * RefreshInterval /\ CallTimeout < 2 * RefreshInterval
        BY <2>1, <3>6 DEF StopsInTime
      <4>2. QED
        BY <3>3, <4>1, Constants
    <3>7. QED
      BY <3>2, <3>5, <3>6
  <2>5. timer'[h] = timer[h] /\ pc'[h] = pc[h]
    BY <2>1, Threads DEF Only
  <2>6. CASE h[1] = i
    BY <2>1, <2>4, <2>5, <2>6 DEF CurrentOK
  <2>7. QED
    BY <2>3, <2>6
<1>5. ASSUME NEW i \in Instance, StartStep(i), NEW h \in Heartbeat PROVE CurrentOK(h)'
  <2>1. /\ now' = now /\ \A j \in Instance : j # i => Aside(j)
        /\ pc'[Caller(i)] = "idle" /\ heartbeat[i] = 0
        /\ \A g \in Heartbeat : g # Beat(i)' => pc'[g] = pc[g]
    BY <1>1, <1>5, StartEffect
  <2>2. CASE h[1] # i
    BY <1>1, <2>1, <2>2, AsideCurrent, Threads
  <2>3. CASE h[1] = i /\ h # Beat(i)'
    <3>1. h # Beat(i)
      BY <2>1, Threads, Constants DEF Beat
    <3>2. pc'[h] \notin {"wait", "refreshing"}
      BY <1>1, <2>1, <2>3, <3>1 DEF CurrentOK
    <3>3. QED
      BY <3>2 DEF CurrentOK
  <2>4. CASE h[1] = i /\ h = Beat(i)'
    BY <2>1, <2>4 DEF CurrentOK, Stopping
  <2>5. QED
    BY <2>2, <2>3, <2>4
<1>6. ASSUME NEW i \in Instance, Crash(i), NEW h \in Heartbeat PROVE CurrentOK(h)'
  <2>1. /\ now' = now /\ \A j \in Instance : j # i => Aside(j)
        /\ \A g \in Heartbeat : g[1] = i => pc'[g] = "done"
    BY <1>1, <1>6, CrashEffect
  <2>2. CASE h[1] # i
    BY <1>1, <2>1, <2>2, AsideCurrent, Threads
  <2>3. CASE h[1] = i
    BY <2>1, <2>3 DEF CurrentOK
  <2>4. QED
    BY <2>2, <2>3
<1>7. QED
  BY <1>1, <1>2, <1>3, <1>4, <1>5, <1>6, Kinds DEF CurrentInv

LEMMA CurrentInvariant == ASSUME StopsInTime PROVE Spec => []CurrentInv
<1>1. Init => CurrentInv
  <2> SUFFICES ASSUME Init PROVE CurrentInv
    OBVIOUS
  <2>1. \A h \in Heartbeat : pc[h] = "unborn"
    BY Threads DEF Init
  <2>2. QED
    BY <2>1, InitInvariant DEF CurrentInv, CurrentOK
<1>2. QED
  BY <1>1, CurrentStep, PTL DEF Spec

\* What may mark the lock of i as lost.
Real(i) ==
    \/ \E t \in Thread : /\ Answered(t) /\ ~call[t].ok /\ call'[t] = NoCall
                         /\ call[t].id = <<i, identifier[i]>>
    \/ \E h \in Heartbeat : HbRaises(h) /\ h[1] = i /\ beatsFor[h] = identifier[i]

\* A lock is marked as lost because of the acquisition the instance is in, with a
\* heartbeat that is back from its call before release gives up the wait for it (a task
\* is cancelled): what was left of an earlier acquisition has ended by then.
THEOREM LossesReal == ASSUME StopsInTime PROVE Spec => LossIsReal
<1>1. CurrentInv /\ [Next]_vars =>
          [\A i \in Instance : state[i] = "ACQUIRED" /\ state'[i] = "LOST" => Real(i)]_vars
  <2> SUFFICES ASSUME CurrentInv, [Next]_vars, NEW i \in Instance,
                      state[i] = "ACQUIRED", state'[i] = "LOST"
               PROVE  Real(i)
    OBVIOUS
  <2>1. IInv /\ \A h \in Heartbeat : CurrentOK(h)
    BY DEF CurrentInv
  <2>2. ASSUME NEW j \in Instance, j # i => Aside(i) PROVE j = i
    BY <2>2 DEF Aside
  <2>3. ~ServerStep
    BY <2>1, ServerEffect DEF local
  <2>4. ASSUME NEW h \in Heartbeat, BeatStep(h) PROVE Real(i)
    <3>1. h[1] = i /\ h \in Thread
      BY <2>1, <2>2, <2>4, BeatEffect, Threads
    <3>2. HbLoses(h) \/ HbRaises(h)
      BY <2>4 DEF BeatStep, HbAttempts, HbRefreshed, HbStops, local
    <3>3. h = Beat(i) /\ pc[h] = "refreshing"
      BY <2>1, <3>1, <3>2 DEF CurrentOK, HbLoses, HbRaises
    <3>4. heartbeat[i] # 0
      BY <3>1, <3>3, Threads, Constants DEF Beat
    <3>5. beatsFor[h] = identifier[i] /\ call[h].id = <<i, identifier[i]>>
      BY <2>1, <3>3, <3>4 DEF IInv, AcquisitionOK, Mine
    <3>6. CASE HbLoses(h)
      <4>1. Answered(h) /\ ~call[h].ok /\ Return(h, "done", 0)
        BY <3>6 DEF HbLoses
      <4>2. call'[h] = NoCall
        BY <2>1, <3>1, <4>1, ReturnEffect, TypesOf DEF IInv, BeatSteps
      <4>3. QED
        BY <3>1, <3>5, <4>1, <4>2 DEF Real
    <3>7. CASE HbRaises(h)
      BY <3>1, <3>5, <3>7 DEF Real
    <3>8. QED
      BY <3>2, <3>6, <3>7
  <2>5. ASSUME NEW j \in Instance, CallerStep(j) PROVE Real(i)
    <3>1. j = i
      BY <2>1, <2>2, <2>5, CallerEffect
    <3>2. RefreshFindsLost(i)
      BY <2>1, <2>5, <3>1, CallerEffect, RestTyped, ZenonT(30) DEF Acquired, IInv
    <3>3. /\ Caller(i) \in Thread /\ Answered(Caller(i)) /\ ~call[Caller(i)].ok
          /\ call'[Caller(i)] = NoCall /\ pc[Caller(i)] = "refresh" /\ Caller(i)[1] = i
      BY <2>1, <3>2, Threads, TypesOf DEF RefreshFindsLost, IInv, ThreadTypes
    <3>4. call[Caller(i)].id = <<i, identifier[i]>>
      BY <2>1, <3>3 DEF IInv, CallOK, Answered, Mine, Ops
    <3>5. QED
      BY <3>3, <3>4 DEF Real
  <2>6. ASSUME NEW j \in Instance, StartStep(j) PROVE FALSE
    <3>1. state'[j] = "ACQUIRED" /\ (j # i => Aside(i))
      BY <2>1, <2>6, StartEffect
    <3>2. QED
      BY <2>2, <3>1
  <2>7. ASSUME NEW j \in Instance, Crash(j) PROVE FALSE
    BY <2>1, <2>7, CrashEffect DEF local
  <2>8. QED
    BY <2>3, <2>4, <2>5, <2>6, <2>7, Kinds
<1>2. CurrentInv /\ [Next]_vars =>
          [\A i \in Instance : state[i] = "ACQUIRED" /\ state'[i] = "LOST" =>
               \/ \E t \in Thread : /\ Answered(t) /\ ~call[t].ok /\ call'[t] = NoCall
                                   /\ call[t].id = <<i, identifier[i]>>
               \/ \E h \in Heartbeat : /\ HbRaises(h)
                                      /\ h[1] = i /\ beatsFor[h] = identifier[i]]_vars
  BY <1>1 DEF Real
<1>3. QED
  BY <1>2, CurrentInvariant, PTL DEF Spec, LossIsReal

-----------------------------------------------------------------------------
(* With a refresh due before the lease ends: how late a holder finds out.    *)

\* What the server notes of a lease: it never shortens one, and that of an answer to
\* the identifier in use is noted.
LEMMA NoteIs ==
    ASSUME IInv, NEW op, NEW id \in Own, NoteLease(op, id),
           \A i \in Instance : lease[i] <= now + LockTimeout
    PROVE  /\ \A i \in Instance : lease'[i] \in {lease[i], now + LockTimeout}
           /\ \A i \in Instance : id = Mine(i) /\ op # "release" /\ Succeeds(op, id) =>
                  lease'[i] = now + LockTimeout
<1>1. lease \in [Instance -> Nat] /\ id[1] \in Instance
  BY RestTyped, Identifiers DEF IInv
<1>2. \A i \in Instance : id = Mine(i) => id[1] = i /\ identifier[id[1]] = id[2]
  BY DEF Mine
<1> DEFINE Noted == op # "release" /\ Succeeds(op, id) /\ identifier[id[1]] = id[2]
<1>3. lease' = IF Noted THEN [lease EXCEPT ![id[1]] = now + LockTimeout] ELSE lease
  BY DEF NoteLease
<1>4. \A i \in Instance : id = Mine(i) /\ op # "release" /\ Succeeds(op, id) => Noted /\ id[1] = i
  BY <1>2
<1> HIDE DEF Noted
<1>5. QED
  BY <1>1, <1>3, <1>4

\* A step of the server lengthens leases, if anything.
LEMMA LeaseGrows ==
    ASSUME IInv, ServerStep, \A i \in Instance : lease[i] <= now + LockTimeout
    PROVE  \A i \in Instance : /\ lease'[i] \in Nat
                                /\ lease'[i] >= lease[i] /\ lease'[i] <= now' + LockTimeout
<1>1. lease \in [Instance -> Nat] /\ now \in Nat /\ LockTimeout \in Nat /\ now' \in {now, now + 1}
  BY RestTyped, TypesOf, Constants, ServerEffect DEF IInv
<1>2. CASE \E op \in Ops, id \in Own : NoteLease(op, id)
  <2>1. PICK op \in Ops, id \in Own : NoteLease(op, id)
    BY <1>2
  <2>2. \A i \in Instance : lease'[i] \in {lease[i], now + LockTimeout}
    BY <2>1, NoteIs
  <2>3. ASSUME NEW i \in Instance
        PROVE  lease'[i] \in Nat /\ lease'[i] >= lease[i] /\ lease'[i] <= now' + LockTimeout
    <3>1. lease[i] \in Nat /\ lease[i] <= now + LockTimeout
      BY <1>1
    <3>2. QED
      BY <1>1, <2>2, <3>1
  <2>4. QED
    BY <2>3
<1>3. CASE UNCHANGED lease
  <2>1. ASSUME NEW i \in Instance
        PROVE  lease'[i] \in Nat /\ lease'[i] >= lease[i] /\ lease'[i] <= now' + LockTimeout
    <3>1. lease[i] \in Nat /\ lease[i] <= now + LockTimeout /\ lease'[i] = lease[i]
      BY <1>1, <1>3
    <3>2. QED
      BY <1>1, <3>1
  <2>2. QED
    BY <2>1
<1>4. ASSUME NEW t \in Thread, Serve(t) PROVE \E op \in Ops, id \in Own : NoteLease(op, id)
  BY <1>4, CallTyped DEF Serve, Sent
<1>5. ASSUME NEW r \in strays, ServeStray(r) PROVE \E op \in Ops, id \in Own : NoteLease(op, id)
  <2>1. r \in Requests
    BY RestTyped DEF IInv
  <2>2. r.op \in Ops /\ r.id \in Own
    BY <2>1 DEF Requests
  <2>3. QED
    BY <1>5, <2>2 DEF ServeStray
<1>6. (\E t \in Thread : Resend(t)) \/ (\E id \in Rival : RivalActs(id)) \/ Tick \/ UNCHANGED vars
      => UNCHANGED lease
  BY DEF Resend, RivalActs, Tick, vars
<1>7. QED
  BY <1>2, <1>3, <1>4, <1>5, <1>6 DEF ServerStep

\* What the answer to a thread tells of the lease goes on being so.
LEMMA StaysGranted ==
    ASSUME IInv, ServerStep, \A i \in Instance : lease[i] <= now + LockTimeout,
           NEW t \in Thread, Granted(t),
           call[t] # NoCall => call[t].id = Mine(t[1]) /\ call[t].op # "release"
    PROVE  Granted(t)'
<1>1. /\ t[1] \in Instance /\ ThreadTypes /\ now \in Nat /\ timer' = timer /\ timer[t] \in Nat
      /\ lease[t[1]] \in Nat /\ LockTimeout \in Nat /\ CallTimeout \in Nat
      /\ lease'[t[1]] \in Nat /\ lease'[t[1]] >= lease[t[1]]
  BY Threads, TypesOf, RestTyped, Constants, ServerEffect, LeaseGrows DEF IInv, ThreadTypes
<1>2. CASE Serve(t)
  <2>1. /\ call[t] # NoCall /\ call[t].id \in Own /\ timer[t] - CallTimeout \in 0 .. now
        /\ NoteLease(call[t].op, call[t].id)
        /\ call' = [call EXCEPT ![t].executed = TRUE,
                                ![t].ok = Succeeds(call[t].op, call[t].id)]
    BY <1>2, CallTyped DEF Serve, Sent
  <2>2. call[t] \in Calls
    BY <2>1, CallTyped
  <2>3. call'[t].ok = Succeeds(call[t].op, call[t].id)
    BY <1>1, <2>1, <2>2 DEF ThreadTypes, Calls
  <2>4. SUFFICES ASSUME call'[t].ok
                 PROVE  lease'[t[1]] >= (timer[t] - CallTimeout) + LockTimeout
    BY <1>1 DEF Granted
  <2>5. lease'[t[1]] = now + LockTimeout
    BY <1>1, <2>1, <2>3, <2>4, NoteIs
  <2>6. QED
    BY <1>1, <2>1, <2>5
<1>3. CASE call'[t] = call[t]
  <2>1. SUFFICES ASSUME Answered(t)', call'[t].ok
                 PROVE  lease'[t[1]] >= (timer[t] - CallTimeout) + LockTimeout
    BY <1>1 DEF Granted
  <2>2. lease[t[1]] >= (timer[t] - CallTimeout) + LockTimeout
    BY <1>3, <2>1 DEF Granted, Answered
  <2>3. QED
    BY <1>1, <2>2
<1>4. CASE Resend(t)
  <2>1. call' = [call EXCEPT ![t].executed = FALSE] /\ call[t] # NoCall
    BY <1>4 DEF Resend, Answered
  <2>2. call[t] \in Calls
    BY <2>1, CallTyped
  <2>3. ~call'[t].executed
    BY <1>1, <2>1, <2>2 DEF ThreadTypes, Calls
  <2>4. QED
    BY <2>3 DEF Granted, Answered
<1>5. ASSUME NEW u \in Thread, u # t, Serve(u) \/ Resend(u) PROVE call'[t] = call[t]
  BY <1>1, <1>5 DEF Serve, Resend, ThreadTypes
<1>6. \/ \E r \in strays : ServeStray(r)
      \/ \E id \in Rival : RivalActs(id)
      \/ Tick
      \/ UNCHANGED vars
      => call' = call
  BY DEF ServeStray, RivalActs, Tick, vars, threads
<1>7. QED
  BY <1>2, <1>3, <1>4, <1>5, <1>6 DEF ServerStep

LEMMA AsideDeadline ==
    ASSUME IInv, NEW j \in Instance, Aside(j), now' = now, DeadlineOK(j)
    PROVE  DeadlineOK(j)'
<1>1. Caller(j) \in Thread /\ Caller(j)[1] = j /\ (heartbeat[j] # 0 => Beat(j) \in Heartbeat
          /\ Beat(j) \in Thread /\ Beat(j)[1] = j)
  BY MineIsThere
<1>2. heartbeat'[j] = heartbeat[j] /\ lease'[j] = lease[j] /\ Beat(j)' = Beat(j) /\ Caller(j)' = Caller(j)
  BY DEF Aside, Beat, Caller
<1>3. /\ pc'[Caller(j)] = pc[Caller(j)] /\ call'[Caller(j)] = call[Caller(j)]
      /\ timer'[Caller(j)] = timer[Caller(j)]
      /\ heartbeat[j] # 0 => /\ pc'[Beat(j)] = pc[Beat(j)] /\ call'[Beat(j)] = call[Beat(j)]
                             /\ timer'[Beat(j)] = timer[Beat(j)]
                             /\ deadline'[Beat(j)] = deadline[Beat(j)]
  BY <1>1 DEF Aside
<1>4. /\ Granted(Caller(j))' <=> Granted(Caller(j))
      /\ heartbeat[j] # 0 => (Granted(Beat(j))' <=> Granted(Beat(j)))
  BY <1>1, <1>2, <1>3 DEF Granted, Answered
<1>5. QED
  BY <1>2, <1>3, <1>4 DEF DeadlineOK

LEMMA DeadlineStep == ASSUME RefreshesInTime PROVE DeadlineInv /\ [Next]_vars => DeadlineInv'
<1> SUFFICES ASSUME DeadlineInv, [Next]_vars PROVE DeadlineInv'
  OBVIOUS
<1>1. /\ IInv /\ IInv' /\ \A i \in Instance : DeadlineOK(i)
      /\ \A i \in Instance : lease[i] <= now + LockTimeout
  BY StepInvariant DEF DeadlineInv, DeadlineOK
<1>2. /\ now \in Nat /\ LockTimeout \in Nat /\ CallTimeout \in Nat /\ RefreshInterval \in Nat
      /\ RetryStep \in Nat /\ RefreshInterval + CallTimeout <= LockTimeout
      /\ ThreadTypes /\ lease \in [Instance -> Nat] /\ deadline \in [Heartbeat -> Nat]
  BY <1>1, TypesOf, RestTyped, Constants DEF IInv, RefreshesInTime
<1>3. ASSUME ServerStep, NEW i \in Instance PROVE DeadlineOK(i)'
  <2> DEFINE h == Beat(i)
  <2>1. /\ UNCHANGED <<heartbeat, pc, timer, deadline>> /\ (now' = now \/ (now' = now + 1 /\ Tick))
        /\ h' = h /\ Caller(i)' = Caller(i)
    BY <1>1, <1>3, ServerEffect DEF local, Beat, Caller
  <2>2. lease'[i] \in Nat /\ lease'[i] >= lease[i] /\ lease'[i] <= now' + LockTimeout
    BY <1>1, <1>3, LeaseGrows
  <2>3. pc[Caller(i)] = "acquire" => Granted(Caller(i))'
    <3> SUFFICES ASSUME pc[Caller(i)] = "acquire" PROVE Granted(Caller(i))'
      OBVIOUS
    <3>1. Caller(i) \in Thread /\ Caller(i)[1] = i /\ Granted(Caller(i))
      BY <1>1, Threads DEF DeadlineOK
    <3>2. call[Caller(i)].id = Mine(i) /\ call[Caller(i)].op # "release"
      BY <1>1, <3>1 DEF IInv, CallOK, Ops
    <3>3. QED
      BY <1>1, <1>3, <3>1, <3>2, StaysGranted
  <2>4. heartbeat[i] # 0 /\ pc[h] = "refreshing" => Granted(h)'
    <3> SUFFICES ASSUME heartbeat[i] # 0, pc[h] = "refreshing" PROVE Granted(h)'
      OBVIOUS
    <3>1. h \in Thread /\ h[1] = i /\ Granted(h)
      BY <1>1, MineIsThere DEF DeadlineOK
    <3>2. call[h].id = Mine(i) /\ call[h].op # "release"
      BY <1>1, <3>1 DEF IInv, CallOK, AcquisitionOK
    <3>3. ASSUME NEW t \in Thread, t = h PROVE Granted(t)'
      BY <1>1, <1>3, <3>1, <3>2, <3>3, StaysGranted
    <3>4. QED
      BY <2>1, <3>1, <3>3 DEF Granted, Answered
  <2>5. heartbeat[i] # 0 => h \in Heartbeat /\ timer[h] \in Nat /\ deadline[h] \in Nat
    BY <1>1, <1>2, MineIsThere DEF ThreadTypes
  <2>6. heartbeat[i] # 0 /\ pc[h] = "wait" => now' <= timer[h]
    <3> SUFFICES ASSUME heartbeat[i] # 0, pc[h] = "wait" PROVE now' <= timer[h]
      OBVIOUS
    <3>1. now <= timer[h]
      BY <1>1 DEF DeadlineOK
    <3>2. Tick => ~(now >= timer[h])
      BY <2>5 DEF Tick, Due
    <3>3. QED
      BY <1>2, <2>1, <2>5, <3>1, <3>2
  <2>7. heartbeat[i] # 0 /\ pc[h] \in {"wait", "refreshing"} => deadline[h] <= lease'[i] + CallTimeout
    <3>1. heartbeat[i] # 0 /\ pc[h] \in {"wait", "refreshing"} => deadline[h] <= lease[i] + CallTimeout
      BY <1>1 DEF DeadlineOK
    <3>2. lease[i] \in Nat
      BY <1>2
    <3>3. QED
      BY <1>2, <2>2, <2>5, <3>1, <3>2
  <2>8. DeadlineOK(i)
    BY <1>1
  <2> HIDE DEF h
  <2>9. QED
    BY <2>1, <2>2, <2>3, <2>4, <2>6, <2>7, <2>8 DEF DeadlineOK, h
<1>4. ASSUME NEW h \in Heartbeat, BeatStep(h), NEW i \in Instance PROVE DeadlineOK(i)'
  <2>1. /\ Only(h) /\ UNCHANGED <<now, heartbeat, lease>> /\ h \in Thread
        /\ \A j \in Instance : j # h[1] => Aside(j)
        /\ \A g \in Heartbeat : g # h => deadline'[g] = deadline[g]
        /\ Caller(i) # h /\ Caller(i) \in Thread
    BY <1>1, <1>4, BeatEffect, Threads
  <2>2. CASE h # Beat(i) \/ heartbeat[i] = 0
    <3>1. /\ pc'[Caller(i)] = pc[Caller(i)] /\ (Granted(Caller(i))' <=> Granted(Caller(i)))
          /\ Beat(i)' = Beat(i) /\ Caller(i)' = Caller(i)
      BY <2>1 DEF Only, Beat, Caller, Granted, Answered
    <3>2. heartbeat[i] # 0 => /\ pc'[Beat(i)] = pc[Beat(i)] /\ timer'[Beat(i)] = timer[Beat(i)]
                              /\ call'[Beat(i)] = call[Beat(i)]
                              /\ deadline'[Beat(i)] = deadline[Beat(i)]
      BY <1>1, <2>1, <2>2, MineIsThere DEF Only
    <3>3. heartbeat[i] # 0 => (Granted(Beat(i))' <=> Granted(Beat(i)))
      BY <2>1, <3>1, <3>2 DEF Granted, Answered
    <3>4. QED
      BY <1>1, <2>1, <3>1, <3>2, <3>3 DEF DeadlineOK
  <2>3. CASE h = Beat(i) /\ heartbeat[i] # 0
    <3>1. /\ h[1] = i /\ Beat(i)' = h /\ Caller(i)' = Caller(i) /\ lease[i] \in Nat
          /\ deadline[h] \in Nat /\ timer[h] \in Nat
      BY <1>1, <1>2, <2>1, <2>3, MineIsThere DEF Beat, Caller, ThreadTypes
    <3>2. pc'[Caller(i)] = pc[Caller(i)] /\ (Granted(Caller(i))' <=> Granted(Caller(i)))
      BY <2>1, <3>1 DEF Only, Granted, Answered
    <3>3. /\ lease[i] <= now + LockTimeout
          /\ pc[Caller(i)] = "acquire" => Granted(Caller(i))
          /\ pc[h] \in {"wait", "refreshing"} => deadline[h] <= lease[i] + CallTimeout
          /\ pc[h] = "wait" => now <= timer[h] /\ timer[h] <= deadline[h]
          /\ pc[h] = "refreshing" => timer[h] <= deadline[h] + CallTimeout /\ Granted(h)
      BY <1>1, <2>3 DEF DeadlineOK
    <3>4. SUFFICES pc'[h] \in {"wait", "refreshing"} =>
                       /\ deadline'[h] <= lease[i] + CallTimeout
                       /\ pc'[h] = "wait" => now <= timer'[h] /\ timer'[h] <= deadline'[h]
                       /\ pc'[h] = "refreshing" =>
                              timer'[h] <= deadline'[h] + CallTimeout /\ Granted(h)'
      BY <2>1, <3>1, <3>2, <3>3 DEF DeadlineOK
    <3>5. CASE HbRefreshed(h)
      <4>1. /\ Return(h, "wait", now + RefreshInterval) /\ pc[h] = "refreshing"
            /\ deadline' = [deadline EXCEPT ![h] = (timer[h] - CallTimeout) + LockTimeout]
            /\ Answered(h) /\ call[h].ok /\ call[h] # NoCall
        BY <3>5 DEF HbRefreshed, Answered
      <4>2. pc' = [pc EXCEPT ![h] = "wait"] /\ timer' = [timer EXCEPT ![h] = now + RefreshInterval]
        BY <4>1 DEF Return
      <4>3. /\ pc'[h] = "wait" /\ timer'[h] = now + RefreshInterval
            /\ deadline'[h] = (timer[h] - CallTimeout) + LockTimeout
        BY <1>2, <2>1, <4>1, <4>2 DEF ThreadTypes
      <4>4. /\ lease[i] >= (timer[h] - CallTimeout) + LockTimeout
            /\ now <= timer[h] /\ timer[h] <= now + CallTimeout
        BY <1>1, <3>1, <3>3, <4>1, RefreshingTimes DEF Granted
      <4>5. QED
        BY <1>2, <3>1, <4>3, <4>4
    <3>6. CASE HbRaises(h)
      <4>1. pc[h] = "refreshing" /\ deadline' = deadline
        BY <3>6 DEF HbRaises
      <4>2. CASE Return(h, "done", 0)
        BY <1>2, <2>1, <4>2 DEF Return, ThreadTypes
      <4>3. CASE Return(h, "wait", now + RetryPause(h)) /\ now < deadline[h]
        <5>1. pc'[h] = "wait" /\ timer'[h] = now + RetryPause(h)
          BY <1>2, <2>1, <4>3 DEF Return, ThreadTypes
        <5>2. now <= now + RetryPause(h) /\ now + RetryPause(h) <= deadline[h]
          BY <1>2, <3>1, <4>3 DEF RetryPause
        <5>3. QED
          BY <3>3, <4>1, <5>1, <5>2
      <4>4. \/ Return(h, "done", 0)
            \/ Return(h, "wait", now + RetryPause(h)) /\ now < deadline[h]
        BY <1>2, <3>1, <3>6 DEF HbRaises, GivesUp
      <4>5. QED
        BY <4>2, <4>3, <4>4
    <3>7. CASE pc'[h] = "refreshing"
      <4>1. /\ pc[h] = "wait" /\ now >= timer[h] /\ timer'[h] = now + CallTimeout
            /\ ~call'[h].executed /\ deadline' = deadline
        BY <1>1, <1>4, <3>7, BeatEffect
      <4>2. Granted(h)'
        BY <4>1 DEF Granted, Answered
      <4>3. timer'[h] <= deadline[h] + CallTimeout
        BY <1>2, <3>1, <3>3, <4>1
      <4>4. QED
        BY <3>3, <3>7, <4>1, <4>2, <4>3
    <3>8. CASE HbLoses(h) \/ HbStops(h) \/ (HbAttempts(h) /\ pc'[h] # "refreshing")
      <4>1. pc'[h] \in {"done", "refreshing"}
        BY <1>2, <2>1, <3>8 DEF HbLoses, HbStops, HbAttempts, Return, Send, ThreadTypes
      <4>2. CASE pc'[h] = "done"
        BY <4>2
      <4>3. QED
        BY <3>7, <4>1, <4>2
    <3>9. QED
      BY <1>4, <3>5, <3>6, <3>7, <3>8 DEF BeatStep
  <2>4. QED
    BY <2>2, <2>3
<1>5. ASSUME NEW j \in Instance, CallerStep(j), NEW i \in Instance PROVE DeadlineOK(i)'
  <2>1. /\ Only(Caller(j)) /\ UNCHANGED <<now, deadline>>
        /\ pc'[Caller(j)] = "acquire" => ~call'[Caller(j)].executed
    BY <1>1, <1>5, CallerMoves DEF Moved
  <2>2. /\ \A k \in Instance : k # j => Aside(k)
        /\ heartbeat'[j] # heartbeat[j] => heartbeat'[j] = 0
        /\ lease'[j] # lease[j] => lease'[j] = 0 /\ heartbeat'[j] = 0
    BY <1>1, <1>5, CallerEffect
  <2>3. CASE i # j
    BY <1>1, <2>1, <2>2, <2>3, AsideDeadline
  <2>4. CASE i = j
    <3>1. pc'[Caller(i)] = "acquire" => Granted(Caller(i))'
      BY <2>1, <2>4 DEF Granted, Answered, Caller
    <3>2. lease'[i] <= now + LockTimeout
      BY <1>1, <1>2, <2>2, <2>4
    <3>3. CASE heartbeat'[i] = 0
      BY <2>1, <3>1, <3>2, <3>3 DEF DeadlineOK, Caller
    <3>4. CASE heartbeat'[i] # 0
      <4>1. /\ heartbeat'[i] = heartbeat[i] /\ lease'[i] = lease[i] /\ Beat(i)' = Beat(i)
            /\ Caller(i)' = Caller(i)
        BY <2>2, <2>4, <3>4 DEF Beat, Caller
      <4>2. Beat(i) \in Thread /\ Beat(i) # Caller(i) /\ Beat(i)[1] = i
        BY <1>1, <3>4, <4>1, MineIsThere
      <4>3. /\ pc'[Beat(i)] = pc[Beat(i)] /\ call'[Beat(i)] = call[Beat(i)]
            /\ timer'[Beat(i)] = timer[Beat(i)] /\ deadline'[Beat(i)] = deadline[Beat(i)]
        BY <2>1, <2>4, <4>2 DEF Only
      <4>4. Granted(Beat(i))' <=> Granted(Beat(i))
        BY <4>1, <4>2, <4>3 DEF Granted, Answered
      <4>5. DeadlineOK(i)
        BY <1>1
      <4>6. QED
        BY <2>1, <3>1, <3>2, <4>1, <4>3, <4>4, <4>5 DEF DeadlineOK
    <3>5. QED
      BY <3>3, <3>4
  <2>5. QED
    BY <2>3, <2>4
<1>6. ASSUME NEW j \in Instance, StartStep(j), NEW i \in Instance PROVE DeadlineOK(i)'
  <2>1. /\ UNCHANGED <<now, lease>> /\ \A k \in Instance : k # j => Aside(k)
        /\ pc[Caller(j)] = "acquire" /\ Answered(Caller(j)) /\ call[Caller(j)].ok
        /\ pc'[Caller(j)] = "idle" /\ pc'[Beat(j)'] = "wait"
        /\ timer'[Beat(j)'] = now + RefreshInterval /\ deadline'[Beat(j)'] = now + LockTimeout
    BY <1>1, <1>6, StartEffect
  <2>2. CASE i # j
    BY <1>1, <2>1, <2>2, AsideDeadline
  <2>3. CASE i = j
    <3>1. Caller(i) \in Thread /\ Caller(i)[1] = i /\ call[Caller(i)] # NoCall
      BY <2>1, <2>3, Threads DEF Answered
    <3>2. /\ timer[Caller(i)] \in Nat /\ now <= timer[Caller(i)]
          /\ lease[i] >= (timer[Caller(i)] - CallTimeout) + LockTimeout
          /\ lease[i] <= now + LockTimeout /\ lease[i] \in Nat
      BY <1>1, <1>2, <2>1, <2>3, <3>1, CallTyped DEF DeadlineOK, Granted
    <3>3. now + LockTimeout <= lease[i] + CallTimeout /\ now + RefreshInterval <= now + LockTimeout
          /\ now <= now + RefreshInterval
      BY <1>2, <3>2
    <3>4. QED
      BY <2>1, <2>3, <3>2, <3>3 DEF DeadlineOK, Caller
  <2>4. QED
    BY <2>2, <2>3
<1>7. ASSUME NEW j \in Instance, Crash(j), NEW i \in Instance PROVE DeadlineOK(i)'
  <2>1. /\ UNCHANGED <<now, local, deadline, lease>> /\ \A k \in Instance : k # j => Aside(k)
        /\ pc'[Caller(j)] = "crashed" /\ \A h \in Heartbeat : h[1] = j => pc'[h] = "done"
    BY <1>1, <1>7, CrashEffect
  <2>2. CASE i # j
    BY <1>1, <2>1, <2>2, AsideDeadline
  <2>3. CASE i = j
    <3>1. lease'[i] <= now' + LockTimeout /\ heartbeat'[i] = heartbeat[i]
          /\ Caller(i)' = Caller(i) /\ Beat(i)' = Beat(i)
      BY <1>1, <2>1 DEF local, Caller, Beat
    <3>2. heartbeat[i] # 0 => pc'[Beat(i)] = "done"
      BY <1>1, <2>1, <2>3, MineIsThere
    <3>3. QED
      BY <2>1, <2>3, <3>1, <3>2 DEF DeadlineOK
  <2>4. QED
    BY <2>2, <2>3
<1>8. QED
  BY <1>1, <1>3, <1>4, <1>5, <1>6, <1>7, Kinds DEF DeadlineInv

LEMMA DeadlineInvariant == ASSUME RefreshesInTime PROVE Spec => []DeadlineInv
<1>1. Init => DeadlineInv
  <2> SUFFICES ASSUME Init PROVE DeadlineInv
    OBVIOUS
  <2>1. \A i \in Instance : lease[i] = 0 /\ heartbeat[i] = 0 /\ pc[Caller(i)] = "idle"
    BY Threads DEF Init
  <2>2. IInv /\ now \in Nat /\ LockTimeout \in Nat
    BY InitInvariant, TypesOf, Constants DEF IInv
  <2>3. QED
    BY <2>1, <2>2 DEF DeadlineInv, DeadlineOK
<1>2. QED
  BY <1>1, DeadlineStep, PTL DEF Spec

\* A holder whose lease the server has ended finds out no later than two calls after
\* the last expiry that the server gave, when a refresh begins and fails before the
\* lease of the last one is over, for an owner that releases what it has lost and does
\* not acquire what it holds.
THEOREM BeliefEnds == ASSUME Careful, RefreshesInTime PROVE Spec => []BeliefBounded
<1>1. CarefulInv /\ DeadlineInv => BeliefBounded
  <2> SUFFICES ASSUME CarefulInv, DeadlineInv, NEW i \in Instance, Holds(i), heartbeat[i] # 0
               PROVE  now <= lease[i] + 2 * CallTimeout
    BY DEF BeliefBounded
  <2>1. IInv /\ CarefulOK(i) /\ DeadlineOK(i)
    BY DEF CarefulInv, DeadlineInv
  <2>2. Beat(i) \in Heartbeat /\ Beat(i) \in Thread /\ pc[Beat(i)] \in {"wait", "refreshing"}
    BY <2>1, MineIsThere DEF CarefulOK
  <2>3. /\ now \in Nat /\ CallTimeout \in Nat /\ lease[i] \in Nat
        /\ timer[Beat(i)] \in Nat /\ deadline[Beat(i)] \in Nat
    BY <2>1, <2>2, TypesOf, RestTyped, Constants DEF IInv, ThreadTypes
  <2>4. /\ deadline[Beat(i)] <= lease[i] + CallTimeout
        /\ pc[Beat(i)] = "wait" => now <= timer[Beat(i)] /\ timer[Beat(i)] <= deadline[Beat(i)]
        /\ pc[Beat(i)] = "refreshing" => timer[Beat(i)] <= deadline[Beat(i)] + CallTimeout
    BY <2>1, <2>2 DEF DeadlineOK
  <2>5. pc[Beat(i)] = "refreshing" => now <= timer[Beat(i)]
    BY <2>1, <2>2, RefreshingTimes
  <2>6. QED
    BY <2>2, <2>3, <2>4, <2>5
<1>2. QED
  BY <1>1, CarefulInvariant, DeadlineInvariant, PTL
=============================================================================
