---------------------------- MODULE SemaphoreScripts ----------------------------
(***************************************************************************)
(* The owners of a semaphore as Redis keeps them: the sorted set of their  *)
(* identifiers and expiries, the TTL of its key, and what the Lua scripts  *)
(* do to both, each script in one atomic step.  SemaphoreServer adds the   *)
(* fencing counter and lets anybody run the scripts, SemaphoreClient runs  *)
(* them on behalf of the threads of the library.                           *)
(***************************************************************************)
EXTENDS Integers, FiniteSets

CONSTANTS Identifier, Limit, LockTimeout, MaxTime

ASSUME LimitAssumption == Limit \in Nat \ {0}
ASSUME TimeoutAssumption == LockTimeout \in [Identifier -> Nat \ {0}]
ASSUME TimeAssumption == MaxTime \in Nat

VARIABLES
    now,        \* the clock of the server
    owners,     \* the sorted set: a function from its members to their scores
    ownersExp   \* when the owners key expires (0 while there is no such key)

store == <<now, owners, ownersExp>>

NoOwners == [i \in {} |-> 0]

StoreOK ==
    /\ now \in Nat
    /\ DOMAIN owners \subseteq Identifier
    /\ IsFiniteSet(DOMAIN owners)
    /\ owners \in [DOMAIN owners -> Int]
    /\ ownersExp \in Int

StoreInit == now = 0 /\ owners = NoOwners /\ ownersExp = 0

-----------------------------------------------------------------------------
(* The commands the scripts are made of.                                    *)

\* ZREM
Without(zset, ids) == [i \in DOMAIN zset \ ids |-> zset[i]]

\* ZADD
With(zset, id, score) ==
    [i \in DOMAIN zset \cup {id} |-> IF i = id THEN score ELSE zset[i]]

\* ZREMRANGEBYSCORE owners -inf n
Unexpired(n) == Without(owners, {i \in DOMAIN owners : owners[i] <= n})

\* What Redis does to the TTL of a key whose members are removed: a set that
\* becomes empty is deleted, and its TTL with it.
KeepTTL == ownersExp' = IF DOMAIN owners' = {} THEN 0 ELSE ownersExp

\* (faults) Two wrong TTLs: the renewing owner's own lease, without and with the margin.
BumpToOwnLease(id, n) == ownersExp' = now + LockTimeout[id]
BumpToOwnLeaseAndMargin(id, n) == ownersExp' = now + 2 * LockTimeout[id]

\* PEXPIRE owners (top - n + lock_timeout): counted from the server's clock.
BumpOwnersTTL(id, n) ==
    \E top \in {owners'[i] : i \in DOMAIN owners'} :
        /\ \A i \in DOMAIN owners' : owners'[i] <= top
        /\ ownersExp' = now + (top - n + LockTimeout[id])

-----------------------------------------------------------------------------
(* The scripts.  n is the time the script works with.                       *)

\* (fault) The limit is compared with one owner too few.
AdmitsOneMore(id, n) == Cardinality(DOMAIN Unexpired(n)) <= Limit

\* Whether ACQUIRE succeeds: id is an owner already, or there is room.
Admits(id, n) ==
    LET held == DOMAIN Unexpired(n)
    IN  id \in held \/ Cardinality(held) < Limit

\* ACQUIRE, but for the fencing token.
AcquireScript(id, n) ==
    /\ UNCHANGED now
    /\ IF Admits(id, n)
       THEN owners' = With(Unexpired(n), id, n + LockTimeout[id]) /\ BumpOwnersTTL(id, n)
       ELSE owners' = Unexpired(n) /\ KeepTTL

ReleaseScript(id) ==
    /\ owners' = Without(owners, {id})
    /\ KeepTTL
    /\ UNCHANGED now

\* (fault) REFRESH does not look at the score.
RenewableIfPresent(id, n) == id \in DOMAIN owners

\* Whether REFRESH succeeds.  An owner whose score is n is still renewed.
Renewable(id, n) == id \in DOMAIN owners /\ owners[id] >= n

RefreshScript(id, n) ==
    /\ UNCHANGED now
    /\ IF Renewable(id, n)
       THEN owners' = With(owners, id, n + LockTimeout[id]) /\ BumpOwnersTTL(id, n)
       ELSE owners' = Without(owners, {id}) /\ KeepTTL

\* CLEANUP and STATUS change the same state: they evict the expired owners.
CleanupScript(n) ==
    /\ owners' = Unexpired(n)
    /\ KeepTTL
    /\ UNCHANGED now

\* Time passes; Redis drops the whole key once its TTL is over.
Clock ==
    /\ now < MaxTime
    /\ now' = now + 1
    /\ IF DOMAIN owners # {} /\ now' > ownersExp
       THEN owners' = NoOwners /\ ownersExp' = 0
       ELSE UNCHANGED <<owners, ownersExp>>
=============================================================================
