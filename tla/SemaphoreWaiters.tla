--------------------------- MODULE SemaphoreWaiters ---------------------------
(***************************************************************************)
(* How blocking acquires wait for a slot: the acquire loop in BLPOP mode,  *)
(* the list of wake-up tokens, and release, which pushes a token after it  *)
(* has given the slot back, in a pipeline that is not a transaction.       *)
(*                                                                         *)
(* Leases are abstract here: a holder keeps its slot until it releases it, *)
(* or crashes and is evicted some time later.  Faults are counted, up to   *)
(* MaxFaults: with none, only releases free a slot and every command of a  *)
(* pipeline is executed.                                                   *)
(***************************************************************************)
EXTENDS Integers, FiniteSets, Sequences, SequencesExt

CONSTANTS
    Client,
    Limit,
    Impatient,  \* the clients that call acquire(blocking=False)
    Timed,      \* the clients with an acquire_timeout
    MaxFaults

ASSUME ClientAssumption == IsFiniteSet(Client) /\ Impatient \cup Timed \subseteq Client
ASSUME LimitAssumption == Limit \in Nat \ {0}
ASSUME FaultAssumption == MaxFaults \in Nat

VARIABLES
    pc,         \* where each client is
    holders,    \* the owners on the server
    tokens,     \* the length of the queue key
    blocked,    \* the clients Redis has blocked in BLPOP, longest first
    late,       \* the clients whose acquire_timeout has elapsed
    faults

vars == <<pc, holders, tokens, blocked, late, faults>>

TypeOK ==
    /\ pc \in [Client -> {"out", "try", "park", "blocked", "hold", "push", "trim",
                          "crashed"}]
    /\ holders \subseteq Client
    /\ tokens \in Nat
    /\ blocked \in Seq(Client)
    /\ ToSet(blocked) = {c \in Client : pc[c] = "blocked"}
    /\ IsInjective(blocked)
    /\ late \subseteq {c \in Timed : pc[c] \in {"try", "park", "blocked"}}
    /\ faults \in 0..MaxFaults

Init ==
    /\ pc = [c \in Client |-> "out"]
    /\ holders = {}
    /\ tokens = 0
    /\ blocked = <<>>
    /\ late = {}
    /\ faults = 0

Goto(c, step) == pc' = [pc EXCEPT ![c] = step]

-----------------------------------------------------------------------------
(* acquire                                                                  *)

Begin(c) ==
    /\ pc[c] = "out"
    /\ Goto(c, "try")
    /\ UNCHANGED <<holders, tokens, blocked, late, faults>>

Free == Cardinality(holders) < Limit

\* (fault) The elapsed timeout of this acquire is left for the next.
SucceedStaysLate(c) ==
    /\ pc[c] = "try"
    /\ Free
    /\ holders' = holders \cup {c}
    /\ Goto(c, "hold")
    /\ UNCHANGED <<tokens, blocked, late, faults>>

\* The script finds room.
Succeed(c) ==
    /\ pc[c] = "try"
    /\ Free
    /\ holders' = holders \cup {c}
    /\ late' = late \ {c}
    /\ Goto(c, "hold")
    /\ UNCHANGED <<tokens, blocked, faults>>

\* (fault) The acquire_timeout is not checked.
ReturnOnlyImpatient(c) ==
    /\ pc[c] = "try"
    /\ ~Free
    /\ c \in Impatient
    /\ Goto(c, "out")
    /\ UNCHANGED <<holders, tokens, blocked, late, faults>>

\* It does not, and the caller does not wait, or has waited long enough.
Return(c) ==
    /\ pc[c] = "try"
    /\ ~Free
    /\ c \in Impatient \cup late
    /\ late' = late \ {c}
    /\ Goto(c, "out")
    /\ UNCHANGED <<holders, tokens, blocked, faults>>

Wait(c) ==
    /\ pc[c] = "try"
    /\ ~Free
    /\ c \notin Impatient \cup late
    /\ Goto(c, "park")
    /\ UNCHANGED <<holders, tokens, blocked, late, faults>>

\* BLPOP takes a token, or blocks; _blpop_timeout_for skips the wait of a caller
\* whose time is up.
Blpop(c) ==
    /\ pc[c] = "park"
    /\ IF tokens > 0 /\ c \notin late
       THEN tokens' = tokens - 1 /\ Goto(c, "try") /\ UNCHANGED blocked
       ELSE IF c \in late
       THEN Goto(c, "try") /\ UNCHANGED <<tokens, blocked>>
       ELSE blocked' = Append(blocked, c) /\ Goto(c, "blocked") /\ UNCHANGED tokens
    /\ UNCHANGED <<holders, late, faults>>

Unblocked(c) == RemoveFirst(blocked, c)

\* (fault) A timeout of 0.
BlpopForEver(c) == FALSE /\ UNCHANGED vars

\* The timeout of one BLPOP: never 0, which would block for ever.
BlpopTimesOut(c) ==
    /\ pc[c] = "blocked"
    /\ blocked' = Unblocked(c)
    /\ Goto(c, "try")
    /\ UNCHANGED <<holders, tokens, late, faults>>

Elapse(c) ==
    /\ c \in Timed
    /\ pc[c] \in {"try", "park", "blocked"}
    /\ late' = late \cup {c}
    /\ UNCHANGED <<pc, holders, tokens, blocked, faults>>

-----------------------------------------------------------------------------
(* release and _notify_waiters                                              *)

Release(c) ==
    /\ pc[c] = "hold"
    /\ holders' = holders \ {c}
    /\ Goto(c, "push")
    /\ UNCHANGED <<tokens, blocked, late, faults>>

\* LPUSH: Redis hands the token to the client that has been blocked longest.
Push(c) ==
    /\ pc[c] = "push"
    /\ IF blocked = <<>>
       THEN tokens' = tokens + 1 /\ Goto(c, "trim") /\ UNCHANGED blocked
       ELSE /\ blocked' = Tail(blocked)
            /\ pc' = [pc EXCEPT ![c] = "trim", ![Head(blocked)] = "try"]
            /\ UNCHANGED tokens
    /\ UNCHANGED <<holders, late, faults>>

\* (faults) LTRIM keeps one token too few; it is not called.
TrimOneMore(c) ==
    /\ pc[c] = "trim"
    /\ tokens' = IF tokens > Limit - 1 THEN Limit - 1 ELSE tokens
    /\ Goto(c, "out")
    /\ UNCHANGED <<holders, blocked, late, faults>>
TrimNothing(c) ==
    /\ pc[c] = "trim"
    /\ Goto(c, "out")
    /\ UNCHANGED <<holders, tokens, blocked, late, faults>>

\* LTRIM to Limit tokens (and PEXPIRE, whose effect is TokensExpire).
Trim(c) ==
    /\ pc[c] = "trim"
    /\ tokens' = IF tokens > Limit THEN Limit ELSE tokens
    /\ Goto(c, "out")
    /\ UNCHANGED <<holders, blocked, late, faults>>

-----------------------------------------------------------------------------
(* Faults.                                                                  *)

Fault == faults < MaxFaults /\ faults' = faults + 1

\* The pipeline breaks: the rest of its commands is not executed.
NotifyFails(c) ==
    /\ pc[c] \in {"push", "trim"}
    /\ Fault
    /\ Goto(c, "out")
    /\ UNCHANGED <<holders, tokens, blocked, late>>

\* A wait breaks: a transient error is taken for a wake-up, any other ends acquire.
WaitFails(c) ==
    /\ pc[c] = "blocked"
    /\ Fault
    /\ blocked' = Unblocked(c)
    /\ \/ Goto(c, "try") /\ UNCHANGED late
       \/ Goto(c, "out") /\ late' = late \ {c}
    /\ UNCHANGED <<holders, tokens>>

\* A client ends; Redis drops it from the blocked ones, its slot is not released.
Crash(c) ==
    /\ pc[c] # "crashed"
    /\ Fault
    /\ blocked' = Unblocked(c)
    /\ late' = late \ {c}
    /\ Goto(c, "crashed")
    /\ UNCHANGED <<holders, tokens>>

\* The lease of a crashed holder ends: the next script finds room, nobody is told.
Evict(c) ==
    /\ pc[c] = "crashed"
    /\ c \in holders
    /\ holders' = holders \ {c}
    /\ UNCHANGED <<pc, tokens, blocked, late, faults>>

TokensExpire ==
    /\ tokens > 0
    /\ Fault
    /\ tokens' = 0
    /\ UNCHANGED <<pc, holders, blocked, late>>

Next ==
    \/ \E c \in Client : Begin(c) \/ Succeed(c) \/ Return(c) \/ Wait(c) \/ Blpop(c)
                          \/ BlpopTimesOut(c) \/ Elapse(c)
    \/ \E c \in Client : Release(c) \/ Push(c) \/ Trim(c)
    \/ \E c \in Client : NotifyFails(c) \/ WaitFails(c) \/ Crash(c) \/ Evict(c)
    \/ TokensExpire

\* A call in progress goes on, timeouts elapse and leases end.  Nobody has to call
\* acquire or release, and no client has to win a slot others want.
Fairness ==
    \A c \in Client :
        /\ WF_vars(Succeed(c) \/ Return(c) \/ Wait(c)) /\ WF_vars(Blpop(c))
        /\ WF_vars(BlpopTimesOut(c)) /\ WF_vars(Elapse(c))
        /\ WF_vars(Push(c)) /\ WF_vars(Trim(c)) /\ WF_vars(Evict(c))

Spec == Init /\ [][Next]_vars /\ Fairness

-----------------------------------------------------------------------------
(* Properties                                                               *)

\* Without faults the fallback timeout is never needed: when a slot is free and a
\* client is blocked, somebody is about to ask for the slot or to push a token.
\* Release gives the slot back before it pushes, a token waits in the list for a
\* client that has been refused but is not blocked yet, and LTRIM leaves enough.
NoMissedWakeup ==
    faults = 0 /\ Free /\ blocked # <<>> =>
        \E c \in Client : pc[c] \in {"try", "push"}

\* Tokens do not pile up: beyond Limit there are only those whose notifier has not
\* trimmed the list yet, or has failed in between.
TokensBounded ==
    tokens <= Limit + Cardinality({c \in Client : pc[c] = "trim"}) + faults

Waiting(c) == pc[c] \in {"try", "park", "blocked"}

\* Nobody waits while a slot stays free, whatever wake-up was lost: every waiter asks
\* again after its BLPOP timeout, and gets the slot unless all have been taken.
FreeSlotIsUsed ==
    \A c \in Client : (Free /\ Waiting(c)) ~> (~Free \/ ~Waiting(c))

\* acquire ends when it is not to wait, or has waited for acquire_timeout.
AcquireReturns == \A c \in Timed \cup Impatient : Waiting(c) ~> ~Waiting(c)
=============================================================================
