------------------------------ MODULE RateLimiter ------------------------------
(***************************************************************************)
(* RateLimiter: callers that acquire a permit, wait until it fits, give up *)
(* at acquire_timeout, and settle the real cost later with adjust.  An     *)
(* answer of Redis may be lost after the script ran: the Redis client then *)
(* sends the same call again, or raises a BackendError.                    *)
(*                                                                         *)
(* A request is one acquire() and its permit; its identifier is fixed for  *)
(* all attempts.  The scripts use the clock of the server.                 *)
(***************************************************************************)
EXTENDS RateScripts

CONSTANTS
    Asks,           \* the costs a caller may ask for or settle, vectors over Limits
    AcquireTimeout, \* acquire_timeout; 0 stands for blocking=False
    WaitJitter,     \* wait_jitter
    AnswersLost,    \* whether answers of Redis may be lost
    ResendDelay,    \* a lost call is sent again within this time
    AdjustFails,    \* whether adjust() may raise although its script ran
    MaxAdjusts,     \* bound: adjusts of one permit
    MaxTime         \* bound: the clock

ASSUME AsksAssumption == Asks \subseteq [Limits -> Costs]
ASSUME TimingAssumption == {AcquireTimeout, WaitJitter, ResendDelay, MaxAdjusts, MaxTime} \subseteq Nat

VARIABLES
    pc,         \* where the caller of each request stands
    costs,      \* permit.costs
    acquiredAt, \* permit.acquired_at
    since,      \* when the acquire() in progress began; when the lost call was sent
    wake,       \* end of the sleep between two attempts (0 when there is none)
    target,     \* the costs an adjust in flight asks for
    adjusts     \* adjusts begun

vars == <<now, rate, pc, costs, acquiredAt, since, wake, target, adjusts>>

States == {"idle", "trying", "resending", "sleeping", "timed out", "failed",
           "admitted", "readjusting"}

\* The caller holds a permit and uses its units.
Holders == {r \in Identifier : pc[r] \in {"admitted", "readjusting"}}

Never == [call |-> 0, lost |-> None]
Nothing == [l \in Limits |-> 0]

StateOK ==
    /\ now \in 0 .. MaxTime
    /\ \A l \in Limits : Keys(rate[l])
    /\ pc \in [Identifier -> States]
    /\ costs \in [Identifier -> Asks \cup {Nothing}]
    /\ acquiredAt \in [Identifier -> {None} \cup 0 .. MaxTime]
    /\ since \in [Identifier -> [call : 0 .. MaxTime, lost : {None} \cup 0 .. MaxTime]]
    /\ wake \in [Identifier -> 0 .. MaxTime]
    /\ target \in [Identifier -> Asks \cup {Nothing}]
    /\ adjusts \in [Identifier -> 0 .. MaxAdjusts]

\* No caller sleeps past its acquire_timeout.
SleepsInTime == \A r \in Identifier : pc[r] = "sleeping" => wake[r] <= since[r].call + AcquireTimeout

TypeOK == StateOK /\ SleepsInTime

Init ==
    /\ now = 0
    /\ rate = [l \in Limits |-> NoKeys]
    /\ pc = [r \in Identifier |-> "idle"]
    /\ costs = [r \in Identifier |-> Nothing]
    /\ acquiredAt = [r \in Identifier |-> None]
    /\ since = [r \in Identifier |-> Never]
    /\ wake = [r \in Identifier |-> 0]
    /\ target = [r \in Identifier |-> Nothing]
    /\ adjusts = [r \in Identifier |-> 0]

-----------------------------------------------------------------------------
(* acquire                                                                   *)

\* _resolve_costs refuses a cost above its limit: it could never be admitted.
Resolves(c) == \A l \in Limits : c[l] <= Limit[l]

Call(r, c) ==
    /\ pc[r] = "idle" /\ Resolves(c)
    /\ now + AcquireTimeout <= MaxTime
    /\ pc' = [pc EXCEPT ![r] = "trying"]
    /\ costs' = [costs EXCEPT ![r] = c]
    /\ since' = [since EXCEPT ![r].call = now]
    /\ UNCHANGED <<now, rate, acquiredAt, wake, target, adjusts>>

Remaining(r) == since[r].call + AcquireTimeout - now

\* (fault) The wait is not compared with the time that remains.
WaitRegardless(r, retry) ==
    \E jitter \in 0 .. WaitJitter :
        /\ pc' = [pc EXCEPT ![r] = "sleeping"]
        /\ wake' = [wake EXCEPT ![r] = IF now + retry + jitter > MaxTime THEN MaxTime
                                       ELSE now + retry + jitter]

\* _next_wait: fail fast when the request cannot fit before the deadline, else
\* sleep, with a jitter, but not past the deadline.
NextWait(r, retry) ==
    IF retry > Remaining(r)
    THEN pc' = [pc EXCEPT ![r] = "timed out"] /\ wake' = [wake EXCEPT ![r] = 0]
    ELSE \E jitter \in 0 .. WaitJitter :
            /\ pc' = [pc EXCEPT ![r] = "sleeping"]
            /\ wake' = [wake EXCEPT ![r] =
                    now + IF retry + jitter < Remaining(r) THEN retry + jitter ELSE Remaining(r)]

\* The answer of RATE_ACQUIRE reaches the caller: _build_permit.
AnswerAcquire(r) ==
    /\ IF Admits(r, costs[r], now)
       THEN /\ pc' = [pc EXCEPT ![r] = "admitted"]
            /\ acquiredAt' = [acquiredAt EXCEPT ![r] = now]
            /\ wake' = [wake EXCEPT ![r] = 0]
            /\ since' = [since EXCEPT ![r] = Never]
       ELSE /\ NextWait(r, RetryAfter(r, costs[r], now))
            /\ since' = [since EXCEPT ![r].lost = None]
            /\ UNCHANGED acquiredAt

\* The answer is lost: the call is sent once more, or the caller gets an error.
LoseAnswer(r, resent, error) ==
    /\ AnswersLost
    /\ \/ /\ since[r].lost = None
          /\ pc' = [pc EXCEPT ![r] = resent]
          /\ since' = [since EXCEPT ![r].lost = now]
       \/ /\ pc' = [pc EXCEPT ![r] = error]
          /\ since' = [since EXCEPT ![r] = Never]

TryAcquire(r) ==
    /\ pc[r] \in {"trying", "resending"} \/ (pc[r] = "sleeping" /\ now >= wake[r])
    /\ RateAcquire(r, costs[r], now)
    /\ \/ AnswerAcquire(r)
       \/ /\ LoseAnswer(r, "resending", "failed")
          /\ wake' = [wake EXCEPT ![r] = 0]
          /\ UNCHANGED acquiredAt
    /\ UNCHANGED <<now, costs, target, adjusts>>

-----------------------------------------------------------------------------
(* adjust                                                                    *)

\* RATE_ADJUST, with its answer or without.
SendAdjust(r, new) ==
    /\ RateAdjust(r, costs[r], new, acquiredAt[r], now)
    /\ \/ /\ pc' = [pc EXCEPT ![r] = "admitted"]
          /\ costs' = [costs EXCEPT ![r] = new]
          /\ since' = [since EXCEPT ![r] = Never]
          /\ target' = [target EXCEPT ![r] = Nothing]
       \/ /\ LoseAnswer(r, "readjusting", "admitted")
          /\ pc'[r] = "admitted" => AdjustFails
          /\ target' = [target EXCEPT ![r] = IF pc'[r] = "admitted" THEN Nothing ELSE new]
          /\ UNCHANGED costs
    /\ UNCHANGED <<now, acquiredAt, wake>>

\* adjust(): the cost may go over a limit, and nothing is sent if none changes.
Adjust(r, new) ==
    /\ pc[r] = "admitted"
    /\ new # costs[r]
    /\ adjusts[r] < MaxAdjusts
    /\ adjusts' = [adjusts EXCEPT ![r] = @ + 1]
    /\ SendAdjust(r, new)

ResendAdjust(r) ==
    /\ pc[r] = "readjusting"
    /\ SendAdjust(r, target[r])
    /\ UNCHANGED adjusts

-----------------------------------------------------------------------------
(* status() of any process, and time.                                        *)

Status ==
    /\ RateStatus(now)
    /\ UNCHANGED <<now, pc, costs, acquiredAt, since, wake, target, adjusts>>

Tick ==
    /\ now < MaxTime
    /\ \A r \in Identifier : pc[r] \in {"resending", "readjusting"} => now < since[r].lost + ResendDelay
    /\ Passes
    /\ UNCHANGED <<pc, costs, acquiredAt, since, wake, target, adjusts>>

Next ==
    \/ \E r \in Identifier : \/ \E c \in Asks : Call(r, c) \/ Adjust(r, c)
                             \/ TryAcquire(r)
                             \/ ResendAdjust(r)
    \/ Status
    \/ Tick

\* acquire() is a loop around the script and a sleep; the clock goes on.
Fairness == WF_vars(Tick) /\ \A r \in Identifier : WF_vars(TryAcquire(r)) /\ WF_vars(ResendAdjust(r))

Spec == Init /\ [][Next]_vars /\ Fairness

-----------------------------------------------------------------------------
(* Properties.                                                               *)

\* What the holder of r counts as its cost; an adjust in flight has reached Redis.
Charged(r) == IF pc[r] = "readjusting" THEN target[r] ELSE costs[r]

\* The units of l in use by requests admitted in the last window.
InUse(l) ==
    Cardinality({u \in Holders \X (1 .. MaxCost) :
        acquiredAt[u[1]] > now - Window[l] /\ u[2] <= Charged(u[1])[l]})

\* Every log the request is charged to holds it.
OnRecord(r) ==
    LET charged == {l \in Limits : costs[r][l] > 0}
    IN  charged # {} /\ \A l \in charged : <<r, costs[r][l]>> \in DOMAIN rate[l].log

\* At most Limit units are admitted in any window, counted from what the callers
\* hold: no request is admitted on top of units that are still in use, whatever
\* was evicted, refunded, resent or counted twice before.  (A resent acquire that
\* is on record already was admitted by its first attempt.)
AdmissionWithinLimits ==
    [][\A r \in Identifier : (r \in Holders' \ Holders /\ ~OnRecord(r)) =>
        \A l \in Limits : costs'[r][l] > 0 => InUse(l)' <= Limit[l]]_vars

\* While a request is in the window of a limit, its log holds the request exactly
\* once, at the cost and the time of its permit: what adjust() settles is charged,
\* no more and no less, also when a call was sent twice.
PermitMatchesLog ==
    \A r \in Identifier, l \in Limits :
        (pc[r] = "admitted" /\ now < acquiredAt[r] + Window[l]) =>
            LET entries == {m \in DOMAIN rate[l].log : m[1] = r}
            IN  /\ entries = IF costs[r][l] = 0 THEN {} ELSE {<<r, costs[r][l]>>}
                /\ \A m \in entries : rate[l].log[m] = acquiredAt[r]

\* "Replace the recorded cost": once an adjust() has returned, the request is
\* charged the new cost, unless it has left the window.
AdjustSettles ==
    [][\A r \in Holders, l \in Limits :
        (costs'[r] # costs[r] /\ now < acquiredAt[r] + Window[l]) =>
            {m[2] : m \in {k \in DOMAIN rate'[l].log : k[1] = r}} = {costs'[r][l]} \ {0}]_vars

\* "The new cost keeps the original admission time": an adjust never moves the
\* request in the log.
KeepsAdmissionTime ==
    [][\A r \in Identifier, l \in Limits, m, k \in Member :
        (m[1] = r /\ k[1] = r /\ m \in DOMAIN rate[l].log /\ k \in DOMAIN rate'[l].log) =>
            rate'[l].log[k] = rate[l].log[m]]_vars

\* A resent acquire finds its own first attempt and is not denied against it.
ResentIsAdmitted ==
    [][\A r \in Identifier :
        (pc[r] = "resending" /\ OnRecord(r)) => pc'[r] \notin {"sleeping", "timed out"}]_vars

\* Every acquire() ends: with a permit, RateLimitTimeoutError or BackendError.
EveryAcquireEnds ==
    \A r \in Identifier : pc[r] = "trying" ~> pc[r] \in {"admitted", "timed out", "failed"}
=============================================================================
