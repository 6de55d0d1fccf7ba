---------------------------- MODULE SemaphoreClient ----------------------------
(***************************************************************************)
(* Semaphore instances on a network that fails: each has the thread that   *)
(* calls acquire, release and refresh, and the heartbeats it started, one  *)
(* of them current; all work on the scripts of SemaphoreScripts with the   *)
(* server's clock.  The sync API (threads, joined with a timeout) and the  *)
(* async one (tasks, cancelled) differ in how a heartbeat is stopped.      *)
(*                                                                         *)
(* Timing: a script call ends within CallTimeout (the socket timeout), a   *)
(* thread whose wait is over runs before time passes, and clocks advance   *)
(* together.  A call that fails may have been executed, may never be, or   *)
(* may be executed later (strays).  MaxIdentifiers, MaxHeartbeats,         *)
(* MaxFaults and MaxTime bound the runs.                                   *)
(***************************************************************************)
EXTENDS Integers, FiniteSets

CONSTANTS
    Instance,   \* the Semaphore instances modelled in full
    Rival,      \* identifiers of others, who use the scripts as they like
    Limit,
    LockTimeout, RefreshInterval, RetryStep, CallTimeout,
    Strict,     \* strict_mode
    Forbid,     \* reacquire_policy is FORBID
    Async,      \* the async API is used
    MaxIdentifiers, MaxHeartbeats, MaxFaults, MaxTime

ASSUME LimitAssumption == Limit \in Nat \ {0}
ASSUME TimingAssumption ==
    {LockTimeout, RefreshInterval, RetryStep, CallTimeout} \subseteq Nat \ {0}
ASSUME ModeAssumption == {Strict, Forbid, Async} \subseteq BOOLEAN
ASSUME BoundAssumption == {MaxIdentifiers, MaxHeartbeats, MaxFaults, MaxTime} \subseteq Nat

\* The identifiers an instance generates, in order, and those of the rivals.
Own == Instance \X (1..MaxIdentifiers)
Identifier == Own \cup Rival

\* Nobody generates the identifier of another (they are UUIDs).
ASSUME RivalAssumption == Rival \cap Own = {}

Heartbeat == Instance \X (1..MaxHeartbeats)
Caller(i) == <<i, 0>>
Thread == (Instance \X {0}) \cup Heartbeat

VARIABLES
    now, owners, ownersExp,     \* of SemaphoreScripts
    state,      \* _state of each instance
    identifier, \* _identifier: the number of the one in use (0: None)
    made,       \* how many identifiers the instance has generated
    heartbeat,  \* _heartbeat: the number of the current one (0: None)
    lostEvent,  \* _lock_lost_event
    pc,         \* where each thread is
    call,       \* the script call each thread is in
    timer,      \* when the present wait of the thread is over
    beatsFor,   \* the identifier each heartbeat was started for (0: not started)
    stopped,    \* _stop_event of each heartbeat
    deadline,   \* when each heartbeat may no longer retry
    strays,     \* requests whose callers have given up on them
    faults,     \* how many faults there have been
    lease       \* history: the last expiry the server gave to an instance

server == <<now, owners, ownersExp>>
local == <<state, identifier, made, heartbeat, lostEvent, beatsFor>>
threads == <<pc, call, timer, stopped, deadline>>
vars == <<server, local, threads, strays, faults, lease>>

Server == INSTANCE SemaphoreScripts WITH
    LockTimeout <- [id \in Identifier |-> LockTimeout]

NoCall == [op |-> "none", id |-> <<>>, executed |-> FALSE, ok |-> FALSE]
Request == [op : {"acquire", "release", "refresh"}, id : Own]

TypeOK ==
    /\ Server!StoreOK
    /\ state \in [Instance -> {"RELEASED", "ACQUIRED", "LOST"}]
    /\ identifier \in [Instance -> 0..MaxIdentifiers]
    /\ made \in [Instance -> 0..MaxIdentifiers]
    /\ heartbeat \in [Instance -> 0..MaxHeartbeats]
    /\ lostEvent \in [Instance -> BOOLEAN]
    /\ \A i \in Instance :
           pc[Caller(i)] \in {"idle", "acquire", "blocked", "release", "refresh",
                              "stop_release", "stop_lost", "crashed"}
    /\ \A h \in Heartbeat : pc[h] \in {"unborn", "wait", "refreshing", "done"}
    /\ \A t \in Thread :
           /\ timer[t] \in Nat
           /\ call[t] = NoCall \/ [op |-> call[t].op, id |-> call[t].id] \in Request
    /\ beatsFor \in [Heartbeat -> 0..MaxIdentifiers]
    /\ stopped \in [Heartbeat -> BOOLEAN]
    /\ deadline \in [Heartbeat -> Nat]
    /\ strays \subseteq [op : {"acquire", "release", "refresh"}, id : Own,
                         done : BOOLEAN]
    /\ faults \in 0..MaxFaults
    /\ lease \in [Instance -> Nat]
    /\ \A i \in Instance : identifier[i] = 0 => state[i] = "RELEASED"

Init ==
    /\ Server!StoreInit
    /\ state = [i \in Instance |-> "RELEASED"]
    /\ identifier = [i \in Instance |-> 0]
    /\ made = [i \in Instance |-> 0]
    /\ heartbeat = [i \in Instance |-> 0]
    /\ lostEvent = [i \in Instance |-> FALSE]
    /\ pc = [t \in Thread |-> IF t \in Heartbeat THEN "unborn" ELSE "idle"]
    /\ call = [t \in Thread |-> NoCall]
    /\ timer = [t \in Thread |-> 0]
    /\ beatsFor = [h \in Heartbeat |-> 0]
    /\ stopped = [h \in Heartbeat |-> FALSE]
    /\ deadline = [h \in Heartbeat |-> 0]
    /\ strays = {}
    /\ faults = 0
    /\ lease = [i \in Instance |-> 0]

-----------------------------------------------------------------------------
(* Script calls: sent, executed by the server, answered or failed.          *)

Answered(t) == call[t] # NoCall /\ call[t].executed
Sent(t) == call[t] # NoCall /\ ~call[t].executed

\* Thread t goes to step and sends a request for the identifier number k.
Send(t, step, op, k) ==
    /\ pc' = [pc EXCEPT ![t] = step]
    /\ call' = [call EXCEPT ![t] =
                    [op |-> op, id |-> <<t[1], k>>, executed |-> FALSE, ok |-> FALSE]]
    /\ timer' = [timer EXCEPT ![t] = now + CallTimeout]

\* Thread t goes to step: its call is over, and it waits for nothing until wake
\* (0: it does not wait).
Return(t, step, wake) ==
    /\ pc' = [pc EXCEPT ![t] = step]
    /\ call' = [call EXCEPT ![t] = NoCall]
    /\ timer' = [timer EXCEPT ![t] = wake]

Execute(op, id) ==
    \/ op = "acquire" /\ Server!AcquireScript(id, now)
    \/ op = "release" /\ Server!ReleaseScript(id)
    \/ op = "refresh" /\ Server!RefreshScript(id, now)

Succeeds(op, id) ==
    \/ op = "acquire" /\ Server!Admits(id, now)
    \/ op = "release" /\ id \in DOMAIN owners
    \/ op = "refresh" /\ Server!Renewable(id, now)

NoteLease(op, id) ==
    lease' = IF op # "release" /\ Succeeds(op, id) /\ identifier[id[1]] = id[2]
             THEN [lease EXCEPT ![id[1]] = now + LockTimeout]
             ELSE lease

Serve(t) ==
    /\ Sent(t)
    /\ Execute(call[t].op, call[t].id)
    /\ call' = [call EXCEPT ![t].executed = TRUE,
                            ![t].ok = Succeeds(call[t].op, call[t].id)]
    /\ NoteLease(call[t].op, call[t].id)
    /\ UNCHANGED <<local, pc, timer, stopped, deadline, strays, faults>>

\* A request whose caller has given up is executed after all (of the acquires the
\* history is kept).
ServeStray(r) ==
    /\ ~r.done
    /\ Execute(r.op, r.id)
    /\ strays' = (strays \ {r}) \cup
                 (IF r.op = "acquire" THEN {[r EXCEPT !.done = TRUE]} ELSE {})
    /\ NoteLease(r.op, r.id)
    /\ UNCHANGED <<local, threads, faults>>

Fault == faults < MaxFaults /\ faults' = faults + 1

\* The requests of the threads ts that the server has not seen are lost or on
\* their way.
Abandon(ts) ==
    \E sent \in SUBSET {t \in ts : Sent(t)} :
        strays' = strays \cup
                  {[op |-> call[t].op, id |-> call[t].id, done |-> FALSE] : t \in sent}

\* redis-py sends the request again (retry_on_timeout): the answer was lost.
Resend(t) ==
    /\ Answered(t)
    /\ Fault
    /\ call' = [call EXCEPT ![t].executed = FALSE]
    /\ UNCHANGED <<server, local, pc, timer, stopped, deadline, strays, lease>>

-----------------------------------------------------------------------------
(* The heartbeat of an instance.                                            *)

\* _start_heartbeat: a new Heartbeat, unless there is one.
StartHeartbeat(i) ==
    \/ /\ heartbeat[i] # 0
       /\ Return(Caller(i), "idle", 0)
       /\ UNCHANGED <<heartbeat, beatsFor, deadline>>
    \/ \E k \in 1..MaxHeartbeats :
           /\ heartbeat[i] = 0
           /\ pc[<<i, k>>] = "unborn"
           /\ \A l \in 1..(k - 1) : pc[<<i, l>>] # "unborn"
           /\ heartbeat' = [heartbeat EXCEPT ![i] = k]
           /\ beatsFor' = [beatsFor EXCEPT ![<<i, k>>] = identifier[i]]
           /\ pc' = [pc EXCEPT ![Caller(i)] = "idle", ![<<i, k>>] = "wait"]
           /\ call' = [call EXCEPT ![Caller(i)] = NoCall]
           /\ timer' = [timer EXCEPT ![Caller(i)] = 0, ![<<i, k>>] = now + RefreshInterval]
           /\ deadline' = [deadline EXCEPT ![<<i, k>>] = now + LockTimeout]

\* on_lost: ignored by an instance that does not believe it holds the slot.
OnLost(i) ==
    IF state[i] = "ACQUIRED"
    THEN /\ state' = [state EXCEPT ![i] = "LOST"]
         /\ lostEvent' = [lostEvent EXCEPT ![i] = TRUE]
    ELSE UNCHANGED <<state, lostEvent>>

\* The wait of the loop is over: refresh, with the identifier of the moment.
HbAttempts(h) ==
    LET i == h[1]
    IN  /\ pc[h] = "wait"
        /\ ~stopped[h]
        /\ now >= timer[h]
        /\ IF state[i] = "ACQUIRED"
           THEN Send(h, "refreshing", "refresh", identifier[i])
           ELSE Return(h, "done", 0)
        /\ UNCHANGED <<server, local, stopped, deadline, strays, faults, lease>>

\* Refreshed: the deadline counts from the start of this attempt.
HbRefreshed(h) ==
    /\ pc[h] = "refreshing"
    /\ Answered(h)
    /\ call[h].ok
    /\ Return(h, "wait", now + RefreshInterval)
    /\ deadline' = [deadline EXCEPT ![h] = (timer[h] - CallTimeout) + LockTimeout]
    /\ UNCHANGED <<server, local, stopped, strays, faults, lease>>

\* The server answers that the lock is lost.
HbLoses(h) ==
    /\ pc[h] = "refreshing"
    /\ Answered(h)
    /\ ~call[h].ok
    /\ Return(h, "done", 0)
    /\ OnLost(h[1])
    /\ UNCHANGED <<server, beatsFor, identifier, made, heartbeat, stopped, deadline,
                   strays, faults, lease>>

\* The pause before the next attempt ends no later than the deadline.
RetryPause(h) ==
    IF deadline[h] - now < RetryStep THEN deadline[h] - now ELSE RetryStep

\* (fault) The deadline is not looked at.
GivesUpIfPermanent(h, permanent) == permanent

\* A failed refresh is the end: the server will refuse the next one too, or the
\* deadline has come.
GivesUp(h, permanent) == permanent \/ now >= deadline[h]

\* The refresh fails: for good, or to be tried again by the deadline.
HbRaises(h) ==
    /\ pc[h] = "refreshing"
    /\ Abandon({h})
    /\ \E permanent \in BOOLEAN :
           IF GivesUp(h, permanent)
           THEN Return(h, "done", 0) /\ OnLost(h[1])
           ELSE /\ Return(h, "wait", now + RetryPause(h))
                /\ UNCHANGED <<state, lostEvent>>
    /\ UNCHANGED <<server, identifier, made, heartbeat, beatsFor, stopped, deadline,
                   faults, lease>>

\* A thread sees the stop event when it waits; a task is cancelled anywhere.
HbStops(h) ==
    /\ stopped[h]
    /\ pc[h] = "wait" \/ (Async /\ pc[h] = "refreshing")
    /\ Abandon({h})
    /\ Return(h, "done", 0)
    /\ UNCHANGED <<server, local, stopped, deadline, faults, lease>>

\* _stop_heartbeat sets the event of the current heartbeat and joins it.
StopHeartbeat(i, step) ==
    /\ stopped' = [stopped EXCEPT ![<<i, heartbeat[i]>>] = TRUE]
    /\ pc' = [pc EXCEPT ![Caller(i)] = step]
    /\ timer' = [timer EXCEPT ![Caller(i)] = now + 2 * RefreshInterval]

\* (fault) Nobody waits for the heartbeat.
JoinedAtOnce(i) == TRUE

\* The heartbeat has ended, or a thread has not within twice its interval.
Joined(i) ==
    pc[<<i, heartbeat[i]>>] = "done" \/ (~Async /\ now >= timer[Caller(i)])

-----------------------------------------------------------------------------
(* acquire                                                                  *)

\* (fault) A lost lock is not looked at.
MayAcquireLost(i) == ~(Forbid /\ state[i] = "ACQUIRED")

\* _check_lock_lost and _check_reacquire raise nothing.
MayAcquire(i) ==
    /\ ~(Strict /\ state[i] = "LOST")
    /\ ~(Forbid /\ state[i] = "ACQUIRED")

NewIdentifier(i) ==
    /\ made[i] < MaxIdentifiers
    /\ made' = [made EXCEPT ![i] = @ + 1]
    /\ identifier' = [identifier EXCEPT ![i] = made[i] + 1]

\* An identifier that is not None is kept: a failed acquire may have succeeded.
UseIdentifier(i) ==
    IF identifier[i] = 0 THEN NewIdentifier(i) ELSE UNCHANGED <<made, identifier>>

BeginAcquire(i) ==
    /\ pc[Caller(i)] = "idle"
    /\ MayAcquire(i)
    /\ UseIdentifier(i)
    /\ Send(Caller(i), "acquire", "acquire", identifier'[i])
    /\ UNCHANGED <<server, state, heartbeat, lostEvent, beatsFor, stopped, deadline,
                   strays, faults, lease>>

Acquired(i) ==
    /\ pc[Caller(i)] = "acquire"
    /\ Answered(Caller(i))
    /\ call[Caller(i)].ok
    /\ state' = [state EXCEPT ![i] = "ACQUIRED"]
    /\ StartHeartbeat(i)
    /\ UNCHANGED <<server, identifier, made, lostEvent, stopped, strays, faults, lease>>

\* No slot: the caller of a blocking acquire waits, the other one returns.
Refused(i) ==
    /\ pc[Caller(i)] = "acquire"
    /\ Answered(Caller(i))
    /\ ~call[Caller(i)].ok
    /\ \E step \in {"idle", "blocked"} : Return(Caller(i), step, 0)
    /\ UNCHANGED <<server, local, stopped, deadline, strays, faults, lease>>

\* The next round of the loop of a blocking acquire, with none of the checks.
RetryAcquire(i) ==
    /\ pc[Caller(i)] = "blocked"
    /\ Send(Caller(i), "acquire", "acquire", identifier[i])
    /\ UNCHANGED <<server, local, stopped, deadline, strays, faults, lease>>

AcquireTimesOut(i) ==
    /\ pc[Caller(i)] = "blocked"
    /\ Return(Caller(i), "idle", 0)
    /\ UNCHANGED <<server, local, stopped, deadline, strays, faults, lease>>

-----------------------------------------------------------------------------
(* release and refresh                                                      *)

BeginRelease(i) ==
    /\ pc[Caller(i)] = "idle"
    /\ identifier[i] # 0
    /\ IF heartbeat[i] # 0
       THEN StopHeartbeat(i, "stop_release") /\ UNCHANGED call
       ELSE Send(Caller(i), "release", "release", identifier[i]) /\ UNCHANGED stopped
    /\ UNCHANGED <<server, local, deadline, strays, faults, lease>>

\* (fault) The heartbeat is not dropped.
JoinedAndKept(i) ==
    /\ pc[Caller(i)] = "stop_release"
    /\ Joined(i)
    /\ Send(Caller(i), "release", "release", identifier[i])
    /\ UNCHANGED <<server, local, stopped, deadline, strays, faults, lease>>

\* The heartbeat is dropped, ended or not, and the release goes on.
JoinedForRelease(i) ==
    /\ pc[Caller(i)] = "stop_release"
    /\ Joined(i)
    /\ heartbeat' = [heartbeat EXCEPT ![i] = 0]
    /\ Send(Caller(i), "release", "release", identifier[i])
    /\ UNCHANGED <<server, beatsFor, state, identifier, made, lostEvent, stopped, deadline,
                   strays, faults, lease>>

\* (faults) A reset that forgets the state, or the event.
ResetIdentifierAndEvent(i) ==
    /\ identifier' = [identifier EXCEPT ![i] = 0]
    /\ lostEvent' = [lostEvent EXCEPT ![i] = FALSE]
    /\ UNCHANGED state
ResetStateAndIdentifier(i) ==
    /\ state' = [state EXCEPT ![i] = "RELEASED"]
    /\ identifier' = [identifier EXCEPT ![i] = 0]
    /\ UNCHANGED lostEvent

ResetState(i) ==
    /\ state' = [state EXCEPT ![i] = "RELEASED"]
    /\ identifier' = [identifier EXCEPT ![i] = 0]
    /\ lostEvent' = [lostEvent EXCEPT ![i] = FALSE]

\* The state is reset whatever the server has answered.
Released(i) ==
    /\ pc[Caller(i)] = "release"
    /\ Answered(Caller(i))
    /\ Return(Caller(i), "idle", 0)
    /\ ResetState(i)
    /\ lease' = [lease EXCEPT ![i] = 0]
    /\ UNCHANGED <<server, beatsFor, made, heartbeat, stopped, deadline, strays, faults>>

BeginRefresh(i) ==
    /\ pc[Caller(i)] = "idle"
    /\ state[i] = "ACQUIRED"
    /\ Send(Caller(i), "refresh", "refresh", identifier[i])
    /\ UNCHANGED <<server, local, stopped, deadline, strays, faults, lease>>

Refreshed(i) ==
    /\ pc[Caller(i)] = "refresh"
    /\ Answered(Caller(i))
    /\ call[Caller(i)].ok
    /\ Return(Caller(i), "idle", 0)
    /\ UNCHANGED <<server, local, stopped, deadline, strays, faults, lease>>

RefreshFindsLost(i) ==
    /\ pc[Caller(i)] = "refresh"
    /\ Answered(Caller(i))
    /\ ~call[Caller(i)].ok
    /\ state' = [state EXCEPT ![i] = "LOST"]
    /\ lostEvent' = [lostEvent EXCEPT ![i] = TRUE]
    /\ call' = [call EXCEPT ![Caller(i)] = NoCall]
    /\ IF heartbeat[i] # 0
       THEN StopHeartbeat(i, "stop_lost")
       ELSE pc' = [pc EXCEPT ![Caller(i)] = "idle"]
            /\ timer' = [timer EXCEPT ![Caller(i)] = 0]
            /\ UNCHANGED stopped
    /\ UNCHANGED <<server, identifier, made, heartbeat, beatsFor, deadline, strays,
                   faults, lease>>

JoinedForLost(i) ==
    /\ pc[Caller(i)] = "stop_lost"
    /\ Joined(i)
    /\ heartbeat' = [heartbeat EXCEPT ![i] = 0]
    /\ Return(Caller(i), "idle", 0)
    /\ UNCHANGED <<server, beatsFor, state, identifier, made, lostEvent, stopped, deadline,
                   strays, faults, lease>>

\* A backend error reaches the caller: the local state stays as it is.
CallRaises(i) ==
    /\ pc[Caller(i)] \in {"acquire", "release", "refresh"}
    /\ Fault
    /\ Abandon({Caller(i)})
    /\ Return(Caller(i), "idle", 0)
    /\ UNCHANGED <<server, local, stopped, deadline, lease>>

-----------------------------------------------------------------------------
(* The process of an instance ends without releasing, and time.             *)

Crash(i) ==
    LET ts == {t \in Thread : t[1] = i}
    IN  /\ pc[Caller(i)] # "crashed"
        /\ Fault
        /\ Abandon(ts)
        /\ pc' = [t \in Thread |-> IF t \notin ts THEN pc[t]
                                   ELSE IF t = Caller(i) THEN "crashed" ELSE "done"]
        /\ call' = [t \in Thread |-> IF t \in ts THEN NoCall ELSE call[t]]
        /\ timer' = [t \in Thread |-> IF t \in ts THEN 0 ELSE timer[t]]
        /\ UNCHANGED <<server, local, stopped, deadline, lease>>

\* A rival takes or leaves a slot; what becomes of its process is not modelled.
RivalActs(id) ==
    /\ \/ id \notin DOMAIN Server!Unexpired(now) /\ Server!AcquireScript(id, now)
       \/ Server!ReleaseScript(id)
    /\ UNCHANGED <<local, threads, strays, faults, lease>>

\* Time does not pass by a wait that is over.
Due ==
    \/ \E t \in Thread : call[t] # NoCall /\ now >= timer[t]
    \/ \E h \in Heartbeat : pc[h] = "wait" /\ (stopped[h] \/ now >= timer[h])
    \/ \E i \in Instance : pc[Caller(i)] \in {"stop_release", "stop_lost"} /\ Joined(i)

Tick ==
    /\ ~Due
    /\ Server!Clock
    /\ UNCHANGED <<local, threads, strays, faults, lease>>

Next ==
    \/ \E t \in Thread : Serve(t) \/ Resend(t)
    \/ \E r \in strays : ServeStray(r)
    \/ \E h \in Heartbeat : HbAttempts(h) \/ HbRefreshed(h) \/ HbLoses(h)
                             \/ HbRaises(h) \/ HbStops(h)
    \/ \E i \in Instance : BeginAcquire(i) \/ Acquired(i) \/ Refused(i)
                            \/ RetryAcquire(i) \/ AcquireTimesOut(i)
    \/ \E i \in Instance : BeginRelease(i) \/ JoinedForRelease(i) \/ Released(i)
                            \/ BeginRefresh(i) \/ Refreshed(i) \/ RefreshFindsLost(i)
                            \/ JoinedForLost(i) \/ CallRaises(i) \/ Crash(i)
    \/ \E id \in Rival : RivalActs(id)
    \/ Tick

Spec == Init /\ [][Next]_vars

-----------------------------------------------------------------------------
(* Properties                                                               *)

Alive(i) == pc[Caller(i)] # "crashed"

\* The instance holds the slot for itself and nobody is releasing it.
Holds(i) == Alive(i) /\ state[i] = "ACQUIRED" /\ pc[Caller(i)] \notin
                {"stop_release", "release"}

\* A holder that has a heartbeat has one that runs.  (It has none after a
\* release that raised: _release keeps the state so that it can be retried.)
HeartbeatCovers ==
    \A i \in Instance : Holds(i) /\ heartbeat[i] # 0 =>
        /\ pc[<<i, heartbeat[i]>>] \in {"wait", "refreshing"}
        /\ ~stopped[<<i, heartbeat[i]>>]

\* A holder whose lease the server has ended finds out: its heartbeat marks the
\* lock as lost no later than two calls after the last expiry the server gave.
\* One call because the first deadline counts from the answer to acquire, one
\* because the attempt made at the deadline must fail first.
BeliefBounded ==
    \A i \in Instance : Holds(i) /\ heartbeat[i] # 0 =>
        now <= lease[i] + 2 * CallTimeout

\* The lock is marked as lost because of the present acquisition: the server has
\* refused to refresh it, or a heartbeat started for it gives up.  What becomes of
\* a refresh of an acquisition that was released in the meantime says nothing.
LossIsReal ==
    [][\A i \in Instance : state[i] = "ACQUIRED" /\ state'[i] = "LOST" =>
           \/ \E t \in Thread : /\ Answered(t) /\ ~call[t].ok /\ call'[t] = NoCall
                               /\ call[t].id = <<i, identifier[i]>>
           \/ \E h \in Heartbeat : /\ HbRaises(h)
                                  /\ h[1] = i /\ beatsFor[h] = identifier[i]]_vars

\* Every entry of the server belongs to somebody: to the acquisition its instance
\* is in, to a process that has crashed, or to an acquire that was executed after
\* its caller had given up on it.
SlotHasOwner ==
    \A id \in DOMAIN owners \ Rival :
        \/ identifier[id[1]] = id[2]
        \/ ~Alive(id[1])
        \/ [op |-> "acquire", id |-> id, done |-> TRUE] \in strays

\* In strict mode a lost lock stays lost until it is released: _check_lock_lost
\* refuses the next acquire.  It says nothing to an acquire that is under way when
\* the heartbeat reports the loss, which only FORBID rules out.
LossSticks ==
    [][\A i \in Instance : state[i] = "LOST" /\ state'[i] # "LOST" =>
           Released(i)]_vars

\* The event of wait_for_lock_lost is set exactly while the lock is lost, though
\* the heartbeat, refresh, acquire and release all have a part in it.
LostEventTruthful == \A i \in Instance : lostEvent[i] <=> state[i] = "LOST"

\* A stale holder stops believing when the server-side entry expires, as the comment
\* on Heartbeat promises of its deadline.
StaleHolderStops ==
    \A i \in Instance : Holds(i) /\ heartbeat[i] # 0 => now <= lease[i]
=============================================================================
