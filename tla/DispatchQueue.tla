------------------------------ MODULE DispatchQueue ------------------------------
(***************************************************************************)
(* DispatchQueue: the submitters of one dispatch queue.  Each submits one  *)
(* job: the enqueue script is sent by EVALSHA (by EVAL when Redis does not *)
(* know it), the client sends it again when the answer is lost, and the    *)
(* submitter then reads the reply list of its job without consuming it,    *)
(* riding out transient errors.  Workers run a queued job, possibly more   *)
(* than once (see DispatchWorker), or drop it past its deadline.           *)
(*                                                                         *)
(* Time passes in ticks, at the server and at the submitters alike, and a  *)
(* tick waits for the steps that take no time: only the blocking read, a   *)
(* connection that hangs, the pause after an error and a delayed resend    *)
(* let time pass.                                                          *)
(***************************************************************************)
EXTENDS Integers, Sequences, FiniteSetsExt

CONSTANTS
    Submitter,
    Timeout,        \* [Submitter -> timeout], None for one without
    MaxSize,        \* max_queue_size
    ReplyTtl,       \* reply_ttl: of an answer, and of the dedup marker
    Block,          \* _block_cap: the longest single BLMOVE
    MinBlock,       \* _MIN_BLOCK: the shortest one
    ReadTimeout,    \* bound: how long a read lasts, resends and a hanging connection included
    Budget,         \* _WAIT_ERROR_BUDGET
    Pause,          \* _WAIT_ERROR_PAUSE
    ResendDelay,    \* bound: how long after its call a client resends it
    MaxRuns,        \* bound: runs of each submitter's job
    MaxFaults,      \* bound: lost answers, errors and restarts together
    Horizon         \* bound: the clock

None == 99999

ASSUME SubmitterAssumption == Timeout \in [Submitter -> Nat \ {0}]
ASSUME TimeAssumption ==
    /\ {ReplyTtl, Block, MinBlock, ReadTimeout, Pause, MaxSize} \subseteq Nat \ {0}
    /\ Block <= ReadTimeout /\ MinBlock <= ReadTimeout
    /\ {Budget, ResendDelay, MaxFaults, Horizon} \subseteq Nat
    /\ MaxRuns \in [Submitter -> Nat]
    /\ Horizon < None

VARIABLES
    now,
    entries,    \* the entries of a submitter's job in the stream
    deadline,   \* the deadline stamped into them, or None
    marker,     \* when the dedup marker of the job expires (0: there is none)
    replies,    \* the reply list of the job: the runs that answered, newest first
    expiry,     \* when that list expires
    cached,     \* Redis knows the enqueue script
    started,    \* runs of a job so far
    finished    \* runs that have answered

server == <<entries, deadline, marker, replies, expiry, cached, started, finished>>

VARIABLES
    client,     \* the state of a submit() call
    appended,   \* history: XADDs of a job
    answered,   \* history: when the first answer was put into the list (None: not yet)
    faults

vars == <<now, server, client, appended, answered, faults>>

Commands == {"evalsha", "eval"}
Ends == {"result", "full", "timeout", "error", "permanent"}

\* Answers that are no run of the job: nothing (yet), a full queue, an entry id.
Nothing == 0
NoRoom == -1
Queued == -2

ClientState ==
    [pc: {"new", "reply", "wait", "reading", "read", "hanging", "pause"} \cup Commands \cup Ends,
     via: Commands,                     \* the command whose answer is under way
     got: Int,                          \* that answer: a run, or one of those above
     sent: 0 .. Horizon,                \* when the call, or the read, began
     until: Nat,                        \* when Redis ends the read, or the pause ends
     giveUp: Nat,                       \* give_up
     failing: Nat,                      \* failing_since, or None
     good: 0 .. Horizon]                \* when a command last succeeded

TypeOK ==
    /\ now \in 0 .. Horizon /\ cached \in BOOLEAN /\ faults \in 0 .. MaxFaults
    /\ {entries, marker, appended, expiry, started, finished, deadline, answered}
           \subseteq [Submitter -> Nat]
    /\ \A s \in Submitter :
          /\ client[s] \in ClientState
          /\ finished[s] <= started[s] /\ started[s] <= MaxRuns[s]
          /\ Len(replies[s]) <= finished[s]
          /\ \A i \in 1 .. Len(replies[s]) : replies[s][i] \in 1 .. finished[s]

\* A call that has not begun; one that is over keeps no more than how it ended.
Blank == [pc |-> "new", via |-> "evalsha", got |-> Nothing, sent |-> 0, until |-> 0,
          giveUp |-> None, failing |-> None, good |-> 0]

Zero == [s \in Submitter |-> 0]
Never == [s \in Submitter |-> None]

Init ==
    /\ now = 0 /\ faults = 0 /\ cached = FALSE
    /\ entries = Zero /\ marker = Zero /\ expiry = Zero /\ started = Zero /\ finished = Zero
    /\ appended = Zero /\ deadline = Never /\ answered = Never
    /\ replies = [s \in Submitter |-> <<>>]
    /\ client = [s \in Submitter |-> Blank]

-----------------------------------------------------------------------------

At(s, pc) == client[s].pc = pc
Goto(s, pc) == client' = [client EXCEPT ![s].pc = pc]
Over(s, pc) == client' = [client EXCEPT ![s] = [Blank EXCEPT !.pc = pc]]

Fault == faults < MaxFaults /\ faults' = faults + 1

Least(a, b) == IF a < b THEN a ELSE b
Most(a, b) == IF a < b THEN b ELSE a

\* XLEN >= max_size
Full == MapThenSumSet(LAMBDA s : entries[s], Submitter) >= MaxSize

\* now + timeout, None without one.
After(timeout) == IF timeout = None THEN None ELSE now + timeout

-----------------------------------------------------------------------------
(* The enqueue script.                                                       *)

\* What the script answers, and whether it appends the job.
Answered(s, what) == client' = [client EXCEPT ![s].pc = "reply", ![s].got = what]

AppendJob(s) ==
    /\ entries' = [entries EXCEPT ![s] = @ + 1]
    /\ appended' = [appended EXCEPT ![s] = @ + 1]
    /\ deadline' = [deadline EXCEPT ![s] = After(Timeout[s])]
    /\ marker' = [marker EXCEPT ![s] = now + ReplyTtl]
    /\ Answered(s, Queued)

AppendNothing(s, what) ==
    /\ UNCHANGED <<entries, appended, deadline, marker>>
    /\ Answered(s, what)

\* (fault) XADD is taken to be idempotent.
EnqueueAgain(s) ==
    \/ Full /\ AppendNothing(s, NoRoom)
    \/ ~Full /\ AppendJob(s)

\* DISPATCH_ENQUEUE: the marker, the size of the queue, XADD and SET PX.
Enqueue(s) ==
    \/ marker[s] # 0 /\ AppendNothing(s, Queued)
    \/ marker[s] = 0 /\ Full /\ AppendNothing(s, NoRoom)
    \/ marker[s] = 0 /\ ~Full /\ AppendJob(s)

-----------------------------------------------------------------------------
(* submit(): the call of the script.                                         *)

Submit(s) ==
    /\ At(s, "new")
    /\ client' = [client EXCEPT ![s].pc = "evalsha", ![s].sent = now]
    /\ UNCHANGED <<now, server, appended, answered, faults>>

\* EVALSHA of a script Redis knows, or its answer NOSCRIPT.
EvalSha(s) ==
    /\ At(s, "evalsha")
    /\ \/ cached /\ Enqueue(s)
       \/ ~cached /\ AppendNothing(s, Nothing)
    /\ UNCHANGED <<now, replies, expiry, cached, started, finished, answered, faults>>

\* NOSCRIPT: the adapter falls back to EVAL.
FallBack(s) ==
    /\ At(s, "reply") /\ client[s].got = Nothing
    /\ client' = [client EXCEPT ![s].pc = "eval", ![s].via = "eval"]
    /\ UNCHANGED <<now, server, appended, answered, faults>>

\* EVAL with the whole script, which Redis then knows.
Eval(s) ==
    /\ At(s, "eval")
    /\ Enqueue(s)
    /\ cached' = TRUE
    /\ UNCHANGED <<now, replies, expiry, started, finished, answered, faults>>

\* The answer is lost: the client sends the command again, or the call fails.
LoseAnswer(s) ==
    /\ At(s, "reply") /\ Fault
    /\ \/ Goto(s, client[s].via)
       \/ Over(s, "error")
    /\ UNCHANGED <<now, server, appended, answered>>

Enqueued(s) ==
    /\ At(s, "reply") /\ client[s].got \in {Queued, NoRoom}
    /\ client' = [client EXCEPT ![s] =
          IF client[s].got = NoRoom THEN [Blank EXCEPT !.pc = "full"]
          ELSE [Blank EXCEPT !.pc = "wait", !.giveUp = After(Timeout[s]), !.good = now]]
    /\ UNCHANGED <<now, server, appended, answered, faults>>

\* Redis is restarted without its script cache.
Flush ==
    /\ cached /\ Fault
    /\ cached' = FALSE
    /\ UNCHANGED <<now, entries, deadline, marker, replies, expiry, started, finished, client,
                   appended, answered>>

-----------------------------------------------------------------------------
(* submit(): waiting for the reply.                                          *)

\* _wait_error_pause
PauseEnds(s) == Least(now + Pause, Most(client[s].giveUp, now))

\* (fault) The streak of errors is never ended by a success.
StreakGoesOn(s) == client[s].failing

\* failing_since = None
StreakEnds(s) == None

\* The timeout of a BLMOVE sent at a time: what is left until give_up, but no longer
\* than _block_cap and no shorter than _MIN_BLOCK.
BlockAt(s, time) ==
    IF client[s].giveUp = None THEN Block
    ELSE Most(Least(Block, client[s].giveUp - time), MinBlock)

\* The loop: give up, or read.
Wait(s) ==
    /\ At(s, "wait")
    /\ client' =
          IF client[s].giveUp <= now THEN [client EXCEPT ![s].pc = "timeout"]
          ELSE [client EXCEPT ![s].pc = "reading", ![s].sent = now,
                              ![s].until = now + BlockAt(s, now)]
    /\ UNCHANGED <<now, server, appended, answered, faults>>

\* (fault) BRPOP: the reply is taken out of the list.
Consumed(list) == SubSeq(list, 1, Len(list) - 1)

\* (fault) The last element is copied to the front.
Copied(list) == <<list[Len(list)]>> \o list

\* BLMOVE of the list onto itself: its last element becomes the first.
Rotated(list) == <<list[Len(list)]>> \o SubSeq(list, 1, Len(list) - 1)

ReadReply(s) ==
    /\ At(s, "reading") /\ replies[s] # <<>>
    /\ client' = [client EXCEPT ![s].pc = "read", ![s].got = replies[s][Len(replies[s])]]
    /\ replies' = [replies EXCEPT ![s] = Rotated(@)]
    /\ UNCHANGED <<now, entries, deadline, marker, expiry, cached, started, finished, appended,
                   answered, faults>>

ReadNothing(s) ==
    /\ At(s, "reading") /\ replies[s] = <<>> /\ now >= client[s].until
    /\ client' = [client EXCEPT ![s].pc = "read", ![s].got = Nothing]
    /\ UNCHANGED <<now, server, appended, answered, faults>>

\* The connection breaks or hangs: the read has been executed, or never will be, and
\* nothing of it reaches the submitter.
Hang(s) ==
    /\ At(s, "reading") \/ At(s, "read")
    /\ Fault
    /\ client' = [client EXCEPT ![s].pc = "hanging", ![s].got = Nothing, ![s].until = 0]
    /\ UNCHANGED <<now, server, appended, answered>>

\* The client sends the same command again.
ReadResent(s) ==
    LET until == now + BlockAt(s, client[s].sent) IN
    /\ At(s, "hanging") /\ until <= client[s].sent + ReadTimeout
    /\ client' = [client EXCEPT ![s].pc = "reading", ![s].until = until]
    /\ UNCHANGED <<now, server, appended, answered, faults>>

\* When the errors of the submitter began, one of now included.
FailingSince(s) == Least(client[s].failing, now)

\* _tolerate_wait_error: a transient error is ridden out, unless errors have gone on
\* for the whole budget; a permanent one ends the call at once.
ReadFails(s) ==
    LET over == now - FailingSince(s) >= Budget
        failed == [client[s] EXCEPT !.sent = 0, !.failing = FailingSince(s)]
    IN
    /\ At(s, "hanging")
    /\ client' = [client EXCEPT ![s] =
          IF over THEN [failed EXCEPT !.pc = "error"]
          ELSE [failed EXCEPT !.pc = "pause", !.until = PauseEnds(s)]]
    /\ UNCHANGED <<now, server, appended, answered, faults>>

ReadRefused(s) ==
    /\ At(s, "hanging")
    /\ Over(s, "permanent")
    /\ UNCHANGED <<now, server, appended, answered, faults>>

Resume(s) ==
    /\ At(s, "pause") /\ now >= client[s].until
    /\ client' = [client EXCEPT ![s].pc = "wait", ![s].until = 0]
    /\ UNCHANGED <<now, server, appended, answered, faults>>

\* No reply yet: read again.
ReadAgain(s) ==
    /\ At(s, "read") /\ client[s].got = Nothing
    /\ client' = [client EXCEPT ![s].pc = "wait", ![s].failing = StreakEnds(s), ![s].good = now,
                                ![s].sent = 0, ![s].until = 0]
    /\ UNCHANGED <<now, server, appended, answered, faults>>

\* The reply: its list is deleted, unless that fails, and the call returns.
Return(s) ==
    /\ At(s, "read") /\ client[s].got # Nothing
    /\ \/ replies' = [replies EXCEPT ![s] = <<>>] /\ UNCHANGED faults
       \/ Fault /\ UNCHANGED replies
    /\ Over(s, "result")
    /\ UNCHANGED <<now, entries, deadline, marker, expiry, cached, started, finished, appended,
                   answered>>

-----------------------------------------------------------------------------
(* The workers.                                                              *)

Late(s) == deadline[s] <= now

\* A worker runs the job; so may another one that has reclaimed it.
Start(s) ==
    /\ entries[s] > 0 /\ ~Late(s) /\ started[s] < MaxRuns[s]
    /\ started' = [started EXCEPT ![s] = @ + 1]
    /\ UNCHANGED <<now, entries, deadline, marker, replies, expiry, cached, finished, client,
                   appended, answered, faults>>

\* _finish: LPUSH, PEXPIRE, XACK and XDEL.
Finish(s) ==
    /\ finished[s] < started[s]
    /\ finished' = [finished EXCEPT ![s] = @ + 1]
    /\ replies' = [replies EXCEPT ![s] = <<finished[s] + 1>> \o @]
    /\ expiry' = [expiry EXCEPT ![s] = now + ReplyTtl]
    /\ entries' = [entries EXCEPT ![s] = IF @ = 0 THEN 0 ELSE @ - 1]
    /\ answered' = [answered EXCEPT ![s] = Least(@, now)]
    /\ UNCHANGED <<now, deadline, marker, cached, started, client, appended, faults>>

\* _dispatch drops the job past its deadline.
Drop(s) ==
    /\ entries[s] > 0 /\ Late(s)
    /\ entries' = [entries EXCEPT ![s] = @ - 1]
    /\ UNCHANGED <<now, deadline, marker, replies, expiry, cached, started, finished, client,
                   appended, answered, faults>>

-----------------------------------------------------------------------------
(* Time.                                                                     *)

\* Steps of a submitter that take no time.
Prompt(s) ==
    \/ client[s].pc \in {"wait", "read"}
    \/ client[s].pc \in {"evalsha", "eval", "reply"} /\ now >= client[s].sent + ResendDelay
    \/ At(s, "reading") /\ (replies[s] # <<>> \/ now >= client[s].until)
    \/ At(s, "hanging") /\ now >= client[s].sent + ReadTimeout
    \/ At(s, "pause") /\ now >= client[s].until

Tick ==
    /\ now < Horizon
    /\ \A s \in Submitter : ~Prompt(s)
    /\ now' = now + 1
    /\ marker' = [s \in Submitter |-> IF marker[s] <= now' THEN 0 ELSE marker[s]]
    /\ replies' = [s \in Submitter |-> IF expiry[s] <= now' THEN <<>> ELSE replies[s]]
    /\ UNCHANGED <<entries, deadline, expiry, cached, started, finished, client, appended,
                   answered, faults>>

Call(s) ==
    \/ Submit(s) \/ EvalSha(s) \/ FallBack(s) \/ Eval(s) \/ Enqueued(s)
    \/ Wait(s) \/ ReadReply(s) \/ ReadNothing(s) \/ ReadResent(s) \/ ReadFails(s) \/ ReadRefused(s)
    \/ Resume(s) \/ ReadAgain(s) \/ Return(s)

Next ==
    \/ Tick \/ Flush
    \/ \E s \in Submitter :
          Call(s) \/ LoseAnswer(s) \/ Hang(s) \/ Start(s) \/ Finish(s) \/ Drop(s)

Spec == Init /\ [][Next]_vars

-----------------------------------------------------------------------------
(* Properties.                                                               *)

Waiting(s) == client[s].pc \in {"wait", "reading", "read", "hanging", "pause"}

\* However often the call is resent, by EVALSHA or EVAL, the job is queued once; and
\* not at all when submit reports a full queue: a resent call finds its own entry
\* before it finds the queue full, be it by that very entry.
QueuedOnce ==
    \A s \in Submitter : appended[s] <= (IF At(s, "full") THEN 0 ELSE 1)

\* The answer of a job stays readable until its submitter has returned, through
\* every error the submitter rides out.
AnswerKept ==
    \A s \in Submitter : (Waiting(s) /\ answered[s] # None) => replies[s] # <<>>

EndsOnTime(s) == Waiting(s) => now < client[s].giveUp + ReadTimeout

TimeoutTrue(s) ==
    At(s, "timeout") => client[s].failing # None \/ answered[s] >= client[s].giveUp

ErrorTrue(s) ==
    (At(s, "error") /\ client[s].failing # None) => now >= client[s].good + Budget

\* A submit that waits ends less than one read after its timeout, however its reads
\* hang, and as it says: with a timeout only when no answer was there in time (or the
\* last thing it saw was an error), with a transient BackendError only when nothing
\* has succeeded for the whole budget.  (A permanent error is reported at once.)
EndsHonestly ==
    \A s \in Submitter : EndsOnTime(s) /\ TimeoutTrue(s) /\ ErrorTrue(s)
=============================================================================
