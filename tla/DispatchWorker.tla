----------------------------- MODULE DispatchWorker -----------------------------
(***************************************************************************)
(* DispatchWorker: the workers of one dispatch queue.  The queue is a Redis*)
(* stream with a consumer group; the worker that holds the queue's Mutex   *)
(* leads it: it reads jobs, reclaims those of workers that stopped touching*)
(* them, and runs a handler for one job after the other until the handler  *)
(* admits it.  Handlers, the touch loop and the leading task of a worker   *)
(* are tasks of one event loop: they interleave at every await, which is   *)
(* where a command is under way.  A command and its answer are two steps   *)
(* wherever something may happen in between.                               *)
(*                                                                         *)
(* Time is abstract: a pending entry becomes idle for reclaim_idle when    *)
(* nobody has touched it, a lease ends when the fault budget allows it.    *)
(***************************************************************************)
EXTENDS Integers, FiniteSets

CONSTANTS
    Worker,
    MaxJobs,        \* bound: jobs submitted
    Mortal,         \* jobs with a deadline
    MaxAdmitted,    \* max_admitted
    MaxFaults,      \* bound: errors, crashes, lapses and stalls together
    Faults,         \* the kinds of faults that happen
    MaxRequeues,    \* bound: RequeueJob
    LateRequeues,   \* whether handlers raise RequeueJob after admit() too
    MayStop,        \* the workers that are told to stop()
    Prunes          \* whether consumers without pending entries are pruned

Job == 1 .. MaxJobs
Nobody == "nobody"

FaultKinds == {"error", "fatal", "resent", "crash", "lapse", "stall", "hard stop"}
ASSUME WorkerAssumption == IsFiniteSet(Worker) /\ Nobody \notin Worker
ASSUME BoundAssumption == {MaxJobs, MaxFaults, MaxRequeues} \subseteq Nat /\ MaxAdmitted \in Nat \ {0}
ASSUME ChoiceAssumption ==
    /\ Mortal \subseteq Job /\ Faults \subseteq FaultKinds /\ MayStop \subseteq Worker
    /\ {Prunes, LateRequeues} \subseteq BOOLEAN

VARIABLES
    added,      \* XADD: the jobs 1 .. added have been submitted
    queue,      \* the entries of the stream
    delivered,  \* last-delivered-id of the group
    owner,      \* the pending list: the consumer of an entry, or Nobody
    idle,       \* pending entries idle for reclaim_idle or longer
    consumers,  \* the consumers of the group that Redis knows
    handed,     \* history: entries handed back, until somebody takes them
    late,       \* jobs whose deadline has passed
    answers,    \* the workers that have put an answer of a job into its reply list
    leader      \* the owner of the queue's Mutex

stream == <<added, queue, delivered>>
pending == <<owner, idle, consumers, handed>>
server == <<stream, pending, late, answers, leader>>

VARIABLES
    life,       \* "up", "stopping" or "down"
    lead,       \* the leading task
    taken,      \* _taken
    touching,   \* the entries of an XCLAIM of the touch loop under way
    stage,      \* the handler of a job in a worker
    returning,  \* jobs whose handler has raised RequeueJob, until they are handed back
    admitted,   \* the jobs whose handlers have called admit()
    faults,     \* faults so far
    requeues    \* RequeueJobs so far

handlers == <<stage, returning, admitted>>
vars == <<server, life, lead, taken, touching, handlers, faults, requeues>>

\* Where a leading task stands: at the top of the loop, at a command under way
\* (scan, prune, own, read), at its answer, in the batch, at a running job, ...
Places == {"off", "loop", "scan", "scanned", "prune", "pruned", "own", "owned", "read",
           "answer", "batch", "wait", "give", "ack", "del", "release"}

LeadState ==
    [pc: Places,
     believes: BOOLEAN,               \* mutex.is_acquired
     due: BOOLEAN,                    \* _reclaim_now, or next_reclaim has been reached
     snap: SUBSET Job,                \* the copy of _taken made before a command
     inbox: SUBSET Job,               \* the entries of an answer of Redis under way
     batch: SUBSET Job,               \* the entries not dispatched yet
     cur: 0 .. MaxJobs,               \* the entry being dispatched (0: none)
     giving: SUBSET Job,              \* the entries a hand-back is about
     victim: Worker \cup {Nobody}]    \* the consumer about to be deleted

Idle == [pc |-> "off", believes |-> FALSE, due |-> FALSE, snap |-> {}, inbox |-> {},
         batch |-> {}, cur |-> 0, giving |-> {}, victim |-> Nobody]

\* A handler runs, or the pipeline of _finish is under way, or executed.
Stages == {"none", "run", "sending", "sent"}

StateOK ==
    /\ added \in 0 .. MaxJobs /\ delivered \in 0 .. added
    /\ queue \subseteq 1 .. added /\ idle \subseteq queue /\ late \subseteq Mortal
    /\ owner \in [Job -> Worker \cup {Nobody}]
    /\ answers \in [Job -> SUBSET Worker]
    /\ leader \in Worker \cup {Nobody}
    /\ life \in [Worker -> {"up", "stopping", "down"}]
    /\ \A w \in Worker : lead[w] \in LeadState
    /\ {taken, touching, returning, admitted} \subseteq [Worker -> SUBSET Job]
    /\ stage \in [Worker -> [Job -> Stages]]
    /\ faults \in 0 .. MaxFaults /\ requeues \in 0 .. MaxRequeues

TypeOK == StateOK /\ consumers \subseteq Worker /\ handed \subseteq Job

Nowhere == [w \in Worker |-> {}]

Init ==
    /\ added = 0 /\ queue = {} /\ delivered = 0 /\ idle = {} /\ late = {}
    /\ consumers = {} /\ handed = {}
    /\ owner = [e \in Job |-> Nobody]
    /\ answers = [e \in Job |-> {}]
    /\ leader = Nobody
    /\ life = [w \in Worker |-> "up"]
    /\ lead = [w \in Worker |-> Idle]
    /\ taken = Nowhere /\ touching = Nowhere /\ returning = Nowhere /\ admitted = Nowhere
    /\ stage = [w \in Worker |-> [e \in Job |-> "none"]]
    /\ faults = 0 /\ requeues = 0

-----------------------------------------------------------------------------
(* Helpers.                                                                  *)

First(es) == CHOOSE e \in es : \A f \in es : e <= f

At(w, place) == lead[w].pc = place

\* while mutex.is_acquired and not stopping
Leads(w) == lead[w].believes /\ life[w] = "up"

Fault(kind) ==
    /\ kind \in Faults /\ faults < MaxFaults
    /\ faults' = faults + 1

NoFault == UNCHANGED faults

\* A command of a consumer makes it known to Redis.
Known(w) == consumers' = consumers \cup {w}

\* XCLAIM of those of the entries that are still pending.
Claim(w, es) ==
    /\ owner' = [e \in Job |-> IF e \in es /\ owner[e] # Nobody THEN w ELSE owner[e]]
    /\ Known(w)

\* Redis has delivered the entry to w again, which may have started it: possible
\* only while the hand-back of a RequeueJob waits for the lock.
TakenAgain(w, e) == e \in lead[w].inbox \cup lead[w].batch \/ stage[w][e] # "none"

\* XCLAIM with IDLE reclaim_idle.
ClaimIdle(w, es) ==
    LET back == {e \in es : owner[e] # Nobody} IN
    /\ Claim(w, es)
    /\ idle' = idle \cup back
    /\ handed' = (handed \ es) \cup {e \in back : ~TakenAgain(w, e)}

\* A hand-back: an error is swallowed.
GiveBack(w, es) ==
    \/ ClaimIdle(w, es) /\ NoFault
    \/ Fault("error") /\ UNCHANGED pending

\* XACK and XDEL.
Acked(e) ==
    /\ owner' = [owner EXCEPT ![e] = Nobody]
    /\ idle' = idle \ {e} /\ handed' = handed \ {e} /\ UNCHANGED consumers
Deleted(e) == queue' = queue \ {e}

\* DISPATCH_STATUS and _build_status: max(0, length - in_progress)
Waiting ==
    LET inProgress == Cardinality({e \in Job : owner[e] # Nobody}) IN
    IF Cardinality(queue) > inProgress THEN Cardinality(queue) - inProgress ELSE 0

Forget(w, es) == taken' = [taken EXCEPT ![w] = @ \ es]

-----------------------------------------------------------------------------
(* Submitters and the clock of the server.                                   *)

Submit ==
    /\ added < MaxJobs
    /\ added' = added + 1
    /\ queue' = queue \cup {added + 1}
    /\ UNCHANGED <<delivered, pending, late, answers, leader, life, lead, taken, touching,
                   handlers, faults, requeues>>

DeadlinePasses(e) ==
    /\ e \in Mortal \ late /\ e <= added
    /\ late' = late \cup {e}
    /\ UNCHANGED <<stream, pending, answers, leader, life, lead, taken, touching, handlers,
                   faults, requeues>>

\* Entries a live worker touches, or a command of which is under way, stay fresh;
\* the others become idle.  A stall is a touch loop that falls behind.
Touched(w) ==
    IF life[w] = "down" THEN {}
    ELSE taken[w] \cup touching[w] \cup returning[w] \cup lead[w].inbox \cup lead[w].giving

Age(e) ==
    /\ owner[e] # Nobody /\ e \in queue \ idle
    /\ IF e \in Touched(owner[e]) THEN Fault("stall") ELSE NoFault
    /\ idle' = idle \cup {e}
    /\ UNCHANGED <<stream, owner, consumers, handed, late, answers, leader, life, lead, taken,
                   touching, handlers, requeues>>

-----------------------------------------------------------------------------
(* Leadership.                                                               *)

\* (fault) The first reclaim is due only after reclaim_interval.
ReclaimsLater == FALSE

\* next_reclaim = 0: the first iteration of _lead reclaims.
ReclaimsFirst == TRUE

\* _elect: a free queue is taken by a non-blocking acquire of its Mutex.
Elect(w) ==
    /\ life[w] = "up" /\ At(w, "off") /\ leader = Nobody
    /\ leader' = w
    /\ lead' = [lead EXCEPT ![w].pc = "loop", ![w].believes = TRUE, ![w].due = @ \/ ReclaimsFirst]
    /\ UNCHANGED <<stream, pending, late, answers, life, taken, touching, handlers, faults, requeues>>

\* The lease of a worker that does not renew it ends.
LeaseEnds ==
    /\ leader # Nobody
    /\ IF lead[leader].believes THEN Fault("lapse") ELSE NoFault
    /\ leader' = Nobody
    /\ UNCHANGED <<stream, pending, late, answers, life, lead, taken, touching, handlers, requeues>>

\* The heartbeat of the Mutex finds the lease lost.
LearnLoss(w) ==
    /\ lead[w].believes /\ leader # w
    /\ lead' = [lead EXCEPT ![w].believes = FALSE]
    /\ UNCHANGED <<server, life, taken, touching, handlers, faults, requeues>>

\* The finally clause of _lead: release the Mutex, unless that fails.
Release(w) ==
    /\ At(w, "release")
    /\ \/ leader' = (IF leader = w THEN Nobody ELSE leader) /\ NoFault
       \/ lead[w].believes /\ Fault("error") /\ UNCHANGED leader
    /\ lead' = [lead EXCEPT ![w] = [Idle EXCEPT !.due = lead[w].due]]
    /\ UNCHANGED <<stream, pending, late, answers, life, taken, touching, handlers, requeues>>

\* A command of _lead fails, before or after Redis has executed it: what of the
\* batch has not been dispatched is not touched any more.  A permanent error stops
\* the worker.
LeadFails(w) ==
    /\ lead[w].pc \in {"scan", "scanned", "prune", "own", "owned", "read", "answer", "ack", "del"}
    /\ \/ Fault("error") /\ UNCHANGED life
       \/ Fault("fatal") /\ life' = [life EXCEPT ![w] = IF @ = "up" THEN "stopping" ELSE @]
    /\ Forget(w, lead[w].batch)
    /\ lead' = [lead EXCEPT ![w] = [Idle EXCEPT !.pc = "release", !.believes = lead[w].believes,
                                                !.due = lead[w].due]]
    /\ UNCHANGED <<server, touching, handlers, requeues>>

-----------------------------------------------------------------------------
(* The loop of _lead.                                                        *)

\* The clock reaches next_reclaim.
ReclaimTimer(w) ==
    /\ At(w, "loop") /\ ~lead[w].due
    /\ lead' = [lead EXCEPT ![w].due = TRUE]
    /\ UNCHANGED <<server, life, taken, touching, handlers, faults, requeues>>

LeaveLoop(w) ==
    /\ At(w, "loop") /\ ~Leads(w)
    /\ lead' = [lead EXCEPT ![w].pc = "release"]
    /\ UNCHANGED <<server, life, taken, touching, handlers, faults, requeues>>

\* The next command is sent, after a copy of _taken has been made.
Turn(w) ==
    /\ At(w, "loop") /\ Leads(w)
    /\ lead' = IF lead[w].due
               THEN [lead EXCEPT ![w].pc = "scan", ![w].due = FALSE, ![w].snap = taken[w]]
               ELSE [lead EXCEPT ![w].pc = "read"]
    /\ UNCHANGED <<server, life, taken, touching, handlers, faults, requeues>>

\* XAUTOCLAIM: every idle entry of the pending list now belongs to w.
Scan(w) ==
    /\ At(w, "scan")
    /\ Claim(w, idle)
    /\ idle' = {} /\ handed' = handed \ idle
    /\ lead' = [lead EXCEPT ![w].pc = "scanned", ![w].inbox = idle]
    /\ UNCHANGED <<stream, late, answers, leader, life, taken, touching, handlers, faults, requeues>>

\* (fault) Consumers are pruned whatever is pending for them.
PendingIgnored(v) == TRUE

NothingPending(v) == \A e \in Job : owner[e] # v

\* XINFO CONSUMERS: another consumer Redis knows has nothing pending and has long been
\* idle.
Inspect(w) ==
    /\ At(w, "scanned") /\ Prunes
    /\ \E v \in Worker \ {w} :
          /\ v \in consumers /\ At(v, "off") /\ taken[v] \cup touching[v] \cup returning[v] = {}
          /\ NothingPending(v)
          /\ lead' = [lead EXCEPT ![w].pc = "prune", ![w].victim = v]
    /\ UNCHANGED <<server, life, taken, touching, handlers, faults, requeues>>

\* XGROUP DELCONSUMER: the consumer goes, and its pending entries with it.
DeleteConsumer(w) ==
    LET gone == {e \in Job : owner[e] = lead[w].victim} IN
    /\ At(w, "prune")
    /\ owner' = [e \in Job |-> IF e \in gone THEN Nobody ELSE owner[e]]
    /\ idle' = idle \ gone /\ handed' = handed \ gone
    /\ consumers' = consumers \ {lead[w].victim}
    /\ lead' = [lead EXCEPT ![w].pc = "pruned", ![w].victim = Nobody]
    /\ UNCHANGED <<stream, late, answers, leader, life, taken, touching, handlers, faults, requeues>>

\* (fault) The copy of _taken is made when the answer arrives.
NewsAgainstTaken(w) == lead[w].inbox \ taken[w]

\* What of an answer this worker was not handling when it sent the command.
News(w) == lead[w].inbox \ lead[w].snap

\* The batch is taken: touched from now on, and dispatched one by one.  Without
\* one the leading task goes on elsewhere.
Batch(w, es, elsewhere, snap) ==
    /\ lead' = [lead EXCEPT ![w].pc = IF es # {} THEN "batch" ELSE elsewhere,
                            ![w].batch = es, ![w].inbox = {},
                            ![w].snap = IF es # {} THEN {} ELSE snap]
    /\ taken' = [taken EXCEPT ![w] = @ \cup es]

\* The answer of XAUTOCLAIM.  With nothing to reclaim the worker looks at its own
\* pending entries, after another copy of _taken.
Reclaimed(w) ==
    /\ At(w, "scanned") \/ At(w, "pruned")
    /\ Batch(w, News(w), "own", taken[w])
    /\ UNCHANGED <<server, life, touching, handlers, faults, requeues>>

\* XREADGROUP 0: the entries pending for this consumer, delivered to it once more,
\* which makes them fresh.
ReadOwn(w) ==
    LET own == {e \in Job : owner[e] = w} IN
    /\ At(w, "own")
    /\ idle' = idle \ own /\ handed' = handed \ own /\ Known(w)
    /\ lead' = [lead EXCEPT ![w].pc = "owned", ![w].inbox = own]
    /\ UNCHANGED <<stream, owner, late, answers, leader, life, taken, touching, handlers, faults,
                   requeues>>

\* The answer of _backlog.  With nothing in it the worker goes on to _read.
Backlog(w) ==
    /\ At(w, "owned")
    /\ Batch(w, News(w), "read", {})
    /\ UNCHANGED <<server, life, touching, handlers, faults, requeues>>

\* XREADGROUP > of one entry.  The client may send it again after a lost answer:
\* the first entry is then pending for w, which has not seen it.
Read(w) ==
    LET unread == {e \in queue : e > delivered}
        next == IF unread = {} THEN {} ELSE {First(unread)}
    IN
    /\ At(w, "read")
    /\ delivered' = IF next = {} THEN delivered ELSE First(next)
    /\ owner' = [e \in Job |-> IF e \in next THEN w ELSE owner[e]] /\ Known(w)
    /\ \/ lead' = [lead EXCEPT ![w].pc = "answer", ![w].inbox = next] /\ NoFault
       \/ next # {} /\ Fault("resent") /\ UNCHANGED lead
    /\ UNCHANGED <<added, queue, idle, handed, late, answers, leader, life, taken, touching,
                   handlers, requeues>>

Received(w) ==
    /\ At(w, "answer")
    /\ Batch(w, lead[w].inbox, "loop", {})
    /\ UNCHANGED <<server, life, touching, handlers, faults, requeues>>

-----------------------------------------------------------------------------
(* _dispatch: one entry of the batch.                                        *)

BatchDone(w) ==
    /\ At(w, "batch") /\ lead[w].batch = {}
    /\ lead' = [lead EXCEPT ![w].pc = "loop"]
    /\ UNCHANGED <<server, life, taken, touching, handlers, faults, requeues>>

\* The batch has a next entry: e.
NextIs(w, e) == At(w, "batch") /\ lead[w].batch # {} /\ e = First(lead[w].batch)

\* A job past its deadline is dropped: XACK, then XDEL.
DropLate(w, e) ==
    /\ NextIs(w, e) /\ e \in late
    /\ Forget(w, {e})
    /\ lead' = [lead EXCEPT ![w].pc = "ack", ![w].batch = @ \ {e}, ![w].cur = e]
    /\ UNCHANGED <<server, life, touching, handlers, faults, requeues>>

\* (fault) A dropped entry is deleted without having been acknowledged.
AckForgotten(w) ==
    /\ At(w, "ack")
    /\ lead' = [lead EXCEPT ![w].pc = "del"]
    /\ UNCHANGED <<server, life, taken, touching, handlers, faults, requeues>>

AckLate(w) ==
    /\ At(w, "ack")
    /\ Acked(lead[w].cur)
    /\ lead' = [lead EXCEPT ![w].pc = "del"]
    /\ UNCHANGED <<stream, late, answers, leader, life, taken, touching, handlers, faults, requeues>>

DeleteLate(w) ==
    /\ At(w, "del")
    /\ Deleted(lead[w].cur)
    /\ lead' = [lead EXCEPT ![w].pc = "batch", ![w].cur = 0]
    /\ UNCHANGED <<added, delivered, pending, late, answers, leader, life, taken, touching, handlers,
                   faults, requeues>>

\* The tasks of handlers that have not ended.
Running(w) == {e \in Job : stage[w][e] # "none"} \cup returning[w]

\* The handler of the next job starts once there is a slot under max_admitted.
Start(w, e) ==
    /\ NextIs(w, e) /\ e \notin late
    /\ Leads(w) /\ Cardinality(Running(w)) < MaxAdmitted
    /\ stage' = [stage EXCEPT ![w][e] = "run"]
    /\ lead' = [lead EXCEPT ![w].pc = "wait", ![w].batch = @ \ {e}, ![w].cur = e]
    /\ UNCHANGED <<server, life, taken, touching, returning, admitted, faults, requeues>>

\* (fault) Only lost leadership makes a worker leave the queue.
LeavesIfLost(w) == ~lead[w].believes

\* A worker that has lost the Mutex or is stopping leaves the queue.
MustLeave(w) == ~Leads(w)

\* What is under way is given up, and the entry handed back.
HandingBack(w, e) ==
    /\ Forget(w, {e})
    /\ lead' = [lead EXCEPT ![w].pc = "give", ![w].batch = @ \ {e}, ![w].cur = 0,
                            ![w].giving = {e}]

\* The queue must be left while the job waits for a slot (or, without one, before
\* its handler has run at all).
NotStarted(w, e) ==
    /\ NextIs(w, e) /\ e \notin late /\ MustLeave(w)
    /\ HandingBack(w, e)
    /\ UNCHANGED <<server, life, touching, handlers, faults, requeues>>

Settled(w) == lead[w].cur \in admitted[w] \/ lead[w].cur \notin Running(w)

\* The job is admitted, or its handler has ended: the next one may start.
MoveOn(w) ==
    /\ At(w, "wait") /\ Settled(w)
    /\ lead' = [lead EXCEPT ![w].pc = "batch", ![w].cur = 0]
    /\ UNCHANGED <<server, life, taken, touching, handlers, faults, requeues>>

\* What MULTI/EXEC of _finish does.
Answer(w, e) ==
    /\ answers' = [answers EXCEPT ![e] = @ \cup {w}]
    /\ Acked(e)
    /\ Deleted(e)

\* (fault) The handler goes on.
NotCancelled(w, e) == UNCHANGED <<queue, pending, answers, stage, returning>>

\* A handler is cancelled.  Its pipeline may be executed all the same.
Cancelled(w, e) ==
    /\ stage' = [stage EXCEPT ![w][e] = "none"]
    /\ returning' = [returning EXCEPT ![w] = @ \ {e}]
    /\ \/ stage[w][e] = "sending" /\ Answer(w, e)
       \/ UNCHANGED <<queue, pending, answers>>

\* _abandon: the handler of the job is cancelled, then the job handed back.
Abandon(w) ==
    /\ At(w, "wait") /\ ~Settled(w) /\ MustLeave(w)
    /\ Cancelled(w, lead[w].cur)
    /\ HandingBack(w, lead[w].cur)
    /\ UNCHANGED <<added, delivered, late, leader, life, touching, admitted, faults, requeues>>

\* (fault) No lock orders the XCLAIM of a hand-back after that of the touch loop.
LockIgnored(w) == TRUE

\* _claim_lock is free.
LockFree(w) == touching[w] = {}

\* _hand_back: XCLAIM that makes the entries idle at once.  The rest of the batch
\* follows in a hand-back of its own.
HandBack(w) ==
    LET rest == lead[w].batch IN
    /\ At(w, "give") /\ LockFree(w)
    /\ GiveBack(w, lead[w].giving)
    /\ Forget(w, rest)
    /\ lead' = [lead EXCEPT ![w].pc = IF rest # {} THEN "give" ELSE "release",
                            ![w].giving = rest, ![w].batch = {}]
    /\ UNCHANGED <<stream, late, answers, leader, life, touching, handlers, requeues>>

-----------------------------------------------------------------------------
(* The touch loop.                                                           *)

\* XCLAIM of a copy of _taken made under the lock.
Touch(w) ==
    /\ life[w] # "down" /\ LockFree(w) /\ taken[w] # {}
    /\ touching' = [touching EXCEPT ![w] = taken[w]]
    /\ UNCHANGED <<server, life, lead, taken, handlers, faults, requeues>>

\* The entries are fresh, and pending for w, whoever has taken them from it while its
\* touch loop fell behind; or the command has failed, which is only logged.
TouchDone(w) ==
    /\ touching[w] # {}
    /\ \/ /\ Claim(w, touching[w])
          /\ idle' = idle \ touching[w]
          /\ handed' = handed \ {e \in touching[w] : owner[e] # w}
          /\ NoFault
       \/ Fault("error") /\ UNCHANGED pending
    /\ touching' = [touching EXCEPT ![w] = {}]
    /\ UNCHANGED <<stream, late, answers, leader, life, lead, taken, handlers, requeues>>

-----------------------------------------------------------------------------
(* Handlers.                                                                 *)

\* job.admit()
Admit(w, e) ==
    /\ stage[w][e] = "run" /\ e \notin admitted[w]
    /\ admitted' = [admitted EXCEPT ![w] = @ \cup {e}]
    /\ UNCHANGED <<server, life, lead, taken, touching, stage, returning, faults, requeues>>

\* The handler returns or raises: _run_job calls _finish.
Return(w, e) ==
    /\ stage[w][e] = "run"
    /\ stage' = [stage EXCEPT ![w][e] = "sending"]
    /\ UNCHANGED <<server, life, lead, taken, touching, returning, admitted, faults, requeues>>

\* The transaction of _finish: answer, acknowledge and delete.
Finish(w, e) ==
    /\ stage[w][e] = "sending"
    /\ Answer(w, e)
    /\ stage' = [stage EXCEPT ![w][e] = "sent"]
    /\ UNCHANGED <<added, delivered, late, leader, life, lead, taken, touching, returning,
                   admitted, faults, requeues>>

\* (fault) The entry is forgotten only when the pipeline has not raised.
ForgetIfSent(w, e) == Forget(w, IF stage[w][e] = "sent" THEN {e} ELSE {})

\* The finally clause of _finish.
ForgetAnyway(w, e) == Forget(w, {e})

\* The pipeline has returned, or raised without having been executed.
Finished(w, e) ==
    /\ \/ stage[w][e] = "sent" /\ NoFault
       \/ stage[w][e] = "sending" /\ Fault("error")
    /\ ForgetAnyway(w, e)
    /\ stage' = [stage EXCEPT ![w][e] = "none"]
    /\ admitted' = [admitted EXCEPT ![w] = @ \ {e}]
    /\ UNCHANGED <<server, life, lead, touching, returning, requeues>>

\* RequeueJob: after its delay _requeue forgets the entry and hands it back.
Requeue(w, e) ==
    /\ stage[w][e] = "run" /\ requeues < MaxRequeues
    /\ e \in admitted[w] => LateRequeues
    /\ requeues' = requeues + 1
    /\ Forget(w, {e})
    /\ stage' = [stage EXCEPT ![w][e] = "none"]
    /\ returning' = [returning EXCEPT ![w] = @ \cup {e}]
    /\ UNCHANGED <<server, life, lead, touching, admitted, faults>>

\* (fault) The leading task is not told of the job.
NothingWished(w) == lead[w].due

\* _reclaim_now
EarlyReclaim(w) == TRUE

\* The hand-back of _requeue, and the wish for an early reclaim.
Requeued(w, e) ==
    /\ e \in returning[w] /\ LockFree(w)
    /\ GiveBack(w, {e})
    /\ lead' = [lead EXCEPT ![w].due = EarlyReclaim(w)]
    /\ returning' = [returning EXCEPT ![w] = @ \ {e}]
    /\ admitted' = [admitted EXCEPT ![w] = @ \ {e}]
    /\ UNCHANGED <<stream, late, answers, leader, life, taken, touching, stage, requeues>>

-----------------------------------------------------------------------------
(* Shutdown and crashes.                                                     *)

\* stop(), or a cancellation of run()
Stop(w) ==
    /\ w \in MayStop /\ life[w] = "up"
    /\ life' = [life EXCEPT ![w] = "stopping"]
    /\ UNCHANGED <<server, lead, taken, touching, handlers, faults, requeues>>

\* A second cancellation: _shutdown cancels the handlers.  One whose job waits for
\* its admission is handed back.
HardStop(w, e) ==
    /\ life[w] = "stopping" /\ e \in Running(w) /\ Fault("hard stop")
    /\ Cancelled(w, e)
    /\ admitted' = [admitted EXCEPT ![w] = @ \ {e}]
    /\ IF At(w, "wait") /\ lead[w].cur = e /\ e \notin admitted[w]
       THEN HandingBack(w, e)
       ELSE UNCHANGED <<taken, lead>>
    /\ UNCHANGED <<added, delivered, late, leader, life, touching, requeues>>

\* The process, or run(), ends.
End(w) ==
    /\ life' = [life EXCEPT ![w] = "down"]
    /\ lead' = [lead EXCEPT ![w] = Idle]
    /\ taken' = [taken EXCEPT ![w] = {}]
    /\ touching' = [touching EXCEPT ![w] = {}]
    /\ stage' = [stage EXCEPT ![w] = [e \in Job |-> "none"]]
    /\ returning' = [returning EXCEPT ![w] = {}]
    /\ admitted' = [admitted EXCEPT ![w] = {}]
    /\ UNCHANGED <<server, requeues>>

\* _shutdown_steps: the leading task and the handlers have ended.
Shutdown(w) ==
    /\ life[w] = "stopping" /\ At(w, "off") /\ Running(w) = {}
    /\ End(w)
    /\ NoFault

Crash(w) ==
    /\ life[w] # "down" /\ Fault("crash")
    /\ End(w)

-----------------------------------------------------------------------------

\* A step of the leading task.
Lead(w) ==
    \/ LeaveLoop(w) \/ Turn(w) \/ Scan(w) \/ DeleteConsumer(w) \/ Reclaimed(w)
    \/ ReadOwn(w) \/ Backlog(w) \/ Read(w) \/ Received(w)
    \/ BatchDone(w) \/ AckLate(w) \/ DeleteLate(w)
    \/ \E e \in Job : DropLate(w, e) \/ Start(w, e) \/ NotStarted(w, e)
    \/ MoveOn(w) \/ Abandon(w) \/ HandBack(w) \/ Release(w)

\* A step of a handler.
Handle(w, e) == Return(w, e) \/ Finish(w, e) \/ Finished(w, e) \/ Requeued(w, e)

Next ==
    \/ Submit
    \/ LeaseEnds
    \/ \E e \in Job : DeadlinePasses(e) \/ Age(e)
    \/ \E w \in Worker :
          \/ Lead(w) \/ Elect(w) \/ LearnLoss(w) \/ LeadFails(w) \/ ReclaimTimer(w) \/ Inspect(w)
          \/ Touch(w) \/ TouchDone(w)
          \/ Stop(w) \/ Shutdown(w) \/ Crash(w)
          \/ \E e \in Job : Handle(w, e) \/ Admit(w, e) \/ Requeue(w, e) \/ HardStop(w, e)

\* The event loop runs every task that can go on, and _claim_lock (an asyncio.Lock)
\* lets its waiters in one after the other; handlers end, heartbeats notice a lost
\* lease, and time passes.
Fairness ==
    /\ WF_vars(LeaseEnds)
    /\ \A e \in Job : WF_vars(Age(e))
    /\ \A w \in Worker :
          /\ WF_vars(Lead(w)) /\ SF_vars(HandBack(w)) /\ SF_vars(Elect(w)) /\ WF_vars(LearnLoss(w))
          /\ SF_vars(ReclaimTimer(w)) /\ WF_vars(TouchDone(w)) /\ WF_vars(Shutdown(w))
          /\ \A e \in Job : WF_vars(Handle(w, e)) /\ SF_vars(Requeued(w, e))

Spec == Init /\ [][Next]_vars /\ Fairness

-----------------------------------------------------------------------------
(* Properties.                                                               *)

\* An entry Redis will deliver (again): it has not been read, or it is pending.
Deliverable(e) == e \in queue /\ (e > delivered \/ owner[e] # Nobody)

\* A submitted job is answered, past its deadline, or will be delivered (again):
\* whatever fails between two commands, Redis forgets no job.
StaysDeliverable ==
    \A e \in 1 .. added : answers[e] # {} \/ e \in late \/ Deliverable(e)

\* At-least-once delivery: a submitted job that is neither answered nor past its
\* deadline will be delivered (again), or a worker that has not ended holds it.
NothingLost ==
    \A e \in 1 .. added :
        answers[e] # {} \/ e \in late \/ Deliverable(e) \/ \E w \in Worker : e \in Touched(w)

\* QueueStatus.waiting counts the jobs nobody has taken yet, except while a job is
\* being dropped: XLEN less the pending entries.
WaitingHonest ==
    Waiting = Cardinality({e \in queue : e > delivered}) \/ \E w \in Worker : At(w, "del")

\* A worker never starts a job it is already running or has already answered: the
\* answers of XAUTOCLAIM and XREADGROUP 0 are compared with a copy of _taken made
\* before the command, as jobs finish while the answer is under way.
NoRerun ==
    [][\A w \in Worker : (At(w, "batch") /\ lead'[w].pc = "wait") =>
          stage[w][lead'[w].cur] = "none" /\ w \notin answers[lead'[w].cur]]_vars

\* As long as no touch loop stalls, no two workers run a job at the same time,
\* also when two of them lead.
RunsOnce ==
    \A e \in Job, v, w \in Worker :
        (v # w /\ stage[v][e] \in {"run", "sending"}) => stage[w][e] \notin {"run", "sending"}

\* What a worker has handed back stays reclaimable until a leader has it delivered
\* (again), it is acknowledged, another worker claims it (with a touch that has
\* stalled), or its consumer is deleted: no touch of the worker that handed it back,
\* the one under way or a later one, hides it from XAUTOCLAIM again.
HandBackSticks == handed \subseteq idle

\* FIFO order: a job is admitted only after every earlier one, also when the queue
\* changes hands by a shutdown.  Only faults and requeues change the order.
AdmitsInOrder ==
    [][\A w \in Worker, e \in Job : e \in admitted'[w] \ admitted[w] /\ faults + requeues = 0 =>
          \A f \in queue : (f < e /\ f \notin late) =>
              \E u \in Worker : f \in admitted[u] \/ stage[u][f] = "sent"]_vars

\* A job whose handler has raised RequeueJob runs again "before any job not started
\* yet": no job starts beside an earlier one that waits in the pending list, unless
\* faults have put it there.
RequeuedFirst ==
    [][\A w \in Worker : (At(w, "batch") /\ lead'[w].pc = "wait" /\ faults = 0) =>
          \A f \in idle : f > lead'[w].cur]_vars

\* Every job is answered in the end, unless its deadline passes first or no worker
\* is left: an answer that could not be written leads to another run.
EveryJobEnds ==
    \A e \in Job :
        e <= added ~> (answers[e] # {} \/ e \in late \/ \A w \in Worker : life[w] # "up")

\* run() returns after stop(), wherever the leading task stands.
StopEnds == \A w \in Worker : life[w] = "stopping" ~> life[w] = "down"
=============================================================================
