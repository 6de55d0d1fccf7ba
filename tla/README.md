# A verification of redis-semaphore

TLA+ models of the library in `src/src/redis_semaphore`, the TLC runs that check
them, and proofs, checked by TLAPS, of what holds for every size of the system.
File names below are relative to `src/src/redis_semaphore` unless they start with
`src/`. `PROJECT.json` maps every definition to the lines it stands for.

## 1. The system

The library offers a counting semaphore (and a mutex), a rate limiter and a work
queue to processes that share a Redis server. All shared state is in Redis and
changes in Lua scripts, which are atomic; everything between two scripts (threads,
tasks, sockets, clocks, failing processes) is not.

| Component | State | Operations | Hard behaviour |
|---|---|---|---|
| Semaphore scripts (`lua_scripts.py` 47-235) | owners: sorted set of identifiers by expiry; TTL of that key; fencing counter | ACQUIRE, RELEASE, REFRESH, CLEANUP, STATUS | lazy eviction; two readings of "expired" (`<=` and `<`); one key TTL for owners with different lock timeouts; clocks of clients |
| Semaphore client (`semaphore.py`, `base.py`) | `_state`, `_identifier`, `_heartbeat`, `_lock_lost_event` | acquire, release, refresh, sync and async | lost replies, late requests, retries with the same identifier, a heartbeat that runs beside every call |
| Heartbeat (`heartbeat.py`) | deadline, stop event, step | start, stop, loop | a join that times out, cancellation, giving up in time, reporting a loss to the right acquisition |
| BLPOP waiting (`semaphore.py` 498-637) | list of wake-up tokens | wait, notify | lost wake-ups; a pipeline that is no transaction; the acquire timeout |
| Polling and backoff (`semaphore.py` 458-496) | number of attempts | next interval | overshoot of `acquire_timeout` |
| Rate limiter (`rate_limiter.py`, `lua_scripts.py` 238-474) | per limit a log (sorted set) and a running total | acquire, adjust, status | two keys that must agree; resent requests; several limits at once |
| Dispatch queue (`dispatch.py` 1-560, `lua_scripts.py` 477-545) | stream, submit markers, reply lists | submit, status | resent enqueue; a reply that comes as the submitter gives up |
| Dispatch worker (`dispatch.py` 560-1168) | pending entries, taken entries, leader mutex | lead, read, reclaim, touch, hand back, requeue, finish, shutdown | every await is an interleaving point; leadership is only a lease |
| Script runner (`lua_scripts.py` 548-1078) | script cache of the server | EVALSHA, EVAL on NOSCRIPT | cache lost between two calls |
| Error mapping (`errors.py` 177-233) | none | classify | permanent or transient |
| Configuration, connection, metrics, logging, examples | none that matters | | pure |

How they interact: the client calls the scripts through the runner; the heartbeat
calls REFRESH through the client and calls back (`on_lost`) into it; release pushes
a token to the list on which acquire waits; a dispatch worker uses a mutex as its
leader election and the semaphore's error mapping everywhere.

What makes each correct:

* scripts: never more owners than the limit; a running lease is taken from nobody;
  tokens only grow; the key lives as long as its members;
* client and heartbeat: who holds has a heartbeat; who has lost the slot learns of
  it in bounded time; a reported loss concerns the present acquisition; no entry
  is left on the server without anybody who would release it;
* waiting: no wake-up is lost; a free slot is used; timeouts end calls;
* rate limiter: the total is the sum of the log, no window admits more than its
  limit, a resent request counts once, `retry_after` is exact, a call ends;
* dispatch queue: a job is queued once however often it is sent, its answer stays
  readable while somebody waits for it, and `submit` ends on time and says the truth;
* dispatch worker: a job is answered or still deliverable, no two workers run it at
  once, no worker starts it twice, jobs are admitted in order, every job is answered
  and every worker that is told to stop stops.

## 2. Modules

| Module | Models | State and code |
|---|---|---|
| `LeaseSemaphore` | the promise: leases, grants, tokens, without scripts | abstract |
| `SemaphoreScripts` | what each script does to `owners` and the TTL of its key | `owners` is the sorted set as a function from members to scores; a script is an action with the time it works with as a parameter |
| `SemaphoreServer` | the scripts run by anybody at any time, and the fencing counter | `fencing` is the counter; `token` is history |
| `SemaphoreFailover` | the server with an asynchronous replica | external: Redis replication as `src/README.md` describes it |
| `SemaphoreClient` | instances: the calling thread, the heartbeats it started, the network | `state`, `identifier`, `heartbeat`, `lostEvent` are the fields of the same names; `pc`, `call`, `timer` say where a thread is, in which script call, and until when; `stopped`, `deadline` belong to a `Heartbeat`; `strays` are requests nobody waits for |
| `SemaphoreWaiters` | the acquire loop in BLPOP mode and `_notify_waiters` | `tokens` is the length of the queue list, `blocked` the clients Redis has blocked on it |
| `RateScripts` | RATE_ACQUIRE, RATE_ADJUST, RATE_STATUS and their helpers `evict`, `recount`, `touch` | `rate[l]` holds the two keys of a limit: `log` (members `<cost>:<identifier>` by time), `total`, and the end of each key's life |
| `RateServer` | the rate scripts run by anybody, with clients' clocks and keys lost at any moment | |
| `RateLimiter` | callers: attempts, sleeps, lost answers, resends, adjusts | `costs`, `acquiredAt` are the permit; `since`, `wake` the times `_next_wait` works with; `target` an adjust under way |
| `DispatchQueue` | submitters: EVALSHA, NOSCRIPT, EVAL, the reading of the reply, reads that hang, transient and permanent errors, the timeout; runs of the job from outside | `entries`, `marker`, `replies` are the keys of a job; `client` the local variables of `asubmit` |
| `DispatchWorker` | workers: election, the leading task, handlers, the touch loop, shutdown | `queue`, `delivered`, `owner`, `idle`, `consumers` are the stream, its group, the pending list and the consumers; `lead` the leading task with its locals, `taken` is `_taken`, `stage` a handler; `handed` is history: what has been handed back and not been taken since |
| `SemaphoreServerProofs`, `SemaphoreWaitersProofs`, `SemaphoreClientProofs`, `RateServerProofs`, `RateLimiterProofs`, `DispatchQueueProofs`, `DispatchWorkerProofs` | theorems about the module of that name | each extends its module |
| `RateScriptsProofs` | lemmas about the rate scripts on one limit | used by `RateServerProofs` and `RateLimiterProofs` |
| `MC*` | constants for TLC | |

`SemaphoreServer` EXTENDS `SemaphoreScripts`; `SemaphoreClient` uses the same
scripts through `INSTANCE` for its calls, so the client is checked against the
script definitions the theorems are about. In the same way `RateServer` and
`RateLimiter` both extend `RateScripts`. `SemaphoreServer` is shown to implement
`LeaseSemaphore` under the mapping `lease[i] = owners[i]`, or no lease when `i` has
no score or one that has passed: TLC checks it, and TLAPS proves it.

`DispatchWorker` takes the queue's mutex as what `SemaphoreClient` says of it: it has
at most one owner (`leader`), a lease that is not renewed ends (`LeaseEnds`), the
heartbeat of a worker that has lost it says so some time later (`LearnLoss`).
`DispatchQueue` takes the workers as what `DispatchWorker` says of them: a queued job
runs, possibly more than once, or is dropped past its deadline.

Definitions marked *(fault)* are wrong versions of the definition that follows: a
dropped guard, a forgotten reset, an off-by-one. No specification uses them; the
`mutants` of `PROJECT.json` put each in the place of the right definition to show
that the property it is listed with would notice.

### Correspondence worth knowing

* A script is one action. In `SemaphoreClient` a call is three: the request is sent
  (`Send`), executed (`Serve`), answered (`Acquired`, `Released`, ...). The local
  code between two calls is one step of its thread.
* A release first stops the heartbeat: `StopHeartbeat` sets the event,
  `JoinedForRelease` is the return of `join(timeout=2 * interval)`, or of the await
  on the cancelled task, and drops the object, whether or not the thread has ended.
* `HbAttempts` to `HbStops` are the loop of `heartbeat.py`. The refresh uses the
  identifier and state of the instance at that moment, not those the heartbeat was
  started with; `beatsFor` remembers the latter for the properties only.
* `CallRaises` is any error of a call that reaches the caller; the request may have
  been executed, may be executed later, or never (`Abandon`, `ServeStray`).
* `Resend` is redis-py retrying a command whose reply it has lost. `CallTimeout`
  bounds a call with its retries.
* In `SemaphoreWaiters` the client that Redis has blocked longest gets the token.
* A log of the rate limiter is evicted before anything else in a script, and the total
  with it, by the sum of what leaves; a total that is missing beside a log is rebuilt.
  An identifier that is on record already is admitted without a check and recorded in
  the limits where it is not: a resent call, or one whose answer was lost.
* A command of the leading task is two steps, sent and answered, because handlers, the
  touch loop and other workers run in between: `Scan`/`Reclaimed`, `Read`/`Received`,
  `Inspect`/`DeleteConsumer`. The copy of `_taken` is made in the first, used in the
  second. `_finish` is three: the handler returns, the transaction is executed, its
  answer (or error) has come.
* XREADGROUP with an explicit ID (`ReadOwn`) delivers a consumer's entries again and
  resets their idle time, as a claim does.
* `Touch` to `TouchDone` hold `_claim_lock`; `HandBack` and `Requeued` wait for it. The
  snapshot of `_taken` is made under the lock. A touch that fails is only logged.
* XINFO CONSUMERS knows a worker from its first XCLAIM or XREADGROUP on (`consumers`), so
  only one that has led before can be pruned.
* In `DispatchQueue` a submitter's call and its answer are two steps, so the answer can
  be lost in between; the client then sends the same command again or raises.
* A read of the reply breaks or hangs (`Hang`) before or after Redis has executed it, at
  any time until `ReadTimeout`: the socket timeout with the resends of the client. It is
  then sent again (`ReadResent`), tolerated (`ReadFails`), or fails with an error that is
  not transient, which ends the call at once (`ReadRefused`).
* In `SemaphoreWaiters` a wait for a wake-up that breaks goes on with the loop, or ends
  `acquire` when its error is permanent (`WaitFails`).

### Abstractions

* Time is an integer clock; one unit stands for any number of milliseconds. Clients
  in `SemaphoreClient` use the server's clock (the default, `TimeSource.SERVER`) and
  clocks advance together: a thread whose wait is over runs before time passes
  (`Due`). Long pauses of a process are outside `BeliefBounded`; the crash is in.
* Replies carry what the client acts on: success or not. Used slots, expiry and
  status fields are left out, `_expires_at` with them (nothing reads it).
* `_check_mode` and mixed use of both APIs are left out: `Async` fixes one API.
* Inside `_heartbeat_refresh` the check of the state and the sending are one step.
* `SemaphoreWaiters` has no leases; a crashed holder is evicted some time later.
  A half-open connection, to which Redis may still hand a token, is not modelled.
* The rate limiter's units are integers, as in the code; the members of a log are the
  pairs of identifier and cost that their strings stand for. The used and available
  figures of a permit and of `status()` are left out, the eviction they cause is not.
* `DispatchWorker` has no clock: an entry that its worker does not touch becomes idle at
  some time (`Age`), a touched one only when a stall is among the faults; a deadline
  passes once (`DeadlinePasses`); `reclaim_interval` elapses while the leading task is
  between two commands (`ReclaimTimer`).
* A command of a worker that raises has been executed before that, or never is. One that
  Redis executes after its caller has given up, as `SemaphoreClient` has it (`strays`), is
  left out of `DispatchWorker`: such a touch could make an entry fresh again that was
  handed back in the meantime, such a transaction of `_finish` could answer a job that
  is being run again.
* A touch that another worker sends while it has stalled can take over what was handed
  back; the entry is then no longer what `HandBackSticks` speaks of.
* A job is a number, in the order of submission, which is the order of the stream.
* `DispatchQueue` has one job per submitter. Time passes only in waits: the blocking
  read, a connection that hangs, the pause after an error, a delayed resend (`Prompt`).
  A hanging read ends by `ReadTimeout`; a client without a socket timeout has no such
  bound, and then a dead connection can hold `submit` for as long as TCP lets it.

## 3. Runs

| Run | Question | Instance | Result |
|---|---|---|---|
| `server` | do the scripts keep their promises with the server's clock? | 3 identifiers, limit 2, lock timeouts 1, 1, 3, time to 6, 4 tokens | 26,735 states; all hold, `ImplementsLeases` is the refinement |
| `client` | is an instance with its heartbeat correct on a failing network? | 1 instance, 1 rival, mutex; strict, FORBID, threads; 2 identifiers, 2 heartbeats, 2 faults, time to 5 | 2.4 million states; all hold |
| `client_async` | is a loss real with tasks and the default policies? | the same, 1 fault | 1.4 million states; yes |
| `waiters` | can a wake-up be lost, is a free slot used, does acquire end? | 4 clients (one does not wait, one has a timeout), limit 2, 2 faults | 43,571 states; all hold |
| `rate_server` | do the two keys of a limit agree, live long enough and end? is `retry_after` exact? | 3 requests on a limit of 3 units in a window of 2, costs up to 2, clocks 0 and +1, either key lost at any time, time to 4 | 89,320 states; all hold |
| `rate_limiter` | do callers with resent calls and adjusts keep within two limits, and end? | 2 requests, 1 unit in 1 and 2 units in 3; jitter 1, timeout 2, 1 adjust each, time to 4 | 32,160 states; all hold |
| `worker` | is a job run by one worker at a time and admitted in order? | 2 workers, 2 jobs (one with a deadline), 2 faults among permanent errors, crashes, lapsed leases and hard stops, one worker told to stop | 3.9 million states; yes |
| `worker_faults` | is a job never lost and never started twice by a worker, does what was handed back stay reclaimable, whatever fails? | 2 workers, 2 jobs, 2 faults among errors, resent reads, crashes and stalls, 1 requeue, pruning | 3.5 million states; all hold |
| `worker_ends` | is every job answered, does a stopped worker stop? | 2 workers, 1 job, 1 error or crash, 1 requeue | 21,744 states; yes |
| `submit` | is a job queued once, its answer kept, the end of `submit` true? | 2 submitters (one with a timeout of 5), a queue of one place, reads of 2 that cannot be shortened, an error budget of 1 and a `reply_ttl` of 7, 2 faults, time to 8, a job may run twice | 9.3 million states; all hold |
| `failover` | do fencing tokens survive a failover? | mutex, 2 clients | violated, finding 1 |
| `worker_prune` | does pruning lose a job? | 2 workers, 1 job, a crash and two lapsed leases | violated, finding 2 |

Bounds and why they suffice. `server`: three identifiers on two slots give an owner
that waits, an eviction and a re-acquire; the third lock timeout is longer than the
other two together, so that a key TTL taken from one owner would hurt another; six
units of time hold two full lives of the longest lease. `client`: two identifiers
are the acquisition a late answer belongs to and the one it may hit; two heartbeats
are the orphan and its successor; two faults are a lost reply and a lost release;
five units are two leases and the calls around them. `waiters`: with four clients on
two slots two releases can meet two waiters; two faults lose a wake-up and its
successor. `rate_server`: three requests of up to two units overfill the limit,
so that one waits for one or for two others; four units of time are two windows, a
full life of a key. `rate_limiter`: the windows differ, so a request leaves one limit
and stays in the other; every unit of the smaller limit is contended. `worker`: two
leaders at once need one lapse, and a crash or hard stop of one of them a second
fault; two jobs are one that runs and one behind it. `submit`: two submitters compete
for one place; two faults are a lost EVALSHA and a lost EVAL, or an outage of two
reads that hang, which is longer than the error budget; `reply_ttl` is exactly what
`AnswersInTime` asks for (with one unit less a submitter with a longer horizon and four
faults loses an answer). Every bound is a guard of an action
(`MaxToken` in `Acquire`, `MaxIdentifiers`, `MaxHeartbeats`, `MaxFaults` in `Fault`,
`MaxJobs` in `Submit`, `MaxRequeues` in `Requeue`, `MaxRuns` in `Start`, `MaxAdjusts`
in `SendAdjust`, `Horizon` and `MaxTime` in `Tick` and `Clock`).

Some constants choose what happens rather than how much: `Faults` the kinds of faults
of `DispatchWorker`, `LateRequeues` whether a handler may raise `RequeueJob` after
`admit()`, `Prunes` whether consumers are pruned, `ResendDelay` how late a client
resends. The passing runs set them where the property holds, and section 4 lists what
happens elsewhere. Between them the two runs of `DispatchWorker` meet every kind of
fault; `RunsOnce` is not asked with stalled touch loops, which defeat it by design
(delivery is at-least-once).

Deadlock is checked in `server`, `waiters` and `rate_server`. The other behaviours may
end: when the clock, the identifiers or the jobs are used up and every worker has stopped.

What the properties mean:

* `LeaseHonoured`: an owner whose lease runs leaves the set only by its own release.
* `KeyOutlivesMembers`: the TTL of the key covers the longest lease, on every clock.
* `HeartbeatCovers`: who holds a slot and has a heartbeat has one that runs.
* `BeliefBounded`: who believes it holds is wrong for at most two calls.
* `LossIsReal`: a slot is marked as lost because of the present acquisition.
* `LossSticks`: in strict mode only a release leads out of a loss (with FORBID).
* `LostEventTruthful`: the event of `wait_for_lock_lost` agrees with the state.
* `SlotHasOwner`: an entry on the server belongs to the present acquisition of its
  instance, to a crashed process, or to an acquire executed after its caller had
  given up. The last is a real leak until the lease ends; the code accepts it.
* `NoMissedWakeup`: beside a free slot and a blocked client there is always somebody
  who is about to ask for the slot or to push a token, unless a fault has happened.
* `TotalMatchesLog`, `KeysExpire`, `LogOutlivesEntries`: the two keys of a limit agree,
  end within two windows, and not before an entry that counts on some clock.
* `RetryAfterExact`: a denied request fits after `retry_after` and not a unit earlier,
  if nothing else comes in between.
* `AdmissionWithinLimits`: counted from the permits, not from the logs, no window ever
  admits more than its limit. `PermitMatchesLog`: the log has what the permits say.
* `StaysDeliverable`: a job without an answer is unread or pending in Redis. `NothingLost`
  is weaker: a live worker may hold it instead. `NoRerun`, `RunsOnce`: no double run by
  one worker, by two. `HandBackSticks`: what has
  been handed back stays idle, so the next leader reclaims it, until it is delivered,
  acknowledged or claimed by another worker; a snapshot taken before the lock, or an
  entry that is forgotten after the hand-back only, breaks it by a later touch.
  `AdmitsInOrder`, `RequeuedFirst`: the order of jobs, without faults.
* `QueuedOnce`, `AnswerKept`: as their names say. `EndsHonestly`: a wait ends less
  than one read after its timeout, however its reads hang; a timeout is reported only
  without an answer in time (or after a read that failed), a transient error only after a
  full budget without a success. A permanent error is reported at once.
* `TypeOK` of `RateLimiter` has one clause that is no type: no caller sleeps past its
  `acquire_timeout` (`SleepsInTime`).

Fairness. `SemaphoreWaiters`: the thread of a call in progress runs, the timeout of
a BLPOP and `acquire_timeout` elapse, the pipeline of a notification goes on or
breaks, a dead holder's lease ends. Nobody has to call acquire or release, and no
strong fairness is assumed: a waiter may lose every race, so `FreeSlotIsUsed` lets the
slot be taken by another. `RateLimiter`: the clock goes on and a call under way is
answered or fails. `DispatchWorker`: the event loop runs every task that can go on,
handlers end, heartbeats notice a lost lease and leases end. Strong fairness stands
where the code has a queue or a timer that a loop around it disables again and again:
`_claim_lock` is an `asyncio.Lock`, which lets its waiters in one after the other
(`HandBack`, `Requeued`); the queue's mutex is free again and again and every worker
asks for it (`Elect`, which no worker may miss for ever if the other one only takes and
gives it up); `reclaim_interval` elapses while the leading task sends command after
command (`ReclaimTimer`).

## 4. Findings

1. **Fencing tokens repeat after a failover** (`lua_scripts.py` 111; run `failover`).
   The counter is replicated like the owners it protects.
2. **Pruning can lose a job** (`dispatch.py` 965; run `worker_prune`). `_reclaim` reads
   `pending == 0` and deletes the consumer in a later command; one that has become
   leader again and read a job in between loses it from the pending list, and if its
   worker then ends nobody runs the job.

### Further counterexamples

The configurations below are kept beside the runs. Each asks one question, and TLC
answers it with a counterexample: `tlc -config X.cfg M`.

| Configuration, module | Property | What the code does |
|---|---|---|
| `MCClientReacquire`, `MCSemaphoreClient` | `HeartbeatCovers` | After a loss the ended `Heartbeat` stays in `_heartbeat`; with the default policies the next `acquire` on the instance starts none (`semaphore.py` 1120). With `strict_mode` and FORBID the property holds. |
| `MCClientEvent`, `MCSemaphoreClient` | `LostEventTruthful` | In the same sequence `wait_for_lock_lost` returns at once although the lock is held (`semaphore.py` 349). |
| `MCClientStrict`, `MCSemaphoreClient` | `LossSticks` | In strict mode with RENEW, an acquire under way while the heartbeat reports a loss sets the state back to ACQUIRED (`semaphore.py` 349). |
| `MCClientOrphan`, `MCSemaphoreClient` | `LossIsReal` | A heartbeat that outlives its join and is then refused marks the next acquisition as lost (`semaphore.py` 1126). It needs a call longer than two refresh intervals, which the default `socket_timeout` of 5 s and a short `lock_timeout` allow: hence CallTimeout 3 and LockTimeout 4. |
| `MCClientStale`, `MCSemaphoreClient` | `StaleHolderStops` | Belief outlives the lease by up to two calls (`heartbeat.py` 124); `BeliefBounded` is what holds. |
| `MCRateResend`, `MCRateLimiter` | `AdmissionWithinLimits` | An acquire resent after its entry has left a shorter window, but not a longer one listed before it, is admitted in the shorter one without a check (`lua_scripts.py` 342). |
| `MCRateAdjustTime`, `MCRateLimiter` | `KeepsAdmissionTime` | A resent acquire answers with the time of the resend; an adjust with that time moves the request (`lua_scripts.py` 370 and 410). |
| `MCRateAdjustFails`, `MCRateLimiter` | `AdjustSettles` | After an adjust that raised although it ran, the next one takes nothing out and puts a second entry in (`rate_limiter.py` 350). |
| `MCDispatchBacklog`, `MCDispatchWorker` | `RunsOnce` | A job requeued after its admission can be handed back after its own worker has asked for its entries (`_backlog`) and before it has read the answer: it runs there, is idle nevertheless, and the next leader runs it as well (`dispatch.py` 874). |
| `MCDispatchDrop`, `MCDispatchWorker` | `WaitingHonest` | A crash between XACK and XDEL of a late job leaves an entry that counts as waiting for ever (`dispatch.py` 1045, `types.py` 427). |
| `MCDispatchRequeue`, `MCDispatchWorker` | `RequeuedFirst` | A job requeued after its admission lets one that is read and not started go first (`dispatch.py` 1144, `src/README.md` 196). |
| `MCDispatchReplyTtl`, `MCDispatchQueue` | `AnswerKept` | With a `reply_ttl` below the error budget the answer expires while its submitter rides out an outage (`dispatch.py` 216). |

## 5. Proofs

Each theorem holds for every value of the constants that the modules assume: any set
of clients, instances or submitters and any finite set of workers, any number of limits,
jobs, identifiers, heartbeats and faults, all times, with a positive limit, positive
lock timeouts, windows, intervals and timeouts of submit, and integer clock errors. The
assumptions are named in the modules
(`LimitAssumption`, `TimingAssumption`, ...) and say what the configuration objects
validate, or what the sets of the model are. `MaxTime`, `MaxToken` and the other bounds
only restrict the steps, so the theorems hold whatever they are.

Where a property needs more than that, the theorem names the condition:

| Condition | It says | Does the code enforce it? |
|---|---|---|
| `ClocksAgree`, `SkewsClose` | no two clocks differ by more than a lock timeout, or a window | no; with the server's clock, the default, they do not differ |
| `ServerTime` | the server's clock is used | it is the default |
| `Careful` | `strict_mode` and FORBID | a choice of the user; the runs `MCClientReacquire`, `MCClientEvent`, `MCClientStrict` fail without |
| `StopsInTime` | tasks, or a call that is shorter than two refresh intervals | no: the socket timeout and `lock_timeout` are set apart; `MCClientOrphan` fails without |
| `RefreshesInTime` | a refresh interval and a call fit into a lock timeout | no; the default interval is a fraction of `lock_timeout`, the call is as long as the socket timeout |
| `ResendsInTime`, `AnswersInTime` | the client has stopped resending, and the submitter has stopped waiting out errors, pausing and reading, before `reply_ttl` is over: resends, two reads, the error budget and a pause fit into it | no, but the defaults do (60 s against an error budget of 10 s, a pause of 0.5 s and reads of the socket timeout); `MCDispatchReplyTtl` fails without |
| `Forgetless` | consumers are not pruned, or no lease lapses before its worker knows it | no; `worker_prune` fails without |
| `OneRequeue` | no handler raises `RequeueJob` after `admit()` | a choice of the user; `MCDispatchBacklog` fails without |
| `ResendsInWindow` | a lost acquire is sent again within the shortest window | no |
| `ResendsAtOnce` | a lost call is sent again at once, and adjust does not raise after its script ran | no: redis-py may wait between two attempts; `MCRateResend` and `MCRateAdjustFails` fail without |

### `SemaphoreServerProofs`

* `TypeCorrect`: `Spec => []TypeOK`;
* `LimitRespected`: `Spec => []OwnersWithinLimit`;
* `TokensIncrease`: `Spec => FencingMonotonic`;
* `KeyStays`: `Spec => []KeyOutlivesMembers`, under `ClocksAgree`;
* `LeasesHonoured`: `Spec => LeaseHonoured`, under `ServerTime`;
* `LeasesImplemented`: `Spec => ImplementsLeases`, under `ServerTime`.

The inductive invariant `IInv` is `TypeOK`, the limit, and that no granted token
exceeds the counter. The last is what `FencingMonotonic` needs: a new token is the
counter plus one, which says something only if the counter bounds the old ones.
`TypeOK` says the domain of `owners` is finite, which the limit needs: adding a
member to a finite set of fewer than `Limit` members gives at most `Limit`
(`WithAdds`), and every other script only removes (`WithoutShrinks`). Then there
is one lemma per action.

`KeyInv` adds `KeyOutlivesMembers`, which is inductive under `ClocksAgree`: the script
takes the TTL from the longest lease, read on the clock of the caller, and adds its
own lock timeout, which covers what two clocks differ by. That assumption is needed:
without it a client far ahead sets a TTL that is too short for the members of others.
With one clock, `KeyInv` says no key expires before its last lease (`KeyCovers`), so
what leaves `owners` was released or is over: `LeasesHonoured`. For the refinement,
`LiveOwners` and `EvictionSettles` say that eviction changes no abstract lease, `RoomBeside`
that a script that finds room leaves room for the abstract grant, and one lemma per
action (`AcquireRefines` to `TickRefines`) maps it to a step of `LeaseSemaphore` or to
a stutter.

### `SemaphoreWaitersProofs`

* `TypeCorrect`: `Spec => []TypeOK`;
* `TokensStayFew`: `Spec => []TokensBounded`;
* `WakeupsArrive`: `Spec => []NoMissedWakeup`.

`NoMissedWakeup` says somebody is about to act while a slot is free and a client is
blocked; it is not inductive, since that somebody may take the last slot while two are
free. `Announced`, the heart of `IInv`, counts instead: as long as there was no fault
and somebody is blocked, the free slots are at most the tokens and the clients about to
ask or to push (`Askers`). Release frees one slot and becomes an asker; an acquire that
takes one leaves the askers; a token that is handed over turns a blocked client into
one. For this `IInv` has to say that holders are those who are at that point, that there
are at most `Limit`, and that Redis never keeps a token beside a blocked client. The
lemmas on `RemoveAt` and on cardinalities with one element more or less carry the steps.

### `SemaphoreClientProofs`

* `TypeCorrect`: `Spec => []TypeOK`;
* `SlotsHaveOwners`: `Spec => []SlotHasOwner`;
* under `Careful`, `EventsTruthful`, `HoldersCovered` and `LossStays`:
  `LostEventTruthful`, `HeartbeatCovers`, `LossSticks`;
* `LossesReal`: `Spec => LossIsReal`, under `StopsInTime`;
* `BeliefEnds`: `Spec => []BeliefBounded`, under `Careful` and `RefreshesInTime`.

`IInv` says of every thread that it is in a call exactly at the steps that make one, for
its own identifier and within its time (`CallOK`), and of every instance that what it
keeps belongs to one acquisition (`AcquisitionOK`). `Slots` adds to `SlotHasOwner` that a
release that has been executed has left no entry, unless an acquire came late: only so
can the answer of the release drop the identifier. Three invariants extend it, one per
condition. `CarefulOK`: an acquire begins in RELEASED and with no heartbeat, so the
heartbeat of a holder is the one it started. `CurrentOK`: a heartbeat that still runs is
the current one, and while it is being stopped its call ends before the join does; it is
what keeps an old heartbeat from reporting on a new acquisition. `DeadlineOK`: the deadline
of a heartbeat is at most one call behind the expiry the server gave, and an attempt
begins by the deadline.

### `RateScriptsProofs` and `RateServerProofs`

* `TypeCorrect`: `Spec => []TypeOK`;
* `TotalsMatch`: `Spec => []TotalMatchesLog`;
* `LimitersCleanUp`: `Spec => []KeysExpire`;
* `LogsLast`: `Spec => []LogOutlivesEntries`, under `SkewsClose`;
* `RetriesExact`: `Spec => []RetryAfterExact`.

`RateScriptsProofs` has the lemmas about the scripts on the keys of one limit; limits do
not influence each other's keys. Between scripts the keys are `Matching`: the total, if
there is one, is the sum of the log. `Evict`, with which every script begins, makes them
`Exact`: a total is there unless the log is empty, and it is the sum (`EvictExact`: what
leaves is subtracted, a missing total is rebuilt). Adding, taking out and putting in keep
them `Exact` (`RecordExact`, `TakeOutExact`, `PutInExact`), time and lost keys keep them
`Matching`. The sum is the cardinality of a set with one element per unit (`Units`), so
that it needs no recursion: `ChargeOfRest`, `ChargeOfOne` and `ChargeOfMore` are its
arithmetic. `Expiring` is the same argument for the TTLs from above, `Lasts` from below:
a log lives until its youngest entry is out of the window on every clock.

`retry_after` looks for the first moment at which enough units have left. That a finite
set of times has a least and a greatest element would be an induction; here it follows
from the library's fact that strict inclusion of finite sets is well founded
(`HighestExists`, `LowestExists`). `WaitForIs` says what the loop of the script computes,
`WaitForExact` that one unit of time earlier the request does not fit, and
`RetryAfterIs` takes the greatest over the limits.

### `RateLimiterProofs`

* `TypeCorrect`: `Spec => []TypeOK`;
* `ResendsAdmitted`: `Spec => ResentIsAdmitted`, under `ResendsInWindow`;
* under `ResendsAtOnce`, `PermitsMatch`, `AdmissionsFit` and `AdjustsSettle`:
  `PermitMatchesLog`, `AdmissionWithinLimits`, `AdjustSettles`.

`TypeInv` is the types with what `RateServerProofs` says of the keys (`KeysOK`).
`StepSleeps` is the part of `TypeOK` that is about time: whatever `retry_after` and jitter
are, `_next_wait` either fails or sleeps to the deadline at most, and no step of another
request touches the sleep or its deadline. `Waiting`
is about requests without a permit: they are in no log, or, once an answer was lost, in
all logs they are charged to, at the time of the attempt. `Holding` is about permits: in
every limit in whose window it is, a request has one entry, at its cost and its time; a
request whose adjust is under way, at the cost it will have. A step of one
request leaves the entries of the others, up to eviction (`Entries`). `AdmissionsFit`
counts from both sides: the units in use by permits map one to one into the units of the
log (`InUseCharged`), and the script admits only what fits beside the log.

### `DispatchQueueProofs`

* `JobsQueuedOnce`: `Spec => []QueuedOnce`, under `ResendsInTime`;
* `TypeCorrect`: `Spec => []TypeOK`;
* `AnswersKept` and `SubmitsEndHonestly`: `Spec => []AnswerKept` and
  `Spec => []EndsHonestly`, under `AnswersInTime`.

`IInv` says of each call (`CallOK`) that it begins with nothing appended; that while it is
under way `now` is at most `ResendDelay` past its `sent`, so that the marker of an
execution, which lasts to `sent + ReplyTtl` or later, is still there when the call is
sent again; and that an answer "full" means nothing was appended. `OneCall` reduces a step
of one submitter to its own call, and there is one lemma per kind of step. The assumption
is needed: the marker is all that tells a resend from a new call, and a resend that comes
after it has expired appends the job again.

`ClientOK` is what a submitter knows of the time: a read began before its timeout and
ends by `sent + ReadTimeout`, and its `failing` is the start of a streak without a
success. `AnswerOK` follows an answer that has not been read: the submitter is in the
call, the read or the streak in which it came. A streak goes on for less than `Budget`
and a pause, then there is one more read; with the read in which the streak began all of
that is over by `answered + ResendDelay + ReadTimeout + Budget + Pause + ReadTimeout`,
while the list lives to `answered + ReplyTtl`. `EndsHonestly` rests on no promise that a
read returns on time but on the bound of the socket timeout. A resend of the move sets
the TTL again and the answer stays, since it is rotated and not taken out.

### `DispatchWorkerProofs`

* `TypeCorrect`: `Spec => []TypeOK`;
* `StartsOnce`: `Spec => NoRerun`;
* `HandBackLasts`: `Spec => []HandBackSticks`;
* `JobsStay` and `JobsNotLost`: `Spec => []StaysDeliverable` and `Spec => []NothingLost`,
  under `Forgetless`;
* `JobsRunOnce`: `Spec => []RunsOnce`, under `OneRequeue` and without stalls.

`BaseInv` holds always: what is pending is in the stream, what is answered is neither,
and the leading task has nothing in its batch that its worker runs or has answered. Its
part `LeadOK` is about the copy of `_taken` that is made when a command is sent: between
it and the comparison a handler may end, but none can begin, because the leading task is
the only one that starts handlers. `LeadInv` (one leader, while no lease lapses) says of
a consumer about to be deleted that it has nothing in hand and does not lead, so nothing
can become pending for it. `OwnInv` says that what a worker holds is held by no other and is
not idle; it needs `Awaited`, by which the leading task waits for a job it has started until
the job is admitted, has ended, or has been handed back. `HandInv` says of
what has been handed back (`HandedOK`) that it is pending for a worker that does not touch
it and will not: it is in neither its `_taken`, nor the touch under way, nor an answer
to come (`Seen`). For this an entry must be forgotten before its hand-back, which is what
`BackOK` says of every entry on its way, and the hand-back must find no touch under way,
which is the lock; a requeued entry may be delivered to its own worker once more while
its hand-back waits (`TakenAgain`), and then it is no longer handed back. `KeptIsEnough`
and `StepsAre` reduce the actions to what a step of one worker may change.

Model-checked only: liveness under fairness (`FreeSlotIsUsed`, `AcquireReturns`,
`EveryAcquireEnds`, `EveryJobEnds`, `StopEnds`), which TLAPS does not prove here, and the
order of jobs (`AdmitsInOrder`, `RequeuedFirst`). The findings and the further
counterexamples are TLC's.

## 6. Not modelled, and the plan

* Semaphore: the polling mode with its backoff; `status()` and `cleanup()` as calls of
  a client; the process-wide waiting counter (`semaphore.py` 706), which an exception
  in the acquire loop leaves too high and which only metrics read; `_expires_at`, which
  an orphaned heartbeat may write after a release (`semaphore.py` 1095) and which nothing
  reads; two tasks on one instance (`semaphore.py` 735).
* Rate limiter: `retry_after` as the maximum over several limits is exercised in
  `rate_limiter` only. Three requests over two limits are too many for the liveness run.
* Dispatch: several queues in one worker (they share `_claim_lock` and the event loop), the
  cursor of a reclaim of more than 100 entries, entries deleted or malformed by others,
  a deleted stream (NOGROUP), `health()`, and the map of jobs requeued on purpose
  (`dispatch.py` 1142), which only feeds a warning.
* Runner: NOSCRIPT is modelled for the enqueue script, the one that needs it not to be
  run twice; elsewhere a call is one request. Which errors are
  permanent is a free choice of the models.
* Configuration, connection, metrics, logging and the examples hold no state the
  library decides on.

Plan, in order: the order of jobs (`AdmitsInOrder`, `RequeuedFirst`) as theorems; two
callers on one instance; the backoff over bounded inputs.
