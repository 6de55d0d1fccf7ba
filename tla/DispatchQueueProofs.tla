-------------------------- MODULE DispatchQueueProofs --------------------------
(* What holds of submit() for any number of submitters and every choice of  *)
(* the times: a job is queued once, whatever answers are lost; its answer   *)
(* stays readable for its submitter; a submit that waits ends less than one *)
(* read after its timeout, and says truthfully how.                         *)
EXTENDS DispatchQueue, SequenceTheorems, TLAPS

\* The client gives up resending a call before the marker its first execution has
\* left can expire.
ResendsInTime == ResendDelay < ReplyTtl

Calling(s) == client[s].pc \in {"evalsha", "eval", "reply"}

\* What a call under way knows of its marker.
CallOK(s) ==
    /\ client[s].via \in Commands
    /\ client[s].pc = "new" => appended[s] = 0
    /\ Calling(s) =>
          /\ client[s].sent \in Nat
          /\ client[s].sent <= now /\ now <= client[s].sent + ResendDelay
          /\ appended[s] > 0 => marker[s] >= client[s].sent + ReplyTtl
    /\ At(s, "reply") /\ client[s].got = NoRoom => appended[s] = 0

IInv ==
    /\ now \in Nat
    /\ marker \in [Submitter -> Nat] /\ appended \in [Submitter -> Nat]
    /\ DOMAIN client = Submitter
    /\ \A s \in Submitter : {"pc", "via", "got", "sent"} \subseteq DOMAIN client[s]
    /\ \A s \in Submitter : CallOK(s)
    /\ QueuedOnce

LEMMA InitInvariant == Init => IInv
<1> SUFFICES ASSUME Init PROVE IInv
  OBVIOUS
<1>1. now = 0 /\ marker = Zero /\ appended = Zero
  BY DEF Init
<1>2. /\ DOMAIN client = Submitter
      /\ \A s \in Submitter : /\ {"pc", "via", "got", "sent"} \subseteq DOMAIN client[s]
                              /\ client[s].pc = "new" /\ client[s].via = "evalsha"
  BY DEF Init, Blank
<1>3. marker \in [Submitter -> Nat] /\ \A s \in Submitter : appended[s] = 0
  BY <1>1 DEF Zero
<1>4. \A s \in Submitter : CallOK(s)
  BY <1>2, <1>3 DEF CallOK, Calling, At, Commands
<1>5. QueuedOnce
  BY <1>3 DEF QueuedOnce
<1>6. QED
  BY <1>1, <1>2, <1>3, <1>4, <1>5 DEF IInv, Zero

\* A step of one call leaves the others as they were: what has to be shown of it is
\* that its own call stays in order.
LEMMA OneCall ==
    ASSUME IInv, NEW s \in Submitter, UNCHANGED now,
           NEW c, client' = [client EXCEPT ![s] = c],
           {"pc", "via", "got", "sent"} \subseteq DOMAIN c,
           NEW m \in Nat, marker' = [marker EXCEPT ![s] = m],
           NEW n \in Nat, appended' = [appended EXCEPT ![s] = n],
           CallOK(s)', n <= (IF c.pc = "full" THEN 0 ELSE 1)
    PROVE  IInv'
<1>1. \A t \in Submitter \ {s} :
          client'[t] = client[t] /\ marker'[t] = marker[t] /\ appended'[t] = appended[t]
  BY DEF IInv
<1>2. client'[s] = c /\ marker'[s] = m /\ appended'[s] = n
  BY DEF IInv
<1>3. \A t \in Submitter : CallOK(t)'
  BY <1>1 DEF IInv, CallOK, Calling, At
<1>4. QueuedOnce'
  BY <1>1, <1>2 DEF IInv, QueuedOnce, At
<1>5. QED
  BY <1>1, <1>2, <1>3, <1>4 DEF IInv

\* The steps that only change a call, and do not send or answer it.
LEMMA OnlyTheCall ==
    ASSUME IInv, NEW s \in Submitter, UNCHANGED <<now, marker, appended>>,
           NEW c, client' = [client EXCEPT ![s] = c],
           {"pc", "via", "got", "sent"} \subseteq DOMAIN c,
           CallOK(s)', c.pc = "full" => appended[s] = 0
    PROVE  IInv'
<1>1. marker' = [marker EXCEPT ![s] = marker[s]] /\ appended' = [appended EXCEPT ![s] = appended[s]]
  BY DEF IInv
<1>2. marker[s] \in Nat /\ appended[s] \in Nat /\ appended[s] <= 1
  BY DEF IInv, QueuedOnce
<1>3. appended[s] <= (IF c.pc = "full" THEN 0 ELSE 1)
  BY <1>2
<1>4. QED
  BY <1>1, <1>2, <1>3, OneCall

\* A call that is answered without XADD.
LEMMA AnswerPreserves ==
    ASSUME IInv, NEW s \in Submitter, client[s].pc \in Commands, UNCHANGED now,
           NEW what, AppendNothing(s, what), what = NoRoom => appended[s] = 0
    PROVE  IInv'
<1> DEFINE c == [client[s] EXCEPT !.pc = "reply", !.got = what]
<1>1. CallOK(s) /\ Calling(s) /\ {"pc", "via", "got", "sent"} \subseteq DOMAIN client[s]
  BY DEF IInv, Calling, Commands
<1>2. client' = [client EXCEPT ![s] = c] /\ UNCHANGED <<marker, appended>>
  BY DEF AppendNothing, Answered
<1>3. c.pc = "reply" /\ c.got = what /\ c.via = client[s].via /\ c.sent = client[s].sent
  BY <1>1
<1>4. client'[s] = c
  BY <1>2 DEF IInv
<1>5. CallOK(s)'
  BY <1>1, <1>2, <1>3, <1>4 DEF CallOK, Calling, At
<1>6. QED
  BY <1>1, <1>2, <1>3, <1>5, OnlyTheCall

\* The script: its marker tells it of an XADD of an earlier sending of the call.
LEMMA EnqueuePreserves ==
    ASSUME ResendsInTime, IInv, NEW s \in Submitter, client[s].pc \in Commands, UNCHANGED now,
           Enqueue(s)
    PROVE  IInv'
<1> DEFINE c == [client[s] EXCEPT !.pc = "reply", !.got = Queued]
<1>1. /\ CallOK(s) /\ Calling(s) /\ now \in Nat /\ marker[s] \in Nat /\ appended[s] \in Nat
      /\ {"pc", "via", "got", "sent"} \subseteq DOMAIN client[s]
      /\ ReplyTtl \in Nat \ {0}
  BY TimeAssumption DEF IInv, Calling, Commands
<1>2. marker[s] = 0 => appended[s] = 0
  BY <1>1 DEF CallOK
<1>3. CASE marker[s] # 0 /\ AppendNothing(s, Queued)
  BY <1>3, AnswerPreserves DEF Queued, NoRoom
<1>4. CASE marker[s] = 0 /\ AppendNothing(s, NoRoom)
  BY <1>2, <1>4, AnswerPreserves
<1>5. CASE marker[s] = 0 /\ AppendJob(s)
  <2>1. /\ client' = [client EXCEPT ![s] = c]
        /\ marker' = [marker EXCEPT ![s] = now + ReplyTtl]
        /\ appended' = [appended EXCEPT ![s] = appended[s] + 1]
    BY <1>5 DEF AppendJob, Answered
  <2>2. c.pc = "reply" /\ c.got = Queued /\ c.via = client[s].via /\ c.sent = client[s].sent
    BY <1>1
  <2>3. client'[s] = c /\ marker'[s] = now + ReplyTtl
    BY <2>1 DEF IInv
  <2>4. /\ client[s].sent \in Nat /\ client[s].sent <= now
        /\ now <= client[s].sent + ResendDelay /\ client[s].via \in Commands
    BY <1>1 DEF CallOK
  <2>5. now + ReplyTtl >= client[s].sent + ReplyTtl /\ now' = now
    BY <1>1, <2>4
  <2>6. Queued # NoRoom
    BY DEF Queued, NoRoom
  <2> HIDE DEF c
  <2>7. CallOK(s)'
    BY <2>2, <2>3, <2>4, <2>5, <2>6 DEF CallOK, Calling, At
  <2> USE DEF c
  <2>8. now + ReplyTtl \in Nat /\ appended[s] + 1 \in Nat /\ appended[s] + 1 <= 1
    BY <1>1, <1>2, <1>5
  <2>9. QED
    BY <1>1, <2>1, <2>2, <2>7, <2>8, OneCall
<1>6. QED
  BY <1>3, <1>4, <1>5 DEF Enqueue

\* A step that ends the call of the script, or comes after it.
LEMMA AfterTheCall ==
    ASSUME IInv, NEW s \in Submitter, UNCHANGED <<now, marker, appended>>,
           NEW c, client' = [client EXCEPT ![s] = c],
           {"pc", "via", "got", "sent"} \subseteq DOMAIN c, c.via \in Commands,
           c.pc \notin {"new", "evalsha", "eval", "reply"}, c.pc = "full" => appended[s] = 0
    PROVE  IInv'
<1>1. client'[s] = c
  BY DEF IInv
<1>2. CallOK(s)'
  BY <1>1 DEF CallOK, Calling, At
<1>3. QED
  BY <1>2, OnlyTheCall

\* The steps of a call up to its answer.
LEMMA SendingPreserves ==
    ASSUME ResendsInTime, IInv, NEW s \in Submitter,
           \/ Submit(s) \/ EvalSha(s) \/ FallBack(s) \/ Eval(s) \/ Enqueued(s) \/ LoseAnswer(s)
    PROVE  IInv'
<1>1. /\ CallOK(s) /\ now \in Nat /\ marker[s] \in Nat /\ appended[s] \in Nat
      /\ {"pc", "via", "got", "sent"} \subseteq DOMAIN client[s]
      /\ ResendDelay \in Nat
  BY TimeAssumption DEF IInv
<1>2. CASE Submit(s)
  <2> DEFINE c == [client[s] EXCEPT !.pc = "evalsha", !.sent = now]
  <2>1. client' = [client EXCEPT ![s] = c] /\ UNCHANGED <<now, marker, appended>> /\ At(s, "new")
    BY <1>2 DEF Submit, server
  <2>2. c.pc = "evalsha" /\ c.sent = now /\ c.via = client[s].via /\ client'[s] = c
    BY <1>1, <2>1 DEF IInv
  <2>3. CallOK(s)'
    BY <1>1, <2>1, <2>2 DEF CallOK, Calling, At
  <2>4. QED
    BY <1>1, <2>1, <2>2, <2>3, OnlyTheCall
<1>3. CASE EvalSha(s)
  BY <1>3, EnqueuePreserves, AnswerPreserves DEF EvalSha, At, Commands, Nothing, NoRoom
<1>4. CASE FallBack(s)
  <2> DEFINE c == [client[s] EXCEPT !.pc = "eval", !.via = "eval"]
  <2>1. client' = [client EXCEPT ![s] = c] /\ UNCHANGED <<now, marker, appended>> /\ At(s, "reply")
    BY <1>4 DEF FallBack, server
  <2>2. c.pc = "eval" /\ c.via = "eval" /\ c.sent = client[s].sent /\ client'[s] = c
    BY <1>1, <2>1 DEF IInv
  <2>3. CallOK(s)'
    BY <1>1, <2>1, <2>2 DEF CallOK, Calling, At, Commands
  <2>4. QED
    BY <1>1, <2>1, <2>2, <2>3, OnlyTheCall
<1>5. CASE Eval(s)
  BY <1>5, EnqueuePreserves DEF Eval, At, Commands
<1>6. CASE Enqueued(s)
  <2>1. PICK c : /\ client' = [client EXCEPT ![s] = c] /\ UNCHANGED <<now, marker, appended>>
                 /\ {"pc", "via", "got", "sent"} \subseteq DOMAIN c /\ c.via = "evalsha"
                 /\ c.pc = IF client[s].got = NoRoom THEN "full" ELSE "wait"
    <3> DEFINE c == IF client[s].got = NoRoom THEN [Blank EXCEPT !.pc = "full"]
                    ELSE [Blank EXCEPT !.pc = "wait", !.giveUp = After(Timeout[s]), !.good = now]
    <3>1. client' = [client EXCEPT ![s] = c] /\ UNCHANGED <<now, marker, appended>>
      BY <1>6 DEF Enqueued, server
    <3>2. /\ {"pc", "via", "got", "sent"} \subseteq DOMAIN c /\ c.via = "evalsha"
          /\ c.pc = IF client[s].got = NoRoom THEN "full" ELSE "wait"
      BY DEF Blank
    <3> HIDE DEF c
    <3> QED
      BY <3>1, <3>2, Zenon
  <2>2. c.pc = "full" => appended[s] = 0
    BY <1>1, <1>6, <2>1 DEF Enqueued, CallOK
  <2>3. QED
    BY <2>1, <2>2, AfterTheCall DEF Commands
<1>7. CASE LoseAnswer(s)
  <2>1. UNCHANGED <<now, marker, appended>> /\ At(s, "reply")
    BY <1>7 DEF LoseAnswer, server
  <2>2. CASE Goto(s, client[s].via)
    <3> DEFINE c == [client[s] EXCEPT !.pc = client[s].via]
    <3>1. client' = [client EXCEPT ![s] = c]
      BY <2>2 DEF Goto
    <3>2. /\ c.pc = client[s].via /\ c.via = client[s].via /\ c.sent = client[s].sent
          /\ client'[s] = c /\ client[s].via \in Commands
      BY <1>1, <3>1 DEF IInv, CallOK
    <3>3. CallOK(s)'
      BY <1>1, <2>1, <3>2 DEF CallOK, Calling, At, Commands
    <3>4. QED
      BY <1>1, <2>1, <3>1, <3>2, <3>3, OnlyTheCall DEF Commands
  <2>3. CASE Over(s, "error")
    <3> DEFINE c == [Blank EXCEPT !.pc = "error"]
    <3>1. /\ client' = [client EXCEPT ![s] = c] /\ c.pc = "error" /\ c.via \in Commands
          /\ {"pc", "via", "got", "sent"} \subseteq DOMAIN c
      BY <2>3 DEF Over, Blank, Commands
    <3> HIDE DEF c
    <3>2. QED
      BY <2>1, <3>1, AfterTheCall
  <2>4. QED
    BY <1>7, <2>2, <2>3 DEF LoseAnswer
<1>8. QED
  BY <1>2, <1>3, <1>4, <1>5, <1>6, <1>7

\* Where a submitter stands once the call of the script has been answered.
Beyond == {"wait", "reading", "read", "hanging", "pause", "timeout", "error", "permanent", "result"}

\* The steps of a submitter after that.
LEMMA WaitingPreserves ==
    ASSUME IInv, NEW s \in Submitter,
           \/ Wait(s) \/ ReadReply(s) \/ ReadNothing(s) \/ Hang(s) \/ ReadResent(s)
           \/ ReadFails(s) \/ ReadRefused(s) \/ Resume(s) \/ ReadAgain(s) \/ Return(s)
    PROVE  IInv'
<1>1. /\ client[s].via \in Commands /\ {"pc", "via", "got", "sent"} \subseteq DOMAIN client[s]
      /\ UNCHANGED <<now, marker, appended>>
  BY DEF IInv, CallOK, Wait, ReadReply, ReadNothing, Hang, ReadResent, ReadFails, ReadRefused,
         Resume, ReadAgain, Return, server
<1>2. ASSUME NEW c, client' = [client EXCEPT ![s] = c],
             {"pc", "via", "got", "sent"} \subseteq DOMAIN c, c.via \in Commands,
             c.pc \in Beyond
      PROVE  IInv'
  BY <1>1, <1>2, AfterTheCall DEF Beyond
<1>3. CASE Wait(s)
  <2>1. CASE client[s].giveUp <= now
    <3> DEFINE c == [client[s] EXCEPT !.pc = "timeout"]
    <3>1. client' = [client EXCEPT ![s] = c]
      BY <1>3, <2>1 DEF Wait
    <3>2. /\ {"pc", "via", "got", "sent"} \subseteq DOMAIN c /\ c.via \in Commands
          /\ c.pc \in Beyond
      BY <1>1 DEF Beyond
    <3> HIDE DEF c
    <3>3. QED
      BY <1>2, <3>1, <3>2
  <2>2. CASE ~(client[s].giveUp <= now)
    <3> DEFINE c == [client[s] EXCEPT !.pc = "reading", !.sent = now,
                                      !.until = now + BlockAt(s, now)]
    <3>1. client' = [client EXCEPT ![s] = c]
      BY <1>3, <2>2 DEF Wait
    <3>2. /\ {"pc", "via", "got", "sent"} \subseteq DOMAIN c /\ c.via \in Commands
          /\ c.pc \in Beyond
      BY <1>1 DEF Beyond
    <3> HIDE DEF c
    <3>3. QED
      BY <1>2, <3>1, <3>2
  <2>3. QED
    BY <2>1, <2>2
<1>4. CASE ReadReply(s)
  <2> DEFINE c == [client[s] EXCEPT !.pc = "read", !.got = replies[s][Len(replies[s])]]
  <2>1. client' = [client EXCEPT ![s] = c]
    BY <1>4 DEF ReadReply
  <2>2. /\ {"pc", "via", "got", "sent"} \subseteq DOMAIN c /\ c.via \in Commands
        /\ c.pc \in Beyond
    BY <1>1 DEF Beyond
  <2> HIDE DEF c
  <2>3. QED
    BY <1>2, <2>1, <2>2
<1>5. CASE ReadNothing(s)
  <2> DEFINE c == [client[s] EXCEPT !.pc = "read", !.got = Nothing]
  <2>1. client' = [client EXCEPT ![s] = c]
    BY <1>5 DEF ReadNothing
  <2>2. /\ {"pc", "via", "got", "sent"} \subseteq DOMAIN c /\ c.via \in Commands
        /\ c.pc \in Beyond
    BY <1>1 DEF Beyond
  <2> HIDE DEF c
  <2>3. QED
    BY <1>2, <2>1, <2>2
<1>6. CASE Hang(s) \/ ReadResent(s) \/ ReadFails(s) \/ ReadRefused(s)
  <2>1. CASE Hang(s)
    <3> DEFINE c == [client[s] EXCEPT !.pc = "hanging", !.got = Nothing, !.until = 0]
    <3>1. client' = [client EXCEPT ![s] = c]
      BY <2>1 DEF Hang
    <3>2. {"pc", "via", "got", "sent"} \subseteq DOMAIN c /\ c.via \in Commands /\ c.pc \in Beyond
      BY <1>1 DEF Beyond
    <3> HIDE DEF c
    <3>3. QED
      BY <1>2, <3>1, <3>2
  <2>2. CASE ReadResent(s)
    <3> DEFINE until == now + BlockAt(s, client[s].sent)
               c == [client[s] EXCEPT !.pc = "reading", !.until = until]
    <3>1. client' = [client EXCEPT ![s] = c]
      BY <2>2 DEF ReadResent
    <3>2. {"pc", "via", "got", "sent"} \subseteq DOMAIN c /\ c.via \in Commands /\ c.pc \in Beyond
      BY <1>1 DEF Beyond
    <3> HIDE DEF c
    <3>3. QED
      BY <1>2, <3>1, <3>2
  <2>3. CASE ReadFails(s)
    <3> DEFINE over == now - FailingSince(s) >= Budget
               failed == [client[s] EXCEPT !.sent = 0, !.failing = FailingSince(s)]
               c == IF over THEN [failed EXCEPT !.pc = "error"]
                    ELSE [failed EXCEPT !.pc = "pause", !.until = PauseEnds(s)]
    <3>1. client' = [client EXCEPT ![s] = c]
      BY <2>3 DEF ReadFails
    <3>2. {"pc", "via", "got", "sent"} \subseteq DOMAIN c /\ c.via \in Commands /\ c.pc \in Beyond
      BY <1>1 DEF Beyond
    <3> HIDE DEF c
    <3>3. QED
      BY <1>2, <3>1, <3>2
  <2>4. CASE ReadRefused(s)
    <3> DEFINE c == [Blank EXCEPT !.pc = "permanent"]
    <3>1. client' = [client EXCEPT ![s] = c]
      BY <2>4 DEF ReadRefused, Over
    <3>2. {"pc", "via", "got", "sent"} \subseteq DOMAIN c /\ c.via \in Commands /\ c.pc \in Beyond
      BY DEF Beyond, Blank, Commands
    <3> HIDE DEF c
    <3>3. QED
      BY <1>2, <3>1, <3>2
  <2>5. QED
    BY <1>6, <2>1, <2>2, <2>3, <2>4
<1>7. CASE Resume(s)
  <2> DEFINE c == [client[s] EXCEPT !.pc = "wait", !.until = 0]
  <2>1. client' = [client EXCEPT ![s] = c]
    BY <1>7 DEF Resume
  <2>2. /\ {"pc", "via", "got", "sent"} \subseteq DOMAIN c /\ c.via \in Commands
        /\ c.pc \in Beyond
    BY <1>1 DEF Beyond
  <2> HIDE DEF c
  <2>3. QED
    BY <1>2, <2>1, <2>2
<1>8. CASE ReadAgain(s)
  <2> DEFINE c == [client[s] EXCEPT !.pc = "wait", !.failing = StreakEnds(s), !.good = now,
                                    !.sent = 0, !.until = 0]
  <2>1. client' = [client EXCEPT ![s] = c]
    BY <1>8 DEF ReadAgain
  <2>2. /\ {"pc", "via", "got", "sent"} \subseteq DOMAIN c /\ c.via \in Commands
        /\ c.pc \in Beyond
    BY <1>1 DEF Beyond
  <2> HIDE DEF c
  <2>3. QED
    BY <1>2, <2>1, <2>2
<1>9. CASE Return(s)
  <2> DEFINE c == [Blank EXCEPT !.pc = "result"]
  <2>1. client' = [client EXCEPT ![s] = c]
    BY <1>9 DEF Return, Over
  <2>2. {"pc", "via", "got", "sent"} \subseteq DOMAIN c /\ c.via \in Commands /\ c.pc \in Beyond
    BY DEF Beyond, Blank, Commands
  <2> HIDE DEF c
  <2>3. QED
    BY <1>2, <2>1, <2>2
<1>10. QED
  BY <1>3, <1>4, <1>5, <1>6, <1>7, <1>8, <1>9

\* Time passes beside a call only as long as it may still be resent, and the marker
\* outlives that.
LEMMA TickPreserves == ASSUME ResendsInTime, IInv, Tick PROVE IInv'
<1>1. /\ now \in Nat /\ now' = now + 1 /\ UNCHANGED <<client, appended>>
      /\ ReplyTtl \in Nat /\ ResendDelay \in Nat /\ ResendDelay < ReplyTtl
  BY TimeAssumption DEF IInv, Tick, ResendsInTime
<1>2. /\ \A s \in Submitter : marker'[s] = IF marker[s] <= now' THEN 0 ELSE marker[s]
      /\ marker' \in [Submitter -> Nat]
  BY DEF IInv, Tick
<1>3. ASSUME NEW s \in Submitter
      PROVE  CallOK(s)'
  <2>1. CallOK(s) /\ marker[s] \in Nat /\ appended[s] \in Nat
    BY DEF IInv
  <2>2. ASSUME Calling(s)
        PROVE  /\ client[s].sent \in Nat
               /\ client[s].sent <= now' /\ now' <= client[s].sent + ResendDelay
               /\ appended[s] > 0 => marker'[s] >= client[s].sent + ReplyTtl
    <3>1. /\ client[s].sent \in Nat /\ client[s].sent <= now
          /\ appended[s] > 0 => marker[s] >= client[s].sent + ReplyTtl
      BY <2>1, <2>2 DEF CallOK
    <3>2. now < client[s].sent + ResendDelay
      BY <1>1, <2>2, <3>1 DEF Tick, Prompt, Calling
    <3>3. QED
      BY <1>1, <1>2, <2>1, <3>1, <3>2
  <2>3. QED
    BY <1>1, <2>1, <2>2 DEF CallOK, Calling, At
<1>4. QED
  BY <1>1, <1>2, <1>3 DEF IInv, QueuedOnce, At

LEMMA StepInvariant == ASSUME ResendsInTime PROVE IInv /\ [Next]_vars => IInv'
<1> SUFFICES ASSUME IInv, [Next]_vars
             PROVE  IInv'
  OBVIOUS
<1>1. CASE UNCHANGED <<now, marker, appended, client>>
  BY <1>1 DEF IInv, CallOK, Calling, At, QueuedOnce
<1>2. CASE Tick
  BY <1>2, TickPreserves
<1>3. CASE Flush
  BY <1>1, <1>3 DEF Flush
<1>4. ASSUME NEW s \in Submitter, Call(s) \/ LoseAnswer(s) \/ Hang(s)
      PROVE  IInv'
  BY <1>4, SendingPreserves, WaitingPreserves DEF Call
<1>5. ASSUME NEW s \in Submitter, Start(s) \/ Finish(s) \/ Drop(s)
      PROVE  IInv'
  BY <1>1, <1>5 DEF Start, Finish, Drop
<1>6. CASE UNCHANGED vars
  BY <1>1, <1>6 DEF vars, server
<1>7. QED
  BY <1>2, <1>3, <1>4, <1>5, <1>6 DEF Next

\* The marker that DISPATCH_ENQUEUE sets beside XADD outlives every resend of the call,
\* by EVALSHA or EVAL, so that the job is in the queue once, and not at all when the
\* submitter is told that the queue is full.
THEOREM JobsQueuedOnce == ASSUME ResendsInTime PROVE Spec => []QueuedOnce
<1>1. IInv => QueuedOnce
  BY DEF IInv
<1>2. QED
  BY <1>1, InitInvariant, StepInvariant, PTL DEF Spec

-----------------------------------------------------------------------------
(* Types, and what a submitter knows of the time.                            *)

\* All that a submitter waits for, after the call and between two errors, is over
\* before the answer of its job can expire: a resend of the call, a read that hangs,
\* the errors that are ridden out, the last pause, and one more read.
AnswersInTime == ResendDelay + ReadTimeout + Budget + Pause + ReadTimeout <= ReplyTtl

Typed ==
    /\ TypeOK
    /\ client \in [Submitter -> ClientState]
    /\ replies \in [Submitter -> Seq(Nat)]

\* A read has been sent, and the submitter knows neither its answer nor its error.
Reading(s) == client[s].pc \in {"reading", "read", "hanging"}

\* A submitter begins no read past its timeout, ends every read, and knows how long
\* errors have gone on.
ClientOK(s) ==
    LET c == client[s]
    IN  /\ c.pc \in {"new", "evalsha", "eval", "reply"} => c.failing = None
        /\ c.good <= now
        /\ c.failing # None => c.good <= c.failing /\ c.failing <= now
        /\ Reading(s) => c.sent < c.giveUp /\ c.sent <= now /\ now <= c.sent + ReadTimeout
        /\ c.pc = "reading" => now <= c.until /\ c.until <= c.sent + ReadTimeout
        /\ c.pc = "wait" => now < c.giveUp + ReadTimeout
        /\ c.pc = "pause" =>
              /\ c.failing # None
              /\ now <= c.until /\ c.until <= now + Pause /\ c.until < c.giveUp + ReadTimeout
        /\ c.pc = "timeout" => c.giveUp <= now
        /\ ErrorTrue(s)

\* Nobody runs a job that is not queued.
JobOK(s) == appended[s] = 0 => entries[s] = 0 /\ started[s] = 0

ClientInv == Typed /\ \A s \in Submitter : ClientOK(s) /\ JobOK(s)

\* The errors that a submitter rides out after its job has been answered, and the
\* pause after them, end before this time.
LastPause(s) == answered[s] + ResendDelay + ReadTimeout + Budget + Pause

\* An answer that is there and unread has come during the present call, wait or
\* streak of errors, and stays until that is over.
AnswerOK(s) ==
    LET c == client[s]
    IN  answered[s] # None =>
            /\ answered[s] <= now
            /\ expiry[s] >= answered[s] + ReplyTtl
            /\ c.pc # "new"
            /\ Calling(s) => c.sent <= answered[s]
            /\ Calling(s) \/ Waiting(s) => replies[s] # <<>>
            /\ Waiting(s) /\ c.failing # None => c.failing <= answered[s] + ResendDelay + ReadTimeout
            /\ Reading(s) => c.sent < LastPause(s)
            /\ Reading(s) /\ c.failing = None => c.sent <= answered[s] + ResendDelay
            /\ c.pc = "read" /\ c.got = Nothing => answered[s] = now
            /\ c.pc = "wait" => now < LastPause(s)
            /\ c.pc = "wait" /\ c.failing = None =>
                   now <= answered[s] + ResendDelay /\ (now < c.giveUp \/ answered[s] = now)
            /\ c.pc = "pause" => c.until < LastPause(s)
            /\ c.pc = "timeout" /\ c.failing = None => answered[s] >= c.giveUp

AnswerInv == IInv /\ ClientInv /\ \A s \in Submitter : AnswerOK(s)

LEMMA Constants ==
    /\ ReplyTtl \in Nat \ {0} /\ Block \in Nat \ {0} /\ Pause \in Nat \ {0}
    /\ Budget \in Nat /\ ResendDelay \in Nat /\ MaxFaults \in Nat /\ Horizon \in Nat
    /\ MaxRuns \in [Submitter -> Nat] /\ Timeout \in [Submitter -> Nat \ {0}]
    /\ None \in Nat /\ Horizon < None
    /\ MinBlock \in Nat \ {0} /\ ReadTimeout \in Nat \ {0}
    /\ Block <= ReadTimeout /\ MinBlock <= ReadTimeout
BY SubmitterAssumption, TimeAssumption DEF None

LEMMA TypesAre ==
    ASSUME Typed
    PROVE  /\ now \in 0 .. Horizon /\ cached \in BOOLEAN /\ faults \in 0 .. MaxFaults
           /\ entries \in [Submitter -> Nat] /\ marker \in [Submitter -> Nat]
           /\ appended \in [Submitter -> Nat] /\ expiry \in [Submitter -> Nat]
           /\ started \in [Submitter -> Nat] /\ finished \in [Submitter -> Nat]
           /\ deadline \in [Submitter -> Nat] /\ answered \in [Submitter -> Nat]
           /\ client \in [Submitter -> ClientState] /\ replies \in [Submitter -> Seq(Nat)]
           /\ now \in Nat /\ now < None
<1>1. now \in 0 .. Horizon
  BY DEF Typed, TypeOK
<1>2. now \in Nat /\ now < None
  BY <1>1, Constants
<1>3. QED
  BY <1>1, <1>2 DEF Typed, TypeOK

\* give_up lies ahead, and further ahead than the clock goes for one without.
LEMMA AfterIs ==
    ASSUME now \in Nat, now < None, NEW timeout \in Nat \ {0}
    PROVE  After(timeout) \in Nat /\ now < After(timeout)
BY Constants DEF After

\* The runs whose answers are in the list.
Runs(list, n) == Len(list) <= n /\ \A i \in 1 .. Len(list) : list[i] \in 1 .. n

LEMMA RepliesAre == ASSUME Typed, NEW s \in Submitter PROVE Runs(replies[s], finished[s])
BY DEF Typed, TypeOK, Runs

\* Reading a reply leaves the list as long as it was, with the same runs.
LEMMA RotatedIs ==
    ASSUME NEW list \in Seq(Nat), list # <<>>, NEW n \in Nat, Runs(list, n)
    PROVE  /\ Rotated(list) \in Seq(Nat) /\ Rotated(list) # <<>> /\ Runs(Rotated(list), n)
           /\ list[Len(list)] \in 1 .. n
<1>1. /\ Len(list) \in Nat \ {0} /\ \A i \in 1 .. Len(list) : list[i] \in Nat /\ list[i] \in 1 .. n
      /\ Len(list) <= n
  BY EmptySeq, ElementOfSeq DEF Runs
<1> DEFINE first == <<list[Len(list)]>>
           rest == SubSeq(list, 1, Len(list) - 1)
<1>2. first \in Seq(Nat) /\ Len(first) = 1 /\ first[1] = list[Len(list)]
  BY <1>1
<1>3. /\ rest \in Seq(Nat) /\ Len(rest) = Len(list) - 1
      /\ \A i \in 1 .. Len(list) - 1 : rest[i] = list[i]
  <2>1. 1 \in Int /\ Len(list) - 1 \in Int /\ \A i \in 1 .. Len(list) - 1 : list[i] \in Nat
    BY <1>1
  <2>2. /\ rest \in Seq(Nat)
        /\ Len(rest) = IF 1 <= Len(list) - 1 THEN (Len(list) - 1) - 1 + 1 ELSE 0
        /\ \A i \in 1 .. (Len(list) - 1) - 1 + 1 : rest[i] = list[1 + i - 1]
    BY <2>1, SubSeqProperties
  <2>3. (Len(list) - 1) - 1 + 1 = Len(list) - 1 /\ \A i \in 1 .. Len(list) - 1 : 1 + i - 1 = i
    BY <1>1
  <2>4. Len(rest) = Len(list) - 1
    <3> HIDE DEF rest
    <3>1. CASE Len(list) = 1
      BY <2>2, <3>1
    <3>2. CASE Len(list) # 1
      <4> DEFINE n1 == Len(list)
      <4>1. n1 \in Nat \ {0} /\ n1 # 1
        BY <1>1, <3>2
      <4> HIDE DEF n1
      <4>2. 1 <= n1 - 1
        BY <4>1
      <4>3. Len(rest) = (Len(list) - 1) - 1 + 1
        BY <2>2, <4>2 DEF n1
      <4>4. QED
        BY <2>3, <4>3
    <3>3. QED
      BY <3>1, <3>2
  <2> HIDE DEF rest
  <2>5. QED
    BY <2>2, <2>3, <2>4
<1>4. Rotated(list) = first \o rest
  BY DEF Rotated
<1> HIDE DEF first, rest
<1>5. /\ Rotated(list) \in Seq(Nat) /\ Len(Rotated(list)) = 1 + (Len(list) - 1)
      /\ \A i \in 1 .. 1 + (Len(list) - 1) :
             Rotated(list)[i] = IF i <= 1 THEN first[i] ELSE rest[i - 1]
  <2>1. /\ first \o rest \in Seq(Nat) /\ Len(first \o rest) = Len(first) + Len(rest)
        /\ \A i \in 1 .. Len(first) + Len(rest) :
               (first \o rest)[i] = IF i <= Len(first) THEN first[i] ELSE rest[i - Len(first)]
    BY <1>2, <1>3, ConcatProperties
  <2>2. QED
    BY <1>2, <1>3, <1>4, <2>1
<1>6. Len(Rotated(list)) = Len(list)
  BY <1>1, <1>5
<1>7. \A i \in 1 .. Len(list) : Rotated(list)[i] \in 1 .. n
  <2> TAKE i \in 1 .. Len(list)
  <2>1. CASE i = 1
    BY <1>1, <1>2, <1>5, <2>1
  <2>2. CASE i # 1
    <3>1. i - 1 \in 1 .. Len(list) - 1 /\ i - 1 \in 1 .. Len(list)
      BY <1>1, <2>2
    <3>2. Rotated(list)[i] = list[i - 1]
      BY <1>1, <1>3, <1>5, <2>2, <3>1
    <3>3. QED
      BY <1>1, <3>1, <3>2
  <2>3. QED
    BY <2>1, <2>2
<1>8. QED
  BY <1>1, <1>5, <1>6, <1>7, EmptySeq DEF Runs

\* So does an answer that is added to it.
LEMMA PushedIs ==
    ASSUME NEW list \in Seq(Nat), NEW n \in Nat, Runs(list, n)
    PROVE  /\ <<n + 1>> \o list \in Seq(Nat) /\ <<n + 1>> \o list # <<>>
           /\ Runs(<<n + 1>> \o list, n + 1)
<1> DEFINE first == <<n + 1>>
<1>1. first \in Seq(Nat) /\ Len(first) = 1 /\ first[1] = n + 1
  OBVIOUS
<1>2. Len(list) \in Nat /\ Len(list) <= n /\ \A i \in 1 .. Len(list) : list[i] \in 1 .. n
  BY LenProperties DEF Runs
<1> HIDE DEF first
<1>3. /\ first \o list \in Seq(Nat) /\ Len(first \o list) = 1 + Len(list)
      /\ \A i \in 1 .. 1 + Len(list) :
             (first \o list)[i] = IF i <= 1 THEN first[i] ELSE list[i - 1]
  <2>1. /\ first \o list \in Seq(Nat) /\ Len(first \o list) = Len(first) + Len(list)
        /\ \A i \in 1 .. Len(first) + Len(list) :
               (first \o list)[i] = IF i <= Len(first) THEN first[i] ELSE list[i - Len(first)]
    BY <1>1, ConcatProperties
  <2>2. QED
    BY <1>1, <2>1
<1>4. ASSUME NEW i \in 1 .. 1 + Len(list) PROVE (first \o list)[i] \in 1 .. n + 1
  <2>1. CASE i = 1
    BY <1>1, <1>2, <1>3, <2>1
  <2>2. CASE i # 1
    <3>1. i - 1 \in 1 .. Len(list) /\ (first \o list)[i] = list[i - 1]
      BY <1>2, <1>3, <2>2
    <3>2. QED
      BY <1>2, <3>1
  <2>3. QED
    BY <2>1, <2>2
<1>5. first \o list # <<>> /\ Runs(first \o list, n + 1)
  BY <1>2, <1>3, <1>4, EmptySeq DEF Runs
<1>6. QED
  BY <1>3, <1>5 DEF first

\* A call that has not begun, or is over.
LEMMA BlankIs ==
    ASSUME NEW pc \in {"new"} \cup Ends
    PROVE  /\ [Blank EXCEPT !.pc = pc] \in ClientState
           /\ [Blank EXCEPT !.pc = pc].pc = pc
           /\ [Blank EXCEPT !.pc = pc].failing = None /\ [Blank EXCEPT !.pc = pc].good = 0
           /\ Blank \in ClientState
BY Constants DEF Blank, ClientState, Commands, Nothing

LEMMA InitTyped == Init => ClientInv
<1> SUFFICES ASSUME Init PROVE ClientInv
  OBVIOUS
<1>1. /\ now = 0 /\ faults = 0 /\ cached = FALSE
      /\ entries = Zero /\ marker = Zero /\ expiry = Zero /\ started = Zero /\ finished = Zero
      /\ appended = Zero /\ deadline = Never /\ answered = Never
      /\ replies = [s \in Submitter |-> <<>>] /\ client = [s \in Submitter |-> Blank]
  BY DEF Init
<1>2. Blank \in ClientState
  BY BlankIs, Constants DEF ClientState, Commands, Ends
<1>3. Blank.pc = "new" /\ Blank.failing = None /\ Blank.good = 0
  BY DEF Blank
<1>4. Zero \in [Submitter -> Nat] /\ Never \in [Submitter -> Nat]
      /\ \A s \in Submitter : Zero[s] = 0 /\ Never[s] = None
  BY Constants DEF Zero, Never
<1>5. replies \in [Submitter -> Seq(Nat)] /\ \A s \in Submitter : replies[s] = <<>>
  BY <1>1
<1>6. TypeOK
  <2>1. /\ now \in 0 .. Horizon /\ cached \in BOOLEAN /\ faults \in 0 .. MaxFaults
        /\ {entries, marker, appended, expiry, started, finished, deadline, answered}
               \subseteq [Submitter -> Nat]
    <3>1. Zero \in [Submitter -> Nat] /\ Never \in [Submitter -> Nat]
      BY <1>4
    <3>2. {entries, marker, appended, expiry, started, finished, deadline, answered} = {Zero, Never}
      BY <1>1
    <3>3. 0 \in 0 .. Horizon /\ 0 \in 0 .. MaxFaults
      BY Constants
    <3>4. cached \in BOOLEAN
      BY <1>1, Zenon
    <3>5. QED
      BY <1>1, <3>1, <3>2, <3>3, <3>4
  <2>2. ASSUME NEW s \in Submitter
        PROVE  /\ client[s] \in ClientState /\ finished[s] <= started[s] /\ started[s] <= MaxRuns[s]
               /\ Len(replies[s]) <= finished[s] /\ 1 .. Len(replies[s]) = {}
    BY <1>1, <1>2, <1>4, <1>5, Constants, EmptySeq
  <2>3. QED
    BY <2>1, <2>2 DEF TypeOK
<1>7. Typed
  BY <1>1, <1>2, <1>5, <1>6 DEF Typed
<1>8. \A s \in Submitter : ClientOK(s) /\ JobOK(s)
  BY <1>1, <1>3, <1>4 DEF ClientOK, JobOK, ErrorTrue, At, Reading
<1>9. QED
  BY <1>7, <1>8 DEF ClientInv

-----------------------------------------------------------------------------
(* The steps, and the state of the submitter they leave.                     *)

\* Nothing that belongs to a submitter other than s changes.
Others(s) ==
    \A t \in Submitter : t # s =>
        /\ client'[t] = client[t] /\ replies'[t] = replies[t] /\ expiry'[t] = expiry[t]
        /\ entries'[t] = entries[t] /\ appended'[t] = appended[t]
        /\ started'[t] = started[t] /\ answered'[t] = answered[t]

\* A call of s goes on: its state becomes c.
Becomes(s, c) ==
    /\ c \in ClientState
    /\ client' = [client EXCEPT ![s] = c]
    /\ now' = now
    /\ UNCHANGED <<expiry, started, finished, answered>>
    /\ faults' = faults \/ Fault

LEMMA CallTyped ==
    ASSUME Typed, NEW s \in Submitter, NEW c, Becomes(s, c), cached' \in BOOLEAN,
           entries' \in [Submitter -> Nat], appended' \in [Submitter -> Nat],
           marker' \in [Submitter -> Nat], deadline' \in [Submitter -> Nat],
           replies' \in [Submitter -> Seq(Nat)], Runs(replies'[s], finished[s]),
           \A t \in Submitter : t # s => /\ entries'[t] = entries[t] /\ appended'[t] = appended[t]
                                        /\ replies'[t] = replies[t]
    PROVE  Typed' /\ Others(s) /\ client'[s] = c
<1>1. /\ now \in 0 .. Horizon /\ faults \in 0 .. MaxFaults /\ MaxFaults \in Nat
      /\ expiry \in [Submitter -> Nat] /\ answered \in [Submitter -> Nat]
      /\ started \in [Submitter -> Nat] /\ finished \in [Submitter -> Nat]
      /\ client \in [Submitter -> ClientState]
  BY TypesAre, Constants
<1>2. /\ expiry' \in [Submitter -> Nat] /\ answered' \in [Submitter -> Nat]
      /\ started' \in [Submitter -> Nat] /\ finished' \in [Submitter -> Nat]
      /\ client' \in [Submitter -> ClientState]
  BY <1>1 DEF Becomes
<1>3. now' \in 0 .. Horizon /\ faults' \in 0 .. MaxFaults
  BY <1>1 DEF Becomes, Fault
<1>4. client'[s] = c /\ \A t \in Submitter : t # s => client'[t] = client[t]
  BY <1>1 DEF Becomes
<1>5. Others(s)
  BY <1>4 DEF Others, Becomes
<1>6. ASSUME NEW t \in Submitter PROVE Runs(replies'[t], finished'[t])
  BY RepliesAre DEF Becomes
<1>7. ASSUME NEW t \in Submitter
      PROVE  client'[t] \in ClientState /\ finished'[t] <= started'[t] /\ started'[t] <= MaxRuns[t]
  BY <1>2 DEF Typed, TypeOK, Becomes
<1>8. TypeOK'
  BY <1>2, <1>3, <1>6, <1>7 DEF TypeOK, Runs
<1>9. QED
  BY <1>2, <1>4, <1>5, <1>8 DEF Typed

\* What does not concern a submitter keeps it in order.
LEMMA OthersKeep ==
    ASSUME NEW s \in Submitter, Others(s), now' = now, NEW t \in Submitter, t # s
    PROVE  /\ ClientOK(t) /\ JobOK(t) => ClientOK(t)' /\ JobOK(t)'
           /\ AnswerOK(t) => AnswerOK(t)'
<1>1. /\ client'[t] = client[t] /\ replies'[t] = replies[t] /\ expiry'[t] = expiry[t]
      /\ entries'[t] = entries[t] /\ appended'[t] = appended[t]
      /\ started'[t] = started[t] /\ answered'[t] = answered[t]
  BY DEF Others
<1>2. ClientOK(t) /\ JobOK(t) => ClientOK(t)' /\ JobOK(t)'
  BY <1>1 DEF ClientOK, JobOK, ErrorTrue, At, Reading
<1>3. AnswerOK(t) => AnswerOK(t)'
  BY <1>1 DEF AnswerOK, Calling, Waiting, Reading, LastPause
<1>4. QED
  BY <1>2, <1>3

\* The steps of a call of which only the state of the submitter changes.
LEMMA OnlyTheClient ==
    ASSUME Typed, NEW s \in Submitter, NEW c, Becomes(s, c),
           UNCHANGED <<entries, deadline, marker, cached, appended, replies>>
    PROVE  Typed' /\ Others(s) /\ client'[s] = c
<1>1. /\ cached' \in BOOLEAN /\ entries' \in [Submitter -> Nat] /\ appended' \in [Submitter -> Nat]
      /\ marker' \in [Submitter -> Nat] /\ deadline' \in [Submitter -> Nat]
      /\ replies' \in [Submitter -> Seq(Nat)]
  BY TypesAre
<1>2. Runs(replies'[s], finished[s])
  BY RepliesAre
<1>3. QED
  BY <1>1, <1>2, CallTyped

\* The call of the script: the state of its submitter but for the answer stays.
Keeps(c, d) == c.until = d.until /\ c.giveUp = d.giveUp /\ c.failing = d.failing /\ c.good = d.good

LEMMA ScriptCalled ==
    ASSUME Typed, NEW s \in Submitter,
           Submit(s) \/ EvalSha(s) \/ FallBack(s) \/ Eval(s) \/ LoseAnswer(s)
    PROVE  /\ Typed' /\ Others(s) /\ now' = now
           /\ UNCHANGED <<expiry, started, finished, answered, replies>>
           /\ client[s].pc \in {"new", "evalsha", "eval", "reply"}
           /\ \/ client'[s] = [Blank EXCEPT !.pc = "error"]
              \/ /\ client'[s].pc \in {"evalsha", "eval", "reply"} /\ Keeps(client'[s], client[s])
                 /\ client[s].pc # "new" => client'[s].sent = client[s].sent
           /\ appended'[s] = 0 => appended[s] = 0 /\ entries'[s] = entries[s]
<1>1. /\ client[s] \in ClientState /\ now \in 0 .. Horizon /\ now \in Nat
      /\ entries[s] \in Nat /\ appended[s] \in Nat
      /\ Runs(replies[s], finished[s]) /\ cached \in BOOLEAN /\ ReplyTtl \in Nat
  BY TypesAre, RepliesAre, Constants
<1> DEFINE Called(c) ==
             /\ client[s].pc \in {"new", "evalsha", "eval", "reply"}
             /\ \/ c = [Blank EXCEPT !.pc = "error"]
                \/ /\ c.pc \in {"evalsha", "eval", "reply"} /\ Keeps(c, client[s])
                   /\ client[s].pc # "new" => c.sent = client[s].sent
<1>2. ASSUME NEW c, Becomes(s, c), Called(c), UNCHANGED replies,
             UNCHANGED <<entries, deadline, marker, appended>>, cached' \in BOOLEAN
      PROVE  /\ Typed' /\ Others(s) /\ now' = now
             /\ UNCHANGED <<expiry, started, finished, answered, replies>> /\ Called(client'[s])
             /\ appended'[s] = 0 => appended[s] = 0 /\ entries'[s] = entries[s]
  <2>1. Typed' /\ Others(s) /\ client'[s] = c
    <3>1. /\ entries' \in [Submitter -> Nat] /\ appended' \in [Submitter -> Nat]
          /\ marker' \in [Submitter -> Nat] /\ deadline' \in [Submitter -> Nat]
          /\ replies' \in [Submitter -> Seq(Nat)] /\ Runs(replies'[s], finished[s])
      BY <1>1, <1>2, TypesAre
    <3>2. QED
      BY <1>2, <3>1, CallTyped
  <2>2. QED
    BY <1>2, <2>1 DEF Becomes
<1>3. ASSUME NEW c, Becomes(s, c), Called(c), UNCHANGED replies, cached' \in BOOLEAN,
             entries' = [entries EXCEPT ![s] = entries[s] + 1],
             appended' = [appended EXCEPT ![s] = appended[s] + 1],
             deadline' = [deadline EXCEPT ![s] = After(Timeout[s])],
             marker' = [marker EXCEPT ![s] = now + ReplyTtl]
      PROVE  /\ Typed' /\ Others(s) /\ now' = now
             /\ UNCHANGED <<expiry, started, finished, answered, replies>> /\ Called(client'[s])
             /\ appended'[s] = 0 => appended[s] = 0 /\ entries'[s] = entries[s]
  <2>1. After(Timeout[s]) \in Nat /\ now + ReplyTtl \in Nat
    BY <1>1, Constants, AfterIs
  <2>2. Typed' /\ Others(s) /\ client'[s] = c /\ appended'[s] = appended[s] + 1
    <3>1. /\ entries' \in [Submitter -> Nat] /\ appended' \in [Submitter -> Nat]
          /\ appended'[s] = appended[s] + 1
          /\ \A t \in Submitter : t # s => entries'[t] = entries[t] /\ appended'[t] = appended[t]
      BY <1>1, <1>3, TypesAre, SMTT(30)
    <3>2. /\ marker' \in [Submitter -> Nat] /\ deadline' \in [Submitter -> Nat]
          /\ replies' \in [Submitter -> Seq(Nat)] /\ Runs(replies'[s], finished[s])
      BY <1>1, <1>3, <2>1, TypesAre
    <3>3. QED
      BY <1>3, <3>1, <3>2, CallTyped
  <2>3. QED
    BY <1>1, <1>3, <2>2 DEF Becomes
<1>4. ASSUME NEW what \in Int, Answered(s, what), client[s].pc \in Commands, now' = now,
             UNCHANGED <<expiry, started, finished, answered, faults>>
      PROVE  \E c : Becomes(s, c) /\ Called(c)
  <2> DEFINE c == [client[s] EXCEPT !.pc = "reply", !.got = what]
  <2>1. c \in ClientState /\ Called(c)
    BY <1>1, <1>4 DEF ClientState, Commands, Keeps
  <2>2. client' = [client EXCEPT ![s] = c]
    BY <1>4 DEF Answered
  <2>3. Becomes(s, c)
    BY <1>4, <2>1, <2>2 DEF Becomes
  <2>4. QED
    BY <2>1, <2>3
<1>5. ASSUME client[s].pc \in Commands, now' = now, cached' \in BOOLEAN,
             UNCHANGED <<expiry, started, finished, answered, faults, replies>>,
             Enqueue(s) \/ AppendNothing(s, Nothing)
      PROVE  /\ Typed' /\ Others(s) /\ now' = now
             /\ UNCHANGED <<expiry, started, finished, answered, replies>> /\ Called(client'[s])
             /\ appended'[s] = 0 => appended[s] = 0 /\ entries'[s] = entries[s]
  <2>1. CASE \E what \in Int : AppendNothing(s, what)
    <3>1. PICK what \in Int : AppendNothing(s, what)
      BY <2>1
    <3>2. UNCHANGED <<entries, deadline, marker, appended>> /\ Answered(s, what)
      BY <3>1 DEF AppendNothing
    <3>3. QED
      BY <1>2, <1>4, <1>5, <3>2
  <2>2. CASE AppendJob(s)
    <3>1. /\ entries' = [entries EXCEPT ![s] = entries[s] + 1]
          /\ appended' = [appended EXCEPT ![s] = appended[s] + 1]
          /\ deadline' = [deadline EXCEPT ![s] = After(Timeout[s])]
          /\ marker' = [marker EXCEPT ![s] = now + ReplyTtl]
          /\ Answered(s, Queued)
      BY <2>2 DEF AppendJob
    <3>2. Queued \in Int
      BY DEF Queued
    <3>3. PICK c : Becomes(s, c) /\ Called(c)
      BY <1>4, <1>5, <3>1, <3>2
    <3>4. QED
      BY <1>3, <1>5, <3>1, <3>3
  <2>3. Queued \in Int /\ NoRoom \in Int /\ Nothing \in Int
    BY DEF Queued, NoRoom, Nothing
  <2>4. QED
    BY <1>5, <2>1, <2>2, <2>3 DEF Enqueue
<1>6. CASE EvalSha(s)
  <2>1. /\ client[s].pc \in Commands /\ now' = now /\ cached' \in BOOLEAN
        /\ UNCHANGED <<expiry, started, finished, answered, faults, replies>>
        /\ Enqueue(s) \/ AppendNothing(s, Nothing)
    BY <1>1, <1>6 DEF EvalSha, At, Commands
  <2>2. QED
    BY <1>5, <2>1
<1>7. CASE Eval(s)
  <2>1. /\ client[s].pc \in Commands /\ now' = now /\ cached' \in BOOLEAN
        /\ UNCHANGED <<expiry, started, finished, answered, faults, replies>> /\ Enqueue(s)
    BY <1>7 DEF Eval, At, Commands
  <2>2. QED
    BY <1>5, <2>1
<1>8. CASE Submit(s) \/ FallBack(s) \/ LoseAnswer(s)
  <2>1. /\ UNCHANGED <<now, expiry, started, finished, answered, replies>>
        /\ UNCHANGED <<entries, deadline, marker, appended>> /\ cached' \in BOOLEAN
        /\ faults' = faults \/ Fault
    BY <1>1, <1>8 DEF Submit, FallBack, LoseAnswer, server
  <2>2. ASSUME NEW c \in ClientState, client' = [client EXCEPT ![s] = c] PROVE Becomes(s, c)
    BY <2>1, <2>2 DEF Becomes
  <2>3. \E c : Becomes(s, c) /\ Called(c)
    <3>1. CASE Submit(s)
      <4> DEFINE c == [client[s] EXCEPT !.pc = "evalsha", !.sent = now]
      <4>1. c \in ClientState /\ Called(c)
        BY <1>1, <3>1 DEF ClientState, Commands, Keeps, Submit, At
      <4>2. client' = [client EXCEPT ![s] = c]
        BY <3>1 DEF Submit
      <4>3. QED
        BY <2>2, <4>1, <4>2
    <3>2. CASE FallBack(s)
      <4> DEFINE c == [client[s] EXCEPT !.pc = "eval", !.via = "eval"]
      <4>1. c \in ClientState /\ Called(c)
        BY <1>1, <3>2 DEF ClientState, Commands, Keeps, FallBack, At
      <4>2. client' = [client EXCEPT ![s] = c]
        BY <3>2 DEF FallBack
      <4>3. QED
        BY <2>2, <4>1, <4>2
    <3>3. CASE LoseAnswer(s)
      <4>1. CASE Goto(s, client[s].via)
        <5> DEFINE c == [client[s] EXCEPT !.pc = client[s].via]
        <5>1. c \in ClientState /\ Called(c)
          BY <1>1, <3>3 DEF ClientState, Commands, Keeps, LoseAnswer, At
        <5>2. client' = [client EXCEPT ![s] = c]
          BY <4>1 DEF Goto
        <5>3. QED
          BY <2>2, <5>1, <5>2
      <4>2. CASE Over(s, "error")
        <5> DEFINE c == [Blank EXCEPT !.pc = "error"]
        <5>1. c \in ClientState /\ client' = [client EXCEPT ![s] = c]
          BY <4>2, BlankIs DEF Over, Ends
        <5>2. client[s].pc = "reply"
          BY <3>3 DEF LoseAnswer, At
        <5>3. Called(c)
          BY <5>2
        <5>4. QED
          BY <2>2, <5>1, <5>3
      <4>3. QED
        BY <3>3, <4>1, <4>2 DEF LoseAnswer
    <3>4. QED
      BY <1>8, <3>1, <3>2, <3>3
  <2>4. QED
    BY <1>2, <2>1, <2>3
<1>9. QED
  BY <1>6, <1>7, <1>8

-----------------------------------------------------------------------------
(* Each step keeps its submitter in order, and leaves the others alone.      *)

Kept(s) ==
    /\ Typed' /\ Others(s) /\ now' = now
    /\ ClientOK(s)' /\ JobOK(s)'
    /\ AnswersInTime /\ IInv /\ AnswerOK(s) => AnswerOK(s)'

\* The numbers an argument about s is about.
LEMMA NumbersAre ==
    ASSUME Typed, NEW s \in Submitter
    PROVE  /\ now \in Nat /\ now < None /\ None \in Nat
           /\ client[s].sent \in Nat /\ client[s].until \in Nat /\ client[s].giveUp \in Nat
           /\ client[s].failing \in Nat /\ client[s].good \in Nat
           /\ client[s] \in ClientState /\ answered[s] \in Nat /\ expiry[s] \in Nat
           /\ ReplyTtl \in Nat /\ Block \in Nat \ {0} /\ Pause \in Nat \ {0}
           /\ Budget \in Nat /\ ResendDelay \in Nat /\ ReadTimeout \in Nat \ {0}
<1>1. client[s] \in ClientState
  BY TypesAre
<1>2. /\ client[s].sent \in 0 .. Horizon /\ client[s].until \in Nat
      /\ client[s].giveUp \in Nat /\ client[s].failing \in Nat /\ client[s].good \in 0 .. Horizon
  BY <1>1 DEF ClientState
<1>3. client[s].sent \in Nat /\ client[s].until \in Nat /\ client[s].good \in Nat
  BY <1>2, Constants
<1>4. QED
  BY <1>1, <1>2, <1>3, TypesAre, Constants

\* The call of the script.
LEMMA ScriptKeeps ==
    ASSUME ClientInv, NEW s \in Submitter,
           Submit(s) \/ EvalSha(s) \/ FallBack(s) \/ Eval(s) \/ LoseAnswer(s)
    PROVE  Kept(s)
<1>1. Typed /\ ClientOK(s) /\ JobOK(s)
  BY DEF ClientInv
<1>2. /\ Typed' /\ Others(s) /\ now' = now
      /\ UNCHANGED <<expiry, started, finished, answered, replies>>
      /\ client[s].pc \in {"new", "evalsha", "eval", "reply"}
      /\ \/ client'[s] = [Blank EXCEPT !.pc = "error"]
         \/ /\ client'[s].pc \in {"evalsha", "eval", "reply"} /\ Keeps(client'[s], client[s])
            /\ client[s].pc # "new" => client'[s].sent = client[s].sent
      /\ appended'[s] = 0 => appended[s] = 0 /\ entries'[s] = entries[s]
  BY <1>1, ScriptCalled
<1>3. client'[s].failing = None /\ client'[s].good <= now
  <2>1. client[s].failing = None /\ client[s].good <= now /\ now \in Nat
    BY <1>1, <1>2, NumbersAre DEF ClientOK
  <2>2. CASE client'[s] = [Blank EXCEPT !.pc = "error"]
    BY <2>1, <2>2, BlankIs DEF Ends
  <2>3. QED
    BY <1>2, <2>1, <2>2 DEF Keeps
<1>4. client'[s].pc \in {"evalsha", "eval", "reply", "error"}
  BY <1>2, BlankIs DEF Ends
<1>5. ClientOK(s)'
  BY <1>1, <1>2, <1>3, <1>4 DEF ClientOK, ErrorTrue, At, Reading
<1>6. JobOK(s)'
  BY <1>1, <1>2 DEF JobOK
<1>7. ASSUME AnswerOK(s) PROVE AnswerOK(s)'
  <2> SUFFICES ASSUME answered[s] # None PROVE AnswerOK(s)'
    BY <1>2 DEF AnswerOK
  <2>1. /\ answered[s] <= now /\ expiry[s] >= answered[s] + ReplyTtl /\ client[s].pc # "new"
        /\ client[s].sent <= answered[s] /\ replies[s] # <<>>
    BY <1>2, <1>7 DEF AnswerOK, Calling
  <2>2. client'[s].pc # "error" => client'[s].sent = client[s].sent
    BY <1>2, <2>1, BlankIs DEF Ends
  <2>3. QED
    BY <1>2, <1>4, <2>1, <2>2 DEF AnswerOK, Calling, Waiting, Reading
<1>8. QED
  BY <1>2, <1>5, <1>6, <1>7 DEF Kept

LEMMA EnqueuedKeeps == ASSUME ClientInv, NEW s \in Submitter, Enqueued(s) PROVE Kept(s)
<1> DEFINE c == IF client[s].got = NoRoom THEN [Blank EXCEPT !.pc = "full"]
                ELSE [Blank EXCEPT !.pc = "wait", !.giveUp = After(Timeout[s]), !.good = now]
<1>1. /\ Typed /\ ClientOK(s) /\ JobOK(s) /\ client[s] \in ClientState /\ now \in 0 .. Horizon
      /\ After(Timeout[s]) \in Nat /\ now < After(Timeout[s]) /\ now \in Nat
  BY TypesAre, AfterIs, Constants, SMTT(30) DEF ClientInv
<1>2. /\ client' = [client EXCEPT ![s] = c] /\ client[s].pc = "reply"
      /\ UNCHANGED <<now, server, appended, answered, faults>>
  BY DEF Enqueued, At
<1>3. c \in ClientState
  <2>1. Blank \in ClientState
    BY BlankIs
  <2>2. QED
    BY <1>1, <2>1 DEF ClientState, Commands, Ends
<1>4. /\ c.pc \in {"wait", "full"} /\ c.failing = None /\ c.good <= now
      /\ c.pc = "wait" => c.giveUp = After(Timeout[s])
  BY <1>1 DEF Blank
<1> HIDE DEF c
<1>5. UNCHANGED <<now, entries, deadline, marker, cached, appended, replies, expiry, started,
                  finished, answered, faults>>
  BY <1>2 DEF server
<1>6. Typed' /\ Others(s) /\ client'[s] = c
  <2>1. Becomes(s, c)
    BY <1>2, <1>3, <1>5 DEF Becomes
  <2>2. QED
    BY <1>1, <1>5, <2>1, OnlyTheClient
<1>7. ReadTimeout \in Nat \ {0} /\ now < After(Timeout[s]) + ReadTimeout
  BY <1>1, Constants
<1>8. ClientOK(s)' /\ JobOK(s)'
  BY <1>1, <1>4, <1>5, <1>6, <1>7 DEF ClientOK, JobOK, ErrorTrue, At, Reading
<1>9. ASSUME IInv, AnswerOK(s) PROVE AnswerOK(s)'
  <2> SUFFICES ASSUME answered[s] # None PROVE AnswerOK(s)'
    BY <1>5 DEF AnswerOK
  <2>1. /\ client[s].sent <= answered[s] /\ answered[s] <= now /\ replies[s] # <<>>
        /\ expiry[s] >= answered[s] + ReplyTtl
    BY <1>2, <1>9 DEF AnswerOK, Calling
  <2>2. now <= client[s].sent + ResendDelay
    BY <1>2, <1>9 DEF IInv, CallOK, Calling
  <2>3. now <= answered[s] + ResendDelay /\ now < LastPause(s)
    BY <1>1, <1>7, <2>1, <2>2, NumbersAre, SMTT(30) DEF LastPause
  <2>4. LastPause(s)' = LastPause(s)
    BY <1>5 DEF LastPause
  <2> HIDE DEF LastPause
  <2>5. QED
    BY <1>1, <1>4, <1>5, <1>6, <2>1, <2>3, <2>4 DEF AnswerOK, Calling, Waiting, Reading
<1>10. QED
  BY <1>5, <1>6, <1>8, <1>9 DEF Kept

\* A BLMOVE is not longer than a read may last.
LEMMA BlockIs ==
    ASSUME Typed, NEW s \in Submitter, NEW time \in Nat
    PROVE  BlockAt(s, time) \in Nat /\ BlockAt(s, time) <= ReadTimeout
<1>1. client[s].giveUp \in Nat
  BY NumbersAre
<1>2. QED
  BY <1>1, Constants DEF BlockAt, Most, Least

LEMMA WaitKeeps == ASSUME ClientInv, NEW s \in Submitter, Wait(s) PROVE Kept(s)
<1>1. /\ Typed /\ ClientOK(s) /\ JobOK(s) /\ client[s] \in ClientState /\ now \in 0 .. Horizon
      /\ client[s].pc = "wait" /\ now < client[s].giveUp + ReadTimeout
  BY TypesAre DEF ClientInv, Wait, At, ClientOK
<1>2. UNCHANGED <<now, entries, deadline, marker, cached, appended, replies, expiry, started,
                  finished, answered, faults>>
  BY DEF Wait, server
<1>3. CASE client[s].giveUp <= now
  <2> DEFINE c == [client[s] EXCEPT !.pc = "timeout"]
  <2>1. client' = [client EXCEPT ![s] = c]
    BY <1>3 DEF Wait
  <2>2. c \in ClientState
    BY <1>1 DEF ClientState, Ends
  <2>3. Keeps(c, client[s]) /\ c.pc = "timeout" /\ c.got = client[s].got /\ c.sent = client[s].sent
    BY <1>1 DEF ClientState, Keeps
  <2> HIDE DEF c
  <2>4. Typed' /\ Others(s) /\ client'[s] = c
    <3>1. Becomes(s, c)
      BY <1>2, <2>1, <2>2 DEF Becomes
    <3>2. QED
      BY <1>1, <1>2, <3>1, OnlyTheClient
  <2>5. ClientOK(s)' /\ JobOK(s)'
    BY <1>1, <1>2, <1>3, <2>3, <2>4 DEF ClientOK, JobOK, ErrorTrue, At, Keeps, Reading
  <2>6. ASSUME AnswerOK(s) PROVE AnswerOK(s)'
    <3> SUFFICES ASSUME answered[s] # None PROVE AnswerOK(s)'
      BY <1>2 DEF AnswerOK
    <3>1. /\ answered[s] <= now /\ expiry[s] >= answered[s] + ReplyTtl
          /\ client[s].failing = None => now < client[s].giveUp \/ answered[s] = now
      BY <1>1, <2>6 DEF AnswerOK
    <3>2. client[s].failing = None => answered[s] >= client[s].giveUp
      BY <1>1, <1>3, <3>1, NumbersAre
    <3>3. QED
      BY <1>2, <2>3, <2>4, <3>1, <3>2 DEF AnswerOK, Calling, Waiting, Keeps, Reading
  <2>7. QED
    BY <1>2, <2>4, <2>5, <2>6 DEF Kept
<1>4. CASE ~(client[s].giveUp <= now)
  <2> DEFINE c == [client[s] EXCEPT !.pc = "reading", !.sent = now, !.until = now + BlockAt(s, now)]
  <2>1. client' = [client EXCEPT ![s] = c]
    BY <1>4 DEF Wait
  <2>2. /\ now \in Nat /\ BlockAt(s, now) \in Nat /\ BlockAt(s, now) <= ReadTimeout
        /\ ReadTimeout \in Nat
    BY <1>1, BlockIs, NumbersAre
  <2>3. /\ now + BlockAt(s, now) \in Nat /\ now <= now + BlockAt(s, now)
        /\ now + BlockAt(s, now) <= now + ReadTimeout /\ now <= now + ReadTimeout /\ now <= now
    BY <2>2
  <2>4. c \in ClientState
    BY <1>1, <2>3 DEF ClientState
  <2>5. /\ c.pc = "reading" /\ c.until = now + BlockAt(s, now) /\ c.sent = now
        /\ c.giveUp = client[s].giveUp /\ c.failing = client[s].failing /\ c.good = client[s].good
        /\ c.got = client[s].got
    BY <1>1 DEF ClientState
  <2> HIDE DEF c
  <2>6. Typed' /\ Others(s) /\ client'[s] = c
    <3>1. Becomes(s, c)
      BY <1>2, <2>1, <2>4 DEF Becomes
    <3>2. QED
      BY <1>1, <1>2, <3>1, OnlyTheClient
  <2>7. now < client[s].giveUp
    BY <1>1, <1>4, NumbersAre
  <2>8. ClientOK(s)' /\ JobOK(s)'
    BY <1>1, <1>2, <2>3, <2>5, <2>6, <2>7 DEF ClientOK, JobOK, ErrorTrue, At, Reading
  <2>9. AnswerOK(s) => AnswerOK(s)'
    BY <1>1, <1>2, <2>5, <2>6 DEF AnswerOK, Calling, Waiting, Reading, LastPause
  <2>10. QED
    BY <1>2, <2>6, <2>8, <2>9 DEF Kept
<1>5. QED
  BY <1>3, <1>4

LEMMA ReadReplyKeeps == ASSUME ClientInv, NEW s \in Submitter, ReadReply(s) PROVE Kept(s)
<1> DEFINE c == [client[s] EXCEPT !.pc = "read", !.got = replies[s][Len(replies[s])]]
<1>1. /\ Typed /\ ClientOK(s) /\ JobOK(s) /\ client[s] \in ClientState
      /\ client[s].pc = "reading" /\ replies[s] # <<>> /\ replies[s] \in Seq(Nat)
      /\ finished[s] \in Nat /\ Runs(replies[s], finished[s])
  BY TypesAre, RepliesAre DEF ClientInv, ReadReply, At
<1>2. /\ client' = [client EXCEPT ![s] = c] /\ replies' = [replies EXCEPT ![s] = Rotated(replies[s])]
      /\ UNCHANGED <<now, entries, deadline, marker, expiry, cached, started, finished, appended,
                     answered, faults>>
  BY DEF ReadReply
<1>3. /\ Rotated(replies[s]) \in Seq(Nat) /\ Rotated(replies[s]) # <<>>
      /\ Runs(Rotated(replies[s]), finished[s])
      /\ replies[s][Len(replies[s])] \in 1 .. finished[s]
  BY <1>1, RotatedIs
<1>4. replies[s][Len(replies[s])] \in Int /\ replies[s][Len(replies[s])] # Nothing
  BY <1>1, <1>3 DEF Nothing
<1>5. c \in ClientState
  BY <1>1, <1>4 DEF ClientState
<1>6. c.pc = "read" /\ c.got # Nothing /\ Keeps(c, client[s]) /\ c.sent = client[s].sent
  BY <1>1, <1>4 DEF ClientState, Keeps
<1> HIDE DEF c
<1>7. /\ replies' \in [Submitter -> Seq(Nat)] /\ replies'[s] = Rotated(replies[s])
      /\ \A t \in Submitter : t # s => replies'[t] = replies[t]
  BY <1>1, <1>2, <1>3, TypesAre
<1>8. Typed' /\ Others(s) /\ client'[s] = c
  <2>1. Becomes(s, c)
    BY <1>2, <1>5 DEF Becomes
  <2>2. /\ cached' \in BOOLEAN /\ entries' \in [Submitter -> Nat] /\ appended' \in [Submitter -> Nat]
        /\ marker' \in [Submitter -> Nat] /\ deadline' \in [Submitter -> Nat]
        /\ Runs(replies'[s], finished[s])
    BY <1>1, <1>2, <1>3, <1>7, TypesAre
  <2>3. QED
    BY <1>1, <1>2, <1>7, <2>1, <2>2, CallTyped
<1>9. ClientOK(s)' /\ JobOK(s)'
  BY <1>1, <1>2, <1>6, <1>8 DEF ClientOK, JobOK, ErrorTrue, At, Keeps, Reading
<1>10. AnswerOK(s) => AnswerOK(s)'
  BY <1>1, <1>2, <1>3, <1>6, <1>7, <1>8 DEF AnswerOK, Calling, Waiting, Keeps, Reading, LastPause
<1>11. QED
  BY <1>2, <1>8, <1>9, <1>10 DEF Kept

LEMMA ReadNothingKeeps == ASSUME ClientInv, NEW s \in Submitter, ReadNothing(s) PROVE Kept(s)
<1> DEFINE c == [client[s] EXCEPT !.pc = "read", !.got = Nothing]
<1>1. /\ Typed /\ ClientOK(s) /\ JobOK(s) /\ client[s] \in ClientState
      /\ client[s].pc = "reading" /\ replies[s] = <<>>
  BY TypesAre DEF ClientInv, ReadNothing, At
<1>2. /\ client' = [client EXCEPT ![s] = c]
      /\ UNCHANGED <<now, entries, deadline, marker, cached, appended, replies, expiry, started,
                     finished, answered, faults>>
  BY DEF ReadNothing, server
<1>3. Nothing \in Int
  BY DEF Nothing
<1>4. c \in ClientState
  BY <1>1, <1>3 DEF ClientState
<1>5. c.pc = "read" /\ c.got = Nothing /\ Keeps(c, client[s]) /\ c.sent = client[s].sent
  BY <1>1 DEF ClientState, Keeps
<1> HIDE DEF c
<1>6. Typed' /\ Others(s) /\ client'[s] = c
  <2>1. Becomes(s, c)
    BY <1>2, <1>4 DEF Becomes
  <2>2. QED
    BY <1>1, <1>2, <2>1, OnlyTheClient
<1>7. ClientOK(s)' /\ JobOK(s)'
  BY <1>1, <1>2, <1>5, <1>6 DEF ClientOK, JobOK, ErrorTrue, At, Keeps, Reading
<1>8. ASSUME AnswerOK(s) PROVE AnswerOK(s)'
  <2>1. answered[s] = None
    BY <1>1, <1>8 DEF AnswerOK, Waiting
  <2>2. QED
    BY <1>2, <2>1 DEF AnswerOK
<1>9. QED
  BY <1>2, <1>6, <1>7, <1>8 DEF Kept

\* The connection of a read hangs, and the client may send the read again.
LEMMA HangKeeps == ASSUME ClientInv, NEW s \in Submitter, Hang(s) \/ ReadResent(s) PROVE Kept(s)
<1> DEFINE until == now + BlockAt(s, client[s].sent)
<1>1. /\ Typed /\ ClientOK(s) /\ JobOK(s) /\ client[s] \in ClientState /\ Reading(s)
  BY TypesAre DEF ClientInv, Hang, ReadResent, At, Reading
<1>2. /\ UNCHANGED <<now, entries, deadline, marker, cached, appended, replies, expiry, started,
                     finished, answered>>
      /\ faults' = faults \/ Fault
  BY DEF Hang, ReadResent, server
<1>3. ASSUME NEW c \in ClientState, client' = [client EXCEPT ![s] = c], c.pc \in {"hanging", "reading"},
             c.sent = client[s].sent, c.giveUp = client[s].giveUp, c.failing = client[s].failing,
             c.good = client[s].good,
             c.pc = "reading" => now <= c.until /\ c.until <= client[s].sent + ReadTimeout
      PROVE  Kept(s)
  <2>1. Typed' /\ Others(s) /\ client'[s] = c
    <3>1. Becomes(s, c)
      BY <1>2, <1>3 DEF Becomes
    <3>2. QED
      BY <1>1, <1>2, <3>1, OnlyTheClient
  <2>2. ClientOK(s)' /\ JobOK(s)'
    BY <1>1, <1>2, <1>3, <2>1 DEF ClientOK, JobOK, ErrorTrue, At, Reading
  <2>3. AnswerOK(s) => AnswerOK(s)'
    BY <1>1, <1>2, <1>3, <2>1 DEF AnswerOK, Calling, Waiting, Reading, LastPause
  <2>4. QED
    BY <1>2, <2>1, <2>2, <2>3 DEF Kept
<1>4. CASE Hang(s)
  <2> DEFINE c == [client[s] EXCEPT !.pc = "hanging", !.got = Nothing, !.until = 0]
  <2>1. client' = [client EXCEPT ![s] = c]
    BY <1>4 DEF Hang
  <2>2. Nothing \in Int
    BY DEF Nothing
  <2>3. c \in ClientState
    BY <1>1, <2>2 DEF ClientState
  <2>4. /\ c.pc = "hanging" /\ c.sent = client[s].sent /\ c.giveUp = client[s].giveUp
        /\ c.failing = client[s].failing /\ c.good = client[s].good
    BY <1>1 DEF ClientState
  <2> HIDE DEF c
  <2>5. QED
    BY <1>3, <2>1, <2>3, <2>4
<1>5. CASE ReadResent(s)
  <2> DEFINE c == [client[s] EXCEPT !.pc = "reading", !.until = until]
  <2>1. client' = [client EXCEPT ![s] = c] /\ until <= client[s].sent + ReadTimeout
    BY <1>5 DEF ReadResent
  <2>2. until \in Nat /\ now <= until
    <3>1. client[s].sent \in Nat /\ now \in Nat
      BY <1>1, NumbersAre
    <3>2. BlockAt(s, client[s].sent) \in Nat
      BY <1>1, <3>1, BlockIs
    <3>3. QED
      BY <3>1, <3>2
  <2> HIDE DEF until
  <2>3. c \in ClientState
    BY <1>1, <2>2 DEF ClientState
  <2>4. /\ c.pc = "reading" /\ c.sent = client[s].sent /\ c.giveUp = client[s].giveUp
        /\ c.failing = client[s].failing /\ c.good = client[s].good /\ c.until = until
    BY <1>1 DEF ClientState
  <2> HIDE DEF c
  <2>5. QED
    BY <1>3, <2>1, <2>2, <2>3, <2>4
<1>6. QED
  BY <1>4, <1>5

LEMMA ReadFailsKeeps == ASSUME ClientInv, NEW s \in Submitter, ReadFails(s) PROVE Kept(s)
<1> DEFINE since == FailingSince(s)
           failed == [client[s] EXCEPT !.sent = 0, !.failing = since]
<1>1. /\ Typed /\ ClientOK(s) /\ JobOK(s) /\ client[s] \in ClientState /\ now \in 0 .. Horizon
      /\ client[s].pc = "hanging" /\ 0 \in 0 .. Horizon
  BY TypesAre, Constants DEF ClientInv, ReadFails, At
<1>2. UNCHANGED <<now, entries, deadline, marker, cached, appended, replies, expiry, started,
                  finished, answered, faults>>
  BY DEF ReadFails, server
<1>3. /\ client[s].sent < client[s].giveUp /\ client[s].sent <= now
      /\ now <= client[s].sent + ReadTimeout
  BY <1>1 DEF ClientOK, Reading
<1>4. /\ since \in Nat /\ since <= now /\ since # None /\ client[s].good <= since
      /\ client[s].failing # None => since = client[s].failing
      /\ client[s].failing = None => since = now
  <2>1. /\ client[s].good <= now
        /\ client[s].failing # None => client[s].good <= client[s].failing /\ client[s].failing <= now
    BY <1>1 DEF ClientOK
  <2>2. QED
    BY <1>1, <2>1, NumbersAre DEF Least, FailingSince
<1>5. CASE now - since >= Budget
  <2> DEFINE c == [failed EXCEPT !.pc = "error"]
  <2>1. client' = [client EXCEPT ![s] = c]
    BY <1>5 DEF ReadFails
  <2> HIDE DEF since
  <2>2. c \in ClientState
    BY <1>1, <1>4 DEF ClientState, Ends
  <2>3. c.pc = "error" /\ c.failing = since /\ c.good = client[s].good
    BY <1>1 DEF ClientState
  <2> HIDE DEF c
  <2>4. Typed' /\ Others(s) /\ client'[s] = c
    <3>1. Becomes(s, c)
      BY <1>2, <2>1, <2>2 DEF Becomes
    <3>2. QED
      BY <1>1, <1>2, <3>1, OnlyTheClient
  <2>5. now >= client[s].good + Budget /\ client[s].good <= now
    BY <1>1, <1>4, <1>5, NumbersAre
  <2>6. ClientOK(s)' /\ JobOK(s)'
    BY <1>1, <1>2, <1>4, <2>3, <2>4, <2>5 DEF ClientOK, JobOK, ErrorTrue, At, Reading
  <2>7. AnswerOK(s) => AnswerOK(s)'
    BY <1>1, <1>2, <2>3, <2>4 DEF AnswerOK, Calling, Waiting, Reading
  <2>8. QED
    BY <1>2, <2>4, <2>6, <2>7 DEF Kept
<1>6. CASE ~(now - since >= Budget)
  <2> DEFINE c == [failed EXCEPT !.pc = "pause", !.until = PauseEnds(s)]
  <2>1. client' = [client EXCEPT ![s] = c]
    BY <1>6 DEF ReadFails
  <2> HIDE DEF since
  <2>2. /\ PauseEnds(s) \in Nat /\ now <= PauseEnds(s) /\ PauseEnds(s) <= now + Pause
        /\ PauseEnds(s) < client[s].giveUp + ReadTimeout
    <3>1. now \in Nat /\ Pause \in Nat /\ client[s].giveUp \in Nat /\ ReadTimeout \in Nat \ {0}
      BY <1>1, NumbersAre
    <3>2. now < client[s].giveUp + ReadTimeout
      BY <1>1, <1>3, NumbersAre
    <3>3. QED
      BY <3>1, <3>2 DEF Least, Most, PauseEnds
  <2>3. c \in ClientState
    BY <1>1, <1>4, <2>2 DEF ClientState
  <2>4. /\ c.pc = "pause" /\ c.failing = since /\ c.until = PauseEnds(s)
        /\ c.giveUp = client[s].giveUp /\ c.good = client[s].good
    BY <1>1 DEF ClientState
  <2> HIDE DEF c
  <2>5. Typed' /\ Others(s) /\ client'[s] = c
    <3>1. Becomes(s, c)
      BY <1>2, <2>1, <2>3 DEF Becomes
    <3>2. QED
      BY <1>1, <1>2, <3>1, OnlyTheClient
  <2>6. ClientOK(s)' /\ JobOK(s)'
    BY <1>1, <1>2, <1>4, <2>2, <2>4, <2>5 DEF ClientOK, JobOK, ErrorTrue, At, Reading
  <2>7. ASSUME AnswerOK(s) PROVE AnswerOK(s)'
    <3> SUFFICES ASSUME answered[s] # None PROVE AnswerOK(s)'
      BY <1>2 DEF AnswerOK
    <3>1. /\ answered[s] <= now /\ expiry[s] >= answered[s] + ReplyTtl /\ replies[s] # <<>>
          /\ client[s].failing = None => client[s].sent <= answered[s] + ResendDelay
          /\ client[s].failing # None => client[s].failing <= answered[s] + ResendDelay + ReadTimeout
      BY <1>1, <2>7 DEF AnswerOK, Waiting, Reading
    <3>2. since <= answered[s] + ResendDelay + ReadTimeout
      <4>1. CASE client[s].failing = None
        <5>1. client[s].sent <= answered[s] + ResendDelay
          BY <3>1, <4>1
        <5>2. QED
          BY <1>1, <1>3, <1>4, <5>1, NumbersAre, SMTT(30)
      <4>2. CASE client[s].failing # None
        <5>1. client[s].failing <= answered[s] + ResendDelay + ReadTimeout
          BY <3>1, <4>2
        <5>2. QED
          BY <1>1, <1>3, <1>4, <5>1, NumbersAre, SMTT(30)
      <4>3. QED
        BY <4>1, <4>2
    <3>3. PauseEnds(s) < LastPause(s)
      <4> DEFINE began == answered[s] + ResendDelay + ReadTimeout
      <4>1. /\ began \in Nat /\ since <= began /\ now \in Nat /\ Budget \in Nat /\ Pause \in Nat
            /\ PauseEnds(s) \in Nat
        BY <1>1, <2>2, <3>2, NumbersAre
      <4>2. LastPause(s) = began + Budget + Pause
        BY DEF LastPause
      <4> HIDE DEF began
      <4>3. now < began + Budget
        BY <1>4, <1>6, <4>1
      <4>4. QED
        BY <2>2, <4>1, <4>2, <4>3
    <3>4. LastPause(s)' = LastPause(s)
      BY <1>2 DEF LastPause
    <3>5. QED
      BY <1>2, <1>4, <2>4, <2>5, <3>1, <3>2, <3>3, <3>4 DEF AnswerOK, Calling, Waiting, Reading
  <2>8. QED
    BY <1>2, <2>5, <2>6, <2>7 DEF Kept
<1>7. QED
  BY <1>5, <1>6

LEMMA ReadRefusedKeeps == ASSUME ClientInv, NEW s \in Submitter, ReadRefused(s) PROVE Kept(s)
<1> DEFINE c == [Blank EXCEPT !.pc = "permanent"]
<1>1. Typed /\ ClientOK(s) /\ JobOK(s) /\ client[s].pc = "hanging" /\ now \in Nat
  BY TypesAre DEF ClientInv, ReadRefused, At
<1>2. /\ client' = [client EXCEPT ![s] = c]
      /\ UNCHANGED <<now, entries, deadline, marker, cached, appended, replies, expiry, started,
                     finished, answered, faults>>
  BY DEF ReadRefused, Over, server
<1>3. c \in ClientState /\ c.pc = "permanent" /\ c.failing = None /\ c.good = 0
  BY BlankIs DEF Ends
<1> HIDE DEF c
<1>4. Typed' /\ Others(s) /\ client'[s] = c
  <2>1. Becomes(s, c)
    BY <1>2, <1>3 DEF Becomes
  <2>2. QED
    BY <1>1, <1>2, <2>1, OnlyTheClient
<1>5. ClientOK(s)' /\ JobOK(s)'
  BY <1>1, <1>2, <1>3, <1>4 DEF ClientOK, JobOK, ErrorTrue, At, Reading
<1>6. AnswerOK(s) => AnswerOK(s)'
  BY <1>1, <1>2, <1>3, <1>4 DEF AnswerOK, Calling, Waiting, Reading
<1>7. QED
  BY <1>2, <1>4, <1>5, <1>6 DEF Kept

LEMMA ResumeKeeps == ASSUME ClientInv, NEW s \in Submitter, Resume(s) PROVE Kept(s)
<1> DEFINE c == [client[s] EXCEPT !.pc = "wait", !.until = 0]
<1>1. /\ Typed /\ ClientOK(s) /\ JobOK(s) /\ client[s] \in ClientState
      /\ client[s].pc = "pause" /\ now <= client[s].until
      /\ client[s].until < client[s].giveUp + ReadTimeout /\ client[s].failing # None
  BY TypesAre DEF ClientInv, Resume, At, ClientOK
<1>2. /\ client' = [client EXCEPT ![s] = c]
      /\ UNCHANGED <<now, entries, deadline, marker, cached, appended, replies, expiry, started,
                     finished, answered, faults>>
  BY DEF Resume, server
<1>3. c \in ClientState
  BY <1>1 DEF ClientState
<1>4. /\ c.pc = "wait" /\ c.giveUp = client[s].giveUp /\ c.failing = client[s].failing
      /\ c.good = client[s].good
  BY <1>1 DEF ClientState
<1> HIDE DEF c
<1>5. Typed' /\ Others(s) /\ client'[s] = c
  <2>1. Becomes(s, c)
    BY <1>2, <1>3 DEF Becomes
  <2>2. QED
    BY <1>1, <1>2, <2>1, OnlyTheClient
<1>6. ClientOK(s)' /\ JobOK(s)'
  <2>1. now < client[s].giveUp + ReadTimeout
    BY <1>1, NumbersAre
  <2>2. QED
    BY <1>1, <1>2, <1>4, <1>5, <2>1 DEF ClientOK, JobOK, ErrorTrue, At, Reading
<1>7. ASSUME AnswerOK(s) PROVE AnswerOK(s)'
  <2> SUFFICES ASSUME answered[s] # None PROVE AnswerOK(s)'
    BY <1>2 DEF AnswerOK
  <2>1. /\ answered[s] <= now /\ expiry[s] >= answered[s] + ReplyTtl /\ replies[s] # <<>>
        /\ client[s].failing <= answered[s] + ResendDelay + ReadTimeout
        /\ client[s].until < LastPause(s)
    BY <1>1, <1>7 DEF AnswerOK, Waiting
  <2>2. LastPause(s) \in Nat /\ LastPause(s)' = LastPause(s)
    BY <1>1, <1>2, NumbersAre, SMTT(30) DEF LastPause
  <2>3. now < LastPause(s)
    BY <1>1, <2>1, <2>2, NumbersAre
  <2>4. QED
    BY <1>1, <1>2, <1>4, <1>5, <2>1, <2>2, <2>3 DEF AnswerOK, Calling, Waiting, Reading
<1>8. QED
  BY <1>2, <1>5, <1>6, <1>7 DEF Kept

LEMMA ReadAgainKeeps == ASSUME ClientInv, NEW s \in Submitter, ReadAgain(s) PROVE Kept(s)
<1> DEFINE c == [client[s] EXCEPT !.pc = "wait", !.failing = StreakEnds(s), !.good = now,
                                  !.sent = 0, !.until = 0]
<1>1. /\ Typed /\ ClientOK(s) /\ JobOK(s) /\ client[s] \in ClientState /\ now \in 0 .. Horizon
      /\ client[s].pc = "read" /\ client[s].got = Nothing /\ 0 \in 0 .. Horizon
      /\ client[s].sent < client[s].giveUp /\ now <= client[s].sent + ReadTimeout
  <2>1. Typed /\ ClientOK(s) /\ JobOK(s) /\ client[s].pc = "read" /\ client[s].got = Nothing
    BY DEF ClientInv, ReadAgain, At
  <2>2. Reading(s)
    BY <2>1 DEF Reading, At
  <2>3. client[s].sent < client[s].giveUp /\ now <= client[s].sent + ReadTimeout
    BY <2>1, <2>2 DEF ClientOK
  <2>4. client[s] \in ClientState /\ now \in 0 .. Horizon /\ 0 \in 0 .. Horizon
    BY <2>1, TypesAre, Constants
  <2>5. QED
    BY <2>1, <2>3, <2>4
<1>2. /\ client' = [client EXCEPT ![s] = c]
      /\ UNCHANGED <<now, entries, deadline, marker, cached, appended, replies, expiry, started,
                     finished, answered, faults>>
  BY DEF ReadAgain, server
<1>3. c \in ClientState
  <2>1. StreakEnds(s) \in Nat
    BY Constants DEF StreakEnds
  <2>2. QED
    BY <1>1, <2>1 DEF ClientState
<1>4. c.pc = "wait" /\ c.giveUp = client[s].giveUp /\ c.failing = None /\ c.good = now
  BY <1>1 DEF ClientState, StreakEnds
<1> HIDE DEF c
<1>5. Typed' /\ Others(s) /\ client'[s] = c
  <2>1. Becomes(s, c)
    BY <1>2, <1>3 DEF Becomes
  <2>2. QED
    BY <1>1, <1>2, <2>1, OnlyTheClient
<1>6. ClientOK(s)' /\ JobOK(s)'
  <2>1. now <= now /\ now < client[s].giveUp + ReadTimeout
    BY <1>1, NumbersAre
  <2>2. QED
    BY <1>1, <1>2, <1>4, <1>5, <2>1 DEF ClientOK, JobOK, ErrorTrue, At, Reading
<1>7. ASSUME AnswerOK(s) PROVE AnswerOK(s)'
  <2> SUFFICES ASSUME answered[s] # None PROVE AnswerOK(s)'
    BY <1>2 DEF AnswerOK
  <2>1. /\ answered[s] = now /\ expiry[s] >= answered[s] + ReplyTtl /\ replies[s] # <<>>
    BY <1>1, <1>7 DEF AnswerOK, Waiting
  <2>2. answered[s] <= now /\ now <= answered[s] + ResendDelay /\ now < LastPause(s)
    BY <1>1, <2>1, NumbersAre, SMTT(30) DEF LastPause
  <2>3. LastPause(s)' = LastPause(s)
    BY <1>2 DEF LastPause
  <2>4. QED
    BY <1>1, <1>2, <1>4, <1>5, <2>1, <2>2, <2>3 DEF AnswerOK, Calling, Waiting, Reading
<1>8. QED
  BY <1>2, <1>5, <1>6, <1>7 DEF Kept

LEMMA ReturnKeeps == ASSUME ClientInv, NEW s \in Submitter, Return(s) PROVE Kept(s)
<1> DEFINE c == [Blank EXCEPT !.pc = "result"]
<1>1. /\ Typed /\ ClientOK(s) /\ JobOK(s) /\ now \in Nat /\ finished[s] \in Nat
      /\ replies \in [Submitter -> Seq(Nat)] /\ <<>> \in Seq(Nat)
  BY TypesAre DEF ClientInv
<1>2. /\ client' = [client EXCEPT ![s] = c]
      /\ replies' = [replies EXCEPT ![s] = <<>>] \/ replies' = replies
      /\ faults' = faults \/ Fault
      /\ UNCHANGED <<now, entries, deadline, marker, cached, appended, expiry, started, finished,
                     answered>>
  BY DEF Return, Over
<1>3. c \in ClientState
  BY BlankIs DEF Ends
<1>4. c.pc = "result" /\ c.failing = None /\ c.good = 0
  BY BlankIs DEF Ends
<1> HIDE DEF c
<1>5. /\ replies' \in [Submitter -> Seq(Nat)] /\ replies'[s] \in {<<>>, replies[s]}
      /\ \A t \in Submitter : t # s => replies'[t] = replies[t]
  <2>1. CASE replies' = [replies EXCEPT ![s] = <<>>]
    BY <1>1, <2>1
  <2>2. CASE replies' = replies
    BY <1>1, <2>2
  <2>3. QED
    BY <1>2, <2>1, <2>2
<1>6. Runs(replies'[s], finished[s])
  <2>1. Runs(<<>>, finished[s])
    <3>1. Len(<<>>) = 0 /\ 1 .. 0 = {}
      BY EmptySeq
    <3>2. QED
      BY <1>1, <3>1 DEF Runs
  <2>2. QED
    BY <1>1, <1>5, <2>1, RepliesAre
<1>7. Typed' /\ Others(s) /\ client'[s] = c
  <2>1. Becomes(s, c)
    BY <1>2, <1>3 DEF Becomes
  <2>2. /\ cached' \in BOOLEAN /\ entries' \in [Submitter -> Nat] /\ appended' \in [Submitter -> Nat]
        /\ marker' \in [Submitter -> Nat] /\ deadline' \in [Submitter -> Nat]
    BY <1>1, <1>2, TypesAre
  <2>3. QED
    BY <1>1, <1>2, <1>5, <1>6, <2>1, <2>2, CallTyped
<1>8. ClientOK(s)' /\ JobOK(s)'
  BY <1>1, <1>2, <1>4, <1>7 DEF ClientOK, JobOK, ErrorTrue, At, Reading
<1>9. AnswerOK(s) => AnswerOK(s)'
  <2>1. client[s].pc = "read"
    BY DEF Return, At
  <2>2. QED
    BY <1>2, <1>4, <1>7, <2>1 DEF AnswerOK, Calling, Waiting, Reading
<1>10. QED
  BY <1>2, <1>7, <1>8, <1>9 DEF Kept

\* The workers: a run begins, answers, or is not made any more.
LEMMA WorkKeeps ==
    ASSUME ClientInv, NEW s \in Submitter, Start(s) \/ Finish(s) \/ Drop(s)
    PROVE  Kept(s)
<1>1. /\ Typed /\ ClientOK(s) /\ JobOK(s) /\ now \in Nat /\ ReplyTtl \in Nat
      /\ entries \in [Submitter -> Nat] /\ started \in [Submitter -> Nat]
      /\ finished \in [Submitter -> Nat] /\ expiry \in [Submitter -> Nat]
      /\ answered \in [Submitter -> Nat] /\ replies \in [Submitter -> Seq(Nat)]
      /\ MaxRuns \in [Submitter -> Nat] /\ now < None
      /\ \A t \in Submitter : finished[t] <= started[t] /\ started[t] <= MaxRuns[t]
  BY TypesAre, Constants DEF ClientInv, Typed, TypeOK
<1>2. UNCHANGED <<now, marker, deadline, cached, client, appended, faults>>
  BY DEF Start, Finish, Drop
<1>3. /\ now' \in 0 .. Horizon /\ cached' \in BOOLEAN /\ faults' \in 0 .. MaxFaults
      /\ marker' \in [Submitter -> Nat] /\ appended' \in [Submitter -> Nat]
      /\ deadline' \in [Submitter -> Nat] /\ client' \in [Submitter -> ClientState]
  BY <1>1, <1>2, TypesAre
<1>4. ClientOK(s)'
  BY <1>1, <1>2 DEF ClientOK, ErrorTrue, At, Reading
<1>5. ASSUME entries' \in [Submitter -> Nat], started' \in [Submitter -> Nat],
             finished' \in [Submitter -> Nat], expiry' \in [Submitter -> Nat],
             answered' \in [Submitter -> Nat], replies' \in [Submitter -> Seq(Nat)],
             \A t \in Submitter : /\ finished'[t] <= started'[t] /\ started'[t] <= MaxRuns[t]
                                  /\ Runs(replies'[t], finished'[t])
      PROVE  Typed'
  <2>1. TypeOK'
    BY <1>3, <1>5 DEF TypeOK, Runs
  <2>2. QED
    BY <1>3, <1>5, <2>1 DEF Typed
<1>6. CASE Start(s)
  <2>1. /\ entries[s] > 0 /\ started[s] < MaxRuns[s]
        /\ started' = [started EXCEPT ![s] = started[s] + 1]
        /\ UNCHANGED <<entries, replies, expiry, finished, answered>>
    BY <1>6 DEF Start
  <2>2. /\ started' \in [Submitter -> Nat] /\ started'[s] = started[s] + 1
        /\ \A t \in Submitter : t # s => started'[t] = started[t]
    BY <1>1, <2>1
  <2>3. \A t \in Submitter : finished'[t] <= started'[t] /\ started'[t] <= MaxRuns[t]
    <3> SUFFICES ASSUME NEW t \in Submitter
                 PROVE  finished'[t] <= started'[t] /\ started'[t] <= MaxRuns[t]
      OBVIOUS
    <3>1. CASE t = s
      <4>1. started[s] \in Nat /\ finished[s] \in Nat /\ MaxRuns[s] \in Nat /\ finished[s] <= started[s]
        BY <1>1
      <4>2. QED
        BY <2>1, <2>2, <3>1, <4>1
    <3>2. CASE t # s
      BY <1>1, <2>1, <2>2, <3>2
    <3>3. QED
      BY <3>1, <3>2
  <2>4. Typed'
    BY <1>1, <1>5, <2>1, <2>2, <2>3, RepliesAre
  <2>5. Others(s)
    BY <1>2, <2>1, <2>2 DEF Others
  <2>6. JobOK(s)'
    BY <1>1, <1>2, <2>1 DEF JobOK
  <2>7. AnswerOK(s) => AnswerOK(s)'
    BY <1>2, <2>1 DEF AnswerOK, Calling, Waiting, Reading, LastPause
  <2>8. QED
    BY <1>2, <1>4, <2>4, <2>5, <2>6, <2>7 DEF Kept
<1>7. CASE Drop(s)
  <2>1. /\ entries' = [entries EXCEPT ![s] = entries[s] - 1] /\ entries[s] > 0
        /\ UNCHANGED <<started, replies, expiry, finished, answered>>
    BY <1>7 DEF Drop
  <2>2. entries[s] \in Nat /\ entries[s] - 1 \in Nat
    BY <1>1, <2>1
  <2>3. /\ entries' \in [Submitter -> Nat]
        /\ \A t \in Submitter : t # s => entries'[t] = entries[t]
    BY <1>1, <2>1, <2>2
  <2>4. Typed'
    BY <1>1, <1>5, <2>1, <2>3, RepliesAre
  <2>5. Others(s)
    BY <1>2, <2>1, <2>3 DEF Others
  <2>6. JobOK(s)'
    BY <1>1, <1>2, <2>1 DEF JobOK
  <2>7. AnswerOK(s) => AnswerOK(s)'
    BY <1>2, <2>1 DEF AnswerOK, Calling, Waiting, Reading, LastPause
  <2>8. QED
    BY <1>2, <1>4, <2>4, <2>5, <2>6, <2>7 DEF Kept
<1>8. CASE Finish(s)
  <2>1. /\ finished[s] < started[s] /\ started' = started
        /\ finished' = [finished EXCEPT ![s] = finished[s] + 1]
        /\ replies' = [replies EXCEPT ![s] = <<finished[s] + 1>> \o replies[s]]
        /\ expiry' = [expiry EXCEPT ![s] = now + ReplyTtl]
        /\ entries' = [entries EXCEPT ![s] = IF entries[s] = 0 THEN 0 ELSE entries[s] - 1]
        /\ answered' = [answered EXCEPT ![s] = Least(answered[s], now)]
    BY <1>8 DEF Finish
  <2>2. /\ finished[s] \in Nat /\ entries[s] \in Nat /\ answered[s] \in Nat /\ started[s] \in Nat
        /\ replies[s] \in Seq(Nat) /\ Runs(replies[s], finished[s]) /\ expiry[s] \in Nat
    BY <1>1, RepliesAre
  <2>3. /\ <<finished[s] + 1>> \o replies[s] \in Seq(Nat) /\ <<finished[s] + 1>> \o replies[s] # <<>>
        /\ Runs(<<finished[s] + 1>> \o replies[s], finished[s] + 1)
    BY <2>2, PushedIs
  <2>4. /\ (IF entries[s] = 0 THEN 0 ELSE entries[s] - 1) \in Nat /\ finished[s] + 1 \in Nat
        /\ Least(answered[s], now) \in Nat /\ now + ReplyTtl \in Nat
    BY <1>1, <2>2 DEF Least
  <2>5. /\ entries' \in [Submitter -> Nat] /\ finished' \in [Submitter -> Nat]
        /\ expiry' \in [Submitter -> Nat] /\ answered' \in [Submitter -> Nat]
        /\ replies' \in [Submitter -> Seq(Nat)] /\ started' \in [Submitter -> Nat]
    BY <1>1, <2>1, <2>3, <2>4
  <2>6. /\ entries'[s] = IF entries[s] = 0 THEN 0 ELSE entries[s] - 1
        /\ finished'[s] = finished[s] + 1 /\ expiry'[s] = now + ReplyTtl
        /\ answered'[s] = Least(answered[s], now)
        /\ replies'[s] = <<finished[s] + 1>> \o replies[s]
    BY <1>1, <2>1
  <2>7. \A t \in Submitter : t # s =>
            /\ entries'[t] = entries[t] /\ finished'[t] = finished[t] /\ expiry'[t] = expiry[t]
            /\ answered'[t] = answered[t] /\ replies'[t] = replies[t]
    BY <1>1, <2>1
  <2>8. \A t \in Submitter : /\ finished'[t] <= started'[t] /\ started'[t] <= MaxRuns[t]
                             /\ Runs(replies'[t], finished'[t])
    <3> SUFFICES ASSUME NEW t \in Submitter
                 PROVE  /\ finished'[t] <= started'[t] /\ started'[t] <= MaxRuns[t]
                        /\ Runs(replies'[t], finished'[t])
      OBVIOUS
    <3>1. CASE t = s
      <4>1. finished[s] + 1 <= started[s]
        BY <2>1, <2>2
      <4>2. QED
        BY <1>1, <2>1, <2>3, <2>6, <3>1, <4>1
    <3>2. CASE t # s
      BY <1>1, <2>1, <2>7, <3>2, RepliesAre
    <3>3. QED
      BY <3>1, <3>2
  <2>9. Typed'
    BY <1>5, <2>5, <2>8
  <2>10. Others(s)
    BY <1>2, <2>1, <2>7 DEF Others
  <2>11. started[s] # 0
    BY <2>1, <2>2
  <2>12. appended[s] # 0 /\ JobOK(s)'
    BY <1>1, <1>2, <2>11 DEF JobOK
  <2>13. ASSUME IInv, AnswerOK(s) PROVE AnswerOK(s)'
    <3>1. client[s].pc # "new"
      BY <2>12, <2>13 DEF IInv, CallOK
    <3>2. CASE answered[s] = None
      <4>1. answered'[s] = now
        BY <1>1, <2>2, <2>6, <3>2 DEF Least
      <4>2. Calling(s) => client[s].sent <= now
        BY <2>13 DEF IInv, CallOK
      <4>3. /\ client[s].failing # None => client[s].failing <= now
            /\ client[s].pc = "timeout" => client[s].giveUp <= now
            /\ client[s].pc = "pause" => client[s].until <= now + Pause
            /\ Reading(s) => client[s].sent <= now
        BY <1>1 DEF ClientOK
      <4>4. /\ now \in Nat /\ client[s].until \in Nat /\ client[s].failing \in Nat
            /\ client[s].giveUp \in Nat /\ Pause \in Nat \ {0} /\ Budget \in Nat
            /\ ResendDelay \in Nat /\ ReadTimeout \in Nat \ {0} /\ client[s].sent \in Nat
        BY <1>1, NumbersAre
      <4>5. LastPause(s)' = now + ResendDelay + ReadTimeout + Budget + Pause
        BY <4>1 DEF LastPause
      <4>6. now <= now + ResendDelay /\ now + Pause < LastPause(s)' /\ now < LastPause(s)'
        BY <4>4, <4>5
      <4>7. client[s].failing # None => client[s].failing <= now + ResendDelay + ReadTimeout
        BY <4>3, <4>4
      <4>8. client[s].pc = "timeout" => now >= client[s].giveUp
        BY <4>3, <4>4
      <4>9. /\ client[s].pc = "pause" => client[s].until < LastPause(s)'
            /\ Reading(s) => client[s].sent < LastPause(s)' /\ client[s].sent <= now + ResendDelay
        BY <4>3, <4>4, <4>5
      <4>10. /\ UNCHANGED <<now, client>> /\ answered'[s] = now /\ expiry'[s] = now + ReplyTtl
             /\ replies'[s] # <<>> /\ now + ReplyTtl >= now + ReplyTtl /\ now <= now
        BY <1>1, <1>2, <2>3, <2>6, <4>1, Constants
      <4>11. QED
        BY <3>1, <4>2, <4>6, <4>7, <4>8, <4>9, <4>10 DEF AnswerOK, Calling, Waiting, Reading
    <3>3. CASE answered[s] # None
      <4>1. answered[s] <= now /\ answered'[s] = answered[s]
        BY <1>1, <2>2, <2>6, <2>13, <3>3 DEF Least, AnswerOK
      <4>2. expiry'[s] >= answered[s] + ReplyTtl
        BY <1>1, <2>2, <2>6, <4>1
      <4>3. QED
        BY <1>2, <2>3, <2>6, <2>13, <3>3, <4>1, <4>2 DEF AnswerOK, Calling, Waiting, Reading, LastPause
    <3>4. QED
      BY <3>2, <3>3
  <2>14. QED
    BY <1>2, <1>4, <2>9, <2>10, <2>12, <2>13 DEF Kept
<1>9. QED
  BY <1>6, <1>7, <1>8

\* Redis forgets the script.
LEMMA FlushKeeps ==
    ASSUME ClientInv, Flush
    PROVE  /\ ClientInv'
           /\ IInv /\ (\A s \in Submitter : AnswerOK(s)) => \A s \in Submitter : AnswerOK(s)'
<1>1. /\ Typed /\ (\A s \in Submitter : ClientOK(s) /\ JobOK(s)) /\ MaxFaults \in Nat
      /\ faults \in 0 .. MaxFaults
  BY TypesAre, Constants DEF ClientInv
<1>2. /\ UNCHANGED <<now, entries, deadline, marker, replies, expiry, started, finished, client,
                     appended, answered>>
      /\ cached' = FALSE /\ Fault
  BY DEF Flush
<1>3. cached' \in BOOLEAN
  BY <1>2, Zenon
<1>4. faults' \in 0 .. MaxFaults
  BY <1>1, <1>2 DEF Fault
<1>5. Typed'
  BY <1>1, <1>2, <1>3, <1>4 DEF Typed, TypeOK
<1>6. \A s \in Submitter : ClientOK(s)' /\ JobOK(s)'
  BY <1>1, <1>2 DEF ClientOK, JobOK, ErrorTrue, At, Reading
<1>7. ASSUME NEW s \in Submitter, AnswerOK(s) PROVE AnswerOK(s)'
  BY <1>2, <1>7 DEF AnswerOK, Calling, Waiting, Reading, LastPause
<1>8. QED
  BY <1>5, <1>6, <1>7 DEF ClientInv

\* Time passes beside a submitter that waits for it.
LEMMA TickKeeps ==
    ASSUME ClientInv, Tick
    PROVE  /\ ClientInv'
           /\ AnswersInTime /\ IInv /\ (\A s \in Submitter : AnswerOK(s))
                  => \A s \in Submitter : AnswerOK(s)'
<1>1. /\ Typed /\ (\A s \in Submitter : ClientOK(s) /\ JobOK(s)) /\ Horizon \in Nat
      /\ now \in 0 .. Horizon /\ now \in Nat
      /\ marker \in [Submitter -> Nat] /\ replies \in [Submitter -> Seq(Nat)]
      /\ finished \in [Submitter -> Nat] /\ <<>> \in Seq(Nat)
  BY TypesAre, Constants DEF ClientInv
<1>2. /\ UNCHANGED <<entries, deadline, expiry, cached, started, finished, client, appended,
                     answered, faults>>
      /\ now < Horizon /\ now' = now + 1 /\ \A s \in Submitter : ~Prompt(s)
      /\ marker' = [s \in Submitter |-> IF marker[s] <= now' THEN 0 ELSE marker[s]]
      /\ replies' = [s \in Submitter |-> IF expiry[s] <= now' THEN <<>> ELSE replies[s]]
  BY DEF Tick
<1>3. /\ marker' \in [Submitter -> Nat] /\ replies' \in [Submitter -> Seq(Nat)]
      /\ now' \in 0 .. Horizon
  BY <1>1, <1>2
<1>4. Typed'
  <2>1. ASSUME NEW s \in Submitter PROVE Runs(replies'[s], finished'[s])
    <3>1. Runs(<<>>, finished[s])
      <4>1. Len(<<>>) = 0 /\ 1 .. 0 = {}
        BY EmptySeq
      <4>2. QED
        BY <1>1, <4>1 DEF Runs
    <3>2. QED
      BY <1>1, <1>2, <3>1, RepliesAre
  <2>2. TypeOK'
    BY <1>1, <1>2, <1>3, <2>1 DEF Typed, TypeOK, Runs
  <2>3. QED
    BY <1>1, <1>2, <1>3, <2>2 DEF Typed
<1>5. ASSUME NEW s \in Submitter
      PROVE  /\ client[s].pc \notin {"wait", "read"} /\ client'[s] = client[s]
             /\ client[s].pc \in {"evalsha", "eval", "reply"} => now < client[s].sent + ResendDelay
             /\ client[s].pc = "reading" => replies[s] = <<>>
             /\ client[s].pc \in {"reading", "pause"} => now + 1 <= client[s].until
             /\ client[s].pc = "hanging" => now + 1 <= client[s].sent + ReadTimeout
  <2>1. ~Prompt(s) /\ client'[s] = client[s]
    BY <1>2
  <2>2. /\ now \in Nat /\ client[s].sent \in Nat /\ client[s].until \in Nat /\ ResendDelay \in Nat
        /\ ReadTimeout \in Nat
    BY <1>1, NumbersAre
  <2>3. ~(now >= client[s].until) => now + 1 <= client[s].until
    BY <2>2
  <2>4. ~(now >= client[s].sent + ResendDelay) => now < client[s].sent + ResendDelay
    BY <2>2
  <2>5. ~(now >= client[s].sent + ReadTimeout) => now + 1 <= client[s].sent + ReadTimeout
    BY <2>2
  <2>6. QED
    BY <2>1, <2>3, <2>4, <2>5 DEF Prompt, At
<1>6. ASSUME NEW s \in Submitter PROVE ClientOK(s)' /\ JobOK(s)'
  <2> DEFINE c == client[s]
  <2>1. /\ ClientOK(s) /\ JobOK(s) /\ client'[s] = c /\ now' = now + 1
        /\ c.good \in Nat /\ c.failing \in Nat /\ c.until \in Nat /\ c.sent \in Nat
        /\ c.giveUp \in Nat /\ Pause \in Nat /\ Budget \in Nat /\ ReadTimeout \in Nat
    BY <1>1, <1>2, NumbersAre
  <2>2. /\ c.pc \in {"new", "evalsha", "eval", "reply"} => c.failing = None
        /\ c.good <= now
        /\ c.failing # None => c.good <= c.failing /\ c.failing <= now
        /\ Reading(s) => c.sent < c.giveUp /\ c.sent <= now
        /\ c.pc = "reading" => c.until <= c.sent + ReadTimeout
        /\ c.pc = "pause" => /\ c.failing # None /\ c.until <= now + Pause
                             /\ c.until < c.giveUp + ReadTimeout
        /\ c.pc = "timeout" => c.giveUp <= now
        /\ ErrorTrue(s)
    BY <2>1 DEF ClientOK
  <2>3. /\ c.pc \notin {"wait", "read"}
        /\ c.pc \in {"reading", "pause"} => now + 1 <= c.until
        /\ c.pc = "hanging" => now + 1 <= c.sent + ReadTimeout
    BY <1>5
  <2>4. ErrorTrue(s)'
    <3>1. now >= c.good + Budget => now + 1 >= c.good + Budget
      BY <1>1, <2>1
    <3>2. QED
      BY <2>1, <2>2, <3>1 DEF ErrorTrue, At
  <2>5. Reading(s) => c.sent <= now + 1 /\ now + 1 <= c.sent + ReadTimeout
    <3>1. CASE c.pc = "reading"
      BY <1>1, <2>1, <2>2, <2>3, <3>1, SMTT(30) DEF Reading
    <3>2. CASE c.pc = "hanging"
      BY <1>1, <2>1, <2>2, <2>3, <3>2 DEF Reading
    <3>3. QED
      BY <2>3, <3>1, <3>2 DEF Reading
  <2>6. /\ c.good <= now + 1
        /\ c.failing # None => c.failing <= now + 1
        /\ c.pc = "pause" => c.until <= (now + 1) + Pause
        /\ c.pc = "timeout" => c.giveUp <= now + 1
    <3>1. now \in Nat
      BY <1>1
    <3> HIDE DEF c
    <3>2. QED
      BY <2>1, <2>2, <3>1
  <2>7. Reading(s)' <=> Reading(s)
    BY <2>1 DEF Reading
  <2>8. ClientOK(s)'
    BY <2>1, <2>2, <2>3, <2>4, <2>5, <2>6, <2>7 DEF ClientOK
  <2>9. QED
    BY <1>2, <2>1, <2>8 DEF JobOK
<1>7. ASSUME AnswersInTime, IInv, NEW s \in Submitter, AnswerOK(s) PROVE AnswerOK(s)'
  <2> SUFFICES ASSUME answered[s] # None PROVE AnswerOK(s)'
    BY <1>2 DEF AnswerOK
  <2>1. /\ answered[s] <= now /\ expiry[s] >= answered[s] + ReplyTtl /\ client[s].pc # "new"
        /\ Calling(s) => client[s].sent <= answered[s]
        /\ Calling(s) \/ Waiting(s) => replies[s] # <<>>
        /\ Waiting(s) /\ client[s].failing # None
               => client[s].failing <= answered[s] + ResendDelay + ReadTimeout
        /\ Reading(s) => client[s].sent < LastPause(s)
        /\ Reading(s) /\ client[s].failing = None => client[s].sent <= answered[s] + ResendDelay
        /\ client[s].pc = "pause" => client[s].until < LastPause(s)
        /\ client[s].pc = "timeout" /\ client[s].failing = None => answered[s] >= client[s].giveUp
    BY <1>7 DEF AnswerOK
  <2>2. Waiting(s) => client[s].pc \in {"hanging", "pause"}
    BY <1>5, <2>1 DEF Waiting
  <2>3. /\ now' = now + 1 /\ answered'[s] = answered[s] /\ expiry'[s] = expiry[s]
        /\ client'[s] = client[s] /\ answered[s] \in Nat /\ expiry[s] \in Nat
        /\ client[s].sent \in Nat /\ client[s].until \in Nat
        /\ ReplyTtl \in Nat /\ Pause \in Nat \ {0} /\ Budget \in Nat /\ ResendDelay \in Nat
        /\ ReadTimeout \in Nat \ {0} /\ now \in Nat
    BY <1>1, <1>2, NumbersAre
  <2>4. LastPause(s) \in Nat /\ LastPause(s) + ReadTimeout <= expiry[s] /\ LastPause(s)' = LastPause(s)
    <3>1. ResendDelay + ReadTimeout + Budget + Pause + ReadTimeout <= ReplyTtl
      BY <1>7 DEF AnswersInTime
    <3>2. expiry[s] >= answered[s] + ReplyTtl
      BY <2>1
    <3>3. QED
      BY <2>3, <3>1, <3>2 DEF LastPause
  <2>5. Calling(s) \/ Waiting(s) => replies'[s] # <<>>
    <3> SUFFICES ASSUME Calling(s) \/ Waiting(s) PROVE ~(expiry[s] <= now + 1)
      BY <1>2, <2>1, <2>3
    <3>1. CASE Calling(s)
      <4>1. now < client[s].sent + ResendDelay /\ client[s].sent <= answered[s]
        BY <1>5, <2>1, <3>1 DEF Calling
      <4>2. now + 1 <= answered[s] + ResendDelay
        BY <2>3, <4>1
      <4>3. answered[s] + ResendDelay < LastPause(s)
        BY <2>3 DEF LastPause
      <4>4. QED
        BY <2>3, <2>4, <4>2, <4>3
    <3>2. CASE client[s].pc = "pause"
      <4>1. now + 1 <= client[s].until /\ client[s].until < LastPause(s)
        BY <1>5, <2>1, <3>2
      <4>2. QED
        BY <2>3, <2>4, <4>1
    <3>3. CASE client[s].pc = "hanging"
      <4>1. now + 1 <= client[s].sent + ReadTimeout /\ client[s].sent < LastPause(s)
        BY <1>5, <2>1, <3>3 DEF Reading
      <4>2. QED
        BY <2>3, <2>4, <4>1
    <3>4. QED
      BY <2>2, <3>1, <3>2, <3>3
  <2>6. answered[s] <= now + 1
    BY <2>1, <2>3
  <2>7. QED
    BY <1>5, <2>1, <2>3, <2>4, <2>5, <2>6 DEF AnswerOK, Calling, Waiting, Reading
<1>8. QED
  BY <1>4, <1>6, <1>7 DEF ClientInv

-----------------------------------------------------------------------------
(* The theorems.                                                             *)

\* A step of one submitter, or of the workers on its job.
LEMMA StepKept ==
    ASSUME ClientInv, NEW s \in Submitter,
           Call(s) \/ LoseAnswer(s) \/ Hang(s) \/ Start(s) \/ Finish(s) \/ Drop(s)
    PROVE  Kept(s)
BY ScriptKeeps, EnqueuedKeeps, WaitKeeps, ReadReplyKeeps, ReadNothingKeeps, HangKeeps,
   ReadFailsKeeps, ReadRefusedKeeps, ResumeKeeps, ReadAgainKeeps, ReturnKeeps, WorkKeeps DEF Call

LEMMA ClientStep == ClientInv /\ [Next]_vars => ClientInv'
<1> SUFFICES ASSUME ClientInv, [Next]_vars PROVE ClientInv'
  OBVIOUS
<1>1. ASSUME NEW s \in Submitter, Kept(s) PROVE ClientInv'
  BY <1>1, OthersKeep DEF Kept, ClientInv
<1>2. CASE UNCHANGED vars
  <2>1. Typed'
    BY <1>2 DEF ClientInv, vars, server, Typed, TypeOK
  <2>2. \A s \in Submitter : ClientOK(s)' /\ JobOK(s)'
    BY <1>2 DEF ClientInv, vars, server, ClientOK, JobOK, ErrorTrue, At, Reading
  <2>3. QED
    BY <2>1, <2>2 DEF ClientInv
<1>3. QED
  BY <1>1, <1>2, StepKept, FlushKeeps, TickKeeps DEF Next

LEMMA ClientInvariant == Spec => []ClientInv
BY InitTyped, ClientStep, PTL DEF Spec

\* submit() and the workers keep to the types, and to the bounds of the runs: a reply
\* list holds answers of runs that have ended, whatever is read, added or deleted.
THEOREM TypeCorrect == Spec => []TypeOK
<1>1. ClientInv => TypeOK
  BY DEF ClientInv, Typed
<1>2. QED
  BY <1>1, ClientInvariant, PTL

LEMMA AnswerStep == ASSUME AnswersInTime PROVE AnswerInv /\ [Next]_vars => AnswerInv'
<1> SUFFICES ASSUME AnswerInv, [Next]_vars PROVE AnswerInv'
  OBVIOUS
<1>1. ResendsInTime
  BY Constants, SMTT(30) DEF AnswersInTime, ResendsInTime
<1>2. IInv /\ IInv' /\ ClientInv /\ ClientInv' /\ \A s \in Submitter : AnswerOK(s)
  BY <1>1, StepInvariant, ClientStep DEF AnswerInv
<1>3. ASSUME NEW s \in Submitter, Kept(s) PROVE \A t \in Submitter : AnswerOK(t)'
  BY <1>2, <1>3, OthersKeep DEF Kept
<1>4. ASSUME UNCHANGED vars, NEW s \in Submitter PROVE AnswerOK(s)'
  <2>1. UNCHANGED <<now, client, replies, expiry, answered>>
    BY <1>4 DEF vars, server
  <2>2. AnswerOK(s)
    BY <1>2
  <2>3. QED
    BY <2>1, <2>2 DEF AnswerOK, Calling, Waiting, Reading, LastPause
<1>5. \A s \in Submitter : AnswerOK(s)'
  <2>1. CASE Flush
    BY <1>2, <2>1, FlushKeeps
  <2>2. CASE Tick
    BY <1>2, <2>2, TickKeeps
  <2>3. ASSUME NEW s \in Submitter,
               Call(s) \/ LoseAnswer(s) \/ Hang(s) \/ Start(s) \/ Finish(s) \/ Drop(s)
        PROVE  \A t \in Submitter : AnswerOK(t)'
    <3>1. Kept(s)
      BY <1>2, <2>3, StepKept
    <3>2. QED
      BY <1>3, <3>1
  <2>4. QED
    BY <1>4, <2>1, <2>2, <2>3 DEF Next
<1>6. QED
  BY <1>2, <1>5 DEF AnswerInv

LEMMA AnswerInvariant == ASSUME AnswersInTime PROVE Spec => []AnswerInv
<1>1. Init => AnswerInv
  <2> SUFFICES ASSUME Init PROVE AnswerInv
    OBVIOUS
  <2>1. \A s \in Submitter : answered[s] = None
    BY DEF Init, Never
  <2>2. QED
    BY <2>1, InitInvariant, InitTyped DEF AnswerInv, AnswerOK
<1>2. QED
  BY <1>1, AnswerStep, PTL DEF Spec

\* The answer of a job stays in its list until the submitter has returned: BLMOVE does
\* not take it out, and its expiry lies beyond the resends of the call and the errors
\* that the submitter rides out.
THEOREM AnswersKept == ASSUME AnswersInTime PROVE Spec => []AnswerKept
<1>1. AnswerInv => AnswerKept
  BY DEF AnswerInv, AnswerKept, AnswerOK
<1>2. QED
  BY <1>1, AnswerInvariant, PTL

\* A submitter gives up less than one read after its timeout; it reports a timeout only
\* when no answer was there in time, or the last thing it saw was an error, and a
\* transient error only when nothing has succeeded for the whole budget.
THEOREM SubmitsEndHonestly == ASSUME AnswersInTime PROVE Spec => []EndsHonestly
<1>1. AnswerInv => EndsHonestly
  <2> SUFFICES ASSUME AnswerInv, NEW s \in Submitter
               PROVE  EndsOnTime(s) /\ TimeoutTrue(s) /\ ErrorTrue(s)
    BY DEF EndsHonestly
  <2>1. Typed /\ ClientOK(s) /\ AnswerOK(s)
    BY DEF AnswerInv, ClientInv
  <2>2. EndsOnTime(s)
    <3>1. Waiting(s) /\ ~Reading(s) => client[s].pc \in {"wait", "pause"}
      BY DEF Waiting, Reading
    <3>2. /\ Reading(s) => client[s].sent < client[s].giveUp /\ now <= client[s].sent + ReadTimeout
          /\ client[s].pc = "wait" => now < client[s].giveUp + ReadTimeout
          /\ client[s].pc = "pause" =>
                 now <= client[s].until /\ client[s].until < client[s].giveUp + ReadTimeout
      BY <2>1 DEF ClientOK
    <3>3. QED
      BY <2>1, <3>1, <3>2, NumbersAre DEF EndsOnTime
  <2>3. TimeoutTrue(s)
    <3> SUFFICES ASSUME client[s].pc = "timeout", client[s].failing = None
                 PROVE  answered[s] >= client[s].giveUp
      BY DEF TimeoutTrue, At
    <3>1. CASE answered[s] = None
      BY <2>1, <3>1, NumbersAre DEF ClientOK
    <3>2. CASE answered[s] # None
      BY <2>1, <3>2 DEF AnswerOK
    <3>3. QED
      BY <3>1, <3>2
  <2>4. QED
    BY <2>1, <2>2, <2>3 DEF ClientOK
<1>2. QED
  BY <1>1, AnswerInvariant, PTL
=============================================================================
