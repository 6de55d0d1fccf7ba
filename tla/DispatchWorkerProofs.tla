------------------------- MODULE DispatchWorkerProofs -------------------------
(* What holds of the workers of a queue, however many there are and however *)
(* many jobs, faults and requeues: a worker never starts a job it runs or   *)
(* has answered, what is handed back stays reclaimable, no job is forgotten *)
(* while consumers with pending entries are not deleted, and no two workers *)
(* run one job while the touch loops keep up.  BaseInv holds always, LeadInv*)
(* while leases do not lapse, OwnInv while no touch loop stalls.            *)
EXTENDS DispatchWorker, FiniteSetTheorems, TLAPS

-----------------------------------------------------------------------------
(* The invariants.                                                           *)

\* The entries a worker has to do with: it touches them, or a command about them is
\* under way.
Held(w) == taken[w] \cup touching[w] \cup returning[w] \cup lead[w].inbox \cup lead[w].giving

Typed == StateOK /\ lead \in [Worker -> LeadState]

\* What is pending is an entry of the stream, what is answered is none.
QueueOK ==
    /\ \A e \in Job : owner[e] # Nobody => e \in queue /\ e <= delivered
    /\ \A e \in idle : owner[e] # Nobody
    /\ \A e \in Job : answers[e] # {} => owner[e] = Nobody /\ e \notin queue /\ e <= delivered

\* The places between a copy of _taken and the answer that is compared with it.
Asking == {"scan", "scanned", "prune", "pruned", "own", "owned"}

\* Those of them at which the answer is there.
Comparing == {"scanned", "prune", "pruned", "owned"}

\* The leading task has nothing in hand that its worker runs, or has answered.
LeadOK(w) ==
    LET l == lead[w] IN
    /\ l.batch \subseteq taken[w]
    /\ \A e \in l.batch : stage[w][e] = "none" /\ w \notin answers[e]
    /\ l.pc \in Asking => \A e \in Job : stage[w][e] # "none" => e \in l.snap
    /\ l.pc \in Comparing => \A e \in l.inbox \ l.snap : w \notin answers[e]
    /\ l.pc = "answer" => \A e \in l.inbox : stage[w][e] = "none" /\ w \notin answers[e]
    /\ l.pc \in {"wait", "ack", "del"} => l.cur \in Job /\ l.cur <= delivered
    /\ l.pc \in {"ack", "del"} => l.cur \in late
    /\ l.pc = "del" => owner[l.cur] = Nobody
    /\ l.pc = "prune" => Prunes

WorkerOK(w) ==
    /\ \A e \in Held(w) : e <= delivered
    /\ \A e \in Job : stage[w][e] # "none" => e \in taken[w]
    /\ LeadOK(w)
    /\ life[w] = "down" => Held(w) = {} /\ lead[w].pc = "off" /\ ~lead[w].believes

BaseInv == Typed /\ QueueOK /\ \A w \in Worker : WorkerOK(w)

-----------------------------------------------------------------------------
(* Types, and what a step of one worker may change.                          *)

LEMMA Constants ==
    /\ MaxJobs \in Nat /\ MaxFaults \in Nat /\ MaxRequeues \in Nat /\ Job \subseteq Nat
    /\ Mortal \subseteq Job /\ Nobody \notin Worker
    /\ {} \in SUBSET Job /\ 0 \in 0 .. MaxJobs /\ Job \subseteq 0 .. MaxJobs
BY WorkerAssumption, BoundAssumption, ChoiceAssumption DEF Job

LEMMA TypesAre ==
    ASSUME Typed
    PROVE  /\ added \in 0 .. MaxJobs /\ added \in Nat /\ delivered \in 0 .. added /\ delivered \in Nat
           /\ queue \subseteq 1 .. added /\ queue \subseteq Job
           /\ idle \subseteq queue /\ idle \subseteq Job /\ late \subseteq Mortal
           /\ owner \in [Job -> Worker \cup {Nobody}] /\ answers \in [Job -> SUBSET Worker]
           /\ leader \in Worker \cup {Nobody}
           /\ life \in [Worker -> {"up", "stopping", "down"}] /\ lead \in [Worker -> LeadState]
           /\ taken \in [Worker -> SUBSET Job] /\ touching \in [Worker -> SUBSET Job]
           /\ returning \in [Worker -> SUBSET Job] /\ admitted \in [Worker -> SUBSET Job]
           /\ stage \in [Worker -> [Job -> Stages]]
           /\ faults \in 0 .. MaxFaults /\ requeues \in 0 .. MaxRequeues
<1>1. /\ added \in 0 .. MaxJobs /\ delivered \in 0 .. added /\ queue \subseteq 1 .. added
      /\ idle \subseteq queue
  BY DEF Typed, StateOK
<1>2. added \in Nat /\ delivered \in Nat /\ 1 .. added \subseteq Job
  BY <1>1, Constants DEF Job
<1>3. QED
  BY <1>1, <1>2 DEF Typed, StateOK

\* A set of jobs has a first one.
LEMMA FirstIs ==
    ASSUME NEW es \in SUBSET Job, es # {}
    PROVE  First(es) \in es /\ \A f \in es : First(es) <= f
<1> DEFINE T == {1 .. e : e \in es}
<1>1. es \subseteq Int
  BY DEF Job
<1>2. T \subseteq FiniteSubsetsOf(Int) /\ T # {}
  <2>1. ASSUME NEW e \in es PROVE 1 .. e \in FiniteSubsetsOf(Int)
    <3>1. IsFiniteSet(1 .. e) /\ 1 .. e \subseteq Int
      BY <1>1, FS_Interval
    <3>2. QED
      BY <3>1 DEF FiniteSubsetsOf
  <2>2. QED
    BY <2>1
<1>3. PICK x \in T : \A y \in T : <<y, x>> \notin StrictSubsetOrdering(Int)
  BY <1>2, FS_StrictSubsetOrderingWellFounded, WFMin
<1>4. PICK e \in es : x = 1 .. e
  BY <1>3
<1>5. ASSUME NEW f \in es PROVE e <= f
  <2> SUFFICES ASSUME f < e PROVE FALSE
    BY <1>1
  <2>1. 1 .. f \in T /\ <<1 .. f, x>> \notin StrictSubsetOrdering(Int)
    BY <1>3
  <2>2. 1 .. f \subseteq 1 .. e /\ e \in 1 .. e /\ e \notin 1 .. f
    BY <1>1 DEF Job
  <2>3. <<1 .. f, x>> \in StrictSubsetOrdering(Int)
    BY <1>1, <1>4, <2>2 DEF StrictSubsetOrdering
  <2>4. QED
    BY <2>1, <2>3
<1>6. QED
  BY <1>4, <1>5 DEF First

\* The other workers do not notice.
Others(w) ==
    \A v \in Worker \ {w} :
        /\ lead'[v] = lead[v] /\ life'[v] = life[v] /\ stage'[v] = stage[v]
        /\ taken'[v] = taken[v] /\ touching'[v] = touching[v]
        /\ returning'[v] = returning[v] /\ admitted'[v] = admitted[v]

\* What no step takes back, and no step of another worker than w does.
Onward(w) ==
    /\ delivered <= delivered' /\ late \subseteq late'
    /\ \A e \in Job : owner[e] = Nobody /\ e <= delivered => owner'[e] = Nobody
    /\ \A e \in Job : answers'[e] \subseteq answers[e] \cup {w}

Kept(w) == Typed' /\ QueueOK' /\ Others(w) /\ Onward(w) /\ WorkerOK(w)'

\* A step keeps the workers it does not concern.
LEMMA OthersKeep ==
    ASSUME BaseInv, NEW w \in Worker \cup {Nobody}, Onward(w), Typed',
           NEW v \in Worker, v # w,
           lead'[v] = lead[v], life'[v] = life[v], stage'[v] = stage[v],
           taken'[v] = taken[v], touching'[v] = touching[v], returning'[v] = returning[v]
    PROVE  WorkerOK(v)'
<1>1. WorkerOK(v) /\ delivered \in Nat /\ lead[v] \in LeadState /\ Job \subseteq Nat
  BY TypesAre, Constants DEF BaseInv
<1>2. Held(v)' = Held(v) /\ Held(v) \subseteq Job
  BY <1>1, TypesAre DEF Held, LeadState, BaseInv
<1>3. delivered' \in Nat
  BY TypesAre DEF Typed, StateOK
<1>4. \A e \in Held(v)' : e <= delivered'
  <2>1. delivered <= delivered' /\ \A e \in Held(v) : e \in Nat /\ e <= delivered
    BY <1>1, <1>2 DEF WorkerOK, Onward
  <2>2. QED
    BY <1>1, <1>2, <1>3, <2>1
<1>5. LeadOK(v)'
  <2>1. /\ \A e \in lead[v].batch : e \in Job /\ v \notin answers'[e]
        /\ lead[v].pc \in Comparing => \A e \in lead[v].inbox \ lead[v].snap : v \notin answers'[e]
        /\ lead[v].pc = "answer" => \A e \in lead[v].inbox : v \notin answers'[e]
    <3>1. lead[v].batch \subseteq Job /\ lead[v].inbox \subseteq Job
      BY <1>1 DEF LeadState
    <3>2. \A e \in Job : v \notin answers[e] => v \notin answers'[e]
      BY DEF Onward
    <3>3. QED
      BY <1>1, <3>1, <3>2 DEF WorkerOK, LeadOK
  <2>2. /\ lead[v].pc \in {"wait", "ack", "del"} => lead[v].cur \in Job /\ lead[v].cur <= delivered'
        /\ lead[v].pc \in {"ack", "del"} => lead[v].cur \in late'
        /\ lead[v].pc = "del" => owner'[lead[v].cur] = Nobody
    <3>1. delivered <= delivered' /\ late \subseteq late'
      BY DEF Onward
    <3>2. /\ lead[v].pc \in {"wait", "ack", "del"} => lead[v].cur \in Job /\ lead[v].cur <= delivered
          /\ lead[v].pc \in {"ack", "del"} => lead[v].cur \in late
          /\ lead[v].pc = "del" => owner[lead[v].cur] = Nobody
      BY <1>1 DEF WorkerOK, LeadOK
    <3>3. lead[v].pc = "del" => owner'[lead[v].cur] = Nobody
      BY <3>2 DEF Onward
    <3>4. ASSUME NEW e \in Job, e <= delivered PROVE e <= delivered'
      BY <1>1, <1>3, <3>1, <3>4
    <3>5. QED
      BY <3>1, <3>2, <3>3, <3>4
  <2>3. QED
    BY <1>1, <2>1, <2>2 DEF WorkerOK, LeadOK
<1>6. QED
  BY <1>1, <1>2, <1>4, <1>5 DEF WorkerOK

LEMMA KeptIsEnough == ASSUME BaseInv, NEW w \in Worker, Kept(w) PROVE BaseInv'
<1>1. ASSUME NEW v \in Worker PROVE WorkerOK(v)'
  BY OthersKeep DEF Kept, Others
<1>2. QED
  BY <1>1 DEF BaseInv, Kept

\* The state of the leading task of w after a step, but for due and victim.
Moves(w, pc, believes, snap, inbox, batch, cur, giving) ==
    /\ lead' \in [Worker -> LeadState]
    /\ \A v \in Worker \ {w} : lead'[v] = lead[v]
    /\ lead'[w].pc = pc /\ lead'[w].believes = believes
    /\ lead'[w].snap = snap /\ lead'[w].inbox = inbox /\ lead'[w].batch = batch
    /\ lead'[w].cur = cur /\ lead'[w].giving = giving

\* A fault within the budget.
LEMMA FaultTyped ==
    ASSUME Typed, faults' = faults \/ (faults < MaxFaults /\ faults' = faults + 1)
    PROVE  faults' \in 0 .. MaxFaults
BY TypesAre, Constants

\* A step that leaves the queue alone.
Quiet == UNCHANGED <<added, queue, delivered, owner, idle, late, answers>>

LEMMA QuietKept ==
    ASSUME BaseInv, NEW w \in Worker, Quiet, Others(w), WorkerOK(w)',
           leader' \in Worker \cup {Nobody}, lead' \in [Worker -> LeadState],
           life' \in [Worker -> {"up", "stopping", "down"}],
           taken' \in [Worker -> SUBSET Job], touching' \in [Worker -> SUBSET Job],
           returning' \in [Worker -> SUBSET Job], admitted' \in [Worker -> SUBSET Job],
           stage' \in [Worker -> [Job -> Stages]],
           faults' \in 0 .. MaxFaults, requeues' \in 0 .. MaxRequeues
    PROVE  Kept(w)
<1>1. Typed /\ QueueOK /\ delivered \in Nat /\ \A e \in Job : answers[e] \subseteq Worker
  BY TypesAre DEF BaseInv
<1>2. Typed'
  BY <1>1 DEF Typed, StateOK, Quiet
<1>3. QueueOK' /\ Onward(w)
  BY <1>1 DEF QueueOK, Onward, Quiet
<1>4. QED
  BY <1>2, <1>3 DEF Kept

-----------------------------------------------------------------------------
(* Steps of the leading task alone.                                          *)

\* Nothing but the state of leading tasks changes at the workers.
Same == UNCHANGED <<life, taken, touching, stage, returning, admitted>>

LEMMA SameTyped ==
    ASSUME Typed, Same
    PROVE  /\ life' \in [Worker -> {"up", "stopping", "down"}]
           /\ taken' \in [Worker -> SUBSET Job] /\ touching' \in [Worker -> SUBSET Job]
           /\ returning' \in [Worker -> SUBSET Job] /\ admitted' \in [Worker -> SUBSET Job]
           /\ stage' \in [Worker -> [Job -> Stages]]
BY TypesAre DEF Same

-----------------------------------------------------------------------------
(* What each step does to the leading task.                                  *)

LEMMA BatchMoves ==
    ASSUME Typed, NEW w \in Worker, NEW es \in SUBSET Job, NEW elsewhere \in Places,
           NEW snap \in SUBSET Job, Batch(w, es, elsewhere, snap)
    PROVE  /\ taken' = [taken EXCEPT ![w] = @ \cup es]
           /\ es # {} => Moves(w, "batch", lead[w].believes, {}, {}, es, lead[w].cur, lead[w].giving)
           /\ es = {} => Moves(w, elsewhere, lead[w].believes, snap, {}, {}, lead[w].cur, lead[w].giving)
<1> DEFINE r == [lead[w] EXCEPT !.pc = IF es # {} THEN "batch" ELSE elsewhere, !.batch = es,
                                !.inbox = {}, !.snap = IF es # {} THEN {} ELSE snap]
<1>1. lead \in [Worker -> LeadState] /\ lead[w] \in LeadState /\ {} \in SUBSET Job
  BY TypesAre, Constants
<1>2. r \in LeadState
  BY <1>1 DEF LeadState, Places
<1>3. /\ r.pc = (IF es # {} THEN "batch" ELSE elsewhere) /\ r.believes = lead[w].believes
      /\ r.snap = (IF es # {} THEN {} ELSE snap) /\ r.inbox = {} /\ r.batch = es
      /\ r.cur = lead[w].cur /\ r.giving = lead[w].giving
  BY <1>1 DEF LeadState
<1>4. taken' = [taken EXCEPT ![w] = @ \cup es] /\ lead' = [lead EXCEPT ![w] = r]
  BY <1>1 DEF Batch
<1> HIDE DEF r
<1>5. QED
  BY <1>1, <1>2, <1>3, <1>4 DEF Moves

LEMMA HandingBackMoves ==
    ASSUME Typed, NEW w \in Worker, NEW e \in Job, HandingBack(w, e)
    PROVE  /\ taken' = [taken EXCEPT ![w] = @ \ {e}]
           /\ Moves(w, "give", lead[w].believes, lead[w].snap, lead[w].inbox, lead[w].batch \ {e}, 0, {e})
<1> DEFINE r == [lead[w] EXCEPT !.pc = "give", !.batch = @ \ {e}, !.cur = 0, !.giving = {e}]
<1>1. lead \in [Worker -> LeadState] /\ lead[w] \in LeadState /\ 0 \in 0 .. MaxJobs
  BY TypesAre, Constants
<1>2. r \in LeadState
  BY <1>1 DEF LeadState, Places
<1>3. /\ r.pc = "give" /\ r.believes = lead[w].believes /\ r.snap = lead[w].snap
      /\ r.inbox = lead[w].inbox /\ r.batch = lead[w].batch \ {e} /\ r.cur = 0 /\ r.giving = {e}
  BY <1>1 DEF LeadState
<1>4. taken' = [taken EXCEPT ![w] = @ \ {e}] /\ lead' = [lead EXCEPT ![w] = r]
  BY <1>1 DEF HandingBack, Forget
<1> HIDE DEF r
<1>5. QED
  BY <1>1, <1>2, <1>3, <1>4 DEF Moves

LEMMA LeaveLoopMoves ==
    ASSUME Typed, NEW w \in Worker, LeaveLoop(w)
    PROVE  /\ lead[w].pc = "loop"
           /\ UNCHANGED <<added, queue, delivered, owner, idle, late, answers, leader, life,
                  taken, touching, stage, returning, admitted, faults, requeues>>
           /\ Moves(w, "release", lead[w].believes, lead[w].snap, lead[w].inbox, lead[w].batch, lead[w].cur, lead[w].giving)
<1>1. /\ lead \in [Worker -> LeadState] /\ lead[w] \in LeadState
      /\ taken \in [Worker -> SUBSET Job] /\ lead[w].batch \subseteq Job
      /\ {} \in SUBSET Job /\ 0 \in 0 .. MaxJobs /\ Job \subseteq 0 .. MaxJobs
  BY TypesAre, Constants DEF LeadState
<1>2. /\ lead[w].pc = "loop"
      /\ UNCHANGED <<added, queue, delivered, owner, idle, late, answers, leader, life,
             taken, touching, stage, returning, admitted, faults, requeues>>
  BY <1>1 DEF LeaveLoop, At, Leads, server, stream, pending, handlers, NoFault
<1>3. lead' \in [Worker -> LeadState]
  BY <1>1 DEF LeaveLoop, LeadState, Places
<1>4. QED
  BY <1>1, <1>2, <1>3 DEF LeaveLoop, At, LeadState, Moves

LEMMA TurnMoves ==
    ASSUME Typed, NEW w \in Worker, Turn(w)
    PROVE  /\ lead[w].pc = "loop"
           /\ UNCHANGED <<added, queue, delivered, owner, idle, late, answers, leader, life,
                  taken, touching, stage, returning, admitted, faults, requeues>>
           /\ IF lead[w].due THEN Moves(w, "scan", lead[w].believes, taken[w], lead[w].inbox, lead[w].batch, lead[w].cur, lead[w].giving)
              ELSE Moves(w, "read", lead[w].believes, lead[w].snap, lead[w].inbox, lead[w].batch, lead[w].cur, lead[w].giving)
<1>1. /\ lead \in [Worker -> LeadState] /\ lead[w] \in LeadState
      /\ taken \in [Worker -> SUBSET Job] /\ lead[w].batch \subseteq Job
      /\ {} \in SUBSET Job /\ 0 \in 0 .. MaxJobs /\ Job \subseteq 0 .. MaxJobs
  BY TypesAre, Constants DEF LeadState
<1>2. /\ lead[w].pc = "loop"
      /\ UNCHANGED <<added, queue, delivered, owner, idle, late, answers, leader, life,
             taken, touching, stage, returning, admitted, faults, requeues>>
  BY <1>1 DEF Turn, At, Leads, server, stream, pending, handlers, NoFault
<1>3. lead' \in [Worker -> LeadState]
  BY <1>1 DEF Turn, LeadState, Places
<1>4. QED
  BY <1>1, <1>2, <1>3 DEF Turn, At, LeadState, Moves

LEMMA ReclaimTimerMoves ==
    ASSUME Typed, NEW w \in Worker, ReclaimTimer(w)
    PROVE  /\ lead[w].pc = "loop"
           /\ UNCHANGED <<added, queue, delivered, owner, idle, late, answers, leader, life,
                  taken, touching, stage, returning, admitted, faults, requeues>>
           /\ Moves(w, lead[w].pc, lead[w].believes, lead[w].snap, lead[w].inbox, lead[w].batch, lead[w].cur, lead[w].giving)
<1>1. /\ lead \in [Worker -> LeadState] /\ lead[w] \in LeadState
      /\ taken \in [Worker -> SUBSET Job] /\ lead[w].batch \subseteq Job
      /\ {} \in SUBSET Job /\ 0 \in 0 .. MaxJobs /\ Job \subseteq 0 .. MaxJobs
  BY TypesAre, Constants DEF LeadState
<1>2. /\ lead[w].pc = "loop"
      /\ UNCHANGED <<added, queue, delivered, owner, idle, late, answers, leader, life,
             taken, touching, stage, returning, admitted, faults, requeues>>
  BY <1>1 DEF ReclaimTimer, At, Leads, server, stream, pending, handlers, NoFault
<1>3. lead' \in [Worker -> LeadState]
  BY <1>1 DEF ReclaimTimer, LeadState, Places
<1>4. QED
  BY <1>1, <1>2, <1>3 DEF ReclaimTimer, At, LeadState, Moves

LEMMA LearnLossMoves ==
    ASSUME Typed, NEW w \in Worker, LearnLoss(w)
    PROVE  /\ lead[w].believes
           /\ UNCHANGED <<added, queue, delivered, owner, idle, late, answers, leader, life,
                  taken, touching, stage, returning, admitted, faults, requeues>>
           /\ leader # w
           /\ Moves(w, lead[w].pc, FALSE, lead[w].snap, lead[w].inbox, lead[w].batch, lead[w].cur, lead[w].giving)
<1>1. /\ lead \in [Worker -> LeadState] /\ lead[w] \in LeadState
      /\ taken \in [Worker -> SUBSET Job] /\ lead[w].batch \subseteq Job
      /\ {} \in SUBSET Job /\ 0 \in 0 .. MaxJobs /\ Job \subseteq 0 .. MaxJobs
  BY TypesAre, Constants DEF LeadState
<1>2. /\ lead[w].believes
      /\ UNCHANGED <<added, queue, delivered, owner, idle, late, answers, leader, life,
             taken, touching, stage, returning, admitted, faults, requeues>>
      /\ leader # w
  BY <1>1 DEF LearnLoss, At, Leads, server, stream, pending, handlers, NoFault
<1>3. lead' \in [Worker -> LeadState]
  BY <1>1 DEF LearnLoss, LeadState, Places
<1>4. QED
  BY <1>1, <1>2, <1>3 DEF LearnLoss, At, LeadState, Moves

LEMMA BatchDoneMoves ==
    ASSUME Typed, NEW w \in Worker, BatchDone(w)
    PROVE  /\ lead[w].pc = "batch"
           /\ UNCHANGED <<added, queue, delivered, owner, idle, late, answers, leader, life,
                  taken, touching, stage, returning, admitted, faults, requeues>>
           /\ Moves(w, "loop", lead[w].believes, lead[w].snap, lead[w].inbox, lead[w].batch, lead[w].cur, lead[w].giving)
<1>1. /\ lead \in [Worker -> LeadState] /\ lead[w] \in LeadState
      /\ taken \in [Worker -> SUBSET Job] /\ lead[w].batch \subseteq Job
      /\ {} \in SUBSET Job /\ 0 \in 0 .. MaxJobs /\ Job \subseteq 0 .. MaxJobs
  BY TypesAre, Constants DEF LeadState
<1>2. /\ lead[w].pc = "batch"
      /\ UNCHANGED <<added, queue, delivered, owner, idle, late, answers, leader, life,
             taken, touching, stage, returning, admitted, faults, requeues>>
  BY <1>1 DEF BatchDone, At, Leads, server, stream, pending, handlers, NoFault
<1>3. lead' \in [Worker -> LeadState]
  BY <1>1 DEF BatchDone, LeadState, Places
<1>4. QED
  BY <1>1, <1>2, <1>3 DEF BatchDone, At, LeadState, Moves

LEMMA MoveOnMoves ==
    ASSUME Typed, NEW w \in Worker, MoveOn(w)
    PROVE  /\ lead[w].pc = "wait"
           /\ UNCHANGED <<added, queue, delivered, owner, idle, late, answers, leader, life,
                  taken, touching, stage, returning, admitted, faults, requeues>>
           /\ Settled(w)
           /\ Moves(w, "batch", lead[w].believes, lead[w].snap, lead[w].inbox, lead[w].batch, 0, lead[w].giving)
<1>1. /\ lead \in [Worker -> LeadState] /\ lead[w] \in LeadState
      /\ taken \in [Worker -> SUBSET Job] /\ lead[w].batch \subseteq Job
      /\ {} \in SUBSET Job /\ 0 \in 0 .. MaxJobs /\ Job \subseteq 0 .. MaxJobs
  BY TypesAre, Constants DEF LeadState
<1>2. /\ lead[w].pc = "wait"
      /\ UNCHANGED <<added, queue, delivered, owner, idle, late, answers, leader, life,
             taken, touching, stage, returning, admitted, faults, requeues>>
      /\ Settled(w)
  BY <1>1 DEF MoveOn, At, Leads, server, stream, pending, handlers, NoFault
<1>3. lead' \in [Worker -> LeadState]
  BY <1>1 DEF MoveOn, LeadState, Places
<1>4. QED
  BY <1>1, <1>2, <1>3 DEF MoveOn, At, LeadState, Moves

LEMMA InspectMoves ==
    ASSUME Typed, NEW w \in Worker, Inspect(w)
    PROVE  /\ lead[w].pc = "scanned" /\ Prunes
           /\ UNCHANGED <<added, queue, delivered, owner, idle, late, answers, leader, life,
                  taken, touching, stage, returning, admitted, faults, requeues>>
           /\ Moves(w, "prune", lead[w].believes, lead[w].snap, lead[w].inbox, lead[w].batch, lead[w].cur, lead[w].giving)
<1>1. /\ lead \in [Worker -> LeadState] /\ lead[w] \in LeadState
      /\ taken \in [Worker -> SUBSET Job] /\ lead[w].batch \subseteq Job
      /\ {} \in SUBSET Job /\ 0 \in 0 .. MaxJobs /\ Job \subseteq 0 .. MaxJobs
  BY TypesAre, Constants DEF LeadState
<1>2. /\ lead[w].pc = "scanned" /\ Prunes
      /\ UNCHANGED <<added, queue, delivered, owner, idle, late, answers, leader, life,
             taken, touching, stage, returning, admitted, faults, requeues>>
  BY <1>1 DEF Inspect, At, Leads, server, stream, pending, handlers, NoFault
<1>3. PICK v \in Worker : lead' = [lead EXCEPT ![w].pc = "prune", ![w].victim = v]
  BY DEF Inspect
<1>4. lead' \in [Worker -> LeadState]
  BY <1>1, <1>3 DEF LeadState, Places
<1>5. QED
  BY <1>1, <1>2, <1>3, <1>4 DEF LeadState, Moves

LEMMA ElectMoves ==
    ASSUME Typed, NEW w \in Worker, Elect(w)
    PROVE  /\ lead[w].pc = "off" /\ life[w] = "up" /\ leader = Nobody
           /\ UNCHANGED <<added, queue, delivered, owner, idle, late, answers, life, taken,
                  touching, stage, returning, admitted, faults, requeues>>
           /\ leader' = w
           /\ Moves(w, "loop", TRUE, lead[w].snap, lead[w].inbox, lead[w].batch, lead[w].cur, lead[w].giving)
<1>1. /\ lead \in [Worker -> LeadState] /\ lead[w] \in LeadState
      /\ taken \in [Worker -> SUBSET Job] /\ lead[w].batch \subseteq Job
      /\ {} \in SUBSET Job /\ 0 \in 0 .. MaxJobs /\ Job \subseteq 0 .. MaxJobs
  BY TypesAre, Constants DEF LeadState
<1>2. /\ lead[w].pc = "off" /\ life[w] = "up" /\ leader = Nobody
      /\ UNCHANGED <<added, queue, delivered, owner, idle, late, answers, life, taken,
             touching, stage, returning, admitted, faults, requeues>>
      /\ leader' = w
  BY <1>1 DEF Elect, At, Leads, server, stream, pending, handlers, NoFault, ReclaimsFirst
<1>3. lead' \in [Worker -> LeadState]
  BY <1>1 DEF Elect, LeadState, Places, ReclaimsFirst
<1>4. QED
  BY <1>1, <1>2, <1>3 DEF Elect, At, LeadState, Moves, ReclaimsFirst

LEMMA ReleaseMoves ==
    ASSUME Typed, NEW w \in Worker, Release(w)
    PROVE  /\ lead[w].pc = "release"
           /\ UNCHANGED <<added, queue, delivered, owner, idle, late, answers, life, taken,
                  touching, stage, returning, admitted, requeues>>
           /\ leader' \in {leader, Nobody} /\ faults' \in 0 .. MaxFaults
           /\ Moves(w, "off", FALSE, {}, {}, {}, 0, {})
<1>1. /\ lead \in [Worker -> LeadState] /\ lead[w] \in LeadState
      /\ taken \in [Worker -> SUBSET Job] /\ lead[w].batch \subseteq Job
      /\ {} \in SUBSET Job /\ 0 \in 0 .. MaxJobs /\ Job \subseteq 0 .. MaxJobs
      /\ faults \in 0 .. MaxFaults /\ MaxFaults \in Nat
  BY TypesAre, Constants DEF LeadState
<1>2. /\ lead[w].pc = "release"
      /\ UNCHANGED <<added, queue, delivered, owner, idle, late, answers, life, taken,
             touching, stage, returning, admitted, requeues>>
      /\ leader' \in {leader, Nobody} /\ faults' \in 0 .. MaxFaults
  BY <1>1 DEF Release, At, Leads, server, stream, pending, handlers, NoFault, Idle, Fault
<1>3. lead' \in [Worker -> LeadState]
  BY <1>1 DEF Release, LeadState, Places, Idle, Fault
<1>4. QED
  BY <1>1, <1>2, <1>3 DEF Release, At, LeadState, Moves, Idle, Fault

LEMMA ReclaimedMoves ==
    ASSUME Typed, NEW w \in Worker, Reclaimed(w)
    PROVE  /\ lead[w].pc \in {"scanned", "pruned"}
           /\ UNCHANGED <<added, queue, delivered, owner, idle, late, answers, leader, life,
                  touching, stage, returning, admitted, faults, requeues>>
           /\ taken' = [taken EXCEPT ![w] = @ \cup (lead[w].inbox \ lead[w].snap)]
           /\ IF lead[w].inbox \ lead[w].snap # {}
              THEN Moves(w, "batch", lead[w].believes, {}, {}, lead[w].inbox \ lead[w].snap, lead[w].cur, lead[w].giving)
              ELSE Moves(w, "own", lead[w].believes, taken[w], {}, {}, lead[w].cur, lead[w].giving)
<1>1. /\ lead \in [Worker -> LeadState] /\ lead[w] \in LeadState
      /\ taken \in [Worker -> SUBSET Job] /\ lead[w].batch \subseteq Job
      /\ {} \in SUBSET Job /\ 0 \in 0 .. MaxJobs /\ Job \subseteq 0 .. MaxJobs
  BY TypesAre, Constants DEF LeadState
<1>2. /\ lead[w].pc \in {"scanned", "pruned"}
      /\ UNCHANGED <<added, queue, delivered, owner, idle, late, answers, leader, life,
             touching, stage, returning, admitted, faults, requeues>>
      /\ taken' = [taken EXCEPT ![w] = @ \cup (lead[w].inbox \ lead[w].snap)]
  BY <1>1 DEF Reclaimed, At, Leads, server, stream, pending, handlers, NoFault, Batch, News
<1>3. QED
  BY <1>1, <1>2, BatchMoves, ZenonT(30) DEF Reclaimed, News, Places, LeadState

LEMMA BacklogMoves ==
    ASSUME Typed, NEW w \in Worker, Backlog(w)
    PROVE  /\ lead[w].pc = "owned"
           /\ UNCHANGED <<added, queue, delivered, owner, idle, late, answers, leader, life,
                  touching, stage, returning, admitted, faults, requeues>>
           /\ taken' = [taken EXCEPT ![w] = @ \cup (lead[w].inbox \ lead[w].snap)]
           /\ IF lead[w].inbox \ lead[w].snap # {}
              THEN Moves(w, "batch", lead[w].believes, {}, {}, lead[w].inbox \ lead[w].snap, lead[w].cur, lead[w].giving)
              ELSE Moves(w, "read", lead[w].believes, {}, {}, {}, lead[w].cur, lead[w].giving)
<1>1. /\ lead \in [Worker -> LeadState] /\ lead[w] \in LeadState
      /\ taken \in [Worker -> SUBSET Job] /\ lead[w].batch \subseteq Job
      /\ {} \in SUBSET Job /\ 0 \in 0 .. MaxJobs /\ Job \subseteq 0 .. MaxJobs
  BY TypesAre, Constants DEF LeadState
<1>2. /\ lead[w].pc = "owned"
      /\ UNCHANGED <<added, queue, delivered, owner, idle, late, answers, leader, life,
             touching, stage, returning, admitted, faults, requeues>>
      /\ taken' = [taken EXCEPT ![w] = @ \cup (lead[w].inbox \ lead[w].snap)]
  BY <1>1 DEF Backlog, At, Leads, server, stream, pending, handlers, NoFault, Batch, News
<1>3. QED
  BY <1>1, <1>2, BatchMoves DEF Backlog, News, Places, LeadState

LEMMA ReceivedMoves ==
    ASSUME Typed, NEW w \in Worker, Received(w)
    PROVE  /\ lead[w].pc = "answer"
           /\ UNCHANGED <<added, queue, delivered, owner, idle, late, answers, leader, life,
                  touching, stage, returning, admitted, faults, requeues>>
           /\ taken' = [taken EXCEPT ![w] = @ \cup (lead[w].inbox)]
           /\ IF lead[w].inbox # {}
              THEN Moves(w, "batch", lead[w].believes, {}, {}, lead[w].inbox, lead[w].cur, lead[w].giving)
              ELSE Moves(w, "loop", lead[w].believes, {}, {}, {}, lead[w].cur, lead[w].giving)
<1>1. /\ lead \in [Worker -> LeadState] /\ lead[w] \in LeadState
      /\ taken \in [Worker -> SUBSET Job] /\ lead[w].batch \subseteq Job
      /\ {} \in SUBSET Job /\ 0 \in 0 .. MaxJobs /\ Job \subseteq 0 .. MaxJobs
  BY TypesAre, Constants DEF LeadState
<1>2. /\ lead[w].pc = "answer"
      /\ UNCHANGED <<added, queue, delivered, owner, idle, late, answers, leader, life,
             touching, stage, returning, admitted, faults, requeues>>
      /\ taken' = [taken EXCEPT ![w] = @ \cup (lead[w].inbox)]
  BY <1>1 DEF Received, At, Leads, server, stream, pending, handlers, NoFault, Batch, News
<1>3. QED
  BY <1>1, <1>2, BatchMoves DEF Received, News, Places, LeadState

LEMMA DropLateMoves ==
    ASSUME Typed, NEW w \in Worker, NEW e \in Job, DropLate(w, e)
    PROVE  /\ lead[w].pc = "batch" /\ NextIs(w, e) /\ e \in late
           /\ UNCHANGED <<added, queue, delivered, owner, idle, late, answers, leader, life,
                  touching, stage, returning, admitted, faults, requeues>>
           /\ taken' = [taken EXCEPT ![w] = @ \ {e}]
           /\ Moves(w, "ack", lead[w].believes, lead[w].snap, lead[w].inbox, lead[w].batch \ {e}, e, lead[w].giving)
<1>1. /\ lead \in [Worker -> LeadState] /\ lead[w] \in LeadState
      /\ taken \in [Worker -> SUBSET Job] /\ lead[w].batch \subseteq Job
      /\ {} \in SUBSET Job /\ 0 \in 0 .. MaxJobs /\ Job \subseteq 0 .. MaxJobs
  BY TypesAre, Constants DEF LeadState
<1>2. /\ lead[w].pc = "batch" /\ NextIs(w, e) /\ e \in late
      /\ UNCHANGED <<added, queue, delivered, owner, idle, late, answers, leader, life,
             touching, stage, returning, admitted, faults, requeues>>
      /\ taken' = [taken EXCEPT ![w] = @ \ {e}]
  BY <1>1 DEF DropLate, At, Leads, server, stream, pending, handlers, NoFault, Forget, NextIs
<1>3. lead' \in [Worker -> LeadState]
  BY <1>1, ZenonT(30) DEF DropLate, LeadState, Places, Forget, NextIs
<1>4. QED
  BY <1>1, <1>2, <1>3 DEF DropLate, At, LeadState, Moves, Forget, NextIs

LEMMA StartMoves ==
    ASSUME Typed, NEW w \in Worker, NEW e \in Job, Start(w, e)
    PROVE  /\ lead[w].pc = "batch" /\ NextIs(w, e)
           /\ UNCHANGED <<added, queue, delivered, owner, idle, late, answers, leader, life,
                  taken, touching, returning, admitted, faults, requeues>>
           /\ stage' = [stage EXCEPT ![w][e] = "run"]
           /\ Moves(w, "wait", lead[w].believes, lead[w].snap, lead[w].inbox, lead[w].batch \ {e}, e, lead[w].giving)
<1>1. /\ lead \in [Worker -> LeadState] /\ lead[w] \in LeadState
      /\ taken \in [Worker -> SUBSET Job] /\ lead[w].batch \subseteq Job
      /\ {} \in SUBSET Job /\ 0 \in 0 .. MaxJobs /\ Job \subseteq 0 .. MaxJobs
  BY TypesAre, Constants DEF LeadState
<1>2. /\ lead[w].pc = "batch" /\ NextIs(w, e)
      /\ UNCHANGED <<added, queue, delivered, owner, idle, late, answers, leader, life,
             taken, touching, returning, admitted, faults, requeues>>
      /\ stage' = [stage EXCEPT ![w][e] = "run"]
  BY <1>1 DEF Start, At, Leads, server, stream, pending, handlers, NoFault, NextIs
<1>3. lead' \in [Worker -> LeadState]
  BY <1>1, ZenonT(30) DEF Start, LeadState, Places, NextIs
<1>4. QED
  BY <1>1, <1>2, <1>3 DEF Start, At, LeadState, Moves, NextIs

LEMMA NotStartedMoves ==
    ASSUME Typed, NEW w \in Worker, NEW e \in Job, NotStarted(w, e)
    PROVE  /\ lead[w].pc = "batch" /\ NextIs(w, e)
           /\ UNCHANGED <<added, queue, delivered, owner, idle, late, answers, leader, life,
                  touching, stage, returning, admitted, faults, requeues>>
           /\ taken' = [taken EXCEPT ![w] = @ \ {e}]
           /\ Moves(w, "give", lead[w].believes, lead[w].snap, lead[w].inbox, lead[w].batch \ {e}, 0, {e})
<1>1. /\ lead \in [Worker -> LeadState] /\ lead[w] \in LeadState
      /\ taken \in [Worker -> SUBSET Job] /\ lead[w].batch \subseteq Job
      /\ {} \in SUBSET Job /\ 0 \in 0 .. MaxJobs /\ Job \subseteq 0 .. MaxJobs
  BY TypesAre, Constants DEF LeadState
<1>2. /\ lead[w].pc = "batch" /\ NextIs(w, e)
      /\ UNCHANGED <<added, queue, delivered, owner, idle, late, answers, leader, life,
             touching, stage, returning, admitted, faults, requeues>>
      /\ taken' = [taken EXCEPT ![w] = @ \ {e}]
  BY <1>1 DEF NotStarted, At, Leads, server, stream, pending, handlers, NoFault, Forget, NextIs, HandingBack
<1>3. QED
  BY <1>1, <1>2, HandingBackMoves DEF NotStarted

LEMMA LeadFailsMoves ==
    ASSUME Typed, NEW w \in Worker, LeadFails(w)
    PROVE  /\ lead[w].pc \in {"scan", "scanned", "prune", "own", "owned", "read", "answer", "ack", "del"}
           /\ UNCHANGED <<added, queue, delivered, owner, idle, late, answers, leader,
                  touching, stage, returning, admitted, requeues>>
           /\ taken' = [taken EXCEPT ![w] = @ \ lead[w].batch] /\ faults' \in 0 .. MaxFaults
           /\ life' = life \/ (life[w] = "up" /\ life' = [life EXCEPT ![w] = "stopping"])
           /\ Moves(w, "release", lead[w].believes, {}, {}, {}, 0, {})
<1>1. /\ lead \in [Worker -> LeadState] /\ lead[w] \in LeadState
      /\ taken \in [Worker -> SUBSET Job] /\ lead[w].batch \subseteq Job
      /\ {} \in SUBSET Job /\ 0 \in 0 .. MaxJobs /\ Job \subseteq 0 .. MaxJobs
      /\ faults \in 0 .. MaxFaults /\ MaxFaults \in Nat
      /\ life \in [Worker -> {"up", "stopping", "down"}]
  BY TypesAre, Constants DEF LeadState
<1>2. /\ lead[w].pc \in {"scan", "scanned", "prune", "own", "owned", "read", "answer", "ack", "del"}
      /\ UNCHANGED <<added, queue, delivered, owner, idle, late, answers, leader,
             touching, stage, returning, admitted, requeues>>
      /\ taken' = [taken EXCEPT ![w] = @ \ lead[w].batch] /\ faults' \in 0 .. MaxFaults
      /\ life' = life \/ (life[w] = "up" /\ life' = [life EXCEPT ![w] = "stopping"])
  BY <1>1 DEF LeadFails, At, Leads, server, stream, pending, handlers, NoFault, Forget, Fault, Idle
<1>3. lead' \in [Worker -> LeadState]
  BY <1>1 DEF LeadFails, LeadState, Places, Forget, Fault, Idle
<1>4. QED
  BY <1>1, <1>2, <1>3 DEF LeadFails, At, LeadState, Moves, Forget, Fault, Idle

\* The next entry is one of the batch.
LEMMA NextIsFirst ==
    ASSUME Typed, NEW w \in Worker, NEW e, NextIs(w, e)
    PROVE  /\ e \in lead[w].batch /\ e \in Job /\ lead[w].pc = "batch"
           /\ \A f \in lead[w].batch : e <= f
<1>1. lead[w].batch \in SUBSET Job
  BY TypesAre DEF LeadState
<1>2. lead[w].pc = "batch" /\ lead[w].batch # {} /\ e = First(lead[w].batch)
  BY DEF NextIs, At
<1>3. QED
  BY <1>1, <1>2, FirstIs
LEMMA ScanMoves ==
    ASSUME Typed, NEW w \in Worker, Scan(w)
    PROVE  /\ lead[w].pc = "scan"
           /\ UNCHANGED <<added, queue, delivered, late, answers, leader, life, taken,
                  touching, stage, returning, admitted, faults, requeues>>
           /\ Claim(w, idle) /\ idle' = {}
           /\ Moves(w, "scanned", lead[w].believes, lead[w].snap, idle, lead[w].batch, lead[w].cur, lead[w].giving)
<1>1. /\ lead \in [Worker -> LeadState] /\ lead[w] \in LeadState
      /\ taken \in [Worker -> SUBSET Job] /\ lead[w].batch \subseteq Job
      /\ {} \in SUBSET Job /\ 0 \in 0 .. MaxJobs /\ Job \subseteq 0 .. MaxJobs
      /\ idle \in SUBSET Job
  BY TypesAre, Constants DEF LeadState
<1>2. /\ lead[w].pc = "scan"
      /\ UNCHANGED <<added, queue, delivered, late, answers, leader, life, taken,
             touching, stage, returning, admitted, faults, requeues>>
      /\ Claim(w, idle) /\ idle' = {}
  BY <1>1 DEF Scan, At, Leads, server, stream, pending, handlers, NoFault
<1>3. lead' \in [Worker -> LeadState]
  BY <1>1 DEF Scan, LeadState, Places
<1>4. QED
  BY <1>1, <1>2, <1>3 DEF Scan, At, LeadState, Moves

LEMMA DeleteConsumerMoves ==
    ASSUME Typed, NEW w \in Worker, DeleteConsumer(w)
    PROVE  /\ lead[w].pc = "prune"
           /\ UNCHANGED <<added, queue, delivered, late, answers, leader, life, taken,
                  touching, stage, returning, admitted, faults, requeues>>
           /\ owner' = [e \in Job |-> IF owner[e] = lead[w].victim THEN Nobody ELSE owner[e]]
           /\ idle' = {e \in idle : owner[e] # lead[w].victim}
           /\ Moves(w, "pruned", lead[w].believes, lead[w].snap, lead[w].inbox, lead[w].batch, lead[w].cur, lead[w].giving)
<1>1. /\ lead \in [Worker -> LeadState] /\ lead[w] \in LeadState
      /\ taken \in [Worker -> SUBSET Job] /\ lead[w].batch \subseteq Job
      /\ {} \in SUBSET Job /\ 0 \in 0 .. MaxJobs /\ Job \subseteq 0 .. MaxJobs
      /\ idle \in SUBSET Job /\ owner \in [Job -> Worker \cup {Nobody}]
  BY TypesAre, Constants DEF LeadState
<1>2. /\ lead[w].pc = "prune"
      /\ UNCHANGED <<added, queue, delivered, late, answers, leader, life, taken,
             touching, stage, returning, admitted, faults, requeues>>
      /\ owner' = [e \in Job |-> IF owner[e] = lead[w].victim THEN Nobody ELSE owner[e]]
      /\ idle' = {e \in idle : owner[e] # lead[w].victim}
  BY <1>1 DEF DeleteConsumer, At, Leads, server, stream, pending, handlers, NoFault
<1>3. lead' \in [Worker -> LeadState]
  BY <1>1 DEF DeleteConsumer, LeadState, Places
<1>4. QED
  BY <1>1, <1>2, <1>3 DEF DeleteConsumer, At, LeadState, Moves

LEMMA ReadOwnMoves ==
    ASSUME Typed, NEW w \in Worker, ReadOwn(w)
    PROVE  /\ lead[w].pc = "own"
           /\ UNCHANGED <<added, queue, delivered, owner, late, answers, leader, life, taken,
                  touching, stage, returning, admitted, faults, requeues>>
           /\ idle' = {e \in idle : owner[e] # w}
           /\ Moves(w, "owned", lead[w].believes, lead[w].snap, {e \in Job : owner[e] = w}, lead[w].batch, lead[w].cur, lead[w].giving)
<1>1. /\ lead \in [Worker -> LeadState] /\ lead[w] \in LeadState
      /\ taken \in [Worker -> SUBSET Job] /\ lead[w].batch \subseteq Job
      /\ {} \in SUBSET Job /\ 0 \in 0 .. MaxJobs /\ Job \subseteq 0 .. MaxJobs
      /\ idle \in SUBSET Job /\ {e \in Job : owner[e] = w} \in SUBSET Job
  BY TypesAre, Constants DEF LeadState
<1>2. /\ lead[w].pc = "own"
      /\ UNCHANGED <<added, queue, delivered, owner, late, answers, leader, life, taken,
             touching, stage, returning, admitted, faults, requeues>>
      /\ idle' = {e \in idle : owner[e] # w}
  BY <1>1 DEF ReadOwn, At, Leads, server, stream, pending, handlers, NoFault
<1>3. lead' \in [Worker -> LeadState]
  BY <1>1 DEF ReadOwn, LeadState, Places
<1>4. QED
  BY <1>1, <1>2, <1>3 DEF ReadOwn, At, LeadState, Moves

LEMMA AckLateMoves ==
    ASSUME Typed, NEW w \in Worker, AckLate(w)
    PROVE  /\ lead[w].pc = "ack"
           /\ UNCHANGED <<added, queue, delivered, late, answers, leader, life, taken,
                  touching, stage, returning, admitted, faults, requeues>>
           /\ owner' = [owner EXCEPT ![lead[w].cur] = Nobody] /\ idle' = idle \ {lead[w].cur}
           /\ Moves(w, "del", lead[w].believes, lead[w].snap, lead[w].inbox, lead[w].batch, lead[w].cur, lead[w].giving)
<1>1. /\ lead \in [Worker -> LeadState] /\ lead[w] \in LeadState
      /\ taken \in [Worker -> SUBSET Job] /\ lead[w].batch \subseteq Job
      /\ {} \in SUBSET Job /\ 0 \in 0 .. MaxJobs /\ Job \subseteq 0 .. MaxJobs
  BY TypesAre, Constants DEF LeadState
<1>2. /\ lead[w].pc = "ack"
      /\ UNCHANGED <<added, queue, delivered, late, answers, leader, life, taken,
             touching, stage, returning, admitted, faults, requeues>>
      /\ owner' = [owner EXCEPT ![lead[w].cur] = Nobody] /\ idle' = idle \ {lead[w].cur}
  BY <1>1 DEF AckLate, At, Leads, server, stream, pending, handlers, NoFault, Acked
<1>3. lead' \in [Worker -> LeadState]
  BY <1>1 DEF AckLate, LeadState, Places, Acked
<1>4. QED
  BY <1>1, <1>2, <1>3 DEF AckLate, At, LeadState, Moves, Acked

LEMMA DeleteLateMoves ==
    ASSUME Typed, NEW w \in Worker, DeleteLate(w)
    PROVE  /\ lead[w].pc = "del"
           /\ UNCHANGED <<added, delivered, owner, idle, late, answers, leader, life, taken,
                  touching, stage, returning, admitted, faults, requeues>>
           /\ queue' = queue \ {lead[w].cur}
           /\ Moves(w, "batch", lead[w].believes, lead[w].snap, lead[w].inbox, lead[w].batch, 0, lead[w].giving)
<1>1. /\ lead \in [Worker -> LeadState] /\ lead[w] \in LeadState
      /\ taken \in [Worker -> SUBSET Job] /\ lead[w].batch \subseteq Job
      /\ {} \in SUBSET Job /\ 0 \in 0 .. MaxJobs /\ Job \subseteq 0 .. MaxJobs
  BY TypesAre, Constants DEF LeadState
<1>2. /\ lead[w].pc = "del"
      /\ UNCHANGED <<added, delivered, owner, idle, late, answers, leader, life, taken,
             touching, stage, returning, admitted, faults, requeues>>
      /\ queue' = queue \ {lead[w].cur}
  BY <1>1 DEF DeleteLate, At, Leads, server, stream, pending, handlers, NoFault, Deleted
<1>3. lead' \in [Worker -> LeadState]
  BY <1>1 DEF DeleteLate, LeadState, Places, Deleted
<1>4. QED
  BY <1>1, <1>2, <1>3 DEF DeleteLate, At, LeadState, Moves, Deleted

LEMMA AbandonMoves ==
    ASSUME Typed, NEW w \in Worker, Abandon(w)
    PROVE  /\ lead[w].pc = "wait" /\ ~Settled(w)
           /\ UNCHANGED <<added, delivered, late, leader, life, touching, admitted, faults,
                  requeues>>
           /\ Cancelled(w, lead[w].cur) /\ taken' = [taken EXCEPT ![w] = @ \ {lead[w].cur}]
           /\ Moves(w, "give", lead[w].believes, lead[w].snap, lead[w].inbox, lead[w].batch \ {lead[w].cur}, 0, {lead[w].cur})
<1>1. /\ lead \in [Worker -> LeadState] /\ lead[w] \in LeadState
      /\ taken \in [Worker -> SUBSET Job] /\ lead[w].batch \subseteq Job
      /\ lead[w].cur \in Job
  BY TypesAre DEF LeadState, Abandon, Settled, Running
<1>2. /\ lead[w].pc = "wait" /\ ~Settled(w)
      /\ UNCHANGED <<added, delivered, late, leader, life, touching, admitted, faults,
             requeues>>
      /\ Cancelled(w, lead[w].cur) /\ taken' = [taken EXCEPT ![w] = @ \ {lead[w].cur}]
  BY <1>1 DEF Abandon, At, Leads, server, stream, pending, handlers, NoFault, HandingBack, Forget
<1>3. QED
  BY <1>1, <1>2, HandingBackMoves DEF Abandon

LEMMA HandBackMoves ==
    ASSUME Typed, NEW w \in Worker, HandBack(w)
    PROVE  /\ lead[w].pc = "give" /\ touching[w] = {}
           /\ UNCHANGED <<added, queue, delivered, late, answers, leader, life, touching,
                  stage, returning, admitted, requeues>>
           /\ taken' = [taken EXCEPT ![w] = @ \ lead[w].batch] /\ faults' \in 0 .. MaxFaults
           /\ ClaimIdle(w, lead[w].giving) \/ UNCHANGED <<owner, idle>>
           /\ Moves(w, IF lead[w].batch # {} THEN "give" ELSE "release", lead[w].believes, lead[w].snap,
                    lead[w].inbox, {}, lead[w].cur, lead[w].batch)
<1>1. /\ lead \in [Worker -> LeadState] /\ lead[w] \in LeadState
      /\ taken \in [Worker -> SUBSET Job] /\ lead[w].batch \subseteq Job
      /\ {} \in SUBSET Job /\ 0 \in 0 .. MaxJobs /\ Job \subseteq 0 .. MaxJobs
      /\ faults \in 0 .. MaxFaults /\ MaxFaults \in Nat
  BY TypesAre, Constants DEF LeadState
<1>2. /\ lead[w].pc = "give" /\ touching[w] = {}
      /\ UNCHANGED <<added, queue, delivered, late, answers, leader, life, touching,
             stage, returning, admitted, requeues>>
      /\ taken' = [taken EXCEPT ![w] = @ \ lead[w].batch] /\ GiveBack(w, lead[w].giving)
  BY DEF HandBack, At, stream, handlers, LockFree, Forget
<1>9. /\ faults' \in 0 .. MaxFaults
      /\ ClaimIdle(w, lead[w].giving) \/ UNCHANGED <<owner, idle>>
  BY <1>1, <1>2 DEF GiveBack, pending, NoFault, Fault
<1> DEFINE r == [lead[w] EXCEPT !.pc = IF lead[w].batch # {} THEN "give" ELSE "release",
                                !.giving = lead[w].batch, !.batch = {}]
<1>3. r \in LeadState
  BY <1>1 DEF LeadState, Places
<1>4. /\ r.pc = (IF lead[w].batch # {} THEN "give" ELSE "release") /\ r.believes = lead[w].believes
      /\ r.snap = lead[w].snap /\ r.inbox = lead[w].inbox /\ r.batch = {}
      /\ r.cur = lead[w].cur /\ r.giving = lead[w].batch
  BY <1>1 DEF LeadState
<1>5. lead' = [lead EXCEPT ![w] = r]
  BY <1>1 DEF HandBack
<1> HIDE DEF r
<1>6. Moves(w, IF lead[w].batch # {} THEN "give" ELSE "release", lead[w].believes, lead[w].snap,
            lead[w].inbox, {}, lead[w].cur, lead[w].batch)
  BY <1>1, <1>3, <1>4, <1>5 DEF Moves
<1>7. QED
  BY <1>2, <1>6, <1>9

LEMMA ReadMoves ==
    ASSUME Typed, NEW w \in Worker, Read(w)
    PROVE  /\ lead[w].pc = "read"
           /\ UNCHANGED <<added, queue, idle, late, answers, leader, life, taken, touching, stage,
                          returning, admitted, requeues>>
           /\ faults' \in 0 .. MaxFaults
           /\ \/ /\ UNCHANGED <<delivered, owner>> /\ {e \in queue : e > delivered} = {}
                 /\ Moves(w, "answer", lead[w].believes, lead[w].snap, {}, lead[w].batch, lead[w].cur,
                          lead[w].giving)
              \/ \E e \in queue :
                    /\ e > delivered /\ \A f \in queue : f > delivered => e <= f
                    /\ delivered' = e /\ owner' = [owner EXCEPT ![e] = w]
                    /\ \/ Moves(w, "answer", lead[w].believes, lead[w].snap, {e}, lead[w].batch,
                                lead[w].cur, lead[w].giving)
                       \/ lead' = lead
<1> DEFINE unread == {e \in queue : e > delivered}
           next == IF unread = {} THEN {} ELSE {First(unread)}
<1>1. /\ lead \in [Worker -> LeadState] /\ lead[w] \in LeadState /\ unread \in SUBSET Job
      /\ owner \in [Job -> Worker \cup {Nobody}] /\ faults \in 0 .. MaxFaults /\ MaxFaults \in Nat
      /\ Job \subseteq Nat
  BY TypesAre, Constants
<1>2. /\ lead[w].pc = "read"
      /\ UNCHANGED <<added, queue, idle, late, answers, leader, life, taken, touching, stage,
                     returning, admitted, requeues>>
      /\ faults' \in 0 .. MaxFaults
      /\ delivered' = (IF next = {} THEN delivered ELSE First(next))
      /\ owner' = [e \in Job |-> IF e \in next THEN w ELSE owner[e]]
      /\ \/ lead' = [lead EXCEPT ![w].pc = "answer", ![w].inbox = next]
         \/ next # {} /\ lead' = lead
  BY <1>1 DEF Read, At, Fault, NoFault, handlers
<1>3. ASSUME NEW es \in SUBSET Job, lead' = [lead EXCEPT ![w].pc = "answer", ![w].inbox = es]
      PROVE  Moves(w, "answer", lead[w].believes, lead[w].snap, es, lead[w].batch, lead[w].cur,
                   lead[w].giving)
  <2>1. lead' \in [Worker -> LeadState]
    BY <1>1, <1>3 DEF LeadState, Places
  <2>2. QED
    BY <1>1, <1>3, <2>1 DEF LeadState, Moves
<1>4. CASE unread = {}
  <2>1. next = {} /\ {} \in SUBSET Job
    BY <1>4
  <2> HIDE DEF next, unread
  <2>2. UNCHANGED <<delivered, owner>>
    BY <1>1, <1>2, <2>1
  <2>3. QED
    BY <1>2, <1>3, <1>4, <2>1, <2>2 DEF unread
<1>5. CASE unread # {}
  <2> DEFINE e == First(unread)
  <2>1. e \in unread /\ \A f \in unread : e <= f
    BY <1>1, <1>5, FirstIs
  <2>2. next = {e} /\ e \in Job
    BY <1>1, <1>5, <2>1
  <2>3. First({e}) = e
    BY <2>2, FirstIs
  <2>4. e \in queue /\ e > delivered /\ \A f \in queue : f > delivered => e <= f
    BY <2>1
  <2> HIDE DEF next, unread, e
  <2>5. delivered' = e /\ owner' = [owner EXCEPT ![e] = w]
    BY <1>1, <1>2, <2>2, <2>3
  <2>6. \/ Moves(w, "answer", lead[w].believes, lead[w].snap, {e}, lead[w].batch,
                 lead[w].cur, lead[w].giving)
        \/ lead' = lead
    BY <1>2, <1>3, <2>2
  <2>7. QED
    BY <1>2, <2>4, <2>5, <2>6
<1>6. QED
  BY <1>4, <1>5
LEMMA LeaveLoopKept ==
    ASSUME BaseInv, NEW w \in Worker, LeaveLoop(w)
    PROVE  Kept(w)
<1>1. /\ Typed /\ WorkerOK(w) /\ lead[w] \in LeadState /\ lead \in [Worker -> LeadState]
      /\ taken \in [Worker -> SUBSET Job] /\ stage \in [Worker -> [Job -> Stages]]
      /\ life \in [Worker -> {"up", "stopping", "down"}] /\ leader \in Worker \cup {Nobody}
      /\ touching \in [Worker -> SUBSET Job] /\ returning \in [Worker -> SUBSET Job]
      /\ admitted \in [Worker -> SUBSET Job]
      /\ faults \in 0 .. MaxFaults /\ requeues \in 0 .. MaxRequeues
  BY TypesAre DEF BaseInv
<1>2. /\ Quiet /\ lead' \in [Worker -> LeadState] /\ leader' \in Worker \cup {Nobody}
      /\ faults' \in 0 .. MaxFaults /\ requeues' \in 0 .. MaxRequeues
  BY <1>1, LeaveLoopMoves DEF Quiet, Moves
<1>3. /\ life' \in [Worker -> {"up", "stopping", "down"}] /\ stage' \in [Worker -> [Job -> Stages]]
      /\ taken' \in [Worker -> SUBSET Job] /\ touching' \in [Worker -> SUBSET Job]
      /\ returning' \in [Worker -> SUBSET Job] /\ admitted' \in [Worker -> SUBSET Job]
  BY <1>1, LeaveLoopMoves DEF Stages, LeadState
<1>4. Others(w)
  BY <1>1, LeaveLoopMoves DEF Others, Moves
<1>5. Held(w)' \subseteq Held(w)
  BY <1>1, LeaveLoopMoves DEF Held, Moves, WorkerOK, LeadOK
<1>6. LeadOK(w)'
  BY <1>1, LeaveLoopMoves, SMTT(30) DEF LeadOK, WorkerOK, Moves, Asking, Comparing
<1>7. WorkerOK(w)'
  BY <1>1, <1>5, <1>6, LeaveLoopMoves DEF WorkerOK, Moves
<1>8. QED
  BY <1>2, <1>3, <1>4, <1>7, QuietKept

LEMMA TurnKept ==
    ASSUME BaseInv, NEW w \in Worker, Turn(w)
    PROVE  Kept(w)
<1>1. /\ Typed /\ WorkerOK(w) /\ lead[w] \in LeadState /\ lead \in [Worker -> LeadState]
      /\ taken \in [Worker -> SUBSET Job] /\ stage \in [Worker -> [Job -> Stages]]
      /\ life \in [Worker -> {"up", "stopping", "down"}] /\ leader \in Worker \cup {Nobody}
      /\ touching \in [Worker -> SUBSET Job] /\ returning \in [Worker -> SUBSET Job]
      /\ admitted \in [Worker -> SUBSET Job]
      /\ faults \in 0 .. MaxFaults /\ requeues \in 0 .. MaxRequeues
  BY TypesAre DEF BaseInv
<1>2. /\ Quiet /\ lead' \in [Worker -> LeadState] /\ leader' \in Worker \cup {Nobody}
      /\ faults' \in 0 .. MaxFaults /\ requeues' \in 0 .. MaxRequeues
  BY <1>1, TurnMoves DEF Quiet, Moves
<1>3. /\ life' \in [Worker -> {"up", "stopping", "down"}] /\ stage' \in [Worker -> [Job -> Stages]]
      /\ taken' \in [Worker -> SUBSET Job] /\ touching' \in [Worker -> SUBSET Job]
      /\ returning' \in [Worker -> SUBSET Job] /\ admitted' \in [Worker -> SUBSET Job]
  BY <1>1, TurnMoves DEF Stages, LeadState
<1>4. Others(w)
  BY <1>1, TurnMoves DEF Others, Moves
<1>5. Held(w)' \subseteq Held(w)
  BY <1>1, TurnMoves DEF Held, Moves, WorkerOK, LeadOK
<1>6. LeadOK(w)'
  BY <1>1, TurnMoves DEF LeadOK, WorkerOK, Moves, Asking, Comparing
<1>7. WorkerOK(w)'
  BY <1>1, <1>5, <1>6, TurnMoves DEF WorkerOK, Moves
<1>8. QED
  BY <1>2, <1>3, <1>4, <1>7, QuietKept

LEMMA ReclaimTimerKept ==
    ASSUME BaseInv, NEW w \in Worker, ReclaimTimer(w)
    PROVE  Kept(w)
<1>1. /\ Typed /\ WorkerOK(w) /\ lead[w] \in LeadState /\ lead \in [Worker -> LeadState]
      /\ taken \in [Worker -> SUBSET Job] /\ stage \in [Worker -> [Job -> Stages]]
      /\ life \in [Worker -> {"up", "stopping", "down"}] /\ leader \in Worker \cup {Nobody}
      /\ touching \in [Worker -> SUBSET Job] /\ returning \in [Worker -> SUBSET Job]
      /\ admitted \in [Worker -> SUBSET Job]
      /\ faults \in 0 .. MaxFaults /\ requeues \in 0 .. MaxRequeues
  BY TypesAre DEF BaseInv
<1>2. /\ Quiet /\ lead' \in [Worker -> LeadState] /\ leader' \in Worker \cup {Nobody}
      /\ faults' \in 0 .. MaxFaults /\ requeues' \in 0 .. MaxRequeues
  BY <1>1, ReclaimTimerMoves DEF Quiet, Moves
<1>3. /\ life' \in [Worker -> {"up", "stopping", "down"}] /\ stage' \in [Worker -> [Job -> Stages]]
      /\ taken' \in [Worker -> SUBSET Job] /\ touching' \in [Worker -> SUBSET Job]
      /\ returning' \in [Worker -> SUBSET Job] /\ admitted' \in [Worker -> SUBSET Job]
  BY <1>1, ReclaimTimerMoves DEF Stages, LeadState
<1>4. Others(w)
  BY <1>1, ReclaimTimerMoves DEF Others, Moves
<1>5. Held(w)' \subseteq Held(w)
  BY <1>1, ReclaimTimerMoves DEF Held, Moves, WorkerOK, LeadOK
<1>6. LeadOK(w)'
  BY <1>1, ReclaimTimerMoves DEF LeadOK, WorkerOK, Moves, Asking, Comparing
<1>7. WorkerOK(w)'
  BY <1>1, <1>5, <1>6, ReclaimTimerMoves DEF WorkerOK, Moves
<1>8. QED
  BY <1>2, <1>3, <1>4, <1>7, QuietKept

LEMMA LearnLossKept ==
    ASSUME BaseInv, NEW w \in Worker, LearnLoss(w)
    PROVE  Kept(w)
<1>1. /\ Typed /\ WorkerOK(w) /\ lead[w] \in LeadState /\ lead \in [Worker -> LeadState]
      /\ taken \in [Worker -> SUBSET Job] /\ stage \in [Worker -> [Job -> Stages]]
      /\ life \in [Worker -> {"up", "stopping", "down"}] /\ leader \in Worker \cup {Nobody}
      /\ touching \in [Worker -> SUBSET Job] /\ returning \in [Worker -> SUBSET Job]
      /\ admitted \in [Worker -> SUBSET Job]
      /\ faults \in 0 .. MaxFaults /\ requeues \in 0 .. MaxRequeues
  BY TypesAre DEF BaseInv
<1>2. /\ Quiet /\ lead' \in [Worker -> LeadState] /\ leader' \in Worker \cup {Nobody}
      /\ faults' \in 0 .. MaxFaults /\ requeues' \in 0 .. MaxRequeues
  BY <1>1, LearnLossMoves DEF Quiet, Moves
<1>3. /\ life' \in [Worker -> {"up", "stopping", "down"}] /\ stage' \in [Worker -> [Job -> Stages]]
      /\ taken' \in [Worker -> SUBSET Job] /\ touching' \in [Worker -> SUBSET Job]
      /\ returning' \in [Worker -> SUBSET Job] /\ admitted' \in [Worker -> SUBSET Job]
  BY <1>1, LearnLossMoves DEF Stages, LeadState
<1>4. Others(w)
  BY <1>1, LearnLossMoves DEF Others, Moves
<1>5. Held(w)' \subseteq Held(w)
  BY <1>1, LearnLossMoves DEF Held, Moves, WorkerOK, LeadOK
<1>6. LeadOK(w)'
  <2>1. /\ UNCHANGED <<taken, stage, answers, delivered, late, owner>>
        /\ lead'[w].pc = lead[w].pc /\ lead'[w].snap = lead[w].snap
        /\ lead'[w].inbox = lead[w].inbox /\ lead'[w].batch = lead[w].batch
        /\ lead'[w].cur = lead[w].cur
    BY <1>1, LearnLossMoves DEF Moves
  <2>2. LeadOK(w)
    BY <1>1 DEF WorkerOK
  <2>3. QED
    BY <2>1, <2>2 DEF LeadOK
<1>7. WorkerOK(w)'
  BY <1>1, <1>5, <1>6, LearnLossMoves DEF WorkerOK, Moves
<1>8. QED
  BY <1>2, <1>3, <1>4, <1>7, QuietKept

LEMMA BatchDoneKept ==
    ASSUME BaseInv, NEW w \in Worker, BatchDone(w)
    PROVE  Kept(w)
<1>1. /\ Typed /\ WorkerOK(w) /\ lead[w] \in LeadState /\ lead \in [Worker -> LeadState]
      /\ taken \in [Worker -> SUBSET Job] /\ stage \in [Worker -> [Job -> Stages]]
      /\ life \in [Worker -> {"up", "stopping", "down"}] /\ leader \in Worker \cup {Nobody}
      /\ touching \in [Worker -> SUBSET Job] /\ returning \in [Worker -> SUBSET Job]
      /\ admitted \in [Worker -> SUBSET Job]
      /\ faults \in 0 .. MaxFaults /\ requeues \in 0 .. MaxRequeues
  BY TypesAre DEF BaseInv
<1>2. /\ Quiet /\ lead' \in [Worker -> LeadState] /\ leader' \in Worker \cup {Nobody}
      /\ faults' \in 0 .. MaxFaults /\ requeues' \in 0 .. MaxRequeues
  BY <1>1, BatchDoneMoves DEF Quiet, Moves
<1>3. /\ life' \in [Worker -> {"up", "stopping", "down"}] /\ stage' \in [Worker -> [Job -> Stages]]
      /\ taken' \in [Worker -> SUBSET Job] /\ touching' \in [Worker -> SUBSET Job]
      /\ returning' \in [Worker -> SUBSET Job] /\ admitted' \in [Worker -> SUBSET Job]
  BY <1>1, BatchDoneMoves DEF Stages, LeadState
<1>4. Others(w)
  BY <1>1, BatchDoneMoves DEF Others, Moves
<1>5. Held(w)' \subseteq Held(w)
  BY <1>1, BatchDoneMoves DEF Held, Moves, WorkerOK, LeadOK
<1>6. LeadOK(w)'
  BY <1>1, BatchDoneMoves, SMTT(30) DEF LeadOK, WorkerOK, Moves, Asking, Comparing
<1>7. WorkerOK(w)'
  BY <1>1, <1>5, <1>6, BatchDoneMoves DEF WorkerOK, Moves
<1>8. QED
  BY <1>2, <1>3, <1>4, <1>7, QuietKept

LEMMA MoveOnKept ==
    ASSUME BaseInv, NEW w \in Worker, MoveOn(w)
    PROVE  Kept(w)
<1>1. /\ Typed /\ WorkerOK(w) /\ lead[w] \in LeadState /\ lead \in [Worker -> LeadState]
      /\ taken \in [Worker -> SUBSET Job] /\ stage \in [Worker -> [Job -> Stages]]
      /\ life \in [Worker -> {"up", "stopping", "down"}] /\ leader \in Worker \cup {Nobody}
      /\ touching \in [Worker -> SUBSET Job] /\ returning \in [Worker -> SUBSET Job]
      /\ admitted \in [Worker -> SUBSET Job]
      /\ faults \in 0 .. MaxFaults /\ requeues \in 0 .. MaxRequeues
  BY TypesAre DEF BaseInv
<1>2. /\ Quiet /\ lead' \in [Worker -> LeadState] /\ leader' \in Worker \cup {Nobody}
      /\ faults' \in 0 .. MaxFaults /\ requeues' \in 0 .. MaxRequeues
  BY <1>1, MoveOnMoves DEF Quiet, Moves
<1>3. /\ life' \in [Worker -> {"up", "stopping", "down"}] /\ stage' \in [Worker -> [Job -> Stages]]
      /\ taken' \in [Worker -> SUBSET Job] /\ touching' \in [Worker -> SUBSET Job]
      /\ returning' \in [Worker -> SUBSET Job] /\ admitted' \in [Worker -> SUBSET Job]
  BY <1>1, MoveOnMoves DEF Stages, LeadState
<1>4. Others(w)
  BY <1>1, MoveOnMoves DEF Others, Moves
<1>5. Held(w)' \subseteq Held(w)
  BY <1>1, MoveOnMoves DEF Held, Moves, WorkerOK, LeadOK
<1>6. LeadOK(w)'
  BY <1>1, MoveOnMoves DEF LeadOK, WorkerOK, Moves, Asking, Comparing
<1>7. WorkerOK(w)'
  BY <1>1, <1>5, <1>6, MoveOnMoves DEF WorkerOK, Moves
<1>8. QED
  BY <1>2, <1>3, <1>4, <1>7, QuietKept

LEMMA InspectKept ==
    ASSUME BaseInv, NEW w \in Worker, Inspect(w)
    PROVE  Kept(w)
<1>1. /\ Typed /\ WorkerOK(w) /\ lead[w] \in LeadState /\ lead \in [Worker -> LeadState]
      /\ taken \in [Worker -> SUBSET Job] /\ stage \in [Worker -> [Job -> Stages]]
      /\ life \in [Worker -> {"up", "stopping", "down"}] /\ leader \in Worker \cup {Nobody}
      /\ touching \in [Worker -> SUBSET Job] /\ returning \in [Worker -> SUBSET Job]
      /\ admitted \in [Worker -> SUBSET Job]
      /\ faults \in 0 .. MaxFaults /\ requeues \in 0 .. MaxRequeues
  BY TypesAre DEF BaseInv
<1>2. /\ Quiet /\ lead' \in [Worker -> LeadState] /\ leader' \in Worker \cup {Nobody}
      /\ faults' \in 0 .. MaxFaults /\ requeues' \in 0 .. MaxRequeues
  BY <1>1, InspectMoves DEF Quiet, Moves
<1>3. /\ life' \in [Worker -> {"up", "stopping", "down"}] /\ stage' \in [Worker -> [Job -> Stages]]
      /\ taken' \in [Worker -> SUBSET Job] /\ touching' \in [Worker -> SUBSET Job]
      /\ returning' \in [Worker -> SUBSET Job] /\ admitted' \in [Worker -> SUBSET Job]
  BY <1>1, InspectMoves DEF Stages, LeadState
<1>4. Others(w)
  BY <1>1, InspectMoves DEF Others, Moves
<1>5. Held(w)' \subseteq Held(w)
  BY <1>1, InspectMoves DEF Held, Moves, WorkerOK, LeadOK
<1>6. LeadOK(w)'
  BY <1>1, InspectMoves, SMTT(30) DEF LeadOK, WorkerOK, Moves, Asking, Comparing
<1>7. WorkerOK(w)'
  BY <1>1, <1>5, <1>6, InspectMoves DEF WorkerOK, Moves
<1>8. QED
  BY <1>2, <1>3, <1>4, <1>7, QuietKept

LEMMA ElectKept ==
    ASSUME BaseInv, NEW w \in Worker, Elect(w)
    PROVE  Kept(w)
<1>1. /\ Typed /\ WorkerOK(w) /\ lead[w] \in LeadState /\ lead \in [Worker -> LeadState]
      /\ taken \in [Worker -> SUBSET Job] /\ stage \in [Worker -> [Job -> Stages]]
      /\ life \in [Worker -> {"up", "stopping", "down"}] /\ leader \in Worker \cup {Nobody}
      /\ touching \in [Worker -> SUBSET Job] /\ returning \in [Worker -> SUBSET Job]
      /\ admitted \in [Worker -> SUBSET Job]
      /\ faults \in 0 .. MaxFaults /\ requeues \in 0 .. MaxRequeues
  BY TypesAre DEF BaseInv
<1>2. /\ Quiet /\ lead' \in [Worker -> LeadState] /\ leader' \in Worker \cup {Nobody}
      /\ faults' \in 0 .. MaxFaults /\ requeues' \in 0 .. MaxRequeues
  BY <1>1, ElectMoves DEF Quiet, Moves
<1>3. /\ life' \in [Worker -> {"up", "stopping", "down"}] /\ stage' \in [Worker -> [Job -> Stages]]
      /\ taken' \in [Worker -> SUBSET Job] /\ touching' \in [Worker -> SUBSET Job]
      /\ returning' \in [Worker -> SUBSET Job] /\ admitted' \in [Worker -> SUBSET Job]
  BY <1>1, ElectMoves DEF Stages, LeadState
<1>4. Others(w)
  BY <1>1, ElectMoves DEF Others, Moves
<1>5. Held(w)' \subseteq Held(w)
  BY <1>1, ElectMoves DEF Held, Moves, WorkerOK, LeadOK
<1>6. LeadOK(w)'
  <2>1. /\ UNCHANGED <<taken, stage, answers>> /\ lead'[w].pc = "loop"
        /\ lead'[w].batch = lead[w].batch
    BY <1>1, ElectMoves DEF Moves
  <2>2. LeadOK(w)
    BY <1>1 DEF WorkerOK
  <2>3. QED
    BY <2>1, <2>2 DEF LeadOK, Asking, Comparing
<1>7. WorkerOK(w)'
  BY <1>1, <1>5, <1>6, ElectMoves DEF WorkerOK, Moves
<1>8. QED
  BY <1>2, <1>3, <1>4, <1>7, QuietKept

LEMMA ReleaseKept ==
    ASSUME BaseInv, NEW w \in Worker, Release(w)
    PROVE  Kept(w)
<1>1. /\ Typed /\ WorkerOK(w) /\ lead[w] \in LeadState /\ lead \in [Worker -> LeadState]
      /\ taken \in [Worker -> SUBSET Job] /\ stage \in [Worker -> [Job -> Stages]]
      /\ life \in [Worker -> {"up", "stopping", "down"}] /\ leader \in Worker \cup {Nobody}
      /\ touching \in [Worker -> SUBSET Job] /\ returning \in [Worker -> SUBSET Job]
      /\ admitted \in [Worker -> SUBSET Job]
      /\ faults \in 0 .. MaxFaults /\ requeues \in 0 .. MaxRequeues
  BY TypesAre DEF BaseInv
<1>2. /\ Quiet /\ lead' \in [Worker -> LeadState] /\ leader' \in Worker \cup {Nobody}
      /\ faults' \in 0 .. MaxFaults /\ requeues' \in 0 .. MaxRequeues
  BY <1>1, ReleaseMoves DEF Quiet, Moves
<1>3. /\ life' \in [Worker -> {"up", "stopping", "down"}] /\ stage' \in [Worker -> [Job -> Stages]]
      /\ taken' \in [Worker -> SUBSET Job] /\ touching' \in [Worker -> SUBSET Job]
      /\ returning' \in [Worker -> SUBSET Job] /\ admitted' \in [Worker -> SUBSET Job]
  BY <1>1, ReleaseMoves DEF Stages, LeadState
<1>4. Others(w)
  BY <1>1, ReleaseMoves DEF Others, Moves
<1>5. Held(w)' \subseteq Held(w)
  BY <1>1, ReleaseMoves DEF Held, Moves, WorkerOK, LeadOK
<1>6. LeadOK(w)'
  BY <1>1, ReleaseMoves DEF LeadOK, WorkerOK, Moves, Asking, Comparing
<1>7. WorkerOK(w)'
  BY <1>1, <1>5, <1>6, ReleaseMoves DEF WorkerOK, Moves
<1>8. QED
  BY <1>2, <1>3, <1>4, <1>7, QuietKept

LEMMA LeadFailsKept ==
    ASSUME BaseInv, NEW w \in Worker, LeadFails(w)
    PROVE  Kept(w)
<1>1. /\ Typed /\ WorkerOK(w) /\ lead[w] \in LeadState /\ lead \in [Worker -> LeadState]
      /\ taken \in [Worker -> SUBSET Job] /\ stage \in [Worker -> [Job -> Stages]]
      /\ life \in [Worker -> {"up", "stopping", "down"}] /\ leader \in Worker \cup {Nobody}
      /\ touching \in [Worker -> SUBSET Job] /\ returning \in [Worker -> SUBSET Job]
      /\ admitted \in [Worker -> SUBSET Job]
      /\ faults \in 0 .. MaxFaults /\ requeues \in 0 .. MaxRequeues
  BY TypesAre DEF BaseInv
<1>2. /\ Quiet /\ lead' \in [Worker -> LeadState] /\ leader' \in Worker \cup {Nobody}
      /\ faults' \in 0 .. MaxFaults /\ requeues' \in 0 .. MaxRequeues
  BY <1>1, LeadFailsMoves DEF Quiet, Moves
<1>3. /\ life' \in [Worker -> {"up", "stopping", "down"}] /\ stage' \in [Worker -> [Job -> Stages]]
      /\ taken' \in [Worker -> SUBSET Job] /\ touching' \in [Worker -> SUBSET Job]
      /\ returning' \in [Worker -> SUBSET Job] /\ admitted' \in [Worker -> SUBSET Job]
  <2>1. /\ taken' = [taken EXCEPT ![w] = @ \ lead[w].batch]
        /\ UNCHANGED <<touching, returning, admitted>>
    BY <1>1, LeadFailsMoves
  <2>2. lead[w].inbox \subseteq Job /\ lead[w].batch \subseteq Job
    BY <1>1 DEF LeadState
  <2>3. QED
    BY <1>1, <2>1, <2>2, LeadFailsMoves
<1>4. Others(w)
  BY <1>1, LeadFailsMoves DEF Others, Moves
<1>5. Held(w)' \subseteq Held(w)
  BY <1>1, LeadFailsMoves DEF Held, Moves, WorkerOK, LeadOK
<1>6. LeadOK(w)'
  BY <1>1, LeadFailsMoves DEF LeadOK, WorkerOK, Moves, Asking, Comparing
<1>7. WorkerOK(w)'
  <2>1. \A f \in Held(w)' : f <= delivered'
    BY <1>1, <1>5, LeadFailsMoves DEF WorkerOK
  <2>2. \A f \in Job : stage'[w][f] # "none" => f \in taken'[w]
    BY <1>1, LeadFailsMoves DEF WorkerOK, LeadOK, NextIs
  <2>3. life'[w] # "down"
    BY <1>1, LeadFailsMoves DEF WorkerOK
  <2>4. QED
    BY <1>6, <2>1, <2>2, <2>3 DEF WorkerOK
<1>8. QED
  BY <1>2, <1>3, <1>4, <1>7, QuietKept

\* An answer is taken for a batch, if there are news in it.
LEMMA BatchKept ==
    ASSUME BaseInv, NEW w \in Worker, NEW es \in SUBSET lead[w].inbox,
           NEW elsewhere \in {"own", "read", "loop"}, NEW snap \in SUBSET Job,
           Batch(w, es, elsewhere, snap), elsewhere = "own" => snap = taken[w],
           lead[w].pc # "off", \A f \in es : stage[w][f] = "none" /\ w \notin answers[f],
           UNCHANGED <<added, queue, delivered, owner, idle, late, answers, leader, life, touching,
                       stage, returning, admitted, faults, requeues>>
    PROVE  Kept(w)
<1>1. /\ Typed /\ WorkerOK(w) /\ LeadOK(w) /\ life[w] # "down"
      /\ \A f \in Held(w) : f <= delivered
      /\ \A f \in Job : stage[w][f] # "none" => f \in taken[w]
  BY DEF BaseInv, WorkerOK
<1>2. /\ lead[w] \in LeadState /\ es \in SUBSET Job /\ elsewhere \in Places
      /\ taken \in [Worker -> SUBSET Job] /\ life \in [Worker -> {"up", "stopping", "down"}]
      /\ touching \in [Worker -> SUBSET Job] /\ returning \in [Worker -> SUBSET Job]
      /\ admitted \in [Worker -> SUBSET Job] /\ stage \in [Worker -> [Job -> Stages]]
      /\ leader \in Worker \cup {Nobody}
      /\ faults \in 0 .. MaxFaults /\ requeues \in 0 .. MaxRequeues
  BY <1>1, TypesAre DEF LeadState, Places
<1>3. /\ taken' = [taken EXCEPT ![w] = @ \cup es]
      /\ es # {} => Moves(w, "batch", lead[w].believes, {}, {}, es, lead[w].cur, lead[w].giving)
      /\ es = {} => Moves(w, elsewhere, lead[w].believes, snap, {}, {}, lead[w].cur, lead[w].giving)
  BY <1>1, <1>2, BatchMoves
<1>4. /\ lead' \in [Worker -> LeadState] /\ \A v \in Worker \ {w} : lead'[v] = lead[v]
      /\ lead'[w].inbox = {} /\ lead'[w].batch = es /\ lead'[w].giving = lead[w].giving
      /\ lead'[w].pc = "batch" \/ (es = {} /\ lead'[w].pc = elsewhere /\ lead'[w].snap = snap)
  BY <1>3 DEF Moves
<1>5. taken'[w] = taken[w] \cup es /\ taken' \in [Worker -> SUBSET Job]
  BY <1>2, <1>3
<1>6. Others(w)
  BY <1>2, <1>3, <1>4 DEF Others
<1>7. Held(w)' \subseteq Held(w)
  BY <1>4, <1>5 DEF Held
<1>8. LeadOK(w)'
  <2>1. lead'[w].pc \in Asking => lead'[w].pc = "own" /\ lead'[w].snap = taken[w]
    BY <1>4 DEF Asking
  <2>2. \A f \in es : stage'[w][f] = "none" /\ w \notin answers'[f]
    OBVIOUS
  <2>3. lead'[w].pc \notin {"answer", "wait", "ack", "del", "prune"}
    BY <1>4
  <2>4. QED
    BY <1>1, <1>4, <1>5, <2>1, <2>2, <2>3 DEF LeadOK
<1>9. WorkerOK(w)'
  BY <1>1, <1>5, <1>7, <1>8 DEF WorkerOK
<1>10. QED
  BY <1>2, <1>4, <1>5, <1>6, <1>9, QuietKept DEF Quiet

LEMMA AnswerKept ==
    ASSUME BaseInv, NEW w \in Worker, Reclaimed(w) \/ Backlog(w) \/ Received(w)
    PROVE  Kept(w)
<1>1. /\ Typed /\ LeadOK(w) /\ lead[w].inbox \subseteq Job /\ taken[w] \in SUBSET Job
      /\ {} \in SUBSET Job
  BY TypesAre, Constants DEF BaseInv, WorkerOK, LeadState
<1>2. UNCHANGED <<added, queue, delivered, owner, idle, late, answers, leader, life, touching,
                  stage, returning, admitted, faults, requeues>>
  BY DEF Reclaimed, Backlog, Received, server, stream, pending, handlers
<1>3. ASSUME lead[w].pc \in Comparing, NEW f \in News(w)
      PROVE  stage[w][f] = "none" /\ w \notin answers[f]
  BY <1>1, <1>3 DEF LeadOK, News, Asking, Comparing
<1>4. CASE Reclaimed(w)
  <2>1. lead[w].pc \in {"scanned", "pruned"} /\ Batch(w, News(w), "own", taken[w])
    BY <1>4 DEF Reclaimed, At
  <2>2. QED
    BY <1>1, <1>2, <1>3, <2>1, BatchKept DEF Comparing, News
<1>5. CASE Backlog(w)
  <2>1. lead[w].pc = "owned" /\ Batch(w, News(w), "read", {})
    BY <1>5 DEF Backlog, At
  <2>2. QED
    BY <1>1, <1>2, <1>3, <2>1, BatchKept DEF Comparing, News
<1>6. CASE Received(w)
  <2>1. lead[w].pc = "answer" /\ Batch(w, lead[w].inbox, "loop", {})
    BY <1>6 DEF Received, At
  <2>2. \A f \in lead[w].inbox : stage[w][f] = "none" /\ w \notin answers[f]
    BY <1>1, <2>1 DEF LeadOK
  <2>3. QED
    BY <1>1, <1>2, <2>1, <2>2, BatchKept
<1>7. QED
  BY <1>4, <1>5, <1>6

\* The next entry of the batch leaves it.
LEMMA NextKept ==
    ASSUME BaseInv, NEW w \in Worker, NEW e \in Job,
           DropLate(w, e) \/ Start(w, e) \/ NotStarted(w, e)
    PROVE  Kept(w)
<1>1. /\ Typed /\ WorkerOK(w) /\ LeadOK(w) /\ life[w] # "down" /\ NextIs(w, e) /\ delivered \in Nat
      /\ \A f \in Held(w) : f <= delivered
      /\ \A f \in Job : stage[w][f] # "none" => f \in taken[w]
  <2>1. Typed /\ WorkerOK(w) /\ NextIs(w, e)
    BY DEF BaseInv, DropLate, Start, NotStarted
  <2>2. QED
    BY <2>1, TypesAre DEF WorkerOK, NextIs, At
<1>2. /\ taken \in [Worker -> SUBSET Job] /\ life \in [Worker -> {"up", "stopping", "down"}]
      /\ touching \in [Worker -> SUBSET Job] /\ returning \in [Worker -> SUBSET Job]
      /\ admitted \in [Worker -> SUBSET Job] /\ stage \in [Worker -> [Job -> Stages]]
      /\ leader \in Worker \cup {Nobody}
      /\ faults \in 0 .. MaxFaults /\ requeues \in 0 .. MaxRequeues
  BY <1>1, TypesAre
<1>3. e \in lead[w].batch /\ e \in taken[w] /\ e <= delivered
  BY <1>1, NextIsFirst DEF LeadOK, Held
<1>4. /\ UNCHANGED <<added, queue, delivered, owner, idle, late, answers, leader, life, touching,
                     returning, admitted, faults, requeues>>
      /\ lead' \in [Worker -> LeadState] /\ \A v \in Worker \ {w} : lead'[v] = lead[v]
      /\ lead'[w].batch = lead[w].batch \ {e} /\ lead'[w].inbox = lead[w].inbox
      /\ \/ /\ lead'[w].pc = "wait" /\ lead'[w].cur = e /\ lead'[w].giving = lead[w].giving
            /\ taken' = taken /\ stage' = [stage EXCEPT ![w][e] = "run"]
         \/ /\ lead'[w].pc = "ack" /\ lead'[w].cur = e /\ lead'[w].giving = lead[w].giving
            /\ e \in late /\ taken' = [taken EXCEPT ![w] = @ \ {e}] /\ stage' = stage
         \/ /\ lead'[w].pc = "give" /\ lead'[w].giving = {e}
            /\ taken' = [taken EXCEPT ![w] = @ \ {e}] /\ stage' = stage
  BY <1>1, DropLateMoves, StartMoves, NotStartedMoves DEF Moves
<1>5. /\ taken' \in [Worker -> SUBSET Job] /\ taken'[w] \in {taken[w], taken[w] \ {e}}
      /\ \A v \in Worker \ {w} : taken'[v] = taken[v]
  BY <1>2, <1>4
<1>6. /\ stage' \in [Worker -> [Job -> Stages]] /\ \A v \in Worker \ {w} : stage'[v] = stage[v]
      /\ \A f \in Job \ {e} : stage'[w][f] = stage[w][f]
      /\ stage'[w][e] # "none" => lead'[w].pc = "wait" \/ stage[w][e] # "none"
  <2>1. CASE lead'[w].pc = "wait" /\ stage' = [stage EXCEPT ![w][e] = "run"]
    BY <1>2, <2>1 DEF Stages
  <2>2. CASE stage' = stage
    BY <1>2, <2>2
  <2>3. QED
    BY <1>4, <2>1, <2>2
<1>7. Others(w)
  BY <1>4, <1>5, <1>6 DEF Others
<1>8. Held(w)' \subseteq Held(w)
  BY <1>3, <1>4, <1>5 DEF Held
<1>9. \A f \in Job : stage'[w][f] # "none" => f \in taken'[w]
  <2>1. stage[w][e] = "none"
    BY <1>1, <1>3 DEF LeadOK
  <2>2. stage'[w][e] # "none" => e \in taken'[w]
    BY <1>3, <1>4, <2>1
  <2>3. QED
    BY <1>1, <1>5, <1>6, <2>2
<1>10. LeadOK(w)'
  <2>1. lead'[w].batch \subseteq taken'[w]
    BY <1>1, <1>4, <1>5 DEF LeadOK
  <2>2. \A f \in lead'[w].batch : stage'[w][f] = "none" /\ w \notin answers'[f]
    <3>1. lead[w].batch \subseteq Job
      BY <1>1, TypesAre DEF LeadState
    <3>2. QED
      BY <1>1, <1>4, <1>6, <3>1 DEF LeadOK
  <2>3. QED
    BY <1>3, <1>4, <2>1, <2>2 DEF LeadOK, Asking, Comparing
<1>11. WorkerOK(w)'
  BY <1>1, <1>4, <1>8, <1>9, <1>10 DEF WorkerOK
<1>12. QED
  BY <1>2, <1>4, <1>5, <1>6, <1>7, <1>11, QuietKept DEF Quiet

-----------------------------------------------------------------------------
(* Steps beside the leading task.                                            *)

LEMMA TypesMake ==
    ASSUME added' \in 0 .. MaxJobs, delivered' \in 0 .. added', queue' \subseteq 1 .. added',
           idle' \subseteq queue', late' \subseteq Mortal,
           owner' \in [Job -> Worker \cup {Nobody}], answers' \in [Job -> SUBSET Worker],
           leader' \in Worker \cup {Nobody}, life' \in [Worker -> {"up", "stopping", "down"}],
           lead' \in [Worker -> LeadState],
           taken' \in [Worker -> SUBSET Job], touching' \in [Worker -> SUBSET Job],
           returning' \in [Worker -> SUBSET Job], admitted' \in [Worker -> SUBSET Job],
           stage' \in [Worker -> [Job -> Stages]],
           faults' \in 0 .. MaxFaults, requeues' \in 0 .. MaxRequeues
    PROVE  Typed'
BY DEF Typed, StateOK

\* The leading task stays where it is, and the worker takes nothing on.
LEMMA LeadStays ==
    ASSUME BaseInv, NEW w \in Worker, Onward(w), delivered' \in Nat,
           lead'[w].pc = lead[w].pc, lead'[w].believes = lead[w].believes,
           lead'[w].snap = lead[w].snap, lead'[w].inbox = lead[w].inbox,
           lead'[w].batch = lead[w].batch, lead'[w].cur = lead[w].cur,
           lead[w].batch \subseteq taken'[w],
           \A f \in Job : stage'[w][f] # "none" => stage[w][f] # "none" /\ f \in taken'[w],
           \A f \in Job : w \in answers'[f] => w \in answers[f] \/ stage[w][f] # "none",
           Held(w)' \subseteq Held(w), life'[w] # "down" \/ life[w] = "down"
    PROVE  WorkerOK(w)'
<1>1. /\ WorkerOK(w) /\ LeadOK(w) /\ delivered \in Nat /\ Held(w) \subseteq Nat
      /\ lead[w].batch \subseteq Job /\ lead[w].inbox \subseteq Job
  BY TypesAre, Constants, ZenonT(30) DEF BaseInv, WorkerOK, Held, LeadState
<1>2. delivered <= delivered' /\ late \subseteq late'
  BY DEF Onward
<1>3. \A f \in Held(w)' : f <= delivered'
  <2>1. \A f \in Held(w) : f \in Nat /\ f <= delivered
    BY <1>1 DEF WorkerOK
  <2>2. QED
    BY <1>1, <1>2, <2>1
<1>4. LeadOK(w)'
  <2>1. \A f \in lead[w].batch : stage'[w][f] = "none" /\ w \notin answers'[f]
    BY <1>1 DEF LeadOK
  <2>2. lead[w].pc \in Asking => \A f \in Job : stage'[w][f] # "none" => f \in lead[w].snap
    BY <1>1 DEF LeadOK
  <2>3. lead[w].pc \in Comparing => \A f \in lead[w].inbox \ lead[w].snap : w \notin answers'[f]
    BY <1>1 DEF LeadOK, Asking, Comparing
  <2>4. lead[w].pc = "answer" => \A f \in lead[w].inbox : stage'[w][f] = "none" /\ w \notin answers'[f]
    BY <1>1 DEF LeadOK
  <2>5. ASSUME NEW f \in Job, f <= delivered PROVE f <= delivered'
    BY <1>1, <1>2, <2>5, Constants
  <2>6. /\ lead[w].pc \in {"wait", "ack", "del"} => lead[w].cur \in Job /\ lead[w].cur <= delivered'
        /\ lead[w].pc \in {"ack", "del"} => lead[w].cur \in late'
    BY <1>1, <1>2, <2>5 DEF LeadOK
  <2>7. lead[w].pc = "del" => owner'[lead[w].cur] = Nobody
    BY <1>1 DEF LeadOK, Onward
  <2>8. QED
    BY <1>1, <2>1, <2>2, <2>3, <2>4, <2>6, <2>7 DEF LeadOK
<1>5. \A f \in Job : stage'[w][f] # "none" => f \in taken'[w]
  OBVIOUS
<1>6. life'[w] = "down" => Held(w)' = {} /\ lead'[w].pc = "off" /\ ~lead'[w].believes
  BY <1>1 DEF WorkerOK
<1>7. QED
  BY <1>3, <1>4, <1>5, <1>6 DEF WorkerOK

\* A step that leaves the queue and the leading task alone.
LEMMA TaskKept ==
    ASSUME BaseInv, NEW w \in Worker,
           UNCHANGED <<added, queue, delivered, owner, idle, late, answers, leader, lead>>,
           life' \in [Worker -> {"up", "stopping", "down"}],
           taken' \in [Worker -> SUBSET Job], touching' \in [Worker -> SUBSET Job],
           returning' \in [Worker -> SUBSET Job], admitted' \in [Worker -> SUBSET Job],
           stage' \in [Worker -> [Job -> Stages]],
           faults' \in 0 .. MaxFaults, requeues' \in 0 .. MaxRequeues,
           Others(w), lead[w].batch \subseteq taken'[w], Held(w)' \subseteq Held(w),
           \A f \in Job : stage'[w][f] # "none" => stage[w][f] # "none" /\ f \in taken'[w],
           life'[w] # "down" \/ life[w] = "down"
    PROVE  Kept(w)
<1>1. /\ Typed /\ delivered \in Nat /\ leader \in Worker \cup {Nobody}
      /\ lead \in [Worker -> LeadState] /\ \A f \in Job : answers[f] \subseteq Worker
  BY TypesAre DEF BaseInv
<1>2. Onward(w)
  BY <1>1 DEF Onward
<1>3. WorkerOK(w)'
  BY <1>1, <1>2, LeadStays
<1>4. QED
  BY <1>1, <1>3, QuietKept DEF Quiet

LEMMA HandlerKept ==
    ASSUME BaseInv, NEW w \in Worker, NEW e \in Job,
           Admit(w, e) \/ Return(w, e) \/ Finished(w, e) \/ Requeue(w, e)
    PROVE  Kept(w)
<1>1. /\ Typed /\ LeadOK(w) /\ life \in [Worker -> {"up", "stopping", "down"}]
      /\ taken \in [Worker -> SUBSET Job] /\ touching \in [Worker -> SUBSET Job]
      /\ returning \in [Worker -> SUBSET Job] /\ admitted \in [Worker -> SUBSET Job]
      /\ stage \in [Worker -> [Job -> Stages]]
      /\ faults \in 0 .. MaxFaults /\ requeues \in 0 .. MaxRequeues
      /\ MaxFaults \in Nat /\ MaxRequeues \in Nat
      /\ \A f \in Job : stage[w][f] # "none" => f \in taken[w]
  BY TypesAre, Constants DEF BaseInv, WorkerOK
<1>2. /\ UNCHANGED <<added, queue, delivered, owner, idle, late, answers, leader, lead, life, touching>>
      /\ stage[w][e] # "none" /\ faults' \in 0 .. MaxFaults /\ requeues' \in 0 .. MaxRequeues
      /\ \/ admitted' = admitted
         \/ admitted' = [admitted EXCEPT ![w] = @ \cup {e}]
         \/ admitted' = [admitted EXCEPT ![w] = @ \ {e}]
      /\ \/ /\ UNCHANGED <<taken, returning>>
            /\ stage' = stage \/ stage' = [stage EXCEPT ![w][e] = "sending"]
         \/ /\ taken' = [taken EXCEPT ![w] = @ \ {e}] /\ stage' = [stage EXCEPT ![w][e] = "none"]
            /\ returning' = returning \/ returning' = [returning EXCEPT ![w] = @ \cup {e}]
  <2>1. CASE Admit(w, e)
    BY <1>1, <2>1 DEF Admit, server, stream, pending
  <2>2. CASE Return(w, e)
    BY <1>1, <2>2 DEF Return, server, stream, pending
  <2>3. CASE Finished(w, e)
    BY <1>1, <2>3 DEF Finished, ForgetAnyway, Forget, NoFault, Fault, server, stream, pending
  <2>4. CASE Requeue(w, e)
    BY <1>1, <2>4 DEF Requeue, Forget, server, stream, pending
  <2>5. QED
    BY <2>1, <2>2, <2>3, <2>4
<1>3. e \in taken[w] /\ e \notin lead[w].batch
  BY <1>1, <1>2 DEF LeadOK
<1>4. /\ admitted' \in [Worker -> SUBSET Job] /\ \A v \in Worker \ {w} : admitted'[v] = admitted[v]
  <2>1. CASE admitted' = admitted
    BY <1>1, <2>1
  <2>2. CASE admitted' = [admitted EXCEPT ![w] = @ \cup {e}]
    BY <1>1, <2>2
  <2>3. CASE admitted' = [admitted EXCEPT ![w] = @ \ {e}]
    BY <1>1, <2>3
  <2>4. QED
    BY <1>2, <2>1, <2>2, <2>3
<1>5. /\ taken' \in [Worker -> SUBSET Job] /\ returning' \in [Worker -> SUBSET Job]
      /\ \A v \in Worker \ {w} : taken'[v] = taken[v] /\ returning'[v] = returning[v]
      /\ taken'[w] \cup {e} = taken[w]
      /\ returning'[w] \subseteq returning[w] \cup {e}
  <2>1. CASE UNCHANGED <<taken, returning>>
    BY <1>1, <1>3, <2>1
  <2>2. CASE taken' = [taken EXCEPT ![w] = @ \ {e}] /\ returning' = returning
    BY <1>1, <1>3, <2>2
  <2>3. CASE /\ taken' = [taken EXCEPT ![w] = @ \ {e}]
             /\ returning' = [returning EXCEPT ![w] = @ \cup {e}]
    BY <1>1, <1>3, <2>3
  <2>4. QED
    BY <1>2, <2>1, <2>2, <2>3
<1>6. /\ stage' \in [Worker -> [Job -> Stages]] /\ \A v \in Worker \ {w} : stage'[v] = stage[v]
      /\ \A f \in Job \ {e} : stage'[w][f] = stage[w][f]
  <2>1. ASSUME NEW s \in Stages, stage' = [stage EXCEPT ![w][e] = s]
        PROVE  /\ stage' \in [Worker -> [Job -> Stages]] /\ \A v \in Worker \ {w} : stage'[v] = stage[v]
               /\ \A f \in Job \ {e} : stage'[w][f] = stage[w][f]
    BY <1>1, <2>1
  <2>2. CASE stage' = stage
    BY <1>1, <2>2
  <2>3. QED
    BY <1>2, <2>1, <2>2 DEF Stages
<1>7. stage'[w][e] # "none" => e \in taken'[w]
  BY <1>1, <1>2, <1>3
<1>8. Others(w)
  BY <1>2, <1>4, <1>5, <1>6 DEF Others
<1>9. Held(w)' \subseteq Held(w)
  BY <1>2, <1>3, <1>5 DEF Held
<1>10. \A f \in Job : stage'[w][f] # "none" => stage[w][f] # "none" /\ f \in taken'[w]
  BY <1>1, <1>2, <1>5, <1>6, <1>7
<1>11. lead[w].batch \subseteq taken'[w]
  BY <1>1, <1>3, <1>5 DEF LeadOK
<1>12. QED
  BY <1>1, <1>2, <1>4, <1>5, <1>6, <1>8, <1>9, <1>10, <1>11, TaskKept

LEMMA TouchKept == ASSUME BaseInv, NEW w \in Worker, Touch(w) \/ Stop(w) PROVE Kept(w)
<1>1. /\ Typed /\ LeadOK(w) /\ life \in [Worker -> {"up", "stopping", "down"}]
      /\ taken \in [Worker -> SUBSET Job] /\ touching \in [Worker -> SUBSET Job]
      /\ returning \in [Worker -> SUBSET Job] /\ admitted \in [Worker -> SUBSET Job]
      /\ stage \in [Worker -> [Job -> Stages]]
      /\ faults \in 0 .. MaxFaults /\ requeues \in 0 .. MaxRequeues
      /\ \A f \in Job : stage[w][f] # "none" => f \in taken[w]
  BY TypesAre DEF BaseInv, WorkerOK
<1>2. /\ UNCHANGED <<added, queue, delivered, owner, idle, late, answers, leader, lead, taken,
                     returning, admitted, stage, faults, requeues>>
      /\ \/ touching' = [touching EXCEPT ![w] = taken[w]] /\ life' = life
         \/ touching' = touching /\ life' = [life EXCEPT ![w] = "stopping"]
  BY DEF Touch, Stop, server, stream, pending, handlers
<1>3. /\ touching' \in [Worker -> SUBSET Job] /\ \A v \in Worker \ {w} : touching'[v] = touching[v]
      /\ touching'[w] \subseteq touching[w] \cup taken[w]
      /\ life' \in [Worker -> {"up", "stopping", "down"}] /\ \A v \in Worker \ {w} : life'[v] = life[v]
      /\ life'[w] # "down" \/ life[w] = "down"
  <2>1. CASE touching' = [touching EXCEPT ![w] = taken[w]] /\ life' = life
    BY <1>1, <2>1
  <2>2. CASE touching' = touching /\ life' = [life EXCEPT ![w] = "stopping"]
    BY <1>1, <2>2
  <2>3. QED
    BY <1>2, <2>1, <2>2
<1>4. Others(w)
  BY <1>2, <1>3 DEF Others
<1>5. Held(w)' \subseteq Held(w)
  BY <1>2, <1>3 DEF Held
<1>6. lead[w].batch \subseteq taken'[w]
  BY <1>1, <1>2 DEF LeadOK
<1>7. QED
  BY <1>1, <1>2, <1>3, <1>4, <1>5, <1>6, TaskKept

LEMMA EndKept == ASSUME BaseInv, NEW w \in Worker, Shutdown(w) \/ Crash(w) PROVE Kept(w)
<1>1. /\ Typed /\ life \in [Worker -> {"up", "stopping", "down"}] /\ lead \in [Worker -> LeadState]
      /\ taken \in [Worker -> SUBSET Job] /\ touching \in [Worker -> SUBSET Job]
      /\ returning \in [Worker -> SUBSET Job] /\ admitted \in [Worker -> SUBSET Job]
      /\ stage \in [Worker -> [Job -> Stages]] /\ leader \in Worker \cup {Nobody}
      /\ faults \in 0 .. MaxFaults /\ requeues \in 0 .. MaxRequeues
      /\ MaxFaults \in Nat /\ {} \in SUBSET Job
  BY TypesAre, Constants DEF BaseInv
<1>2. /\ UNCHANGED <<added, queue, delivered, owner, idle, late, answers, leader, requeues>>
      /\ faults' \in 0 .. MaxFaults /\ End(w)
  BY <1>1 DEF Shutdown, Crash, NoFault, Fault, End, server, stream, pending
<1>3. /\ Idle \in LeadState /\ Idle.pc = "off" /\ Idle.believes = FALSE /\ Idle.inbox = {}
      /\ Idle.giving = {} /\ Idle.batch = {}
  BY Constants DEF Idle, LeadState, Places
<1>4. [e \in Job |-> "none"] \in [Job -> Stages]
  BY DEF Stages
<1>5. /\ life' \in [Worker -> {"up", "stopping", "down"}] /\ lead' \in [Worker -> LeadState]
      /\ taken' \in [Worker -> SUBSET Job] /\ touching' \in [Worker -> SUBSET Job]
      /\ returning' \in [Worker -> SUBSET Job] /\ admitted' \in [Worker -> SUBSET Job]
      /\ lead'[w] = Idle /\ taken'[w] = {} /\ touching'[w] = {} /\ returning'[w] = {}
  BY <1>1, <1>2, <1>3 DEF End
<1>6. stage' \in [Worker -> [Job -> Stages]] /\ \A f \in Job : stage'[w][f] = "none"
  BY <1>1, <1>2, <1>4 DEF End
<1>7. Others(w)
  BY <1>1, <1>2 DEF Others, End
<1>8. Held(w)' = {}
  BY <1>3, <1>5 DEF Held
<1>9. LeadOK(w)'
  BY <1>3, <1>5 DEF LeadOK, Asking, Comparing
<1>10. WorkerOK(w)'
  BY <1>3, <1>5, <1>6, <1>8, <1>9 DEF WorkerOK
<1>11. QED
  BY <1>1, <1>2, <1>5, <1>6, <1>7, <1>10, QuietKept DEF Quiet

-----------------------------------------------------------------------------
(* Commands that change the pending list or the queue.                       *)

\* XCLAIM: what is pending changes hands.
LEMMA ClaimIs ==
    ASSUME Typed, QueueOK, NEW w \in Worker, NEW es \in SUBSET Job, Claim(w, es)
    PROVE  /\ owner' \in [Job -> Worker \cup {Nobody}]
           /\ \A e \in Job : /\ owner'[e] = Nobody <=> owner[e] = Nobody
                             /\ owner'[e] \in {w, owner[e]}
                             /\ e \in es /\ owner[e] # Nobody => owner'[e] = w
                             /\ e \notin es => owner'[e] = owner[e]
<1>1. owner \in [Job -> Worker \cup {Nobody}] /\ w # Nobody
  BY TypesAre, Constants
<1>2. QED
  BY <1>1 DEF Claim

LEMMA ScanKept == ASSUME BaseInv, NEW w \in Worker, Scan(w) PROVE Kept(w)
<1>1. /\ Typed /\ QueueOK /\ LeadOK(w) /\ life[w] # "down" /\ \A f \in Held(w) : f <= delivered
      /\ \A f \in Job : stage[w][f] # "none" => f \in taken[w]
  BY ScanMoves DEF BaseInv, WorkerOK
<1>2. /\ lead[w].pc = "scan" /\ Claim(w, idle) /\ idle' = {}
      /\ UNCHANGED <<added, queue, delivered, late, answers, leader, life, taken, touching, stage,
                     returning, admitted, faults, requeues>>
      /\ lead' \in [Worker -> LeadState] /\ \A v \in Worker \ {w} : lead'[v] = lead[v]
      /\ lead'[w].pc = "scanned" /\ lead'[w].snap = lead[w].snap /\ lead'[w].inbox = idle
      /\ lead'[w].batch = lead[w].batch /\ lead'[w].giving = lead[w].giving
  BY <1>1, ScanMoves DEF Moves
<1>3. /\ owner' \in [Job -> Worker \cup {Nobody}] /\ \A e \in Job : owner'[e] = Nobody <=> owner[e] = Nobody
      /\ idle \subseteq Job /\ idle \subseteq queue
  BY <1>1, <1>2, ClaimIs, TypesAre
<1>4. Typed'
  BY <1>1, <1>2, <1>3, TypesAre, TypesMake
<1>5. QueueOK'
  BY <1>1, <1>2, <1>3 DEF QueueOK
<1>6. Onward(w)
  BY <1>1, <1>2, <1>3, TypesAre DEF Onward
<1>7. Others(w)
  BY <1>2 DEF Others
<1>8. \A f \in idle : f <= delivered /\ w \notin answers[f]
  BY <1>1, <1>3 DEF QueueOK
<1>9. \A f \in Held(w)' : f <= delivered
  BY <1>1, <1>2, <1>8 DEF Held
<1>10. LeadOK(w)'
  BY <1>1, <1>2, <1>8 DEF LeadOK, Asking, Comparing
<1>11. WorkerOK(w)'
  BY <1>1, <1>2, <1>9, <1>10 DEF WorkerOK
<1>12. QED
  BY <1>4, <1>5, <1>6, <1>7, <1>11 DEF Kept

LEMMA ReadOwnKept == ASSUME BaseInv, NEW w \in Worker, ReadOwn(w) PROVE Kept(w)
<1> DEFINE own == {e \in Job : owner[e] = w}
<1>1. /\ Typed /\ QueueOK /\ LeadOK(w) /\ life[w] # "down" /\ \A f \in Held(w) : f <= delivered
      /\ \A f \in Job : stage[w][f] # "none" => f \in taken[w]
  BY ReadOwnMoves DEF BaseInv, WorkerOK
<1>2. /\ lead[w].pc = "own" /\ idle' \subseteq idle
      /\ UNCHANGED <<added, queue, delivered, owner, late, answers, leader, life, taken, touching,
                     stage, returning, admitted, faults, requeues>>
      /\ lead' \in [Worker -> LeadState] /\ \A v \in Worker \ {w} : lead'[v] = lead[v]
      /\ lead'[w].pc = "owned" /\ lead'[w].snap = lead[w].snap /\ lead'[w].inbox = own
      /\ lead'[w].batch = lead[w].batch /\ lead'[w].giving = lead[w].giving
  BY <1>1, ReadOwnMoves DEF Moves
<1>3. idle' \subseteq queue'
  BY <1>1, <1>2, TypesAre
<1>4. Typed'
  BY <1>1, <1>2, <1>3, TypesAre, TypesMake
<1>5. QueueOK'
  BY <1>1, <1>2 DEF QueueOK
<1>6. Onward(w)
  BY <1>1, <1>2, TypesAre DEF Onward
<1>7. Others(w)
  BY <1>2 DEF Others
<1>8. \A f \in own : f <= delivered /\ w \notin answers[f]
  BY <1>1, Constants DEF QueueOK
<1>9. \A f \in Held(w)' : f <= delivered
  BY <1>1, <1>2, <1>8 DEF Held
<1>10. LeadOK(w)'
  BY <1>1, <1>2, <1>8 DEF LeadOK, Asking, Comparing
<1>11. WorkerOK(w)'
  BY <1>1, <1>2, <1>9, <1>10 DEF WorkerOK
<1>12. QED
  BY <1>4, <1>5, <1>6, <1>7, <1>11 DEF Kept

LEMMA ReadKept == ASSUME BaseInv, NEW w \in Worker, Read(w) PROVE Kept(w)
<1>1. /\ Typed /\ QueueOK /\ WorkerOK(w) /\ LeadOK(w) /\ life[w] # "down"
      /\ \A f \in Held(w) : f <= delivered /\ f \in Nat
      /\ \A f \in Job : stage[w][f] # "none" => f \in taken[w]
      /\ added \in 0 .. MaxJobs /\ delivered \in 0 .. added /\ delivered \in Nat /\ queue \subseteq 1 .. added
      /\ queue \subseteq Job /\ Job \subseteq Nat /\ idle \subseteq queue
      /\ owner \in [Job -> Worker \cup {Nobody}] /\ w # Nobody /\ lead \in [Worker -> LeadState]
      /\ \A f \in Job : answers[f] \subseteq Worker
  <2>1. Typed /\ QueueOK /\ WorkerOK(w) /\ Held(w) \subseteq Job
    BY TypesAre DEF BaseInv, Held, LeadState
  <2>2. QED
    BY <2>1, ReadMoves, TypesAre, Constants DEF WorkerOK
<1>2. /\ lead[w].pc = "read" /\ faults' \in 0 .. MaxFaults
      /\ UNCHANGED <<added, queue, idle, late, answers, leader, life, taken, touching, stage,
                     returning, admitted, requeues>>
  BY <1>1, ReadMoves
<1>3. CASE /\ UNCHANGED <<delivered, owner>>
           /\ Moves(w, "answer", lead[w].believes, lead[w].snap, {}, lead[w].batch, lead[w].cur,
                    lead[w].giving)
  <2>1. /\ lead' \in [Worker -> LeadState] /\ \A v \in Worker \ {w} : lead'[v] = lead[v]
        /\ lead'[w].pc = "answer" /\ lead'[w].inbox = {}
        /\ lead'[w].batch = lead[w].batch /\ lead'[w].giving = lead[w].giving
    BY <1>3 DEF Moves
  <2>2. Typed'
    BY <1>1, <1>2, <1>3, <2>1, TypesAre, TypesMake
  <2>3. QueueOK' /\ Onward(w)
    BY <1>1, <1>2, <1>3 DEF QueueOK, Onward
  <2>4. Others(w)
    BY <1>2, <2>1 DEF Others
  <2>5. Held(w)' \subseteq Held(w)
    BY <1>2, <2>1 DEF Held
  <2>6. LeadOK(w)'
    BY <1>1, <1>2, <2>1 DEF LeadOK, Asking, Comparing
  <2>7. WorkerOK(w)'
    BY <1>1, <1>2, <1>3, <2>5, <2>6 DEF WorkerOK
  <2>8. QED
    BY <2>2, <2>3, <2>4, <2>7 DEF Kept
<1>4. ASSUME NEW e \in queue, e > delivered, delivered' = e, owner' = [owner EXCEPT ![e] = w],
             \/ Moves(w, "answer", lead[w].believes, lead[w].snap, {e}, lead[w].batch,
                      lead[w].cur, lead[w].giving)
             \/ lead' = lead
      PROVE  Kept(w)
  <2>1. e \in Job /\ e \in 1 .. added /\ e \in Nat /\ e \notin Held(w) /\ answers[e] = {}
    BY <1>1, <1>4 DEF QueueOK
  <2>2. /\ lead' \in [Worker -> LeadState] /\ \A v \in Worker \ {w} : lead'[v] = lead[v]
        /\ lead'[w].batch = lead[w].batch /\ lead'[w].giving = lead[w].giving
        /\ lead'[w].inbox \subseteq lead[w].inbox \cup {e}
        /\ lead'[w].pc \in {"answer", "read"}
        /\ lead'[w].pc = "answer" => lead'[w].inbox = {e}
    BY <1>1, <1>2, <1>4 DEF Moves
  <2>3. owner' \in [Job -> Worker \cup {Nobody}] /\ owner'[e] = w /\ \A f \in Job \ {e} : owner'[f] = owner[f]
    BY <1>1, <1>4, <2>1
  <2>4. delivered' \in 0 .. added' /\ delivered' \in Nat /\ delivered <= delivered'
    BY <1>1, <1>2, <1>4, <2>1
  <2>5. Typed'
    BY <1>1, <1>2, <2>2, <2>3, <2>4, TypesAre, TypesMake
  <2>6. \A f \in Job : f <= delivered => f <= delivered'
    BY <1>1, <2>4
  <2>7. QueueOK'
    BY <1>1, <1>2, <1>4, <2>1, <2>3, <2>6 DEF QueueOK
  <2>8. Onward(w)
    <3>1. \A f \in Job : owner[f] = Nobody /\ f <= delivered => f # e /\ owner'[f] = Nobody
      BY <1>1, <1>4, <2>3
    <3>2. QED
      BY <1>1, <1>2, <2>4, <3>1 DEF Onward
  <2>9. Others(w)
    BY <1>2, <2>2 DEF Others
  <2>10. \A f \in Held(w)' : f <= delivered'
    <3>1. \A f \in Held(w)' : f \in Held(w) \/ f = e
      BY <1>2, <2>2 DEF Held
    <3>2. QED
      BY <1>1, <1>4, <2>1, <2>4, <3>1
  <2>11. LeadOK(w)'
    <3>1. stage[w][e] = "none"
      BY <1>1, <2>1 DEF Held
    <3>2. QED
      BY <1>1, <1>2, <2>1, <2>2, <3>1 DEF LeadOK, Asking, Comparing
  <2>12. WorkerOK(w)'
    BY <1>1, <1>2, <2>10, <2>11 DEF WorkerOK
  <2>13. QED
    BY <2>5, <2>7, <2>8, <2>9, <2>12 DEF Kept
<1>5. QED
  BY <1>1, <1>3, <1>4, ReadMoves

LEMMA DropKept == ASSUME BaseInv, NEW w \in Worker, AckLate(w) \/ DeleteLate(w) PROVE Kept(w)
<1> DEFINE c == lead[w].cur
<1>1. /\ Typed /\ QueueOK /\ WorkerOK(w) /\ LeadOK(w) /\ life[w] # "down"
      /\ \A f \in Held(w) : f <= delivered
      /\ \A f \in Job : stage[w][f] # "none" => f \in taken[w]
      /\ lead[w].pc \in {"ack", "del"} /\ c \in Job /\ c <= delivered /\ c \in late
  <2>1. Typed /\ QueueOK /\ WorkerOK(w) /\ lead[w].pc \in {"ack", "del"}
    BY AckLateMoves, DeleteLateMoves DEF BaseInv
  <2>2. QED
    BY <2>1 DEF WorkerOK, LeadOK
<1>2. /\ owner \in [Job -> Worker \cup {Nobody}] /\ idle \subseteq queue /\ queue \subseteq 1 .. added
      /\ delivered \in Nat /\ \A f \in Job : answers[f] \subseteq Worker
  BY <1>1, TypesAre
<1>3. CASE AckLate(w)
  <2>1. /\ owner' = [owner EXCEPT ![c] = Nobody] /\ idle' = idle \ {c}
        /\ UNCHANGED <<added, queue, delivered, late, answers, leader, life, taken, touching, stage,
                       returning, admitted, faults, requeues>>
        /\ lead' \in [Worker -> LeadState] /\ \A v \in Worker \ {w} : lead'[v] = lead[v]
        /\ lead'[w].pc = "del" /\ lead'[w].cur = c /\ lead'[w].batch = lead[w].batch
        /\ lead'[w].inbox = lead[w].inbox /\ lead'[w].giving = lead[w].giving
    BY <1>1, <1>3, AckLateMoves DEF Moves
  <2>2. owner' \in [Job -> Worker \cup {Nobody}] /\ owner'[c] = Nobody /\ \A f \in Job \ {c} : owner'[f] = owner[f]
    BY <1>1, <1>2, <2>1
  <2>3. idle' \subseteq queue'
    BY <1>2, <2>1
  <2>4. Typed'
    BY <1>1, <2>1, <2>2, <2>3, TypesAre, TypesMake
  <2>5. idle \subseteq Job
    BY <1>1, TypesAre
  <2>6. QueueOK'
    BY <1>1, <2>1, <2>2, <2>5 DEF QueueOK
  <2>7. Onward(w)
    BY <1>1, <1>2, <2>1, <2>2 DEF Onward
  <2>8. Others(w)
    BY <2>1 DEF Others
  <2>9. Held(w)' \subseteq Held(w)
    BY <2>1 DEF Held
  <2>10. LeadOK(w)'
    BY <1>1, <2>1, <2>2 DEF LeadOK, Asking, Comparing
  <2>11. WorkerOK(w)'
    BY <1>1, <2>1, <2>9, <2>10 DEF WorkerOK
  <2>12. QED
    BY <2>4, <2>6, <2>7, <2>8, <2>11 DEF Kept
<1>4. CASE DeleteLate(w)
  <2>1. /\ queue' = queue \ {c} /\ lead[w].pc = "del"
        /\ UNCHANGED <<added, owner, idle, delivered, late, answers, leader, life, taken, touching,
                       stage, returning, admitted, faults, requeues>>
        /\ lead' \in [Worker -> LeadState] /\ \A v \in Worker \ {w} : lead'[v] = lead[v]
        /\ lead'[w].pc = "batch" /\ lead'[w].batch = lead[w].batch
        /\ lead'[w].inbox = lead[w].inbox /\ lead'[w].giving = lead[w].giving
    BY <1>1, <1>4, DeleteLateMoves DEF Moves
  <2>2. owner[c] = Nobody
    BY <1>1, <2>1 DEF LeadOK
  <2>3. idle' \subseteq queue' /\ queue' \subseteq 1 .. added
    BY <1>1, <1>2, <2>1, <2>2 DEF QueueOK
  <2>4. Typed'
    BY <1>1, <2>1, <2>3, TypesAre, TypesMake
  <2>5. QueueOK'
    BY <1>1, <2>1, <2>2 DEF QueueOK
  <2>6. Onward(w)
    BY <1>2, <2>1 DEF Onward
  <2>7. Others(w)
    BY <2>1 DEF Others
  <2>8. Held(w)' \subseteq Held(w)
    BY <2>1 DEF Held
  <2>9. LeadOK(w)'
    BY <1>1, <2>1 DEF LeadOK, Asking, Comparing
  <2>10. WorkerOK(w)'
    BY <1>1, <2>1, <2>8, <2>9 DEF WorkerOK
  <2>11. QED
    BY <2>4, <2>5, <2>6, <2>7, <2>10 DEF Kept
<1>5. QED
  BY <1>3, <1>4

LEMMA DeleteConsumerKept == ASSUME BaseInv, NEW w \in Worker, DeleteConsumer(w) PROVE Kept(w)
<1> DEFINE v0 == lead[w].victim
<1>1. /\ Typed /\ QueueOK /\ WorkerOK(w) /\ LeadOK(w) /\ life[w] # "down"
      /\ \A f \in Job : stage[w][f] # "none" => f \in taken[w]
      /\ owner \in [Job -> Worker \cup {Nobody}] /\ idle \subseteq queue /\ idle \subseteq Job
      /\ delivered \in Nat /\ \A f \in Job : answers[f] \subseteq Worker
  <2>1. Typed /\ QueueOK /\ WorkerOK(w) /\ lead[w].pc = "prune"
    BY DeleteConsumerMoves DEF BaseInv
  <2>2. QED
    BY <2>1, TypesAre DEF WorkerOK
<1>2. /\ owner' = [f \in Job |-> IF owner[f] = v0 THEN Nobody ELSE owner[f]]
      /\ idle' = {f \in idle : owner[f] # v0}
      /\ UNCHANGED <<added, queue, delivered, late, answers, leader, life, taken, touching, stage,
                     returning, admitted, faults, requeues>>
      /\ lead' \in [Worker -> LeadState] /\ \A v \in Worker \ {w} : lead'[v] = lead[v]
      /\ lead[w].pc = "prune" /\ lead'[w].pc = "pruned" /\ lead'[w].snap = lead[w].snap
      /\ lead'[w].batch = lead[w].batch
      /\ lead'[w].inbox = lead[w].inbox /\ lead'[w].giving = lead[w].giving
  BY <1>1, DeleteConsumerMoves DEF Moves
<1>3. /\ owner' \in [Job -> Worker \cup {Nobody}] /\ \A f \in Job : owner'[f] \in {owner[f], Nobody}
      /\ \A f \in idle' : owner'[f] = owner[f] /\ f \in idle /\ f \in queue'
  BY <1>1, <1>2
<1>4. Typed'
  BY <1>1, <1>2, <1>3, TypesAre, TypesMake
<1>5. QueueOK'
  BY <1>1, <1>2, <1>3 DEF QueueOK
<1>6. Onward(w)
  BY <1>1, <1>2, <1>3 DEF Onward
<1>7. Others(w)
  BY <1>2 DEF Others
<1>8. Held(w)' \subseteq Held(w)
  BY <1>2 DEF Held
<1>9. LeadOK(w)'
  BY <1>1, <1>2 DEF LeadOK, Asking, Comparing
<1>10. WorkerOK(w)'
  BY <1>1, <1>2, <1>8, <1>9 DEF WorkerOK
<1>11. QED
  BY <1>4, <1>5, <1>6, <1>7, <1>10 DEF Kept

\* The touch has been executed, or not.
LEMMA TouchEnds ==
    ASSUME Typed, QueueOK, NEW w \in Worker, TouchDone(w)
    PROVE  /\ owner' \in [Job -> Worker \cup {Nobody}] /\ idle' \subseteq idle
           /\ \A e \in Job : /\ owner'[e] = Nobody <=> owner[e] = Nobody
                             /\ owner'[e] \in {w, owner[e]}
                             /\ e \notin touching[w] => owner'[e] = owner[e]
           /\ owner' = owner \/ idle' = idle \ touching[w]
<1>1. touching[w] \in SUBSET Job /\ owner \in [Job -> Worker \cup {Nobody}]
  BY TypesAre
<1>2. CASE Claim(w, touching[w]) /\ idle' = idle \ touching[w]
  BY <1>1, <1>2, ClaimIs
<1>3. CASE UNCHANGED pending
  BY <1>1, <1>3 DEF pending
<1>4. QED
  BY <1>2, <1>3 DEF TouchDone

LEMMA TouchDoneKept == ASSUME BaseInv, NEW w \in Worker, TouchDone(w) PROVE Kept(w)
<1>1. /\ Typed /\ QueueOK /\ LeadOK(w) /\ touching \in [Worker -> SUBSET Job] /\ touching[w] \in SUBSET Job
      /\ \A f \in Job : stage[w][f] # "none" => f \in taken[w]
      /\ idle \subseteq queue /\ idle \subseteq Job /\ delivered \in Nat /\ {} \in SUBSET Job
      /\ \A f \in Job : answers[f] \subseteq Worker
  BY TypesAre, Constants DEF BaseInv, WorkerOK
<1>2. /\ touching' = [touching EXCEPT ![w] = {}]
      /\ UNCHANGED <<added, queue, delivered, late, answers, leader, life, lead, taken, stage,
                     returning, admitted, requeues>>
  BY DEF TouchDone, stream, handlers
<1>3. /\ owner' \in [Job -> Worker \cup {Nobody}] /\ idle' \subseteq idle
      /\ \A e \in Job : owner'[e] = Nobody <=> owner[e] = Nobody
  BY <1>1, TouchEnds
<1>13. faults' \in 0 .. MaxFaults
  BY <1>1, FaultTyped DEF TouchDone, NoFault, Fault
<1>4. /\ touching' \in [Worker -> SUBSET Job] /\ touching'[w] = {}
      /\ \A v \in Worker \ {w} : touching'[v] = touching[v]
  BY <1>1, <1>2
<1>5. idle' \subseteq idle /\ idle' \subseteq queue'
  BY <1>1, <1>2, <1>3
<1>6. Typed'
  BY <1>1, <1>2, <1>3, <1>4, <1>5, <1>13, TypesAre, TypesMake
<1>7. QueueOK'
  BY <1>1, <1>2, <1>3, <1>5 DEF QueueOK
<1>8. Onward(w)
  BY <1>1, <1>2, <1>3 DEF Onward
<1>9. Others(w)
  BY <1>2, <1>4 DEF Others
<1>10. Held(w)' \subseteq Held(w)
  BY <1>2, <1>4 DEF Held
<1>11. WorkerOK(w)'
  BY <1>1, <1>2, <1>8, <1>10, LeadStays DEF LeadOK
<1>12. QED
  BY <1>6, <1>7, <1>8, <1>9, <1>11 DEF Kept

\* Entries are handed back, or not.
LEMMA GivenBack ==
    ASSUME BaseInv, NEW w \in Worker, NEW es \in SUBSET Job,
           ClaimIdle(w, es) \/ UNCHANGED <<owner, idle>>,
           UNCHANGED <<added, queue, delivered, late, answers>>
    PROVE  /\ owner' \in [Job -> Worker \cup {Nobody}] /\ idle' \subseteq queue'
           /\ QueueOK' /\ Onward(w)
           /\ \A e \in Job : owner'[e] = Nobody <=> owner[e] = Nobody
<1>1. /\ Typed /\ QueueOK /\ owner \in [Job -> Worker \cup {Nobody}] /\ idle \subseteq queue
      /\ idle \subseteq Job /\ delivered \in Nat /\ \A f \in Job : answers[f] \subseteq Worker
  BY TypesAre DEF BaseInv
<1>2. /\ owner' \in [Job -> Worker \cup {Nobody}]
      /\ \A e \in Job : owner'[e] = Nobody <=> owner[e] = Nobody
      /\ idle' \subseteq idle \cup {e \in es : owner[e] # Nobody}
  BY <1>1, ClaimIs DEF ClaimIdle
<1>3. \A e \in idle' : e \in Job /\ owner[e] # Nobody
  BY <1>1, <1>2 DEF QueueOK
<1>4. idle' \subseteq queue'
  BY <1>1, <1>2, <1>3 DEF QueueOK
<1>5. QueueOK'
  BY <1>1, <1>2, <1>3 DEF QueueOK
<1>6. Onward(w)
  BY <1>1, <1>2 DEF Onward
<1>7. QED
  BY <1>2, <1>4, <1>5, <1>6

LEMMA HandBackKept == ASSUME BaseInv, NEW w \in Worker, HandBack(w) PROVE Kept(w)
<1>1. /\ Typed /\ LeadOK(w) /\ life[w] # "down" /\ lead[w] \in LeadState
      /\ \A f \in Held(w) : f <= delivered
      /\ \A f \in Job : stage[w][f] # "none" => f \in taken[w]
      /\ taken \in [Worker -> SUBSET Job] /\ lead[w].batch \subseteq Job /\ lead[w].giving \in SUBSET Job
  <2>1. Typed /\ WorkerOK(w) /\ lead[w].pc = "give"
    BY HandBackMoves DEF BaseInv
  <2>2. lead[w] \in LeadState
    BY <2>1, TypesAre
  <2>3. QED
    BY <2>1, <2>2, TypesAre DEF WorkerOK, LeadState
<1>2. /\ UNCHANGED <<added, queue, delivered, late, answers, leader, life, touching, stage,
                     returning, admitted, requeues>>
      /\ taken' = [taken EXCEPT ![w] = @ \ lead[w].batch] /\ faults' \in 0 .. MaxFaults
      /\ ClaimIdle(w, lead[w].giving) \/ UNCHANGED <<owner, idle>>
      /\ lead' \in [Worker -> LeadState] /\ \A v \in Worker \ {w} : lead'[v] = lead[v]
      /\ lead'[w].pc \in {"give", "release"} /\ lead'[w].batch = {}
      /\ lead'[w].inbox = lead[w].inbox /\ lead'[w].giving = lead[w].batch
  <2>1. /\ UNCHANGED <<added, queue, delivered, late, answers, leader, life, touching, stage,
                       returning, admitted, requeues>>
        /\ taken' = [taken EXCEPT ![w] = @ \ lead[w].batch] /\ faults' \in 0 .. MaxFaults
        /\ ClaimIdle(w, lead[w].giving) \/ UNCHANGED <<owner, idle>>
    BY <1>1, HandBackMoves
  <2>2. /\ lead' \in [Worker -> LeadState] /\ \A v \in Worker \ {w} : lead'[v] = lead[v]
        /\ lead'[w].pc \in {"give", "release"} /\ lead'[w].batch = {}
        /\ lead'[w].inbox = lead[w].inbox /\ lead'[w].giving = lead[w].batch
    BY <1>1, HandBackMoves DEF Moves
  <2>3. QED
    BY <2>1, <2>2
<1>3. /\ owner' \in [Job -> Worker \cup {Nobody}] /\ idle' \subseteq queue' /\ QueueOK' /\ Onward(w)
  BY <1>1, <1>2, GivenBack
<1>4. /\ taken' \in [Worker -> SUBSET Job] /\ taken'[w] = taken[w] \ lead[w].batch
      /\ \A v \in Worker \ {w} : taken'[v] = taken[v]
  BY <1>1, <1>2
<1>5. Typed'
  BY <1>1, <1>2, <1>3, <1>4, TypesAre, TypesMake
<1>6. Others(w)
  BY <1>2, <1>4 DEF Others
<1>7. Held(w)' \subseteq Held(w)
  BY <1>1, <1>2, <1>4 DEF Held, LeadOK
<1>8. LeadOK(w)'
  BY <1>2 DEF LeadOK, Asking, Comparing
<1>9. \A f \in Job : stage'[w][f] # "none" => f \in taken'[w]
  BY <1>1, <1>2, <1>4 DEF LeadOK
<1>10. WorkerOK(w)'
  BY <1>1, <1>2, <1>7, <1>8, <1>9 DEF WorkerOK
<1>11. QED
  BY <1>3, <1>5, <1>6, <1>10 DEF Kept

\* The transaction of _finish.
LEMMA AnswerIs ==
    ASSUME BaseInv, NEW w \in Worker, NEW e \in Job, stage[w][e] # "none", Answer(w, e),
           UNCHANGED <<added, delivered, late>>
    PROVE  /\ owner' \in [Job -> Worker \cup {Nobody}] /\ answers' \in [Job -> SUBSET Worker]
           /\ queue' \subseteq 1 .. added' /\ idle' \subseteq queue' /\ idle' \subseteq idle
           /\ QueueOK' /\ Onward(w)
           /\ \A f \in Job : w \in answers'[f] => w \in answers[f] \/ f = e
           /\ \A f \in Job : f # e => owner'[f] = owner[f]
<1>1. /\ Typed /\ QueueOK /\ owner \in [Job -> Worker \cup {Nobody}] /\ answers \in [Job -> SUBSET Worker]
      /\ queue \subseteq 1 .. added /\ idle \subseteq queue /\ idle \subseteq Job /\ delivered \in Nat
      /\ e <= delivered
  BY TypesAre DEF BaseInv, WorkerOK, Held
<1>2. /\ owner' \in [Job -> Worker \cup {Nobody}] /\ owner'[e] = Nobody
      /\ \A f \in Job : f # e => owner'[f] = owner[f]
      /\ queue' = queue \ {e} /\ idle' = idle \ {e}
  BY <1>1 DEF Answer, Acked, Deleted
<1>3. /\ answers' \in [Job -> SUBSET Worker] /\ answers'[e] = answers[e] \cup {w}
      /\ \A f \in Job : f # e => answers'[f] = answers[f]
  BY <1>1 DEF Answer
<1>4. /\ queue' \subseteq 1 .. added' /\ idle' \subseteq queue' /\ idle' \subseteq idle
  BY <1>1, <1>2
<1>5. QueueOK'
  <2>1. \A f \in Job : owner'[f] # Nobody => f \in queue' /\ f <= delivered'
    BY <1>1, <1>2 DEF QueueOK
  <2>2. \A f \in idle' : owner'[f] # Nobody
    BY <1>1, <1>2 DEF QueueOK
  <2>3. \A f \in Job : answers'[f] # {} => owner'[f] = Nobody /\ f \notin queue' /\ f <= delivered'
    BY <1>1, <1>2, <1>3 DEF QueueOK
  <2>4. QED
    BY <2>1, <2>2, <2>3 DEF QueueOK
<1>6. Onward(w)
  BY <1>1, <1>2, <1>3 DEF Onward
<1>7. QED
  BY <1>2, <1>3, <1>4, <1>5, <1>6

LEMMA FinishKept == ASSUME BaseInv, NEW w \in Worker, NEW e \in Job, Finish(w, e) PROVE Kept(w)
<1>1. /\ Typed /\ LeadOK(w) /\ delivered \in Nat /\ stage \in [Worker -> [Job -> Stages]]
      /\ \A f \in Job : stage[w][f] # "none" => f \in taken[w]
  BY TypesAre DEF BaseInv, WorkerOK
<1>2. /\ stage[w][e] # "none" /\ Answer(w, e) /\ stage' = [stage EXCEPT ![w][e] = "sent"]
      /\ UNCHANGED <<added, delivered, late, leader, life, lead, taken, touching, returning,
                     admitted, faults, requeues>>
  BY DEF Finish
<1>3. /\ owner' \in [Job -> Worker \cup {Nobody}] /\ answers' \in [Job -> SUBSET Worker]
      /\ queue' \subseteq 1 .. added' /\ idle' \subseteq queue'
      /\ QueueOK' /\ Onward(w)
      /\ \A f \in Job : w \in answers'[f] => w \in answers[f] \/ f = e
  BY <1>2, AnswerIs
<1>4. /\ stage' \in [Worker -> [Job -> Stages]] /\ \A v \in Worker \ {w} : stage'[v] = stage[v]
      /\ \A f \in Job : stage'[w][f] # "none" => stage[w][f] # "none"
  BY <1>1, <1>2 DEF Stages
<1>5. Typed'
  BY <1>1, <1>2, <1>3, <1>4, TypesAre, TypesMake
<1>6. Others(w)
  BY <1>2, <1>4 DEF Others
<1>7. Held(w)' \subseteq Held(w)
  BY <1>2 DEF Held
<1>8. WorkerOK(w)'
  <2>1. \A f \in Job : stage'[w][f] # "none" => stage[w][f] # "none" /\ f \in taken'[w]
    BY <1>1, <1>2, <1>4
  <2>2. lead[w].batch \subseteq taken'[w] /\ delivered' \in Nat
    BY <1>1, <1>2 DEF LeadOK
  <2>3. QED
    BY <1>2, <1>3, <1>7, <2>1, <2>2, LeadStays
<1>9. QED
  BY <1>3, <1>5, <1>6, <1>8 DEF Kept

LEMMA RequeuedKept == ASSUME BaseInv, NEW w \in Worker, NEW e \in Job, Requeued(w, e) PROVE Kept(w)
<1>1. /\ Typed /\ LeadOK(w) /\ delivered \in Nat /\ lead \in [Worker -> LeadState]
      /\ lead[w] \in LeadState
      /\ returning \in [Worker -> SUBSET Job] /\ admitted \in [Worker -> SUBSET Job]
      /\ \A f \in Job : stage[w][f] # "none" => f \in taken[w]
      /\ faults \in 0 .. MaxFaults /\ MaxFaults \in Nat
  BY TypesAre, Constants DEF BaseInv, WorkerOK
<1>2. /\ e \in returning[w] /\ GiveBack(w, {e})
      /\ lead' = [lead EXCEPT ![w].due = TRUE]
      /\ returning' = [returning EXCEPT ![w] = @ \ {e}]
      /\ admitted' = [admitted EXCEPT ![w] = @ \ {e}]
      /\ UNCHANGED <<added, queue, delivered, late, answers, leader, life, taken, touching, stage,
                     requeues>>
  BY DEF Requeued, stream, EarlyReclaim
<1>3. faults' \in 0 .. MaxFaults /\ (ClaimIdle(w, {e}) \/ UNCHANGED <<owner, idle>>)
  BY <1>1, <1>2 DEF GiveBack, NoFault, Fault, pending
<1>4. {e} \in SUBSET Job
  OBVIOUS
<1>5. /\ owner' \in [Job -> Worker \cup {Nobody}] /\ idle' \subseteq queue' /\ QueueOK' /\ Onward(w)
  BY <1>2, <1>3, <1>4, GivenBack
<1>6. /\ lead' \in [Worker -> LeadState] /\ \A v \in Worker \ {w} : lead'[v] = lead[v]
      /\ lead'[w].pc = lead[w].pc /\ lead'[w].believes = lead[w].believes
      /\ lead'[w].snap = lead[w].snap /\ lead'[w].inbox = lead[w].inbox
      /\ lead'[w].batch = lead[w].batch /\ lead'[w].cur = lead[w].cur
      /\ lead'[w].giving = lead[w].giving
  BY <1>1, <1>2 DEF LeadState
<1>7. /\ returning' \in [Worker -> SUBSET Job] /\ admitted' \in [Worker -> SUBSET Job]
      /\ returning'[w] \subseteq returning[w]
      /\ \A v \in Worker \ {w} : returning'[v] = returning[v] /\ admitted'[v] = admitted[v]
  BY <1>1, <1>2
<1>8. Typed'
  BY <1>1, <1>2, <1>3, <1>5, <1>6, <1>7, TypesAre, TypesMake
<1>9. Others(w)
  BY <1>2, <1>6, <1>7 DEF Others
<1>10. Held(w)' \subseteq Held(w)
  BY <1>2, <1>6, <1>7 DEF Held
<1>11. WorkerOK(w)'
  <2>1. lead[w].batch \subseteq taken'[w] /\ delivered' \in Nat
    BY <1>1, <1>2 DEF LeadOK
  <2>2. QED
    BY <1>1, <1>2, <1>5, <1>6, <1>10, <2>1, LeadStays
<1>12. QED
  BY <1>5, <1>8, <1>9, <1>11 DEF Kept

\* A handler is cancelled.
LEMMA CancelledIs ==
    ASSUME BaseInv, NEW w \in Worker, NEW e \in Job, Cancelled(w, e),
           UNCHANGED <<added, delivered, late>>
    PROVE  /\ owner' \in [Job -> Worker \cup {Nobody}] /\ answers' \in [Job -> SUBSET Worker]
           /\ queue' \subseteq 1 .. added' /\ idle' \subseteq queue' /\ idle' \subseteq idle
           /\ QueueOK' /\ Onward(w)
           /\ \A f \in Job : w \in answers'[f] => w \in answers[f] \/ (f = e /\ stage[w][f] # "none")
           /\ \A f \in Job : f # e => owner'[f] = owner[f]
           /\ stage' = [stage EXCEPT ![w][e] = "none"]
           /\ stage' \in [Worker -> [Job -> Stages]]
           /\ stage'[w][e] = "none" /\ \A f \in Job : f # e => stage'[w][f] = stage[w][f]
           /\ returning' \in [Worker -> SUBSET Job] /\ returning'[w] = returning[w] \ {e}
           /\ \A v \in Worker \ {w} : stage'[v] = stage[v] /\ returning'[v] = returning[v]
<1>1. /\ Typed /\ QueueOK /\ owner \in [Job -> Worker \cup {Nobody}] /\ answers \in [Job -> SUBSET Worker]
      /\ queue \subseteq 1 .. added /\ idle \subseteq queue /\ delivered \in Nat
      /\ stage \in [Worker -> [Job -> Stages]] /\ returning \in [Worker -> SUBSET Job]
  BY TypesAre DEF BaseInv
<1>2. /\ stage' = [stage EXCEPT ![w][e] = "none"]
      /\ stage' \in [Worker -> [Job -> Stages]]
      /\ stage'[w][e] = "none" /\ \A f \in Job : f # e => stage'[w][f] = stage[w][f]
      /\ \A v \in Worker \ {w} : stage'[v] = stage[v]
  BY <1>1 DEF Cancelled, Stages
<1>3. /\ returning' \in [Worker -> SUBSET Job] /\ returning'[w] = returning[w] \ {e}
      /\ \A v \in Worker \ {w} : returning'[v] = returning[v]
  BY <1>1 DEF Cancelled
<1>4. CASE stage[w][e] = "sending" /\ Answer(w, e)
  <2>1. stage[w][e] # "none" /\ Answer(w, e)
    BY <1>4
  <2>2. /\ owner' \in [Job -> Worker \cup {Nobody}] /\ answers' \in [Job -> SUBSET Worker]
        /\ queue' \subseteq 1 .. added' /\ idle' \subseteq queue' /\ idle' \subseteq idle
        /\ QueueOK' /\ Onward(w)
        /\ \A f \in Job : w \in answers'[f] => w \in answers[f] \/ f = e
        /\ \A f \in Job : f # e => owner'[f] = owner[f]
    BY <2>1, AnswerIs
  <2>3. QED
    BY <1>2, <1>3, <2>1, <2>2
<1>5. CASE UNCHANGED <<queue, pending, answers>>
  <2>1. UNCHANGED <<queue, owner, idle, answers>>
    BY <1>5 DEF pending
  <2>2. QueueOK' /\ Onward(w)
    BY <1>1, <2>1 DEF QueueOK, Onward
  <2>3. QED
    BY <1>1, <1>2, <1>3, <2>1, <2>2
<1>6. QED
  BY <1>4, <1>5 DEF Cancelled

LEMMA AbandonKept == ASSUME BaseInv, NEW w \in Worker, Abandon(w) PROVE Kept(w)
<1> DEFINE e == lead[w].cur
<1>1. /\ Typed /\ LeadOK(w) /\ WorkerOK(w) /\ delivered \in Nat /\ taken \in [Worker -> SUBSET Job]
      /\ lead[w].pc = "wait" /\ e \in Job /\ e <= delivered /\ life[w] # "down"
      /\ \A f \in Held(w) : f <= delivered
      /\ \A f \in Job : stage[w][f] # "none" => f \in taken[w]
      /\ lead[w].batch \subseteq Job
  <2>1. Typed /\ WorkerOK(w) /\ lead[w].pc = "wait"
    BY AbandonMoves DEF BaseInv
  <2>2. QED
    BY <2>1, TypesAre DEF WorkerOK, LeadOK, LeadState
<1>2. /\ UNCHANGED <<added, delivered, late, leader, life, touching, admitted, faults, requeues>>
      /\ Cancelled(w, e) /\ taken' = [taken EXCEPT ![w] = @ \ {e}]
      /\ lead' \in [Worker -> LeadState] /\ \A v \in Worker \ {w} : lead'[v] = lead[v]
      /\ lead'[w].pc = "give" /\ lead'[w].batch = lead[w].batch \ {e}
      /\ lead'[w].inbox = lead[w].inbox /\ lead'[w].giving = {e}
  BY <1>1, AbandonMoves DEF Moves
<1> HIDE DEF e
<1>3. /\ owner' \in [Job -> Worker \cup {Nobody}] /\ answers' \in [Job -> SUBSET Worker]
      /\ queue' \subseteq 1 .. added' /\ idle' \subseteq queue' /\ QueueOK' /\ Onward(w)
      /\ \A f \in Job : w \in answers'[f] => w \in answers[f] \/ f = e
      /\ stage' \in [Worker -> [Job -> Stages]]
      /\ stage'[w][e] = "none" /\ \A f \in Job : f # e => stage'[w][f] = stage[w][f]
      /\ returning' \in [Worker -> SUBSET Job] /\ returning'[w] = returning[w] \ {e}
      /\ \A v \in Worker \ {w} : stage'[v] = stage[v] /\ returning'[v] = returning[v]
  BY <1>1, <1>2, CancelledIs
<1>4. /\ taken' \in [Worker -> SUBSET Job] /\ taken'[w] = taken[w] \ {e}
      /\ \A v \in Worker \ {w} : taken'[v] = taken[v]
  BY <1>1, <1>2
<1>5. Typed'
  BY <1>1, <1>2, <1>3, <1>4, TypesAre, TypesMake
<1>6. Others(w)
  BY <1>2, <1>3, <1>4 DEF Others
<1>7. \A f \in Held(w)' : f <= delivered'
  <2>1. Held(w)' \subseteq Held(w) \cup {e}
    BY <1>2, <1>3, <1>4 DEF Held
  <2>2. QED
    BY <1>1, <1>2, <2>1
<1>8. LeadOK(w)'
  <2>1. lead'[w].batch \subseteq taken'[w]
    BY <1>1, <1>2, <1>4 DEF LeadOK
  <2>2. \A f \in lead'[w].batch : stage'[w][f] = "none" /\ w \notin answers'[f]
    BY <1>1, <1>2, <1>3 DEF LeadOK
  <2>3. QED
    BY <1>2, <2>1, <2>2 DEF LeadOK, Asking, Comparing
<1>9. \A f \in Job : stage'[w][f] # "none" => f \in taken'[w]
  BY <1>1, <1>3, <1>4
<1>10. WorkerOK(w)'
  BY <1>1, <1>2, <1>7, <1>8, <1>9 DEF WorkerOK
<1>11. QED
  BY <1>3, <1>5, <1>6, <1>10 DEF Kept

LEMMA HardStopKept == ASSUME BaseInv, NEW w \in Worker, NEW e \in Job, HardStop(w, e) PROVE Kept(w)
<1>1. /\ Typed /\ LeadOK(w) /\ WorkerOK(w) /\ delivered \in Nat
      /\ taken \in [Worker -> SUBSET Job] /\ admitted \in [Worker -> SUBSET Job]
      /\ lead \in [Worker -> LeadState] /\ lead[w].batch \subseteq Job
      /\ life[w] # "down"
      /\ \A f \in Held(w) : f <= delivered
      /\ \A f \in Job : stage[w][f] # "none" => f \in taken[w]
      /\ faults \in 0 .. MaxFaults /\ MaxFaults \in Nat
  <2>1. Typed /\ WorkerOK(w) /\ life[w] = "stopping"
    BY DEF HardStop, BaseInv
  <2>2. QED
    BY <2>1, TypesAre, Constants DEF WorkerOK, LeadState
<1>2. /\ UNCHANGED <<added, delivered, late, leader, life, touching, requeues>>
      /\ Cancelled(w, e) /\ faults' \in 0 .. MaxFaults
      /\ admitted' = [admitted EXCEPT ![w] = @ \ {e}]
      /\ \/ lead[w].pc = "wait" /\ lead[w].cur = e /\ HandingBack(w, e)
         \/ UNCHANGED <<taken, lead>>
  <2>1. /\ UNCHANGED <<added, delivered, late, leader, life, touching, requeues>>
        /\ Cancelled(w, e) /\ Fault("hard stop")
        /\ admitted' = [admitted EXCEPT ![w] = @ \ {e}]
        /\ \/ lead[w].pc = "wait" /\ lead[w].cur = e /\ HandingBack(w, e)
           \/ UNCHANGED <<taken, lead>>
    BY DEF HardStop, At
  <2>2. faults' \in 0 .. MaxFaults
    BY <1>1, <2>1, FaultTyped DEF Fault
  <2>3. QED
    BY <2>1, <2>2
<1>3. /\ owner' \in [Job -> Worker \cup {Nobody}] /\ answers' \in [Job -> SUBSET Worker]
      /\ queue' \subseteq 1 .. added' /\ idle' \subseteq queue' /\ QueueOK' /\ Onward(w)
      /\ \A f \in Job : w \in answers'[f] => w \in answers[f] \/ (f = e /\ stage[w][f] # "none")
      /\ stage' \in [Worker -> [Job -> Stages]]
      /\ stage'[w][e] = "none" /\ \A f \in Job : f # e => stage'[w][f] = stage[w][f]
      /\ returning' \in [Worker -> SUBSET Job] /\ returning'[w] = returning[w] \ {e}
      /\ \A v \in Worker \ {w} : stage'[v] = stage[v] /\ returning'[v] = returning[v]
  BY <1>1, <1>2, CancelledIs
<1>4. /\ admitted' \in [Worker -> SUBSET Job]
      /\ \A v \in Worker \ {w} : admitted'[v] = admitted[v]
  BY <1>1, <1>2
<1>5. CASE lead[w].pc = "wait" /\ lead[w].cur = e /\ HandingBack(w, e)
  <2>1. /\ taken' = [taken EXCEPT ![w] = @ \ {e}] /\ e <= delivered
        /\ lead' \in [Worker -> LeadState] /\ \A v \in Worker \ {w} : lead'[v] = lead[v]
        /\ lead'[w].pc = "give" /\ lead'[w].batch = lead[w].batch \ {e}
        /\ lead'[w].inbox = lead[w].inbox /\ lead'[w].giving = {e}
    BY <1>1, <1>5, HandingBackMoves DEF Moves, LeadOK
  <2>2. /\ taken' \in [Worker -> SUBSET Job] /\ taken'[w] = taken[w] \ {e}
        /\ \A v \in Worker \ {w} : taken'[v] = taken[v]
    BY <1>1, <2>1
  <2>3. Typed'
    BY <1>1, <1>2, <1>3, <1>4, <2>1, <2>2, TypesAre, TypesMake
  <2>4. Others(w)
    BY <1>2, <1>3, <1>4, <2>1, <2>2 DEF Others
  <2>5. \A f \in Held(w)' : f <= delivered'
    <3>1. Held(w)' \subseteq Held(w) \cup {e}
      BY <1>2, <1>3, <2>1, <2>2 DEF Held
    <3>2. QED
      BY <1>1, <1>2, <2>1, <3>1
  <2>6. LeadOK(w)'
    <3>1. lead'[w].batch \subseteq taken'[w]
      BY <1>1, <2>1, <2>2 DEF LeadOK
    <3>2. \A f \in lead'[w].batch : stage'[w][f] = "none" /\ w \notin answers'[f]
      BY <1>1, <1>3, <2>1 DEF LeadOK
    <3>3. QED
      BY <2>1, <3>1, <3>2 DEF LeadOK, Asking, Comparing
  <2>7. \A f \in Job : stage'[w][f] # "none" => f \in taken'[w]
    BY <1>1, <1>3, <2>2
  <2>8. WorkerOK(w)'
    BY <1>1, <1>2, <2>5, <2>6, <2>7 DEF WorkerOK
  <2>9. QED
    BY <1>3, <2>3, <2>4, <2>8 DEF Kept
<1>6. CASE UNCHANGED <<taken, lead>>
  <2>1. Typed'
    BY <1>1, <1>2, <1>3, <1>4, <1>6, TypesAre, TypesMake
  <2>2. Others(w)
    BY <1>2, <1>3, <1>4, <1>6 DEF Others
  <2>3. Held(w)' \subseteq Held(w)
    BY <1>2, <1>3, <1>6 DEF Held
  <2>4. \A f \in Job : stage'[w][f] # "none" => stage[w][f] # "none" /\ f \in taken'[w]
    BY <1>1, <1>3, <1>6
  <2>5. lead[w].batch \subseteq taken'[w] /\ delivered' \in Nat
    BY <1>1, <1>2, <1>6 DEF LeadOK
  <2>6. WorkerOK(w)'
    BY <1>1, <1>2, <1>3, <1>6, <2>3, <2>4, <2>5, LeadStays
  <2>7. QED
    BY <1>3, <2>1, <2>2, <2>6 DEF Kept
<1>7. QED
  BY <1>2, <1>5, <1>6

-----------------------------------------------------------------------------
(* Every step keeps the invariant.                                           *)

\* Steps of the server, and of those that submit.
LEMMA WorldKept ==
    ASSUME BaseInv, Submit \/ LeaseEnds \/ (\E e \in Job : DeadlinePasses(e) \/ Age(e))
    PROVE  BaseInv'
<1>1. /\ Typed /\ QueueOK /\ added \in 0 .. MaxJobs /\ delivered \in 0 .. added /\ delivered \in Nat
      /\ queue \subseteq 1 .. added /\ idle \subseteq queue /\ late \subseteq Mortal
      /\ leader \in Worker \cup {Nobody} /\ faults \in 0 .. MaxFaults
      /\ MaxJobs \in Nat /\ MaxFaults \in Nat
  BY TypesAre, Constants DEF BaseInv
<1>2. /\ UNCHANGED <<delivered, owner, answers, life, lead, taken, touching, stage, returning,
                     admitted, requeues>>
      /\ late \subseteq late' /\ late' \subseteq Mortal
      /\ added' \in 0 .. MaxJobs /\ added <= added' /\ queue \subseteq queue' /\ queue' \subseteq 1 .. added'
      /\ \A f \in Job : f \in queue' \ queue => f = added + 1
      /\ idle' \subseteq queue' /\ \A f \in idle' : owner[f] # Nobody
      /\ leader' \in Worker \cup {Nobody} /\ faults' \in 0 .. MaxFaults
  <2>1. CASE Submit
    <3>1. /\ added' = added + 1 /\ queue' = queue \cup {added + 1} /\ added < MaxJobs
          /\ UNCHANGED <<delivered, owner, idle, late, answers, leader, life, lead, taken, touching,
                         stage, returning, admitted, faults, requeues>>
      BY <2>1 DEF Submit, pending, handlers
    <3>2. added' \in 0 .. MaxJobs /\ added <= added' /\ 1 .. added \subseteq 1 .. added' /\ added + 1 \in 1 .. added'
      BY <1>1, <3>1
    <3>3. queue \subseteq queue' /\ queue' \subseteq 1 .. added' /\ idle \subseteq queue'
      BY <1>1, <3>1, <3>2
    <3>4. \A f \in idle : owner[f] # Nobody
      BY <1>1 DEF QueueOK
    <3>5. QED
      BY <1>1, <3>1, <3>2, <3>3, <3>4
  <2>2. CASE LeaseEnds
    BY <1>1, <2>2 DEF LeaseEnds, Fault, NoFault, stream, pending, handlers, QueueOK
  <2>3. CASE \E e \in Job : DeadlinePasses(e)
    BY <1>1, <2>3 DEF DeadlinePasses, stream, pending, handlers, QueueOK
  <2>4. CASE \E e \in Job : Age(e)
    <3>1. PICK e \in Job : Age(e)
      BY <2>4
    <3>2. /\ owner[e] # Nobody /\ e \in queue /\ idle' = idle \cup {e}
          /\ UNCHANGED <<added, queue, delivered, owner, late, answers, leader, life, lead, taken,
                         touching, stage, returning, admitted, requeues>>
          /\ faults' \in 0 .. MaxFaults
      BY <1>1, <3>1 DEF Age, Fault, NoFault, stream, handlers
    <3>3. idle' \subseteq queue' /\ \A f \in idle' : owner[f] # Nobody
      BY <1>1, <3>2 DEF QueueOK
    <3>4. QED
      BY <1>1, <3>2, <3>3
  <2>5. QED
    BY <2>1, <2>2, <2>3, <2>4
<1>3. delivered' \in 0 .. added'
  BY <1>1, <1>2
<1>4. Typed'
  BY <1>1, <1>2, <1>3, TypesAre, TypesMake
<1>5. QueueOK'
  <2>1. \A f \in Job : answers[f] # {} => f \notin queue'
    <3>1. ASSUME NEW f \in Job, answers[f] # {} PROVE f # added + 1
      BY <1>1, <3>1, Constants DEF QueueOK
    <3>2. QED
      BY <1>1, <1>2, <3>1 DEF QueueOK
  <2>2. QED
    BY <1>1, <1>2, <2>1 DEF QueueOK
<1>6. Onward(Nobody)
  BY <1>1, <1>2 DEF Onward
<1>7. ASSUME NEW v \in Worker PROVE WorkerOK(v)'
  BY <1>2, <1>4, <1>6, OthersKeep, Constants
<1>8. QED
  BY <1>4, <1>5, <1>7 DEF BaseInv

LEMMA LeadKept == ASSUME BaseInv, NEW w \in Worker, Lead(w) PROVE Kept(w)
<1>1. CASE LeaveLoop(w)
  BY <1>1, LeaveLoopKept
<1>2. CASE Turn(w)
  BY <1>2, TurnKept
<1>3. CASE Scan(w)
  BY <1>3, ScanKept
<1>4. CASE DeleteConsumer(w)
  BY <1>4, DeleteConsumerKept
<1>5. CASE Reclaimed(w) \/ Backlog(w) \/ Received(w)
  BY <1>5, AnswerKept
<1>6. CASE ReadOwn(w)
  BY <1>6, ReadOwnKept
<1>7. CASE Read(w)
  BY <1>7, ReadKept
<1>8. CASE BatchDone(w)
  BY <1>8, BatchDoneKept
<1>9. CASE AckLate(w) \/ DeleteLate(w)
  BY <1>9, DropKept
<1>10. CASE \E e \in Job : DropLate(w, e) \/ Start(w, e) \/ NotStarted(w, e)
  BY <1>10, NextKept
<1>11. CASE MoveOn(w)
  BY <1>11, MoveOnKept
<1>12. CASE Abandon(w)
  BY <1>12, AbandonKept
<1>13. CASE HandBack(w)
  BY <1>13, HandBackKept
<1>14. CASE Release(w)
  BY <1>14, ReleaseKept
<1>15. QED
  BY <1>1, <1>2, <1>3, <1>4, <1>5, <1>6, <1>7, <1>8, <1>9, <1>10, <1>11, <1>12, <1>13, <1>14 DEF Lead

\* A step of the worker beside its leading task.
Beside(w) ==
    \/ Elect(w) \/ LearnLoss(w) \/ LeadFails(w) \/ ReclaimTimer(w) \/ Inspect(w)
    \/ Touch(w) \/ TouchDone(w)
    \/ Stop(w) \/ Shutdown(w) \/ Crash(w)
    \/ \E e \in Job : Handle(w, e) \/ Admit(w, e) \/ Requeue(w, e) \/ HardStop(w, e)

LEMMA BesideKept == ASSUME BaseInv, NEW w \in Worker, Beside(w) PROVE Kept(w)
<1>1. CASE Elect(w)
  BY <1>1, ElectKept
<1>2. CASE LearnLoss(w)
  BY <1>2, LearnLossKept
<1>3. CASE LeadFails(w)
  BY <1>3, LeadFailsKept
<1>4. CASE ReclaimTimer(w)
  BY <1>4, ReclaimTimerKept
<1>5. CASE Inspect(w)
  BY <1>5, InspectKept
<1>6. CASE Touch(w) \/ Stop(w)
  BY <1>6, TouchKept
<1>7. CASE TouchDone(w)
  BY <1>7, TouchDoneKept
<1>8. CASE Shutdown(w) \/ Crash(w)
  BY <1>8, EndKept
<1>9. ASSUME NEW e \in Job, Handle(w, e) \/ Admit(w, e) \/ Requeue(w, e) \/ HardStop(w, e)
      PROVE  Kept(w)
  <2>1. CASE Return(w, e) \/ Finished(w, e) \/ Admit(w, e) \/ Requeue(w, e)
    BY <2>1, HandlerKept
  <2>2. CASE Finish(w, e)
    BY <2>2, FinishKept
  <2>3. CASE Requeued(w, e)
    BY <2>3, RequeuedKept
  <2>4. CASE HardStop(w, e)
    BY <2>4, HardStopKept
  <2>5. QED
    BY <1>9, <2>1, <2>2, <2>3, <2>4 DEF Handle
<1>10. QED
  BY <1>1, <1>2, <1>3, <1>4, <1>5, <1>6, <1>7, <1>8, <1>9 DEF Beside

\* A step is one of the world or of a worker, or none.
LEMMA StepsAre ==
    ASSUME [Next]_vars
    PROVE  \/ Submit \/ LeaseEnds \/ \E e \in Job : DeadlinePasses(e) \/ Age(e)
           \/ \E w \in Worker : Lead(w) \/ Beside(w)
           \/ UNCHANGED vars
BY DEF Next, Beside

LEMMA StartInvariant == ASSUME Init PROVE BaseInv
<1>1. /\ MaxJobs \in Nat /\ MaxFaults \in Nat /\ MaxRequeues \in Nat /\ {} \in SUBSET Job
      /\ 0 \in 0 .. MaxJobs
  BY Constants
<1>2. /\ Idle \in LeadState /\ Idle.pc = "off" /\ Idle.inbox = {} /\ Idle.giving = {} /\ Idle.batch = {}
  BY <1>1 DEF Idle, LeadState, Places
<1>3. Nowhere \in [Worker -> SUBSET Job] /\ \A w \in Worker : Nowhere[w] = {}
  BY <1>1 DEF Nowhere
<1>4. Typed
  BY <1>1, <1>2, <1>3 DEF Init, Typed, StateOK, Stages
<1>5. QueueOK
  BY DEF Init, QueueOK
<1>6. ASSUME NEW w \in Worker PROVE WorkerOK(w)
  <2>1. /\ lead[w] = Idle /\ taken[w] = {} /\ touching[w] = {} /\ returning[w] = {}
        /\ life[w] = "up" /\ \A e \in Job : stage[w][e] = "none"
    BY <1>3 DEF Init
  <2>2. LeadOK(w) /\ Held(w) = {}
    BY <1>2, <2>1 DEF LeadOK, Held, Asking, Comparing
  <2>3. QED
    BY <2>1, <2>2 DEF WorkerOK
<1>7. QED
  BY <1>4, <1>5, <1>6 DEF BaseInv

LEMMA StepInvariant == ASSUME BaseInv, [Next]_vars PROVE BaseInv'
<1>1. CASE Submit \/ LeaseEnds \/ \E e \in Job : DeadlinePasses(e) \/ Age(e)
  BY <1>1, WorldKept
<1>2. ASSUME NEW w \in Worker, Lead(w) \/ Beside(w) PROVE BaseInv'
  BY <1>2, LeadKept, BesideKept, KeptIsEnough
<1>3. CASE UNCHANGED vars
  <2>1. /\ UNCHANGED <<added, queue, delivered, owner, idle, late, answers, leader, life, lead,
                       taken, touching, stage, returning, admitted, faults, requeues>>
    BY <1>3 DEF vars, server, stream, pending, handlers
  <2>2. Typed' /\ QueueOK'
    BY <2>1 DEF BaseInv, Typed, StateOK, QueueOK
  <2>3. ASSUME NEW v \in Worker PROVE WorkerOK(v)'
    BY <2>1 DEF BaseInv, WorkerOK, LeadOK, Held
  <2>4. QED
    BY <2>2, <2>3 DEF BaseInv
<1>4. QED
  BY <1>1, <1>2, <1>3, StepsAre

LEMMA Invariance == Spec => []BaseInv
<1>1. Init => BaseInv
  BY StartInvariant
<1>2. BaseInv /\ [Next]_vars => BaseInv'
  BY StepInvariant
<1>3. QED
  BY <1>1, <1>2, PTL DEF Spec

-----------------------------------------------------------------------------
(* What a step may not do.                                                   *)

\* Only the start of a job leads from the batch to a running job.
LEMMA WaitMeansStart ==
    ASSUME BaseInv, [Next]_vars, NEW w \in Worker, lead[w].pc = "batch", lead'[w].pc = "wait"
    PROVE  \E e \in Job : Start(w, e)
<1>1. /\ Typed /\ lead \in [Worker -> LeadState] /\ lead[w] \in LeadState
  BY TypesAre DEF BaseInv
<1>2. CASE Submit \/ LeaseEnds \/ \E e \in Job : DeadlinePasses(e) \/ Age(e)
  BY <1>2 DEF Submit, LeaseEnds, DeadlinePasses, Age
<1>3. ASSUME NEW v \in Worker, v # w, Lead(v) \/ Beside(v) PROVE FALSE
  BY <1>3, LeadKept, BesideKept DEF Kept, Others
<1>4. CASE Lead(w)
  <2>1. BatchDone(w) \/ \E e \in Job : DropLate(w, e) \/ Start(w, e) \/ NotStarted(w, e)
    BY <1>4 DEF Lead, LeaveLoop, Turn, Scan, DeleteConsumer, Reclaimed, ReadOwn, Backlog, Read,
                Received, AckLate, DeleteLate, MoveOn, Abandon, HandBack, Release, At
  <2>2. ~BatchDone(w)
    BY <1>1, BatchDoneMoves DEF Moves
  <2>3. ASSUME NEW e \in Job PROVE ~DropLate(w, e) /\ ~NotStarted(w, e)
    BY <1>1, DropLateMoves, NotStartedMoves DEF Moves
  <2>4. QED
    BY <2>1, <2>2, <2>3
<1>5. CASE Beside(w)
  <2>1. CASE LearnLoss(w)
    BY <1>1, <2>1, LearnLossMoves DEF Moves
  <2>2. CASE Elect(w) \/ LeadFails(w) \/ ReclaimTimer(w) \/ Inspect(w)
    BY <2>2 DEF Elect, LeadFails, ReclaimTimer, Inspect, At
  <2>3. CASE Touch(w) \/ TouchDone(w) \/ Stop(w)
    BY <2>3 DEF Touch, TouchDone, Stop
  <2>4. CASE Shutdown(w) \/ Crash(w)
    <3>1. lead'[w] = Idle
      BY <1>1, <2>4 DEF Shutdown, Crash, End
    <3>2. QED
      BY <3>1 DEF Idle
  <2>5. ASSUME NEW e \in Job, Handle(w, e) \/ Admit(w, e) \/ Requeue(w, e) \/ HardStop(w, e)
        PROVE  FALSE
    <3>1. CASE Return(w, e) \/ Finish(w, e) \/ Finished(w, e) \/ Admit(w, e) \/ Requeue(w, e)
      BY <3>1 DEF Return, Finish, Finished, Admit, Requeue
    <3>2. CASE Requeued(w, e)
      BY <1>1, <3>2 DEF Requeued, LeadState
    <3>3. CASE HardStop(w, e)
      BY <3>3 DEF HardStop, At
    <3>4. QED
      BY <2>5, <3>1, <3>2, <3>3 DEF Handle
  <2>6. QED
    BY <1>5, <2>1, <2>2, <2>3, <2>4, <2>5 DEF Beside
<1>6. CASE UNCHANGED vars
  BY <1>6 DEF vars
<1>7. QED
  BY <1>2, <1>3, <1>4, <1>5, <1>6, StepsAre

\* A worker never starts a job it is already running or has already answered,
\* whatever was under way when it asked Redis for the batch (NoRerun).
THEOREM StartsOnce == Spec => NoRerun
<1>1. ASSUME BaseInv, [Next]_vars, NEW w \in Worker, At(w, "batch"), lead'[w].pc = "wait"
      PROVE  stage[w][lead'[w].cur] = "none" /\ w \notin answers[lead'[w].cur]
  <2>1. PICK e \in Job : Start(w, e)
    BY <1>1, WaitMeansStart DEF At
  <2>2. NextIs(w, e) /\ lead'[w].cur = e
    BY <1>1, <2>1, StartMoves DEF Moves, BaseInv
  <2>3. e \in lead[w].batch
    BY <1>1, <2>2, NextIsFirst DEF BaseInv
  <2>4. QED
    BY <1>1, <2>2, <2>3 DEF BaseInv, WorkerOK, LeadOK
<1>2. BaseInv /\ [Next]_vars =>
         [\A w \in Worker : (At(w, "batch") /\ lead'[w].pc = "wait") =>
             stage[w][lead'[w].cur] = "none" /\ w \notin answers[lead'[w].cur]]_vars
  BY <1>1
<1>3. QED
  BY <1>2, Invariance, PTL DEF Spec, NoRerun

-----------------------------------------------------------------------------
(* What is handed back.                                                      *)

\* What a worker touches, or will touch as soon as it has seen an answer.
Seen(w) == taken[w] \cup touching[w] \cup lead[w].inbox

\* Where a leading task may have a batch.
Dispatching == {"batch", "wait", "ack", "del", "give"}

\* What is about to be handed back is not touched any more, unless the leading task
\* has taken it again.
BackOK(w) ==
    /\ lead[w].pc \notin Dispatching => lead[w].batch = {}
    /\ lead[w].pc = "give" => lead[w].giving \cap taken[w] = {}
    /\ \A e \in returning[w] \cap taken[w] : e \in lead[w].batch \/ stage[w][e] # "none"

\* What has been handed back is pending for a worker that does not touch it.
HandedOK == \A e \in handed : e \in idle /\ owner[e] \in Worker /\ e \notin Seen(owner[e])

HandInv == consumers \subseteq Worker /\ HandedOK /\ \A w \in Worker : BackOK(w)

\* The step of a worker: what stays handed back keeps its owner, what is added is its
\* own.
LEMMA HandedKept ==
    ASSUME HandedOK, NEW w \in Worker, Others(w),
           \A e \in handed' :
              /\ e \in idle'
              /\ \/ e \in handed /\ owner'[e] = owner[e] /\ (owner[e] = w => e \notin Seen(w)')
                 \/ owner'[e] = w /\ e \notin Seen(w)'
    PROVE  HandedOK'
<1>1. \A v \in Worker \ {w} : Seen(v)' = Seen(v)
  BY DEF Others, Seen
<1>2. ASSUME NEW e \in handed' PROVE e \in idle' /\ \E v \in Worker : owner'[e] = v /\ e \notin Seen(v)'
  <2>1. CASE e \in handed /\ owner'[e] = owner[e] /\ (owner[e] = w => e \notin Seen(w)')
    <3>1. owner[e] \in Worker /\ e \notin Seen(owner[e])
      BY <2>1 DEF HandedOK
    <3>2. QED
      BY <1>1, <2>1, <3>1
  <2>2. CASE owner'[e] = w /\ e \notin Seen(w)'
    BY <2>2
  <2>3. QED
    BY <2>1, <2>2
<1>3. QED
  BY <1>2 DEF HandedOK, Seen

\* A step that hands nothing back, and after which its worker touches nothing more.
LEMMA GentlyKept ==
    ASSUME HandedOK, NEW w \in Worker, Others(w), Seen(w)' \subseteq Seen(w), handed' \subseteq handed,
           \A e \in handed' : e \in idle' /\ owner'[e] = owner[e]
    PROVE  HandedOK'
<1>1. ASSUME NEW e \in handed' PROVE owner[e] = w => e \notin Seen(w)'
  BY DEF HandedOK
<1>2. QED
  BY <1>1, HandedKept

\* Entries are acknowledged, or nothing happens to them.
LEMMA AckedKept ==
    ASSUME Typed, HandedOK, NEW w \in Worker, NEW f \in Job, Others(w), Seen(w)' \subseteq Seen(w),
           Acked(f) \/ UNCHANGED pending
    PROVE  HandedOK'
<1>1. owner \in [Job -> Worker \cup {Nobody}] /\ idle \subseteq Job
  BY TypesAre
<1>2. handed' \subseteq handed /\ \A e \in handed' : e \in idle' /\ owner'[e] = owner[e]
  BY <1>1 DEF Acked, pending, HandedOK
<1>3. QED
  BY <1>2, GentlyKept

\* A hand-back.
LEMMA GivenKept ==
    ASSUME Typed, QueueOK, HandedOK, NEW w \in Worker, NEW es \in SUBSET Job, GiveBack(w, es),
           Others(w), touching'[w] = {}, taken'[w] \subseteq taken[w], touching[w] = {},
           lead'[w].inbox = lead[w].inbox,
           \A e \in es : e \in taken[w] => TakenAgain(w, e)
    PROVE  HandedOK'
<1>1. Seen(w)' \subseteq Seen(w)
  BY DEF Seen
<1>2. CASE UNCHANGED pending
  BY <1>1, <1>2, GentlyKept DEF pending, HandedOK
<1>3. CASE ClaimIdle(w, es)
  <2>1. /\ idle \subseteq idle'
        /\ \A e \in handed' : \/ e \in handed \ es
                              \/ e \in es /\ e \in idle' /\ owner[e] # Nobody /\ ~TakenAgain(w, e)
    BY <1>3 DEF ClaimIdle
  <2>2. \A e \in Job : /\ e \in es /\ owner[e] # Nobody => owner'[e] = w
                       /\ e \notin es => owner'[e] = owner[e]
    BY <1>3, ClaimIs DEF ClaimIdle
  <2>3. \A e \in handed : e \in Job /\ e \in idle
    BY TypesAre DEF HandedOK
  <2>4. ASSUME NEW e \in handed'
        PROVE  /\ e \in idle'
               /\ \/ e \in handed /\ owner'[e] = owner[e] /\ (owner[e] = w => e \notin Seen(w)')
                  \/ owner'[e] = w /\ e \notin Seen(w)'
    <3>1. CASE e \in handed \ es
      BY <1>1, <2>1, <2>2, <2>3, <3>1 DEF HandedOK
    <3>2. CASE e \in es /\ e \in idle' /\ owner[e] # Nobody /\ ~TakenAgain(w, e)
      <4>1. e \notin taken[w] /\ e \notin lead[w].inbox
        BY <3>2 DEF TakenAgain
      <4>2. e \notin Seen(w)'
        BY <1>1, <4>1 DEF Seen
      <4>3. QED
        BY <2>2, <3>2, <4>2
    <3>3. QED
      BY <2>1, <3>1, <3>2
  <2>5. QED
    BY <2>4, HandedKept
<1>4. QED
  BY <1>2, <1>3 DEF GiveBack

LEMMA LeadHanded ==
    ASSUME BaseInv, NEW w \in Worker, HandedOK, BackOK(w), Lead(w) PROVE HandedOK'
<1>1. /\ Typed /\ QueueOK /\ Others(w) /\ LeadOK(w) /\ lead[w] \in LeadState
      /\ taken \in [Worker -> SUBSET Job] /\ idle \subseteq Job /\ delivered \in Nat
      /\ owner \in [Job -> Worker \cup {Nobody}] /\ lead[w].giving \in SUBSET Job /\ Job \subseteq Nat
  BY TypesAre, LeadKept, Constants DEF BaseInv, WorkerOK, LeadState, Kept
<1>2. \A e \in handed : e \in Job /\ e \in idle /\ owner[e] \in Worker
  BY <1>1 DEF HandedOK
<1>3. CASE LeaveLoop(w) \/ Turn(w) \/ BatchDone(w) \/ MoveOn(w) \/ Release(w) \/ DeleteLate(w)
  <2>1. UNCHANGED <<owner, idle, taken, touching>> /\ lead'[w].inbox \subseteq lead[w].inbox
    BY <1>1, <1>3, LeaveLoopMoves, TurnMoves, BatchDoneMoves, MoveOnMoves, ReleaseMoves,
       DeleteLateMoves DEF Moves
  <2>2. handed' = handed
    BY <1>3 DEF LeaveLoop, Turn, BatchDone, MoveOn, Release, DeleteLate, server, pending
  <2>3. QED
    BY <1>1, <1>2, <2>1, <2>2, GentlyKept DEF Seen
<1>4. CASE Reclaimed(w) \/ Backlog(w) \/ Received(w)
  <2>1. /\ UNCHANGED <<owner, idle, touching>> /\ taken'[w] \subseteq taken[w] \cup lead[w].inbox
        /\ lead'[w].inbox = {}
    BY <1>1, <1>4, ReclaimedMoves, BacklogMoves, ReceivedMoves DEF Moves
  <2>2. handed' = handed
    BY <1>4 DEF Reclaimed, Backlog, Received, server, pending
  <2>3. QED
    BY <1>1, <1>2, <2>1, <2>2, GentlyKept DEF Seen
<1>5. ASSUME NEW e \in Job, DropLate(w, e) \/ Start(w, e) \/ NotStarted(w, e) PROVE HandedOK'
  <2>1. /\ UNCHANGED <<owner, idle, touching>> /\ taken'[w] \subseteq taken[w]
        /\ lead'[w].inbox = lead[w].inbox
    BY <1>1, <1>5, DropLateMoves, StartMoves, NotStartedMoves DEF Moves
  <2>2. handed' = handed
    BY <1>5 DEF DropLate, Start, NotStarted, server, pending
  <2>3. QED
    BY <1>1, <1>2, <2>1, <2>2, GentlyKept DEF Seen
<1>6. CASE Scan(w)
  <2>1. handed' = {}
    BY <1>2, <1>6 DEF Scan
  <2>2. QED
    BY <2>1 DEF HandedOK
<1>7. CASE DeleteConsumer(w)
  <2>1. UNCHANGED <<taken, touching>> /\ lead'[w].inbox = lead[w].inbox
    BY <1>1, <1>7, DeleteConsumerMoves DEF Moves
  <2>2. handed' \subseteq handed /\ \A e \in handed' : e \in idle' /\ owner'[e] = owner[e]
    BY <1>1, <1>2, <1>7 DEF DeleteConsumer
  <2>3. QED
    BY <1>1, <2>1, <2>2, GentlyKept DEF Seen
<1>8. CASE ReadOwn(w)
  <2>1. \A e \in handed' : e \in handed /\ e \in idle' /\ owner[e] # w /\ owner'[e] = owner[e]
    BY <1>1, <1>2, <1>8 DEF ReadOwn
  <2>2. QED
    BY <1>1, <2>1, HandedKept
<1>9. CASE Read(w)
  <2>1. UNCHANGED <<taken, touching, idle>> /\ handed' = handed
    BY <1>9 DEF Read
  <2>2. \A e \in handed : e <= delivered
    BY <1>1, <1>2, Constants DEF QueueOK
  <2>3. CASE owner' = owner /\ lead'[w].inbox = {}
    BY <1>1, <1>2, <2>1, <2>3, GentlyKept DEF Seen
  <2>4. ASSUME NEW f \in Job, f > delivered, owner' = [owner EXCEPT ![f] = w],
               lead'[w].inbox = {f} \/ lead' = lead
        PROVE  HandedOK'
    <3>1. f \notin handed
      BY <1>1, <2>2, <2>4
    <3>2. ASSUME NEW e \in handed'
          PROVE  e \in idle' /\ e \in handed /\ owner'[e] = owner[e] /\ (owner[e] = w => e \notin Seen(w)')
      <4>1. e \in handed /\ e # f /\ owner'[e] = owner[e] /\ e \in idle'
        BY <1>1, <1>2, <2>1, <2>4, <3>1
      <4>2. owner[e] = w => e \notin Seen(w)
        BY <4>1 DEF HandedOK
      <4>3. QED
        BY <2>1, <2>4, <4>1, <4>2 DEF Seen
    <3>3. QED
      BY <1>1, <3>2, HandedKept
  <2>5. QED
    <3>1. queue \subseteq Job
      BY <1>1, TypesAre
    <3>2. QED
      BY <1>1, <1>9, <2>3, <2>4, <3>1, ReadMoves DEF Moves
<1>10. CASE AckLate(w)
  <2>1. /\ UNCHANGED <<taken, touching>> /\ lead'[w].inbox = lead[w].inbox /\ lead[w].pc = "ack"
    BY <1>1, <1>10, AckLateMoves DEF Moves
  <2>2. lead[w].cur \in Job /\ Acked(lead[w].cur)
    BY <1>1, <1>10, <2>1 DEF LeadOK, AckLate
  <2>3. QED
    BY <1>1, <2>1, <2>2, AckedKept DEF Seen
<1>11. CASE Abandon(w)
  <2>1. /\ lead[w].pc = "wait" /\ touching' = touching /\ taken'[w] \subseteq taken[w]
        /\ lead'[w].inbox = lead[w].inbox /\ Cancelled(w, lead[w].cur)
    BY <1>1, <1>11, AbandonMoves DEF Moves
  <2>2. lead[w].cur \in Job /\ (Acked(lead[w].cur) \/ UNCHANGED pending)
    BY <1>1, <2>1 DEF LeadOK, Cancelled, Answer, pending
  <2>3. QED
    BY <1>1, <2>1, <2>2, AckedKept DEF Seen
<1>12. CASE HandBack(w)
  <2>1. /\ lead[w].pc = "give" /\ touching[w] = {} /\ touching' = touching
        /\ taken'[w] \subseteq taken[w] /\ lead'[w].inbox = lead[w].inbox
    BY <1>1, <1>12, HandBackMoves DEF Moves
  <2>2. GiveBack(w, lead[w].giving) /\ lead[w].giving \cap taken[w] = {}
    BY <1>12, <2>1 DEF HandBack, BackOK
  <2>3. QED
    BY <1>1, <2>1, <2>2, GivenKept
<1>13. QED
  BY <1>3, <1>4, <1>5, <1>6, <1>7, <1>8, <1>9, <1>10, <1>11, <1>12 DEF Lead

LEMMA BesideHanded ==
    ASSUME BaseInv, NEW w \in Worker, HandedOK, BackOK(w), Beside(w) PROVE HandedOK'
<1>1. /\ Typed /\ QueueOK /\ Others(w) /\ lead[w] \in LeadState /\ lead \in [Worker -> LeadState]
      /\ taken \in [Worker -> SUBSET Job] /\ touching \in [Worker -> SUBSET Job] /\ idle \subseteq Job
      /\ owner \in [Job -> Worker \cup {Nobody}]
  BY TypesAre, BesideKept DEF BaseInv, Kept
<1>2. \A e \in handed : e \in Job /\ e \in idle /\ owner[e] \in Worker
  BY <1>1 DEF HandedOK
<1>3. CASE Elect(w) \/ LearnLoss(w) \/ LeadFails(w) \/ ReclaimTimer(w) \/ Inspect(w)
  <2>1. /\ UNCHANGED <<owner, idle, touching>> /\ taken'[w] \subseteq taken[w]
        /\ lead'[w].inbox \subseteq lead[w].inbox
    <3>1. CASE LeadFails(w)
      BY <1>1, <3>1, LeadFailsMoves DEF Moves
    <3>2. CASE Elect(w) \/ LearnLoss(w) \/ ReclaimTimer(w) \/ Inspect(w)
      BY <1>1, <3>2, ElectMoves, LearnLossMoves, ReclaimTimerMoves, InspectMoves DEF Moves
    <3>3. QED
      BY <1>3, <3>1, <3>2
  <2>2. handed' = handed
    BY <1>3 DEF Elect, LearnLoss, LeadFails, ReclaimTimer, Inspect, server, pending
  <2>3. QED
    BY <1>1, <1>2, <2>1, <2>2, GentlyKept DEF Seen
<1>4. CASE Touch(w) \/ Stop(w)
  <2>1. /\ UNCHANGED <<owner, idle, handed, taken, lead>>
        /\ touching'[w] \subseteq touching[w] \cup taken[w]
    BY <1>1, <1>4 DEF Touch, Stop, server, pending
  <2>2. QED
    BY <1>1, <1>2, <2>1, GentlyKept DEF Seen
<1>5. CASE Shutdown(w) \/ Crash(w)
  <2>1. /\ UNCHANGED <<owner, idle, handed>> /\ lead'[w] = Idle /\ taken'[w] = {} /\ touching'[w] = {}
    BY <1>1, <1>5 DEF Shutdown, Crash, End, server, pending
  <2>2. QED
    BY <1>1, <1>2, <2>1, GentlyKept DEF Seen, Idle
<1>6. CASE TouchDone(w)
  <2>1. touching[w] \in SUBSET Job /\ UNCHANGED <<taken, lead>> /\ touching'[w] = {}
    BY <1>1, <1>6 DEF TouchDone
  <2>2. CASE UNCHANGED pending
    BY <1>1, <1>2, <2>1, <2>2, GentlyKept DEF Seen, pending
  <2>3. CASE /\ Claim(w, touching[w]) /\ idle' = idle \ touching[w]
             /\ handed' = handed \ {e \in touching[w] : owner[e] # w}
    <3>1. ASSUME NEW e \in handed' PROVE e \in handed /\ e \notin touching[w]
      <4>1. e \in handed /\ (owner[e] = w => e \notin touching[w])
        BY <2>3 DEF HandedOK, Seen
      <4>2. QED
        BY <2>3, <4>1
    <3>2. \A e \in handed' : e \in idle' /\ owner'[e] = owner[e]
      BY <1>1, <1>2, <2>1, <2>3, <3>1, ClaimIs
    <3>3. QED
      BY <1>1, <2>1, <3>1, <3>2, GentlyKept DEF Seen
  <2>4. QED
    BY <1>6, <2>2, <2>3 DEF TouchDone
<1>7. ASSUME NEW e \in Job, Handle(w, e) \/ Admit(w, e) \/ Requeue(w, e) \/ HardStop(w, e)
      PROVE  HandedOK'
  <2>1. CASE Return(w, e) \/ Finish(w, e) \/ Finished(w, e) \/ Admit(w, e) \/ Requeue(w, e)
    <3>1. UNCHANGED <<lead, touching>> /\ taken'[w] \subseteq taken[w]
      BY <1>1, <2>1 DEF Return, Finish, Finished, Admit, Requeue, ForgetAnyway, Forget
    <3>2. Acked(e) \/ UNCHANGED pending
      BY <2>1 DEF Return, Finish, Finished, Admit, Requeue, Answer, server
    <3>3. QED
      BY <1>1, <3>1, <3>2, AckedKept DEF Seen
  <2>2. CASE Requeued(w, e)
    <3>1. /\ UNCHANGED <<taken, touching>> /\ touching[w] = {} /\ lead'[w].inbox = lead[w].inbox
          /\ e \in returning[w] /\ GiveBack(w, {e}) /\ {e} \in SUBSET Job
      BY <1>1, <2>2 DEF Requeued, LockFree, LeadState
    <3>2. e \in taken[w] => TakenAgain(w, e)
      BY <3>1 DEF BackOK, TakenAgain
    <3>3. QED
      BY <1>1, <3>1, <3>2, GivenKept
  <2>3. CASE HardStop(w, e)
    <3>1. /\ Cancelled(w, e) /\ touching' = touching
          /\ HandingBack(w, e) \/ UNCHANGED <<taken, lead>>
      BY <2>3 DEF HardStop
    <3>2. taken'[w] \subseteq taken[w] /\ lead'[w].inbox = lead[w].inbox
      BY <1>1, <3>1, HandingBackMoves DEF Moves
    <3>3. Acked(e) \/ UNCHANGED pending
      BY <3>1 DEF Cancelled, Answer, pending
    <3>4. QED
      BY <1>1, <3>1, <3>2, <3>3, AckedKept DEF Seen
  <2>4. QED
    BY <1>7, <2>1, <2>2, <2>3 DEF Handle
<1>8. QED
  BY <1>3, <1>4, <1>5, <1>6, <1>7 DEF Beside

\* A step that changes neither what a worker takes nor what it has in its batch.
LEMMA BackStays ==
    ASSUME NEW w \in Worker, BackOK(w), taken'[w] \subseteq taken[w], returning'[w] \subseteq returning[w],
           \A f \in Job : stage'[w][f] = "none" => stage[w][f] = "none" \/ f \notin returning'[w] \cap taken'[w],
           returning[w] \subseteq Job,
           lead'[w].pc = lead[w].pc, lead'[w].batch = lead[w].batch, lead'[w].giving = lead[w].giving
    PROVE  BackOK(w)'
BY DEF BackOK

\* A step after which the worker has no batch, and hands back only what it does not
\* touch.
LEMMA BackEnds ==
    ASSUME NEW w \in Worker, lead'[w].batch = {},
           lead'[w].pc = "give" => lead'[w].giving \cap taken'[w] = {},
           \A f \in returning'[w] \cap taken'[w] : stage'[w][f] # "none"
    PROVE  BackOK(w)'
BY DEF BackOK

LEMMA LeadBack ==
    ASSUME BaseInv, NEW w \in Worker, BackOK(w), Lead(w) PROVE BackOK(w)'
<1>1. /\ Typed /\ LeadOK(w) /\ lead[w] \in LeadState
      /\ taken \in [Worker -> SUBSET Job] /\ returning \in [Worker -> SUBSET Job]
      /\ returning[w] \subseteq Job /\ stage \in [Worker -> [Job -> Stages]]
      /\ lead[w].batch \subseteq Job
  BY TypesAre DEF BaseInv, WorkerOK, LeadState
<1>2. CASE LeaveLoop(w) \/ Turn(w) \/ MoveOn(w) \/ Scan(w) \/ DeleteConsumer(w) \/ ReadOwn(w)
           \/ AckLate(w) \/ DeleteLate(w)
  <2>1. /\ UNCHANGED <<taken, returning, stage>> /\ lead'[w].batch = lead[w].batch
        /\ lead'[w].pc # "give" /\ (lead'[w].pc \in Dispatching \/ lead[w].pc \notin Dispatching)
    BY <1>1, <1>2, LeaveLoopMoves, TurnMoves, MoveOnMoves, ScanMoves, DeleteConsumerMoves, ReadOwnMoves,
       AckLateMoves, DeleteLateMoves DEF Moves, Dispatching
  <2>2. QED
    BY <2>1 DEF BackOK
<1>3. CASE BatchDone(w) \/ Release(w)
  <2>1. /\ UNCHANGED <<taken, returning, stage>> /\ lead[w].batch = {} /\ lead'[w].batch = {}
        /\ lead'[w].pc # "give"
    BY <1>1, <1>3, BatchDoneMoves, ReleaseMoves DEF Moves, BatchDone, BackOK, Dispatching
  <2>2. QED
    BY <2>1, BackEnds DEF BackOK
<1>4. CASE Read(w)
  <2>1. /\ UNCHANGED <<taken, returning, stage>> /\ lead[w].pc = "read" /\ lead'[w].batch = lead[w].batch
        /\ lead'[w].pc # "give"
    BY <1>1, <1>4, ReadMoves DEF Moves
  <2>2. QED
    BY <2>1, BackEnds DEF BackOK, Dispatching
<1>5. ASSUME NEW es \in SUBSET Job, taken'[w] = taken[w] \cup es, lead'[w].batch = es,
             lead'[w].pc # "give", es = {} \/ lead'[w].pc = "batch", lead[w].batch = {},
             UNCHANGED <<returning, stage>>
      PROVE  BackOK(w)'
  BY <1>5 DEF BackOK, Dispatching
<1>6. CASE Reclaimed(w) \/ Backlog(w) \/ Received(w)
  <2>1. lead[w].pc \notin Dispatching /\ UNCHANGED <<returning, stage>>
    BY <1>1, <1>6, ReclaimedMoves, BacklogMoves, ReceivedMoves DEF Dispatching
  <2>2. \E es \in SUBSET Job : /\ taken'[w] = taken[w] \cup es /\ lead'[w].batch = es
                               /\ lead'[w].pc # "give" /\ (es = {} \/ lead'[w].pc = "batch")
    <3>1. lead[w].inbox \in SUBSET Job /\ lead[w].inbox \ lead[w].snap \in SUBSET Job
      BY <1>1 DEF LeadState
    <3>2. CASE Received(w)
      <4>1. taken'[w] = taken[w] \cup lead[w].inbox
        BY <1>1, <3>2, ReceivedMoves
      <4>2. /\ lead'[w].batch = lead[w].inbox /\ lead'[w].pc # "give"
            /\ lead[w].inbox = {} \/ lead'[w].pc = "batch"
        BY <1>1, <3>2, ReceivedMoves DEF Moves
      <4>3. QED
        BY <3>1, <4>1, <4>2
    <3>3. CASE Reclaimed(w)
      <4>1. taken'[w] = taken[w] \cup (lead[w].inbox \ lead[w].snap)
        BY <1>1, <3>3, ReclaimedMoves
      <4>2. /\ lead'[w].batch = (lead[w].inbox \ lead[w].snap) /\ lead'[w].pc # "give"
            /\ (lead[w].inbox \ lead[w].snap) = {} \/ lead'[w].pc = "batch"
        BY <1>1, <3>3, ReclaimedMoves DEF Moves
      <4>3. QED
        BY <3>1, <4>1, <4>2
    <3>4. CASE Backlog(w)
      <4>1. taken'[w] = taken[w] \cup (lead[w].inbox \ lead[w].snap)
        BY <1>1, <3>4, BacklogMoves
      <4>2. /\ lead'[w].batch = (lead[w].inbox \ lead[w].snap) /\ lead'[w].pc # "give"
            /\ (lead[w].inbox \ lead[w].snap) = {} \/ lead'[w].pc = "batch"
        BY <1>1, <3>4, BacklogMoves DEF Moves
      <4>3. QED
        BY <3>1, <4>1, <4>2
    <3>5. QED
      BY <1>6, <3>2, <3>3, <3>4
  <2>3. QED
    BY <1>5, <2>1, <2>2 DEF BackOK
<1>7. ASSUME NEW e \in Job, DropLate(w, e) \/ NotStarted(w, e) PROVE BackOK(w)'
  <2>1. /\ UNCHANGED <<returning, stage>> /\ taken'[w] = taken[w] \ {e}
        /\ lead'[w].batch = lead[w].batch \ {e} /\ lead'[w].pc \in Dispatching
        /\ lead'[w].pc = "give" => lead'[w].giving = {e}
    BY <1>1, <1>7, DropLateMoves, NotStartedMoves DEF Moves, Dispatching
  <2>2. QED
    BY <2>1 DEF BackOK
<1>8. ASSUME NEW e \in Job, Start(w, e) PROVE BackOK(w)'
  <2>1. /\ UNCHANGED <<returning, taken>> /\ lead'[w].batch = lead[w].batch \ {e} /\ lead'[w].pc = "wait"
        /\ stage'[w][e] = "run" /\ \A f \in Job \ {e} : stage'[w][f] = stage[w][f]
    BY <1>1, <1>8, StartMoves DEF Moves
  <2>2. QED
    BY <1>1, <2>1 DEF BackOK, Dispatching
<1>9. CASE Abandon(w)
  <2> DEFINE e == lead[w].cur
  <2>1. /\ e \in Job /\ Cancelled(w, e) /\ taken'[w] = taken[w] \ {e}
        /\ lead'[w].batch = lead[w].batch \ {e} /\ lead'[w].pc = "give" /\ lead'[w].giving = {e}
    BY <1>1, <1>9, AbandonMoves DEF Moves, LeadOK
  <2> HIDE DEF e
  <2>2. /\ returning'[w] = returning[w] \ {e} /\ \A f \in Job \ {e} : stage'[w][f] = stage[w][f]
    BY <1>1, <2>1 DEF Cancelled
  <2>3. QED
    BY <1>1, <2>1, <2>2 DEF BackOK, Dispatching
<1>10. CASE HandBack(w)
  <2>1. /\ UNCHANGED <<returning, stage>> /\ taken'[w] = taken[w] \ lead[w].batch
        /\ lead'[w].batch = {} /\ lead'[w].giving = lead[w].batch
    BY <1>1, <1>10, HandBackMoves DEF Moves
  <2>2. QED
    BY <2>1, BackEnds DEF BackOK
<1>11. QED
  BY <1>2, <1>3, <1>4, <1>6, <1>7, <1>8, <1>9, <1>10 DEF Lead

LEMMA BesideBack ==
    ASSUME BaseInv, NEW w \in Worker, BackOK(w), Beside(w) PROVE BackOK(w)'
<1>1. /\ Typed /\ lead[w] \in LeadState /\ lead \in [Worker -> LeadState]
      /\ taken \in [Worker -> SUBSET Job] /\ returning \in [Worker -> SUBSET Job]
      /\ returning[w] \subseteq Job /\ stage \in [Worker -> [Job -> Stages]]
  BY TypesAre DEF BaseInv
<1>2. CASE LeadFails(w)
  <2>1. /\ UNCHANGED <<returning, stage>> /\ taken'[w] = taken[w] \ lead[w].batch
        /\ lead'[w].batch = {} /\ lead'[w].pc = "release"
    BY <1>1, <1>2, LeadFailsMoves DEF Moves
  <2>2. QED
    BY <2>1, BackEnds DEF BackOK
<1>3. CASE Elect(w) \/ LearnLoss(w) \/ ReclaimTimer(w) \/ Inspect(w)
  <2>1. /\ UNCHANGED <<taken, returning, stage>> /\ lead'[w].batch = lead[w].batch
        /\ lead'[w].giving = lead[w].giving
        /\ lead'[w].pc = lead[w].pc \/ (lead[w].pc \notin Dispatching /\ lead'[w].pc # "give")
    BY <1>1, <1>3, ElectMoves, LearnLossMoves, ReclaimTimerMoves, InspectMoves DEF Moves, Dispatching
  <2>2. QED
    BY <2>1, BackEnds DEF BackOK
<1>4. CASE Touch(w) \/ TouchDone(w) \/ Stop(w)
  BY <1>4 DEF Touch, TouchDone, Stop, handlers, BackOK
<1>5. CASE Shutdown(w) \/ Crash(w)
  <2>1. lead'[w] = Idle /\ taken'[w] = {}
    BY <1>1, <1>5 DEF Shutdown, Crash, End
  <2>2. QED
    BY <2>1, BackEnds DEF Idle
<1>6. ASSUME NEW e \in Job, Handle(w, e) \/ Admit(w, e) \/ Requeue(w, e) \/ HardStop(w, e)
      PROVE  BackOK(w)'
  <2>1. CASE Return(w, e) \/ Finish(w, e) \/ Admit(w, e)
    <3>1. /\ UNCHANGED <<lead, taken, returning>> /\ stage'[w][e] # "none"
          /\ \A f \in Job \ {e} : stage'[w][f] = stage[w][f]
      BY <1>1, <2>1 DEF Return, Finish, Admit
    <3>2. QED
      BY <1>1, <3>1, BackStays
  <2>2. CASE Finished(w, e) \/ Requeue(w, e)
    <3>1. /\ lead' = lead /\ taken'[w] = taken[w] \ {e} /\ returning'[w] \subseteq returning[w] \cup {e}
          /\ \A f \in Job \ {e} : stage'[w][f] = stage[w][f]
      BY <1>1, <2>2 DEF Finished, Requeue, ForgetAnyway, Forget
    <3>2. QED
      BY <1>1, <3>1 DEF BackOK
  <2>3. CASE Requeued(w, e)
    <3>1. /\ UNCHANGED <<taken, stage>> /\ returning'[w] \subseteq returning[w]
          /\ lead'[w].pc = lead[w].pc /\ lead'[w].batch = lead[w].batch /\ lead'[w].giving = lead[w].giving
      BY <1>1, <2>3 DEF Requeued, LeadState
    <3>2. QED
      BY <1>1, <3>1, BackStays
  <2>4. CASE HardStop(w, e)
    <3>1. Cancelled(w, e) /\ (HandingBack(w, e) \/ UNCHANGED <<taken, lead>>)
      BY <2>4 DEF HardStop
    <3>2. /\ returning'[w] = returning[w] \ {e} /\ \A f \in Job \ {e} : stage'[w][f] = stage[w][f]
      BY <1>1, <3>1 DEF Cancelled
    <3>3. CASE UNCHANGED <<taken, lead>>
      BY <1>1, <3>2, <3>3, BackStays
    <3>4. CASE HandingBack(w, e)
      <4>1. /\ taken'[w] = taken[w] \ {e} /\ lead'[w].batch = lead[w].batch \ {e}
            /\ lead'[w].pc = "give" /\ lead'[w].giving = {e}
        BY <1>1, <3>4, HandingBackMoves DEF Moves
      <4>2. QED
        BY <1>1, <3>2, <4>1 DEF BackOK, Dispatching
    <3>5. QED
      BY <3>1, <3>3, <3>4
  <2>5. QED
    BY <1>6, <2>1, <2>2, <2>3, <2>4 DEF Handle
<1>7. QED
  BY <1>2, <1>3, <1>4, <1>5, <1>6 DEF Beside

\* Redis knows workers only.
LEMMA ConsumersKept ==
    ASSUME BaseInv, consumers \subseteq Worker, NEW w \in Worker, Lead(w) \/ Beside(w)
    PROVE  consumers' \subseteq consumers \cup {w}
<1>1. ASSUME NEW es, GiveBack(w, es) PROVE consumers' \subseteq consumers \cup {w}
  BY <1>1 DEF GiveBack, ClaimIdle, Claim, Known, pending
<1>2. ASSUME NEW e, Cancelled(w, e) PROVE consumers' = consumers
  BY <1>2 DEF Cancelled, Answer, Acked, pending
<1>3. CASE Lead(w)
  <2>1. CASE LeaveLoop(w) \/ Turn(w) \/ Reclaimed(w) \/ Backlog(w) \/ Received(w) \/ BatchDone(w)
             \/ MoveOn(w) \/ Release(w) \/ DeleteLate(w)
    BY <2>1 DEF LeaveLoop, Turn, Reclaimed, Backlog, Received, BatchDone, MoveOn, Release, DeleteLate,
                server, pending
  <2>2. CASE Scan(w) \/ DeleteConsumer(w) \/ ReadOwn(w) \/ Read(w) \/ AckLate(w)
    BY <2>2 DEF Scan, DeleteConsumer, ReadOwn, Read, AckLate, Acked, Claim, Known
  <2>3. CASE \E e \in Job : DropLate(w, e) \/ Start(w, e) \/ NotStarted(w, e)
    BY <2>3 DEF DropLate, Start, NotStarted, server, pending
  <2>4. CASE Abandon(w) \/ HandBack(w)
    BY <1>1, <1>2, <2>4 DEF Abandon, HandBack
  <2>5. QED
    BY <1>3, <2>1, <2>2, <2>3, <2>4 DEF Lead
<1>4. CASE Beside(w)
  <2>1. CASE Elect(w) \/ LearnLoss(w) \/ LeadFails(w) \/ ReclaimTimer(w) \/ Inspect(w)
    BY <2>1 DEF Elect, LearnLoss, LeadFails, ReclaimTimer, Inspect, server, pending
  <2>2. CASE Touch(w) \/ TouchDone(w) \/ Stop(w) \/ Shutdown(w) \/ Crash(w)
    BY <2>2 DEF Touch, TouchDone, Stop, Shutdown, Crash, End, Claim, Known, server, pending
  <2>3. ASSUME NEW e \in Job, Handle(w, e) \/ Admit(w, e) \/ Requeue(w, e) \/ HardStop(w, e)
        PROVE  consumers' \subseteq consumers \cup {w}
    <3>1. CASE Requeued(w, e) \/ HardStop(w, e)
      BY <1>1, <1>2, <3>1 DEF Requeued, HardStop
    <3>2. CASE Return(w, e) \/ Finish(w, e) \/ Finished(w, e) \/ Admit(w, e) \/ Requeue(w, e)
      BY <3>2 DEF Return, Finish, Finished, Admit, Requeue, Answer, Acked, server, pending
    <3>3. QED
      BY <2>3, <3>1, <3>2 DEF Handle
  <2>4. QED
    BY <1>4, <2>1, <2>2, <2>3 DEF Beside
<1>5. QED
  BY <1>3, <1>4

LEMMA HandInvKept == ASSUME BaseInv, HandInv, [Next]_vars PROVE HandInv'
<1>1. ASSUME UNCHANGED <<owner, consumers, handed, lead, taken, touching, returning, stage>>, idle \subseteq idle'
      PROVE  HandInv'
  BY <1>1 DEF HandInv, HandedOK, BackOK, Seen
<1>2. CASE Submit \/ LeaseEnds \/ \E e \in Job : DeadlinePasses(e) \/ Age(e)
  BY <1>1, <1>2 DEF Submit, LeaseEnds, DeadlinePasses, Age, pending, handlers
<1>3. ASSUME NEW w \in Worker, Lead(w) \/ Beside(w) PROVE HandInv'
  <2>1. consumers' \subseteq Worker
    BY <1>3, ConsumersKept DEF HandInv
  <2>2. HandedOK'
    BY <1>3, LeadHanded, BesideHanded DEF HandInv
  <2>3. BackOK(w)'
    BY <1>3, LeadBack, BesideBack DEF HandInv
  <2>4. Others(w)
    BY <1>3, LeadKept, BesideKept DEF Kept
  <2>5. ASSUME NEW v \in Worker \ {w} PROVE BackOK(v)'
    BY <2>4 DEF HandInv, BackOK, Others
  <2>6. QED
    BY <2>1, <2>2, <2>3, <2>5 DEF HandInv
<1>4. CASE UNCHANGED vars
  BY <1>1, <1>4 DEF vars, server, pending, handlers
<1>5. QED
  BY <1>2, <1>3, <1>4, StepsAre

LEMMA HandInvariance == Spec => []HandInv
<1>1. Init => HandInv
  BY DEF Init, HandInv, HandedOK, BackOK, Idle, Nowhere
<1>2. BaseInv /\ HandInv /\ [Next]_vars => HandInv'
  BY HandInvKept
<1>3. QED
  BY <1>1, <1>2, Invariance, PTL DEF Spec

\* Every variable keeps its type.
THEOREM TypeCorrect == Spec => []TypeOK
<1>1. BaseInv /\ HandInv => TypeOK
  <2>1. BaseInv /\ HandInv => StateOK /\ consumers \subseteq Worker
    BY DEF BaseInv, HandInv, Typed
  <2>2. BaseInv /\ HandInv => handed \subseteq Job
    BY TypesAre DEF BaseInv, HandInv, HandedOK
  <2>3. QED
    BY <2>1, <2>2 DEF TypeOK
<1>2. QED
  BY <1>1, Invariance, HandInvariance, PTL

\* What a worker has handed back stays reclaimable until a leader has it delivered
\* again, it is acknowledged, or its consumer is deleted (HandBackSticks): neither the
\* touch under way nor a later one hides it.
THEOREM HandBackLasts == Spec => []HandBackSticks
<1>1. HandInv => HandBackSticks
  BY DEF HandInv, HandedOK, HandBackSticks
<1>2. QED
  BY <1>1, HandInvariance, PTL


-----------------------------------------------------------------------------
(* No job is forgotten.                                                      *)

\* What a step of a worker may do to the stream and its pending list.
LEMMA StreamSteps ==
    ASSUME BaseInv, NEW w \in Worker, Lead(w) \/ Beside(w)
    PROVE  \/ /\ UNCHANGED <<added, queue, delivered, late, answers>>
              /\ \A f \in Job : owner'[f] = Nobody <=> owner[f] = Nobody
              /\ \A f \in Job : owner'[f] \in {w, owner[f]}
           \/ /\ \E e \in Job : stage[w][e] # "none" /\ Answer(w, e)
              /\ UNCHANGED <<added, delivered, late>>
           \/ AckLate(w) \/ DeleteLate(w) \/ Read(w) \/ DeleteConsumer(w)
<1>1. Typed /\ QueueOK /\ idle \in SUBSET Job /\ touching[w] \in SUBSET Job /\ lead[w].giving \in SUBSET Job
  BY TypesAre DEF BaseInv, LeadState
<1> DEFINE Calm == /\ UNCHANGED <<added, queue, delivered, late, answers>>
                   /\ \A f \in Job : owner'[f] = Nobody <=> owner[f] = Nobody
                   /\ \A f \in Job : owner'[f] \in {w, owner[f]}
           Answers == /\ \E e \in Job : stage[w][e] # "none" /\ Answer(w, e)
                      /\ UNCHANGED <<added, delivered, late>>
<1>2. ASSUME UNCHANGED <<added, queue, delivered, late, answers, owner>> PROVE Calm
  BY <1>2
<1>3. ASSUME NEW es \in SUBSET Job, Claim(w, es), UNCHANGED <<added, queue, delivered, late, answers>>
      PROVE  Calm
  <2>1. \A f \in Job : /\ owner'[f] = Nobody <=> owner[f] = Nobody
                       /\ owner'[f] \in {w, owner[f]}
    BY <1>1, <1>3, ClaimIs
  <2>2. QED
    BY <1>3, <2>1
<1>4. ASSUME NEW es \in SUBSET Job, GiveBack(w, es), UNCHANGED <<added, queue, delivered, late, answers>>
      PROVE  Calm
  <2>1. Claim(w, es) \/ owner' = owner
    BY <1>4 DEF GiveBack, ClaimIdle, pending
  <2>2. QED
    BY <1>2, <1>3, <1>4, <2>1
<1>5. ASSUME NEW e \in Job, Cancelled(w, e), UNCHANGED <<added, delivered, late>> PROVE Calm \/ Answers
  <2>1. CASE stage[w][e] = "sending" /\ Answer(w, e)
    BY <1>5, <2>1
  <2>2. CASE UNCHANGED <<queue, pending, answers>>
    BY <1>2, <1>5, <2>2 DEF pending
  <2>3. QED
    BY <1>5, <2>1, <2>2 DEF Cancelled
<1> HIDE DEF Calm, Answers
<1>6. CASE Lead(w)
  <2>1. CASE LeaveLoop(w) \/ Turn(w) \/ Reclaimed(w) \/ Backlog(w) \/ Received(w) \/ BatchDone(w)
             \/ MoveOn(w) \/ Release(w) \/ ReadOwn(w)
    BY <1>2, <2>1 DEF LeaveLoop, Turn, Reclaimed, Backlog, Received, BatchDone, MoveOn, Release, ReadOwn,
                      server, stream, pending
  <2>2. CASE Scan(w)
    <3>1. Claim(w, idle) /\ UNCHANGED <<added, queue, delivered, late, answers>>
      BY <2>2 DEF Scan, stream
    <3>2. Calm
      BY <1>1, <1>3, <3>1
    <3>3. QED
      BY <3>2 DEF Calm
  <2>3. CASE \E f \in Job : DropLate(w, f) \/ Start(w, f) \/ NotStarted(w, f)
    BY <1>2, <2>3 DEF DropLate, Start, NotStarted, server, stream, pending
  <2>4. CASE Abandon(w)
    <3>1. lead[w].cur \in Job
      <4>1. lead[w].pc = "wait" /\ WorkerOK(w)
        BY <2>4 DEF Abandon, At, BaseInv
      <4>2. QED
        BY <4>1 DEF WorkerOK, LeadOK
    <3>2. Calm \/ Answers
      BY <1>5, <2>4, <3>1 DEF Abandon
    <3>3. QED
      BY <3>2 DEF Calm, Answers
  <2>5. CASE HandBack(w)
    <3>1. GiveBack(w, lead[w].giving) /\ UNCHANGED <<added, queue, delivered, late, answers>>
      BY <2>5 DEF HandBack, stream
    <3>2. Calm
      BY <1>1, <1>4, <3>1
    <3>3. QED
      BY <3>2 DEF Calm
  <2>6. QED
    BY <1>6, <2>1, <2>2, <2>3, <2>4, <2>5 DEF Lead, Calm
<1>7. CASE Beside(w)
  <2> SUFFICES Calm \/ Answers
    BY DEF Calm, Answers
  <2>1. CASE Elect(w) \/ LearnLoss(w) \/ LeadFails(w) \/ ReclaimTimer(w) \/ Inspect(w)
    BY <1>2, <2>1 DEF Elect, LearnLoss, LeadFails, ReclaimTimer, Inspect, server, stream, pending
  <2>2. CASE Touch(w) \/ Stop(w) \/ Shutdown(w) \/ Crash(w)
    BY <1>2, <2>2 DEF Touch, Stop, Shutdown, Crash, End, server, stream, pending
  <2>3. CASE TouchDone(w)
    <3>1. UNCHANGED <<added, queue, delivered, late, answers>>
      BY <2>3 DEF TouchDone, stream
    <3>2. \A f \in Job : (owner'[f] = Nobody <=> owner[f] = Nobody) /\ owner'[f] \in {w, owner[f]}
      BY <1>1, <2>3, TouchEnds
    <3>3. QED
      BY <3>1, <3>2 DEF Calm
  <2>4. ASSUME NEW f \in Job, Return(w, f) \/ Finished(w, f) \/ Admit(w, f) \/ Requeue(w, f)
        PROVE  Calm
    BY <1>2, <2>4 DEF Return, Finished, Admit, Requeue, server, stream, pending
  <2>5. ASSUME NEW f \in Job, Finish(w, f) PROVE Answers
    BY <2>5 DEF Finish, Answers
  <2>6. ASSUME NEW f \in Job, Requeued(w, f) PROVE Calm
    <3>1. {f} \in SUBSET Job
      OBVIOUS
    <3>2. QED
      BY <1>4, <2>6, <3>1 DEF Requeued, stream
  <2>7. ASSUME NEW f \in Job, HardStop(w, f) PROVE Calm \/ Answers
    BY <1>5, <2>7 DEF HardStop
  <2>8. QED
    BY <1>7, <2>1, <2>2, <2>3, <2>4, <2>5, <2>6, <2>7 DEF Beside, Handle
<1>8. QED
  BY <1>6, <1>7

\* Only the deletion of a consumer with pending entries could make Redis forget a job.
LEMMA DeliverableKept ==
    ASSUME BaseInv, StaysDeliverable, [Next]_vars,
           \A w \in Worker : DeleteConsumer(w) => NothingPending(lead[w].victim)
    PROVE  StaysDeliverable'
<1>1. /\ Typed /\ QueueOK /\ added \in Nat /\ delivered \in Nat /\ queue \subseteq 1 .. added
      /\ added \in 0 .. MaxJobs /\ MaxJobs \in Nat /\ delivered \in 0 .. added
      /\ owner \in [Job -> Worker \cup {Nobody}] /\ answers \in [Job -> SUBSET Worker]
      /\ 1 .. added \subseteq Job
  <2>1. Typed /\ QueueOK
    BY DEF BaseInv
  <2>2. added \in Nat /\ added \in 0 .. MaxJobs /\ MaxJobs \in Nat
    BY <2>1, TypesAre, Constants
  <2>3. 1 .. added \subseteq Job
    BY <2>2 DEF Job
  <2>4. QED
    BY <2>1, <2>2, <2>3, TypesAre
<1>2. ASSUME NEW e \in 1 .. added'
      PROVE  answers'[e] # {} \/ e \in late' \/ Deliverable(e)'
  <2>1. CASE Submit
    <3>1. /\ added' = added + 1 /\ queue' = queue \cup {added + 1}
          /\ UNCHANGED <<delivered, owner, late, answers>>
      BY <2>1 DEF Submit, pending
    <3>2. CASE e = added + 1
      BY <1>1, <3>1, <3>2 DEF Deliverable
    <3>3. CASE e # added + 1
      <4>1. e \in 1 .. added
        BY <1>1, <1>2, <3>1, <3>3
      <4>2. QED
        BY <3>1, <4>1 DEF StaysDeliverable, Deliverable
    <3>4. QED
      BY <3>2, <3>3
  <2>2. CASE LeaseEnds \/ (\E f \in Job : DeadlinePasses(f) \/ Age(f)) \/ UNCHANGED vars
    <3>1. UNCHANGED <<added, queue, delivered, owner, answers>> /\ late \subseteq late'
      BY <2>2 DEF LeaseEnds, DeadlinePasses, Age, vars, server, stream, pending
    <3>2. QED
      BY <1>2, <3>1 DEF StaysDeliverable, Deliverable
  <2>3. ASSUME NEW w \in Worker, Lead(w) \/ Beside(w)
        PROVE  answers'[e] # {} \/ e \in late' \/ Deliverable(e)'
    <3>1. CASE /\ UNCHANGED <<added, queue, delivered, late, answers>>
               /\ \A f \in Job : owner'[f] = Nobody <=> owner[f] = Nobody
      BY <1>1, <1>2, <3>1 DEF StaysDeliverable, Deliverable
    <3>2. ASSUME NEW d \in Job, Answer(w, d), UNCHANGED <<added, delivered, late>>
          PROVE  answers'[e] # {} \/ e \in late' \/ Deliverable(e)'
      <4>1. e \in Job /\ e \in 1 .. added
        BY <1>1, <1>2, <3>2
      <4>2. CASE e = d
        BY <1>1, <3>2, <4>2 DEF Answer
      <4>3. CASE e # d
        <5>1. answers'[e] = answers[e] /\ owner'[e] = owner[e] /\ queue' = queue \ {d}
          BY <1>1, <3>2, <4>1, <4>3 DEF Answer, Acked, Deleted
        <5>2. QED
          BY <3>2, <4>1, <4>3, <5>1 DEF StaysDeliverable, Deliverable
      <4>4. QED
        BY <4>2, <4>3
    <3>3. CASE AckLate(w) \/ DeleteLate(w)
      <4>1. WorkerOK(w) /\ lead[w].pc \in {"ack", "del"}
        BY <3>3 DEF AckLate, DeleteLate, At, BaseInv
      <4>2. lead[w].cur \in late
        BY <4>1 DEF WorkerOK, LeadOK
      <4>3. /\ UNCHANGED <<added, delivered, late, answers>>
            /\ (owner' = [owner EXCEPT ![lead[w].cur] = Nobody] /\ queue' = queue)
               \/ (owner' = owner /\ queue' = queue \ {lead[w].cur})
        BY <3>3 DEF AckLate, DeleteLate, Acked, Deleted, stream, pending
      <4>4. CASE e = lead[w].cur
        BY <4>2, <4>3, <4>4
      <4>5. CASE e # lead[w].cur
        BY <1>1, <1>2, <4>3, <4>5 DEF StaysDeliverable, Deliverable
      <4>6. QED
        BY <4>4, <4>5
    <3>4. CASE Read(w)
      <4>1. UNCHANGED <<added, queue, late, answers>> /\ e \in 1 .. added /\ e \in Job /\ e \in Nat
        BY <1>1, <1>2, <3>4, ReadMoves
      <4>2. CASE UNCHANGED <<delivered, owner>>
        BY <4>1, <4>2 DEF StaysDeliverable, Deliverable
      <4>3. ASSUME NEW d \in queue, d > delivered, \A f \in queue : f > delivered => d <= f,
                   delivered' = d, owner' = [owner EXCEPT ![d] = w]
            PROVE  answers'[e] # {} \/ e \in late' \/ Deliverable(e)'
        <5>1. d \in Job /\ d \in Nat /\ w # Nobody
          BY <1>1, Constants
        <5>2. CASE e = d
          <6>1. owner'[e] = w
            BY <1>1, <4>3, <5>1, <5>2
          <6>2. QED
            BY <4>1, <5>1, <5>2, <6>1 DEF Deliverable
        <5>3. CASE e # d
          <6>1. owner'[e] = owner[e]
            BY <1>1, <4>1, <4>3, <5>3
          <6>2. e \in queue /\ e > delivered => e > delivered'
            BY <4>1, <4>3, <5>1, <5>3
          <6>3. QED
            BY <4>1, <6>1, <6>2 DEF StaysDeliverable, Deliverable
        <5>4. QED
          BY <5>2, <5>3
      <4>4. QED
        BY <1>1, <3>4, <4>2, <4>3, ReadMoves
    <3>5. CASE DeleteConsumer(w)
      <4>1. /\ UNCHANGED <<added, queue, delivered, late, answers>> /\ e \in Job /\ e \in 1 .. added
            /\ owner' = [f \in Job |-> IF owner[f] = lead[w].victim THEN Nobody ELSE owner[f]]
        BY <1>1, <1>2, <3>5, DeleteConsumerMoves
      <4>2. owner'[e] = owner[e]
        BY <3>5, <4>1 DEF NothingPending
      <4>3. QED
        BY <4>1, <4>2 DEF StaysDeliverable, Deliverable
    <3>6. QED
      BY <2>3, <3>1, <3>2, <3>3, <3>4, <3>5, StreamSteps
  <2>4. QED
    BY <2>1, <2>2, <2>3, StepsAre
<1>3. QED
  BY <1>2 DEF StaysDeliverable

\* Without pruning, or without lapses of the lease, a consumer that is deleted has
\* nothing pending.
Forgetless == ~Prunes \/ "lapse" \notin Faults

OneLeader ==
    \A w \in Worker : /\ lead[w].pc # "off" => lead[w].believes
                      /\ lead[w].believes => leader = w

\* The consumer about to be deleted has nothing in hand, and cannot get anything.
VictimOK(w) ==
    LET v == lead[w].victim IN
    At(w, "prune") =>
        /\ v \in Worker \ {w} /\ At(v, "off")
        /\ taken[v] \cup touching[v] \cup returning[v] = {} /\ NothingPending(v)

LeadInv == OneLeader /\ \A w \in Worker : VictimOK(w)

\* A worker takes and gives up leadership.
LEMMA Leadership ==
    ASSUME BaseInv, OneLeader, NEW w \in Worker, Lead(w) \/ Beside(w)
    PROVE  \/ leader' = leader /\ lead'[w].believes = lead[w].believes
              /\ (lead[w].pc = "off" <=> lead'[w].pc = "off")
           \/ Elect(w)
           \/ leader' \in {leader, Nobody} /\ (leader' = Nobody => leader \in {w, Nobody})
              /\ lead'[w].pc = "off" /\ lead'[w].believes = FALSE
<1>1. /\ Typed /\ lead[w] \in LeadState
  BY TypesAre DEF BaseInv
<1>2. CASE Release(w)
  BY <1>1, <1>2, ReleaseMoves DEF Moves, Release
<1>3. CASE Shutdown(w) \/ Crash(w)
  <2>1. leader' = leader /\ lead'[w] = Idle
    BY <1>1, <1>3, TypesAre DEF Shutdown, Crash, End, server
  <2>2. lead'[w].pc = "off" /\ lead'[w].believes = FALSE
    BY <2>1 DEF Idle
  <2>3. QED
    BY <2>1, <2>2
<1>4. CASE LearnLoss(w)
  BY <1>4 DEF LearnLoss, OneLeader
<1>5. CASE Lead(w) /\ ~Release(w)
  <2> SUFFICES leader' = leader /\ lead'[w].believes = lead[w].believes
               /\ lead[w].pc # "off" /\ lead'[w].pc # "off"
    OBVIOUS
  <2>1. CASE LeaveLoop(w)
    BY <1>1, <2>1, LeaveLoopMoves DEF Moves
  <2>2. CASE Turn(w)
    BY <1>1, <2>2, TurnMoves DEF Moves
  <2>3. CASE Scan(w) \/ DeleteConsumer(w) \/ ReadOwn(w)
    BY <1>1, <2>3, ScanMoves, DeleteConsumerMoves, ReadOwnMoves DEF Moves
  <2>4. CASE Reclaimed(w) \/ Backlog(w) \/ Received(w)
    BY <1>1, <2>4, ReclaimedMoves, BacklogMoves, ReceivedMoves DEF Moves
  <2>5. CASE Read(w)
    BY <1>1, <2>5, ReadMoves DEF Moves
  <2>6. CASE BatchDone(w) \/ MoveOn(w)
    BY <1>1, <2>6, BatchDoneMoves, MoveOnMoves DEF Moves
  <2>7. CASE AckLate(w) \/ DeleteLate(w)
    BY <1>1, <2>7, AckLateMoves, DeleteLateMoves DEF Moves
  <2>8. ASSUME NEW e \in Job, DropLate(w, e) \/ Start(w, e) \/ NotStarted(w, e)
        PROVE  leader' = leader /\ lead'[w].believes = lead[w].believes
               /\ lead[w].pc # "off" /\ lead'[w].pc # "off"
    BY <1>1, <2>8, DropLateMoves, StartMoves, NotStartedMoves DEF Moves, NextIs, At
  <2>9. CASE Abandon(w)
    BY <1>1, <2>9, AbandonMoves DEF Moves
  <2>10. CASE HandBack(w)
    BY <1>1, <2>10, HandBackMoves DEF Moves
  <2>11. QED
    BY <1>5, <2>1, <2>2, <2>3, <2>4, <2>5, <2>6, <2>7, <2>8, <2>9, <2>10 DEF Lead
<1>6. CASE LeadFails(w) \/ ReclaimTimer(w) \/ Inspect(w)
  BY <1>1, <1>6, LeadFailsMoves, ReclaimTimerMoves, InspectMoves DEF Moves
<1>7. CASE Touch(w) \/ TouchDone(w) \/ Stop(w)
  BY <1>7 DEF Touch, TouchDone, Stop, server
<1>8. ASSUME NEW e \in Job, Handle(w, e) \/ Admit(w, e) \/ Requeue(w, e) \/ HardStop(w, e)
      PROVE  leader' = leader /\ lead'[w].believes = lead[w].believes
             /\ (lead[w].pc = "off" <=> lead'[w].pc = "off")
  <2>1. CASE Return(w, e) \/ Finish(w, e) \/ Finished(w, e) \/ Admit(w, e) \/ Requeue(w, e)
    BY <2>1 DEF Return, Finish, Finished, Admit, Requeue, server
  <2>2. CASE Requeued(w, e)
    BY <1>1, <2>2, TypesAre DEF Requeued, LeadState
  <2>3. CASE HardStop(w, e)
    <3>1. leader' = leader
      BY <2>3 DEF HardStop
    <3>2. CASE lead[w].pc = "wait" /\ HandingBack(w, e)
      BY <1>1, <3>1, <3>2, HandingBackMoves DEF Moves
    <3>3. CASE lead' = lead
      BY <3>1, <3>3
    <3>4. QED
      BY <2>3, <3>2, <3>3 DEF HardStop, At
  <2>4. QED
    BY <1>8, <2>1, <2>2, <2>3 DEF Handle
<1>9. QED
  BY <1>2, <1>3, <1>4, <1>5, <1>6, <1>7, <1>8 DEF Beside

LEMMA OwnerSteps ==
    ASSUME BaseInv, NEW w \in Worker, Lead(w) \/ Beside(w), NEW f \in Job
    PROVE  owner'[f] \in {w, owner[f], Nobody}
<1>1. Typed /\ owner \in [Job -> Worker \cup {Nobody}]
  BY TypesAre DEF BaseInv
<1>2. CASE \E e \in Job : Answer(w, e)
  BY <1>1, <1>2 DEF Answer, Acked
<1>3. CASE AckLate(w) \/ DeleteLate(w)
  BY <1>1, <1>3 DEF AckLate, DeleteLate, Acked, pending
<1>4. CASE Read(w)
  BY <1>1, <1>4, ReadMoves
<1>5. CASE DeleteConsumer(w)
  BY <1>1, <1>5, DeleteConsumerMoves
<1>6. QED
  BY <1>2, <1>3, <1>4, <1>5, StreamSteps

\* One that is about to delete a consumer has just inspected it, or was so before.
LEMMA PruneSteps ==
    ASSUME BaseInv, NEW w \in Worker, Lead(w) \/ Beside(w), lead'[w].pc = "prune"
    PROVE  Inspect(w) \/ (lead[w].pc = "prune" /\ lead'[w].victim = lead[w].victim)
<1>1. /\ Typed /\ lead[w] \in LeadState /\ lead \in [Worker -> LeadState]
  BY TypesAre DEF BaseInv
<1>2. ~Release(w) /\ ~LeadFails(w) /\ ~Elect(w) /\ ~ReclaimTimer(w)
  BY <1>1, ReleaseMoves, LeadFailsMoves, ElectMoves, ReclaimTimerMoves DEF Moves
<1>3. ~Shutdown(w) /\ ~Crash(w)
  BY <1>1 DEF Shutdown, Crash, End, Idle
<1>4. ~Lead(w)
  <2>1. ~LeaveLoop(w) /\ ~Turn(w) /\ ~Scan(w) /\ ~DeleteConsumer(w) /\ ~ReadOwn(w)
    BY <1>1, LeaveLoopMoves, TurnMoves, ScanMoves, DeleteConsumerMoves, ReadOwnMoves DEF Moves
  <2>2. ~Reclaimed(w) /\ ~Backlog(w) /\ ~Received(w)
    BY <1>1, ReclaimedMoves, BacklogMoves, ReceivedMoves DEF Moves
  <2>3. ~Read(w)
    BY <1>1, ReadMoves DEF Moves
  <2>4. ~BatchDone(w) /\ ~MoveOn(w) /\ ~AckLate(w) /\ ~DeleteLate(w)
    BY <1>1, BatchDoneMoves, MoveOnMoves, AckLateMoves, DeleteLateMoves DEF Moves
  <2>5. ASSUME NEW e \in Job PROVE ~DropLate(w, e) /\ ~Start(w, e) /\ ~NotStarted(w, e)
    BY <1>1, DropLateMoves, StartMoves, NotStartedMoves DEF Moves
  <2>6. ~Abandon(w) /\ ~HandBack(w)
    BY <1>1, AbandonMoves, HandBackMoves DEF Moves
  <2>7. QED
    BY <1>2, <2>1, <2>2, <2>3, <2>4, <2>5, <2>6 DEF Lead
<1>5. CASE LearnLoss(w)
  BY <1>1, <1>5 DEF LearnLoss, LeadState
<1>6. CASE Touch(w) \/ TouchDone(w) \/ Stop(w)
  BY <1>6 DEF Touch, TouchDone, Stop
<1>7. ASSUME NEW e \in Job, Handle(w, e) \/ Admit(w, e) \/ Requeue(w, e) \/ HardStop(w, e)
      PROVE  lead[w].pc = "prune" /\ lead'[w].victim = lead[w].victim
  <2>1. CASE Return(w, e) \/ Finish(w, e) \/ Finished(w, e) \/ Admit(w, e) \/ Requeue(w, e)
    BY <2>1 DEF Return, Finish, Finished, Admit, Requeue
  <2>2. CASE Requeued(w, e)
    BY <1>1, <2>2 DEF Requeued, LeadState
  <2>3. CASE HardStop(w, e)
    BY <1>1, <2>3, HandingBackMoves DEF HardStop, Moves
  <2>4. QED
    BY <1>7, <2>1, <2>2, <2>3 DEF Handle
<1>8. QED
  BY <1>2, <1>3, <1>4, <1>5, <1>6, <1>7 DEF Beside

\* A worker that has nothing in hand does nothing to the queue unless it is elected.
LEMMA SleeperSteps ==
    ASSUME BaseInv, NEW v \in Worker, lead[v].pc = "off", ~lead[v].believes, leader # Nobody,
           taken[v] \cup touching[v] \cup returning[v] = {}, Lead(v) \/ Beside(v)
    PROVE  /\ owner' = owner /\ lead'[v].pc = "off"
           /\ taken'[v] \cup touching'[v] \cup returning'[v] = {}
<1>1. Typed /\ WorkerOK(v) /\ returning \in [Worker -> SUBSET Job]
  BY TypesAre DEF BaseInv
<1>2. \A e \in Job : stage[v][e] = "none"
  BY <1>1 DEF WorkerOK
<1>3. ~Lead(v)
  BY DEF Lead, LeaveLoop, Turn, Scan, DeleteConsumer, Reclaimed, ReadOwn, Backlog, Read, Received,
         BatchDone, DropLate, Start, NotStarted, NextIs, AckLate, DeleteLate, MoveOn, Abandon,
         HandBack, Release, At
<1>4. CASE Shutdown(v) \/ Crash(v)
  <2>1. lead'[v] = Idle /\ owner' = owner /\ taken'[v] = {} /\ touching'[v] = {} /\ returning'[v] = {}
    BY <1>1, <1>4, TypesAre DEF Shutdown, Crash, End, server, pending
  <2>2. QED
    BY <2>1 DEF Idle
<1>5. CASE Stop(v)
  BY <1>5 DEF Stop, server, pending, handlers
<1>6. ~Elect(v) /\ ~LearnLoss(v) /\ ~LeadFails(v) /\ ~ReclaimTimer(v) /\ ~Inspect(v)
  BY DEF Elect, LearnLoss, LeadFails, ReclaimTimer, Inspect, At
<1>7. ~Touch(v) /\ ~TouchDone(v)
  BY DEF Touch, TouchDone
<1>8. ASSUME NEW e \in Job PROVE ~(Handle(v, e) \/ Admit(v, e) \/ Requeue(v, e) \/ HardStop(v, e))
  BY <1>2 DEF Handle, Return, Finish, Finished, Requeued, Admit, Requeue, HardStop, Running
<1>9. QED
  BY <1>3, <1>4, <1>5, <1>6, <1>7, <1>8 DEF Beside

LEMMA LeadersKept ==
    ASSUME BaseInv, OneLeader, "lapse" \notin Faults, [Next]_vars
    PROVE  OneLeader'
<1>1. Typed /\ leader \in Worker \cup {Nobody} /\ Nobody \notin Worker /\ lead \in [Worker -> LeadState]
  BY TypesAre, Constants DEF BaseInv
<1>2. CASE LeaseEnds
  <2>1. ~lead[leader].believes /\ leader \in Worker /\ lead' = lead
    BY <1>1, <1>2 DEF LeaseEnds, Fault
  <2>2. QED
    BY <2>1 DEF OneLeader
<1>3. CASE Submit \/ (\E e \in Job : DeadlinePasses(e) \/ Age(e)) \/ UNCHANGED vars
  <2>1. leader' = leader /\ lead' = lead
    BY <1>3 DEF Submit, DeadlinePasses, Age, vars, server
  <2>2. QED
    BY <2>1 DEF OneLeader
<1>4. ASSUME NEW w \in Worker, Lead(w) \/ Beside(w) PROVE OneLeader'
  <2>1. \A v \in Worker \ {w} : lead'[v] = lead[v]
    BY <1>4, LeadKept, BesideKept DEF Kept, Others
  <2>2. CASE leader' = leader /\ lead'[w].believes = lead[w].believes
             /\ (lead[w].pc = "off" <=> lead'[w].pc = "off")
    BY <2>1, <2>2 DEF OneLeader
  <2>3. CASE Elect(w)
    <3>1. leader' = w /\ leader = Nobody /\ lead'[w].believes
      BY <1>1, <2>3 DEF Elect, LeadState
    <3>2. \A v \in Worker : ~lead[v].believes
      BY <1>1, <3>1 DEF OneLeader
    <3>3. QED
      BY <2>1, <3>1, <3>2 DEF OneLeader
  <2>4. CASE /\ leader' \in {leader, Nobody} /\ (leader' = Nobody => leader \in {w, Nobody})
             /\ lead'[w].pc = "off" /\ lead'[w].believes = FALSE
    <3>1. ASSUME NEW v \in Worker, v # w PROVE lead[v].believes => leader' = v
      BY <1>1, <2>4, <3>1 DEF OneLeader
    <3>2. QED
      BY <2>1, <2>4, <3>1 DEF OneLeader
  <2>5. QED
    BY <1>4, <2>2, <2>3, <2>4, Leadership
<1>5. QED
  BY <1>2, <1>3, <1>4, StepsAre

LEMMA VictimsKept ==
    ASSUME BaseInv, LeadInv, [Next]_vars, NEW w \in Worker
    PROVE  VictimOK(w)'
<1>1. /\ Typed /\ leader \in Worker \cup {Nobody} /\ Nobody \notin Worker /\ lead \in [Worker -> LeadState]
      /\ lead[w] \in LeadState
  BY TypesAre, Constants DEF BaseInv
<1> DEFINE v == lead[w].victim
<1>2. CASE Submit \/ LeaseEnds \/ (\E e \in Job : DeadlinePasses(e) \/ Age(e)) \/ UNCHANGED vars
  <2>1. UNCHANGED <<owner, lead, taken, touching, returning>>
    BY <1>2 DEF Submit, LeaseEnds, DeadlinePasses, Age, vars, server, pending, handlers
  <2>2. QED
    BY <2>1 DEF LeadInv, VictimOK, NothingPending, At
<1>3. ASSUME NEW u \in Worker, Lead(u) \/ Beside(u) PROVE VictimOK(w)'
  <2>1. /\ \A x \in Worker \ {u} : /\ lead'[x] = lead[x] /\ taken'[x] = taken[x]
                                   /\ touching'[x] = touching[x] /\ returning'[x] = returning[x]
        /\ \A f \in Job : owner'[f] \in {u, owner[f], Nobody}
    BY <1>3, LeadKept, BesideKept, OwnerSteps DEF Kept, Others
  <2> SUFFICES ASSUME lead'[w].pc = "prune" PROVE VictimOK(w)'
    BY DEF VictimOK, At
  <2>2. CASE u = w /\ Inspect(w)
    <3>1. PICK x \in Worker \ {w} :
             /\ At(x, "off") /\ taken[x] \cup touching[x] \cup returning[x] = {} /\ NothingPending(x)
             /\ lead' = [lead EXCEPT ![w].pc = "prune", ![w].victim = x]
      BY <2>2 DEF Inspect
    <3>2. lead'[w].victim = x /\ owner' = owner
      BY <1>1, <2>2, <3>1 DEF Inspect, LeadState, server, pending
    <3>3. QED
      BY <2>1, <2>2, <3>1, <3>2 DEF VictimOK, NothingPending, At
  <2>3. CASE lead[w].pc = "prune" /\ lead'[w].victim = lead[w].victim
    <3>1. /\ v \in Worker \ {w} /\ lead[v].pc = "off"
          /\ taken[v] \cup touching[v] \cup returning[v] = {} /\ NothingPending(v)
      BY <2>3 DEF LeadInv, VictimOK, At
    <3>2. ~lead[v].believes /\ leader = w
      BY <1>1, <2>3, <3>1 DEF LeadInv, OneLeader
    <3>3. CASE u = v
      <4>1. /\ owner' = owner /\ lead'[v].pc = "off"
            /\ taken'[v] \cup touching'[v] \cup returning'[v] = {}
        BY <1>1, <1>3, <3>1, <3>2, <3>3, SleeperSteps
      <4>2. QED
        BY <2>3, <3>1, <4>1 DEF VictimOK, NothingPending, At
    <3>4. CASE u # v
      <4>1. \A f \in Job : owner'[f] # v
        BY <1>1, <2>1, <3>1, <3>4 DEF NothingPending
      <4>2. QED
        BY <2>1, <2>3, <3>1, <3>4, <4>1 DEF VictimOK, NothingPending, At
    <3>5. QED
      BY <3>3, <3>4
  <2>4. QED
    BY <1>3, <2>1, <2>2, <2>3, PruneSteps
<1>4. QED
  BY <1>2, <1>3, StepsAre

LEMMA LeadInvariance == ASSUME "lapse" \notin Faults PROVE Spec => []LeadInv
<1>1. Init => LeadInv
  <2>1. Idle.pc = "off" /\ Idle.believes = FALSE
    BY DEF Idle
  <2>2. QED
    BY <2>1 DEF Init, LeadInv, OneLeader, VictimOK, At
<1>2. BaseInv /\ LeadInv /\ [Next]_vars => LeadInv'
  BY LeadersKept, VictimsKept DEF LeadInv
<1>3. QED
  BY <1>1, <1>2, Invariance, PTL DEF Spec

\* Unless a consumer is deleted that takes jobs again after the lease of the worker
\* that deletes it has lapsed, Redis forgets no job that is neither answered nor past
\* its deadline, whatever fails between two commands (StaysDeliverable).
THEOREM JobsStay == ASSUME Forgetless PROVE Spec => []StaysDeliverable
<1>1. Init => StaysDeliverable
  BY DEF Init, StaysDeliverable
<1>2. CASE ~Prunes
  <2>1. ASSUME BaseInv, NEW w \in Worker PROVE ~DeleteConsumer(w)
    <3>1. WorkerOK(w)
      BY <2>1 DEF BaseInv
    <3>2. QED
      BY <1>2, <3>1 DEF DeleteConsumer, WorkerOK, LeadOK, At
  <2>2. BaseInv /\ StaysDeliverable /\ [Next]_vars => StaysDeliverable'
    BY <2>1, DeliverableKept
  <2>3. QED
    BY <1>1, <2>2, Invariance, PTL DEF Spec
<1>3. CASE "lapse" \notin Faults
  <2>1. ASSUME LeadInv, NEW w \in Worker, DeleteConsumer(w) PROVE NothingPending(lead[w].victim)
    BY <2>1 DEF LeadInv, VictimOK, DeleteConsumer
  <2>2. BaseInv /\ LeadInv /\ StaysDeliverable /\ [Next]_vars => StaysDeliverable'
    BY <2>1, DeliverableKept
  <2>3. Spec => []LeadInv
    BY <1>3, LeadInvariance
  <2>4. QED
    BY <1>1, <2>2, <2>3, Invariance, PTL DEF Spec
<1>4. QED
  BY <1>2, <1>3 DEF Forgetless

\* Under the same condition a job that is neither answered nor past its deadline is
\* delivered again, or held by a worker (NothingLost); a run shows that without it
\* a job can be lost.
THEOREM JobsNotLost == ASSUME Forgetless PROVE Spec => []NothingLost
<1>1. StaysDeliverable => NothingLost
  BY DEF StaysDeliverable, NothingLost
<1>2. QED
  BY <1>1, JobsStay, PTL

-----------------------------------------------------------------------------
(* A job runs in one worker only.                                            *)

\* RequeueJob is not raised any more once the job is admitted: the leading task waits
\* for the job until it is handed back.
OneRequeue == MaxRequeues = 0 \/ ~LateRequeues

\* The places at which the answer of a command is there.
Answered == {"scanned", "prune", "pruned", "owned", "answer"}

\* A started job is awaited until it is admitted or its handler has ended, and what
\* is handed back is touched no more.
Awaited(w) ==
    /\ \A e \in admitted[w] : stage[w][e] # "none"
    /\ \A e \in Job : stage[w][e] # "none" /\ e \notin admitted[w] =>
          lead[w].pc = "wait" /\ lead[w].cur = e
    /\ \A e \in returning[w] : lead[w].pc = "wait" /\ lead[w].cur = e /\ e \notin taken[w]
    /\ lead[w].giving # {} => lead[w].pc = "give"
    /\ lead[w].inbox # {} => lead[w].pc \in Answered
    /\ lead[w].giving \cap taken[w] = {}

\* What a worker holds is pending for no other, held by no other, and not reclaimable.
Owned(w) ==
    /\ \A e \in Held(w) : owner[e] \in {w, Nobody} /\ e \notin idle
    /\ \A v \in Worker \ {w} : Held(v) \cap Held(w) = {}

OwnInv == \A w \in Worker : Awaited(w) /\ Owned(w)

\* The answer, the hand-backs and the place of a task that waits for no job.
LEMMA AwaitedMoves ==
    ASSUME NEW w \in Worker, Awaited(w), UNCHANGED <<stage, returning, admitted>>,
           lead[w].pc # "wait", lead'[w].giving # {} => lead'[w].pc = "give",
           lead'[w].inbox # {} => lead'[w].pc \in Answered,
           lead'[w].giving \cap taken'[w] = {}
    PROVE  Awaited(w)'
BY DEF Awaited

\* The leading task stays at its place.
LEMMA AwaitedStays ==
    ASSUME NEW w \in Worker, Awaited(w), UNCHANGED <<stage, returning, admitted>>,
           lead'[w].pc = lead[w].pc, lead'[w].cur = lead[w].cur, lead'[w].inbox = lead[w].inbox,
           lead'[w].giving = lead[w].giving, taken'[w] = taken[w]
    PROVE  Awaited(w)'
BY DEF Awaited

LEMMA LeadAwaits ==
    ASSUME BaseInv, NEW w \in Worker, Awaited(w), Lead(w) PROVE Awaited(w)'
<1>1. /\ Typed /\ WorkerOK(w) /\ LeadOK(w) /\ lead[w] \in LeadState /\ {} \in SUBSET Job
      /\ taken \in [Worker -> SUBSET Job] /\ admitted[w] \subseteq Job /\ returning[w] \subseteq Job
      /\ stage \in [Worker -> [Job -> Stages]]
  BY TypesAre, Constants DEF BaseInv, WorkerOK
<1>2. CASE LeaveLoop(w) \/ Turn(w) \/ BatchDone(w) \/ Release(w)
  <2>1. /\ lead[w].pc \in {"loop", "batch", "release"} /\ UNCHANGED <<stage, returning, admitted, taken>>
        /\ lead'[w].giving \subseteq lead[w].giving /\ lead'[w].inbox \subseteq lead[w].inbox
    BY <1>1, <1>2, LeaveLoopMoves, TurnMoves, BatchDoneMoves, ReleaseMoves DEF Moves
  <2>2. lead[w].giving = {} /\ lead[w].inbox = {}
    BY <2>1 DEF Awaited, Answered
  <2>3. QED
    BY <2>1, <2>2, AwaitedMoves
<1>3. CASE Scan(w) \/ DeleteConsumer(w) \/ ReadOwn(w)
  <2>1. /\ lead[w].pc \in {"scan", "prune", "own"} /\ UNCHANGED <<stage, returning, admitted, taken>>
        /\ lead'[w].giving = lead[w].giving /\ lead'[w].pc \in Answered
    BY <1>1, <1>3, ScanMoves, DeleteConsumerMoves, ReadOwnMoves DEF Moves, Answered
  <2>2. lead[w].giving = {}
    BY <2>1 DEF Awaited
  <2>3. QED
    BY <2>1, <2>2, AwaitedMoves
<1>4. CASE Read(w)
  <2>1. /\ lead[w].pc = "read" /\ UNCHANGED <<stage, returning, admitted, taken>>
        /\ lead'[w].giving = lead[w].giving /\ (lead'[w].pc = "answer" \/ lead' = lead)
    BY <1>1, <1>4, ReadMoves DEF Moves
  <2>2. lead[w].giving = {}
    BY <2>1 DEF Awaited
  <2>3. CASE lead'[w].pc = "answer"
    BY <2>1, <2>2, <2>3, AwaitedMoves DEF Answered
  <2>4. CASE lead' = lead
    BY <2>1, <2>4, AwaitedStays
  <2>5. QED
    BY <2>1, <2>3, <2>4
<1>5. CASE Reclaimed(w) \/ Backlog(w) \/ Received(w)
  <2>1. /\ lead[w].pc \in {"scanned", "pruned", "owned", "answer"} /\ UNCHANGED <<stage, returning, admitted>>
        /\ lead'[w].giving = lead[w].giving /\ lead'[w].inbox = {}
    BY <1>1, <1>5, ReclaimedMoves, BacklogMoves, ReceivedMoves DEF Moves
  <2>2. lead[w].giving = {}
    BY <2>1 DEF Awaited
  <2>3. QED
    BY <2>1, <2>2, AwaitedMoves
<1>6. CASE AckLate(w) \/ DeleteLate(w)
  <2>1. /\ lead[w].pc \in {"ack", "del"} /\ UNCHANGED <<stage, returning, admitted, taken>>
        /\ lead'[w].giving = lead[w].giving /\ lead'[w].inbox = lead[w].inbox
    BY <1>1, <1>6, AckLateMoves, DeleteLateMoves DEF Moves
  <2>2. lead[w].giving = {} /\ lead[w].inbox = {}
    BY <2>1 DEF Awaited, Answered
  <2>3. QED
    BY <2>1, <2>2, AwaitedMoves
<1>7. ASSUME NEW e \in Job, DropLate(w, e) \/ NotStarted(w, e) PROVE Awaited(w)'
  <2>1. /\ lead[w].pc = "batch" /\ UNCHANGED <<stage, returning, admitted>>
        /\ lead'[w].inbox = lead[w].inbox /\ taken'[w] = taken[w] \ {e}
        /\ \/ lead'[w].giving = lead[w].giving
           \/ lead'[w].giving = {e} /\ lead'[w].pc = "give"
    BY <1>1, <1>7, DropLateMoves, NotStartedMoves DEF Moves
  <2>2. lead[w].giving = {} /\ lead[w].inbox = {}
    BY <2>1 DEF Awaited, Answered
  <2>3. QED
    BY <2>1, <2>2, AwaitedMoves
<1>8. ASSUME NEW e \in Job, Start(w, e) PROVE Awaited(w)'
  <2>1. /\ lead[w].pc = "batch" /\ UNCHANGED <<returning, admitted, taken>>
        /\ lead'[w].pc = "wait" /\ lead'[w].cur = e
        /\ lead'[w].inbox = lead[w].inbox /\ lead'[w].giving = lead[w].giving
        /\ stage'[w][e] = "run" /\ \A f \in Job \ {e} : stage'[w][f] = stage[w][f]
    BY <1>1, <1>8, StartMoves DEF Moves
  <2>2. /\ lead[w].giving = {} /\ lead[w].inbox = {} /\ returning[w] = {}
        /\ \A f \in Job : stage[w][f] # "none" => f \in admitted[w]
    BY <2>1 DEF Awaited, Answered
  <2>3. QED
    BY <1>1, <2>1, <2>2 DEF Awaited
<1>9. CASE MoveOn(w)
  <2>1. /\ lead[w].pc = "wait" /\ UNCHANGED <<stage, returning, admitted, taken>> /\ Settled(w)
        /\ lead'[w].pc = "batch"
        /\ lead'[w].inbox = lead[w].inbox /\ lead'[w].giving = lead[w].giving
    BY <1>1, <1>9, MoveOnMoves DEF Moves
  <2>2. returning[w] = {}
    <3>1. ASSUME NEW e \in returning[w] PROVE FALSE
      <4>1. lead[w].cur = e /\ e \notin taken[w] /\ e \in Running(w)
        BY <1>1, <3>1 DEF Awaited, Running
      <4>2. e \in admitted[w] /\ stage[w][e] # "none"
        BY <2>1, <4>1 DEF Settled, Awaited
      <4>3. QED
        BY <1>1, <4>1, <4>2 DEF WorkerOK
    <3>2. QED
      BY <3>1
  <2>3. \A f \in Job : stage[w][f] # "none" => f \in admitted[w]
    BY <2>1 DEF Settled, Running, Awaited
  <2>4. lead[w].giving = {} /\ lead[w].inbox = {}
    BY <2>1 DEF Awaited, Answered
  <2>5. QED
    BY <2>1, <2>2, <2>3, <2>4 DEF Awaited
<1>10. CASE Abandon(w)
  <2> DEFINE e == lead[w].cur
  <2>1. /\ lead[w].pc = "wait" /\ e \in Job
        /\ UNCHANGED <<added, delivered, late, admitted>> /\ Cancelled(w, e) /\ e \notin admitted[w]
        /\ lead'[w].pc = "give" /\ lead'[w].inbox = lead[w].inbox /\ lead'[w].giving = {e}
        /\ taken'[w] = taken[w] \ {e}
    BY <1>1, <1>10, AbandonMoves DEF Moves, LeadOK, Settled
  <2> HIDE DEF e
  <2>2. /\ stage'[w][e] = "none" /\ \A f \in Job : f # e => stage'[w][f] = stage[w][f]
        /\ returning'[w] = returning[w] \ {e}
    BY <2>1, CancelledIs
  <2>3. /\ returning'[w] = {} /\ lead[w].inbox = {}
        /\ \A f \in Job : f # e /\ stage[w][f] # "none" => f \in admitted[w]
    BY <2>1, <2>2 DEF Awaited, Answered, e
  <2>4. \A f \in admitted'[w] : stage'[w][f] # "none"
    BY <1>1, <2>1, <2>2 DEF Awaited
  <2>5. QED
    BY <2>1, <2>2, <2>3, <2>4 DEF Awaited
<1>11. CASE HandBack(w)
  <2>1. /\ lead[w].pc = "give" /\ UNCHANGED <<stage, returning, admitted>>
        /\ lead'[w].pc = (IF lead[w].batch # {} THEN "give" ELSE "release")
        /\ lead'[w].inbox = lead[w].inbox /\ lead'[w].giving = lead[w].batch
        /\ taken'[w] = taken[w] \ lead[w].batch
    BY <1>1, <1>11, HandBackMoves DEF Moves
  <2>2. lead[w].inbox = {}
    BY <2>1 DEF Awaited, Answered
  <2>3. QED
    BY <2>1, <2>2, AwaitedMoves
<1>12. QED
  BY <1>2, <1>3, <1>4, <1>5, <1>6, <1>7, <1>8, <1>9, <1>10, <1>11 DEF Lead

LEMMA BesideAwaits ==
    ASSUME BaseInv, OneRequeue, NEW w \in Worker, Awaited(w), Beside(w) PROVE Awaited(w)'
<1>1. /\ Typed /\ WorkerOK(w) /\ lead[w] \in LeadState /\ {} \in SUBSET Job
      /\ lead \in [Worker -> LeadState]
      /\ taken \in [Worker -> SUBSET Job] /\ admitted \in [Worker -> SUBSET Job]
      /\ returning \in [Worker -> SUBSET Job] /\ stage \in [Worker -> [Job -> Stages]]
      /\ requeues \in Nat /\ MaxRequeues \in Nat
  BY TypesAre, Constants DEF BaseInv
<1>2. CASE Elect(w) \/ LeadFails(w) \/ Inspect(w)
  <2>1. /\ lead[w].pc # "wait" /\ UNCHANGED <<stage, returning, admitted>>
        /\ lead'[w].giving \subseteq lead[w].giving /\ lead'[w].inbox \subseteq lead[w].inbox
        /\ lead'[w].pc \in Answered \/ lead'[w].inbox = {} \/ lead[w].pc = "off"
        /\ lead[w].pc # "give"
    BY <1>1, <1>2, ElectMoves, LeadFailsMoves, InspectMoves DEF Moves, Answered
  <2>2. lead[w].giving = {} /\ (lead[w].pc = "off" => lead[w].inbox = {})
    BY <2>1 DEF Awaited, Answered
  <2>3. QED
    BY <2>1, <2>2, AwaitedMoves
<1>3. CASE LearnLoss(w) \/ ReclaimTimer(w)
  BY <1>1, <1>3, LearnLossMoves, ReclaimTimerMoves, AwaitedStays DEF Moves
<1>4. CASE Touch(w) \/ TouchDone(w) \/ Stop(w)
  BY <1>4, AwaitedStays DEF Touch, TouchDone, Stop, handlers
<1>5. CASE Shutdown(w) \/ Crash(w)
  <2>1. /\ lead'[w] = Idle /\ returning'[w] = {} /\ admitted'[w] = {}
        /\ \A f \in Job : stage'[w][f] = "none"
    BY <1>1, <1>5 DEF Shutdown, Crash, End
  <2>2. QED
    BY <2>1 DEF Awaited, Idle
<1>6. ASSUME NEW e \in Job, Handle(w, e) \/ Admit(w, e) \/ Requeue(w, e) \/ HardStop(w, e)
      PROVE  Awaited(w)'
  <2>1. CASE Admit(w, e)
    <3>1. /\ stage[w][e] = "run" /\ admitted'[w] = admitted[w] \cup {e}
          /\ UNCHANGED <<lead, taken, stage, returning>>
      BY <1>1, <2>1 DEF Admit
    <3>2. QED
      BY <3>1 DEF Awaited
  <2>2. CASE Return(w, e) \/ Finish(w, e)
    <3>1. /\ stage[w][e] # "none" /\ stage'[w][e] # "none" /\ UNCHANGED <<lead, taken, admitted, returning>>
          /\ \A f \in Job \ {e} : stage'[w][f] = stage[w][f]
      BY <1>1, <2>2 DEF Return, Finish
    <3>2. QED
      BY <1>1, <3>1 DEF Awaited
  <2>3. CASE Finished(w, e)
    <3>1. /\ stage'[w][e] = "none" /\ \A f \in Job \ {e} : stage'[w][f] = stage[w][f]
          /\ admitted'[w] = admitted[w] \ {e} /\ taken'[w] = taken[w] \ {e}
          /\ UNCHANGED <<lead, returning>>
      BY <1>1, <2>3 DEF Finished, ForgetAnyway, Forget
    <3>2. QED
      BY <1>1, <3>1 DEF Awaited
  <2>4. CASE Requeue(w, e)
    <3>1. /\ stage[w][e] = "run" /\ requeues < MaxRequeues /\ (e \in admitted[w] => LateRequeues)
          /\ stage'[w][e] = "none" /\ \A f \in Job \ {e} : stage'[w][f] = stage[w][f]
          /\ taken'[w] = taken[w] \ {e} /\ returning'[w] = returning[w] \cup {e}
          /\ UNCHANGED <<lead, admitted>>
      BY <1>1, <2>4 DEF Requeue, Forget
    <3>2. e \notin admitted[w]
      BY <1>1, <3>1 DEF OneRequeue
    <3>3. QED
      BY <1>1, <3>1, <3>2 DEF Awaited
  <2>5. CASE Requeued(w, e)
    <3>1. /\ returning'[w] = returning[w] \ {e} /\ admitted'[w] = admitted[w] \ {e}
          /\ UNCHANGED <<taken, stage>>
          /\ lead'[w].pc = lead[w].pc /\ lead'[w].cur = lead[w].cur /\ lead'[w].inbox = lead[w].inbox
          /\ lead'[w].giving = lead[w].giving
      BY <1>1, <2>5 DEF Requeued, LeadState
    <3>2. e \in returning[w] /\ stage[w][e] = "none"
      BY <1>1, <2>5 DEF Requeued, Awaited, WorkerOK
    <3>3. QED
      BY <1>1, <3>1, <3>2 DEF Awaited
  <2>6. CASE HardStop(w, e)
    <3>1. /\ Cancelled(w, e) /\ UNCHANGED <<added, delivered, late>>
          /\ admitted'[w] = admitted[w] \ {e}
          /\ \/ lead[w].pc = "wait" /\ lead[w].cur = e /\ HandingBack(w, e)
             \/ UNCHANGED <<taken, lead>>
      BY <1>1, <2>6 DEF HardStop, At
    <3>2. /\ stage'[w][e] = "none" /\ \A f \in Job : f # e => stage'[w][f] = stage[w][f]
          /\ returning'[w] = returning[w] \ {e}
      BY <3>1, CancelledIs
    <3>3. CASE lead[w].pc = "wait" /\ lead[w].cur = e /\ HandingBack(w, e)
      <4>1. /\ lead'[w].pc = "give" /\ lead'[w].inbox = lead[w].inbox /\ lead'[w].giving = {e}
            /\ taken'[w] = taken[w] \ {e}
        BY <1>1, <3>3, HandingBackMoves DEF Moves
      <4>2. /\ returning'[w] = {} /\ lead[w].inbox = {}
            /\ \A f \in Job : f # e /\ stage[w][f] # "none" => f \in admitted[w]
        BY <3>2, <3>3 DEF Awaited, Answered
      <4>3. QED
        BY <1>1, <3>1, <3>2, <4>1, <4>2 DEF Awaited
    <3>4. CASE UNCHANGED <<taken, lead>>
      BY <1>1, <3>1, <3>2, <3>4 DEF Awaited
    <3>5. QED
      BY <3>1, <3>3, <3>4
  <2>7. QED
    BY <1>6, <2>1, <2>2, <2>3, <2>4, <2>5, <2>6 DEF Handle
<1>7. QED
  BY <1>2, <1>3, <1>4, <1>5, <1>6 DEF Beside

\* Most steps take nothing on, and make nothing idle.
Lighter(w) ==
    /\ Held(w)' \subseteq Held(w) /\ idle' \subseteq idle
    /\ \A f \in Job : owner'[f] \in {owner[f], Nobody}

LEMMA LeadHolds ==
    ASSUME BaseInv, NEW w \in Worker, Lead(w),
           ~Scan(w), ~ReadOwn(w), ~Read(w), ~HandBack(w)
    PROVE  Lighter(w)
<1>1. /\ Typed /\ LeadOK(w) /\ WorkerOK(w) /\ taken \in [Worker -> SUBSET Job] /\ lead[w] \in LeadState
      /\ owner \in [Job -> Worker \cup {Nobody}] /\ {} \in SUBSET Job
      /\ lead[w].inbox \subseteq Job /\ returning[w] \subseteq Job
  BY TypesAre, Constants DEF BaseInv, WorkerOK, LeadState
<1>2. CASE LeaveLoop(w) \/ Turn(w) \/ BatchDone(w) \/ Release(w) \/ MoveOn(w)
  <2>1. /\ UNCHANGED <<owner, idle, taken, touching, returning>>
        /\ lead'[w].inbox \subseteq lead[w].inbox /\ lead'[w].giving \subseteq lead[w].giving
    BY <1>1, <1>2, LeaveLoopMoves, TurnMoves, BatchDoneMoves, ReleaseMoves, MoveOnMoves DEF Moves
  <2>2. QED
    BY <2>1 DEF Lighter, Held
<1>3. CASE DeleteConsumer(w)
  <2>1. /\ UNCHANGED <<taken, touching, returning>> /\ idle' \subseteq idle
        /\ \A f \in Job : owner'[f] \in {owner[f], Nobody}
        /\ lead'[w].inbox = lead[w].inbox /\ lead'[w].giving = lead[w].giving
    BY <1>1, <1>3, DeleteConsumerMoves DEF Moves
  <2>2. QED
    BY <2>1 DEF Lighter, Held
<1>4. CASE Reclaimed(w) \/ Backlog(w) \/ Received(w)
  <2>1. /\ UNCHANGED <<owner, idle, touching, returning>>
        /\ taken'[w] \subseteq taken[w] \cup lead[w].inbox
        /\ lead'[w].inbox = {} /\ lead'[w].giving = lead[w].giving
    BY <1>1, <1>4, ReclaimedMoves, BacklogMoves, ReceivedMoves DEF Moves
  <2>2. QED
    BY <2>1 DEF Lighter, Held
<1>5. CASE AckLate(w) \/ DeleteLate(w)
  <2>1. /\ UNCHANGED <<taken, touching, returning>> /\ idle' \subseteq idle
        /\ \A f \in Job : owner'[f] \in {owner[f], Nobody}
        /\ lead'[w].inbox = lead[w].inbox /\ lead'[w].giving = lead[w].giving
    BY <1>1, <1>5, AckLateMoves, DeleteLateMoves DEF Moves
  <2>2. QED
    BY <2>1 DEF Lighter, Held
<1>6. ASSUME NEW e \in Job, DropLate(w, e) \/ Start(w, e) \/ NotStarted(w, e) PROVE Lighter(w)
  <2>1. e \in taken[w]
    <3>1. NextIs(w, e)
      BY <1>6 DEF DropLate, Start, NotStarted
    <3>2. QED
      BY <1>1, <3>1, NextIsFirst DEF LeadOK
  <2>2. /\ UNCHANGED <<owner, idle, touching, returning>>
        /\ taken'[w] \subseteq taken[w]
        /\ lead'[w].inbox = lead[w].inbox /\ lead'[w].giving \subseteq lead[w].giving \cup {e}
    BY <1>1, <1>6, DropLateMoves, StartMoves, NotStartedMoves DEF Moves
  <2>3. QED
    BY <2>1, <2>2 DEF Lighter, Held
<1>7. CASE Abandon(w)
  <2> DEFINE e == lead[w].cur
  <2>1. /\ e \in Job /\ e \in Running(w)
        /\ UNCHANGED <<added, delivered, late, touching>> /\ Cancelled(w, e)
        /\ lead'[w].inbox = lead[w].inbox /\ lead'[w].giving = {e}
        /\ taken'[w] = taken[w] \ {e}
    BY <1>1, <1>7, AbandonMoves DEF Moves, LeadOK, Settled
  <2> HIDE DEF e
  <2>2. returning'[w] = returning[w] \ {e}
    BY <2>1, CancelledIs
  <2>3. idle' \subseteq idle /\ \A f \in Job : owner'[f] \in {owner[f], Nobody}
    BY <1>1, <2>1 DEF Cancelled, Answer, Acked, pending
  <2>4. e \in taken[w] \cup returning[w]
    BY <1>1, <2>1 DEF Running, WorkerOK
  <2>5. QED
    BY <2>1, <2>2, <2>3, <2>4 DEF Lighter, Held
<1>8. QED
  BY <1>2, <1>3, <1>4, <1>5, <1>6, <1>7 DEF Lead

LEMMA BesideHolds ==
    ASSUME BaseInv, NEW w \in Worker, Beside(w), ~TouchDone(w), \A e \in Job : ~Requeued(w, e)
    PROVE  Lighter(w)
<1>1. /\ Typed /\ LeadOK(w) /\ WorkerOK(w) /\ taken \in [Worker -> SUBSET Job] /\ lead[w] \in LeadState
      /\ owner \in [Job -> Worker \cup {Nobody}] /\ {} \in SUBSET Job
      /\ touching \in [Worker -> SUBSET Job]
      /\ returning \in [Worker -> SUBSET Job] /\ lead \in [Worker -> LeadState]
  BY TypesAre, Constants DEF BaseInv, WorkerOK, LeadState
<1>2. CASE Elect(w) \/ LearnLoss(w) \/ LeadFails(w) \/ ReclaimTimer(w) \/ Inspect(w)
  <2>1. /\ UNCHANGED <<owner, idle, touching, returning>> /\ taken'[w] \subseteq taken[w]
        /\ lead'[w].inbox \subseteq lead[w].inbox /\ lead'[w].giving \subseteq lead[w].giving
    <3>1. CASE LeadFails(w)
      BY <1>1, <3>1, LeadFailsMoves DEF Moves
    <3>2. CASE Elect(w) \/ LearnLoss(w) \/ ReclaimTimer(w) \/ Inspect(w)
      BY <1>1, <3>2, ElectMoves, LearnLossMoves, ReclaimTimerMoves, InspectMoves DEF Moves
    <3>3. QED
      BY <1>2, <3>1, <3>2
  <2>2. QED
    BY <2>1 DEF Lighter, Held
<1>3. CASE Touch(w) \/ Stop(w)
  <2>1. /\ UNCHANGED <<owner, idle, taken, returning, lead>>
        /\ touching'[w] \subseteq touching[w] \cup taken[w]
    BY <1>1, <1>3 DEF Touch, Stop, server, pending, handlers
  <2>2. QED
    BY <2>1 DEF Lighter, Held
<1>4. CASE Shutdown(w) \/ Crash(w)
  <2>1. /\ UNCHANGED <<owner, idle>> /\ lead'[w] = Idle
        /\ taken'[w] = {} /\ touching'[w] = {} /\ returning'[w] = {}
    BY <1>1, <1>4 DEF Shutdown, Crash, End, server, pending
  <2>2. Held(w)' = {}
    BY <2>1 DEF Held, Idle
  <2>3. QED
    BY <2>1, <2>2 DEF Lighter
<1>5. ASSUME NEW e \in Job, Return(w, e) \/ Finish(w, e) \/ Finished(w, e) \/ Admit(w, e) \/ Requeue(w, e)
      PROVE  Lighter(w)
  <2>1. /\ UNCHANGED <<lead, touching>> /\ stage[w][e] # "none"
        /\ taken'[w] \subseteq taken[w] /\ returning'[w] \subseteq returning[w] \cup {e}
    BY <1>1, <1>5 DEF Return, Finish, Finished, Admit, Requeue, ForgetAnyway, Forget
  <2>2. idle' \subseteq idle /\ \A f \in Job : owner'[f] \in {owner[f], Nobody}
    BY <1>1, <1>5 DEF Return, Finish, Finished, Admit, Requeue, Answer, Acked, server, pending
  <2>3. e \in taken[w]
    BY <1>1, <2>1 DEF WorkerOK
  <2>4. QED
    BY <2>1, <2>2, <2>3 DEF Lighter, Held
<1>6. ASSUME NEW e \in Job, HardStop(w, e) PROVE Lighter(w)
  <2>1. /\ Cancelled(w, e) /\ UNCHANGED <<added, delivered, late, touching>> /\ e \in Running(w)
        /\ HandingBack(w, e) \/ UNCHANGED <<taken, lead>>
    BY <1>6 DEF HardStop
  <2>2. returning'[w] = returning[w] \ {e}
    BY <2>1, CancelledIs
  <2>3. idle' \subseteq idle /\ \A f \in Job : owner'[f] \in {owner[f], Nobody}
    BY <1>1, <2>1 DEF Cancelled, Answer, Acked, pending
  <2>4. e \in taken[w] \cup returning[w]
    BY <1>1, <2>1 DEF Running, WorkerOK
  <2>5. /\ taken'[w] \subseteq taken[w] /\ lead'[w].inbox = lead[w].inbox
        /\ lead'[w].giving \subseteq lead[w].giving \cup {e}
    BY <1>1, <2>1, HandingBackMoves DEF Moves
  <2>6. QED
    BY <2>1, <2>2, <2>3, <2>4, <2>5 DEF Lighter, Held
<1>7. QED
  BY <1>2, <1>3, <1>4, <1>5, <1>6 DEF Beside, Handle

\* What a worker takes on was nobody else's, and what it does to the pending list
\* concerns nothing the others hold.
LEMMA OwnedFrom ==
    ASSUME BaseInv, \A v \in Worker : Owned(v), NEW w \in Worker, Others(w),
           \A e \in Held(w)' : owner'[e] \in {w, Nobody} /\ e \notin idle',
           \A e \in Held(w)' : e \in Held(w) \/ \A v \in Worker \ {w} : e \notin Held(v),
           \A v \in Worker \ {w} : \A e \in Held(v) : owner'[e] \in {owner[e], Nobody} /\ e \notin idle'
    PROVE  \A v \in Worker : Owned(v)'
<1>1. \A v \in Worker \ {w} : Held(v)' = Held(v)
  BY DEF Others, Held
<1>2. \A v \in Worker : \A e \in Held(v)' : owner'[e] \in {v, Nobody} /\ e \notin idle'
  BY <1>1 DEF Owned
<1>3. ASSUME NEW u \in Worker, NEW v \in Worker \ {u} PROVE Held(v)' \cap Held(u)' = {}
  <2>1. Held(v) \cap Held(u) = {}
    BY DEF Owned
  <2>2. QED
    BY <1>1, <2>1
<1>4. QED
  BY <1>2, <1>3 DEF Owned

LEMMA OwnedSteps ==
    ASSUME BaseInv, OwnInv, NEW w \in Worker, Lead(w) \/ Beside(w)
    PROVE  \A v \in Worker : Owned(v)'
<1>1. /\ Typed /\ QueueOK /\ WorkerOK(w) /\ Awaited(w) /\ Others(w) /\ \A v \in Worker : Owned(v)
      /\ idle \in SUBSET Job /\ owner \in [Job -> Worker \cup {Nobody}] /\ lead[w] \in LeadState
      /\ \A v \in Worker : Held(v) \subseteq Job
      /\ taken \in [Worker -> SUBSET Job] /\ touching[w] \in SUBSET Job
      /\ touching \in [Worker -> SUBSET Job] /\ {} \in SUBSET Job
      /\ returning \in [Worker -> SUBSET Job]
  <2>1. Typed /\ QueueOK /\ WorkerOK(w) /\ Awaited(w) /\ Others(w) /\ \A v \in Worker : Owned(v)
    BY LeadKept, BesideKept DEF BaseInv, OwnInv, Kept
  <2>2. \A v \in Worker : lead[v] \in LeadState
    BY <2>1, TypesAre
  <2>3. \A v \in Worker : Held(v) \subseteq Job
    BY <2>1, <2>2, TypesAre DEF Held, LeadState
  <2>4. QED
    BY <2>1, <2>2, <2>3, TypesAre, Constants
<1>2. ASSUME Lighter(w) PROVE \A v \in Worker : Owned(v)'
  <2>1. \A v \in Worker : \A e \in Held(v) : owner[e] \in {v, Nobody} /\ e \notin idle
    BY <1>1 DEF Owned
  <2>2. QED
    BY <1>1, <1>2, <2>1, OwnedFrom DEF Lighter
  \* XCLAIM of what w itself holds.
<1>3. ASSUME NEW es \in SUBSET Held(w), Claim(w, es), idle' \subseteq idle \cup es,
             Held(w)' \subseteq Held(w), Held(w)' \cap idle' = {}
      PROVE  \A v \in Worker : Owned(v)'
  <2>1. \A e \in Job : owner'[e] \in {w, owner[e]} /\ (e \notin es => owner'[e] = owner[e])
    BY <1>1, <1>3, ClaimIs
  <2>2. \A e \in Held(w)' : owner'[e] \in {w, Nobody}
    BY <1>1, <1>3, <2>1 DEF Owned
  <2>3. \A v \in Worker \ {w} : \A e \in Held(v) : owner'[e] \in {owner[e], Nobody} /\ e \notin idle'
    <3>1. ASSUME NEW v \in Worker \ {w}, NEW e \in Held(v) PROVE e \notin es /\ e \notin idle /\ e \in Job
      BY <1>1, <1>3 DEF Owned
    <3>2. QED
      BY <1>3, <2>1, <3>1
  <2>4. QED
    BY <1>1, <1>3, <2>2, <2>3, OwnedFrom
<1>4. CASE Scan(w)
  <2>1. /\ Claim(w, idle) /\ idle' = {} /\ lead[w].pc = "scan"
        /\ UNCHANGED <<taken, touching, returning>>
        /\ lead'[w].inbox = idle /\ lead'[w].giving = lead[w].giving
    BY <1>1, <1>4, ScanMoves DEF Moves
  <2>2. Held(w)' \subseteq Held(w) \cup idle
    BY <2>1 DEF Held
  <2>3. \A e \in Job : owner'[e] \in {w, owner[e]} /\ (e \notin idle => owner'[e] = owner[e])
    BY <1>1, <2>1, ClaimIs
  <2>4. \A e \in Held(w)' : owner'[e] \in {w, Nobody} /\ e \notin idle'
    <3>1. \A e \in idle : owner'[e] = w
      <4>1. \A e \in idle : owner[e] # Nobody
        BY <1>1 DEF QueueOK
      <4>2. QED
        BY <1>1, <2>1, <4>1, ClaimIs
    <3>2. \A e \in Held(w) : owner'[e] \in {w, Nobody}
      BY <1>1, <2>3 DEF Owned
    <3>3. QED
      BY <2>1, <2>2, <3>1, <3>2
  <2>5. \A e \in Held(w)' : e \in Held(w) \/ \A v \in Worker \ {w} : e \notin Held(v)
    BY <1>1, <2>2 DEF Owned
  <2>6. \A v \in Worker \ {w} : \A e \in Held(v) : owner'[e] \in {owner[e], Nobody} /\ e \notin idle'
    BY <1>1, <2>1, <2>3 DEF Owned
  <2>7. QED
    BY <1>1, <2>4, <2>5, <2>6, OwnedFrom
<1>5. CASE ReadOwn(w)
  <2>1. /\ owner' = owner /\ idle' = {e \in idle : owner[e] # w}
        /\ UNCHANGED <<taken, touching, returning>>
        /\ lead'[w].inbox = {e \in Job : owner[e] = w} /\ lead'[w].giving = lead[w].giving
    BY <1>1, <1>5, ReadOwnMoves DEF Moves
  <2>2. \A e \in Held(w)' : e \in Held(w) \/ (e \in Job /\ owner[e] = w)
    BY <2>1 DEF Held
  <2>3. \A e \in Held(w)' : owner'[e] \in {w, Nobody} /\ e \notin idle'
    BY <1>1, <2>1, <2>2 DEF Owned
  <2>4. \A e \in Held(w)' : e \in Held(w) \/ \A v \in Worker \ {w} : e \notin Held(v)
    <3>1. ASSUME NEW e \in Job, owner[e] = w, NEW v \in Worker \ {w} PROVE e \notin Held(v)
      BY <1>1, <3>1, Constants DEF Owned
    <3>2. QED
      BY <2>2, <3>1
  <2>5. \A v \in Worker \ {w} : \A e \in Held(v) : owner'[e] \in {owner[e], Nobody} /\ e \notin idle'
    BY <1>1, <2>1 DEF Owned
  <2>6. QED
    BY <1>1, <2>3, <2>4, <2>5, OwnedFrom
<1>6. CASE Read(w)
  <2>1. idle' = idle /\ UNCHANGED <<taken, touching, returning>>
    BY <1>1, <1>6, ReadMoves
  <2>2. CASE owner' = owner /\ lead'[w].inbox = {} /\ lead'[w].giving = lead[w].giving
    <3>1. Held(w)' \subseteq Held(w)
      BY <2>1, <2>2 DEF Held
    <3>2. QED
      BY <1>2, <2>1, <2>2, <3>1 DEF Lighter
  <2>3. ASSUME NEW d \in queue, d > delivered, owner' = [owner EXCEPT ![d] = w],
               lead'[w].inbox \subseteq lead[w].inbox \cup {d}, lead'[w].giving = lead[w].giving
        PROVE  \A v \in Worker : Owned(v)'
    <3>1. d \in Job /\ d \in Nat /\ delivered \in Nat
      BY <1>1, TypesAre, Constants
    <3>2. \A v \in Worker : d \notin Held(v)
      <4>1. ASSUME NEW v \in Worker, d \in Held(v) PROVE d <= delivered
        BY <4>1 DEF BaseInv, WorkerOK
      <4>2. QED
        BY <2>3, <3>1, <4>1
    <3>3. d \notin idle
      BY <1>1, <2>3, <3>1 DEF QueueOK
    <3>4. Held(w)' \subseteq Held(w) \cup {d}
      BY <2>1, <2>3 DEF Held
    <3>5. owner'[d] = w /\ \A f \in Job \ {d} : owner'[f] = owner[f]
      BY <1>1, <2>3, <3>1
    <3>6. \A e \in Held(w)' : owner'[e] \in {w, Nobody} /\ e \notin idle'
      BY <1>1, <2>1, <3>3, <3>4, <3>5 DEF Owned
    <3>7. \A e \in Held(w)' : e \in Held(w) \/ \A v \in Worker \ {w} : e \notin Held(v)
      BY <3>2, <3>4
    <3>8. \A v \in Worker \ {w} : \A e \in Held(v) : owner'[e] \in {owner[e], Nobody} /\ e \notin idle'
      BY <1>1, <2>1, <3>2, <3>5 DEF Owned
    <3>9. QED
      BY <1>1, <3>6, <3>7, <3>8, OwnedFrom
  <2>4. QED
    BY <1>1, <1>6, <2>2, <2>3, ReadMoves DEF Moves
<1>7. CASE TouchDone(w)
  <2>0. touching'[w] = {} /\ UNCHANGED <<lead, taken, returning>>
    BY <1>1, <1>7, TypesAre DEF TouchDone, handlers
  <2>6. CASE UNCHANGED pending
    <3>1. Lighter(w)
      BY <2>0, <2>6 DEF Lighter, Held, pending
    <3>2. QED
      BY <1>2, <3>1
  <2> SUFFICES ASSUME ~UNCHANGED pending PROVE \A v \in Worker : Owned(v)'
    BY <2>6
  <2>1. /\ Claim(w, touching[w]) /\ idle' = idle \ touching[w] /\ touching'[w] = {}
        /\ UNCHANGED <<lead, taken, returning>>
    BY <1>7, <2>0 DEF TouchDone
  <2>2. touching[w] \subseteq Held(w) /\ Held(w)' \subseteq Held(w)
    BY <2>1 DEF Held
  <2>3. Held(w) \cap idle = {}
    BY <1>1 DEF Owned
  <2>4. Held(w)' \cap idle' = {}
    BY <2>1, <2>2, <2>3
  <2>5. QED
    BY <1>3, <2>1, <2>2, <2>4
  \* What is handed back is held no more.
<1>8. ASSUME NEW es \in SUBSET Held(w), GiveBack(w, es), Held(w)' \subseteq Held(w) \ es
      PROVE  \A v \in Worker : Owned(v)'
  <2>1. CASE UNCHANGED <<owner, idle>>
    BY <1>2, <1>8, <2>1 DEF Lighter
  <2>2. CASE ClaimIdle(w, es)
    <3>1. Claim(w, es) /\ idle' \subseteq idle \cup es
      BY <2>2 DEF ClaimIdle
    <3>2. Held(w) \cap idle = {}
      BY <1>1 DEF Owned
    <3>3. QED
      BY <1>3, <1>8, <3>1, <3>2
  <2>3. QED
    BY <1>8, <2>1, <2>2 DEF GiveBack, pending
<1>9. CASE HandBack(w)
  <2>1. /\ lead[w].pc = "give" /\ touching[w] = {} /\ UNCHANGED <<touching, returning>>
        /\ taken'[w] = taken[w] \ lead[w].batch
        /\ lead'[w].inbox = lead[w].inbox /\ lead'[w].giving = lead[w].batch
    BY <1>1, <1>9, HandBackMoves DEF Moves
  <2>2. /\ lead[w].inbox = {} /\ returning[w] = {} /\ lead[w].giving \cap taken[w] = {}
        /\ lead[w].batch \subseteq taken[w]
    BY <1>1, <2>1 DEF Awaited, Answered, WorkerOK, LeadOK
  <2>3. Held(w)' \subseteq Held(w) \ lead[w].giving
    BY <2>1, <2>2 DEF Held
  <2>4. lead[w].giving \subseteq Held(w)
    BY DEF Held
  <2>5. GiveBack(w, lead[w].giving)
    BY <1>9 DEF HandBack
  <2>6. QED
    BY <1>8, <2>3, <2>4, <2>5
<1>10. ASSUME NEW e \in Job, Requeued(w, e) PROVE \A v \in Worker : Owned(v)'
  <2>1. /\ e \in returning[w] /\ touching[w] = {} /\ UNCHANGED <<taken, touching>>
        /\ returning'[w] = returning[w] \ {e} /\ GiveBack(w, {e})
        /\ lead'[w].inbox = lead[w].inbox /\ lead'[w].giving = lead[w].giving
    BY <1>1, <1>10, TypesAre DEF Requeued, LockFree, LeadState
  <2>2. e \notin taken[w] /\ lead[w].inbox = {} /\ lead[w].giving = {}
    BY <1>1, <2>1 DEF Awaited, Answered
  <2>3. Held(w)' \subseteq Held(w) \ {e} /\ {e} \subseteq Held(w)
    BY <2>1, <2>2 DEF Held
  <2>4. QED
    BY <1>8, <2>1, <2>3
<1>11. QED
  BY <1>2, <1>4, <1>5, <1>6, <1>7, <1>9, <1>10, LeadHolds, BesideHolds

LEMMA OwnInvariance ==
    ASSUME OneRequeue, "stall" \notin Faults PROVE Spec => []OwnInv
<1>1. Init => OwnInv
  <2>1. ASSUME Init, NEW w \in Worker PROVE Held(w) = {} /\ Awaited(w)
    BY <2>1 DEF Init, Held, Idle, Nowhere, Awaited
  <2>2. QED
    BY <2>1 DEF OwnInv, Owned
<1>2. ASSUME BaseInv, OwnInv, [Next]_vars PROVE OwnInv'
  <2>1. CASE Submit \/ LeaseEnds \/ (\E e \in Job : DeadlinePasses(e)) \/ UNCHANGED vars
    <3>1. UNCHANGED <<owner, idle, lead, taken, touching, stage, returning, admitted>>
      BY <2>1 DEF Submit, LeaseEnds, DeadlinePasses, vars, server, pending, handlers
    <3>2. QED
      BY <1>2, <3>1 DEF OwnInv, Awaited, Owned, Held
  <2>2. ASSUME NEW e \in Job, Age(e) PROVE OwnInv'
    <3>1. /\ owner[e] # Nobody /\ e \notin Touched(owner[e]) /\ idle' = idle \cup {e}
          /\ UNCHANGED <<owner, lead, taken, touching, stage, returning, admitted>>
      BY <1>2, <2>2 DEF Age, Fault, handlers, OwnInv
    <3>2. owner[e] \in Worker
      BY <1>2, <3>1, TypesAre DEF BaseInv
    <3>3. e \notin Held(owner[e])
      <4>1. WorkerOK(owner[e])
        BY <1>2, <3>2 DEF BaseInv
      <4>2. QED
        BY <3>1, <4>1 DEF Touched, Held, WorkerOK
    <3>4. ASSUME NEW w \in Worker PROVE e \notin Held(w)
      BY <1>2, <3>1, <3>3 DEF OwnInv, Owned
    <3>5. QED
      BY <1>2, <3>1, <3>4 DEF OwnInv, Awaited, Owned, Held
  <2>3. ASSUME NEW w \in Worker, Lead(w) \/ Beside(w) PROVE OwnInv'
    <3>1. \A v \in Worker : Owned(v)'
      BY <1>2, <2>3, OwnedSteps
    <3>2. Awaited(w)'
      BY <1>2, <2>3, LeadAwaits, BesideAwaits DEF OwnInv
    <3>3. ASSUME NEW v \in Worker \ {w} PROVE Awaited(v)'
      <4>1. Others(w) /\ Awaited(v)
        BY <1>2, <2>3, LeadKept, BesideKept DEF Kept, OwnInv
      <4>2. QED
        BY <4>1 DEF Others, Awaited
    <3>4. QED
      BY <3>1, <3>2, <3>3 DEF OwnInv
  <2>4. QED
    BY <1>2, <2>1, <2>2, <2>3, StepsAre
<1>3. QED
  BY <1>1, <1>2, Invariance, PTL DEF Spec

\* While no touch loop stalls, no two workers run a job at the same time, also when
\* several lead, commands fail and workers crash (RunsOnce), provided that no handler
\* raises RequeueJob after admit(): its worker could get the entry once more by
\* XREADGROUP 0 before the hand-back makes it reclaimable by another.
THEOREM JobsRunOnce == ASSUME OneRequeue, "stall" \notin Faults PROVE Spec => []RunsOnce
<1>1. ASSUME BaseInv, OwnInv PROVE RunsOnce
  <2>1. ASSUME NEW e \in Job, NEW v \in Worker, NEW w \in Worker, v # w,
               stage[v][e] # "none", stage[w][e] # "none"
        PROVE  FALSE
    <3>1. e \in Held(v) /\ e \in Held(w)
      BY <1>1, <2>1 DEF BaseInv, WorkerOK, Held
    <3>2. QED
      BY <1>1, <2>1, <3>1 DEF OwnInv, Owned
  <2>2. QED
    BY <2>1 DEF RunsOnce
<1>2. QED
  BY <1>1, OwnInvariance, Invariance, PTL
=============================================================================
