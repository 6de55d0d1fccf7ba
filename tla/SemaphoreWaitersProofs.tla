------------------------ MODULE SemaphoreWaitersProofs ------------------------
(* What holds of the waiting acquires for every finite set of clients, every *)
(* limit and any number of faults: no wake-up is missed, and the tokens do   *)
(* not pile up.                                                              *)
EXTENDS SemaphoreWaiters, FiniteSetTheorems, SequenceTheorems, TLAPS

Steps == {"out", "try", "park", "blocked", "hold", "push", "trim", "crashed"}

Trimming == {c \in Client : pc[c] = "trim"}

\* The clients that are about to ask for a slot, or to wake somebody up.
Askers == {c \in Client : pc[c] \in {"try", "push"}}

\* Without faults every free slot somebody may wait for is announced: by a token, or by
\* a client that asks for a slot or is about to push a token.
Awaited == \E c \in Client : pc[c] \in {"park", "blocked"}

Announced ==
    faults = 0 /\ Awaited =>
        Limit - Cardinality(holders) <= tokens + Cardinality(Askers)

IInv ==
    /\ TypeOK
    /\ \A c \in holders : pc[c] \in {"hold", "crashed"}
    /\ Cardinality(holders) <= Limit
    /\ faults = 0 => \A c \in Client : pc[c] # "crashed"
    /\ blocked # <<>> => tokens = 0
    /\ TokensBounded
    /\ Announced

-----------------------------------------------------------------------------
(* The list of the blocked clients.                                          *)

LEMMA RemoveAtIs ==
    ASSUME NEW S, NEW s \in Seq(S), NEW i \in 1 .. Len(s)
    PROVE  /\ RemoveAt(s, i) \in Seq(S)
           /\ Len(RemoveAt(s, i)) = Len(s) - 1
           /\ \A j \in 1 .. Len(s) - 1 :
                 RemoveAt(s, i)[j] = IF j < i THEN s[j] ELSE s[j + 1]
<1> DEFINE front == SubSeq(s, 1, i - 1)
           back == SubSeq(s, i + 1, Len(s))
<1>1. Len(s) \in Nat /\ \A j \in 1 .. Len(s) : s[j] \in S
  BY LenProperties, ElementOfSeq
<1>2. /\ front \in Seq(S) /\ Len(front) = i - 1
      /\ \A j \in 1 .. i - 1 : front[j] = s[j]
  <2>1. \A j \in 1 .. i - 1 : s[j] \in S
    BY <1>1
  <2>2. 1 \in Int /\ i - 1 \in Int
    BY <1>1
  <2>3. QED
    BY <2>1, <2>2, <1>1, SubSeqProperties
<1>3. /\ back \in Seq(S) /\ Len(back) = Len(s) - i
      /\ \A j \in 1 .. Len(s) - i : back[j] = s[i + j]
  <2>1. \A j \in i + 1 .. Len(s) : s[j] \in S
    BY <1>1
  <2>2. i + 1 \in Int /\ Len(s) \in Int
    BY <1>1
  <2>3. QED
    BY <2>1, <2>2, <1>1, SubSeqProperties
<1>4. RemoveAt(s, i) = front \o back
  BY DEF RemoveAt
<1> HIDE DEF front, back
<1>5. /\ front \o back \in Seq(S) /\ Len(front \o back) = Len(front) + Len(back)
      /\ \A j \in 1 .. Len(front) + Len(back) :
            (front \o back)[j] = IF j <= Len(front) THEN front[j] ELSE back[j - Len(front)]
  BY <1>2, <1>3, ConcatProperties
<1>6. ASSUME NEW j \in 1 .. Len(s) - 1
      PROVE  (front \o back)[j] = IF j < i THEN s[j] ELSE s[j + 1]
  <2>1. CASE j < i
    BY <1>1, <1>2, <1>3, <1>5, <2>1
  <2>2. CASE ~(j < i)
    <3>1. /\ j \in 1 .. Len(front) + Len(back) /\ ~(j <= Len(front))
          /\ j - Len(front) \in 1 .. Len(s) - i /\ i + (j - Len(front)) = j + 1
      BY <1>1, <1>2, <1>3, <2>2
    <3>2. QED
      BY <1>3, <1>5, <2>2, <3>1
  <2>3. QED
    BY <2>1, <2>2
<1>7. QED
  BY <1>1, <1>2, <1>3, <1>4, <1>5, <1>6

\* A client is taken out of the list wherever it is; the others keep their places.
LEMMA UnblockedIs ==
    ASSUME blocked \in Seq(Client), IsInjective(blocked), NEW c \in Client
    PROVE  /\ Unblocked(c) \in Seq(Client)
           /\ ToSet(Unblocked(c)) = ToSet(blocked) \ {c}
           /\ IsInjective(Unblocked(c))
           /\ blocked = <<>> => Unblocked(c) = <<>>
<1>1. /\ Len(blocked) \in Nat /\ DOMAIN blocked = 1 .. Len(blocked)
      /\ \A i \in 1 .. Len(blocked) : blocked[i] \in Client
      /\ blocked = <<>> => Len(blocked) = 0
  BY LenProperties, ElementOfSeq, EmptySeq
<1>2. CASE \A i \in 1 .. Len(blocked) : blocked[i] # c
  <2>1. Unblocked(c) = blocked
    BY <1>2 DEF Unblocked, RemoveFirst
  <2>2. c \notin ToSet(blocked)
    BY <1>1, <1>2 DEF ToSet
  <2>3. QED
    BY <2>1, <2>2
<1>3. ASSUME NEW i \in 1 .. Len(blocked), blocked[i] = c
      PROVE  /\ Unblocked(c) \in Seq(Client)
             /\ ToSet(Unblocked(c)) = ToSet(blocked) \ {c}
             /\ IsInjective(Unblocked(c))
             /\ blocked = <<>> => Unblocked(c) = <<>>
  <2> DEFINE I == {j \in 1 .. Len(blocked) : blocked[j] = c}
             rest == RemoveAt(blocked, i)
  <2>1. I = {i}
    BY <1>1, <1>3 DEF IsInjective
  <2>2. SelectInSeq(blocked, LAMBDA v : v = c) = i
    <3>1. I # {} /\ Min(I) = i
      BY <2>1, <1>1 DEF Min
    <3>2. QED
      BY <3>1 DEF SelectInSeq
  <2>3. Unblocked(c) = rest
    BY <1>3, <2>2 DEF Unblocked, RemoveFirst
  <2>4. /\ rest \in Seq(Client) /\ Len(rest) = Len(blocked) - 1
        /\ \A j \in 1 .. Len(blocked) - 1 : rest[j] = IF j < i THEN blocked[j] ELSE blocked[j + 1]
    BY RemoveAtIs
  <2> HIDE DEF rest
  <2>5. DOMAIN rest = 1 .. Len(blocked) - 1
    BY <2>4, LenProperties
  <2>6. IsInjective(rest)
    <3>1. ASSUME NEW j \in 1 .. Len(blocked) - 1, NEW k \in 1 .. Len(blocked) - 1,
                 rest[j] = rest[k]
          PROVE  j = k
      <4>1. PICK m \in 1 .. Len(blocked) :
                m = (IF j < i THEN j ELSE j + 1) /\ rest[j] = blocked[m]
        BY <1>1, <2>4
      <4>2. PICK n \in 1 .. Len(blocked) :
                n = (IF k < i THEN k ELSE k + 1) /\ rest[k] = blocked[n]
        BY <1>1, <2>4
      <4>3. m = n
        BY <1>1, <3>1, <4>1, <4>2 DEF IsInjective
      <4>4. QED
        BY <1>1, <4>1, <4>2, <4>3
    <3>2. QED
      BY <2>5, <3>1 DEF IsInjective
  <2>7. ASSUME NEW d \in ToSet(rest)
        PROVE  d \in ToSet(blocked) \ {c}
    <3>1. PICK j \in 1 .. Len(blocked) - 1 : d = rest[j]
      BY <2>5 DEF ToSet
    <3>2. PICK k \in 1 .. Len(blocked) : d = blocked[k] /\ k # i
      BY <1>1, <2>4, <3>1
    <3>3. QED
      BY <1>1, <1>3, <3>2 DEF ToSet, IsInjective
  <2>8. ASSUME NEW d \in ToSet(blocked) \ {c}
        PROVE  d \in ToSet(rest)
    <3>1. PICK k \in 1 .. Len(blocked) : d = blocked[k] /\ k # i
      BY <1>1, <1>3 DEF ToSet
    <3>2. \E j \in 1 .. Len(blocked) - 1 : d = rest[j]
      <4>1. CASE k < i
        BY <1>1, <2>4, <3>1, <4>1
      <4>2. CASE k > i
        <5>1. k - 1 \in 1 .. Len(blocked) - 1 /\ ~(k - 1 < i) /\ (k - 1) + 1 = k
          BY <1>1, <4>2
        <5>2. QED
          BY <2>4, <3>1, <5>1
      <4>3. QED
        BY <3>1, <4>1, <4>2, <1>1
    <3>3. QED
      BY <2>5, <3>2 DEF ToSet
  <2>9. QED
    BY <1>1, <1>3, <2>3, <2>4, <2>6, <2>7, <2>8
<1>4. QED
  BY <1>2, <1>3

-----------------------------------------------------------------------------
(* Where the clients are.                                                    *)

LEMMA Counted ==
    ASSUME NEW S \in SUBSET Client
    PROVE  IsFiniteSet(S) /\ Cardinality(S) \in Nat
<1>1. IsFiniteSet(S)
  BY ClientAssumption, FS_Subset
<1>2. QED
  BY <1>1, FS_CardinalityType

\* How a set of clients changes when at most one of them comes or goes.
LEMMA OneMoves ==
    ASSUME NEW S \in SUBSET Client, NEW T \in SUBSET Client, NEW c \in Client,
           S \ {c} = T \ {c}
    PROVE  /\ (c \in S <=> c \in T) => Cardinality(T) = Cardinality(S)
           /\ c \notin S /\ c \in T => Cardinality(T) = Cardinality(S) + 1
           /\ c \in S /\ c \notin T => Cardinality(T) = Cardinality(S) - 1
<1>1. /\ IsFiniteSet(S) /\ Cardinality(S) \in Nat
      /\ IsFiniteSet(T) /\ Cardinality(T) \in Nat
  BY Counted
<1>2. Cardinality(S \ {c}) = IF c \in S THEN Cardinality(S) - 1 ELSE Cardinality(S)
  BY <1>1, FS_RemoveElement
<1>3. Cardinality(T \ {c}) = IF c \in T THEN Cardinality(T) - 1 ELSE Cardinality(T)
  BY <1>1, FS_RemoveElement
<1>4. Cardinality(S \ {c}) = Cardinality(T \ {c})
  OBVIOUS
<1>5. CASE c \in S /\ c \in T
  BY <1>1, <1>2, <1>3, <1>4, <1>5
<1>6. CASE c \in S /\ c \notin T
  BY <1>1, <1>2, <1>3, <1>4, <1>6
<1>7. CASE c \notin S /\ c \in T
  BY <1>1, <1>2, <1>3, <1>4, <1>7
<1>8. CASE c \notin S /\ c \notin T
  BY <1>1, <1>2, <1>3, <1>4, <1>8
<1>9. QED
  BY <1>5, <1>6, <1>7, <1>8

LEMMA Moves ==
    ASSUME TypeOK, NEW c \in Client, NEW step \in Steps, Goto(c, step)
    PROVE  /\ pc' \in [Client -> Steps] /\ pc'[c] = step
           /\ \A d \in Client : d # c => pc'[d] = pc[d]
           /\ (pc[c] = "trim" <=> step = "trim") =>
                  Cardinality(Trimming') = Cardinality(Trimming)
           /\ pc[c] # "trim" /\ step = "trim" =>
                  Cardinality(Trimming') = Cardinality(Trimming) + 1
           /\ pc[c] = "trim" /\ step # "trim" =>
                  Cardinality(Trimming') = Cardinality(Trimming) - 1
           /\ (pc[c] \in {"try", "push"} <=> step \in {"try", "push"}) =>
                  Cardinality(Askers') = Cardinality(Askers)
           /\ pc[c] \notin {"try", "push"} /\ step \in {"try", "push"} =>
                  Cardinality(Askers') = Cardinality(Askers) + 1
           /\ pc[c] \in {"try", "push"} /\ step \notin {"try", "push"} =>
                  Cardinality(Askers') = Cardinality(Askers) - 1
<1>1. /\ pc' \in [Client -> Steps] /\ pc'[c] = step
      /\ \A d \in Client : d # c => pc'[d] = pc[d]
  BY DEF TypeOK, Goto, Steps
<1>2. /\ Trimming \in SUBSET Client /\ Trimming' \in SUBSET Client
      /\ Trimming \ {c} = Trimming' \ {c}
      /\ c \in Trimming <=> pc[c] = "trim"
      /\ c \in Trimming' <=> step = "trim"
  BY <1>1 DEF Trimming
<1>3. /\ Askers \in SUBSET Client /\ Askers' \in SUBSET Client
      /\ Askers \ {c} = Askers' \ {c}
      /\ c \in Askers <=> pc[c] \in {"try", "push"}
      /\ c \in Askers' <=> step \in {"try", "push"}
  BY <1>1 DEF Askers
<1>4. QED
  BY <1>1, <1>2, <1>3, OneMoves

LEMMA SomeAsk ==
    ASSUME NEW c \in Client, pc[c] \in {"try", "push"}
    PROVE  Cardinality(Askers) >= 1
<1>1. Askers \in SUBSET Client /\ Askers # {}
  BY DEF Askers
<1>2. IsFiniteSet(Askers) /\ Cardinality(Askers) \in Nat
  BY <1>1, Counted
<1>3. Cardinality(Askers) # 0
  BY <1>1, <1>2, FS_EmptySet
<1>4. QED
  BY <1>2, <1>3

\* What the counts of an invariant state are.
LEMMA Numbers ==
    ASSUME IInv
    PROVE  /\ tokens \in Nat /\ faults \in Nat /\ Limit \in Nat /\ MaxFaults \in Nat
           /\ Cardinality(Trimming) \in Nat /\ Cardinality(Askers) \in Nat
           /\ IsFiniteSet(holders) /\ Cardinality(holders) \in Nat
           /\ tokens <= Limit + Cardinality(Trimming) + faults
<1>1. Trimming \in SUBSET Client /\ Askers \in SUBSET Client /\ holders \in SUBSET Client
  BY DEF IInv, TypeOK, Trimming, Askers
<1>2. tokens <= Limit + Cardinality(Trimming) + faults
  BY DEF IInv, TokensBounded, Trimming
<1>3. QED
  BY <1>1, <1>2, Counted, LimitAssumption, FaultAssumption DEF IInv, TypeOK

-----------------------------------------------------------------------------
(* The steps.                                                                *)

\* A step of c that leaves the list of the blocked ones alone.
LEMMA OneGoes ==
    ASSUME IInv, NEW c \in Client, NEW step \in Steps, Goto(c, step),
           UNCHANGED blocked, pc[c] # "blocked", step # "blocked",
           tokens' \in Nat, holders' \in SUBSET Client, faults' \in 0 .. MaxFaults,
           late' \in SUBSET late, c \in late' => step \in {"try", "park", "blocked"}
    PROVE  TypeOK'
<1>1. /\ pc' \in [Client -> Steps] /\ pc'[c] = step
      /\ \A d \in Client : d # c => pc'[d] = pc[d]
  BY Moves DEF IInv
<1>2. TypeOK
  BY DEF IInv
<1>3. ToSet(blocked') = {d \in Client : pc'[d] = "blocked"}
  BY <1>1, <1>2 DEF TypeOK
<1>4. late' \subseteq {d \in Timed : pc'[d] \in {"try", "park", "blocked"}}
  <2>1. ASSUME NEW d \in late'
        PROVE  d \in Timed /\ pc'[d] \in {"try", "park", "blocked"}
    <3>1. d \in Timed /\ pc[d] \in {"try", "park", "blocked"}
      BY <1>2, <2>1 DEF TypeOK
    <3>2. CASE d = c
      BY <1>1, <3>1, <3>2
    <3>3. CASE d # c
      <4>1. d \in Client
        BY <3>1, ClientAssumption
      <4>2. QED
        BY <1>1, <3>1, <3>3, <4>1
    <3>4. QED
      BY <3>2, <3>3
  <2>2. QED
    BY <2>1
<1>5. QED
  BY <1>1, <1>2, <1>3, <1>4 DEF TypeOK, Steps

\* What is left to show of a step of c: that the counts stay in order.
LEMMA InOrder ==
    ASSUME IInv, TypeOK', NEW c \in Client,
           \A d \in Client : d # c => pc'[d] = pc[d],
           holders' \subseteq holders \cup {c},
           c \in holders' => pc'[c] \in {"hold", "crashed"},
           Cardinality(holders') <= Limit,
           faults' = 0 => faults = 0 /\ pc'[c] # "crashed",
           blocked' # <<>> => tokens' = 0,
           tokens' <= Limit + Cardinality(Trimming') + faults',
           faults' = 0 /\ (Awaited \/ pc'[c] \in {"park", "blocked"}) =>
               Limit - Cardinality(holders') <= tokens' + Cardinality(Askers')
    PROVE  IInv'
<1>1. \A d \in holders' : pc'[d] \in {"hold", "crashed"}
  BY DEF IInv, TypeOK
<1>2. faults' = 0 => \A d \in Client : pc'[d] # "crashed"
  BY DEF IInv
<1>3. TokensBounded'
  BY DEF TokensBounded, Trimming
<1>4. Awaited' => Awaited \/ pc'[c] \in {"park", "blocked"}
  BY DEF Awaited
<1>5. Announced'
  BY <1>4 DEF Announced
<1>6. QED
  BY <1>1, <1>2, <1>3, <1>5 DEF IInv

\* The steps of acquire that neither block nor unblock.
LEMMA AcquireSteps ==
    ASSUME IInv, NEW c \in Client,
           Begin(c) \/ Succeed(c) \/ Return(c) \/ Wait(c)
    PROVE  IInv'
<1>1. /\ tokens \in Nat /\ faults \in Nat /\ Limit \in Nat
      /\ Cardinality(Trimming) \in Nat /\ Cardinality(Askers) \in Nat
      /\ IsFiniteSet(holders) /\ Cardinality(holders) \in Nat
      /\ tokens <= Limit + Cardinality(Trimming) + faults
      /\ Cardinality(holders) <= Limit /\ holders \in SUBSET Client
      /\ faults \in 0 .. MaxFaults /\ (blocked # <<>> => tokens = 0)
      /\ \A d \in holders : pc[d] \in {"hold", "crashed"}
      /\ \A d \in late : pc[d] \in {"try", "park", "blocked"}
      /\ faults = 0 /\ Awaited =>
            Limit - Cardinality(holders) <= tokens + Cardinality(Askers)
  BY Numbers DEF IInv, TypeOK, Announced
<1>2. CASE Begin(c)
  <2>1. /\ pc[c] = "out" /\ Goto(c, "try") /\ c \notin holders
        /\ UNCHANGED <<holders, tokens, blocked, late, faults>>
    BY <1>1, <1>2 DEF Begin
  <2>2. TypeOK'
    BY <1>1, <2>1, OneGoes DEF Steps, Goto
  <2>3. /\ pc'[c] = "try" /\ \A d \in Client : d # c => pc'[d] = pc[d]
        /\ Cardinality(Trimming') = Cardinality(Trimming)
        /\ Cardinality(Askers') = Cardinality(Askers) + 1
    BY <1>1, <2>1, Moves DEF IInv, Steps, Goto
  <2>4. QED
    BY <1>1, <2>1, <2>2, <2>3, InOrder
<1>3. CASE Succeed(c)
  <2>1. /\ pc[c] = "try" /\ Goto(c, "hold") /\ c \notin holders
        /\ Cardinality(holders) < Limit /\ holders' = holders \cup {c}
        /\ late' = late \ {c} /\ UNCHANGED <<tokens, blocked, faults>>
    BY <1>1, <1>3 DEF Succeed, Free
  <2>2. TypeOK'
    BY <1>1, <2>1, OneGoes DEF Steps, Goto
  <2>3. Cardinality(holders') = Cardinality(holders) + 1 /\ Cardinality(holders') <= Limit
    <3>1. Cardinality(holders') = Cardinality(holders) + 1
      BY <1>1, <2>1, FS_AddElement
    <3>2. QED
      BY <1>1, <2>1, <3>1
  <2>4. /\ pc'[c] = "hold" /\ \A d \in Client : d # c => pc'[d] = pc[d]
        /\ Cardinality(Trimming') = Cardinality(Trimming)
        /\ Cardinality(Askers') = Cardinality(Askers) - 1
    BY <1>1, <2>1, Moves DEF IInv, Steps, Goto
  <2>5. /\ tokens' <= Limit + Cardinality(Trimming') + faults'
        /\ faults' = 0 /\ (Awaited \/ pc'[c] \in {"park", "blocked"}) =>
              Limit - Cardinality(holders') <= tokens' + Cardinality(Askers')
    BY <1>1, <2>1, <2>2, <2>3, <2>4
  <2>6. QED
    BY <1>1, <2>1, <2>2, <2>3, <2>4, <2>5, InOrder
<1>4. CASE Return(c)
  <2>1. /\ pc[c] = "try" /\ Goto(c, "out") /\ c \notin holders /\ Limit <= Cardinality(holders)
        /\ late' = late \ {c} /\ UNCHANGED <<holders, tokens, blocked, faults>>
    BY <1>1, <1>4 DEF Return, Free
  <2>2. TypeOK'
    BY <1>1, <2>1, OneGoes DEF Steps, Goto
  <2>3. Cardinality(Askers) >= 1
    BY <2>1, SomeAsk
  <2>4. /\ pc'[c] = "out" /\ \A d \in Client : d # c => pc'[d] = pc[d]
        /\ Cardinality(Trimming') = Cardinality(Trimming)
        /\ Cardinality(Askers') = Cardinality(Askers) - 1
    BY <1>1, <2>1, Moves DEF IInv, Steps, Goto
  <2>5. QED
    BY <1>1, <2>1, <2>2, <2>3, <2>4, InOrder
<1>5. CASE Wait(c)
  <2>1. /\ pc[c] = "try" /\ Goto(c, "park") /\ c \notin holders /\ Limit <= Cardinality(holders)
        /\ UNCHANGED <<holders, tokens, blocked, late, faults>>
    BY <1>1, <1>5 DEF Wait, Free
  <2>2. TypeOK'
    BY <1>1, <2>1, OneGoes DEF Steps, Goto
  <2>3. Cardinality(Askers) >= 1
    BY <2>1, SomeAsk
  <2>4. /\ pc'[c] = "park" /\ \A d \in Client : d # c => pc'[d] = pc[d]
        /\ Cardinality(Trimming') = Cardinality(Trimming)
        /\ Cardinality(Askers') = Cardinality(Askers) - 1
    BY <1>1, <2>1, Moves DEF IInv, Steps, Goto
  <2>5. QED
    BY <1>1, <2>1, <2>2, <2>3, <2>4, InOrder
<1>6. QED
  BY <1>2, <1>3, <1>4, <1>5

\* A step that takes c, and nobody else, from the list of the blocked ones, or was not
\* in it.
LEMMA OneUnblocks ==
    ASSUME IInv, NEW c \in Client, NEW step \in Steps \ {"blocked"}, Goto(c, step),
           blocked' = Unblocked(c), UNCHANGED <<holders, tokens>>, faults' \in 0 .. MaxFaults,
           late' \in SUBSET late, c \in late' => step \in {"try", "park", "blocked"}
    PROVE  TypeOK' /\ (blocked' # <<>> => tokens' = 0)
<1>1. /\ pc' \in [Client -> Steps] /\ pc'[c] = step
      /\ \A d \in Client : d # c => pc'[d] = pc[d]
  BY Moves DEF IInv
<1>2. TypeOK
  BY DEF IInv
<1>3. /\ blocked' \in Seq(Client) /\ IsInjective(blocked') /\ (blocked' # <<>> => blocked # <<>>)
      /\ ToSet(blocked') = ToSet(blocked) \ {c}
  BY <1>2, UnblockedIs DEF TypeOK
<1>4. ToSet(blocked') = {d \in Client : pc'[d] = "blocked"}
  BY <1>1, <1>2, <1>3 DEF TypeOK
<1>5. late' \subseteq {d \in Timed : pc'[d] \in {"try", "park", "blocked"}}
  BY <1>1, <1>2, ClientAssumption DEF TypeOK
<1>6. TypeOK'
  BY <1>1, <1>2, <1>3, <1>4, <1>5 DEF TypeOK, Steps
<1>7. QED
  BY <1>3, <1>6 DEF IInv

\* The steps of a wait in BLPOP.
LEMMA WaitSteps ==
    ASSUME IInv, NEW c \in Client,
           Blpop(c) \/ BlpopTimesOut(c) \/ Elapse(c)
    PROVE  IInv'
<1>1. /\ tokens \in Nat /\ faults \in Nat /\ Limit \in Nat
      /\ Cardinality(Trimming) \in Nat /\ Cardinality(Askers) \in Nat
      /\ IsFiniteSet(holders) /\ Cardinality(holders) \in Nat
      /\ tokens <= Limit + Cardinality(Trimming) + faults
      /\ Cardinality(holders) <= Limit /\ holders \in SUBSET Client
      /\ faults \in 0 .. MaxFaults /\ (blocked # <<>> => tokens = 0)
      /\ \A d \in holders : pc[d] \in {"hold", "crashed"}
      /\ \A d \in late : pc[d] \in {"try", "park", "blocked"}
      /\ faults = 0 /\ Awaited =>
            Limit - Cardinality(holders) <= tokens + Cardinality(Askers)
  BY Numbers DEF IInv, TypeOK, Announced
<1>2. CASE Blpop(c)
  <2>1. pc[c] = "park" /\ c \notin holders /\ UNCHANGED <<holders, late, faults>> /\ Awaited
    BY <1>1, <1>2 DEF Blpop, Awaited
  <2>2. CASE tokens > 0 /\ c \notin late
    <3>1. /\ tokens' = tokens - 1 /\ tokens' \in Nat
          /\ Goto(c, "try") /\ UNCHANGED blocked
      BY <1>1, <1>2, <2>2 DEF Blpop
    <3>2. TypeOK'
      BY <1>1, <2>1, <2>2, <3>1, OneGoes DEF Steps, Goto
    <3>3. blocked = <<>>
      BY <1>1, <2>2
    <3>4. /\ pc'[c] = "try" /\ \A d \in Client : d # c => pc'[d] = pc[d]
          /\ Cardinality(Trimming') = Cardinality(Trimming)
          /\ Cardinality(Askers') = Cardinality(Askers) + 1
      BY <1>1, <2>1, <3>1, Moves DEF IInv, Steps, Goto
    <3>5. QED
      BY <1>1, <2>1, <2>2, <3>1, <3>2, <3>3, <3>4, InOrder, SMTT(30)
  <2>3. CASE c \in late
    <3>1. Goto(c, "try") /\ UNCHANGED <<tokens, blocked>>
      BY <1>2, <2>3 DEF Blpop
    <3>2. TypeOK'
      BY <1>1, <2>1, <3>1, OneGoes DEF Steps, Goto
    <3>3. /\ pc'[c] = "try" /\ \A d \in Client : d # c => pc'[d] = pc[d]
          /\ Cardinality(Trimming') = Cardinality(Trimming)
          /\ Cardinality(Askers') = Cardinality(Askers) + 1
      BY <1>1, <2>1, <3>1, Moves DEF IInv, Steps, Goto
    <3>4. QED
      BY <1>1, <2>1, <3>1, <3>2, <3>3, InOrder
  <2>4. CASE tokens = 0 /\ c \notin late
    <3>1. blocked' = Append(blocked, c) /\ Goto(c, "blocked") /\ UNCHANGED tokens
      BY <1>1, <1>2, <2>4 DEF Blpop
    <3>2. TypeOK'
      <4>1. /\ pc' \in [Client -> Steps] /\ pc'[c] = "blocked"
            /\ \A d \in Client : d # c => pc'[d] = pc[d]
        BY <3>1, Moves DEF IInv, Steps, Goto
      <4>2. /\ blocked \in Seq(Client) /\ IsInjective(blocked)
            /\ ToSet(blocked) = {d \in Client : pc[d] = "blocked"}
        BY DEF IInv, TypeOK
      <4>3. /\ Len(blocked) \in Nat /\ DOMAIN blocked = 1 .. Len(blocked)
            /\ blocked' \in Seq(Client) /\ Len(blocked') = Len(blocked) + 1
            /\ \A i \in 1 .. Len(blocked) : blocked'[i] = blocked[i]
            /\ blocked'[Len(blocked) + 1] = c
        BY <3>1, <4>2, LenProperties, AppendProperties
      <4>4. DOMAIN blocked' = 1 .. Len(blocked) + 1
        BY <4>3, LenProperties
      <4>5. c \notin ToSet(blocked)
        BY <2>1, <4>2
      <4>6. ToSet(blocked') = ToSet(blocked) \cup {c}
        BY <4>3, <4>4 DEF ToSet
      <4>7. IsInjective(blocked')
        BY <4>2, <4>3, <4>4, <4>5 DEF ToSet, IsInjective
      <4>8. ToSet(blocked') = {d \in Client : pc'[d] = "blocked"}
        BY <4>1, <4>2, <4>6
      <4>9. late' \subseteq {d \in Timed : pc'[d] \in {"try", "park", "blocked"}}
        BY <2>1, <4>1, ClientAssumption DEF IInv, TypeOK
      <4>10. QED
        BY <2>1, <3>1, <4>1, <4>3, <4>7, <4>8, <4>9 DEF IInv, TypeOK, Steps
    <3>3. /\ pc'[c] = "blocked" /\ \A d \in Client : d # c => pc'[d] = pc[d]
          /\ Cardinality(Trimming') = Cardinality(Trimming)
          /\ Cardinality(Askers') = Cardinality(Askers)
      BY <1>1, <2>1, <3>1, Moves DEF IInv, Steps, Goto
    <3>4. QED
      BY <1>1, <2>1, <2>4, <3>1, <3>2, <3>3, InOrder
  <2>5. QED
    BY <1>1, <2>2, <2>3, <2>4
<1>3. CASE BlpopTimesOut(c)
  <2>1. /\ pc[c] = "blocked" /\ c \notin holders /\ UNCHANGED <<holders, tokens, late, faults>>
        /\ blocked' = Unblocked(c) /\ Goto(c, "try")
    BY <1>1, <1>3 DEF BlpopTimesOut
  <2>2. TypeOK' /\ (blocked' # <<>> => tokens' = 0)
    BY <1>1, <2>1, OneUnblocks DEF Steps, Goto
  <2>3. /\ pc'[c] = "try" /\ \A d \in Client : d # c => pc'[d] = pc[d]
        /\ Cardinality(Trimming') = Cardinality(Trimming)
        /\ Cardinality(Askers') = Cardinality(Askers) + 1
    BY <1>1, <2>1, Moves DEF IInv, Steps, Goto
  <2>4. QED
    BY <1>1, <2>1, <2>2, <2>3, InOrder
<1>4. CASE Elapse(c)
  <2>1. TypeOK'
    BY <1>4 DEF IInv, TypeOK, Elapse
  <2>2. QED
    BY <1>4, <2>1 DEF IInv, TokensBounded, Announced, Awaited, Askers, Elapse
<1>5. QED
  BY <1>2, <1>3, <1>4

-----------------------------------------------------------------------------
(* The steps of release, and the faults.                                     *)

LEMMA ReleaseSteps ==
    ASSUME IInv, NEW c \in Client,
           Release(c) \/ Push(c) \/ Trim(c)
    PROVE  IInv'
<1>1. /\ tokens \in Nat /\ faults \in Nat /\ Limit \in Nat
      /\ Cardinality(Trimming) \in Nat /\ Cardinality(Askers) \in Nat
      /\ IsFiniteSet(holders) /\ Cardinality(holders) \in Nat
      /\ tokens <= Limit + Cardinality(Trimming) + faults
      /\ Cardinality(holders) <= Limit /\ holders \in SUBSET Client
      /\ faults \in 0 .. MaxFaults /\ (blocked # <<>> => tokens = 0)
      /\ \A d \in holders : pc[d] \in {"hold", "crashed"}
      /\ \A d \in late : pc[d] \in {"try", "park", "blocked"}
      /\ faults = 0 /\ Awaited =>
            Limit - Cardinality(holders) <= tokens + Cardinality(Askers)
  BY Numbers DEF IInv, TypeOK, Announced
<1>2. CASE Release(c)
  <2>1. /\ pc[c] = "hold" /\ Goto(c, "push")
        /\ holders' = holders \ {c} /\ holders' \in SUBSET Client
        /\ UNCHANGED <<tokens, blocked, late, faults>>
    BY <1>1, <1>2 DEF Release
  <2>2. TypeOK'
    BY <1>1, <2>1, OneGoes DEF Steps, Goto
  <2>3. /\ Cardinality(holders') \in Nat
        /\ Cardinality(holders') <= Cardinality(holders)
        /\ Cardinality(holders) <= Cardinality(holders') + 1
    <3>1. /\ IsFiniteSet(holders')
          /\ Cardinality(holders') =
                IF c \in holders THEN Cardinality(holders) - 1 ELSE Cardinality(holders)
      BY <1>1, <2>1, FS_RemoveElement
    <3>2. Cardinality(holders') \in Nat
      BY <3>1, FS_CardinalityType
    <3>3. QED
      BY <1>1, <3>1, <3>2
  <2>4. /\ pc'[c] = "push" /\ \A d \in Client : d # c => pc'[d] = pc[d]
        /\ Cardinality(Trimming') = Cardinality(Trimming)
        /\ Cardinality(Askers') = Cardinality(Askers) + 1
    BY <1>1, <2>1, Moves DEF IInv, Steps, Goto
  <2>5. /\ tokens' <= Limit + Cardinality(Trimming') + faults'
        /\ faults' = 0 /\ (Awaited \/ pc'[c] \in {"park", "blocked"}) =>
              Limit - Cardinality(holders') <= tokens' + Cardinality(Askers')
    BY <1>1, <2>1, <2>2, <2>3, <2>4
  <2>6. /\ Cardinality(holders') <= Limit /\ c \notin holders' /\ holders' \subseteq holders \cup {c}
        /\ blocked' # <<>> => tokens' = 0
        /\ faults' = 0 => faults = 0 /\ pc'[c] # "crashed"
    BY <1>1, <2>1, <2>3, <2>4
  <2>7. QED
    BY <2>2, <2>4, <2>5, <2>6, InOrder
<1>3. CASE Push(c) /\ blocked = <<>>
  <2>1. /\ pc[c] = "push" /\ c \notin holders /\ Goto(c, "trim") /\ tokens' = tokens + 1
        /\ tokens' \in Nat /\ UNCHANGED <<holders, blocked, late, faults>>
    BY <1>1, <1>3 DEF Push
  <2>2. TypeOK'
    BY <1>1, <2>1, OneGoes DEF Steps, Goto
  <2>3. Cardinality(Askers) >= 1
    BY <2>1, SomeAsk
  <2>4. /\ pc'[c] = "trim" /\ \A d \in Client : d # c => pc'[d] = pc[d]
        /\ Cardinality(Trimming') = Cardinality(Trimming) + 1
        /\ Cardinality(Askers') = Cardinality(Askers) - 1
    BY <1>1, <2>1, Moves DEF IInv, Steps, Goto
  <2>5. /\ tokens' <= Limit + Cardinality(Trimming') + faults'
        /\ faults' = 0 /\ (Awaited \/ pc'[c] \in {"park", "blocked"}) =>
              Limit - Cardinality(holders') <= tokens' + Cardinality(Askers')
    BY <1>1, <1>3, <2>1, <2>2, <2>3, <2>4, SMTT(30)
  <2>6. QED
    BY <1>1, <1>3, <2>1, <2>2, <2>3, <2>4, <2>5, InOrder
<1>4. CASE Push(c) /\ blocked # <<>>
  <2> DEFINE head == Head(blocked)
  <2>1. /\ pc[c] = "push" /\ c \notin holders /\ blocked' = Tail(blocked)
        /\ pc' = [pc EXCEPT ![c] = "trim", ![head] = "try"]
        /\ UNCHANGED <<holders, tokens, late, faults>>
    BY <1>1, <1>4 DEF Push
  <2>2. /\ blocked \in Seq(Client) /\ IsInjective(blocked) /\ Len(blocked) \in Nat
        /\ DOMAIN blocked = 1 .. Len(blocked) /\ Len(blocked) # 0
        /\ ToSet(blocked) = {d \in Client : pc[d] = "blocked"}
        /\ pc \in [Client -> Steps] /\ TypeOK
    BY <1>4, LenProperties, EmptySeq DEF IInv, TypeOK, Steps
  <2>3. /\ blocked' \in Seq(Client) /\ Len(blocked') = Len(blocked) - 1
        /\ \A i \in 1 .. Len(blocked) - 1 : blocked'[i] = blocked[i + 1]
    BY <1>4, <2>1, <2>2, HeadTailProperties
  <2>4. DOMAIN blocked' = 1 .. Len(blocked) - 1
    BY <2>3, LenProperties
  <2>5. head = blocked[1] /\ 1 \in 1 .. Len(blocked)
    BY <1>4, <2>2
  <2> HIDE DEF head
  <2>6. head \in Client /\ pc[head] = "blocked" /\ head # c
    BY <2>1, <2>2, <2>5 DEF ToSet
  <2>7. /\ pc' \in [Client -> Steps] /\ pc'[c] = "trim" /\ pc'[head] = "try"
        /\ \A d \in Client : d # c /\ d # head => pc'[d] = pc[d]
    BY <2>1, <2>2, <2>6 DEF Steps
  <2>8. ToSet(blocked') = ToSet(blocked) \ {head}
    <3>1. ASSUME NEW d \in ToSet(blocked')
          PROVE  d \in ToSet(blocked) \ {head}
      <4>1. PICK i \in 1 .. Len(blocked) - 1 : d = blocked[i + 1]
        BY <2>3, <2>4 DEF ToSet
      <4>2. i + 1 \in 1 .. Len(blocked) /\ i + 1 # 1
        BY <2>2
      <4>3. QED
        BY <2>2, <2>5, <4>1, <4>2 DEF ToSet, IsInjective
    <3>2. ASSUME NEW d \in ToSet(blocked) \ {head}
          PROVE  d \in ToSet(blocked')
      <4>1. PICK i \in 1 .. Len(blocked) : d = blocked[i] /\ i # 1
        BY <2>2, <2>5, <3>2 DEF ToSet
      <4>2. i - 1 \in 1 .. Len(blocked) - 1 /\ (i - 1) + 1 = i
        BY <2>2, <4>1
      <4>3. QED
        BY <2>3, <2>4, <4>1, <4>2 DEF ToSet
    <3>3. QED
      BY <3>1, <3>2
  <2>9. IsInjective(blocked')
    <3>1. ASSUME NEW i \in 1 .. Len(blocked) - 1, NEW j \in 1 .. Len(blocked) - 1,
                 blocked'[i] = blocked'[j]
          PROVE  i = j
      <4>1. /\ i + 1 \in 1 .. Len(blocked) /\ j + 1 \in 1 .. Len(blocked)
            /\ blocked[i + 1] = blocked[j + 1]
        BY <2>2, <2>3, <3>1
      <4>2. i + 1 = j + 1
        BY <2>2, <4>1 DEF IsInjective
      <4>3. QED
        BY <2>2, <4>2
    <3>2. QED
      BY <2>4, <3>1 DEF IsInjective
  <2>10. TypeOK'
    <3>1. ToSet(blocked') = {d \in Client : pc'[d] = "blocked"}
      BY <2>1, <2>2, <2>6, <2>7, <2>8
    <3>2. late' \subseteq {d \in Timed : pc'[d] \in {"try", "park", "blocked"}}
      BY <2>1, <2>2, <2>7, ClientAssumption DEF TypeOK
    <3>3. QED
      BY <2>1, <2>2, <2>3, <2>7, <2>9, <3>1, <3>2 DEF TypeOK, Steps
  <2>11. Cardinality(Trimming') = Cardinality(Trimming) + 1
    <3>1. /\ Trimming \in SUBSET Client /\ Trimming' \in SUBSET Client
          /\ Trimming \ {c} = Trimming' \ {c} /\ c \notin Trimming /\ c \in Trimming'
      BY <2>1, <2>6, <2>7 DEF Trimming
    <3>2. QED
      BY <3>1, OneMoves
  <2>12. Cardinality(Askers') = Cardinality(Askers)
    <3> DEFINE rest == Askers \ {c}
    <3>1. /\ Askers \in SUBSET Client /\ rest \in SUBSET Client /\ Askers' \in SUBSET Client
          /\ Askers \ {c} = rest \ {c} /\ c \in Askers /\ c \notin rest
          /\ rest \ {head} = Askers' \ {head} /\ head \notin rest /\ head \in Askers'
      BY <2>1, <2>6, <2>7 DEF Askers
    <3> HIDE DEF rest
    <3>2. Cardinality(rest) = Cardinality(Askers) - 1
      BY <3>1, OneMoves
    <3>3. Cardinality(Askers') = Cardinality(rest) + 1
      BY <2>6, <3>1, OneMoves
    <3>4. QED
      BY <1>1, <3>2, <3>3
  <2>13. IInv
    OBVIOUS
  <2>14. (\A d \in holders' : pc'[d] \in {"hold", "crashed"})
    BY <1>1, <2>1, <2>6, <2>7
  <2>15. faults' = 0 => \A d \in Client : pc'[d] # "crashed"
    BY <2>1, <2>7, <2>13 DEF IInv
  <2>16. TokensBounded'
    <3>1. tokens' <= Limit + Cardinality(Trimming') + faults'
      BY <1>1, <2>1, <2>11
    <3>2. QED
      BY <3>1 DEF TokensBounded, Trimming
  <2>17. Announced'
    <3>1. Awaited
      BY <2>6 DEF Awaited
    <3>2. QED
      BY <1>1, <2>1, <2>12, <3>1 DEF Announced
  <2>18. QED
    BY <1>1, <1>4, <2>1, <2>10, <2>14, <2>15, <2>16, <2>17 DEF IInv
<1>5. CASE Trim(c)
  <2>1. /\ pc[c] = "trim" /\ c \notin holders /\ Goto(c, "out")
        /\ tokens' = (IF tokens > Limit THEN Limit ELSE tokens)
        /\ UNCHANGED <<holders, blocked, late, faults>>
    BY <1>1, <1>5 DEF Trim
  <2>2. tokens' \in Nat /\ tokens' <= Limit /\ (tokens' = Limit \/ tokens' = tokens)
    BY <1>1, <2>1
  <2>3. TypeOK'
    BY <1>1, <2>1, <2>2, OneGoes DEF Steps, Goto
  <2>4. /\ pc'[c] = "out" /\ \A d \in Client : d # c => pc'[d] = pc[d]
        /\ Cardinality(Trimming') = Cardinality(Trimming) - 1
        /\ Cardinality(Askers') = Cardinality(Askers)
    BY <1>1, <2>1, Moves DEF IInv, Steps, Goto
  <2>5. Cardinality(Trimming') \in Nat
    <3>1. Trimming' \in SUBSET Client
      BY DEF Trimming
    <3>2. QED
      BY <3>1, Counted
  <2>6. blocked' # <<>> => tokens' = 0
    BY <1>1, <2>1, LimitAssumption
  <2>7. QED
    BY <1>1, <2>1, <2>2, <2>3, <2>4, <2>5, <2>6, InOrder, SMTT(30)
<1>6. QED
  BY <1>2, <1>3, <1>4, <1>5

\* A fault of c: of the counts only the tokens matter then.
LEMMA FaultSteps ==
    ASSUME IInv, NEW c \in Client,
           NotifyFails(c) \/ WaitFails(c) \/ Crash(c)
    PROVE  IInv'
<1>1. /\ tokens \in Nat /\ faults \in Nat /\ Limit \in Nat
      /\ Cardinality(Trimming) \in Nat /\ Cardinality(Trimming') \in Nat
      /\ tokens <= Limit + Cardinality(Trimming) + faults
      /\ Cardinality(holders) <= Limit /\ holders \in SUBSET Client
      /\ faults \in 0 .. MaxFaults /\ (blocked # <<>> => tokens = 0)
      /\ \A d \in holders : pc[d] \in {"hold", "crashed"}
      /\ \A d \in late : pc[d] \in {"try", "park", "blocked"}
      /\ MaxFaults \in Nat
  <2>1. Trimming' \in SUBSET Client
    BY DEF Trimming
  <2>2. Cardinality(Trimming') \in Nat
    BY <2>1, Counted
  <2>3. QED
    BY <2>2, Numbers DEF IInv, TypeOK
<1>2. /\ faults' \in 0 .. MaxFaults /\ faults' = faults + 1 /\ faults' # 0
      /\ UNCHANGED <<holders, tokens>>
  BY <1>1 DEF NotifyFails, WaitFails, Crash, Fault
<1>3. ASSUME NEW step \in Steps, Goto(c, step), TypeOK', c \in holders => step = "crashed",
             blocked' # <<>> => tokens' = 0
      PROVE  IInv'
  <2>0. /\ pc'[c] = step /\ \A d \in Client : d # c => pc'[d] = pc[d]
    BY <1>3 DEF IInv, TypeOK, Goto
  <2>1. Cardinality(Trimming') >= Cardinality(Trimming) - 1
    <3>1. /\ pc[c] # "trim" /\ step = "trim" => Cardinality(Trimming') = Cardinality(Trimming) + 1
          /\ pc[c] # "trim" /\ step # "trim" => Cardinality(Trimming') = Cardinality(Trimming)
          /\ pc[c] = "trim" /\ step # "trim" => Cardinality(Trimming') = Cardinality(Trimming) - 1
          /\ pc[c] = "trim" /\ step = "trim" => Cardinality(Trimming') = Cardinality(Trimming)
      BY <1>3, Moves DEF IInv, Goto
    <3>2. QED
      BY <1>1, <3>1
  <2>2. /\ tokens' <= Limit + Cardinality(Trimming') + faults'
        /\ holders' \subseteq holders \cup {c} /\ c \in holders' => pc'[c] \in {"hold", "crashed"}
        /\ Cardinality(holders') <= Limit
    BY <1>1, <1>2, <1>3, <2>0, <2>1
  <2>3. QED
    BY <1>2, <1>3, <2>0, <2>1, <2>2, InOrder
<1>4. CASE NotifyFails(c)
  <2>1. /\ pc[c] \in {"push", "trim"} /\ Goto(c, "out") /\ c \notin holders
        /\ UNCHANGED <<blocked, late>>
    BY <1>1, <1>4 DEF NotifyFails
  <2>2. TypeOK'
    BY <1>1, <1>2, <2>1, OneGoes DEF Steps, Goto
  <2>3. QED
    BY <1>1, <1>2, <1>3, <2>1, <2>2 DEF Steps, Goto
<1>5. CASE WaitFails(c)
  <2>1. /\ pc[c] = "blocked" /\ c \notin holders /\ blocked' = Unblocked(c)
        /\ \/ Goto(c, "try") /\ UNCHANGED late
           \/ Goto(c, "out") /\ late' = late \ {c}
    BY <1>1, <1>5 DEF WaitFails
  <2>2. CASE Goto(c, "try") /\ UNCHANGED late
    <3>1. TypeOK' /\ (blocked' # <<>> => tokens' = 0)
      BY <1>2, <2>1, <2>2, OneUnblocks DEF Steps, Goto
    <3>2. QED
      BY <1>3, <2>1, <2>2, <3>1 DEF Steps
  <2>3. CASE Goto(c, "out") /\ late' = late \ {c}
    <3>1. TypeOK' /\ (blocked' # <<>> => tokens' = 0)
      BY <1>2, <2>1, <2>3, OneUnblocks DEF Steps, Goto
    <3>2. QED
      BY <1>3, <2>1, <2>3, <3>1 DEF Steps
  <2>4. QED
    BY <2>1, <2>2, <2>3
<1>6. CASE Crash(c)
  <2>1. /\ Goto(c, "crashed") /\ blocked' = Unblocked(c) /\ late' = late \ {c}
    BY <1>6 DEF Crash
  <2>2. TypeOK' /\ (blocked' # <<>> => tokens' = 0)
    BY <1>2, <2>1, OneUnblocks DEF Steps, Goto
  <2>3. QED
    BY <1>3, <2>1, <2>2 DEF Steps, Goto
<1>7. QED
  BY <1>4, <1>5, <1>6

\* A lease ends, or the list of tokens expires.
LEMMA ServerSteps ==
    ASSUME IInv, TokensExpire \/ \E c \in Client : Evict(c)
    PROVE  IInv'
<1>1. /\ tokens \in Nat /\ faults \in Nat /\ Limit \in Nat /\ MaxFaults \in Nat
      /\ Cardinality(Trimming) \in Nat
      /\ IsFiniteSet(holders) /\ Cardinality(holders) \in Nat
      /\ Cardinality(holders) <= Limit
  BY Numbers DEF IInv
<1>2. CASE TokensExpire
  <2>1. /\ tokens' = 0 /\ faults' = faults + 1 /\ faults' \in 0 .. MaxFaults
        /\ UNCHANGED <<pc, holders, blocked, late>>
    BY <1>1, <1>2 DEF TokensExpire, Fault
  <2>2. TypeOK'
    BY <2>1 DEF IInv, TypeOK
  <2>3. tokens' <= Limit + Cardinality(Trimming) + faults'
    BY <1>1, <2>1
  <2>4. TokensBounded' /\ Announced'
    BY <1>1, <2>1, <2>3 DEF TokensBounded, Announced, Trimming
  <2>5. QED
    BY <1>1, <2>1, <2>2, <2>4 DEF IInv
<1>3. ASSUME NEW c \in Client, Evict(c)
      PROVE  IInv'
  <2>1. /\ pc[c] = "crashed" /\ holders' = holders \ {c}
        /\ UNCHANGED <<pc, tokens, blocked, late, faults>>
    BY <1>3 DEF Evict
  <2>2. TypeOK'
    BY <2>1 DEF IInv, TypeOK
  <2>3. Cardinality(holders') <= Limit
    <3>1. /\ IsFiniteSet(holders')
          /\ Cardinality(holders') =
                IF c \in holders THEN Cardinality(holders) - 1 ELSE Cardinality(holders)
      BY <1>1, <2>1, FS_RemoveElement
    <3>2. QED
      BY <1>1, <3>1
  <2>4. TokensBounded' /\ Announced'
    BY <2>1 DEF IInv, TokensBounded, Announced
  <2>5. QED
    BY <2>1, <2>2, <2>3, <2>4 DEF IInv
<1>4. QED
  BY <1>2, <1>3

LEMMA InitInvariant == Init => IInv
<1> SUFFICES ASSUME Init PROVE IInv
  OBVIOUS
<1>1. \A c \in Client : pc[c] = "out"
  BY DEF Init
<1>2. Trimming = {} /\ ~Awaited
  BY <1>1 DEF Trimming, Awaited
<1>3. Cardinality({}) = 0 /\ Limit \in Nat /\ MaxFaults \in Nat
  BY FS_EmptySet, LimitAssumption, FaultAssumption
<1>4. /\ blocked \in Seq(Client) /\ ToSet(blocked) = {} /\ IsInjective(blocked)
  <2>1. blocked = <<>> /\ blocked \in Seq(Client) /\ Len(blocked) = 0
    BY EmptySeq DEF Init
  <2>2. DOMAIN blocked = {}
    BY <2>1
  <2>3. QED
    BY <2>1, <2>2 DEF ToSet, IsInjective
<1>5. TypeOK
  BY <1>1, <1>3, <1>4 DEF Init, TypeOK
<1>6. TokensBounded /\ Announced
  <2>1. tokens = 0 /\ faults = 0
    BY DEF Init
  <2>2. {c \in Client : pc[c] = "trim"} = {}
    BY <1>1
  <2>3. TokensBounded
    BY <1>3, <2>1, <2>2 DEF TokensBounded
  <2>4. QED
    BY <1>2, <2>3 DEF Announced
<1>7. QED
  BY <1>1, <1>3, <1>5, <1>6 DEF Init, IInv

LEMMA StepInvariant == IInv /\ [Next]_vars => IInv'
<1> SUFFICES ASSUME IInv, [Next]_vars PROVE IInv'
  OBVIOUS
<1>1. CASE UNCHANGED vars
  BY <1>1 DEF vars, IInv, TypeOK, TokensBounded, Announced, Awaited, Askers
<1>2. CASE TokensExpire
  BY <1>2, ServerSteps
<1>3. ASSUME NEW c \in Client,
             Begin(c) \/ Succeed(c) \/ Return(c) \/ Wait(c) \/ Blpop(c)
                \/ BlpopTimesOut(c) \/ Elapse(c)
      PROVE  IInv'
  BY <1>3, AcquireSteps, WaitSteps
<1>4. ASSUME NEW c \in Client,
             Release(c) \/ Push(c) \/ Trim(c) \/ NotifyFails(c) \/ WaitFails(c)
                \/ Crash(c) \/ Evict(c)
      PROVE  IInv'
  BY <1>4, ReleaseSteps, FaultSteps, ServerSteps
<1>5. QED
  BY <1>1, <1>2, <1>3, <1>4 DEF Next

LEMMA Invariant == Spec => []IInv
BY InitInvariant, StepInvariant, PTL DEF Spec

-----------------------------------------------------------------------------
(* The theorems.                                                             *)

\* The clients Redis has blocked are those in BLPOP, each once, and only acquires that
\* wait have run out of time: release, a timeout, a broken wait and a crash keep the
\* two sides in step.
THEOREM TypeCorrect == Spec => []TypeOK
<1>1. IInv => TypeOK
  BY DEF IInv
<1>2. QED
  BY <1>1, Invariant, PTL

\* However many clients notify at once, LTRIM keeps the list of tokens within Limit, the
\* notifiers that have not trimmed it yet, and those that have failed in between.
THEOREM TokensStayFew == Spec => []TokensBounded
<1>1. IInv => TokensBounded
  BY DEF IInv
<1>2. QED
  BY <1>1, Invariant, PTL

\* Release gives the slot back before it pushes a token, and acquire asks again after
\* every wake-up: without faults a free slot and a blocked client never stand side by
\* side with nobody about to bring them together.
THEOREM WakeupsArrive == Spec => []NoMissedWakeup
<1>1. ASSUME IInv, faults = 0, Free, blocked # <<>>
      PROVE  \E c \in Client : pc[c] \in {"try", "push"}
  <2>1. Awaited
    <3>1. /\ Len(blocked) \in Nat /\ DOMAIN blocked = 1 .. Len(blocked) /\ Len(blocked) # 0
          /\ ToSet(blocked) = {d \in Client : pc[d] = "blocked"}
      BY <1>1, LenProperties, EmptySeq DEF IInv, TypeOK
    <3>2. blocked[1] \in ToSet(blocked)
      BY <3>1 DEF ToSet
    <3>3. QED
      BY <3>1, <3>2 DEF Awaited
  <2>2. /\ Limit \in Nat /\ Cardinality(holders) \in Nat /\ Cardinality(holders) < Limit
        /\ Cardinality(Askers) \in Nat /\ tokens = 0
        /\ Limit - Cardinality(holders) <= tokens + Cardinality(Askers)
    BY <1>1, <2>1, Numbers DEF IInv, Announced, Free
  <2>3. Cardinality(Askers) # 0
    BY <2>2
  <2>4. Askers # {}
    BY <2>3, FS_EmptySet
  <2>5. QED
    BY <2>4 DEF Askers
<1>2. IInv => NoMissedWakeup
  BY <1>1 DEF NoMissedWakeup
<1>3. QED
  BY <1>2, Invariant, PTL
=============================================================================
