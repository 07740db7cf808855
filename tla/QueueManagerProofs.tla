------------------------- MODULE QueueManagerProofs -------------------------
(***************************************************************************)
(* Proofs about the two queue managers: the jobs of the Python one with    *)
(* its memory fallback (QueueFallback), and the rate limit of a replier    *)
(* account that the Go one keeps (RateLimit).                              *)
(*                                                                         *)
(* The jobs of a message are counted place by place.  Each step moves jobs *)
(* of one worker only, so what it does to the count is what it does to     *)
(* that worker's queue, hand and handlers.                                 *)
(***************************************************************************)
EXTENDS QueueFallback, RateLimit, SequenceTheorems, FiniteSetTheorems, TLAPS

-----------------------------------------------------------------------------
\* Between the pop and the answer the loop holds the job, and only then.
HeldFits == \A w \in Workers : held[w] # NoJob <=> loop[w] \in {"texts", "requeue"}

\* The summands of Copies, for queues, consumers and handlers of any state.
InQueue(m, s)   == Cardinality(Places(m, s))
InMemory(m, q)  == Cardinality(Stored(m, q))
InHand(m, h)    == Cardinality(Holding(m, h))
InHandler(m, n) == Cardinality(Handlers(m, n))

\* The items of one worker in the pool.
Tag(w, S) == {<<w, i>> : i \in S}

\* The workers without Redis that have seen the message, and its mark in Redis.
Owners(m, u, s) == {v \in Workers : ~u[v] /\ m \in s[v]}
Mark(m, s)      == IF m \in s THEN 1 ELSE 0

\* Every job and every answer of a message is paid for: by its mark in Redis, by
\* a worker without Redis that has seen it, or by a fault.
Paid(m) ==
  Copies(m) + answered[m]
    <= Mark(m, seen) + touched[m] + Cardinality(Owners(m, useRedis, memSeen))

\* LossNeedsFault, of one message.
Explained(m) ==
  m \in seen \cup UNION {memSeen[w] : w \in Workers}
    => Copies(m) > 0 \/ answered[m] > 0 \/ m \in dropped \/ touched[m] > 0

FallbackInv == TypeOK /\ HeldFits /\ \A m \in Msgs : Paid(m) /\ Explained(m)

\* What a step does to the jobs and answers of a message: it adds none but for
\* a fault, and takes none away but for a fault or when the job is dropped.
Kept(m) ==
  /\ touched[m] <= touched'[m]
  /\ Copies(m)' + answered'[m] + touched[m] <= Copies(m) + answered[m] + touched'[m]
  /\ \/ touched[m] < touched'[m]
     \/ m \in dropped'
     \/ Copies(m) + answered[m] <= Copies(m)' + answered'[m]

\* Is j a job for m, and is the first job of the queue one?
Is(j, m)    == IF j # NoJob /\ j.msg = m THEN 1 ELSE 0
First(m, s) == IF s = <<>> THEN 0 ELSE Is(Head(s), m)

\* The messages of the jobs that the server gives out.
Gone(s, n) == {s[i].msg : i \in {k \in DOMAIN s : k <= n}}

-----------------------------------------------------------------------------
\* The items of one worker in the pool are as many as it has.
LEMMA Tagged ==
  ASSUME NEW w, NEW S, IsFiniteSet(S)
  PROVE  IsFiniteSet(Tag(w, S)) /\ Cardinality(Tag(w, S)) = Cardinality(S)
<1> DEFINE T == Tag(w, S)
           g == [i \in S |-> <<w, i>>]
<1>1. g \in Bijection(S, T)
  BY DEF Tag, Bijection, Injection, Surjection, IsInjective
<1>2. ExistsBijection(S, T)
  BY <1>1 DEF ExistsBijection
<1> QED  BY <1>2, FS_Bijection

\* Finitely many workers with finitely many items each.
LEMMA PoolFinite ==
  ASSUME FallbackAssumption, NEW f, \A w \in Workers : IsFiniteSet(f[w])
  PROVE  IsFiniteSet(Pool(f))
<1> DEFINE P(w) == Tag(w, f[w])
           S    == {P(w) : w \in Workers}
           g    == [w \in Workers |-> P(w)]
<1>1. \A w \in Workers : IsFiniteSet(P(w))
  BY Tagged
<1>2. g \in Surjection(Workers, S)
  BY DEF Surjection
<1>3. IsFiniteSet(S)
  <2> HIDE DEF S, g
  <2> QED  BY <1>2, FS_Surjection DEF FallbackAssumption
<1>4. \A T \in S : IsFiniteSet(T)
  BY <1>1
<1>5. Pool(f) = UNION S
  BY DEF Pool, Tag
<1> QED
  <2> HIDE DEF S
  <2> QED  BY <1>3, <1>4, <1>5, FS_UNION

\* Only the items of one worker change: the pool changes as they do.
LEMMA PoolChange ==
  ASSUME FallbackAssumption, NEW f, NEW g, NEW w \in Workers,
         \A v \in Workers : IsFiniteSet(f[v]) /\ IsFiniteSet(g[v]),
         \A v \in Workers : v # w => g[v] = f[v]
  PROVE  Cardinality(Pool(g)) + Cardinality(f[w]) = Cardinality(Pool(f)) + Cardinality(g[w])
<1> DEFINE A == Tag(w, f[w])
           B == Tag(w, g[w])
           R == UNION {Tag(v, f[v]) : v \in Workers \ {w}}
<1>1. Pool(f) = R \cup A /\ R \cap A = {}
  BY DEF Pool, Tag
<1>2. Pool(g) = R \cup B /\ R \cap B = {}
  BY DEF Pool, Tag
<1>3. IsFiniteSet(A) /\ Cardinality(A) = Cardinality(f[w])
  <2>1. IsFiniteSet(f[w])
    OBVIOUS
  <2> QED  BY <2>1, Tagged
<1>4. IsFiniteSet(B) /\ Cardinality(B) = Cardinality(g[w])
  <2>1. IsFiniteSet(g[w])
    OBVIOUS
  <2> QED  BY <2>1, Tagged
<1>5. IsFiniteSet(Pool(f))
  BY PoolFinite
<1>6. IsFiniteSet(R)
  <2>1. R \in SUBSET Pool(f)
    BY <1>1
  <2> HIDE DEF R
  <2> QED  BY <1>5, <2>1, FS_Subset
<1> HIDE DEF A, B, R
<1>7. Cardinality(Pool(f)) = Cardinality(R) + Cardinality(A)
  <2>1. Cardinality(R \cup A) = Cardinality(R) + Cardinality(A) - Cardinality(R \cap A)
    BY <1>3, <1>6, FS_Union
  <2>2. Cardinality(R \cap A) = 0
    BY <1>1, FS_EmptySet
  <2>3. Cardinality(R) \in Nat /\ Cardinality(A) \in Nat
    BY <1>3, <1>6, FS_CardinalityType
  <2> QED  BY <1>1, <2>1, <2>2, <2>3
<1>8. Cardinality(Pool(g)) = Cardinality(R) + Cardinality(B)
  <2>1. Cardinality(R \cup B) = Cardinality(R) + Cardinality(B) - Cardinality(R \cap B)
    BY <1>4, <1>6, FS_Union
  <2>2. Cardinality(R \cap B) = 0
    BY <1>2, FS_EmptySet
  <2>3. Cardinality(R) \in Nat /\ Cardinality(B) \in Nat
    BY <1>4, <1>6, FS_CardinalityType
  <2> QED  BY <1>2, <2>1, <2>2, <2>3
<1> QED
  BY <1>3, <1>4, <1>6, <1>7, <1>8, FS_CardinalityType

-----------------------------------------------------------------------------
\* A queue has finitely many jobs of a message.
LEMMA PlacesFinite ==
  ASSUME NEW m, NEW s \in Seq(Jobs)
  PROVE  IsFiniteSet(Places(m, s)) /\ InQueue(m, s) \in Nat
<1>1. DOMAIN s = 1..Len(s) /\ Len(s) \in Nat
  OBVIOUS
<1>2. IsFiniteSet(DOMAIN s)
  BY <1>1, FS_Interval
<1>3. Places(m, s) \in SUBSET DOMAIN s
  BY DEF Places
<1>4. IsFiniteSet(Places(m, s))
  BY <1>2, <1>3, FS_Subset
<1> QED  BY <1>4, FS_CardinalityType DEF InQueue

\* A job at the end of a queue is one more if it is one of the message.
LEMMA InAppend ==
  ASSUME FallbackAssumption, NEW m \in Msgs, NEW s \in Seq(Jobs), NEW j \in Jobs
  PROVE  InQueue(m, Append(s, j)) = InQueue(m, s) + Is(j, m)
<1>1. IsFiniteSet(Places(m, s)) /\ InQueue(m, s) \in Nat
  BY PlacesFinite
<1>2. Len(s) + 1 \notin Places(m, s)
  BY DEF Places
<1>3. j # NoJob
  BY DEF FallbackAssumption
<1>4. CASE j.msg = m
  <2>1. Places(m, Append(s, j)) = Places(m, s) \cup {Len(s) + 1}
    BY <1>4 DEF Places
  <2>2. Cardinality(Places(m, s) \cup {Len(s) + 1}) = Cardinality(Places(m, s)) + 1
    BY <1>1, <1>2, FS_AddElement
  <2> QED  BY <1>3, <1>4, <2>1, <2>2 DEF InQueue, Is
<1>5. CASE j.msg # m
  <2>1. Places(m, Append(s, j)) = Places(m, s)
    BY <1>5 DEF Places
  <2> QED  BY <1>1, <1>5, <2>1 DEF InQueue, Is
<1> QED  BY <1>4, <1>5

\* The queue without its first job.
LEMMA InRest ==
  ASSUME FallbackAssumption, NEW m \in Msgs, NEW s \in Seq(Jobs), s # <<>>
  PROVE  /\ DropFirst(s, 1) \in Seq(Jobs)
         /\ Head(s) \in Jobs
         /\ InQueue(m, s) = InQueue(m, DropFirst(s, 1)) + Is(Head(s), m)
<1> DEFINE r == DropFirst(s, 1)
<1>1. /\ Len(s) \in Nat /\ Len(s) > 0
      /\ r \in Seq(Jobs) /\ Len(r) = Len(s) - 1
      /\ \A i \in 1..Len(r) : r[i] = s[i + 1]
      /\ Head(s) = s[1] /\ Head(s) \in Jobs
  <2>1. Len(s) \in Nat /\ Len(s) > 0 /\ \A i \in 1..Len(s) : s[i] \in Jobs
    OBVIOUS
  <2>2. r = SubSeq(s, 2, Len(s))
    BY <2>1 DEF DropFirst
  <2>3. /\ SubSeq(s, 2, Len(s)) \in Seq(Jobs)
        /\ Len(SubSeq(s, 2, Len(s))) = IF 2 <= Len(s) THEN Len(s) - 2 + 1 ELSE 0
        /\ \A i \in 1..Len(s) - 2 + 1 : SubSeq(s, 2, Len(s))[i] = s[2 + i - 1]
    <3>1. \A i \in 2..Len(s) : s[i] \in Jobs
      BY <2>1
    <3>2. Len(s) \in Int /\ 2 \in Int
      BY <2>1
    <3> QED  BY <3>1, <3>2, SubSeqProperties
  <2>4. /\ r \in Seq(Jobs) /\ Len(r) = Len(s) - 1
        /\ \A i \in 1..Len(r) : r[i] = s[i + 1]
    <3> HIDE DEF r
    <3>1. /\ r \in Seq(Jobs)
          /\ Len(r) = IF 2 <= Len(s) THEN Len(s) - 2 + 1 ELSE 0
      BY <2>2, <2>3, Zenon
    <3>2. /\ Len(r) = Len(s) - 1 /\ 1..Len(r) = 1..Len(s) - 2 + 1
          /\ \A i \in 1..Len(r) : 2 + i - 1 = i + 1
      BY <2>1, <3>1
    <3>3. \A i \in 1..Len(s) - 2 + 1 : r[i] = s[2 + i - 1]
      BY <2>2, <2>3, Zenon
    <3> QED  BY <3>1, <3>2, <3>3
  <2>5. Head(s) = s[1] /\ Head(s) \in Jobs
    BY <2>1
  <2> HIDE DEF r
  <2> QED  BY <2>1, <2>4, <2>5
<1>2. Head(s) # NoJob
  BY <1>1 DEF FallbackAssumption
<1>3. IsFiniteSet(Places(m, s)) /\ IsFiniteSet(Places(m, r)) /\ InQueue(m, r) \in Nat
  BY <1>1, PlacesFinite
<1> DEFINE f == [i \in Places(m, r) |-> i + 1]
<1>4. f \in Bijection(Places(m, r), Places(m, s) \ {1})
  <2>1. \A i \in Places(m, r) : i \in Nat /\ i + 1 \in Places(m, s) \ {1}
    BY <1>1 DEF Places
  <2>2. \A k \in Places(m, s) \ {1} : k - 1 \in Places(m, r) /\ k = (k - 1) + 1
    BY <1>1 DEF Places
  <2>3. f \in [Places(m, r) -> Places(m, s) \ {1}]
    BY <2>1
  <2>4. \A k \in Places(m, s) \ {1} : \E i \in Places(m, r) : f[i] = k
    BY <2>2
  <2>5. \A i, k \in Places(m, r) : f[i] = f[k] => i = k
    BY <2>1
  <2> QED  BY <2>3, <2>4, <2>5 DEF Bijection, Injection, Surjection, IsInjective
<1> HIDE DEF f, r
<1>5. Cardinality(Places(m, s) \ {1}) = Cardinality(Places(m, r))
  <2>1. ExistsBijection(Places(m, r), Places(m, s) \ {1})
    BY <1>4 DEF ExistsBijection
  <2> QED  BY <1>3, <2>1, FS_Bijection
<1>6. 1 \in Places(m, s) <=> Head(s).msg = m
  BY <1>1 DEF Places
<1>7. Cardinality(Places(m, s) \ {1})
        = IF 1 \in Places(m, s) THEN InQueue(m, s) - 1 ELSE InQueue(m, s)
  BY <1>3, FS_RemoveElement DEF InQueue
<1>8. InQueue(m, s) \in Nat
  BY PlacesFinite
<1>9. InQueue(m, s) = InQueue(m, r) + Is(Head(s), m)
  BY <1>2, <1>3, <1>5, <1>6, <1>7, <1>8 DEF InQueue, Is
<1> QED  BY <1>1, <1>9 DEF r

\* A worker takes or gives up a job.
LEMMA HoldingChange ==
  ASSUME FallbackAssumption, NEW m \in Msgs, NEW w \in Workers,
         NEW x \in Jobs \cup {NoJob},
         NEW h \in [Workers -> Jobs \cup {NoJob}], NEW g \in [Workers -> Jobs \cup {NoJob}],
         g[w] = x, \A v \in Workers : v # w => g[v] = h[v]
  PROVE  Cardinality(Holding(m, g)) + Is(h[w], m) = Cardinality(Holding(m, h)) + Is(x, m)
<1> DEFINE R == Holding(m, h) \ {w}
<1>1. Holding(m, h) \in SUBSET Workers /\ R \in SUBSET Workers
  BY DEF Holding
<1>2. IsFiniteSet(Holding(m, h)) /\ IsFiniteSet(R)
  BY <1>1, FS_Subset DEF FallbackAssumption
<1>3. Cardinality(Holding(m, h)) \in Nat /\ Cardinality(R) \in Nat
  BY <1>2, FS_CardinalityType
<1>4. Cardinality(Holding(m, h)) = Cardinality(R) + Is(h[w], m)
  <2>1. w \in Holding(m, h) <=> (h[w] # NoJob /\ h[w].msg = m)
    BY DEF Holding
  <2>2. Cardinality(Holding(m, h) \ {w})
          = IF w \in Holding(m, h) THEN Cardinality(Holding(m, h)) - 1
                                   ELSE Cardinality(Holding(m, h))
    BY <1>2, FS_RemoveElement
  <2> QED  BY <1>3, <2>1, <2>2 DEF Is
<1>5. Cardinality(Holding(m, g)) = Cardinality(R) + Is(x, m)
  <2>1. CASE x # NoJob /\ x.msg = m
    <3>1. Holding(m, g) = R \cup {w}
      BY <2>1 DEF Holding
    <3>2. w \notin R
      OBVIOUS
    <3> HIDE DEF R
    <3>3. Cardinality(R \cup {w}) = Cardinality(R) + 1
      BY <1>2, <3>2, FS_AddElement
    <3> QED  BY <2>1, <3>1, <3>3 DEF Is
  <2>2. CASE ~(x # NoJob /\ x.msg = m)
    <3>1. Holding(m, g) = R
      BY <2>2 DEF Holding
    <3>2. Is(x, m) = 0
      BY <2>2 DEF Is
    <3> HIDE DEF R
    <3> QED  BY <1>3, <3>1, <3>2
  <2> QED  BY <2>1, <2>2
<1> HIDE DEF R
<1> QED  BY <1>3, <1>4, <1>5 DEF Is

-----------------------------------------------------------------------------
LEMMA DropNothing ==
  ASSUME NEW s \in Seq(Jobs)
  PROVE  DropFirst(s, 0) = s
BY DEF DropFirst

LEMMA DropEmpty ==
  ASSUME NEW n \in Nat
  PROVE  DropFirst(<<>>, n) = <<>>
<1>1. Len(<<>>) = 0 /\ n + 1 \in Int /\ 0 < n + 1
  OBVIOUS
<1> QED  BY <1>1, SubSeqEmpty DEF DropFirst

LEMMA DropType ==
  ASSUME NEW s \in Seq(Jobs), NEW n \in Nat
  PROVE  DropFirst(s, n) \in Seq(Jobs)
<1>1. Len(s) \in Int /\ n + 1 \in Int /\ \A i \in (n + 1)..Len(s) : s[i] \in Jobs
  OBVIOUS
<1> QED  BY <1>1, SubSeqProperties DEF DropFirst

LEMMA DropTwo ==
  ASSUME NEW s \in Seq(Jobs), s # <<>>
  PROVE  DropFirst(s, 2) = DropFirst(DropFirst(s, 1), 1)
BY DEF DropFirst

\* What a pop returns is a job.
LEMMA GotJob ==
  ASSUME TypeOK, NEW w \in Workers, NEW out, Got(w, out) # <<>>
  PROVE  Head(Got(w, out)) \in Jobs
<1>1. DropFirst(queue, 1) \in Seq(Jobs)
  BY DropType DEF TypeOK
<1>2. \A s \in Seq(Jobs) : s # <<>> => Head(<<Head(s)>>) \in Jobs
  OBVIOUS
<1> QED  BY <1>1, <1>2 DEF Got, TypeOK

\* The next try of a job that has one.
LEMMA NextTryJob ==
  ASSUME FallbackAssumption, NEW j \in Jobs, ~Exhausted(j)
  PROVE  NextTry(j) \in Jobs /\ NextTry(j).msg = j.msg
<1>1. j = [msg |-> j.msg, retry |-> j.retry] /\ j.msg \in Msgs /\ j.retry \in 0..MaxRetries
  BY DEF Jobs
<1>2. j.retry + 1 \in 0..MaxRetries
  BY <1>1 DEF Exhausted, FallbackAssumption
<1>3. NextTry(j) = [msg |-> j.msg, retry |-> j.retry + 1]
  BY <1>1 DEF NextTry
<1> QED  BY <1>1, <1>2, <1>3 DEF Jobs

\* No step leaves the types.
LEMMA TypeStep ==
  ASSUME FallbackAssumption, TypeOK, HeldFits, [Next]_vars
  PROVE  TypeOK'
<1> USE DEF FallbackAssumption, TypeOK
<1>1. ASSUME NEW w \in Workers, NEW out, NEW S, Call(w, out, S)
      PROVE  faults' \in 0..MaxFaults /\ touched' \in [Msgs -> Nat]
  <2>1. CASE out \in {"ok", "memory"}
    BY <1>1, <2>1 DEF Call
  <2>2. CASE out \notin {"ok", "memory"}
    <3>1. /\ faults < MaxFaults /\ faults' = faults + 1
          /\ touched' = [m \in Msgs |-> IF m \in S THEN touched[m] + 1 ELSE touched[m]]
      BY <1>1, <2>2 DEF Call
    <3>2. faults' \in 0..MaxFaults
      BY <3>1
    <3>3. touched' \in [Msgs -> Nat]
      BY <3>1
    <3> QED  BY <3>2, <3>3
  <2> QED  BY <2>1, <2>2
<1>2. ASSUME NEW w \in Workers, NEW j \in Jobs, Push(w, j)
      PROVE  /\ queue' \in Seq(Jobs) /\ memQueue' \in [Workers -> Seq(Jobs)]
             /\ faults' \in 0..MaxFaults /\ touched' \in [Msgs -> Nat]
  <2>1. PICK out \in Outcomes :
          /\ Call(w, out, {j.msg})
          /\ queue' = queue \o (IF out = "twice" THEN <<j, j>>
                                 ELSE IF Served(out) THEN <<j>> ELSE <<>>)
          /\ memQueue' = IF Falls(out) THEN [memQueue EXCEPT ![w] = Append(@, j)] ELSE memQueue
    BY <1>2 DEF Push
  <2>2. queue' \in Seq(Jobs)
    BY <2>1
  <2>3. memQueue' \in [Workers -> Seq(Jobs)]
    BY <2>1
  <2> QED  BY <1>1, <2>1, <2>2, <2>3
<1>3. ASSUME NEW w \in Workers, NEW m \in Msgs, Deliver(w, m)  PROVE TypeOK'
  <2>1. PICK out \in Outcomes :
          /\ Call(w, out, {m})
          /\ seen' = IF Served(out) THEN seen \cup {m} ELSE seen
          /\ memSeen' = IF Falls(out) THEN [memSeen EXCEPT ![w] = @ \cup {m}] ELSE memSeen
          /\ marked' = IF New(w, out, m) THEN [marked EXCEPT ![w][m] = @ + 1] ELSE marked
    BY <1>3 DEF Deliver
  <2>2. faults' \in 0..MaxFaults /\ touched' \in [Msgs -> Nat]
    BY <1>1, <2>1
  <2>3. seen' \subseteq Msgs
    BY <2>1
  <2>4. memSeen' \in [Workers -> SUBSET Msgs]
    BY <2>1
  <2>5. marked' \in [Workers -> [Msgs -> Nat]]
    BY <2>1
  <2>6. UNCHANGED <<queue, consumer, texts, useRedis, memQueue, loop, held, answered, dropped>>
    BY <1>3 DEF Deliver
  <2> QED  BY <2>2, <2>3, <2>4, <2>5, <2>6
<1>4. ASSUME NEW w \in Workers, NEW m \in Msgs, Enqueue(w, m)  PROVE TypeOK'
  <2>1. [msg |-> m, retry |-> 0] \in Jobs
    BY DEF Jobs
  <2>2. marked' \in [Workers -> [Msgs -> Nat]]
    BY <1>4 DEF Enqueue
  <2>3. /\ Push(w, [msg |-> m, retry |-> 0])
        /\ UNCHANGED <<seen, consumer, texts, useRedis, memSeen, loop, held, answered, dropped>>
    BY <1>4 DEF Enqueue
  <2> QED  BY <1>2, <2>1, <2>2, <2>3
<1>5. ASSUME NEW w \in Workers, CheckConsumer(w)  PROVE TypeOK'
  BY <1>1, <1>5 DEF CheckConsumer, Step, redis
<1>6. ASSUME NEW w \in Workers, Pop(w)  PROVE TypeOK'
  <2>1. PICK out \in Outcomes :
       /\ Call(w, out, {queue[i].msg : i \in {k \in DOMAIN queue : k <= Taken(out)}})
       /\ queue' = DropFirst(queue, Taken(out))
       /\ memQueue' = IF Falls(out) THEN [memQueue EXCEPT ![w] = DropFirst(@, 1)] ELSE memQueue
       /\ LET got == Got(w, out)
          IN IF got = <<>> THEN Step(w, "check") /\ held' = held
             ELSE Step(w, "texts") /\ held' = [held EXCEPT ![w] = Head(got)]
    BY <1>6 DEF Pop
  <2>2. Taken(out) \in Nat
    BY <2>1 DEF Taken, Outcomes
  <2>3. queue' \in Seq(Jobs)
    BY <2>1, <2>2, DropType
  <2>4. memQueue' \in [Workers -> Seq(Jobs)]
    <3>1. DropFirst(memQueue[w], 1) \in Seq(Jobs)
      BY DropType
    <3> QED  BY <2>1, <3>1
  <2>5. Got(w, out) # <<>> => Head(Got(w, out)) \in Jobs
    BY GotJob
  <2>6. loop' \in [Workers -> {"check", "pop", "texts", "requeue"}]
    BY <2>1 DEF Step
  <2>7. held' \in [Workers -> Jobs \cup {NoJob}]
    BY <2>1, <2>5
  <2>8. UNCHANGED <<seen, consumer, texts, useRedis, memSeen, marked, answered, dropped>>
    BY <1>6 DEF Pop
  <2> QED  BY <1>1, <2>1, <2>3, <2>4, <2>6, <2>7, <2>8
<1>7. ASSUME NEW w \in Workers, ReadTexts(w)  PROVE TypeOK'
  <2>1. held[w] \in Jobs /\ held[w].msg \in Msgs
    BY <1>7 DEF ReadTexts, HeldFits, Jobs
  <2>2. answered' \in [Msgs -> Nat]
    <3>1. \/ answered' = [answered EXCEPT ![held[w].msg] = @ + 1]
          \/ answered' = answered
      BY <1>7 DEF ReadTexts
    <3>2. [answered EXCEPT ![held[w].msg] = @ + 1] \in [Msgs -> Nat]
      BY <2>1
    <3> QED  BY <3>1, <3>2
  <2>3. held' \in [Workers -> Jobs \cup {NoJob}]
    BY <1>7 DEF ReadTexts
  <2>4. loop' \in [Workers -> {"check", "pop", "texts", "requeue"}]
    BY <1>7 DEF ReadTexts, Step
  <2>5. faults' \in 0..MaxFaults /\ touched' \in [Msgs -> Nat]
    BY <1>1, <1>7 DEF ReadTexts
  <2>6. UNCHANGED <<redis, useRedis, memSeen, memQueue, marked, dropped>>
    BY <1>7 DEF ReadTexts
  <2> QED  BY <2>2, <2>3, <2>4, <2>5, <2>6 DEF redis
<1>8. ASSUME NEW w \in Workers, Requeue(w)  PROVE TypeOK'
  <2>1. held[w] \in Jobs /\ held[w].msg \in Msgs /\ held[w].retry \in 0..MaxRetries
    BY <1>8 DEF Requeue, HeldFits, Jobs
  <2>2. ~Exhausted(held[w]) => NextTry(held[w]) \in Jobs
    BY <2>1, NextTryJob
  <2>3. /\ held' \in [Workers -> Jobs \cup {NoJob}]
        /\ loop' \in [Workers -> {"check", "pop", "texts", "requeue"}]
        /\ UNCHANGED <<seen, consumer, texts, useRedis, memSeen, marked, answered>>
    BY <1>8 DEF Requeue, Step
  <2>4. CASE Exhausted(held[w])
    <3>1. dropped' = dropped \cup {held[w].msg} /\ UNCHANGED <<queue, memQueue, faults, touched>>
      BY <1>8, <2>4 DEF Requeue
    <3> QED  BY <2>1, <2>3, <3>1
  <2>5. CASE ~Exhausted(held[w])
    <3>1. Push(w, NextTry(held[w])) /\ dropped' = dropped
      BY <1>8, <2>5 DEF Requeue
    <3> QED  BY <1>2, <2>2, <2>3, <2>5, <3>1
  <2> QED  BY <2>4, <2>5
<1>9. ASSUME NEW w \in Workers, Restart(w)  PROVE TypeOK'
  BY <1>9 DEF Restart, Step, redis
<1>10. CASE ChangeState
  BY <1>10 DEF ChangeState, local, history
<1>11. CASE UNCHANGED vars
  BY <1>11 DEF vars, redis, local, history
<1> QED
  BY <1>3, <1>4, <1>5, <1>6, <1>7, <1>8, <1>9, <1>10, <1>11 DEF Next, Consume

\* No step separates the loop from the job it holds.
LEMMA FitsStep ==
  ASSUME FallbackAssumption, TypeOK, TypeOK', HeldFits, [Next]_vars
  PROVE  HeldFits'
<1> USE DEF HeldFits
<1>1. ASSUME UNCHANGED <<loop, held>>  PROVE HeldFits'
  BY <1>1
<1>2. ASSUME NEW w \in Workers, NEW x, NEW stage,
             loop' = [loop EXCEPT ![w] = stage], held' = [held EXCEPT ![w] = x],
             x # NoJob <=> stage \in {"texts", "requeue"}
      PROVE  HeldFits'
  BY <1>2 DEF TypeOK
<1>3. ASSUME NEW w \in Workers, NEW stage,
             loop' = [loop EXCEPT ![w] = stage], held' = held,
             loop[w] \in {"texts", "requeue"} <=> stage \in {"texts", "requeue"}
      PROVE  HeldFits'
  BY <1>3 DEF TypeOK
<1>4. ASSUME NEW w \in Workers, NEW m \in Msgs, Deliver(w, m) \/ Enqueue(w, m)
      PROVE  HeldFits'
  BY <1>1, <1>4 DEF Deliver, Enqueue
<1>5. ASSUME NEW w \in Workers, CheckConsumer(w)  PROVE HeldFits'
  BY <1>3, <1>5 DEF CheckConsumer, Step
<1>6. ASSUME NEW w \in Workers, Pop(w)  PROVE HeldFits'
  <2>1. loop[w] = "pop"
    BY <1>6 DEF Pop
  <2>2. PICK out \in Outcomes :
           IF Got(w, out) = <<>> THEN Step(w, "check") /\ held' = held
             ELSE Step(w, "texts") /\ held' = [held EXCEPT ![w] = Head(Got(w, out))]
    BY <1>6 DEF Pop
  <2>3. CASE Got(w, out) = <<>>
    BY <1>3, <2>1, <2>2, <2>3 DEF Step
  <2>4. CASE Got(w, out) # <<>>
    <3>1. Head(Got(w, out)) # NoJob
      BY <2>4, GotJob DEF FallbackAssumption
    <3> QED  BY <1>2, <2>2, <2>4, <3>1 DEF Step
  <2> QED  BY <2>3, <2>4
<1>7. ASSUME NEW w \in Workers, ReadTexts(w)  PROVE HeldFits'
  BY <1>2, <1>3, <1>7 DEF ReadTexts, Step
<1>8. ASSUME NEW w \in Workers, Requeue(w) \/ Restart(w)  PROVE HeldFits'
  <2>1. loop' = [loop EXCEPT ![w] = "check"] /\ held' = [held EXCEPT ![w] = NoJob]
    BY <1>8 DEF Requeue, Restart, Step
  <2> QED  BY <1>2, <2>1
<1>9. CASE ChangeState \/ UNCHANGED vars
  BY <1>1, <1>9 DEF ChangeState, vars, local
<1> QED
  BY <1>4, <1>5, <1>6, <1>7, <1>8, <1>9 DEF Next, Consume

-----------------------------------------------------------------------------
LEMMA CopiesAre ==
  ASSUME NEW m \in Msgs
  PROVE  /\ Copies(m) = InQueue(m, queue) + InMemory(m, memQueue)
                          + InHand(m, held) + InHandler(m, marked)
         /\ Copies(m)' = InQueue(m, queue') + InMemory(m, memQueue')
                           + InHand(m, held') + InHandler(m, marked')
BY DEF Copies, InQueue, InMemory, InHand, InHandler

\* The summands are numbers.
LEMMA CountsNat ==
  ASSUME FallbackAssumption, NEW m \in Msgs, NEW q \in Seq(Jobs),
         NEW mq \in [Workers -> Seq(Jobs)], NEW h \in [Workers -> Jobs \cup {NoJob}],
         NEW n \in [Workers -> [Msgs -> Nat]]
  PROVE  /\ InQueue(m, q) \in Nat /\ InMemory(m, mq) \in Nat
         /\ InHand(m, h) \in Nat /\ InHandler(m, n) \in Nat
<1>1. InQueue(m, q) \in Nat
  BY PlacesFinite
<1>2. IsFiniteSet(Stored(m, mq))
  <2>1. \A w \in Workers : IsFiniteSet([v \in Workers |-> Places(m, mq[v])][w])
    BY PlacesFinite
  <2> QED  BY <2>1, PoolFinite DEF Stored
<1>3. IsFiniteSet(Handlers(m, n))
  <2>1. \A w \in Workers : IsFiniteSet([v \in Workers |-> 1..n[v][m]][w])
    <3>1. \A w \in Workers : n[w][m] \in Int /\ 1 \in Int
      OBVIOUS
    <3> QED  BY <3>1, FS_Interval
  <2> QED  BY <2>1, PoolFinite DEF Handlers
<1>4. IsFiniteSet(Holding(m, h))
  <2>1. Holding(m, h) \in SUBSET Workers
    BY DEF Holding
  <2> QED  BY <2>1, FS_Subset DEF FallbackAssumption
<1> QED  BY <1>1, <1>2, <1>3, <1>4, FS_CardinalityType DEF InMemory, InHand, InHandler

LEMMA NumbersNat ==
  ASSUME FallbackAssumption, TypeOK, TypeOK', NEW m \in Msgs
  PROVE  /\ Copies(m) \in Nat /\ Copies(m)' \in Nat
         /\ answered[m] \in Nat /\ answered'[m] \in Nat
         /\ touched[m] \in Nat /\ touched'[m] \in Nat
         /\ Mark(m, seen) \in Nat /\ Mark(m, seen') \in Nat
<1>1. /\ InQueue(m, queue) \in Nat /\ InMemory(m, memQueue) \in Nat
      /\ InHand(m, held) \in Nat /\ InHandler(m, marked) \in Nat
      /\ InQueue(m, queue') \in Nat /\ InMemory(m, memQueue') \in Nat
      /\ InHand(m, held') \in Nat /\ InHandler(m, marked') \in Nat
  BY CountsNat DEF TypeOK
<1>2. /\ Copies(m) = InQueue(m, queue) + InMemory(m, memQueue)
                       + InHand(m, held) + InHandler(m, marked)
      /\ Copies(m)' = InQueue(m, queue') + InMemory(m, memQueue')
                        + InHand(m, held') + InHandler(m, marked')
  BY CopiesAre
<1>3. Copies(m) \in Nat /\ Copies(m)' \in Nat
  BY <1>1, <1>2
<1>4. /\ answered[m] \in Nat /\ answered'[m] \in Nat
      /\ touched[m] \in Nat /\ touched'[m] \in Nat
  BY DEF TypeOK
<1> QED  BY <1>3, <1>4 DEF Mark

\* Only the memory queue of one worker changes.
LEMMA MemoryChange ==
  ASSUME FallbackAssumption, NEW m \in Msgs, NEW w \in Workers,
         NEW f \in [Workers -> Seq(Jobs)], NEW g \in [Workers -> Seq(Jobs)],
         \A v \in Workers : v # w => g[v] = f[v]
  PROVE  InMemory(m, g) + InQueue(m, f[w]) = InMemory(m, f) + InQueue(m, g[w])
<1> DEFINE F == [v \in Workers |-> Places(m, f[v])]
           G == [v \in Workers |-> Places(m, g[v])]
<1>1. \A v \in Workers : IsFiniteSet(F[v]) /\ IsFiniteSet(G[v])
  BY PlacesFinite
<1>2. \A v \in Workers : v # w => G[v] = F[v]
  OBVIOUS
<1>3. /\ F[w] = Places(m, f[w]) /\ G[w] = Places(m, g[w])
      /\ Stored(m, f) = Pool(F) /\ Stored(m, g) = Pool(G)
  BY DEF Stored
<1> HIDE DEF F, G
<1>4. Cardinality(Pool(G)) + Cardinality(F[w]) = Cardinality(Pool(F)) + Cardinality(G[w])
  BY <1>1, <1>2, PoolChange
<1> QED  BY <1>3, <1>4 DEF InMemory, InQueue

\* Only the handlers of one worker change.
LEMMA HandlerChange ==
  ASSUME FallbackAssumption, NEW m \in Msgs, NEW w \in Workers,
         NEW f \in [Workers -> [Msgs -> Nat]], NEW g \in [Workers -> [Msgs -> Nat]],
         \A v \in Workers : v # w => g[v][m] = f[v][m]
  PROVE  InHandler(m, g) + f[w][m] = InHandler(m, f) + g[w][m]
<1> DEFINE F == [v \in Workers |-> 1..f[v][m]]
           G == [v \in Workers |-> 1..g[v][m]]
<1>1. \A n \in Nat : IsFiniteSet(1..n) /\ Cardinality(1..n) = n
  <2> SUFFICES ASSUME NEW n \in Nat  PROVE IsFiniteSet(1..n) /\ Cardinality(1..n) = n
    OBVIOUS
  <2>1. 1 \in Int /\ n \in Int /\ (IF 1 > n THEN 0 ELSE n - 1 + 1) = n
    OBVIOUS
  <2> QED  BY <2>1, FS_Interval
<1>2. \A v \in Workers : IsFiniteSet(F[v]) /\ IsFiniteSet(G[v])
  BY <1>1
<1>3. \A v \in Workers : v # w => G[v] = F[v]
  OBVIOUS
<1>4. /\ Cardinality(F[w]) = f[w][m] /\ Cardinality(G[w]) = g[w][m]
      /\ Handlers(m, f) = Pool(F) /\ Handlers(m, g) = Pool(G)
  BY <1>1 DEF Handlers
<1> HIDE DEF F, G
<1>5. Cardinality(Pool(G)) + Cardinality(F[w]) = Cardinality(Pool(F)) + Cardinality(G[w])
  BY <1>2, <1>3, PoolChange
<1> QED  BY <1>4, <1>5 DEF InHandler

-----------------------------------------------------------------------------
\* A call counts a fault to the messages that it concerns, and only then.
LEMMA CallTouches ==
  ASSUME TypeOK, NEW w \in Workers, NEW out, NEW S, Call(w, out, S), NEW m \in Msgs
  PROVE  /\ touched'[m] \in {touched[m], touched[m] + 1}
         /\ out \in {"ok", "memory"} \/ m \notin S => touched'[m] = touched[m]
         /\ out \notin {"ok", "memory"} /\ m \in S => touched'[m] = touched[m] + 1
BY DEF Call, TypeOK

\* A job that a worker gets rid of is in a queue afterwards, once, or more
\* often for a fault.
LEMMA PushKeeps ==
  ASSUME FallbackAssumption, TypeOK, TypeOK', NEW w \in Workers, NEW j \in Jobs, Push(w,
         j),
         NEW m \in Msgs
  PROVE  /\ touched[m] <= touched'[m]
         /\ InQueue(m, queue) + InMemory(m, memQueue) + Is(j, m)
              <= InQueue(m, queue') + InMemory(m, memQueue')
         /\ InQueue(m, queue') + InMemory(m, memQueue') + touched[m]
              <= InQueue(m, queue) + InMemory(m, memQueue) + Is(j, m) + touched'[m]
<1>1. PICK out \in Outcomes :
        /\ Call(w, out, {j.msg})
        /\ queue' = queue \o (IF out = "twice" THEN <<j, j>>
                               ELSE IF Served(out) THEN <<j>> ELSE <<>>)
        /\ memQueue' = IF Falls(out) THEN [memQueue EXCEPT ![w] = Append(@, j)] ELSE memQueue
  BY DEF Push
<1>2. /\ InQueue(m, queue) \in Nat /\ InMemory(m, memQueue) \in Nat
      /\ InQueue(m, queue') \in Nat /\ InMemory(m, memQueue') \in Nat
  BY CountsNat DEF TypeOK
<1>3. queue \in Seq(Jobs) /\ touched[m] \in Nat /\ touched'[m] \in Nat
  BY DEF TypeOK
<1>4. Is(j, m) = (IF j.msg = m THEN 1 ELSE 0)
  BY DEF Is, FallbackAssumption
<1>5. /\ touched'[m] \in {touched[m], touched[m] + 1}
      /\ out \in {"ok", "memory"} \/ j.msg # m => touched'[m] = touched[m]
      /\ out \notin {"ok", "memory"} /\ j.msg = m => touched'[m] = touched[m] + 1
  BY <1>1, CallTouches
<1>6. /\ Served(out) /\ out # "twice" => InQueue(m, queue') = InQueue(m, queue) + Is(j, m)
      /\ out = "twice" => InQueue(m, queue') = InQueue(m, queue) + Is(j, m) + Is(j, m)
      /\ ~Served(out) => InQueue(m, queue') = InQueue(m, queue)
  <2>1. /\ InQueue(m, Append(queue, j)) = InQueue(m, queue) + Is(j, m)
        /\ Append(queue, j) \in Seq(Jobs)
    BY <1>3, InAppend
  <2>2. InQueue(m, Append(Append(queue, j), j)) = InQueue(m, Append(queue, j)) + Is(j, m)
    BY <2>1, InAppend
  <2>3. /\ queue \o <<j>> = Append(queue, j)
        /\ queue \o <<j, j>> = Append(Append(queue, j), j)
        /\ queue \o <<>> = queue
    BY <1>3
  <2>4. /\ Served(out) /\ out # "twice" => queue' = queue \o <<j>>
        /\ out = "twice" => queue' = queue \o <<j, j>>
        /\ ~Served(out) => queue' = queue \o <<>>
    BY <1>1 DEF Served
  <2>5. CASE Served(out) /\ out # "twice"
    BY <2>1, <2>3, <2>4, <2>5, Zenon
  <2>6. CASE out = "twice"
    <3>1. queue' = Append(Append(queue, j), j)
      BY <2>3, <2>4, <2>6, Zenon
    <3> QED  BY <2>1, <2>2, <2>6, <3>1 DEF Served
  <2>7. CASE ~Served(out)
    BY <2>3, <2>4, <2>7, Zenon DEF Served
  <2> QED  BY <2>5, <2>6, <2>7
<1>7. InMemory(m, memQueue') = InMemory(m, memQueue) + IF Falls(out) THEN Is(j, m) ELSE 0
  <2>1. CASE Falls(out)
    <3>1. memQueue \in [Workers -> Seq(Jobs)] /\ memQueue' \in [Workers -> Seq(Jobs)]
      BY DEF TypeOK
    <3>2. /\ \A v \in Workers : v # w => memQueue'[v] = memQueue[v]
          /\ memQueue'[w] = Append(memQueue[w], j) /\ memQueue[w] \in Seq(Jobs)
      BY <1>1, <2>1, <3>1
    <3>3. InMemory(m, memQueue') + InQueue(m, memQueue[w])
            = InMemory(m, memQueue) + InQueue(m, memQueue'[w])
      BY <3>1, <3>2, MemoryChange
    <3>5. InQueue(m, memQueue'[w]) = InQueue(m, memQueue[w]) + Is(j, m)
      BY <3>2, InAppend
    <3>4. InQueue(m, memQueue[w]) \in Nat
      BY <3>1, PlacesFinite
    <3> QED  BY <1>2, <1>4, <2>1, <3>3, <3>4, <3>5
  <2>2. CASE ~Falls(out)
    BY <1>1, <1>2, <2>2
  <2> QED  BY <2>1, <2>2
<1>8. CASE out \in {"ok", "before", "memory"}
  <2>1. InQueue(m, queue') + InMemory(m, memQueue')
          = InQueue(m, queue) + InMemory(m, memQueue) + Is(j, m)
    <3>1. \/ Served(out) /\ ~Falls(out) /\ out # "twice"
          \/ ~Served(out) /\ Falls(out)
      BY <1>8 DEF Served, Falls
    <3> QED  BY <1>2, <1>4, <1>6, <1>7, <3>1
  <2>2. touched'[m] = touched[m] \/ touched'[m] = touched[m] + 1
    BY <1>5
  <2> QED  BY <1>2, <1>3, <1>4, <2>1, <2>2
<1>9. CASE out \in {"after", "twice"}
  <2>1. InQueue(m, queue') + InMemory(m, memQueue')
          = InQueue(m, queue) + InMemory(m, memQueue) + Is(j, m) + Is(j, m)
    <3>1. \/ Served(out) /\ Falls(out) /\ out # "twice"
          \/ ~Falls(out) /\ out = "twice"
      BY <1>9 DEF Served, Falls
    <3> QED  BY <1>2, <1>4, <1>6, <1>7, <3>1
  <2>2. touched'[m] = touched[m] + Is(j, m)
    BY <1>3, <1>4, <1>5, <1>9
  <2> QED  BY <1>2, <1>3, <1>4, <2>1, <2>2
<1> QED  BY <1>1, <1>8, <1>9 DEF Outcomes

-----------------------------------------------------------------------------
\* One job less, and its message is among those that were given out.
LEMMA DropOne ==
  ASSUME FallbackAssumption, NEW m \in Msgs, NEW s \in Seq(Jobs)
  PROVE  /\ InQueue(m, s) = InQueue(m, DropFirst(s, 1)) + First(m, s)
         /\ First(m, s) \in {0, 1}
         /\ First(m, s) = 1 => m \in Gone(s, 1) \cap Gone(s, 2)
<1>1. InQueue(m, s) \in Nat
  BY PlacesFinite
<1>2. First(m, s) \in {0, 1}
  BY DEF First, Is
<1>3. InQueue(m, s) = InQueue(m, DropFirst(s, 1)) + First(m, s)
  <2>1. CASE s = <<>>
    BY <1>1, <2>1, DropEmpty DEF First
  <2>2. CASE s # <<>>
    BY <2>2, InRest DEF First
  <2> QED  BY <2>1, <2>2
<1>4. ASSUME First(m, s) = 1  PROVE m \in Gone(s, 1) \cap Gone(s, 2)
  <2>1. s # <<>> /\ Head(s).msg = m
    BY <1>4 DEF First, Is
  <2>2. 1 \in DOMAIN s /\ s[1].msg = m
    BY <2>1
  <2> QED  BY <2>2 DEF Gone
<1> QED  BY <1>2, <1>3, <1>4

\* Two jobs less.
LEMMA DropBoth ==
  ASSUME FallbackAssumption, NEW m \in Msgs, NEW s \in Seq(Jobs)
  PROVE  /\ InQueue(m, s) = InQueue(m, DropFirst(s, 2)) + First(m, s) + First(m, DropFirst(s, 1))
         /\ First(m, DropFirst(s, 1)) = 1 => m \in Gone(s, 2)
<1>1. DropFirst(s, 1) \in Seq(Jobs)
  BY DropType
<1>2. /\ InQueue(m, s) = InQueue(m, DropFirst(s, 1)) + First(m, s)
      /\ First(m, s) \in {0, 1} /\ First(m, DropFirst(s, 1)) \in {0, 1}
      /\ InQueue(m, DropFirst(s, 1))
           = InQueue(m, DropFirst(DropFirst(s, 1), 1)) + First(m, DropFirst(s, 1))
  BY <1>1, DropOne
<1>3. DropFirst(DropFirst(s, 1), 1) = DropFirst(s, 2)
  <2>1. CASE s = <<>>
    <3>1. DropFirst(s, 1) = <<>> /\ DropFirst(s, 2) = <<>>
      BY <2>1, DropEmpty
    <3> QED  BY <2>1, <3>1
  <2> QED  BY <2>1, DropTwo
<1>4. InQueue(m, DropFirst(s, 2)) \in Nat
  BY DropType, PlacesFinite
<1>5. ASSUME First(m, DropFirst(s, 1)) = 1  PROVE m \in Gone(s, 2)
  <2>1. DropFirst(s, 1) # <<>> /\ Head(DropFirst(s, 1)).msg = m
    BY <1>5 DEF First, Is
  <2>2. Len(s) >= 2 /\ Head(DropFirst(s, 1)) = s[2]
    <3>1. s # <<>>
      BY <2>1, DropEmpty
    <3>2. Len(DropFirst(s, 1)) = Len(s) - 1 /\ Len(DropFirst(s, 1)) > 0
      BY <2>1, <3>1 DEF DropFirst
    <3> QED  BY <2>1, <3>2 DEF DropFirst
  <2>3. 2 \in DOMAIN s /\ s[2].msg = m
    BY <2>1, <2>2
  <2> QED  BY <2>3 DEF Gone
<1> QED  BY <1>2, <1>3, <1>4, <1>5

-----------------------------------------------------------------------------
\* The same of the hands before and after a step.
LEMMA HandChange ==
  ASSUME FallbackAssumption, TypeOK, TypeOK', NEW m \in Msgs, NEW w \in Workers, NEW x,
         held'[w] = x, \A v \in Workers : v # w => held'[v] = held[v]
  PROVE  InHand(m, held') + Is(held[w], m) = InHand(m, held) + Is(x, m)
<1>1. held \in [Workers -> Jobs \cup {NoJob}] /\ held' \in [Workers -> Jobs \cup {NoJob}]
  BY DEF TypeOK
<1>2. x \in Jobs \cup {NoJob}
  BY <1>1
<1> QED  BY <1>1, <1>2, HoldingChange DEF InHand

\* The first job of a memory queue is taken.
LEMMA MemoryPop ==
  ASSUME FallbackAssumption, TypeOK, TypeOK', NEW m \in Msgs, NEW w \in Workers,
         memQueue'[w] = DropFirst(memQueue[w], 1),
         \A v \in Workers : v # w => memQueue'[v] = memQueue[v]
  PROVE  InMemory(m, memQueue) = InMemory(m, memQueue') + First(m, memQueue[w])
<1>1. memQueue \in [Workers -> Seq(Jobs)] /\ memQueue' \in [Workers -> Seq(Jobs)]
  BY DEF TypeOK
<1>2. /\ \A v \in Workers : v # w => memQueue'[v] = memQueue[v]
      /\ memQueue'[w] = DropFirst(memQueue[w], 1) /\ memQueue[w] \in Seq(Jobs)
  BY <1>1
<1>3. InMemory(m, memQueue') + InQueue(m, memQueue[w])
        = InMemory(m, memQueue) + InQueue(m, memQueue'[w])
  BY <1>1, <1>2, MemoryChange
<1>4. /\ InQueue(m, memQueue[w]) = InQueue(m, memQueue'[w]) + First(m, memQueue[w])
      /\ First(m, memQueue[w]) \in {0, 1}
  BY <1>2, DropOne
<1>5. /\ InQueue(m, memQueue'[w]) \in Nat
      /\ InMemory(m, memQueue) \in Nat /\ InMemory(m, memQueue') \in Nat
  <2>1. memQueue'[w] \in Seq(Jobs)
    BY <1>1
  <2>2. /\ queue \in Seq(Jobs) /\ held \in [Workers -> Jobs \cup {NoJob}]
        /\ marked \in [Workers -> [Msgs -> Nat]]
    BY DEF TypeOK
  <2> QED  BY <1>1, <2>1, <2>2, CountsNat, PlacesFinite
<1> QED  BY <1>3, <1>4, <1>5

\* A step that answers nothing and loses one job at most, for a fault.
LEMMA LosesForFault ==
  ASSUME FallbackAssumption, TypeOK, TypeOK', NEW m \in Msgs, NEW d \in {0, 1},
         answered'[m] = answered[m], touched'[m] \in {touched[m], touched[m] + 1},
         Copies(m) = Copies(m)' + d, d = 1 => touched'[m] = touched[m] + 1
  PROVE  Kept(m)
<1>1. Copies(m)' \in Nat /\ answered[m] \in Nat /\ touched[m] \in Nat
  BY NumbersNat
<1>2. CASE d = 0
  BY <1>1, <1>2 DEF Kept
<1>3. CASE d = 1
  BY <1>1, <1>3 DEF Kept
<1> QED  BY <1>2, <1>3

\* A pop moves the first job into the hand; what it loses on the way, a fault explains.
LEMMA PopKeeps ==
  ASSUME FallbackAssumption, TypeOK, TypeOK', HeldFits, NEW w \in Workers, Pop(w),
         NEW m \in Msgs
  PROVE  Kept(m)
<1>1. PICK out \in Outcomes :
        /\ Call(w, out, {queue[i].msg : i \in {k \in DOMAIN queue : k <= Taken(out)}})
        /\ queue' = DropFirst(queue, Taken(out))
        /\ memQueue' = IF Falls(out) THEN [memQueue EXCEPT ![w] = DropFirst(@, 1)] ELSE memQueue
        /\ LET got == Got(w, out)
           IN IF got = <<>> THEN Step(w, "check") /\ held' = held
              ELSE Step(w, "texts") /\ held' = [held EXCEPT ![w] = Head(got)]
  BY DEF Pop
<1> DEFINE from == CASE out = "ok" -> queue
                     [] out = "twice" -> DropFirst(queue, 1)
                     [] OTHER -> memQueue[w]
<1>2. /\ queue \in Seq(Jobs) /\ queue' \in Seq(Jobs) /\ memQueue[w] \in Seq(Jobs)
      /\ touched[m] \in Nat /\ touched'[m] \in Nat
      /\ answered[m] \in Nat /\ answered' = answered /\ marked' = marked
  BY DEF TypeOK, Pop
<1>3. /\ InQueue(m, queue) \in Nat /\ InMemory(m, memQueue) \in Nat
      /\ InHand(m, held) \in Nat /\ InHandler(m, marked) \in Nat
      /\ InQueue(m, queue') \in Nat /\ InMemory(m, memQueue') \in Nat
      /\ InHand(m, held') \in Nat
  BY CountsNat DEF TypeOK
<1>4. InHand(m, held') = InHand(m, held) + First(m, from)
  <2>1. held[w] = NoJob
    BY DEF Pop, HeldFits
  <2>2. Is(held[w], m) = 0
    BY <2>1 DEF Is
  <2>3. CASE from = <<>>
    <3>1. Got(w, out) = <<>>
      BY <2>3 DEF Got
    <3>2. First(m, from) = 0
      BY <2>3 DEF First
    <3> QED  BY <1>1, <1>3, <3>1, <3>2
  <2>4. CASE from # <<>>
    <3>1. Got(w, out) = <<Head(from)>>
      BY <2>4 DEF Got
    <3>2. held' = [held EXCEPT ![w] = Head(from)]
      BY <1>1, <3>1
    <3>3. InHand(m, held') + Is(held[w], m) = InHand(m, held) + Is(Head(from), m)
      <4> HIDE DEF from
      <4>1. held'[w] = Head(from) /\ \A v \in Workers : v # w => held'[v] = held[v]
        BY <3>2 DEF TypeOK
      <4> QED  BY <4>1, HandChange
    <3>4. First(m, from) = Is(Head(from), m)
      BY <2>4 DEF First
    <3> QED  BY <1>3, <2>2, <3>3, <3>4
  <2> QED  BY <2>3, <2>4
<1>5. /\ touched'[m] \in {touched[m], touched[m] + 1}
      /\ out \in {"after", "twice"} /\ m \in Gone(queue, Taken(out)) => touched'[m] = touched[m] + 1
  <2>1. Call(w, out, Gone(queue, Taken(out)))
    BY <1>1 DEF Gone
  <2> QED  BY <2>1, CallTouches
<1>6. InMemory(m, memQueue) = InMemory(m, memQueue') + IF Falls(out) THEN First(m, memQueue[w]) ELSE 0
  <2>1. CASE Falls(out)
    <3>1. /\ memQueue'[w] = DropFirst(memQueue[w], 1)
          /\ \A v \in Workers : v # w => memQueue'[v] = memQueue[v]
      BY <1>1, <2>1 DEF TypeOK
    <3> QED  BY <2>1, <3>1, MemoryPop
  <2>2. CASE ~Falls(out)
    BY <1>1, <1>3, <2>2
  <2> QED  BY <2>1, <2>2
<1>7. /\ First(m, queue) \in {0, 1} /\ First(m, DropFirst(queue, 1)) \in {0, 1}
      /\ First(m, memQueue[w]) \in {0, 1}
      /\ InQueue(m, queue) = InQueue(m, DropFirst(queue, 1)) + First(m, queue)
      /\ First(m, queue) = 1 => m \in Gone(queue, 1) /\ m \in Gone(queue, 2)
  BY <1>2, DropOne, DropType
<1>8. /\ Copies(m) = InQueue(m, queue) + InMemory(m, memQueue)
                       + InHand(m, held) + InHandler(m, marked)
      /\ Copies(m)' = InQueue(m, queue') + InMemory(m, memQueue')
                        + InHand(m, held) + First(m, from) + InHandler(m, marked)
  <2>1. InHandler(m, marked') = InHandler(m, marked)
    BY <1>2
  <2>2. First(m, from) \in {0, 1}
    BY DEF First, Is
  <2>3. /\ Copies(m) = InQueue(m, queue) + InMemory(m, memQueue)
                         + InHand(m, held) + InHandler(m, marked)
        /\ Copies(m)' = InQueue(m, queue') + InMemory(m, memQueue')
                          + InHand(m, held') + InHandler(m, marked')
    BY CopiesAre
  <2> HIDE DEF from
  <2> QED  BY <1>3, <1>4, <2>1, <2>2, <2>3
<1>9. Copies(m) \in Nat /\ Copies(m)' \in Nat
  BY NumbersNat
<1>10. answered'[m] = answered[m]
  BY <1>2
<1>11. CASE out = "ok"
  <2>1. from = queue /\ queue' = DropFirst(queue, 1)
    BY <1>1, <1>11 DEF Taken
  <2>2. Copies(m) = Copies(m)' + 0
    <3> HIDE DEF from
    <3> QED  BY <1>3, <1>6, <1>7, <1>8, <1>9, <1>11, <2>1 DEF Falls
  <2> QED  BY <1>5, <1>10, <2>2, LosesForFault
<1>12. CASE out \in {"before", "memory"}
  <2>1. from = memQueue[w] /\ queue' = queue
    BY <1>1, <1>2, <1>12, DropNothing DEF Taken
  <2>2. Copies(m) = Copies(m)' + 0
    <3> HIDE DEF from
    <3> QED  BY <1>3, <1>6, <1>7, <1>8, <1>9, <1>12, <2>1 DEF Falls
  <2> QED  BY <1>5, <1>10, <2>2, LosesForFault
<1>13. CASE out = "after"
  <2>1. from = memQueue[w] /\ queue' = DropFirst(queue, 1) /\ Taken(out) = 1
    BY <1>1, <1>13 DEF Taken
  <2>2. Copies(m) = Copies(m)' + First(m, queue)
    <3> HIDE DEF from
    <3> QED  BY <1>3, <1>6, <1>7, <1>8, <1>9, <1>13, <2>1 DEF Falls
  <2>3. First(m, queue) = 1 => touched'[m] = touched[m] + 1
    BY <1>5, <1>7, <1>13, <2>1
  <2> QED  BY <1>5, <1>7, <1>10, <2>2, <2>3, LosesForFault
<1>14. CASE out = "twice"
  <2>1. from = DropFirst(queue, 1) /\ queue' = DropFirst(queue, 2) /\ Taken(out) = 2
    BY <1>1, <1>14 DEF Taken
  <2>2. InQueue(m, queue) = InQueue(m, queue') + First(m, queue) + First(m, DropFirst(queue, 1))
    BY <1>2, <2>1, DropBoth
  <2>3. Copies(m) = Copies(m)' + First(m, queue)
    <3> HIDE DEF from
    <3> QED  BY <1>3, <1>6, <1>7, <1>8, <1>9, <1>14, <2>1, <2>2 DEF Falls
  <2>4. First(m, queue) = 1 => touched'[m] = touched[m] + 1
    BY <1>5, <1>7, <1>14, <2>1
  <2> QED  BY <1>5, <1>7, <1>10, <2>3, <2>4, LosesForFault
<1> QED  BY <1>1, <1>11, <1>12, <1>13, <1>14 DEF Outcomes

\* A step that moves no job.
LEMMA NothingMoves ==
  ASSUME FallbackAssumption, TypeOK, TypeOK', NEW m \in Msgs,
         UNCHANGED <<queue, memQueue, held, marked, answered>>,
         touched'[m] \in {touched[m], touched[m] + 1}
  PROVE  Kept(m)
<1>1. Copies(m) \in Nat /\ answered[m] \in Nat /\ touched[m] \in Nat
  BY NumbersNat
<1>2. Copies(m)' = Copies(m) /\ answered'[m] = answered[m]
  BY CopiesAre
<1> QED  BY <1>1, <1>2 DEF Kept

\* The handler puts the job of the message that it has marked into a queue.
LEMMA EnqueueKeeps ==
  ASSUME FallbackAssumption, TypeOK, TypeOK', NEW w \in Workers, NEW n \in Msgs,
         Enqueue(w, n),
         NEW m \in Msgs
  PROVE  Kept(m)
<1> DEFINE j == [msg |-> n, retry |-> 0]
<1>1. j \in Jobs /\ Push(w, j) /\ Is(j, m) = IF m = n THEN 1 ELSE 0
  BY DEF Enqueue, Jobs, FallbackAssumption, Is
<1>2. /\ InQueue(m, queue) \in Nat /\ InMemory(m, memQueue) \in Nat
      /\ InHand(m, held) \in Nat /\ InHandler(m, marked) \in Nat
      /\ InQueue(m, queue') \in Nat /\ InMemory(m, memQueue') \in Nat
      /\ InHandler(m, marked') \in Nat
      /\ touched[m] \in Nat /\ touched'[m] \in Nat /\ answered[m] \in Nat
  BY CountsNat DEF TypeOK
<1>3. InHandler(m, marked) = InHandler(m, marked') + Is(j, m)
  <2>1. /\ marked \in [Workers -> [Msgs -> Nat]] /\ marked' \in [Workers -> [Msgs -> Nat]]
        /\ \A v \in Workers : v # w => marked'[v][m] = marked[v][m]
        /\ marked'[w][m] = IF m = n THEN marked[w][m] - 1 ELSE marked[w][m]
    BY DEF Enqueue, TypeOK
  <2>2. InHandler(m, marked') + marked[w][m] = InHandler(m, marked) + marked'[w][m]
    BY <2>1, HandlerChange
  <2>3. marked[w][m] \in Nat
    BY <2>1
  <2>4. marked'[w][m] + Is(j, m) = marked[w][m] /\ marked'[w][m] \in Nat
    <3>1. m = n => marked[w][m] > 0
      BY DEF Enqueue
    <3> HIDE DEF j
    <3> QED  BY <1>1, <2>1, <2>3, <3>1
  <2>5. Is(j, m) \in Nat
    BY <1>1
  <2> HIDE DEF j
  <2> QED  BY <1>2, <2>2, <2>3, <2>4, <2>5
<1>4. UNCHANGED <<held, answered>>
  BY DEF Enqueue
<1> HIDE DEF j
<1>5. /\ touched[m] <= touched'[m]
      /\ InQueue(m, queue) + InMemory(m, memQueue) + Is(j, m)
           <= InQueue(m, queue') + InMemory(m, memQueue')
      /\ InQueue(m, queue') + InMemory(m, memQueue') + touched[m]
           <= InQueue(m, queue) + InMemory(m, memQueue) + Is(j, m) + touched'[m]
  BY <1>1, PushKeeps
<1>6. /\ Copies(m) = InQueue(m, queue) + InMemory(m, memQueue)
                       + InHand(m, held) + InHandler(m, marked)
      /\ Copies(m)' = InQueue(m, queue') + InMemory(m, memQueue')
                        + InHand(m, held) + InHandler(m, marked')
  BY <1>4, CopiesAre
<1>7. Is(j, m) \in Nat
  BY DEF Is
<1>8. /\ Copies(m)' + answered[m] + touched[m] <= Copies(m) + answered[m] + touched'[m]
      /\ Copies(m) + answered[m] <= Copies(m)' + answered[m]
  BY <1>2, <1>3, <1>5, <1>6, <1>7
<1> QED  BY <1>4, <1>5, <1>8 DEF Kept

\* The job is answered, or stays in the hand.
LEMMA ReadTextsKeeps ==
  ASSUME FallbackAssumption, TypeOK, TypeOK', HeldFits, NEW w \in Workers, ReadTexts(w),
         NEW m \in Msgs
  PROVE  Kept(m)
<1>1. PICK out \in Outcomes \ {"after", "twice"} :
        /\ Call(w, out, {held[w].msg})
        /\ IF out = "ok" /\ texts
           THEN /\ answered' = [answered EXCEPT ![held[w].msg] = @ + 1]
                /\ held' = [held EXCEPT ![w] = NoJob]
                /\ Step(w, "check")
           ELSE Step(w, "requeue") /\ UNCHANGED <<held, answered>>
  BY DEF ReadTexts
<1>2. touched'[m] \in {touched[m], touched[m] + 1}
  BY <1>1, CallTouches
<1>3. UNCHANGED <<queue, memQueue, marked>>
  BY DEF ReadTexts, redis
<1>4. CASE ~(out = "ok" /\ texts)
  BY <1>1, <1>2, <1>3, <1>4, NothingMoves
<1>5. CASE out = "ok" /\ texts
  <2>1. /\ InQueue(m, queue) \in Nat /\ InMemory(m, memQueue) \in Nat
        /\ InHand(m, held) \in Nat /\ InHandler(m, marked) \in Nat /\ InHand(m, held') \in Nat
        /\ touched[m] \in Nat /\ answered[m] \in Nat
    BY CountsNat DEF TypeOK
  <2>2. InHand(m, held) = InHand(m, held') + Is(held[w], m)
    <3>1. held'[w] = NoJob /\ \A v \in Workers : v # w => held'[v] = held[v]
      BY <1>1, <1>5 DEF TypeOK
    <3>2. InHand(m, held') + Is(held[w], m) = InHand(m, held) + Is(NoJob, m)
      BY <3>1, HandChange
    <3>3. Is(NoJob, m) = 0 /\ Is(held[w], m) \in Nat
      BY DEF Is
    <3> QED  BY <2>1, <3>2, <3>3
  <2>3. answered'[m] = answered[m] + Is(held[w], m)
    <3>1. held[w] # NoJob /\ held[w].msg \in Msgs
      <4>1. held[w] # NoJob /\ held[w] \in Jobs
        BY DEF ReadTexts, HeldFits, TypeOK
      <4> QED  BY <4>1 DEF Jobs
    <3>2. answered'[m] = IF m = held[w].msg THEN answered[m] + 1 ELSE answered[m]
      <4>1. answered' = [answered EXCEPT ![held[w].msg] = @ + 1]
        BY <1>1, <1>5, Zenon
      <4>2. answered \in [Msgs -> Nat]
        BY DEF TypeOK
      <4> QED  BY <4>1, <4>2
    <3> QED  BY <2>1, <3>1, <3>2 DEF Is
  <2>4. /\ Copies(m) = InQueue(m, queue) + InMemory(m, memQueue)
                         + InHand(m, held) + InHandler(m, marked)
        /\ Copies(m)' = InQueue(m, queue) + InMemory(m, memQueue)
                          + InHand(m, held') + InHandler(m, marked)
    BY <1>3, CopiesAre
  <2>5. Is(held[w], m) \in Nat
    BY DEF Is
  <2>6. Copies(m)' + answered'[m] = Copies(m) + answered[m]
    BY <2>1, <2>2, <2>3, <2>4, <2>5
  <2>7. Copies(m) \in Nat /\ Copies(m)' \in Nat /\ answered'[m] \in Nat
    BY NumbersNat
  <2> QED  BY <1>2, <2>1, <2>6, <2>7 DEF Kept
<1> QED  BY <1>4, <1>5

\* The job goes back into a queue, or is dropped.
LEMMA RequeueKeeps ==
  ASSUME FallbackAssumption, TypeOK, TypeOK', HeldFits, NEW w \in Workers, Requeue(w),
         NEW m \in Msgs
  PROVE  Kept(m)
<1>1. held[w] \in Jobs
  BY DEF Requeue, HeldFits, TypeOK
<1>2. /\ InQueue(m, queue) \in Nat /\ InMemory(m, memQueue) \in Nat
      /\ InHand(m, held) \in Nat /\ InHandler(m, marked) \in Nat
      /\ InQueue(m, queue') \in Nat /\ InMemory(m, memQueue') \in Nat
      /\ InHand(m, held') \in Nat
      /\ touched[m] \in Nat /\ touched'[m] \in Nat /\ answered[m] \in Nat
  BY CountsNat DEF TypeOK
<1>3. Is(held[w], m) \in Nat /\ Is(NoJob, m) = 0
  BY DEF Is
<1>4. InHand(m, held) = InHand(m, held') + Is(held[w], m)
  <2>1. held'[w] = NoJob /\ \A v \in Workers : v # w => held'[v] = held[v]
    BY DEF Requeue, TypeOK
  <2>2. InHand(m, held') + Is(held[w], m) = InHand(m, held) + Is(NoJob, m)
    BY <2>1, HandChange
  <2> QED  BY <1>2, <1>3, <2>2
<1>5. UNCHANGED <<marked, answered>>
  BY DEF Requeue
<1>6. /\ Copies(m) = InQueue(m, queue) + InMemory(m, memQueue)
                       + InHand(m, held) + InHandler(m, marked)
      /\ Copies(m)' = InQueue(m, queue') + InMemory(m, memQueue')
                        + InHand(m, held') + InHandler(m, marked)
  BY <1>5, CopiesAre
<1>7. CASE Exhausted(held[w])
  <2>1. dropped' = dropped \cup {held[w].msg} /\ UNCHANGED <<queue, memQueue, touched>>
    BY <1>7 DEF Requeue
  <2>2. Copies(m) = Copies(m)' + Is(held[w], m) /\ Copies(m)' \in Nat
    <3>1. Copies(m)' \in Nat
      BY NumbersNat
    <3> QED  BY <1>2, <1>3, <1>4, <1>6, <2>1, <3>1
  <2>3. m \in dropped' \/ Is(held[w], m) = 0
    BY <2>1 DEF Is
  <2> QED  BY <1>2, <1>3, <1>5, <2>1, <2>2, <2>3 DEF Kept
<1>8. CASE ~Exhausted(held[w])
  <2>1. /\ NextTry(held[w]) \in Jobs /\ NextTry(held[w]).msg = held[w].msg
        /\ Push(w, NextTry(held[w]))
    BY <1>1, <1>8, NextTryJob DEF Requeue
  <2>2. Is(NextTry(held[w]), m) = Is(held[w], m)
    BY <1>1, <2>1 DEF Is, FallbackAssumption
  <2>3. /\ touched[m] <= touched'[m]
        /\ InQueue(m, queue) + InMemory(m, memQueue) + Is(held[w], m)
             <= InQueue(m, queue') + InMemory(m, memQueue')
        /\ InQueue(m, queue') + InMemory(m, memQueue') + touched[m]
             <= InQueue(m, queue) + InMemory(m, memQueue) + Is(held[w], m) + touched'[m]
    BY <2>1, <2>2, PushKeeps
  <2>4. /\ Copies(m)' + answered[m] + touched[m] <= Copies(m) + answered[m] + touched'[m]
        /\ Copies(m) + answered[m] <= Copies(m)' + answered[m]
    BY <1>2, <1>3, <1>4, <1>6, <2>3
  <2> QED  BY <1>5, <2>3, <2>4 DEF Kept
<1> QED  BY <1>7, <1>8

-----------------------------------------------------------------------------
LEMMA OwnersFinite ==
  ASSUME FallbackAssumption, NEW m, NEW u, NEW s
  PROVE  IsFiniteSet(Owners(m, u, s)) /\ Cardinality(Owners(m, u, s)) \in Nat
<1>1. Owners(m, u, s) \in SUBSET Workers
  BY DEF Owners
<1>2. IsFiniteSet(Owners(m, u, s))
  BY <1>1, FS_Subset DEF FallbackAssumption
<1> QED  BY <1>2, FS_CardinalityType

\* A step that neither detects messages nor restarts a worker.
LEMMA KeptIsEnough ==
  ASSUME FallbackAssumption, TypeOK, TypeOK', NEW m \in Msgs, Kept(m),
         UNCHANGED <<seen, useRedis, memSeen>>, dropped \subseteq dropped',
         Paid(m), Explained(m)
  PROVE  Paid(m)' /\ Explained(m)'
<1>1. /\ Copies(m) \in Nat /\ Copies(m)' \in Nat
      /\ answered[m] \in Nat /\ answered'[m] \in Nat
      /\ touched[m] \in Nat /\ touched'[m] \in Nat
      /\ Mark(m, seen) \in Nat
  BY NumbersNat
<1>2. /\ Mark(m, seen') = Mark(m, seen)
      /\ Cardinality(Owners(m, useRedis', memSeen')) = Cardinality(Owners(m, useRedis, memSeen))
  OBVIOUS
<1>3. Cardinality(Owners(m, useRedis, memSeen)) \in Nat
  BY OwnersFinite
<1>4. Copies(m)' + answered'[m]
        <= Mark(m, seen') + touched'[m] + Cardinality(Owners(m, useRedis', memSeen'))
  BY <1>1, <1>2, <1>3 DEF Kept, Paid
<1>5. ASSUME m \in seen' \cup UNION {memSeen'[w] : w \in Workers}
      PROVE  Copies(m)' > 0 \/ answered'[m] > 0 \/ m \in dropped' \/ touched'[m] > 0
  <2>1. Copies(m) > 0 \/ answered[m] > 0 \/ m \in dropped \/ touched[m] > 0
    BY <1>5 DEF Explained
  <2>2. CASE m \in dropped
    BY <2>2
  <2>3. CASE Copies(m) > 0 \/ answered[m] > 0 \/ touched[m] > 0
    BY <1>1, <2>3 DEF Kept
  <2> QED  BY <2>1, <2>2, <2>3
<1> QED  BY <1>4, <1>5 DEF Paid, Explained

\* A job is made with a new mark in Redis, with a new one in the memory of a worker
\* without Redis, or when the call has failed.
LEMMA DeliverPaid ==
  ASSUME FallbackAssumption, TypeOK, TypeOK', NEW w \in Workers, NEW n \in Msgs,
         Deliver(w, n),
         NEW m \in Msgs, Paid(m), Explained(m)
  PROVE  Paid(m)' /\ Explained(m)'
<1>1. PICK out \in Outcomes :
        /\ Call(w, out, {n})
        /\ seen' = IF Served(out) THEN seen \cup {n} ELSE seen
        /\ memSeen' = IF Falls(out) THEN [memSeen EXCEPT ![w] = @ \cup {n}] ELSE memSeen
        /\ marked' = IF New(w, out, n) THEN [marked EXCEPT ![w][n] = @ + 1] ELSE marked
  BY DEF Deliver
<1>2. UNCHANGED <<queue, memQueue, held, useRedis, answered, dropped>>
  BY DEF Deliver
<1>3. /\ Copies(m) \in Nat /\ Copies(m)' \in Nat
      /\ answered[m] \in Nat /\ answered'[m] \in Nat
      /\ touched[m] \in Nat /\ touched'[m] \in Nat
  BY NumbersNat
<1>4. Copies(m)' = IF m = n /\ New(w, out, n) THEN Copies(m) + 1 ELSE Copies(m)
  <2>1. /\ InQueue(m, queue) \in Nat /\ InMemory(m, memQueue) \in Nat
        /\ InHand(m, held) \in Nat /\ InHandler(m, marked) \in Nat /\ InHandler(m, marked') \in Nat
    BY CountsNat DEF TypeOK
  <2>2. /\ marked \in [Workers -> [Msgs -> Nat]] /\ marked' \in [Workers -> [Msgs -> Nat]]
        /\ \A v \in Workers : v # w => marked'[v][m] = marked[v][m]
    BY <1>1 DEF TypeOK
  <2>3. marked'[w][m] = IF m = n /\ New(w, out, n) THEN marked[w][m] + 1 ELSE marked[w][m]
    BY <1>1 DEF TypeOK
  <2>4. InHandler(m, marked') + marked[w][m] = InHandler(m, marked) + marked'[w][m]
    BY <2>2, HandlerChange
  <2>5. marked[w][m] \in Nat
    BY <2>2
  <2>6. /\ Copies(m) = InQueue(m, queue) + InMemory(m, memQueue)
                         + InHand(m, held) + InHandler(m, marked)
        /\ Copies(m)' = InQueue(m, queue) + InMemory(m, memQueue)
                          + InHand(m, held) + InHandler(m, marked')
    BY <1>2, CopiesAre
  <2>7. InHandler(m, marked')
          = IF m = n /\ New(w, out, n) THEN InHandler(m, marked) + 1 ELSE InHandler(m, marked)
    BY <2>1, <2>3, <2>4, <2>5
  <2> QED  BY <2>1, <2>6, <2>7
<1>5. /\ touched'[m] \in {touched[m], touched[m] + 1}
      /\ m # n => touched'[m] = touched[m]
      /\ out \in {"ok", "memory"} => touched'[m] = touched[m]
      /\ out \notin {"ok", "memory"} /\ m = n => touched'[m] = touched[m] + 1
  BY <1>1, CallTouches
<1> DEFINE own  == Owners(m, useRedis, memSeen)
           own2 == Owners(m, useRedis', memSeen')
<1>6. /\ IsFiniteSet(own) /\ Cardinality(own) \in Nat
      /\ IsFiniteSet(own2) /\ Cardinality(own2) \in Nat
  BY OwnersFinite
<1>7. Cardinality(own) <= Cardinality(own2)
  <2>1. own \in SUBSET own2
    BY <1>1, <1>2 DEF Owners, TypeOK
  <2> HIDE DEF own, own2
  <2> QED  BY <1>6, <2>1, FS_Subset
<1>8. /\ Mark(m, seen) \in Nat /\ Mark(m, seen') \in Nat
      /\ Mark(m, seen) <= Mark(m, seen')
  BY <1>1 DEF Mark
<1>9. Copies(m) + answered[m] <= Mark(m, seen) + touched[m] + Cardinality(own)
  BY DEF Paid
<1>10. SUFFICES
         /\ Copies(m)' + answered'[m] <= Mark(m, seen') + touched'[m] + Cardinality(own2)
         /\ m \in seen' \cup UNION {memSeen'[v] : v \in Workers}
              => Copies(m)' > 0 \/ answered'[m] > 0 \/ m \in dropped' \/ touched'[m] > 0
  BY DEF Paid, Explained
<1> HIDE DEF own, own2
<1>11. CASE m = n /\ out \notin {"ok", "memory"}
  BY <1>2, <1>3, <1>4, <1>5, <1>6, <1>7, <1>8, <1>9, <1>11
<1>12. CASE m = n /\ New(w, out, n) /\ out \in {"ok", "memory"}
  <2>1. Copies(m)' = Copies(m) + 1 /\ touched'[m] = touched[m] /\ answered'[m] = answered[m]
    BY <1>2, <1>4, <1>5, <1>12
  <2>2. CASE out = "ok"
    <3>1. Mark(m, seen) = 0 /\ Mark(m, seen') = 1
      BY <1>1, <1>12, <2>2 DEF New, Served, Falls, Mark
    <3> QED  BY <1>3, <1>6, <1>7, <1>9, <2>1, <3>1
  <2>3. CASE out = "memory"
    <3>1. Cardinality(own2) = Cardinality(own) + 1
      <4>1. own2 = own \cup {w} /\ w \notin own
        BY <1>1, <1>2, <1>12, <2>3 DEF own, own2, Owners, Call, New, Falls, TypeOK
      <4> QED  BY <1>6, <4>1, FS_AddElement
    <3> QED  BY <1>3, <1>6, <1>8, <1>9, <2>1, <3>1
  <2> QED  BY <1>12, <2>2, <2>3
<1>13. CASE m # n \/ (~New(w, out, n) /\ out \in {"ok", "memory"})
  <2>1. Copies(m)' = Copies(m) /\ touched'[m] = touched[m] /\ answered'[m] = answered[m]
    BY <1>2, <1>4, <1>5, <1>13
  <2>2. Copies(m)' + answered'[m] <= Mark(m, seen') + touched'[m] + Cardinality(own2)
    BY <1>3, <1>6, <1>7, <1>8, <1>9, <2>1
  <2>3. m \in seen' \cup UNION {memSeen'[v] : v \in Workers}
          => m \in seen \cup UNION {memSeen[v] : v \in Workers}
    <3>1. CASE m # n
      BY <1>1, <3>1 DEF TypeOK
    <3>2. CASE ~New(w, out, n) /\ out = "ok"
      BY <1>1, <3>2 DEF New, Served, Falls
    <3>3. CASE ~New(w, out, n) /\ out = "memory"
      BY <1>1, <3>3 DEF New, Served, Falls, TypeOK
    <3> QED  BY <1>13, <3>1, <3>2, <3>3
  <2> QED  BY <1>2, <2>1, <2>2, <2>3 DEF Explained
<1> QED  BY <1>11, <1>12, <1>13

\* Whatever the memory of the worker knew of has been touched by the crash.
LEMMA RestartPaid ==
  ASSUME FallbackAssumption, TypeOK, TypeOK', NEW w \in Workers, Restart(w),
         NEW m \in Msgs, Paid(m), Explained(m)
  PROVE  Paid(m)' /\ Explained(m)'
<1>1. /\ touched'[m] = IF m \in Local(w) THEN touched[m] + 1 ELSE touched[m]
      /\ UNCHANGED <<seen, queue, answered, dropped>>
  BY DEF Restart, redis
<1>2. /\ memSeen'[w] = {} /\ memQueue'[w] = <<>> /\ marked'[w][m] = 0 /\ held'[w] = NoJob
      /\ \A v \in Workers : v # w =>
           /\ memSeen'[v] = memSeen[v] /\ useRedis'[v] = useRedis[v]
           /\ memQueue'[v] = memQueue[v] /\ held'[v] = held[v]
           /\ marked'[v] = marked[v]
  BY DEF Restart, TypeOK
<1>3. /\ Copies(m) \in Nat /\ Copies(m)' \in Nat /\ answered[m] \in Nat
      /\ touched[m] \in Nat /\ touched'[m] \in Nat /\ Mark(m, seen) \in Nat
  BY NumbersNat
<1>4. /\ memQueue \in [Workers -> Seq(Jobs)] /\ memQueue' \in [Workers -> Seq(Jobs)]
      /\ marked \in [Workers -> [Msgs -> Nat]] /\ marked' \in [Workers -> [Msgs -> Nat]]
  BY DEF TypeOK
<1>5. /\ Copies(m) = Copies(m)' + InQueue(m, memQueue[w]) + Is(held[w], m) + marked[w][m]
      /\ InQueue(m, memQueue[w]) \in Nat /\ Is(held[w], m) \in Nat /\ marked[w][m] \in Nat
  <2>1. /\ InQueue(m, queue) \in Nat /\ InMemory(m, memQueue) \in Nat
        /\ InHand(m, held) \in Nat /\ InHandler(m, marked) \in Nat
        /\ InMemory(m, memQueue') \in Nat
        /\ InHand(m, held') \in Nat /\ InHandler(m, marked') \in Nat
    BY CountsNat DEF TypeOK
  <2>2. InQueue(m, <<>>) = 0
    <3>1. Places(m, <<>>) = {}
      BY DEF Places
    <3> QED  BY <3>1, FS_EmptySet DEF InQueue
  <2>3. InMemory(m, memQueue') + InQueue(m, memQueue[w]) = InMemory(m, memQueue) + 0
    <3>1. \A v \in Workers : v # w => memQueue'[v] = memQueue[v]
      BY <1>2
    <3>2. InMemory(m, memQueue') + InQueue(m, memQueue[w])
            = InMemory(m, memQueue) + InQueue(m, memQueue'[w])
      BY <1>4, <3>1, MemoryChange
    <3>3. InQueue(m, memQueue'[w]) = 0
      BY <1>2, <2>2
    <3> QED  BY <3>2, <3>3
  <2>4. InHand(m, held') + Is(held[w], m) = InHand(m, held) + Is(NoJob, m)
    BY <1>2, HandChange
  <2>5. InHandler(m, marked') + marked[w][m] = InHandler(m, marked) + 0
    <3>1. \A v \in Workers : v # w => marked'[v][m] = marked[v][m]
      BY <1>2
    <3>2. InHandler(m, marked') + marked[w][m] = InHandler(m, marked) + marked'[w][m]
      BY <1>4, <3>1, HandlerChange
    <3> QED  BY <1>2, <3>2
  <2>6. /\ InQueue(m, memQueue[w]) \in Nat /\ Is(held[w], m) \in Nat /\ marked[w][m] \in Nat
        /\ Is(NoJob, m) = 0
    <3>1. InQueue(m, memQueue[w]) \in Nat
      BY <1>4, PlacesFinite
    <3> QED  BY <1>4, <3>1 DEF Is
  <2>7. /\ Copies(m) = InQueue(m, queue) + InMemory(m, memQueue)
                         + InHand(m, held) + InHandler(m, marked)
        /\ Copies(m)' = InQueue(m, queue) + InMemory(m, memQueue')
                          + InHand(m, held') + InHandler(m, marked')
    <3>1. InQueue(m, queue') = InQueue(m, queue)
      BY <1>1
    <3> QED  BY <3>1, CopiesAre
  <2> QED  BY <2>1, <2>3, <2>4, <2>5, <2>6, <2>7
<1> DEFINE own  == Owners(m, useRedis, memSeen)
           own2 == Owners(m, useRedis', memSeen')
<1>6. IsFiniteSet(own) /\ Cardinality(own) \in Nat /\ Cardinality(own2) \in Nat
  BY OwnersFinite
<1>7. own2 = own \ {w} /\ (m \notin memSeen[w] => w \notin own)
  BY <1>2 DEF Owners
<1>8. Copies(m) + answered[m] <= Mark(m, seen) + touched[m] + Cardinality(own)
  BY DEF Paid
<1>9. SUFFICES
        /\ Copies(m)' + answered[m] <= Mark(m, seen) + touched'[m] + Cardinality(own2)
        /\ m \in seen \cup UNION {memSeen'[v] : v \in Workers}
             => Copies(m)' > 0 \/ answered[m] > 0 \/ m \in dropped \/ touched'[m] > 0
  BY <1>1 DEF Paid, Explained
<1> HIDE DEF own, own2
<1>10. Cardinality(own2) = IF w \in own THEN Cardinality(own) - 1 ELSE Cardinality(own)
  BY <1>6, <1>7, FS_RemoveElement
<1>11. CASE m \in Local(w)
  <2>1. touched'[m] = touched[m] + 1
    BY <1>1, <1>11
  <2> QED  BY <1>3, <1>5, <1>6, <1>8, <1>10, <2>1
<1>12. CASE m \notin Local(w)
  <2>1. /\ m \notin memSeen[w] /\ ~(marked[w][m] > 0) /\ ~(held[w] # NoJob /\ held[w].msg = m)
        /\ \A i \in DOMAIN memQueue[w] : memQueue[w][i].msg # m
    BY <1>12 DEF Local
  <2>2. InQueue(m, memQueue[w]) = 0
    <3>1. Places(m, memQueue[w]) = {}
      BY <2>1 DEF Places
    <3> QED  BY <3>1, FS_EmptySet DEF InQueue
  <2>3. Is(held[w], m) = 0 /\ marked[w][m] = 0
    BY <1>5, <2>1 DEF Is
  <2>4. Copies(m)' = Copies(m) /\ touched'[m] = touched[m] /\ Cardinality(own2) = Cardinality(own)
    BY <1>1, <1>3, <1>5, <1>7, <1>10, <1>12, <2>1, <2>2, <2>3
  <2>5. m \in UNION {memSeen'[v] : v \in Workers} => m \in UNION {memSeen[v] : v \in Workers}
    BY <1>2
  <2> QED  BY <1>8, <2>4, <2>5 DEF Explained
<1> QED  BY <1>11, <1>12

-----------------------------------------------------------------------------
LEMMA FallbackInvInit ==
  ASSUME FallbackAssumption, Init
  PROVE  FallbackInv
<1>1. TypeOK /\ HeldFits
  BY DEF Init, TypeOK, HeldFits, FallbackAssumption
<1>2. ASSUME NEW m \in Msgs  PROVE Paid(m) /\ Explained(m)
  <2>1. /\ Places(m, queue) = {} /\ Stored(m, memQueue) = {} /\ Holding(m, held) = {}
        /\ Handlers(m, marked) = {}
    BY DEF Init, Places, Stored, Pool, Holding, Handlers
  <2>2. Copies(m) = 0 /\ answered[m] = 0 /\ touched[m] = 0
    <3>1. Copies(m) = Cardinality({}) + Cardinality({}) + Cardinality({}) + Cardinality({})
      BY <2>1 DEF Copies
    <3>2. Cardinality({}) = 0
      BY FS_EmptySet
    <3>3. Copies(m) = 0
      BY <3>1, <3>2
    <3> QED  BY <3>3 DEF Init
  <2>3. m \notin seen \cup UNION {memSeen[w] : w \in Workers}
    BY DEF Init
  <2>4. Mark(m, seen) = 0 /\ Cardinality(Owners(m, useRedis, memSeen)) \in Nat
    BY <2>3, OwnersFinite DEF Mark
  <2> QED  BY <2>2, <2>3, <2>4 DEF Paid, Explained
<1> QED  BY <1>1, <1>2 DEF FallbackInv

LEMMA FallbackInvStep ==
  ASSUME FallbackAssumption, FallbackInv, [Next]_vars
  PROVE  FallbackInv'
<1>1. TypeOK /\ HeldFits /\ TypeOK' /\ HeldFits'
  BY TypeStep, FitsStep DEF FallbackInv
<1> SUFFICES ASSUME NEW m \in Msgs  PROVE Paid(m)' /\ Explained(m)'
  BY <1>1 DEF FallbackInv
<1>2. Paid(m) /\ Explained(m)
  BY DEF FallbackInv
<1>3. ASSUME Kept(m), UNCHANGED <<seen, useRedis, memSeen>>, dropped \subseteq dropped'
      PROVE  Paid(m)' /\ Explained(m)'
  BY <1>1, <1>2, <1>3, KeptIsEnough
<1>4. ASSUME NEW w \in Workers, NEW n \in Msgs, Deliver(w, n)
      PROVE  Paid(m)' /\ Explained(m)'
  BY <1>1, <1>2, <1>4, DeliverPaid
<1>5. ASSUME NEW w \in Workers, NEW n \in Msgs, Enqueue(w, n)
      PROVE  Paid(m)' /\ Explained(m)'
  <2>1. Kept(m)
    BY <1>1, <1>5, EnqueueKeeps
  <2> QED  BY <1>3, <1>5, <2>1 DEF Enqueue
<1>6. ASSUME NEW w \in Workers, CheckConsumer(w)
      PROVE  Paid(m)' /\ Explained(m)'
  <2>1. UNCHANGED <<queue, memQueue, held, marked, answered>>
    BY <1>6 DEF CheckConsumer, redis
  <2>2. touched'[m] \in {touched[m], touched[m] + 1}
    BY <1>1, <1>6, CallTouches DEF CheckConsumer
  <2>3. Kept(m)
    BY <1>1, <2>1, <2>2, NothingMoves
  <2> QED  BY <1>3, <1>6, <2>3 DEF CheckConsumer, redis
<1>7. ASSUME NEW w \in Workers, Pop(w)
      PROVE  Paid(m)' /\ Explained(m)'
  <2>1. Kept(m)
    BY <1>1, <1>7, PopKeeps
  <2> QED  BY <1>3, <1>7, <2>1 DEF Pop
<1>8. ASSUME NEW w \in Workers, ReadTexts(w)
      PROVE  Paid(m)' /\ Explained(m)'
  <2>1. Kept(m)
    BY <1>1, <1>8, ReadTextsKeeps
  <2> QED  BY <1>3, <1>8, <2>1 DEF ReadTexts, redis
<1>9. ASSUME NEW w \in Workers, Requeue(w)
      PROVE  Paid(m)' /\ Explained(m)'
  <2>1. Kept(m)
    BY <1>1, <1>9, RequeueKeeps
  <2>2. UNCHANGED <<seen, useRedis, memSeen>> /\ dropped \subseteq dropped'
    BY <1>9 DEF Requeue
  <2> QED  BY <1>3, <2>1, <2>2
<1>10. ASSUME NEW w \in Workers, Restart(w)
       PROVE  Paid(m)' /\ Explained(m)'
  BY <1>1, <1>2, <1>10, RestartPaid
<1>11. CASE ChangeState \/ UNCHANGED vars
  <2>1. /\ UNCHANGED <<queue, memQueue, held, marked, answered, touched, dropped>>
        /\ UNCHANGED <<seen, useRedis, memSeen>>
    BY <1>11 DEF ChangeState, vars, redis, local, history
  <2>2. Kept(m)
    BY <1>1, <2>1, NothingMoves
  <2> QED  BY <1>3, <2>1, <2>2
<1> QED
  BY <1>4, <1>5, <1>6, <1>7, <1>8, <1>9, <1>10, <1>11 DEF Next, Consume

\* The type invariant of the queue manager with its memory fallback.
THEOREM FallbackTypes == Spec => []TypeOK
<1>1. Init => FallbackInv
  BY FallbackInvInit, FallbackAssumption
<1>2. FallbackInv /\ [Next]_vars => FallbackInv'
  BY FallbackInvStep, FallbackAssumption
<1>3. FallbackInv => TypeOK
  BY DEF FallbackInv
<1> QED  BY <1>1, <1>2, <1>3, PTL DEF Spec

\* Whatever fails, a message has no more jobs and answers than one, the workers
\* without Redis and the faults that concerned it account for: retries, fallbacks
\* and requeues make no copies of their own.
THEOREM CopiesBounded == Spec => []CopiesBound
<1>1. Init => FallbackInv
  BY FallbackInvInit, FallbackAssumption
<1>2. FallbackInv /\ [Next]_vars => FallbackInv'
  BY FallbackInvStep, FallbackAssumption
<1>3. FallbackInv => CopiesBound
  <2> SUFFICES ASSUME FallbackInv, NEW m \in Msgs
               PROVE  Copies(m) + answered[m]
                        <= 1 + touched[m] + Cardinality({w \in Workers : ~useRedis[w]})
    BY DEF CopiesBound
  <2>1. Paid(m) /\ touched[m] \in Nat /\ answered[m] \in Nat /\ Mark(m, seen) \in {0, 1}
    BY DEF FallbackInv, TypeOK, Mark
  <2>2. IsFiniteSet({w \in Workers : ~useRedis[w]})
    <3>1. {w \in Workers : ~useRedis[w]} \in SUBSET Workers
      OBVIOUS
    <3> QED  BY <3>1, FallbackAssumption, FS_Subset DEF FallbackAssumption
  <2>3. Owners(m, useRedis, memSeen) \in SUBSET {w \in Workers : ~useRedis[w]}
    BY DEF Owners
  <2>4. Cardinality(Owners(m, useRedis, memSeen)) <= Cardinality({w \in Workers : ~useRedis[w]})
    BY <2>2, <2>3, FS_Subset
  <2>5. /\ Cardinality(Owners(m, useRedis, memSeen)) \in Nat
        /\ Cardinality({w \in Workers : ~useRedis[w]}) \in Nat
    BY <2>2, FallbackAssumption, OwnersFinite, FS_CardinalityType
  <2>6. Copies(m) \in Nat
    <3>1. /\ InQueue(m, queue) \in Nat /\ InMemory(m, memQueue) \in Nat
          /\ InHand(m, held) \in Nat /\ InHandler(m, marked) \in Nat
      BY CountsNat, FallbackAssumption DEF FallbackInv, TypeOK
    <3> QED  BY <3>1, CopiesAre
  <2> QED  BY <2>1, <2>4, <2>5, <2>6 DEF Paid
<1> QED  BY <1>1, <1>2, <1>3, PTL DEF Spec

\* A message that some worker has detected still has a job, was answered, was
\* dropped for want of a text, or a fault concerned it.
THEOREM LossExplained == Spec => []LossNeedsFault
<1>1. Init => FallbackInv
  BY FallbackInvInit, FallbackAssumption
<1>2. FallbackInv /\ [Next]_vars => FallbackInv'
  BY FallbackInvStep, FallbackAssumption
<1>3. FallbackInv => LossNeedsFault
  BY DEF FallbackInv, LossNeedsFault, Explained
<1> QED  BY <1>1, <1>2, <1>3, PTL DEF Spec

-----------------------------------------------------------------------------
\* The rate limit: all of the following is about RateLimit.

\* Besides the calls of the counter there is, the last ticks saw at most those
\* of the one before it.  A counter with ttl ticks to live has existed for
\* WindowLen - ttl ticks, in which nobody used another.
Recent ==
  \A k \in Ages :
    /\ recent[k] <= taken + Limit + rateFaults
    /\ ttl \in Nat /\ k < WindowLen - ttl => recent[k] <= taken + rateFaults

\* The counter counts every call it lets through.
RateInv == RateTypeOK /\ WindowBound /\ taken <= count /\ ExpiryPending /\ Recent

LEMMA RateInvInit == RateInit => RateInv
BY RateAssumption DEF RateInit, RateInv, RateTypeOK, WindowBound, ExpiryPending, Recent, Ages

LEMMA RateTypeStep ==
  ASSUME RateTypeOK, [RateNext]_rateVars
  PROVE  RateTypeOK'
<1> USE RateAssumption DEF RateTypeOK
<1>0. /\ \A t \in Threads, step \in {"get", "incr", "expire"} :
            Goto(t, step) => pc' \in [Threads -> {"get", "incr", "expire"}]
      /\ LetThrough => recent' \in [Ages -> Nat]
      /\ Fault => rateFaults' \in 0..MaxRateFaults
  BY DEF Goto, Fault, LetThrough
<1>1. ASSUME NEW t \in Threads, Get(t) \/ GetFails(t) \/ Crash(t) \/ ExpireFails(t)
      PROVE  RateTypeOK'
  BY <1>0, <1>1 DEF Get, GetFails, Crash, ExpireFails
<1>2. ASSUME NEW t \in Threads, Incr(t) \/ IncrFails(t) \/ TakeInMemory(t)
      PROVE  RateTypeOK'
  <2>1. CASE Incr(t)
    BY <1>0, <2>1 DEF Incr
  <2>2. CASE IncrFails(t)
    BY <1>0, <2>2 DEF IncrFails
  <2>3. CASE TakeInMemory(t)
    BY <1>0, <2>3 DEF TakeInMemory
  <2> QED  BY <1>2, <2>1, <2>2, <2>3
<1>3. ASSUME NEW t \in Threads, Expire(t)  PROVE RateTypeOK'
  BY <1>0, <1>3 DEF Expire
<1>4. CASE Tick
  <2>1. recent' \in [Ages -> Nat]
    BY <1>4 DEF Tick, Ages
  <2> QED  BY <1>4, <2>1 DEF Tick
<1>5. CASE UNCHANGED rateVars
  BY <1>5 DEF rateVars
<1> QED  BY <1>1, <1>2, <1>3, <1>4, <1>5 DEF RateNext

\* Time takes calls out of sight before it takes the counter away.
LEMMA RecentStep ==
  ASSUME RateTypeOK, WindowBound, Recent, [RateNext]_rateVars
  PROVE  Recent'
<1> USE RateAssumption DEF RateTypeOK, WindowBound, Recent
<1>1. ASSUME NEW t \in Threads, Get(t) \/ GetFails(t) \/ Crash(t) \/ ExpireFails(t)
      PROVE  Recent'
  BY <1>1 DEF Get, GetFails, Crash, ExpireFails, Fault
<1>2. ASSUME NEW t \in Threads, Incr(t)  PROVE Recent'
  BY <1>2 DEF Incr, LetThrough
<1>3. ASSUME NEW t \in Threads, IncrFails(t)  PROVE Recent'
  BY <1>3 DEF IncrFails, LetThrough, Fault
<1>4. ASSUME NEW t \in Threads, TakeInMemory(t)  PROVE Recent'
  BY <1>4 DEF TakeInMemory, LetThrough
<1>5. ASSUME NEW t \in Threads, Expire(t)  PROVE Recent'
  BY <1>5 DEF Expire, Ages
<1>6. CASE Tick
  <2> SUFFICES ASSUME NEW k \in Ages
               PROVE  /\ recent'[k] <= taken' + Limit + rateFaults
                      /\ ttl' \in Nat /\ k < WindowLen - ttl' => recent'[k] <= taken' + rateFaults
    BY <1>6 DEF Tick
  <2>1. CASE k = 0
    BY <1>6, <2>1 DEF Tick
  <2>2. CASE k # 0
    <3>1. k - 1 \in Ages /\ recent'[k] = recent[k - 1]
      BY <1>6, <2>2 DEF Tick, Ages
    <3>2. /\ recent[k - 1] <= taken + Limit + rateFaults
          /\ ttl \in Nat /\ k - 1 < WindowLen - ttl => recent[k - 1] <= taken + rateFaults
      BY <3>1
    <3>3. CASE ttl = NoTTL /\ UNCHANGED <<count, ttl, taken>>
      BY <3>1, <3>2, <3>3
    <3>4. CASE ttl = 1 /\ ttl' = NoTTL /\ taken' = 0
      BY <3>1, <3>2, <3>4 DEF Ages
    <3>5. CASE ttl \in 2..WindowLen /\ ttl' = ttl - 1 /\ UNCHANGED <<count, taken>>
      BY <3>1, <3>2, <3>5 DEF Ages
    <3> QED  BY <1>6, <3>3, <3>4, <3>5 DEF Tick
  <2> QED  BY <2>1, <2>2
<1>7. CASE UNCHANGED rateVars
  BY <1>7 DEF rateVars
<1> QED  BY <1>1, <1>2, <1>3, <1>4, <1>5, <1>6, <1>7 DEF RateNext

LEMMA RateInvStep == RateInv /\ [RateNext]_rateVars => RateInv'
<1> SUFFICES ASSUME RateInv, [RateNext]_rateVars  PROVE RateInv'
  OBVIOUS
<1> USE RateAssumption DEF RateTypeOK
<1>1. RateTypeOK /\ RateTypeOK' /\ Recent'
  BY RateTypeStep, RecentStep DEF RateInv
<1> USE DEF RateInv, WindowBound, ExpiryPending
<1>2. ASSUME NEW t \in Threads, Get(t) \/ GetFails(t) \/ Crash(t) \/ ExpireFails(t)
      PROVE  RateInv'
  BY <1>1, <1>2 DEF Get, GetFails, Crash, ExpireFails, Goto, Fault
<1>3. ASSUME NEW t \in Threads, Incr(t)  PROVE RateInv'
  BY <1>1, <1>3 DEF Incr, Goto
<1>4. ASSUME NEW t \in Threads, IncrFails(t) \/ TakeInMemory(t) \/ Expire(t)
      PROVE  RateInv'
  <2>1. CASE IncrFails(t)
    BY <1>1, <2>1 DEF IncrFails, Goto, Fault
  <2>2. CASE TakeInMemory(t)
    BY <1>1, <2>2 DEF TakeInMemory
  <2>3. CASE Expire(t)
    BY <1>1, <2>3 DEF Expire, Goto
  <2> QED  BY <1>4, <2>1, <2>2, <2>3
<1>5. CASE Tick
  BY <1>1, <1>5 DEF Tick
<1>6. CASE UNCHANGED rateVars
  BY <1>1, <1>6 DEF rateVars
<1> QED  BY <1>2, <1>3, <1>4, <1>5, <1>6 DEF RateNext

LEMMA RateInvHolds == RateSpec => []RateInv
BY RateInvInit, RateInvStep, PTL DEF RateSpec

\* The counter, its time to live and the window keep their types.
THEOREM RateTypeCorrect == RateSpec => []RateTypeOK
<1>1. RateInv => RateTypeOK
  BY DEF RateInv
<1> QED  BY <1>1, RateInvHolds, PTL

\* Whatever goroutines race between GET and INCR, one counter lets at most
\* Limit calls through.
THEOREM LimitHolds == RateSpec => []WindowBound
<1>1. RateInv => WindowBound
  BY DEF RateInv
<1> QED  BY <1>1, RateInvHolds, PTL

\* The last minute sees at most two windows, and one call more for each fault.
THEOREM TwoWindows == RateSpec => []SlidingBound
<1>1. RateInv => SlidingBound
  BY RateAssumption DEF RateInv, Recent, Ages, SlidingBound, WindowBound, RateTypeOK
<1> QED  BY <1>1, RateInvHolds, PTL

\* As long as nothing fails, every counter gets its time to live.
THEOREM WindowsEnd == RateSpec => []ExpiryPending
<1>1. RateInv => ExpiryPending
  BY DEF RateInv
<1> QED  BY <1>1, RateInvHolds, PTL
=============================================================================
