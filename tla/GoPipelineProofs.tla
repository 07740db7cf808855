-------------------------- MODULE GoPipelineProofs --------------------------
(***************************************************************************)
(* Theorems about GoPipeline, for every set of workers, messages, jobs,    *)
(* groups and accounts and every value of the limits.                      *)
(***************************************************************************)
EXTENDS GoPipeline, FiniteSetTheorems, TLAPS

-----------------------------------------------------------------------------
(* The inductive invariant.                                                *)

Has(w, j) == j \in marked[w] \/ j \in buffer[w][ChatOf[j]] \/ j \in picked[w] \/ Tasked(w, j)

\* A buffer holds jobs of its group only.
BufferFits == \A w \in Workers, c \in Chats, j \in Jobs : j \in buffer[w][c] => ChatOf[j] = c

UniqueInQueue == \A i, k \in DOMAIN queue : queue[i] = queue[k] => i = k

\* At one worker a job is in one of the four places.
Apart(w, j) ==
  /\ j \in marked[w] => j \notin buffer[w][ChatOf[j]] /\ j \notin picked[w] /\ ~Tasked(w, j)
  /\ j \in buffer[w][ChatOf[j]] => j \notin picked[w] /\ ~Tasked(w, j)
  /\ j \in picked[w] => ~Tasked(w, j)

OneStage == \A w \in Workers, j \in Jobs : Apart(w, j)

\* It is at one worker, or in the queue.
OneHolder == \A w \in Workers, j \in Jobs :
  Has(w, j) => ~Queued(j) /\ \A v \in Workers : v # w => ~Has(v, j)

\* Only jobs that have come into being are anywhere.
JobsReceived == \A j \in Jobs : Pending(j) => j \in received

Place == BufferFits /\ UniqueInQueue /\ OneStage /\ OneHolder /\ JobsReceived

\* The task has not sent anything yet.
Unsent == {"choose", "rule2", "sem", "send", "typing", "simulate"}

\* A reply goes out at the end of a job's way.
Unposted ==
  /\ \A j \in Jobs : j \notin received \/ Queued(j) => posted[j] = 0
  /\ \A w \in Workers, j \in Jobs :
       j \in marked[w] \/ j \in buffer[w][ChatOf[j]] \/ j \in picked[w]
         \/ task[w][j].pc \in Unsent => posted[j] = 0

Inv == TypeOK /\ Place /\ Unposted

-----------------------------------------------------------------------------
(* Lemmas about the operators of the model.                                *)

LEMMA PlacesOf ==
  ASSUME NEW w, NEW j
  PROVE  /\ Places(w, j) \subseteq {"marked", "buffer", "picked", "task"}
         /\ "marked" \in Places(w, j) <=> j \in marked[w]
         /\ "buffer" \in Places(w, j) <=> j \in buffer[w][ChatOf[j]]
         /\ "picked" \in Places(w, j) <=> j \in picked[w]
         /\ "task" \in Places(w, j) <=> Tasked(w, j)
         /\ Places(w, j) # {} <=> Has(w, j)
BY DEF Places, Has

LEMMA PendingOf ==
  ASSUME NEW j \in Jobs
  PROVE  Pending(j) <=> Queued(j) \/ \E w \in Workers : Has(w, j)
BY PlacesOf DEF Pending

LEMMA PlaceIsOne ==
  ASSUME OneStage, OneHolder, UniqueInQueue
  PROVE  OnePlace
<1>1. ASSUME NEW j \in Jobs, NEW w \in Workers, NEW p \in Places(w, j), NEW q \in Places(w, j)
      PROVE  p = q
  BY <1>1, PlacesOf DEF OneStage, Apart
<1>2. ASSUME NEW j \in Jobs, NEW w \in Workers
      PROVE  /\ Queued(j) => Places(w, j) = {}
             /\ \A v \in Workers : v # w => Places(w, j) = {} \/ Places(v, j) = {}
  BY <1>2, PlacesOf DEF OneHolder
<1> QED  BY <1>1, <1>2 DEF OnePlace, UniqueInQueue

\* What the queue holds after RPUSH and after BLPOP.
LEMMA QueueAppend ==
  ASSUME queue \in Seq(Jobs), NEW j \in Jobs, queue' = Append(queue, j)
  PROVE  /\ DOMAIN queue' = DOMAIN queue \cup {Len(queue) + 1}
         /\ Len(queue) + 1 \notin DOMAIN queue
         /\ \A i \in DOMAIN queue : queue'[i] = queue[i]
         /\ queue'[Len(queue) + 1] = j
OBVIOUS

LEMMA AppendPlace ==
  ASSUME queue \in Seq(Jobs), NEW j \in Jobs, queue' = Append(queue, j),
         UniqueInQueue, ~Queued(j)
  PROVE  UniqueInQueue' /\ \A n \in Jobs : Queued(n)' <=> Queued(n) \/ n = j
BY QueueAppend DEF UniqueInQueue, Queued

LEMMA QueueTail ==
  ASSUME queue \in Seq(Jobs), queue # <<>>, queue' = Tail(queue)
  PROVE  /\ 1 \in DOMAIN queue /\ Head(queue) = queue[1] /\ Head(queue) \in Jobs
         /\ queue' \in Seq(Jobs)
         /\ \A i \in DOMAIN queue' : /\ i \in Nat /\ i + 1 # 1
                                     /\ i + 1 \in DOMAIN queue
                                     /\ queue'[i] = queue[i + 1]
OBVIOUS

LEMMA TailPlace ==
  ASSUME queue \in Seq(Jobs), queue # <<>>, queue' = Tail(queue), UniqueInQueue,
         NEW j \in Jobs, j = Head(queue)
  PROVE  /\ UniqueInQueue' /\ Queued(j) /\ ~Queued(j)'
         /\ \A n \in Jobs : Queued(n)' => Queued(n)
<1>1. \A i, k \in DOMAIN queue' : queue'[i] = queue'[k] => i = k
  <2> SUFFICES ASSUME NEW i \in DOMAIN queue', NEW k \in DOMAIN queue', queue'[i] = queue'[k]
               PROVE  i = k
    OBVIOUS
  <2>1. i \in Nat /\ k \in Nat /\ i + 1 \in DOMAIN queue /\ k + 1 \in DOMAIN queue
        /\ queue[i + 1] = queue[k + 1]
    BY QueueTail
  <2>2. i + 1 = k + 1
    BY <2>1 DEF UniqueInQueue
  <2> QED  BY <2>1, <2>2
<1>2. Queued(j) /\ \A n \in Jobs : Queued(n)' => Queued(n)
  BY QueueTail DEF Queued
<1>3. ~Queued(j)'
  <2> SUFFICES ASSUME NEW i \in DOMAIN queue', queue'[i] = j  PROVE FALSE
    BY DEF Queued
  <2> QED  BY QueueTail DEF UniqueInQueue
<1> QED  BY <1>1, <1>2, <1>3 DEF UniqueInQueue

\* The updates of a task leave tasks everywhere.
LEMMA TaskUpdates ==
  ASSUME TypeOK, NEW w \in Workers, NEW j \in Jobs,
         \/ EndTask(w, j)
         \/ task[w][j].pc \notin {"none", "choose"} /\
              \E pc \in Running \cup {"rule2", "sem"} : Goto(w, j, pc)
         \/ task[w][j].pc = "none" /\ Goto(w, j, "choose")
         \/ \E s \in Sessions : task' = [task EXCEPT ![w][j] = [pc |-> "rule2", acc |-> s]]
  PROVE  task' \in [Workers -> [Jobs -> Tasks]]
<1>1. task[w][j] \in Tasks /\ task \in [Workers -> [Jobs -> Tasks]]
  BY DEF TypeOK
<1>2. CASE EndTask(w, j)
  <2>1. NoTask \in Tasks
    BY DEF NoTask, Tasks
  <2> QED  BY <1>1, <1>2, <2>1 DEF EndTask
<1>3. ASSUME task[w][j].pc \notin {"none", "choose"},
             NEW pc \in Running \cup {"rule2", "sem"}, Goto(w, j, pc)
      PROVE  task' \in [Workers -> [Jobs -> Tasks]]
  <2>1. [task[w][j] EXCEPT !.pc = pc] \in Tasks
    BY <1>1, <1>3 DEF Tasks
  <2> QED  BY <1>1, <1>3, <2>1 DEF Goto
<1>4. CASE task[w][j].pc = "none" /\ Goto(w, j, "choose")
  <2>1. [task[w][j] EXCEPT !.pc = "choose"] \in Tasks
    BY <1>1, <1>4 DEF Tasks, Running
  <2> QED  BY <1>1, <1>4, <2>1 DEF Goto
<1>5. ASSUME NEW s \in Sessions, task' = [task EXCEPT ![w][j] = [pc |-> "rule2", acc |-> s]]
      PROVE  task' \in [Workers -> [Jobs -> Tasks]]
  <2>1. [pc |-> "rule2", acc |-> s] \in Tasks
    BY DEF Tasks
  <2> QED  BY <1>1, <1>5, <2>1
<1> QED  BY <1>2, <1>3, <1>4, <1>5

LEMMA CounterUpdate ==
  ASSUME NEW f \in [Chats -> [Sessions -> Nat]], NEW c \in Chats, NEW s, NEW n,
         s \in Sessions => n \in Nat
  PROVE  [f EXCEPT ![c][s] = n] \in [Chats -> [Sessions -> Nat]]
<1>1. [f[c] EXCEPT ![s] = n] \in [Sessions -> Nat]
  OBVIOUS
<1> QED  BY <1>1

-----------------------------------------------------------------------------
(* One place for each job.                                                 *)

\* A step that hands no job on may still lose some.
NoNewPlaces ==
  /\ received' = received
  /\ \A n \in Jobs : Queued(n)' => Queued(n)
  /\ UniqueInQueue => UniqueInQueue'
  /\ \A w \in Workers :
       /\ marked'[w] \subseteq marked[w] /\ picked'[w] \subseteq picked[w]
       /\ \A c \in Chats : buffer'[w][c] \subseteq buffer[w][c]
       /\ \A j \in Jobs : Tasked(w, j)' => Tasked(w, j)

\* What holds after a step that hands at most job j on.
Handed == Place' /\ received' = received /\ \A n \in Jobs : Pending(n)' => Pending(n)

\* The places of the next state.
LEMMA PendingNext ==
  ASSUME NEW j \in Jobs
  PROVE  Pending(j)' <=> Queued(j)' \/ \E w \in Workers : Has(w, j)'
<1>1. \A w \in Workers : (Places(w, j) # {})' <=> Has(w, j)'
  BY DEF Places, Has
<1> QED  BY <1>1 DEF Pending

\* Place holds again when jobs are at no more places than before.
LEMMA LosingKeepsPlace ==
  ASSUME Inv, NoNewPlaces
  PROVE  Handed
<1>1. \A w \in Workers, j \in Jobs : buffer'[w][ChatOf[j]] \subseteq buffer[w][ChatOf[j]]
  BY GoAssumption DEF NoNewPlaces
<1>2. \A w \in Workers, j \in Jobs : Has(w, j)' => Has(w, j)
  BY <1>1 DEF NoNewPlaces, Has
<1>3. \A j \in Jobs : Pending(j)' => Pending(j)
  BY <1>2, PendingOf, PendingNext DEF NoNewPlaces
<1>4. BufferFits' /\ UniqueInQueue'
  BY DEF NoNewPlaces, BufferFits, Inv, Place
<1>5. OneStage'
  BY <1>1 DEF NoNewPlaces, OneStage, Apart, Inv, Place
<1>6. OneHolder'
  BY <1>2 DEF NoNewPlaces, OneHolder, Inv, Place
<1>7. JobsReceived'
  BY <1>3 DEF NoNewPlaces, JobsReceived, Inv, Place
<1> QED  BY <1>3, <1>4, <1>5, <1>6, <1>7 DEF Place, Handed, NoNewPlaces

\* The handler takes a job in, with Redis or with its memory.
Takes(w, j) == MarkSeen(w, j) \/ MarkFails(w, j)

LEMMA TakesJob ==
  ASSUME TypeOK, NEW w \in Workers, NEW j \in Jobs, Takes(w, j)
  PROVE  /\ UNCHANGED <<queue, activeConsumer, texts, counter, accounts, up, buffer, picked, loop,
                        task, cache, posted, flushed, kept>>
         /\ j \notin received /\ received' = received \cup {j}
         /\ marked' = [marked EXCEPT ![w] = @ \cup {j}]
         /\ \A v \in Workers : marked'[v] = IF v = w THEN marked[v] \cup {j} ELSE marked[v]
<1>1. /\ UNCHANGED <<queue, activeConsumer, texts, counter, accounts, up, buffer, picked, loop,
                     task, cache, posted, flushed, kept>>
      /\ Receive(w, j)
  BY DEF Takes, MarkSeen, MarkFails, process
<1> QED  BY <1>1 DEF Receive, TypeOK

\* A new job is at no place yet.
LEMMA MarkKeepsPlace ==
  ASSUME Inv, NEW w \in Workers, NEW j \in Jobs, Takes(w, j)
  PROVE  /\ Place' /\ Pending(j)'
         /\ \A n \in Jobs \ {j} : Pending(n)' <=> Pending(n)
<1>1. /\ UNCHANGED <<queue, buffer, picked, task>>
      /\ \A v \in Workers : marked'[v] = IF v = w THEN marked[v] \cup {j} ELSE marked[v]
      /\ received' = received \cup {j} /\ j \notin received
  BY TakesJob DEF Inv
<1>2. ~Queued(j) /\ \A v \in Workers : ~Has(v, j)
  BY <1>1, PendingOf DEF Inv, Place, JobsReceived
<1>3. \A v \in Workers, n \in Jobs : Has(v, n)' <=> Has(v, n) \/ (v = w /\ n = j)
  BY <1>1 DEF Has, Tasked
<1>4. \A n \in Jobs : Queued(n)' <=> Queued(n)
  BY <1>1 DEF Queued
<1>5. \A n \in Jobs : Pending(n)' <=> Pending(n) \/ n = j
  BY <1>3, <1>4, PendingOf, PendingNext
<1>6. BufferFits' /\ UniqueInQueue'
  BY <1>1 DEF Inv, Place, BufferFits, UniqueInQueue
<1>7. OneStage'
  <2> SUFFICES ASSUME NEW v \in Workers, NEW n \in Jobs
               PROVE  Apart(v, n)'
    BY DEF OneStage
  <2>1. Apart(v, n)
    BY DEF Inv, Place, OneStage
  <2>2. CASE n = j
    BY <1>1, <1>2, <2>2 DEF Apart, Has, Tasked
  <2>3. CASE n # j
    BY <1>1, <2>1, <2>3 DEF Apart, Tasked
  <2> QED  BY <2>2, <2>3
<1>8. OneHolder'
  BY <1>2, <1>3, <1>4 DEF Inv, Place, OneHolder
<1>9. JobsReceived'
  BY <1>1, <1>5 DEF Inv, Place, JobsReceived
<1> QED  BY <1>5, <1>6, <1>7, <1>8, <1>9 DEF Place

\* Nor is a job that a repeated RPUSH puts into the queue.
LEMMA RepeatKeepsPlace ==
  ASSUME Inv, NEW w \in Workers, NEW i \in Jobs, NEW j \in Jobs, RepeatPush(w, i, j)
  PROVE  /\ Place' /\ Pending(j)'
         /\ \A n \in Jobs \ {j} : Pending(n)' <=> Pending(n)
<1>1. /\ UNCHANGED <<marked, buffer, picked, task>>
      /\ queue' = Append(queue, j) /\ queue \in Seq(Jobs)
      /\ received' = received \cup {j} /\ j \notin received
  BY DEF RepeatPush, local, Inv, TypeOK
<1>2. ~Queued(j) /\ \A v \in Workers : ~Has(v, j)
  BY <1>1, PendingOf DEF Inv, Place, JobsReceived
<1>3. \A v \in Workers, n \in Jobs : Has(v, n)' <=> Has(v, n)
  BY <1>1 DEF Has, Tasked
<1>4. UniqueInQueue' /\ \A n \in Jobs : Queued(n)' <=> Queued(n) \/ n = j
  BY <1>1, <1>2, AppendPlace DEF Inv, Place
<1>5. \A n \in Jobs : Pending(n)' <=> Pending(n) \/ n = j
  BY <1>3, <1>4, PendingOf, PendingNext
<1>6. BufferFits' /\ OneStage'
  BY <1>1 DEF Inv, Place, BufferFits, OneStage, Apart, Tasked
<1>7. OneHolder'
  BY <1>2, <1>3, <1>4 DEF Inv, Place, OneHolder
<1>8. JobsReceived'
  BY <1>1, <1>5 DEF Inv, Place, JobsReceived
<1> QED  BY <1>4, <1>5, <1>6, <1>7, <1>8 DEF Place

\* From the handler to the buffer, with other jobs at a fixed place.
LEMMA AddKeepsPlace ==
  ASSUME Inv, NEW w \in Workers, NEW j \in Jobs, AddToBuffer(w, j)
  PROVE  Handed
<1>1. /\ received' = received /\ queue' = queue /\ picked' = picked /\ task' = task
      /\ j \in marked[w]
      /\ \A v \in Workers, n \in Jobs :
           n \in marked'[v] => n \in marked[v] /\ (v = w => n # j)
      /\ \A v \in Workers, c \in Chats : \A n \in buffer'[v][c] :
           n \in buffer[v][c] \/ (v = w /\ c = ChatOf[j] /\ n = j)
  BY GoAssumption DEF AddToBuffer, redis, history, jobs, Inv, TypeOK
<1>2. \A v \in Workers, n \in Jobs :
        n \in buffer'[v][ChatOf[n]] => n \in buffer[v][ChatOf[n]] \/ (v = w /\ n = j)
  BY <1>1, GoAssumption
<1>3. ASSUME NEW v \in Workers, NEW n \in Jobs, Has(v, n)'  PROVE Has(v, n)
  <2>1. Has(w, j)
    BY <1>1 DEF Has
  <2>2. CASE v = w /\ n = j
    BY <2>1, <2>2
  <2>3. CASE v # w \/ n # j
    <3>1. n \in marked'[v] => n \in marked[v]
      BY <1>1
    <3>2. n \in picked'[v] <=> n \in picked[v]
      BY <1>1
    <3>3. Tasked(v, n)' <=> Tasked(v, n)
      BY <1>1 DEF Tasked
    <3>4. n \in buffer'[v][ChatOf[n]] => n \in buffer[v][ChatOf[n]]
      BY <1>2, <2>3
    <3> QED  BY <1>3, <3>1, <3>2, <3>3, <3>4 DEF Has
  <2> QED  BY <2>2, <2>3
<1>4. \A n \in Jobs : Queued(n)' <=> Queued(n)
  BY <1>1 DEF Queued
<1>5. \A n \in Jobs : Pending(n)' => Pending(n)
  BY <1>3, <1>4, PendingOf, PendingNext
<1>6. BufferFits' /\ UniqueInQueue'
  <2>1. ASSUME NEW v \in Workers, NEW c \in Chats, NEW n \in Jobs, n \in buffer'[v][c]
        PROVE  ChatOf[n] = c
    BY <1>1, <2>1 DEF Inv, Place, BufferFits
  <2> QED  BY <1>1, <2>1 DEF Inv, Place, BufferFits, UniqueInQueue
<1>7. OneStage'
  <2> SUFFICES ASSUME NEW v \in Workers, NEW n \in Jobs
               PROVE  Apart(v, n)'
    BY DEF OneStage
  <2>1. Apart(v, n)
    BY DEF Inv, Place, OneStage
  <2>2. n \in marked'[v] => n \in marked[v] /\ (v = w => n # j)
    BY <1>1
  <2>3. n \in buffer'[v][ChatOf[n]] => n \in buffer[v][ChatOf[n]] \/ (v = w /\ n = j)
    BY <1>2
  <2>4. n \in picked'[v] <=> n \in picked[v]
    BY <1>1
  <2>5. Tasked(v, n)' <=> Tasked(v, n)
    BY <1>1 DEF Tasked
  <2> QED  BY <1>1, <2>1, <2>2, <2>3, <2>4, <2>5 DEF Apart
<1>8. OneHolder'
  BY <1>3, <1>4 DEF Inv, Place, OneHolder
<1>9. JobsReceived'
  BY <1>1, <1>5 DEF Inv, Place, JobsReceived
<1> QED  BY <1>1, <1>5, <1>6, <1>7, <1>8, <1>9 DEF Place, Handed

\* From the buffer to the flush.
LEMMA FlushKeepsPlace ==
  ASSUME Inv, NEW w \in Workers, NEW d \in Chats, Flush(w, d)
  PROVE  Handed
<1>1. PICK S \in SUBSET buffer[w][d] : picked' = [picked EXCEPT ![w] = @ \cup S]
  BY DEF Flush
<1>2. /\ UNCHANGED <<received, queue, marked, task>>
      /\ \A v \in Workers : picked'[v] = IF v = w THEN picked[v] \cup S ELSE picked[v]
      /\ \A v \in Workers, c \in Chats :
           buffer'[v][c] = IF v = w /\ c = d THEN {} ELSE buffer[v][c]
  BY <1>1 DEF Flush, redis, history, jobs, Inv, TypeOK
<1>3. \A n \in S : n \in Jobs /\ ChatOf[n] = d /\ n \in buffer[w][ChatOf[n]]
  BY DEF Inv, Place, BufferFits, TypeOK
<1>4. \A v \in Workers, n \in Jobs :
        buffer'[v][ChatOf[n]] = IF v = w /\ ChatOf[n] = d THEN {} ELSE buffer[v][ChatOf[n]]
  BY <1>2, GoAssumption
<1>5. ASSUME NEW v \in Workers, NEW n \in Jobs, Has(v, n)'  PROVE Has(v, n)
  BY <1>2, <1>3, <1>4, <1>5 DEF Has, Tasked
<1>6. \A n \in Jobs : Queued(n)' <=> Queued(n)
  BY <1>2 DEF Queued
<1>7. \A n \in Jobs : Pending(n)' => Pending(n)
  BY <1>5, <1>6, PendingOf, PendingNext
<1>8. BufferFits' /\ UniqueInQueue'
  BY <1>2 DEF Inv, Place, BufferFits, UniqueInQueue
<1>9. OneStage'
  <2> SUFFICES ASSUME NEW v \in Workers, NEW n \in Jobs
               PROVE  Apart(v, n)'
    BY DEF OneStage
  <2>1. Apart(v, n)
    BY DEF Inv, Place, OneStage
  <2>2. n \in S => n \in buffer[w][ChatOf[n]] /\ ChatOf[n] = d
    BY <1>3
  <2> QED  BY <1>2, <1>4, <2>1, <2>2 DEF Apart, Tasked
<1>10. OneHolder'
  BY <1>5, <1>6 DEF Inv, Place, OneHolder
<1>11. JobsReceived'
  BY <1>2, <1>7 DEF Inv, Place, JobsReceived
<1> QED  BY <1>2, <1>7, <1>8, <1>9, <1>10, <1>11 DEF Place, Handed

\* From the flush to the queue.
LEMMA EnqueueKeepsPlace ==
  ASSUME Inv, NEW w \in Workers, NEW j \in Jobs, Enqueue(w, j)
  PROVE  Handed
<1>1. /\ UNCHANGED <<received, marked, buffer, task>> /\ j \in picked[w]
      /\ \A v \in Workers : picked'[v] = IF v = w THEN picked[v] \ {j} ELSE picked[v]
      /\ queue' = Append(queue, j) /\ queue \in Seq(Jobs)
  BY DEF Enqueue, history, jobs, Inv, TypeOK
<1>2. Has(w, j) /\ ~Queued(j) /\ \A v \in Workers : v # w => ~Has(v, j)
  BY <1>1 DEF Has, Inv, Place, OneHolder
<1>3. UniqueInQueue' /\ \A n \in Jobs : Queued(n)' <=> Queued(n) \/ n = j
  BY <1>1, <1>2, AppendPlace DEF Inv, Place
<1>4. \A v \in Workers, n \in Jobs : Has(v, n)' => Has(v, n) /\ (v # w \/ n # j)
  BY <1>1 DEF Has, Tasked, Inv, Place, OneStage, Apart
<1>5. \A n \in Jobs : Pending(n)' => Pending(n)
  BY <1>2, <1>3, <1>4, PendingOf, PendingNext
<1>6. BufferFits'
  BY <1>1 DEF Inv, Place, BufferFits
<1>7. OneStage'
  BY <1>1 DEF Inv, Place, OneStage, Apart, Tasked
<1>8. OneHolder'
  BY <1>2, <1>3, <1>4 DEF Inv, Place, OneHolder
<1>9. JobsReceived'
  BY <1>1, <1>5 DEF Inv, Place, JobsReceived
<1> QED  BY <1>1, <1>3, <1>5, <1>6, <1>7, <1>8, <1>9 DEF Place, Handed

\* From the queue to a goroutine.
LEMMA PopKeepsPlace ==
  ASSUME Inv, NEW w \in Workers, Pop(w)
  PROVE  Handed
<1>0. PICK j \in Jobs : j = Head(queue)
  BY QueueTail DEF Pop, Inv, TypeOK
<1>1. /\ UNCHANGED <<received, marked, buffer, picked>>
      /\ queue' = Tail(queue) /\ queue \in Seq(Jobs) /\ queue # <<>>
  BY DEF Pop, history, jobs, Inv, TypeOK
<1>2. \A v \in Workers, n \in Jobs : v # w \/ n # j => task'[v][n] = task[v][n]
  BY <1>0, <1>1 DEF Pop, Goto, Inv, TypeOK
<1>3. /\ UniqueInQueue' /\ Queued(j) /\ ~Queued(j)'
      /\ \A n \in Jobs : Queued(n)' => Queued(n)
  BY <1>0, <1>1, TailPlace DEF Inv, Place
<1>4. \A v \in Workers : ~Has(v, j)
  BY <1>1, <1>3 DEF Inv, Place, OneHolder
<1>5. \A v \in Workers, n \in Jobs : Tasked(v, n)' => Tasked(v, n) \/ (v = w /\ n = j)
  BY <1>2 DEF Tasked
<1>6. \A v \in Workers, n \in Jobs : Has(v, n)' => Has(v, n) \/ (v = w /\ n = j)
  BY <1>1, <1>5 DEF Has
<1>7. \A n \in Jobs : Pending(n)' => Pending(n)
  BY <1>1, <1>3, <1>6, PendingOf, PendingNext
<1>8. BufferFits'
  BY <1>1 DEF Inv, Place, BufferFits
<1>9. OneStage'
  BY <1>1, <1>4, <1>5 DEF Inv, Place, OneStage, Apart, Has
<1>10. OneHolder'
  BY <1>1, <1>3, <1>4, <1>6 DEF Inv, Place, OneHolder
<1>11. JobsReceived'
  BY <1>1, <1>7 DEF Inv, Place, JobsReceived
<1> QED  BY <1>1, <1>3, <1>7, <1>8, <1>9, <1>10, <1>11 DEF Place, Handed

\* A step of a goroutine touches that goroutine only.
LEMMA TaskStepTouchesTask ==
  ASSUME Inv, NEW w \in Workers, NEW j \in Jobs, TaskStep(w, j)
  PROVE  /\ Tasked(w, j) /\ UNCHANGED <<received, queue, marked, buffer, picked>>
         /\ \A v \in Workers, n \in Jobs : v # w \/ n # j => task'[v][n] = task[v][n]
         /\ task'[w][j].pc \in Unsent => task[w][j].pc \in Unsent
         /\ posted' = posted \/ PostReply(w, j)
<1>1. Tasked(w, j) /\ UNCHANGED <<received, queue, marked, buffer, picked>>
  BY DEF TaskStep, ChooseAccount, CheckThreadReplies, AcquireSemaphore, StartTyping,
     SimulateReply, PostReply, ConfirmReply, FailReply, RecordSuccess, SkipThreadReplies, MiscountSuccess,
     Tasked, TaskAt, redis, history, jobs
<1>2. \/ EndTask(w, j)
      \/ \E s \in Sessions : task' = [task EXCEPT ![w][j] = [pc |-> "rule2", acc |-> s]]
      \/ \E pc : Goto(w, j, pc)
  <2>1. CASE ChooseAccount(w, j)
    BY <2>1, GoAssumption DEF ChooseAccount, Healthy
  <2>2. CASE ~ChooseAccount(w, j)
    <3>1. EndTask(w, j) \/ \E pc : Goto(w, j, pc)
      BY <2>2 DEF TaskStep, CheckThreadReplies, AcquireSemaphore, StartTyping, SimulateReply,
         PostReply, ConfirmReply, FailReply, RecordSuccess, SkipThreadReplies, MiscountSuccess
    <3> QED  BY <3>1
  <2> QED  BY <2>1, <2>2
<1>3. \A v \in Workers, n \in Jobs : v # w \/ n # j => task'[v][n] = task[v][n]
  BY <1>2 DEF EndTask, Goto, Inv, TypeOK
<1>4. task'[w][j].pc \in Unsent => task[w][j].pc \in Unsent
  <2> USE DEF Inv, TypeOK, Tasks, Unsent
  <2>1. CASE ChooseAccount(w, j) \/ CheckThreadReplies(w, j) \/ AcquireSemaphore(w, j)
             \/ StartTyping(w, j) \/ SimulateReply(w, j) \/ PostReply(w, j)
             \/ SkipThreadReplies(w, j)
    BY <2>1 DEF ChooseAccount, CheckThreadReplies, AcquireSemaphore, StartTyping, SimulateReply,
       PostReply, SkipThreadReplies, TaskAt
  <2>2. CASE ConfirmReply(w, j)
    BY <2>2 DEF ConfirmReply, Goto
  <2>3. CASE FailReply(w, j) \/ RecordSuccess(w, j) \/ MiscountSuccess(w, j)
    BY <2>3 DEF FailReply, RecordSuccess, MiscountSuccess, EndTask, NoTask
  <2> QED  BY <2>1, <2>2, <2>3 DEF TaskStep
<1>5. posted' = posted \/ PostReply(w, j)
  BY DEF TaskStep, ChooseAccount, CheckThreadReplies, AcquireSemaphore, StartTyping,
     SimulateReply, ConfirmReply, FailReply, RecordSuccess, SkipThreadReplies, MiscountSuccess, history
<1> QED  BY <1>1, <1>3, <1>4, <1>5

\* The steps that touch no place of a job but its end.
Quiet ==
  \/ \E w \in Workers :
       \/ CheckConsumer(w) \/ RefreshStatuses(w) \/ PopFails(w) \/ PopEmpty(w)
       \/ Crash(w) \/ Restart(w) \/ RotateConsumer(w)
       \/ \E j \in Jobs : EnqueueFails(w, j)
       \/ \E m \in Msgs : MarkAlone(w, m)
  \/ ChangeTexts
  \/ \E s \in Sessions : ChangeStatus(s) \/ RecoverAccount(s)
  \/ UNCHANGED vars

LEMMA QuietLoses ==
  ASSUME Inv, Quiet
  PROVE  /\ NoNewPlaces /\ posted' = posted
         /\ \A w \in Workers, j \in Jobs : task'[w][j].pc \in Unsent => task[w][j].pc \in Unsent
<1> USE DEF NoNewPlaces, Queued, UniqueInQueue, Tasked
<1>1. ASSUME NEW w \in Workers, CheckConsumer(w) \/ RefreshStatuses(w) \/ PopEmpty(w)
                                \/ Restart(w) \/ RotateConsumer(w)
      PROVE  UNCHANGED <<received, queue, marked, buffer, picked, task, posted>>
  BY <1>1 DEF CheckConsumer, RefreshStatuses, PopEmpty, Restart, RotateConsumer, redis, local, history, jobs
<1>2. ASSUME NEW s \in Sessions, ChangeStatus(s) \/ RecoverAccount(s)
      PROVE  UNCHANGED <<received, queue, marked, buffer, picked, task, posted>>
  BY <1>2 DEF ChangeStatus, RecoverAccount, redis, local, history, jobs
<1>3. ASSUME ChangeTexts
      PROVE  UNCHANGED <<received, queue, marked, buffer, picked, task, posted>>
  BY <1>3 DEF ChangeTexts, local, history, jobs
<1>4. ASSUME NEW w \in Workers, NEW m \in Msgs, MarkAlone(w, m)
      PROVE  UNCHANGED <<received, queue, marked, buffer, picked, task, posted>>
  BY <1>4 DEF MarkAlone, local
<1>5. ASSUME UNCHANGED vars
      PROVE  UNCHANGED <<received, queue, marked, buffer, picked, task, posted>>
  BY <1>5 DEF vars, redis, local, history, jobs
<1>6. ASSUME UNCHANGED <<received, queue, marked, buffer, picked, task, posted>>
      PROVE  /\ NoNewPlaces /\ posted' = posted
             /\ \A w \in Workers, j \in Jobs : task'[w][j].pc \in Unsent => task[w][j].pc \in Unsent
  BY <1>6
<1>7. ASSUME NEW w \in Workers, PopFails(w)
      PROVE  /\ NoNewPlaces /\ posted' = posted
             /\ \A v \in Workers, j \in Jobs : task'[v][j].pc \in Unsent => task[v][j].pc \in Unsent
  <2>1. queue \in Seq(Jobs) /\ queue # <<>> /\ queue' \in {queue, Tail(queue)}
        /\ UNCHANGED <<received, marked, buffer, picked, task, posted>>
    BY <1>7 DEF PopFails, Inv, TypeOK, history, jobs
  <2>2. (UniqueInQueue => UniqueInQueue') /\ \A n \in Jobs : Queued(n)' => Queued(n)
    BY <2>1, QueueTail, TailPlace
  <2> QED  BY <2>1, <2>2
<1>8. ASSUME NEW w \in Workers, NEW j \in Jobs, EnqueueFails(w, j)
      PROVE  /\ NoNewPlaces /\ posted' = posted
             /\ \A v \in Workers, n \in Jobs : task'[v][n].pc \in Unsent => task[v][n].pc \in Unsent
  BY <1>8 DEF EnqueueFails, redis, Inv, TypeOK
<1>9. ASSUME NEW w \in Workers, Crash(w)
      PROVE  /\ NoNewPlaces /\ posted' = posted
             /\ \A v \in Workers, j \in Jobs : task'[v][j].pc \in Unsent => task[v][j].pc \in Unsent
  <2>1. /\ UNCHANGED <<received, queue, posted>>
        /\ \A v \in Workers :
             /\ marked'[v] = IF v = w THEN {} ELSE marked[v]
             /\ picked'[v] = IF v = w THEN {} ELSE picked[v]
             /\ \A c \in Chats : buffer'[v][c] = IF v = w THEN {} ELSE buffer[v][c]
             /\ \A j \in Jobs : task'[v][j] = IF v = w THEN NoTask ELSE task[v][j]
    BY <1>9 DEF Crash, redis, history, jobs, Inv, TypeOK
  <2>2. NoTask.pc = "none" /\ NoTask.pc \notin Unsent
    BY DEF NoTask, Unsent
  <2> QED  BY <2>1, <2>2
<1> QED  BY <1>1, <1>2, <1>3, <1>4, <1>5, <1>6, <1>7, <1>8, <1>9 DEF Quiet

LEMMA StepKinds ==
  ASSUME [Next]_vars
  PROVE  \/ \E w \in Workers, j \in Jobs :
              Takes(w, j) \/ AddToBuffer(w, j) \/ Enqueue(w, j) \/ TaskStep(w, j)
         \/ \E w \in Workers, i, j \in Jobs : RepeatPush(w, i, j)
         \/ \E w \in Workers, c \in Chats : Flush(w, c)
         \/ \E w \in Workers : Pop(w)
         \/ Quiet
BY DEF Next, Takes, Handover, ConsumerStep, Quiet

\* A job comes into being.
TakesIn ==
  \E w \in Workers, j \in Jobs : Takes(w, j) \/ \E i \in Jobs : RepeatPush(w, i, j)

\* A step that takes no new job in only hands jobs on.
LEMMA StepHands ==
  ASSUME Inv, [Next]_vars, ~TakesIn
  PROVE  Handed
<1>1. ASSUME NEW w \in Workers, NEW j \in Jobs, TaskStep(w, j)  PROVE NoNewPlaces
  <2>1. /\ Tasked(w, j) /\ UNCHANGED <<received, queue, marked, buffer, picked>>
        /\ \A v \in Workers, n \in Jobs : v # w \/ n # j => task'[v][n] = task[v][n]
    BY <1>1, TaskStepTouchesTask
  <2> QED  BY <2>1 DEF NoNewPlaces, Queued, UniqueInQueue, Tasked
<1> QED  BY <1>1, StepKinds, QuietLoses, LosingKeepsPlace, AddKeepsPlace, FlushKeepsPlace,
            EnqueueKeepsPlace, PopKeepsPlace DEF TakesIn

LEMMA PlaceStep ==
  ASSUME Inv, [Next]_vars
  PROVE  Place'
BY MarkKeepsPlace, RepeatKeepsPlace, StepHands DEF Handed, TakesIn

-----------------------------------------------------------------------------
(* One reply.                                                              *)

\* A job is not answered before its goroutine sends the reply.
LEMMA UnpostedStep ==
  ASSUME Inv, [Next]_vars
  PROVE  Unposted'
<1> USE DEF Inv
<1>1. ASSUME NEW w \in Workers, NEW j \in Jobs, Takes(w, j)  PROVE Unposted'
  <2>1. /\ UNCHANGED <<queue, buffer, picked, task, posted>>
        /\ \A v \in Workers : marked'[v] \subseteq marked[v] \cup {j}
        /\ received' = received \cup {j} /\ j \notin received
    BY <1>1, TakesJob
  <2> QED  BY <2>1 DEF Unposted, Queued
<1>2. ASSUME NEW w \in Workers, NEW j \in Jobs, AddToBuffer(w, j)  PROVE Unposted'
  <2>1. /\ UNCHANGED <<received, queue, picked, task, posted>> /\ j \in marked[w]
        /\ \A v \in Workers : marked'[v] \subseteq marked[v]
        /\ \A v \in Workers, n \in Jobs : buffer'[v][ChatOf[n]] \subseteq buffer[v][ChatOf[n]] \cup {j}
    BY <1>2, GoAssumption DEF AddToBuffer, redis, history, jobs, TypeOK
  <2>2. ASSUME NEW v \in Workers, NEW n \in Jobs,
               n \in marked'[v] \/ n \in buffer'[v][ChatOf[n]] \/ n \in picked'[v]
                 \/ task'[v][n].pc \in Unsent
        PROVE  posted[n] = 0
    BY <2>1, <2>2 DEF Unposted
  <2> QED  BY <2>1, <2>2 DEF Unposted, Queued
<1>3. ASSUME NEW w \in Workers, NEW d \in Chats, Flush(w, d)  PROVE Unposted'
  <2>1. PICK S \in SUBSET buffer[w][d] : picked' = [picked EXCEPT ![w] = @ \cup S]
    BY <1>3 DEF Flush
  <2>2. \A n \in S : n \in buffer[w][ChatOf[n]] /\ n \in Jobs
    BY DEF Place, BufferFits, TypeOK
  <2>3. /\ UNCHANGED <<received, queue, marked, task, posted>>
        /\ \A v \in Workers : picked'[v] = IF v = w THEN picked[v] \cup S ELSE picked[v]
        /\ \A v \in Workers, n \in Jobs : buffer'[v][ChatOf[n]] \subseteq buffer[v][ChatOf[n]]
    BY <1>3, <2>1, GoAssumption DEF Flush, redis, jobs, TypeOK
  <2>4. ASSUME NEW v \in Workers, NEW n \in Jobs,
               n \in marked'[v] \/ n \in buffer'[v][ChatOf[n]] \/ n \in picked'[v]
                 \/ task'[v][n].pc \in Unsent
        PROVE  posted[n] = 0
    <3>1. n \in buffer[v][ChatOf[n]] \/ n \in marked[v] \/ n \in picked[v] \/ task[v][n].pc \in Unsent
      BY <2>2, <2>3, <2>4
    <3> QED  BY <3>1 DEF Unposted
  <2> QED  BY <2>3, <2>4 DEF Unposted, Queued
<1>4. ASSUME NEW w \in Workers, NEW j \in Jobs, Enqueue(w, j)  PROVE Unposted'
  <2>1. /\ UNCHANGED <<received, marked, buffer, task, posted>> /\ j \in picked[w]
        /\ \A v \in Workers : picked'[v] \subseteq picked[v]
        /\ queue' = Append(queue, j) /\ queue \in Seq(Jobs)
    BY <1>4 DEF Enqueue, history, jobs, TypeOK
  <2>2. \A n \in Jobs : Queued(n)' => Queued(n) \/ n = j
    BY <2>1, QueueAppend DEF Queued
  <2> QED  BY <2>1, <2>2 DEF Unposted
<1>5. ASSUME NEW w \in Workers, Pop(w)  PROVE Unposted'
  <2>0. PICK j \in Jobs : j = Head(queue)
    BY <1>5, QueueTail DEF Pop, TypeOK
  <2>1. /\ UNCHANGED <<received, marked, buffer, picked, posted>>
        /\ queue' = Tail(queue) /\ queue \in Seq(Jobs) /\ queue # <<>>
    BY <1>5 DEF Pop, history, jobs, TypeOK
  <2>2. \A v \in Workers, n \in Jobs : v # w \/ n # j => task'[v][n] = task[v][n]
    BY <1>5, <2>0, <2>1 DEF Pop, Goto, TypeOK
  <2>3. Queued(j) /\ \A n \in Jobs : Queued(n)' => Queued(n)
    BY <2>0, <2>1, TailPlace DEF Place
  <2> QED  BY <2>1, <2>2, <2>3 DEF Unposted
<1>6. ASSUME NEW w \in Workers, NEW j \in Jobs, TaskStep(w, j)  PROVE Unposted'
  <2>1. /\ Tasked(w, j) /\ UNCHANGED <<received, queue, marked, buffer, picked>>
        /\ \A v \in Workers, n \in Jobs : v # w \/ n # j => task'[v][n] = task[v][n]
        /\ task'[w][j].pc \in Unsent => task[w][j].pc \in Unsent
        /\ posted' = posted \/ PostReply(w, j)
    BY <1>6, TaskStepTouchesTask
  <2>2. \A v \in Workers, n \in Jobs : task'[v][n].pc \in Unsent => task[v][n].pc \in Unsent
    BY <2>1
  <2>3. CASE posted' = posted
    BY <2>1, <2>2, <2>3 DEF Unposted, Queued
  <2>4. CASE PostReply(w, j)
    <3>1. \A n \in Jobs : n # j => posted'[n] = posted[n]
      BY <2>4 DEF PostReply, TypeOK
    <3>2. Has(w, j) /\ ~Queued(j) /\ j \in received /\ \A v \in Workers : v # w => ~Has(v, j)
      BY <2>1, PendingOf DEF Has, Place, OneHolder, JobsReceived
    <3>3. /\ j \notin marked[w] /\ j \notin buffer[w][ChatOf[j]] /\ j \notin picked[w]
          /\ \A v \in Workers : v # w => /\ j \notin marked[v] /\ j \notin picked[v]
                                         /\ j \notin buffer[v][ChatOf[j]] /\ ~Tasked(v, j)
      BY <2>1, <3>2 DEF Has, Place, OneStage, Apart
    <3>4. task'[w][j].pc = "posted"
      BY <2>4 DEF PostReply, Goto, TypeOK, Tasks
    <3>5. \A v \in Workers : task'[v][j].pc \notin Unsent
      BY <2>1, <3>3, <3>4 DEF Tasked, Unsent
    <3> QED  BY <2>1, <2>2, <3>1, <3>2, <3>3, <3>5 DEF Unposted, Queued
  <2> QED  BY <2>1, <2>3, <2>4
<1>7. CASE Quiet
  <2>1. /\ NoNewPlaces /\ posted' = posted
        /\ \A w \in Workers, j \in Jobs : task'[w][j].pc \in Unsent => task[w][j].pc \in Unsent
    BY <1>7, QuietLoses
  <2>2. \A w \in Workers, j \in Jobs : buffer'[w][ChatOf[j]] \subseteq buffer[w][ChatOf[j]]
    BY <2>1, GoAssumption DEF NoNewPlaces
  <2> QED  BY <2>1, <2>2 DEF Unposted, NoNewPlaces
<1>8. ASSUME NEW w \in Workers, NEW i \in Jobs, NEW j \in Jobs, RepeatPush(w, i, j)
      PROVE  Unposted'
  <2>1. /\ UNCHANGED <<marked, buffer, picked, task, posted>>
        /\ queue' = Append(queue, j) /\ queue \in Seq(Jobs)
        /\ received' = received \cup {j} /\ j \notin received
    BY <1>8 DEF RepeatPush, local, TypeOK
  <2>2. \A n \in Jobs : Queued(n)' => Queued(n) \/ n = j
    BY <2>1, QueueAppend DEF Queued
  <2> QED  BY <2>1, <2>2 DEF Unposted
<1> QED  BY <1>1, <1>2, <1>3, <1>4, <1>5, <1>6, <1>7, <1>8, StepKinds

-----------------------------------------------------------------------------
(* Type correctness.                                                       *)

\* What the handler and the flush change keeps its type.
LEMMA TypeFault ==
  ASSUME TypeOK, NEW m \in Msgs, Fault(m)
  PROVE  disturbances' \in 0..MaxDisturbances /\ faultsOn' \in [Msgs -> Nat]
<1>1. disturbances' \in 0..MaxDisturbances
  BY GoAssumption DEF TypeOK, Fault, Disturb
<1>2. faultsOn \in [Msgs -> Nat] /\ faultsOn' = [faultsOn EXCEPT ![m] = @ + 1]
  BY DEF TypeOK, Fault
<1> QED  BY <1>1, <1>2

LEMMA TypeMark ==
  ASSUME TypeOK, NEW w \in Workers, NEW j \in Jobs, Takes(w, j)
  PROVE  /\ disturbances' \in 0..MaxDisturbances /\ faultsOn' \in [Msgs -> Nat]
         /\ memSeen' \in [Workers -> SUBSET Msgs] /\ seen' \subseteq Msgs
         /\ marked' \in [Workers -> SUBSET Jobs] /\ received' \subseteq Jobs
<1>1. /\ MsgOf[j] \in Msgs /\ seen \subseteq Msgs /\ memSeen \in [Workers -> SUBSET Msgs]
      /\ disturbances \in 0..MaxDisturbances /\ faultsOn \in [Msgs -> Nat]
      /\ marked \in [Workers -> SUBSET Jobs] /\ received \subseteq Jobs
  BY GoAssumption DEF TypeOK
<1>2. marked' \in [Workers -> SUBSET Jobs] /\ received' \subseteq Jobs
  BY <1>1, TakesJob
<1>3. CASE MarkSeen(w, j)
  BY <1>1, <1>2, <1>3 DEF MarkSeen, process
<1>4. CASE MarkFails(w, j)
  <2>1. disturbances' \in 0..MaxDisturbances /\ faultsOn' \in [Msgs -> Nat]
    BY <1>1, <1>4, TypeFault DEF MarkFails
  <2>2. memSeen' \in [Workers -> SUBSET Msgs] /\ seen' \subseteq Msgs
    BY <1>1, <1>4 DEF MarkFails
  <2> QED  BY <1>2, <2>1, <2>2
<1> QED  BY <1>3, <1>4 DEF Takes

LEMMA TypeBuffer ==
  ASSUME TypeOK, NEW w \in Workers, NEW j \in Jobs, AddToBuffer(w, j)
  PROVE  buffer' \in [Workers -> [Chats -> SUBSET Jobs]]
<1>1. ChatOf[j] \in Chats /\ buffer \in [Workers -> [Chats -> SUBSET Jobs]]
  BY GoAssumption DEF TypeOK
<1> QED  BY <1>1 DEF AddToBuffer

LEMMA TypeFlush ==
  ASSUME TypeOK, NEW w \in Workers, NEW c \in Chats, Flush(w, c)
  PROVE  /\ buffer' \in [Workers -> [Chats -> SUBSET Jobs]]
         /\ picked' \in [Workers -> SUBSET Jobs] /\ kept' \subseteq Jobs /\ flushed' \subseteq Jobs
<1>1. /\ buffer \in [Workers -> [Chats -> SUBSET Jobs]] /\ picked \in [Workers -> SUBSET Jobs]
      /\ kept \subseteq Jobs /\ flushed \subseteq Jobs
  BY DEF TypeOK
<1> QED  BY <1>1 DEF Flush

\* The listener and its flushes keep every variable in its type.
LEMMA TypeListener ==
  ASSUME Inv, NEW w \in Workers,
         \/ \E j \in Jobs : Takes(w, j) \/ Handover(w, j) \/ \E i \in Jobs : RepeatPush(w, i, j)
         \/ \E m \in Msgs : MarkAlone(w, m)
         \/ \E c \in Chats : Flush(w, c)
  PROVE  TypeOK'
<1> USE GoAssumption DEF Inv, TypeOK
<1>0. ASSUME NEW m \in Msgs, Fault(m)
      PROVE  disturbances' \in 0..MaxDisturbances /\ faultsOn' \in [Msgs -> Nat]
  BY <1>0, TypeFault
<1>1. ASSUME NEW j \in Jobs, Takes(w, j)  PROVE TypeOK'
  BY <1>1, TypeMark, TakesJob DEF accounts
<1>2. ASSUME NEW j \in Jobs, AddToBuffer(w, j)  PROVE TypeOK'
  BY <1>2, TypeBuffer DEF AddToBuffer, redis, accounts, process, history, jobs
<1>3. ASSUME NEW j \in Jobs, Enqueue(w, j)  PROVE TypeOK'
  <2>1. queue' \in Seq(Jobs)
    BY <1>3 DEF Enqueue
  <2> QED  BY <1>3, <2>1 DEF Enqueue, accounts, process, history, jobs
<1>4. ASSUME NEW j \in Jobs, EnqueueFails(w, j)  PROVE TypeOK'
  <2>1. disturbances' \in 0..MaxDisturbances /\ faultsOn' \in [Msgs -> Nat]
    BY <1>0, <1>4 DEF EnqueueFails
  <2>2. picked' \in [Workers -> SUBSET Jobs]
    BY <1>4 DEF EnqueueFails
  <2>3. UNCHANGED <<redis, accounts, process, marked, buffer, loop, task, cache, received,
                    posted, flushed, kept>>
    BY <1>4 DEF EnqueueFails
  <2> QED  BY <2>1, <2>2, <2>3 DEF redis, accounts, process
<1>5. ASSUME NEW c \in Chats, Flush(w, c)  PROVE TypeOK'
  BY <1>5, TypeFlush DEF Flush, redis, accounts, process, jobs
<1>6. ASSUME NEW i \in Jobs, NEW j \in Jobs, RepeatPush(w, i, j)  PROVE TypeOK'
  <2>1. queue' \in Seq(Jobs) /\ received' \subseteq Jobs
    BY <1>6 DEF RepeatPush
  <2>2. disturbances' \in 0..MaxDisturbances /\ faultsOn' \in [Msgs -> Nat]
    BY <1>0, <1>6 DEF RepeatPush
  <2> QED  BY <1>6, <2>1, <2>2 DEF RepeatPush, accounts, local, process
<1>7. ASSUME NEW m \in Msgs, MarkAlone(w, m)  PROVE TypeOK'
  <2>1. disturbances' \in 0..MaxDisturbances /\ faultsOn' \in [Msgs -> Nat]
    BY <1>0, <1>7 DEF MarkAlone
  <2> QED  BY <1>7, <2>1 DEF MarkAlone, accounts, local, process
<1> QED  BY <1>1, <1>2, <1>3, <1>4, <1>5, <1>6, <1>7 DEF Handover

\* So do the consumer loop and the life of a worker.
LEMMA TypeConsumer ==
  ASSUME Inv, NEW w \in Workers,
         ConsumerStep(w) \/ Crash(w) \/ Restart(w) \/ RotateConsumer(w)
  PROVE  TypeOK'
<1> USE GoAssumption DEF Inv, TypeOK
<1>0. /\ cache[w] \in [Sessions -> Status \cup {"absent"}]
      /\ cache \in [Workers -> [Sessions -> Status \cup {"absent"}]]
      /\ Statuses(cache[w]) \in [Sessions -> Status \cup {"absent"}]
      /\ Loaded(cache[w]) \in [Sessions -> Status \cup {"absent"}]
  BY DEF Statuses, Loaded, Loadable
<1>1. CASE CheckConsumer(w)
  BY <1>1 DEF CheckConsumer, Step, redis, accounts, process, history, jobs
<1>2. CASE RefreshStatuses(w)
  <2>1. cache' \in [Workers -> [Sessions -> Status \cup {"absent"}]]
    BY <1>0, <1>2 DEF RefreshStatuses
  <2>2. loop' \in [Workers -> {"check", "refresh", "pop"}]
    BY <1>2 DEF RefreshStatuses, Step
  <2> QED  BY <1>2, <2>1, <2>2 DEF RefreshStatuses, redis, accounts, process, history, jobs
<1>3. CASE Pop(w)
  <2>1. queue' \in Seq(Jobs) /\ Head(queue) \in Jobs
    BY <1>3, QueueTail DEF Pop
  <2>2. Queued(Head(queue))
    BY <1>3, QueueTail DEF Pop, Queued
  <2>3. task[w][Head(queue)].pc = "none"
    BY <2>1, <2>2 DEF Place, OneHolder, Has, Tasked
  <2>4. task' \in [Workers -> [Jobs -> Tasks]]
    <3>1. Goto(w, Head(queue), "choose")
      BY <1>3 DEF Pop
    <3> QED  BY <2>1, <2>3, <3>1, TaskUpdates
  <2> QED  BY <1>3, <2>1, <2>4 DEF Pop, Step, accounts, process, history, jobs
<1>4. CASE PopFails(w)
  <2>1. queue' \in {queue, Tail(queue)} /\ queue # <<>>
    BY <1>4 DEF PopFails
  <2>2. queue' \in Seq(Jobs)
    BY <2>1, QueueTail
  <2>3. disturbances' \in 0..MaxDisturbances
    BY <1>4 DEF PopFails, Disturb
  <2>4. queue' \in Seq(Jobs) /\ disturbances' \in 0..MaxDisturbances
    BY <2>2, <2>3
  <2>5. CASE UNCHANGED <<loop, cache>>
    BY <1>4, <2>4, <2>5 DEF PopFails, accounts, process, history, jobs
  <2>6. CASE Step(w, "check") /\ cache' \in {cache, [cache EXCEPT ![w] = Loaded(@)]}
    <3>1. cache' \in [Workers -> [Sessions -> Status \cup {"absent"}]]
      BY <1>0, <2>6
    <3>2. loop' \in [Workers -> {"check", "refresh", "pop"}]
      BY <2>6 DEF Step
    <3> QED  BY <1>4, <2>4, <3>1, <3>2 DEF PopFails, accounts, process, history, jobs
  <2> QED  BY <1>4, <2>5, <2>6 DEF PopFails
<1>5. CASE PopEmpty(w)
  <2>1. cache' \in [Workers -> [Sessions -> Status \cup {"absent"}]]
    BY <1>0, <1>5 DEF PopEmpty
  <2> QED  BY <1>5, <2>1 DEF PopEmpty, Step, redis, accounts, process, history, jobs
<1>6. CASE Crash(w)
  <2>1. task' \in [Workers -> [Jobs -> Tasks]]
    <3>1. NoTask \in Tasks
      BY DEF NoTask, Tasks
    <3> QED  BY <1>6, <3>1 DEF Crash
  <2>2. /\ buffer' \in [Workers -> [Chats -> SUBSET Jobs]]
        /\ cache' \in [Workers -> [Sessions -> Status \cup {"absent"}]]
    BY <1>6 DEF Crash
  <2> QED  BY <1>6, <2>1, <2>2 DEF Crash, Disturb, redis, accounts, process, history, jobs
<1>7. CASE Restart(w)
  <2>1. cache' \in [Workers -> [Sessions -> Status \cup {"absent"}]]
    BY <1>0, <1>7 DEF Restart
  <2> QED  BY <1>7, <2>1 DEF Restart, redis, accounts, process, history, jobs
<1>8. CASE RotateConsumer(w)
  BY <1>8 DEF RotateConsumer, Disturb, accounts, local, process, history, jobs
<1> QED  BY <1>1, <1>2, <1>3, <1>4, <1>5, <1>6, <1>7, <1>8 DEF ConsumerStep

\* And every step of a reply goroutine.
LEMMA TypeTask ==
  ASSUME Inv, NEW w \in Workers, NEW j \in Jobs, TaskStep(w, j)
  PROVE  TypeOK'
<1> USE GoAssumption DEF Inv, TypeOK
<1>1. task' \in [Workers -> [Jobs -> Tasks]]
  <2>1. CASE ChooseAccount(w, j)
    <3>1. Pair[ChatOf[j]].primary \in Sessions /\ Pair[ChatOf[j]].backup \in Sessions
      OBVIOUS
    <3>2. \/ EndTask(w, j)
          \/ \E s \in Sessions : task' = [task EXCEPT ![w][j] = [pc |-> "rule2", acc |-> s]]
      BY <2>1, <3>1 DEF ChooseAccount, Healthy
    <3> QED  BY <3>2, TaskUpdates
  <2>2. CASE ~ChooseAccount(w, j)
    <3>1. task[w][j].pc \notin {"none", "choose"}
      BY <2>2 DEF TaskStep, CheckThreadReplies, AcquireSemaphore, StartTyping, SimulateReply,
         PostReply, ConfirmReply, FailReply, RecordSuccess, SkipThreadReplies, MiscountSuccess,
         TaskAt
    <3>2. EndTask(w, j) \/ \E pc \in Running \cup {"rule2", "sem"} : Goto(w, j, pc)
      BY <2>2 DEF TaskStep, CheckThreadReplies, AcquireSemaphore, StartTyping, SimulateReply,
         PostReply, ConfirmReply, FailReply, RecordSuccess, SkipThreadReplies, MiscountSuccess,
         Running
    <3> QED  BY <3>1, <3>2, TaskUpdates
  <2> QED  BY <2>1, <2>2
<1>2. counter' \in [Chats -> [Sessions -> Nat]]
  <2>1. CASE CheckThreadReplies(w, j)
    <3>1. counter' = counter \/ counter' = [counter EXCEPT ![ChatOf[j]][task[w][j].acc] = 0]
      BY <2>1 DEF CheckThreadReplies
    <3>2. [counter EXCEPT ![ChatOf[j]][task[w][j].acc] = 0] \in [Chats -> [Sessions -> Nat]]
      BY CounterUpdate
    <3> QED  BY <3>1, <3>2
  <2>2. CASE RecordSuccess(w, j)
    <3> DEFINE s == task[w][j].acc
               n == counter[ChatOf[j]][s] + 1
    <3>0. counter[ChatOf[j]] \in [Sessions -> Nat]
      OBVIOUS
    <3>1. s \in Sessions => n \in Nat
      <4> HIDE DEF s
      <4> QED  BY <3>0 DEF n
    <3>2. counter' = counter \/ counter' = [counter EXCEPT ![ChatOf[j]][s] = n]
      BY <2>2 DEF RecordSuccess
    <3> HIDE DEF n
    <3>3. [counter EXCEPT ![ChatOf[j]][s] = n] \in [Chats -> [Sessions -> Nat]]
      BY <3>1, CounterUpdate
    <3> QED  BY <3>2, <3>3
  <2>3. CASE MiscountSuccess(w, j)
    <3> DEFINE s == task[w][j].acc
    <3>0. counter[ChatOf[j]] \in [Sessions -> Nat]
      OBVIOUS
    <3>1. PICK n \in {0, 2} : counter' = [counter EXCEPT ![ChatOf[j]][s] = @ + n]
      BY <2>3 DEF MiscountSuccess
    <3> DEFINE v == counter[ChatOf[j]][s] + n
    <3>2. s \in Sessions => v \in Nat
      <4> HIDE DEF s
      <4> QED  BY <3>0 DEF v
    <3>3. counter' = [counter EXCEPT ![ChatOf[j]][s] = v]
      BY <3>1
    <3> HIDE DEF v
    <3>4. [counter EXCEPT ![ChatOf[j]][s] = v] \in [Chats -> [Sessions -> Nat]]
      BY <3>2, CounterUpdate
    <3> QED  BY <3>3, <3>4
  <2>4. CASE ~CheckThreadReplies(w, j) /\ ~RecordSuccess(w, j) /\ ~MiscountSuccess(w, j)
    <3>1. counter' = counter
      BY <2>4 DEF TaskStep, ChooseAccount, AcquireSemaphore, StartTyping, SimulateReply,
         PostReply, ConfirmReply, FailReply, SkipThreadReplies, redis
    <3> QED  BY <3>1
  <2> QED  BY <2>1, <2>2, <2>4, <2>3
<1>3. status' \in [Sessions -> Status] /\ files' \subseteq Sessions
  <2>1. CASE StartTyping(w, j) \/ SimulateReply(w, j) \/ ConfirmReply(w, j)
    BY <2>1 DEF StartTyping, SimulateReply, ConfirmReply, Status
  <2>2. CASE FailReply(w, j)
    BY <2>2 DEF FailReply, Status
  <2>3. CASE ~(StartTyping(w, j) \/ SimulateReply(w, j) \/ ConfirmReply(w, j) \/ FailReply(w, j))
    <3>1. UNCHANGED accounts
      BY <2>3 DEF TaskStep, ChooseAccount, CheckThreadReplies, AcquireSemaphore, PostReply, RecordSuccess,
         SkipThreadReplies, MiscountSuccess
    <3> QED  BY <3>1 DEF accounts
  <2> QED  BY <2>1, <2>2, <2>3
<1>4. posted' \in [Jobs -> Nat]
  <2>1. CASE PostReply(w, j)
    BY <2>1 DEF PostReply
  <2> QED  BY <2>1, TaskStepTouchesTask
<1>5. UNCHANGED <<seen, texts, memSeen, received, faultsOn, queue, activeConsumer, up, marked, buffer,
                  picked, loop, cache, flushed, kept>>
  BY DEF TaskStep, ChooseAccount, CheckThreadReplies, AcquireSemaphore, StartTyping, SimulateReply,
     PostReply, ConfirmReply, FailReply, RecordSuccess, SkipThreadReplies, MiscountSuccess, redis,
     process, history, jobs
<1>6. disturbances' \in 0..MaxDisturbances
  BY DEF TaskStep, ChooseAccount, CheckThreadReplies, AcquireSemaphore, StartTyping, SimulateReply,
     PostReply, ConfirmReply, FailReply, RecordSuccess, SkipThreadReplies, MiscountSuccess, Disturb
<1> QED  BY <1>1, <1>2, <1>3, <1>4, <1>5, <1>6

LEMMA TypeStep ==
  ASSUME Inv, [Next]_vars
  PROVE  TypeOK'
<1>1. ASSUME NEW s \in Sessions, ChangeStatus(s)  PROVE TypeOK'
  <2>1. disturbances' \in 0..MaxDisturbances
    BY <1>1, GoAssumption DEF ChangeStatus, Disturb, Inv, TypeOK
  <2>2. status' \in [Sessions -> Status] /\ files' \subseteq Sessions
    BY <1>1 DEF ChangeStatus, Inv, TypeOK, Status
  <2> QED  BY <1>1, <2>1, <2>2 DEF ChangeStatus, Inv, TypeOK, redis, local, process, history, jobs
<1>2. CASE ChangeTexts
  <2>1. disturbances' \in 0..MaxDisturbances
    BY <1>2, GoAssumption DEF ChangeTexts, Disturb, Inv, TypeOK
  <2> QED  BY <1>2, <2>1 DEF ChangeTexts, Inv, TypeOK, accounts, local, process, history, jobs
<1>3. ASSUME NEW s \in Sessions, RecoverAccount(s)  PROVE TypeOK'
  BY <1>3 DEF RecoverAccount, Inv, TypeOK, Status, redis, local, process, history, jobs
<1>4. CASE UNCHANGED vars
  BY <1>4 DEF vars, redis, accounts, local, process, history, jobs, Inv, TypeOK
<1> QED  BY <1>1, <1>2, <1>3, <1>4, TypeListener, TypeConsumer, TypeTask DEF Next, Takes

LEMMA InvInit ==
  ASSUME Init  PROVE Inv
<1>1. TypeOK
  <2>1. NoTask \in Tasks
    BY DEF NoTask, Tasks
  <2> QED  BY <2>1, GoAssumption DEF Init, TypeOK, Status
<1>2. /\ \A w \in Workers, j \in Jobs : ~Has(w, j)
      /\ \A j \in Jobs : ~Queued(j)
  BY GoAssumption DEF Init, Has, Tasked, NoTask, Queued
<1>3. Place
  <2>1. BufferFits /\ UniqueInQueue
    BY DEF Init, BufferFits, UniqueInQueue
  <2>2. OneStage /\ OneHolder /\ JobsReceived
    <3>1. OneStage
      BY <1>2 DEF OneStage, Apart, Has
    <3>2. OneHolder
      BY <1>2 DEF OneHolder
    <3>3. JobsReceived
      BY <1>2, PendingOf DEF JobsReceived
    <3> QED  BY <3>1, <3>2, <3>3
  <2> QED  BY <2>1, <2>2 DEF Place
<1>4. Unposted
  BY DEF Init, Unposted
<1> QED  BY <1>1, <1>3, <1>4 DEF Inv

LEMMA InvHolds == Spec => []Inv
<1>1. ASSUME Inv, [Next]_vars  PROVE Inv'
  BY <1>1, TypeStep, PlaceStep, UnpostedStep DEF Inv
<1> QED  BY <1>1, InvInit, PTL DEF Spec

\* Every variable keeps its type.
THEOREM TypeCorrect == Spec => []TypeOK
<1>1. Inv => TypeOK
  BY DEF Inv
<1> QED  BY <1>1, InvHolds, PTL

\* Over any number of workers, groups and crashes a job is in one place only:
\* at a handler, in a buffer, with a flush, in the queue or with a goroutine.
THEOREM OneAtATime == Spec => []OnePlace
<1>1. Inv => OnePlace
  BY PlaceIsOne DEF Inv, Place
<1> QED  BY <1>1, InvHolds, PTL

-----------------------------------------------------------------------------
(* The pipeline implements ReplyPromise with one reply.                    *)

LEMMA NoOtherPosts ==
  ASSUME Inv, [Next]_vars, ~\E w \in Workers, j \in Jobs : PostReply(w, j)
  PROVE  posted' = posted
<1>1. ASSUME NEW w \in Workers, NEW j \in Jobs, TaskStep(w, j)  PROVE posted' = posted
  BY <1>1, TaskStepTouchesTask
<1>2. ASSUME NEW w \in Workers, NEW j \in Jobs, AddToBuffer(w, j) \/ Enqueue(w, j)
      PROVE  posted' = posted
  BY <1>2 DEF AddToBuffer, Enqueue, history
<1>3. ASSUME NEW w \in Workers, NEW c \in Chats, Flush(w, c)  PROVE posted' = posted
  BY <1>3 DEF Flush
<1>4. ASSUME NEW w \in Workers, Pop(w)  PROVE posted' = posted
  BY <1>4 DEF Pop, history
<1>5. ASSUME NEW w \in Workers, NEW i \in Jobs, NEW j \in Jobs, RepeatPush(w, i, j)
      PROVE  posted' = posted
  BY <1>5 DEF RepeatPush
<1> QED  BY <1>1, <1>2, <1>3, <1>4, <1>5, QuietLoses, TakesJob, StepKinds DEF Inv

LEMMA PhaseOf ==
  ASSUME NEW j \in Jobs
  PROVE  /\ Phase[j] = "fresh" <=> j \notin received
         /\ Phase[j] = "pending" <=> j \in received /\ Pending(j)
         /\ Phase[j] = "closed" <=> j \in received /\ ~Pending(j)
BY DEF Phase

\* Every step accepts a new job, posts the reply to a pending one that has none,
\* or closes jobs.
LEMMA StepKeepsPromise ==
  ASSUME Inv, [Next]_vars
  PROVE  [Promise!Next]_<<Phase, posted>>
<1>1. ASSUME NEW w \in Workers, NEW j \in Jobs,
             Takes(w, j) \/ \E i \in Jobs : RepeatPush(w, i, j)
      PROVE  Promise!Accept(j)
  <2>1. j \notin received /\ received' = received \cup {j} /\ posted' = posted
    BY <1>1, TakesJob DEF RepeatPush, Inv
  <2>2. Pending(j)' /\ \A n \in Jobs \ {j} : Pending(n)' <=> Pending(n)
    BY <1>1, MarkKeepsPlace, RepeatKeepsPlace
  <2>3. Phase' = [Phase EXCEPT ![j] = "pending"]
    BY <2>1, <2>2 DEF Phase
  <2> QED  BY <2>1, <2>3, PhaseOf DEF Promise!Accept
<1>2. ASSUME NEW w \in Workers, NEW j \in Jobs, PostReply(w, j)
      PROVE  Promise!Post(j)
  <2>1. /\ task[w][j].pc = "typing" /\ posted' = [posted EXCEPT ![j] = @ + 1]
        /\ UNCHANGED <<received, queue, marked, buffer, picked>>
    BY <1>2 DEF PostReply, TaskAt, redis, jobs
  <2>2. Has(w, j) /\ Pending(j) /\ j \in received /\ posted[j] = 0
    BY <2>1, PendingOf DEF Has, Tasked, Inv, Place, JobsReceived, Unposted, Unsent
  <2>3. \A n \in Jobs, v \in Workers : Tasked(v, n)' <=> Tasked(v, n)
    BY <1>2, <2>1 DEF PostReply, Goto, Tasked, Inv, TypeOK, Tasks
  <2>4. \A n \in Jobs : Pending(n)' <=> Pending(n)
    <3>1. \A n \in Jobs, v \in Workers : Has(v, n)' <=> Has(v, n)
      BY <2>1, <2>3 DEF Has
    <3>2. \A n \in Jobs : Queued(n)' <=> Queued(n)
      BY <2>1 DEF Queued
    <3> QED  BY <3>1, <3>2, PendingOf, PendingNext
  <2>5. Phase' = Phase
    BY <2>1, <2>4 DEF Phase
  <2> QED  BY <2>1, <2>2, <2>5, PhaseOf DEF Promise!Post
<1>3. ASSUME ~TakesIn, ~\E w \in Workers, j \in Jobs : PostReply(w, j)
      PROVE  \E S \in SUBSET Jobs : Promise!Close(S)
  <2>1. /\ received' = received /\ posted' = posted
        /\ \A n \in Jobs : Pending(n)' => Pending(n)
    BY <1>3, StepHands, NoOtherPosts DEF Handed
  <2>2. PICK S \in SUBSET Jobs :
          \A n \in Jobs : n \in S <=> Phase[n] = "pending" /\ ~Pending(n)'
    <3> WITNESS {n \in Jobs : Phase[n] = "pending" /\ ~Pending(n)'} \in SUBSET Jobs
    <3> QED  OBVIOUS
  <2>3. Phase' = [n \in Jobs |-> IF n \in S THEN "closed" ELSE Phase[n]]
    BY <2>1, <2>2 DEF Phase
  <2> QED  BY <2>1, <2>2, <2>3 DEF Promise!Close
<1> QED  BY <1>1, <1>2, <1>3 DEF Promise!Next, TakesIn

\* One acceptance per job, at most one reply and only while it is pending,
\* none after a lost confirmation.
THEOREM PipelineKeepsPromise == Spec => KeepsPromise
<1>1. Init => Promise!Init
  BY DEF Init, Promise!Init, Phase
<1>2. Inv /\ [Next]_vars => [Promise!Next]_<<Phase, posted>>
  BY StepKeepsPromise
<1> QED  BY <1>1, <1>2, InvHolds, PTL DEF Spec, KeepsPromise, Promise!Spec

-----------------------------------------------------------------------------
(* A second answer needs a failed call.                                    *)

CopiesOf(m) == {j \in received : MsgOf[j] = m}

\* The mark lets one job in, and each failed call at most one more.
Allowed(m) == faultsOn[m] + (IF m \in seen THEN 1 ELSE 0)

FewCopies == \A m \in Msgs : Cardinality(CopiesOf(m)) <= Allowed(m)

PostedOnce == \A j \in Jobs : posted[j] <= 1

LEMMA AllowedType ==
  ASSUME TypeOK, NEW m \in Msgs
  PROVE  Allowed(m) \in Nat
BY DEF TypeOK, Allowed

\* A new job fits when its message is allowed one more.
LEMMA OneMoreCopy ==
  ASSUME TypeOK, TypeOK', FewCopies, NEW j \in Jobs, j \notin received, received' = received \cup {j},
         \A m \in Msgs : Allowed(m)' >= Allowed(m) + (IF m = MsgOf[j] THEN 1 ELSE 0)
  PROVE  FewCopies'
<1> SUFFICES ASSUME NEW m \in Msgs  PROVE Cardinality(CopiesOf(m))' <= Allowed(m)'
  BY DEF FewCopies
<1>1. /\ IsFiniteSet(CopiesOf(m)) /\ Cardinality(CopiesOf(m)) \in Nat
      /\ Allowed(m) \in Nat /\ Cardinality(CopiesOf(m)) <= Allowed(m)
  <2>1. CopiesOf(m) \subseteq Jobs
    BY DEF CopiesOf, TypeOK
  <2>2. IsFiniteSet(CopiesOf(m))
    BY <2>1, FS_Subset, GoAssumption
  <2> QED  BY <2>2, FS_CardinalityType, AllowedType DEF FewCopies
<1>2. Allowed(m)' \in Nat
  BY DEF TypeOK, Allowed
<1>3. CASE m = MsgOf[j]
  <2>1. CopiesOf(m)' = CopiesOf(m) \cup {j} /\ j \notin CopiesOf(m)
    BY <1>3 DEF CopiesOf
  <2>2. Cardinality(CopiesOf(m) \cup {j}) = Cardinality(CopiesOf(m)) + 1
    BY <1>1, <2>1, FS_AddElement
  <2>3. Allowed(m)' >= Allowed(m) + 1
    BY <1>3
  <2> QED  BY <1>1, <1>2, <2>1, <2>2, <2>3
<1>4. CASE m # MsgOf[j]
  <2>1. CopiesOf(m)' = CopiesOf(m)
    BY <1>4 DEF CopiesOf
  <2>2. Allowed(m)' >= Allowed(m)
    BY <1>1, <1>2, <1>4
  <2> QED  BY <1>1, <1>2, <2>1, <2>2
<1> QED  BY <1>3, <1>4

\* A failed call allows its message one more job and no message fewer.
LEMMA FaultAllows ==
  ASSUME TypeOK, NEW n \in Msgs, Fault(n), seen \subseteq seen'
  PROVE  \A m \in Msgs : Allowed(m)' >= Allowed(m) + (IF m = n THEN 1 ELSE 0)
<1>1. \A m \in Msgs : faultsOn[m] \in Nat /\ faultsOn'[m] = faultsOn[m] + (IF m = n THEN 1 ELSE 0)
  BY DEF TypeOK, Fault
<1> QED  BY <1>1 DEF Allowed

\* The other steps let no job in and take no mark away.
LEMMA OthersAllow ==
  ASSUME Inv, [Next]_vars, ~TakesIn
  PROVE  received' = received /\ \A m \in Msgs : Allowed(m)' >= Allowed(m)
<1>1. received' = received
  BY StepHands DEF Handed
<1>2. ASSUME seen \subseteq seen', \/ UNCHANGED faultsOn
                                   \/ \E n \in Msgs : Fault(n)
      PROVE  \A m \in Msgs : Allowed(m)' >= Allowed(m)
  <2>1. \A m \in Msgs : faultsOn[m] \in Nat
    BY DEF Inv, TypeOK
  <2>2. CASE UNCHANGED faultsOn
    BY <1>2, <2>1, <2>2 DEF Allowed
  <2>3. ASSUME NEW n \in Msgs, Fault(n)  PROVE \A m \in Msgs : Allowed(m)' >= Allowed(m)
    <3>1. \A m \in Msgs : faultsOn'[m] >= faultsOn[m]
      BY <2>1, <2>3 DEF Fault, Inv, TypeOK
    <3>2. \A m \in Msgs : faultsOn'[m] \in Nat
      BY <2>3, TypeFault DEF Inv
    <3> QED  BY <1>2, <2>1, <3>1, <3>2 DEF Allowed
  <2> QED  BY <1>2, <2>2, <2>3
<1>3. ASSUME NEW w \in Workers, NEW j \in Jobs, AddToBuffer(w, j) \/ Enqueue(w, j) \/ TaskStep(w, j)
      PROVE  UNCHANGED <<seen, faultsOn>>
  BY <1>3 DEF AddToBuffer, Enqueue, TaskStep, ChooseAccount, CheckThreadReplies, AcquireSemaphore,
     StartTyping, SimulateReply, PostReply, ConfirmReply, FailReply, RecordSuccess, SkipThreadReplies,
     MiscountSuccess, redis, history, jobs
<1>4. ASSUME NEW w \in Workers, NEW j \in Jobs, EnqueueFails(w, j)
      PROVE  seen' = seen /\ \E n \in Msgs : Fault(n)
  BY <1>4, GoAssumption DEF EnqueueFails, redis
<1>5. ASSUME NEW w \in Workers, NEW c \in Chats, Flush(w, c)  PROVE UNCHANGED <<seen, faultsOn>>
  BY <1>5 DEF Flush, redis, jobs
<1>6. ASSUME NEW w \in Workers, ConsumerStep(w) \/ Crash(w) \/ Restart(w) \/ RotateConsumer(w)
      PROVE  UNCHANGED <<seen, faultsOn>>
  BY <1>6 DEF ConsumerStep, CheckConsumer, RefreshStatuses, Pop, PopFails, PopEmpty, Crash, Restart,
     RotateConsumer, redis, history, jobs
<1>7. ASSUME NEW w \in Workers, NEW n \in Msgs, MarkAlone(w, n)  PROVE seen \subseteq seen' /\ Fault(n)
  BY <1>7 DEF MarkAlone
<1>8. ASSUME NEW s \in Sessions, ChangeStatus(s) \/ RecoverAccount(s)  PROVE UNCHANGED <<seen, faultsOn>>
  BY <1>8 DEF ChangeStatus, RecoverAccount, redis, history, jobs
<1>9. ASSUME ChangeTexts \/ UNCHANGED vars  PROVE UNCHANGED <<seen, faultsOn>>
  BY <1>9 DEF ChangeTexts, vars, redis, history, jobs
<1> QED  BY <1>1, <1>2, <1>3, <1>4, <1>5, <1>6, <1>7, <1>8, <1>9 DEF Next, Handover, TakesIn, Takes

LEMMA CopiesStep ==
  ASSUME Inv, FewCopies, [Next]_vars
  PROVE  FewCopies'
<1>1. TypeOK /\ TypeOK'
  BY TypeStep DEF Inv
<1>2. ASSUME NEW w \in Workers, NEW j \in Jobs, MarkSeen(w, j)  PROVE FewCopies'
  <2>1. /\ j \notin received /\ received' = received \cup {j}
        /\ MsgOf[j] \notin seen /\ seen' = seen \cup {MsgOf[j]} /\ faultsOn' = faultsOn
    BY <1>2 DEF MarkSeen, Receive
  <2>2. \A m \in Msgs : Allowed(m)' >= Allowed(m) + (IF m = MsgOf[j] THEN 1 ELSE 0)
    BY <1>1, <2>1 DEF Allowed, TypeOK
  <2> QED  BY <1>1, <2>1, <2>2, OneMoreCopy
<1>3. ASSUME NEW w \in Workers, NEW j \in Jobs, MarkFails(w, j) \/ \E i \in Jobs : RepeatPush(w, i, j)
      PROVE  FewCopies'
  <2>1. /\ j \notin received /\ received' = received \cup {j}
        /\ MsgOf[j] \in Msgs /\ Fault(MsgOf[j]) /\ seen \subseteq seen'
    BY <1>3, GoAssumption DEF MarkFails, Receive, RepeatPush
  <2>2. \A m \in Msgs : Allowed(m)' >= Allowed(m) + (IF m = MsgOf[j] THEN 1 ELSE 0)
    BY <1>1, <2>1, FaultAllows
  <2> QED  BY <1>1, <2>1, <2>2, OneMoreCopy
<1>4. CASE ~TakesIn
  <2>1. received' = received /\ \A m \in Msgs : Allowed(m)' >= Allowed(m)
    BY <1>4, OthersAllow
  <2>2. ASSUME NEW m \in Msgs  PROVE Cardinality(CopiesOf(m))' <= Allowed(m)'
    <3>1. Allowed(m) \in Nat /\ Allowed(m)' \in Nat
      BY <1>1 DEF Allowed, TypeOK
    <3>2. Cardinality(CopiesOf(m)) \in Nat
      <4>1. CopiesOf(m) \subseteq Jobs
        BY <1>1 DEF CopiesOf, TypeOK
      <4> QED  BY <4>1, FS_Subset, FS_CardinalityType, GoAssumption
    <3>3. CopiesOf(m)' = CopiesOf(m)
      BY <2>1 DEF CopiesOf
    <3> QED  BY <2>1, <3>1, <3>2, <3>3 DEF FewCopies
  <2> QED  BY <2>2 DEF FewCopies
<1> QED  BY <1>2, <1>3, <1>4 DEF TakesIn, Takes

LEMMA PostedOnceStep ==
  ASSUME Inv, PostedOnce, [Next]_vars
  PROVE  PostedOnce'
<1>1. ASSUME NEW w \in Workers, NEW j \in Jobs, PostReply(w, j)  PROVE PostedOnce'
  <2>1. posted[j] = 0 /\ posted' = [posted EXCEPT ![j] = @ + 1] /\ posted \in [Jobs -> Nat]
    BY <1>1 DEF PostReply, TaskAt, Inv, Unposted, Unsent, TypeOK
  <2> QED  BY <2>1 DEF PostedOnce
<1>2. CASE ~\E w \in Workers, j \in Jobs : PostReply(w, j)
  BY <1>2, NoOtherPosts DEF PostedOnce
<1> QED  BY <1>1, <1>2

\* The answered jobs of a message are jobs it became, each answered once.
LEMMA AnswersAreCopies ==
  ASSUME Inv, FewCopies, PostedOnce
  PROVE  SecondAnswerNeedsFault
<1> SUFFICES ASSUME NEW m \in Msgs
             PROVE  /\ Cardinality(Answered(m)) <= 1 + faultsOn[m]
                    /\ \A j \in Answered(m) : posted[j] = 1
  BY DEF SecondAnswerNeedsFault
<1>1. faultsOn[m] \in Nat /\ Allowed(m) \in Nat /\ Allowed(m) <= 1 + faultsOn[m]
  BY DEF Inv, TypeOK, Allowed
<1>2. Answered(m) \subseteq CopiesOf(m) /\ CopiesOf(m) \subseteq Jobs
  BY DEF Answered, CopiesOf, Inv, TypeOK, Unposted
<1>3. IsFiniteSet(CopiesOf(m))
  BY <1>2, FS_Subset, GoAssumption
<1>4. /\ Cardinality(CopiesOf(m)) \in Nat /\ Cardinality(Answered(m)) \in Nat
      /\ Cardinality(Answered(m)) <= Cardinality(CopiesOf(m))
  BY <1>2, <1>3, FS_Subset, FS_CardinalityType
<1>5. \A j \in Answered(m) : posted[j] = 1
  BY DEF Answered, PostedOnce, Inv, TypeOK
<1>6. Cardinality(CopiesOf(m)) <= Allowed(m)
  BY DEF FewCopies
<1> QED  BY <1>1, <1>4, <1>5, <1>6

\* Whatever is delivered, however often, to however many workers: a message is
\* answered once, and once more at most for each call to Redis about it that failed.
THEOREM AnswersNeedFaults == Spec => []SecondAnswerNeedsFault
<1>1. Init => FewCopies /\ PostedOnce
  <2> SUFFICES ASSUME Init  PROVE FewCopies /\ PostedOnce
    OBVIOUS
  <2>1. \A m \in Msgs : CopiesOf(m) = {} /\ Allowed(m) = 0
    BY DEF Init, CopiesOf, Allowed
  <2>2. FewCopies
    BY <2>1, FS_EmptySet DEF FewCopies
  <2>3. PostedOnce
    BY DEF Init, PostedOnce
  <2> QED  BY <2>2, <2>3
<1>2. Inv /\ FewCopies /\ PostedOnce /\ [Next]_vars => (FewCopies /\ PostedOnce)'
  BY CopiesStep, PostedOnceStep
<1>3. Inv /\ FewCopies /\ PostedOnce => SecondAnswerNeedsFault
  BY AnswersAreCopies
<1> QED  BY <1>1, <1>2, <1>3, InvHolds, PTL DEF Spec

-----------------------------------------------------------------------------
(* Two fifths of the jobs are kept.                                        *)

\* A job whose window has closed is not waiting for one any more.
Windows ==
  /\ kept \subseteq flushed /\ flushed \subseteq received
  /\ \A w \in Workers, j \in Jobs :
       j \in marked[w] \/ j \in buffer[w][ChatOf[j]] => j \notin flushed

\* The windows that are added up do not overlap, so what is kept of each adds up.
LEMMA ShareOfBoth ==
  ASSUME NEW F, IsFiniteSet(F), NEW K \in SUBSET F, NEW B, IsFiniteSet(B), F \cap B = {},
         NEW S \in SUBSET B, Cardinality(S) = Share(Cardinality(B)),
         5 * Cardinality(K) >= 2 * Cardinality(F)
  PROVE  5 * Cardinality(K \cup S) >= 2 * Cardinality(F \cup B)
<1>1. IsFiniteSet(K) /\ IsFiniteSet(S)
  BY FS_Subset
<1>2. /\ Cardinality(F) \in Nat /\ Cardinality(K) \in Nat
      /\ Cardinality(B) \in Nat /\ Cardinality(S) \in Nat
  BY <1>1, FS_CardinalityType
<1>3. K \cap S = {} /\ Cardinality({}) = 0
  BY FS_EmptySet
<1>4. /\ Cardinality(F \cup B) = Cardinality(F) + Cardinality(B)
      /\ Cardinality(K \cup S) = Cardinality(K) + Cardinality(S)
  <2>1. Cardinality(F \cup B) = Cardinality(F) + Cardinality(B) - Cardinality({})
    BY FS_Union
  <2>2. Cardinality(K \cup S) = Cardinality(K) + Cardinality(S) - Cardinality({})
    BY <1>1, <1>3, FS_Union
  <2> QED  BY <1>2, <1>3, <2>1, <2>2
<1>5. \A n \in Nat : 5 * ((2 * n + 4) \div 5) >= 2 * n
  OBVIOUS
<1>6. 5 * Cardinality(S) >= 2 * Cardinality(B)
  BY <1>2, <1>5 DEF Share
<1> QED  BY <1>2, <1>4, <1>6

\* Only a flush closes a window.
LEMMA OnlyFlushCloses ==
  ASSUME [Next]_vars, ~\E w \in Workers, c \in Chats : Flush(w, c)
  PROVE  UNCHANGED <<flushed, kept>>
<1>1. ASSUME NEW w \in Workers, NEW j \in Jobs,
             MarkSeen(w, j) \/ MarkFails(w, j) \/ Handover(w, j) \/ \E k \in Jobs : RepeatPush(w, j, k)
      PROVE  UNCHANGED <<flushed, kept>>
  BY <1>1 DEF MarkSeen, MarkFails, Handover, AddToBuffer, Enqueue, EnqueueFails, RepeatPush, history
<1>2. ASSUME NEW w \in Workers, NEW j \in Jobs, TaskStep(w, j)  PROVE UNCHANGED <<flushed, kept>>
  BY <1>2 DEF TaskStep, ChooseAccount, CheckThreadReplies, AcquireSemaphore, StartTyping,
     SimulateReply, PostReply, ConfirmReply, FailReply, RecordSuccess, SkipThreadReplies,
     MiscountSuccess, history
<1>3. ASSUME NEW w \in Workers, ConsumerStep(w) \/ Crash(w) \/ Restart(w) \/ RotateConsumer(w)
      PROVE  UNCHANGED <<flushed, kept>>
  BY <1>3 DEF ConsumerStep, CheckConsumer, RefreshStatuses, Pop, PopFails, PopEmpty, Crash, Restart,
     RotateConsumer, history
<1>4. ASSUME NEW s \in Sessions, ChangeStatus(s) \/ RecoverAccount(s)
      PROVE  UNCHANGED <<flushed, kept>>
  BY <1>4 DEF ChangeStatus, RecoverAccount, history
<1>5. CASE ChangeTexts
  BY <1>5 DEF ChangeTexts, history
<1>6. ASSUME NEW w \in Workers, NEW m \in Msgs, MarkAlone(w, m)  PROVE UNCHANGED <<flushed, kept>>
  BY <1>6 DEF MarkAlone
<1>7. CASE UNCHANGED vars
  BY <1>7 DEF vars, history
<1> QED  BY <1>1, <1>2, <1>3, <1>4, <1>5, <1>6, <1>7 DEF Next

\* A job that waits for a window after a step waited before, or is new.
LEMMA Waiting ==
  ASSUME Inv, [Next]_vars
  PROVE  /\ received \subseteq received'
         /\ \A w \in Workers, j \in Jobs :
              j \in marked'[w] \/ j \in buffer'[w][ChatOf[j]]
                => j \notin received \/ j \in marked[w] \/ j \in buffer[w][ChatOf[j]]
<1> DEFINE Goal == /\ received \subseteq received'
                   /\ \A w \in Workers, j \in Jobs :
                        j \in marked'[w] \/ j \in buffer'[w][ChatOf[j]]
                          => j \notin received \/ j \in marked[w] \/ j \in buffer[w][ChatOf[j]]
<1>1. ASSUME NEW w \in Workers, NEW j \in Jobs, Takes(w, j)  PROVE Goal
  <2>1. /\ received' = received \cup {j} /\ j \notin received /\ buffer' = buffer
        /\ \A v \in Workers : marked'[v] = IF v = w THEN marked[v] \cup {j} ELSE marked[v]
    BY <1>1, TakesJob DEF Inv
  <2> QED  BY <2>1
<1>2. ASSUME NEW w \in Workers, NEW j \in Jobs, AddToBuffer(w, j)  PROVE Goal
  BY <1>2, GoAssumption DEF AddToBuffer, redis, history, jobs, Inv, TypeOK
<1>3. ASSUME NEW w \in Workers, NEW j \in Jobs, Enqueue(w, j) \/ TaskStep(w, j)  PROVE Goal
  <2>1. UNCHANGED <<received, marked, buffer>>
    BY <1>3, TaskStepTouchesTask DEF Enqueue, history, jobs
  <2> QED  BY <2>1
<1>4. ASSUME NEW w \in Workers, NEW c \in Chats, Flush(w, c)  PROVE Goal
  BY <1>4, GoAssumption DEF Flush, redis, history, jobs, Inv, TypeOK
<1>5. ASSUME NEW w \in Workers, Pop(w)  PROVE Goal
  BY <1>5 DEF Pop, history, jobs
<1>6. CASE Quiet
  BY <1>6, QuietLoses, GoAssumption DEF NoNewPlaces
<1>7. ASSUME NEW w \in Workers, NEW i \in Jobs, NEW j \in Jobs, RepeatPush(w, i, j)  PROVE Goal
  BY <1>7 DEF RepeatPush, local
<1> QED  BY <1>1, <1>2, <1>3, <1>4, <1>5, <1>6, <1>7, StepKinds

\* The jobs of a closing window wait for no other one.
LEMMA FlushClosesWindow ==
  ASSUME Inv, Windows, KeepsTwoFifths, NEW w \in Workers, NEW d \in Chats, Flush(w, d)
  PROVE  Windows' /\ KeepsTwoFifths'
<1> DEFINE B == buffer[w][d]
<1>1. PICK S \in SUBSET B : Cardinality(S) = Share(Cardinality(B)) /\ kept' = kept \cup S
  BY DEF Flush
<1>2. /\ flushed' = flushed \cup B /\ UNCHANGED <<received, marked>>
      /\ \A v \in Workers, c \in Chats :
           buffer'[v][c] = IF v = w /\ c = d THEN {} ELSE buffer[v][c]
  BY DEF Flush, redis, history, jobs, Inv, TypeOK
<1>3. B \in SUBSET Jobs /\ \A j \in B : j \in buffer[w][ChatOf[j]] /\ ChatOf[j] = d
  BY DEF Inv, Place, BufferFits, TypeOK
<1>4. B \subseteq received
  BY <1>3, PendingOf DEF Has, Inv, Place, JobsReceived
<1>5. ASSUME NEW v \in Workers, NEW j \in Jobs, j \in marked'[v] \/ j \in buffer'[v][ChatOf[j]]
      PROVE  j \notin flushed'
  <2>1. j \notin flushed /\ Has(v, j)
    BY <1>2, <1>5, GoAssumption DEF Windows, Has
  <2>2. ASSUME j \in B  PROVE FALSE
    <3>1. v = w
      BY <1>3, <2>1, <2>2 DEF Has, Inv, Place, OneHolder
    <3> QED  BY <1>2, <1>3, <1>5, <2>2, <3>1 DEF Inv, Place, OneStage, Apart
  <2> QED  BY <1>2, <2>1, <2>2
<1>6. Windows'
  BY <1>1, <1>2, <1>4, <1>5 DEF Windows
<1>7. flushed \cap B = {}
  BY <1>3 DEF Windows
<1>8. IsFiniteSet(flushed) /\ IsFiniteSet(B)
  BY <1>3, FS_Subset, GoAssumption DEF Inv, TypeOK
<1> HIDE DEF B
<1>9. KeepsTwoFifths'
  BY <1>1, <1>2, <1>7, <1>8, ShareOfBoth DEF KeepsTwoFifths, Windows
<1> QED  BY <1>6, <1>9

\* However the jobs fall into windows, two fifths of them are kept.
THEOREM TwoFifthsKept == Spec => []KeepsTwoFifths
<1>1. Init => Windows /\ KeepsTwoFifths
  <2> SUFFICES ASSUME Init  PROVE Windows /\ KeepsTwoFifths
    OBVIOUS
  <2>1. Windows
    BY GoAssumption DEF Init, Windows
  <2>2. Cardinality(kept) = 0 /\ Cardinality(flushed) = 0
    BY FS_EmptySet DEF Init
  <2> QED  BY <2>1, <2>2 DEF KeepsTwoFifths
<1>2. Inv /\ Windows /\ KeepsTwoFifths /\ [Next]_vars => (Windows /\ KeepsTwoFifths)'
  <2> SUFFICES ASSUME Inv, Windows, KeepsTwoFifths, [Next]_vars  PROVE Windows' /\ KeepsTwoFifths'
    OBVIOUS
  <2>1. CASE ~\E w \in Workers, c \in Chats : Flush(w, c)
    <3>1. UNCHANGED <<flushed, kept>>
      BY <2>1, OnlyFlushCloses
    <3> QED  BY <3>1, Waiting DEF Windows, KeepsTwoFifths
  <2> QED  BY <2>1, FlushClosesWindow
<1> QED  BY <1>1, <1>2, InvHolds, PTL DEF Spec
=============================================================================
