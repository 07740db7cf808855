---------------------------- MODULE QueueFallback ----------------------------
(***************************************************************************)
(* The queue manager of the Python workers when Redis fails                *)
(* (backend/app/queue_manager.py).  A worker that does not reach Redis at  *)
(* its start keeps everything in its own memory; one that does falls back  *)
(* to its memory call by call.  The server may have done what a failed     *)
(* call asked for, and a call that times out is sent again by the client.  *)
(***************************************************************************)
EXTENDS Naturals, Sequences, FiniteSets

CONSTANTS
  Workers,     \* worker processes
  Default,     \* worker-1: the consumer as far as the memory knows
  Msgs,        \* messages that listeners of any worker detect
  MaxRetries,  \* 1 in the code
  MaxFaults,   \* bound on failed calls and crashes
  NoJob        \* the consumer holds no job

Jobs == [msg : Msgs, retry : 0..MaxRetries]

ASSUME FallbackAssumption ==
  /\ IsFiniteSet(Workers) /\ Default \in Workers
  /\ MaxRetries \in Nat /\ MaxFaults \in Nat
  /\ NoJob \notin Jobs

VARIABLES
  seen,      \* Redis: the messages marked by SET NX
  queue,     \* Redis: the list tg_message_queue
  consumer,  \* Redis: active_consumer
  texts,     \* Redis: is there an active message to reply with?
  useRedis,  \* did connect() reach Redis?
  memSeen,   \* _memory_seen, by worker
  memQueue,  \* its _memory_queue
  marked,    \* how many of its handlers are about to queue each message
  loop,      \* where its consumer loop is
  held,      \* the job the loop has popped
  faults,    \* failed calls and crashes so far
  answered,  \* history: reply tasks started, by message
  touched,   \* history: faults that concerned the message
  dropped    \* history: messages dropped because there was no text

redis   == <<seen, queue, consumer, texts>>
local   == <<useRedis, memSeen, memQueue, marked, loop, held>>
history == <<answered, touched, dropped>>
vars    == <<redis, local, faults, history>>

TypeOK ==
  /\ seen \subseteq Msgs
  /\ queue \in Seq(Jobs)
  /\ consumer \in Workers
  /\ texts \in BOOLEAN
  /\ useRedis \in [Workers -> BOOLEAN]
  /\ memSeen \in [Workers -> SUBSET Msgs]
  /\ memQueue \in [Workers -> Seq(Jobs)]
  /\ marked \in [Workers -> [Msgs -> Nat]]
  /\ loop \in [Workers -> {"check", "pop", "texts", "requeue"}]
  /\ held \in [Workers -> Jobs \cup {NoJob}]
  /\ faults \in 0..MaxFaults
  /\ answered \in [Msgs -> Nat] /\ touched \in [Msgs -> Nat] /\ dropped \subseteq Msgs

Init ==
  /\ seen = {} /\ queue = <<>> /\ consumer \in Workers /\ texts \in BOOLEAN
  /\ useRedis \in [Workers -> BOOLEAN]
  /\ memSeen = [w \in Workers |-> {}]
  /\ memQueue = [w \in Workers |-> <<>>]
  /\ marked = [w \in Workers |-> [m \in Msgs |-> 0]]
  /\ loop = [w \in Workers |-> "check"]
  /\ held = [w \in Workers |-> NoJob]
  /\ faults = 0
  /\ answered = [m \in Msgs |-> 0] /\ touched = [m \in Msgs |-> 0] /\ dropped = {}

-----------------------------------------------------------------------------
\* How a call of a worker goes: Redis answers, it fails before or after the
\* server has done it, or the client sends it twice; or Redis is not used.
Outcomes == {"ok", "before", "after", "twice", "memory"}

\* S: the messages that a failure concerns.
Call(w, out, S) ==
  /\ (out = "memory") = ~useRedis[w]
  /\ IF out \in {"ok", "memory"} THEN UNCHANGED <<faults, touched>>
     ELSE /\ faults < MaxFaults /\ faults' = faults + 1
          /\ touched' = [m \in Msgs |-> IF m \in S THEN touched[m] + 1 ELSE touched[m]]

Falls(out) == out \in {"before", "after", "memory"}
Served(out) == out \in {"ok", "after", "twice"}

\* Mutant: the fallback does not look at the messages it has seen.
NewToEverybody(w, out, m) == out = "ok" => m \notin seen

\* Does is_duplicate_and_mark let the message through?  The second of two
\* attempts finds the mark of the first.
New(w, out, m) ==
  \/ out = "ok" /\ m \notin seen
  \/ Falls(out) /\ m \notin memSeen[w]

\* A listener of worker w detects the message.
Deliver(w, m) ==
  /\ \E out \in Outcomes :
       /\ Call(w, out, {m})
       /\ seen' = IF Served(out) THEN seen \cup {m} ELSE seen
       /\ memSeen' = IF Falls(out) THEN [memSeen EXCEPT ![w] = @ \cup {m}] ELSE memSeen
       /\ marked' = IF New(w, out, m) THEN [marked EXCEPT ![w][m] = @ + 1] ELSE marked
  /\ UNCHANGED <<queue, consumer, texts, useRedis, memQueue, loop, held, answered, dropped>>

\* The job goes to the end of the Redis list, or of the worker's own queue.
Push(w, j) ==
  \E out \in Outcomes :
    /\ Call(w, out, {j.msg})
    /\ queue' = queue \o (IF out = "twice" THEN <<j, j>> ELSE IF Served(out) THEN <<j>> ELSE <<>>)
    /\ memQueue' = IF Falls(out) THEN [memQueue EXCEPT ![w] = Append(@, j)] ELSE memQueue

Enqueue(w, m) ==
  /\ marked[w][m] > 0
  /\ marked' = [marked EXCEPT ![w][m] = @ - 1]
  /\ Push(w, [msg |-> m, retry |-> 0])
  /\ UNCHANGED <<seen, consumer, texts, useRedis, memSeen, loop, held, answered, dropped>>

-----------------------------------------------------------------------------
Step(w, pc) == loop' = [loop EXCEPT ![w] = pc]

\* When the role cannot be read, the default worker believes that it has it.
CheckConsumer(w) ==
  /\ loop[w] = "check"
  /\ \E out \in Outcomes \ {"after", "twice"} :
       /\ Call(w, out, {})
       /\ w = IF out = "ok" THEN consumer ELSE Default
  /\ Step(w, "pop")
  /\ UNCHANGED <<redis, useRedis, memSeen, memQueue, marked, held, answered, dropped>>

\* How many jobs the server gives out for the call.
Taken(out) ==
  CASE out \in {"ok", "after"} -> 1
    [] out = "twice" -> 2
    [] OTHER -> 0

DropFirst(s, n) == SubSeq(s, n + 1, Len(s))

\* The job the call returns, if any: after a failure one from memory, after two
\* attempts the second one that was given out.
Got(w, out) ==
  LET from == CASE out = "ok" -> queue
                [] out = "twice" -> DropFirst(queue, 1)
                [] OTHER -> memQueue[w]
  IN IF from = <<>> THEN <<>> ELSE <<Head(from)>>

\* dequeue_message; a job that was given out and did not arrive is lost.
Pop(w) ==
  /\ loop[w] = "pop"
  /\ \E out \in Outcomes :
       /\ Call(w, out, {queue[i].msg : i \in {k \in DOMAIN queue : k <= Taken(out)}})
       /\ queue' = DropFirst(queue, Taken(out))
       /\ memQueue' = IF Falls(out) THEN [memQueue EXCEPT ![w] = DropFirst(@, 1)] ELSE memQueue
       /\ LET got == Got(w, out)
          IN IF got = <<>> THEN Step(w, "check") /\ held' = held
             ELSE Step(w, "texts") /\ held' = [held EXCEPT ![w] = Head(got)]
  /\ UNCHANGED <<seen, consumer, texts, useRedis, memSeen, marked, answered, dropped>>

\* With a text to send a reply task is started.  A worker has no texts of its
\* own: none are found when they cannot be read.
ReadTexts(w) ==
  /\ loop[w] = "texts"
  /\ \E out \in Outcomes \ {"after", "twice"} :
       /\ Call(w, out, {held[w].msg})
       /\ IF out = "ok" /\ texts
          THEN /\ answered' = [answered EXCEPT ![held[w].msg] = @ + 1]
               /\ held' = [held EXCEPT ![w] = NoJob]
               /\ Step(w, "check")
          ELSE Step(w, "requeue") /\ UNCHANGED <<held, answered>>
  /\ UNCHANGED <<redis, useRedis, memSeen, memQueue, marked, dropped>>

\* Mutant: the retries are not counted.
SameTry(j) == j

NextTry(j) == [j EXCEPT !.retry = @ + 1]

\* Mutant: a job that cannot be answered is forgotten.
Forget(w) ==
  /\ loop[w] = "requeue"
  /\ held' = [held EXCEPT ![w] = NoJob] /\ Step(w, "check")
  /\ UNCHANGED <<redis, useRedis, memSeen, memQueue, marked, faults, history>>

Exhausted(j) == j.retry >= MaxRetries

\* requeue_for_retry: one more turn, or the job is dropped.
Requeue(w) ==
  /\ loop[w] = "requeue"
  /\ LET j == held[w]
     IN IF Exhausted(j)
        THEN dropped' = dropped \cup {j.msg} /\ UNCHANGED <<queue, memQueue, faults, touched>>
        ELSE Push(w, NextTry(j)) /\ dropped' = dropped
  /\ held' = [held EXCEPT ![w] = NoJob] /\ Step(w, "check")
  /\ UNCHANGED <<seen, consumer, texts, useRedis, memSeen, marked, answered>>

-----------------------------------------------------------------------------
\* The messages a worker's memory knows about.
Local(w) ==
  memSeen[w] \cup {m \in Msgs : marked[w][m] > 0 \/ (held[w] # NoJob /\ held[w].msg = m)}
    \cup {memQueue[w][i].msg : i \in DOMAIN memQueue[w]}

\* The worker crashes and starts again, with Redis or without.
Restart(w) ==
  /\ faults < MaxFaults /\ faults' = faults + 1
  /\ touched' = [m \in Msgs |-> IF m \in Local(w) THEN touched[m] + 1 ELSE touched[m]]
  /\ \E b \in BOOLEAN : useRedis' = [useRedis EXCEPT ![w] = b]
  /\ memSeen' = [memSeen EXCEPT ![w] = {}]
  /\ memQueue' = [memQueue EXCEPT ![w] = <<>>]
  /\ marked' = [marked EXCEPT ![w] = [m \in Msgs |-> 0]]
  /\ Step(w, "check")
  /\ held' = [held EXCEPT ![w] = NoJob]
  /\ UNCHANGED <<redis, answered, dropped>>

\* The rotator moves the role; the dashboard adds or removes texts.
ChangeState ==
  /\ faults < MaxFaults /\ faults' = faults + 1
  /\ consumer' \in Workers /\ texts' \in BOOLEAN
  /\ UNCHANGED <<seen, queue, local, history>>

Consume(w) == CheckConsumer(w) \/ Pop(w) \/ ReadTexts(w) \/ Requeue(w)

Next ==
  \/ \E w \in Workers, m \in Msgs : Deliver(w, m) \/ Enqueue(w, m)
  \/ \E w \in Workers : Consume(w) \/ Restart(w)
  \/ ChangeState

Spec == Init /\ [][Next]_vars

\* Handlers and consumer loops go on.
Fairness ==
  \A w \in Workers : WF_vars(Consume(w)) /\ \A m \in Msgs : WF_vars(Enqueue(w, m))

FairSpec == Spec /\ Fairness

-----------------------------------------------------------------------------
Places(m, s)  == {i \in DOMAIN s : s[i].msg = m}
Holding(m, h) == {w \in Workers : h[w] # NoJob /\ h[w].msg = m}

\* The numbered items of all workers together, f[w] being those of w.
Pool(f) == UNION {{<<w, i>> : i \in f[w]} : w \in Workers}

Stored(m, q)   == Pool([w \in Workers |-> Places(m, q[w])])
Handlers(m, n) == Pool([w \in Workers |-> 1..n[w][m]])

\* The jobs of a message: in queues, consumers and handlers.
Copies(m) ==
  Cardinality(Places(m, queue)) + Cardinality(Stored(m, memQueue))
    + Cardinality(Holding(m, held)) + Cardinality(Handlers(m, marked))

\* A message gets one job, one more for each worker without Redis, which sees
\* messages for itself, and one more for each fault that concerns it.
CopiesBound ==
  \A m \in Msgs :
    Copies(m) + answered[m] <= 1 + touched[m] + Cardinality({w \in Workers : ~useRedis[w]})

\* A message that was detected is not lost unless a fault concerned it or there
\* was no text to answer with.
LossNeedsFault ==
  \A m \in Msgs :
    m \in seen \cup UNION {memSeen[w] : w \in Workers}
      => Copies(m) > 0 \/ answered[m] > 0 \/ m \in dropped \/ touched[m] > 0

\* In the end the Redis list is empty, unless its consumer works without Redis,
\* and so are the memory queues but for jobs that are stranded: those of a worker
\* that believes in Redis, and of one that is not worker-1.
QueuesDrain ==
  <>[](/\ queue # <<>> => ~useRedis[consumer]
       /\ \A w \in Workers : memQueue[w] # <<>> => useRedis[w] \/ w # Default)
=============================================================================
