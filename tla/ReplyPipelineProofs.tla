------------------------ MODULE ReplyPipelineProofs ------------------------
(***************************************************************************)
(* Theorems about ReplyPipeline, for every set of workers, messages,       *)
(* groups, sessions and pair maps and every value of the limits.           *)
(***************************************************************************)
EXTENDS ReplyPipeline, FiniteSetTheorems, TLAPS

-----------------------------------------------------------------------------
(* Lemmas about the operators of the model.                                *)

\* The three updates of a task leave tasks everywhere.
LEMMA TaskUpdates ==
  ASSUME TypeOK, NEW w \in Workers, NEW m \in Msgs,
         \/ EndTask(w, m)
         \/ \E pc \in Locked : Goto(w, m, pc)
         \/ \E s \in Sessions, b \in BOOLEAN : Using(w, m, s, b)
  PROVE  task' \in [Workers -> [Msgs -> Tasks]]
<1>1. task[w][m] \in Tasks  BY DEF TypeOK
<1>2. NoTask \in Tasks
  BY ConstantsAssumption DEF NoTask, Tasks, NoAcc
<1>3. task \in [Workers -> [Msgs -> Tasks]]  BY DEF TypeOK
<1>4. CASE EndTask(w, m)
  BY <1>2, <1>3, <1>4 DEF EndTask
<1>5. ASSUME NEW pc \in Locked, Goto(w, m, pc)  PROVE task' \in [Workers -> [Msgs -> Tasks]]
  <2>1. [task[w][m] EXCEPT !.pc = pc] \in Tasks
    BY <1>1 DEF Tasks
  <2> QED  BY <1>3, <1>5, <2>1 DEF Goto
<1>6. ASSUME NEW s \in Sessions, NEW b \in BOOLEAN, Using(w, m, s, b)
      PROVE  task' \in [Workers -> [Msgs -> Tasks]]
  <2>1. [pc |-> "rule2", retry |-> task[w][m].retry, acc |-> s, backup |-> b] \in Tasks
    BY <1>1 DEF Tasks, Locked, Running
  <2> QED  BY <1>3, <1>6, <2>1 DEF Using
<1> QED  BY <1>4, <1>5, <1>6

\* Setting one counter leaves counters everywhere.
LEMMA CounterUpdate ==
  ASSUME NEW f \in [Chats -> [Sessions -> Nat]], NEW c \in Chats, NEW s, NEW n,
         s \in Sessions => n \in Nat
  PROVE  [f EXCEPT ![c][s] = n] \in [Chats -> [Sessions -> Nat]]
<1>1. [f[c] EXCEPT ![s] = n] \in [Sessions -> Nat]
  OBVIOUS
<1> QED  BY <1>1

\* So does counting a reply in one of the three, and so does a reset.
Tally == [Chats -> [Sessions -> Nat]]

LEMMA CountingType ==
  ASSUME TypeOK, NEW f \in Tally, NEW w \in Workers, NEW m \in Msgs
  PROVE  Counting(f, w, m) \in Tally
<1> DEFINE s == task[w][m].acc
           n == f[ChatOf[m]][s] + 1
<1>1. ChatOf[m] \in Chats /\ f[ChatOf[m]] \in [Sessions -> Nat]
  BY ConstantsAssumption DEF Tally
<1>2. s \in Sessions => n \in Nat
  <2> HIDE DEF s
  <2> QED  BY <1>1 DEF n
<1> HIDE DEF n
<1>3. [f EXCEPT ![ChatOf[m]][s] = n] \in Tally
  BY <1>1, <1>2, CounterUpdate DEF Tally
<1> QED  BY <1>3 DEF Counting, n

LEMMA ResetType ==
  ASSUME TypeOK, NEW c \in Chats, NEW s, ResetCounter(c, s)
  PROVE  counter' \in Tally /\ row' \in Tally /\ missed' \in Tally
<1>1. \A f \in Tally : Reset(f, c, s) \in Tally
  BY CounterUpdate DEF Reset, Tally
<1>2. counter \in Tally /\ row \in Tally /\ missed \in Tally
  BY DEF TypeOK, Tally
<1> QED  BY <1>1, <1>2 DEF ResetCounter

\* What they make of one of its values.
LEMMA CountingValue ==
  ASSUME NEW f \in Tally, NEW w, NEW m, NEW c \in Chats, NEW s \in Sessions
  PROVE  Counting(f, w, m)[c][s] =
           IF m \in InThread /\ ChatOf[m] = c /\ task[w][m].acc = s THEN f[c][s] + 1 ELSE f[c][s]
<1> DEFINE d == ChatOf[m]
           a == task[w][m].acc
<1> HIDE DEF d, a
<1>1. \A n : [f EXCEPT ![d] = [f[d] EXCEPT ![a] = n]][c][s]
                = IF d = c /\ a = s THEN n ELSE f[c][s]
  BY DEF Tally
<1>2. CASE m \in InThread
  <2>1. Counting(f, w, m) = [f EXCEPT ![d] = [f[d] EXCEPT ![a] = f[d][a] + 1]]
    BY <1>2 DEF Counting, d, a
  <2> QED  BY <1>1, <1>2, <2>1 DEF d, a
<1> QED  BY <1>2 DEF Counting

LEMMA ResetValue ==
  ASSUME NEW f \in Tally, NEW d, NEW a, NEW c \in Chats, NEW s \in Sessions
  PROVE  Reset(f, d, a)[c][s] = IF d = c /\ a = s THEN 0 ELSE f[c][s]
<1>1. Reset(f, d, a) = [f EXCEPT ![d] = [f[d] EXCEPT ![a] = 0]]
  BY DEF Reset
<1> QED  BY <1>1 DEF Tally

\* A requeued job is a job, and the queue stays a queue of jobs.
LEMMA RetryQueueType ==
  ASSUME TypeOK, NEW j \in Jobs
  PROVE  RetryQueue(j) \in Seq(Jobs)
<1>1. CASE j.retry >= MaxRetries
  BY <1>1 DEF RetryQueue, TypeOK
<1>2. CASE ~(j.retry >= MaxRetries)
  <2>1. [msg |-> j.msg, retry |-> j.retry + 1] \in Jobs
    BY <1>2, ConstantsAssumption DEF Jobs
  <2> QED  BY <1>2, <2>1 DEF RetryQueue, TypeOK
<1> QED  BY <1>1, <1>2

\* The map a worker reads is a pair map, whichever of the two it is.
LEMMA PairsOfType ==
  ASSUME TypeOK, NEW w \in Workers
  PROVE  PairsOf(w) \in [Chats -> Pairs]
BY DEF PairsOf, TypeOK

\* No map at all is one without pairs.
LEMMA NoPairsType == NoPairs \in [Chats -> Pairs]
BY DEF NoPairs, Pairs

\* The account a task can be given is a session.
LEMMA CachedAccount ==
  ASSUME TypeOK, NEW w \in Workers, NEW m \in Msgs
  PROVE  LET q == PairsOf(w)[ChatOf[m]] IN
         /\ Cached(w, IF q = NoPair THEN replierOf[w][ChatOf[m]] ELSE q.primary)
              \in Sessions \cup {NoAcc}
         /\ Cached(w, q.backup) \in Sessions \cup {NoAcc}
<1>1. PairsOf(w)[ChatOf[m]] \in Pairs /\ replierOf[w][ChatOf[m]] \in Sessions \cup {NoAcc}
  BY ConstantsAssumption, PairsOfType DEF TypeOK
<1> QED  BY <1>1 DEF Cached, Pairs, NoPair

\* What the three updates of a task make of it.
LEMMA TaskUpdated ==
  ASSUME TypeOK, NEW w \in Workers, NEW m \in Msgs
  PROVE  /\ \A pc : Goto(w, m, pc) => /\ task'[w][m].pc = pc
                                      /\ task'[w][m].retry = task[w][m].retry
                                      /\ task'[w][m].acc = task[w][m].acc
         /\ EndTask(w, m) => task'[w][m].pc = "none"
         /\ \A s, b : Using(w, m, s, b) => /\ task'[w][m].pc = "rule2"
                                           /\ task'[w][m].retry = task[w][m].retry
<1>1. task \in [Workers -> [Msgs -> Tasks]] /\ task[w][m] \in Tasks
  BY DEF TypeOK
<1>2. ASSUME NEW pc, Goto(w, m, pc)
      PROVE  /\ task'[w][m].pc = pc /\ task'[w][m].retry = task[w][m].retry
             /\ task'[w][m].acc = task[w][m].acc
  <2>1. task'[w][m] = [task[w][m] EXCEPT !.pc = pc]
    BY <1>1, <1>2 DEF Goto
  <2> QED  BY <1>1, <2>1 DEF Tasks
<1>3. EndTask(w, m) => task'[w][m].pc = "none"
  BY <1>1 DEF EndTask, NoTask
<1>4. ASSUME NEW s, NEW b, Using(w, m, s, b)
      PROVE  task'[w][m].pc = "rule2" /\ task'[w][m].retry = task[w][m].retry
  BY <1>1, <1>4 DEF Using
<1> QED  BY <1>2, <1>3, <1>4

-----------------------------------------------------------------------------
(* Type correctness.                                                       *)

\* The consumer loop holds a job exactly when it has popped one.
HoldsJob == \A w \in Workers : loop[w] = "got" <=> held[w] # NoJob

\* The listener and the consumer loop keep every variable in its type.
LEMMA TypeConsumer ==
  ASSUME TypeOK, HoldsJob, NEW w \in Workers,
         \/ \E m \in Msgs : MarkSeen(w, m) \/ Enqueue(w, m)
         \/ ConsumerStep(w)
  PROVE  TypeOK' /\ HoldsJob'
<1> USE ConstantsAssumption
<1>1. ASSUME NEW m \in Msgs, MarkSeen(w, m)  PROVE TypeOK' /\ HoldsJob'
  BY <1>1 DEF MarkSeen, TypeOK, HoldsJob, accounts, history, tally
<1>2. ASSUME NEW m \in Msgs, Enqueue(w, m)  PROVE TypeOK' /\ HoldsJob'
  <2>1. [msg |-> m, retry |-> 0] \in Jobs
    BY DEF Jobs
  <2>2. queue' \in Seq(Jobs)
    BY <1>2, <2>1 DEF Enqueue, TypeOK
  <2> QED  BY <1>2, <2>2 DEF Enqueue, TypeOK, HoldsJob, accounts, history, tally
<1>3. CASE CheckConsumer(w)
  BY <1>3 DEF CheckConsumer, TypeOK, HoldsJob, redis, accounts, history, tally
<1>4. CASE Pop(w)
  <2>1. Head(queue) \in Jobs /\ Tail(queue) \in Seq(Jobs)
    BY <1>4 DEF Pop, TypeOK
  <2> QED  BY <1>4, <2>1 DEF Pop, TypeOK, HoldsJob, accounts, history, tally
<1>5. CASE PopEmpty(w)
  <2>1. \A old \in [Sessions -> Status \cup {"absent"}] :
          Refreshed(old) \in [Sessions -> Status \cup {"absent"}]
    BY DEF Refreshed, Loadable, TypeOK
  <2>2. [c \in Chats |-> FirstOf(PairsOf(w)[c])] \in [Chats -> Sessions \cup {NoAcc}]
    BY PairsOfType DEF FirstOf, Pairs, NoPair
  <2>3. /\ Refreshed(cache[w]) \in [Sessions -> Status \cup {"absent"}]
        /\ cache \in [Workers -> [Sessions -> Status \cup {"absent"}]]
        /\ replierOf \in [Workers -> [Chats -> Sessions \cup {NoAcc}]]
    BY <2>1 DEF TypeOK
  <2>4. cache' \in [Workers -> [Sessions -> Status \cup {"absent"}]]
    BY <1>5, <2>3 DEF PopEmpty
  <2>5. replierOf' \in [Workers -> [Chats -> Sessions \cup {NoAcc}]]
    BY <1>5, <2>2, <2>3 DEF PopEmpty
  <2> QED  BY <1>5, <2>4, <2>5 DEF PopEmpty, TypeOK, HoldsJob, redis, accounts, history, tally
<1>6. CASE SpawnReply(w)
  <2>1. held[w] \in Jobs
    BY <1>6 DEF SpawnReply, TypeOK, HoldsJob
  <2>2. [NoTask EXCEPT !.pc = "lock", !.retry = held[w].retry] \in Tasks
    BY <2>1 DEF NoTask, Tasks, Jobs, NoAcc
  <2>3. task' \in [Workers -> [Msgs -> Tasks]]
    BY <1>6, <2>2 DEF SpawnReply, TypeOK
  <2> QED  BY <1>6, <2>3 DEF SpawnReply, TypeOK, HoldsJob, redis, accounts, history, tally
<1>7. CASE RequeueUntried(w)
  <2>1. held[w] \in Jobs
    BY <1>7 DEF RequeueUntried, TypeOK, HoldsJob
  <2>2. RetryQueue(held[w]) \in Seq(Jobs)
    BY <2>1, RetryQueueType
  <2> QED  BY <1>7, <2>2 DEF RequeueUntried, TypeOK, HoldsJob, accounts, history, tally
<1> QED  BY <1>1, <1>2, <1>3, <1>4, <1>5, <1>6, <1>7 DEF ConsumerStep

\* So does every step of a reply task.
LEMMA TypeTask ==
  ASSUME TypeOK, HoldsJob, NEW w \in Workers, NEW m \in Msgs, TaskStep(w, m)
  PROVE  TypeOK' /\ HoldsJob'
<1> USE ConstantsAssumption
<1>a. task' \in [Workers -> [Msgs -> Tasks]]
  <2>1. CASE ChooseAccount(w, m)
    <3>1. PICK s \in Sessions \cup {NoAcc}, b \in BOOLEAN :
            \/ s # NoAcc /\ Using(w, m, s, b)
            \/ EndTask(w, m) \/ Goto(w, m, "requeue")
      BY <2>1, CachedAccount DEF ChooseAccount, Usable
    <3>2. "requeue" \in Locked
      BY DEF Locked, Running
    <3> QED  BY <3>1, <3>2, TaskUpdates
  <2>2. CASE ~ChooseAccount(w, m)
    <3>1. EndTask(w, m) \/ \E pc \in Locked : Goto(w, m, pc)
      BY <2>2 DEF TaskStep, AcquireGroupLock, AcquireSemaphore, CheckThreadReplies,
        StartTyping, SimulateReply, PostReply, ConfirmReply, LoseConfirmation,
        FailReply, RevokeSession, TaskRaises, RecordSuccess, RequeueFailed,
        Locked, Running, Counted
    <3> QED  BY <3>1, TaskUpdates
  <2> QED  BY <2>1, <2>2
<1>b. task[w][m] \in Tasks
  BY DEF TypeOK
<1> USE <1>a
<1>1. CASE AcquireGroupLock(w, m) \/ AcquireSemaphore(w, m) \/ ChooseAccount(w, m)
           \/ TaskRaises(w, m)
  BY <1>1 DEF AcquireGroupLock, AcquireSemaphore, ChooseAccount, TaskRaises,
              TypeOK, HoldsJob, redis, accounts, history, tally
<1>c. counter \in Tally /\ row \in Tally /\ missed \in Tally
  BY DEF TypeOK, Tally
<1>2. CASE CheckThreadReplies(w, m) \/ RecordSuccess(w, m)
  <2>1. ChatOf[m] \in Chats
    OBVIOUS
  <2>2. counter' \in Tally /\ row' \in Tally /\ missed' \in Tally
    <3>1. CASE CheckThreadReplies(w, m)
      <4>1. CASE m \in InThread
        BY <1>c, <3>1, <4>1 DEF CheckThreadReplies, tally
      <4>2. CASE m \notin InThread
        BY <2>1, <3>1, <4>2, ResetType DEF CheckThreadReplies
      <4> QED  BY <4>1, <4>2
    <3>2. CASE RecordSuccess(w, m)
      BY <1>c, <3>2, CountingType DEF RecordSuccess, history, tally
    <3> QED  BY <1>2, <3>1, <3>2
  <2>3. UNCHANGED <<posted, unsure>>
    BY <1>2 DEF CheckThreadReplies, RecordSuccess, history
  <2> QED  BY <1>2, <2>2, <2>3
           DEF CheckThreadReplies, RecordSuccess, TypeOK, Tally, HoldsJob, accounts
<1>3. CASE StartTyping(w, m) \/ ConfirmReply(w, m)
  BY <1>3 DEF StartTyping, ConfirmReply, TypeOK, Status, HoldsJob, redis, history, tally
<1>7. CASE SimulateReply(w, m)
  <2>1. row' \in Tally
    BY <1>7, <1>c, CountingType DEF SimulateReply
  <2> QED  BY <1>7, <2>1 DEF SimulateReply, TypeOK, Tally, Status, HoldsJob, redis
<1>4. CASE PostReply(w, m)
  <2>1. row' \in Tally
    BY <1>4, <1>c, CountingType DEF PostReply
  <2> QED  BY <1>4, <2>1 DEF PostReply, TypeOK, Tally, HoldsJob, redis, accounts
<1>5. CASE LoseConfirmation(w, m) \/ FailReply(w, m) \/ RevokeSession(w, m)
  <2>1. status' \in [Sessions -> Status]
    BY <1>5 DEF LoseConfirmation, FailReply, RevokeSession, TypeOK, Status
  <2>2. files' \subseteq Sessions /\ unsure' \subseteq Msgs /\ UNCHANGED <<row, posted>>
    BY <1>5 DEF LoseConfirmation, FailReply, RevokeSession, TypeOK, history, tally
  <2>3. missed' = missed \/ missed' = Counting(missed, w, m)
    BY <1>5 DEF LoseConfirmation, FailReply, RevokeSession, history, tally
  <2>4. row' \in Tally /\ missed' \in Tally
    BY <1>c, <2>2, <2>3, CountingType
  <2> QED  BY <1>5, <2>1, <2>2, <2>4
           DEF LoseConfirmation, FailReply, RevokeSession, TypeOK, Tally, HoldsJob, redis
<1>6. CASE RequeueFailed(w, m)
  <2>1. [msg |-> m, retry |-> task[w][m].retry] \in Jobs
    BY <1>b DEF Jobs, Tasks
  <2>2. queue' \in Seq(Jobs)
    BY <1>6, <2>1, RetryQueueType DEF RequeueFailed
  <2> QED  BY <1>6, <2>2 DEF RequeueFailed, TypeOK, HoldsJob, accounts, history, tally
<1> QED  BY <1>1, <1>2, <1>3, <1>4, <1>5, <1>6, <1>7 DEF TaskStep

\* And so do crashes, restarts and the API process.
LEMMA TypeEnvironment ==
  ASSUME TypeOK, HoldsJob, Environment
  PROVE  TypeOK' /\ HoldsJob'
<1> USE ConstantsAssumption
<1>1. ASSUME NEW w \in Workers, Crash(w)  PROVE TypeOK' /\ HoldsJob'
  <2>1. NoTask \in Tasks
    BY DEF NoTask, Tasks, NoAcc
  <2>2. task' \in [Workers -> [Msgs -> Tasks]]
    BY <1>1, <2>1 DEF Crash, TypeOK
  <2>3. missed' \in [Chats -> [Sessions -> Nat]]
    BY <1>1 DEF Crash, TypeOK
  <2> QED  BY <1>1, <2>2, <2>3 DEF Crash, Disturb, TypeOK, HoldsJob, redis, accounts
<1>2. ASSUME NEW w \in Workers, Restart(w)  PROVE TypeOK' /\ HoldsJob'
  <2>1. Refreshed([s \in Sessions |-> "absent"]) \in [Sessions -> Status \cup {"absent"}]
    BY DEF Refreshed, Loadable, TypeOK
  <2>2. pair' \in [Workers -> [Chats -> Pairs]] /\ own' \in [Workers -> [Chats -> Pairs]]
    <3>1. pair \in [Workers -> [Chats -> Pairs]] /\ own \in [Workers -> [Chats -> Pairs]]
      BY DEF TypeOK
    <3>2. ASSUME NEW a \in Assignments,
                 pair' = [pair EXCEPT ![w] = a], own' = [own EXCEPT ![w] = a]
          PROVE  pair' \in [Workers -> [Chats -> Pairs]] /\ own' \in [Workers -> [Chats -> Pairs]]
      BY <3>1, <3>2
    <3>3. CASE pair' = pair /\ own' = [own EXCEPT ![w] = NoPairs]
      BY <3>1, <3>3, NoPairsType
    <3> QED  BY <1>2, <3>2, <3>3 DEF Restart
  <2>3. [c \in Chats |-> FirstOf(PairsOf(w)'[c])] \in [Chats -> Sessions \cup {NoAcc}]
    <3>1. PairsOf(w)' \in [Chats -> Pairs]
      BY <2>2 DEF PairsOf
    <3> QED  BY <3>1 DEF FirstOf, Pairs, NoPair
  <2>4. /\ [s \in Sessions |-> "absent"] \in [Sessions -> Status \cup {"absent"}]
        /\ [c \in Chats |-> NoAcc] \in [Chats -> Sessions \cup {NoAcc}]
    OBVIOUS
  <2>5. /\ cache \in [Workers -> [Sessions -> Status \cup {"absent"}]]
        /\ replierOf \in [Workers -> [Chats -> Sessions \cup {NoAcc}]]
    BY DEF TypeOK
  <2>6. cache' \in [Workers -> [Sessions -> Status \cup {"absent"}]]
    <3>1. \/ cache' = [cache EXCEPT ![w] = Refreshed([s \in Sessions |-> "absent"])]
          \/ cache' = [cache EXCEPT ![w] = [s \in Sessions |-> "absent"]]
      BY <1>2 DEF Restart
    <3> QED  BY <2>1, <2>4, <2>5, <3>1
  <2>7. replierOf' \in [Workers -> [Chats -> Sessions \cup {NoAcc}]]
    <3>1. \/ replierOf' = [replierOf EXCEPT ![w] = [c \in Chats |-> FirstOf(PairsOf(w)'[c])]]
          \/ replierOf' = [replierOf EXCEPT ![w] = [c \in Chats |-> NoAcc]]
      BY <1>2 DEF Restart
    <3> QED  BY <2>3, <2>4, <2>5, <3>1
  <2> QED  BY <1>2, <2>2, <2>6, <2>7 DEF Restart, TypeOK, HoldsJob, accounts, history, tally
<1>3. ASSUME NEW w \in Workers, RotateConsumer(w)  PROVE TypeOK' /\ HoldsJob'
  BY <1>3 DEF RotateConsumer, TypeOK, HoldsJob, accounts, local, history, tally
<1>4. ASSUME NEW w \in Workers, NEW a \in Assignments, ReassignRepliers(w, a)
      PROVE  TypeOK' /\ HoldsJob'
  BY <1>4, ConstantsAssumption DEF ReassignRepliers, Disturb, TypeOK, HoldsJob, accounts, local, history, tally
<1>5. ASSUME NEW s \in Sessions, RecoverAccount(s)  PROVE TypeOK' /\ HoldsJob'
  BY <1>5 DEF RecoverAccount, TypeOK, Status, HoldsJob, redis, local, history, tally
<1>6. ASSUME NEW s \in Sessions, FindRevoked(s)  PROVE TypeOK' /\ HoldsJob'
  BY <1>6 DEF FindRevoked, Disturb, TypeOK, Status, HoldsJob, redis, local, history, tally
<1>9. ASSUME NEW s \in Sessions, RecoverLate(s)  PROVE TypeOK' /\ HoldsJob'
  BY <1>9 DEF RecoverLate, Disturb, TypeOK, Status, HoldsJob, redis, local, history, tally
<1>7. CASE RestAllAccounts
  BY <1>7 DEF RestAllAccounts, Disturb, TypeOK, Status, HoldsJob, redis, local, history, tally
<1>8. ASSUME NEW c \in Chats, NEW s \in Sessions, ExpireCounter(c, s)
      PROVE  TypeOK' /\ HoldsJob'
  <2>1. ResetCounter(c, s) /\ UNCHANGED <<posted, unsure>>
    BY <1>8 DEF ExpireCounter
  <2>2. counter' \in Tally /\ row' \in Tally /\ missed' \in Tally
    BY <2>1, ResetType
  <2> QED  BY <1>8, <2>1, <2>2 DEF ExpireCounter, Disturb, TypeOK, Tally, HoldsJob, accounts, local
<1>10. CASE FlushState
  BY <1>10, NoPairsType DEF FlushState, Disturb, TypeOK, HoldsJob, accounts, local, history, tally
<1> QED  BY <1>1, <1>2, <1>3, <1>4, <1>5, <1>6, <1>7, <1>8, <1>9, <1>10 DEF Environment

LEMMA TypeInit ==
  ASSUME Init  PROVE TypeOK /\ HoldsJob
<1>1. NoTask \in Tasks
  BY ConstantsAssumption DEF NoTask, Tasks, NoAcc
<1>2. pair \in [Workers -> [Chats -> Pairs]]
  BY ConstantsAssumption DEF Init
<1>3. replierOf \in [Workers -> [Chats -> Sessions \cup {NoAcc}]]
  BY <1>2 DEF Init, FirstOf, Pairs, NoPair
<1> QED  BY <1>1, <1>2, <1>3, ConstantsAssumption DEF Init, TypeOK, HoldsJob, Status

LEMMA TypeStep ==
  ASSUME TypeOK, HoldsJob, [Next]_vars  PROVE TypeOK' /\ HoldsJob'
<1>1. CASE Next
  BY <1>1, TypeConsumer, TypeTask, TypeEnvironment DEF Next
<1>2. CASE UNCHANGED vars
  BY <1>2 DEF vars, redis, accounts, local, history, tally, TypeOK, HoldsJob
<1> QED  BY <1>1, <1>2

\* Every variable keeps its type, whatever the workers and the API do.
THEOREM TypeCorrect == Spec => [](TypeOK /\ HoldsJob)
BY TypeInit, TypeStep, PTL DEF Spec

-----------------------------------------------------------------------------
(* One job per message.                                                    *)

\* A job exists only for a message that is marked in Redis.
JobsSeen == \A m \in Msgs : Pending(m) => m \in seen

JobInv == OneJobPerMessage /\ JobsSeen

\* What the queue holds after RPUSH and after BLPOP.
LEMMA QueueAppend ==
  ASSUME queue \in Seq(Jobs), NEW j \in Jobs, queue' = Append(queue, j)
  PROVE  /\ DOMAIN queue' = DOMAIN queue \cup {Len(queue) + 1}
         /\ Len(queue) + 1 \notin DOMAIN queue
         /\ \A i \in DOMAIN queue : queue'[i] = queue[i]
         /\ queue'[Len(queue) + 1] = j
OBVIOUS

LEMMA QueueTail ==
  ASSUME queue \in Seq(Jobs), queue # <<>>, queue' = Tail(queue)
  PROVE  /\ 1 \in DOMAIN queue /\ Head(queue) = queue[1]
         /\ \A i \in DOMAIN queue' : /\ i \in Nat /\ i + 1 # 1
                                     /\ i + 1 \in DOMAIN queue
                                     /\ queue'[i] = queue[i + 1]
OBVIOUS

LEMMA RetryAddsAtMostOne ==
  ASSUME queue \in Seq(Jobs), NEW j \in Jobs, queue' = RetryQueue(j)
  PROVE  \/ queue' = queue
         \/ /\ j.retry < MaxRetries
            /\ DOMAIN queue' = DOMAIN queue \cup {Len(queue) + 1}
            /\ Len(queue) + 1 \notin DOMAIN queue
            /\ \A i \in DOMAIN queue : queue'[i] = queue[i]
            /\ queue'[Len(queue) + 1].msg = j.msg
            /\ queue'[Len(queue) + 1].retry = j.retry + 1
<1>1. CASE j.retry < MaxRetries
  <2> DEFINE k == [msg |-> j.msg, retry |-> j.retry + 1]
  <2>1. k \in Jobs /\ k.msg = j.msg /\ k.retry = j.retry + 1
    BY <1>1, ConstantsAssumption DEF Jobs
  <2>2. queue' = Append(queue, k)
    BY <1>1, ConstantsAssumption DEF RetryQueue, Jobs
  <2> HIDE DEF k
  <2> QED  BY <1>1, <2>1, <2>2, QueueAppend
<1>2. CASE ~(j.retry < MaxRetries)
  BY <1>2, ConstantsAssumption DEF RetryQueue, Jobs
<1> QED  BY <1>1, <1>2

\* A requeued job is in the queue once if no other job of its message was there.
UniqueInQueue == \A i, k \in DOMAIN queue : queue[i].msg = queue[k].msg => i = k

LEMMA RetryKeepsUnique ==
  ASSUME queue \in Seq(Jobs), NEW j \in Jobs, queue' = RetryQueue(j),
         UniqueInQueue, ~Queued(j.msg)
  PROVE  /\ UniqueInQueue'
         /\ \A m \in Msgs : Queued(m)' => Queued(m) \/ m = j.msg
<1>1. \/ queue' = queue
      \/ /\ DOMAIN queue' = DOMAIN queue \cup {Len(queue) + 1}
         /\ \A i \in DOMAIN queue : queue'[i] = queue[i]
         /\ queue'[Len(queue) + 1].msg = j.msg
  BY RetryAddsAtMostOne
<1> QED  BY <1>1 DEF UniqueInQueue, Queued

\* A step that moves no job may still lose some, as a crash does.
OnlyLosesJobs ==
  /\ UNCHANGED <<seen, queue, posted, unsure>>
  /\ \A w \in Workers : /\ marked'[w] \subseteq marked[w]
                        /\ held'[w] \in {held[w], NoJob}
                        /\ \A m \in Msgs : task'[w][m] \in {task[w][m], NoTask}

LEMMA OtherStepsOnlyLose ==
  ASSUME TypeOK,
         \/ \E w \in Workers : CheckConsumer(w) \/ PopEmpty(w)
         \/ \E w \in Workers, m \in Msgs : TaskRaises(w, m)
         \/ Environment
         \/ UNCHANGED vars
  PROVE  OnlyLosesJobs
<1> USE DEF OnlyLosesJobs, TypeOK
<1>1. ASSUME NEW w \in Workers, CheckConsumer(w) \/ PopEmpty(w)  PROVE OnlyLosesJobs
  BY <1>1 DEF CheckConsumer, PopEmpty, redis, history
<1>2. ASSUME NEW w \in Workers, NEW m \in Msgs, TaskRaises(w, m)  PROVE OnlyLosesJobs
  BY <1>2 DEF TaskRaises, EndTask, redis, history
<1>3. ASSUME NEW w \in Workers, Crash(w)  PROVE OnlyLosesJobs
  BY <1>3 DEF Crash, redis, history
<1>4. ASSUME Environment, \A w \in Workers : ~Crash(w)  PROVE OnlyLosesJobs
  BY <1>4 DEF Environment, Restart, RotateConsumer, ReassignRepliers, RecoverAccount, RecoverLate,
              FindRevoked, RestAllAccounts, FlushState, ExpireCounter, redis, local, history
<1>5. CASE UNCHANGED vars
  BY <1>5 DEF vars, redis, local, history
<1> QED  BY <1>1, <1>2, <1>3, <1>4, <1>5

\* A step of a task touches that task only, and the queue only at its end.
LEMMA TaskStepMovesOneJob ==
  ASSUME TypeOK, NEW w \in Workers, NEW m \in Msgs, TaskStep(w, m)
  PROVE  /\ Tasked(w, m)
         /\ UNCHANGED <<seen, marked, held>>
         /\ \A v \in Workers, n \in Msgs : v # w \/ n # m => task'[v][n] = task[v][n]
         /\ \/ queue' = queue
            \/ /\ queue' = RetryQueue([msg |-> m, retry |-> task[w][m].retry])
               /\ ~Tasked(w, m)'
<1>1. Tasked(w, m) /\ UNCHANGED <<seen, marked, held>>
  BY DEF TaskStep, AcquireGroupLock, AcquireSemaphore, ChooseAccount, CheckThreadReplies,
         StartTyping, SimulateReply, PostReply, ConfirmReply, LoseConfirmation, FailReply,
         RevokeSession, TaskRaises, RecordSuccess, RequeueFailed, Tasked, TaskAt, redis
<1>2. EndTask(w, m) \/ (\E pc : Goto(w, m, pc)) \/ (\E s, b : Using(w, m, s, b))
  <2>1. CASE ChooseAccount(w, m)
    <3>1. \/ EndTask(w, m) \/ Goto(w, m, "requeue")
          \/ \E s, b : Using(w, m, s, b)
      BY <2>1 DEF ChooseAccount
    <3> QED  BY <3>1
  <2>2. CASE ~ChooseAccount(w, m)
    <3>1. EndTask(w, m) \/ (\E pc : Goto(w, m, pc))
      BY <2>2 DEF TaskStep, AcquireGroupLock, AcquireSemaphore, CheckThreadReplies,
         StartTyping, SimulateReply, PostReply, ConfirmReply, LoseConfirmation, FailReply,
         RevokeSession, TaskRaises, RecordSuccess, RequeueFailed
    <3> QED  BY <3>1
  <2> QED  BY <2>1, <2>2
<1>3. \A v \in Workers, n \in Msgs : v # w \/ n # m => task'[v][n] = task[v][n]
  BY <1>2 DEF EndTask, Goto, Using, TypeOK
<1>4. CASE RequeueFailed(w, m)
  BY <1>1, <1>3, <1>4 DEF RequeueFailed, EndTask, Tasked, NoTask, TypeOK
<1>5. CASE ~RequeueFailed(w, m)
  BY <1>1, <1>3, <1>5
     DEF TaskStep, AcquireGroupLock, AcquireSemaphore, ChooseAccount, CheckThreadReplies,
         StartTyping, SimulateReply, PostReply, ConfirmReply, LoseConfirmation, FailReply,
         RevokeSession, TaskRaises, RecordSuccess, redis
<1> QED  BY <1>1, <1>3, <1>4, <1>5

LEMMA JobInvStep ==
  ASSUME TypeOK, TypeOK', HoldsJob, HoldsJob', JobInv, [Next]_vars
  PROVE  JobInv'
<1> USE DEF JobInv, OneJobPerMessage, JobsSeen, Pending, Queued, Holds, Tasked
<1>1. CASE OnlyLosesJobs
  BY <1>1 DEF OnlyLosesJobs, NoTask
<1>2. ASSUME NEW w \in Workers, NEW m \in Msgs, MarkSeen(w, m)  PROVE JobInv'
  BY <1>2 DEF MarkSeen, TypeOK
<1>3. ASSUME NEW w \in Workers, NEW m \in Msgs, Enqueue(w, m)  PROVE JobInv'
  <2> DEFINE j == [msg |-> m, retry |-> 0]
  <2>1. j \in Jobs /\ j.msg = m
    BY ConstantsAssumption DEF Jobs
  <2>2. queue' = Append(queue, j)
    BY <1>3 DEF Enqueue
  <2> HIDE DEF j
  <2> QED  BY <1>3, <2>1, <2>2, QueueAppend DEF Enqueue, TypeOK
<1>4. ASSUME NEW w \in Workers, Pop(w)  PROVE JobInv'
  BY <1>4, QueueTail DEF Pop, TypeOK, HoldsJob
<1>5. ASSUME NEW w \in Workers, SpawnReply(w)  PROVE JobInv'
  <2> DEFINE m == held[w].msg
  <2>1. held[w] \in Jobs /\ held[w] # NoJob /\ m \in Msgs
    BY <1>5 DEF SpawnReply, TypeOK, HoldsJob, Jobs
  <2>2. /\ UNCHANGED <<seen, queue, marked>>
        /\ held' = [held EXCEPT ![w] = NoJob]
        /\ \A v \in Workers, n \in Msgs : v # w \/ n # m => task'[v][n] = task[v][n]
    BY <1>5 DEF SpawnReply, TypeOK, redis
  <2>3. \A v \in Workers, n \in Msgs : Tasked(v, n)' => Tasked(v, n) \/ (v = w /\ n = m)
    BY <2>2
  <2>4. \A v \in Workers, n \in Msgs : Holds(v, n)' => Holds(v, n) /\ v # w
    BY <2>1, <2>2 DEF TypeOK
  <2> HIDE DEF Tasked
  <2> QED  BY <2>1, <2>2, <2>3, <2>4
<1>6. ASSUME NEW w \in Workers, RequeueUntried(w)  PROVE JobInv'
  <2> DEFINE j == held[w]
  <2>1. j \in Jobs /\ j # NoJob
    BY <1>6 DEF RequeueUntried, TypeOK, HoldsJob
  <2>2. /\ UNCHANGED <<seen, marked, task>>
        /\ held' = [held EXCEPT ![w] = NoJob]
        /\ queue' = RetryQueue(j)
    BY <1>6 DEF RequeueUntried
  <2>3. j.msg \in Msgs /\ ~Queued(j.msg) /\ Holds(w, j.msg) /\ UniqueInQueue
    BY <2>1 DEF Jobs, UniqueInQueue
  <2>4. UniqueInQueue' /\ \A m \in Msgs : Queued(m)' => Queued(m) \/ m = j.msg
    BY <2>1, <2>2, <2>3, RetryKeepsUnique DEF TypeOK
  <2>5. \A v \in Workers, n \in Msgs : Holds(v, n)' => Holds(v, n) /\ v # w
    BY <2>1, <2>2 DEF TypeOK
  <2> HIDE DEF j, Queued, Holds
  <2> QED  BY <2>2, <2>3, <2>4, <2>5 DEF UniqueInQueue
<1>7. ASSUME NEW w \in Workers, NEW m \in Msgs, TaskStep(w, m)  PROVE JobInv'
  <2> DEFINE j == [msg |-> m, retry |-> task[w][m].retry]
  <2>1. j \in Jobs /\ j.msg = m
    BY DEF Jobs, TypeOK, Tasks
  <2>2. /\ Tasked(w, m)
        /\ UNCHANGED <<seen, marked, held>>
        /\ \A v \in Workers, n \in Msgs : v # w \/ n # m => task'[v][n] = task[v][n]
        /\ queue' = queue \/ (queue' = RetryQueue(j) /\ ~Tasked(w, m)')
    BY <1>7, TaskStepMovesOneJob
  <2>3. \A v \in Workers, n \in Msgs : Tasked(v, n)' => Tasked(v, n)
    BY <2>2
  <2> HIDE DEF j, Tasked
  <2>4. CASE queue' = queue
    BY <2>2, <2>3, <2>4
  <2>5. CASE queue' = RetryQueue(j) /\ ~Tasked(w, m)'
    <3>1. ~Queued(m) /\ UniqueInQueue
      BY <2>2 DEF UniqueInQueue
    <3>2. UniqueInQueue' /\ \A n \in Msgs : Queued(n)' => Queued(n) \/ n = m
      <4>1. queue \in Seq(Jobs)
        BY DEF TypeOK
      <4> QED  BY <2>1, <2>5, <3>1, <4>1, RetryKeepsUnique
    <3> HIDE DEF Queued, Holds
    <3>3. \A v \in Workers, n \in Msgs : Holds(v, n)' <=> Holds(v, n)
      BY <2>2 DEF Holds
    <3> QED  BY <2>2, <2>3, <2>5, <3>1, <3>2, <3>3 DEF UniqueInQueue
  <2> QED  BY <2>2, <2>4, <2>5
<1> QED  BY <1>1, <1>2, <1>3, <1>4, <1>5, <1>6, <1>7, OtherStepsOnlyLose
         DEF Next, ConsumerStep

-----------------------------------------------------------------------------
(* How often a message is answered.  A job on its r-th retry can have been *)
(* posted r times before it is tried again, each time with the             *)
(* confirmation lost: that is what requeues a job whose reply went out.    *)

Untried == {"lock", "sem", "choose", "rule2", "send", "typing", "simulate"}

\* No more replies than tries so far, and none whose confirmation came.
Unanswered(m, tries) == posted[m] <= tries /\ (posted[m] > 0 => m \in unsure)
\* The last try may have posted, and may have been confirmed.
Answered(m, tries) == posted[m] <= tries /\ (posted[m] > 1 => m \in unsure)

TaskBudget(w, m) ==
  LET t == task[w][m] IN
  /\ t.pc \in Untried => Unanswered(m, t.retry)
  /\ t.pc \in {"posted", "succeeded"} => Answered(m, t.retry + 1)
  /\ t.pc = "requeue" => Unanswered(m, t.retry + 1)

BudgetUntaken == \A m \in Msgs :
  m \notin seen \/ (\E w \in Workers : m \in marked[w]) => posted[m] = 0
BudgetQueue   == \A i \in DOMAIN queue : Unanswered(queue[i].msg, queue[i].retry)
BudgetHeld    == \A w \in Workers :
                   held[w] # NoJob => Unanswered(held[w].msg, held[w].retry)
BudgetTasks   == \A w \in Workers, m \in Msgs : TaskBudget(w, m)

Budget == SecondReplyOnlyIfUnsure /\ BudgetUntaken /\ BudgetQueue /\ BudgetHeld /\ BudgetTasks

\* Steps that post nothing and lose no confirmation change no answer count.
LEMMA CountsUnchanged ==
  ASSUME UNCHANGED <<posted, unsure>>
  PROVE  /\ \A m, r : Unanswered(m, r)' <=> Unanswered(m, r)
         /\ \A m, r : Answered(m, r)' <=> Answered(m, r)
         /\ SecondReplyOnlyIfUnsure => SecondReplyOnlyIfUnsure'
BY DEF Unanswered, Answered, SecondReplyOnlyIfUnsure

\* A task left alone, or ended, keeps its budget.
LEMMA TaskBudgetKept ==
  ASSUME UNCHANGED <<posted, unsure>>, NEW w, NEW m,
         TaskBudget(w, m),
         task'[w][m] = task[w][m] \/ task'[w][m].pc = "none"
  PROVE  TaskBudget(w, m)'
BY CountsUnchanged DEF TaskBudget, Untried

\* A requeued job may spend one more try.
LEMMA BudgetRetry ==
  ASSUME queue \in Seq(Jobs), NEW j \in Jobs, queue' = RetryQueue(j),
         UNCHANGED <<posted, unsure>>, BudgetQueue, Unanswered(j.msg, j.retry + 1)
  PROVE  BudgetQueue'
<1>1. \A m, r : Unanswered(m, r)' <=> Unanswered(m, r)
  BY CountsUnchanged
<1>2. CASE queue' = queue
  BY <1>1, <1>2 DEF BudgetQueue
<1>3. CASE queue' # queue
  <2>1. /\ DOMAIN queue' = DOMAIN queue \cup {Len(queue) + 1}
        /\ \A i \in DOMAIN queue : queue'[i] = queue[i]
        /\ queue'[Len(queue) + 1].msg = j.msg
        /\ queue'[Len(queue) + 1].retry = j.retry + 1
    BY <1>3, RetryAddsAtMostOne
  <2>2. ASSUME NEW i \in DOMAIN queue'
        PROVE  Unanswered(queue'[i].msg, queue'[i].retry)
    BY <2>1, <2>2 DEF BudgetQueue
  <2> QED  BY <1>1, <2>2 DEF BudgetQueue
<1> QED  BY <1>2, <1>3

LEMMA BudgetConsumer ==
  ASSUME TypeOK, TypeOK', HoldsJob, JobInv, Budget, NEW w \in Workers,
         \/ \E m \in Msgs : MarkSeen(w, m) \/ Enqueue(w, m)
         \/ Pop(w) \/ SpawnReply(w) \/ RequeueUntried(w)
  PROVE  Budget'
<1>0. UNCHANGED <<posted, unsure>>
  BY DEF MarkSeen, Enqueue, Pop, SpawnReply, RequeueUntried, history
<1> USE CountsUnchanged
<1>1. ASSUME NEW m \in Msgs, MarkSeen(w, m)  PROVE Budget'
  <2>1. BudgetUntaken'
    BY <1>0, <1>1 DEF MarkSeen, Budget, BudgetUntaken, TypeOK
  <2> QED  BY <1>0, <1>1, <2>1, TaskBudgetKept
           DEF MarkSeen, Budget, BudgetQueue, BudgetHeld, BudgetTasks
<1>2. ASSUME NEW m \in Msgs, Enqueue(w, m)  PROVE Budget'
  <2> DEFINE j == [msg |-> m, retry |-> 0]
  <2>1. j \in Jobs /\ j.msg = m /\ j.retry = 0
    BY ConstantsAssumption DEF Jobs
  <2>2. queue' = Append(queue, j)
    BY <1>2 DEF Enqueue
  <2>3. Unanswered(m, 0)
    BY <1>2 DEF Enqueue, Budget, BudgetUntaken, Unanswered
  <2> HIDE DEF j
  <2>4. BudgetQueue'
    BY <1>0, <2>1, <2>2, <2>3, QueueAppend DEF Budget, BudgetQueue, TypeOK
  <2>5. BudgetUntaken'
    BY <1>0, <1>2 DEF Enqueue, Budget, BudgetUntaken, TypeOK
  <2> QED  BY <1>0, <1>2, <2>4, <2>5, TaskBudgetKept
           DEF Enqueue, Budget, BudgetHeld, BudgetTasks
<1>3. CASE Pop(w)
  <2>1. BudgetQueue' /\ Unanswered(Head(queue).msg, Head(queue).retry)
    BY <1>0, <1>3, QueueTail DEF Pop, Budget, BudgetQueue, TypeOK
  <2>2. BudgetHeld'
    BY <1>0, <1>3, <2>1 DEF Pop, Budget, BudgetHeld, TypeOK
  <2> QED  BY <1>0, <1>3, <2>1, <2>2, TaskBudgetKept
           DEF Pop, Budget, BudgetUntaken, BudgetTasks
<1>4. CASE SpawnReply(w)
  <2>1. held[w] \in Jobs /\ held[w] # NoJob
    BY <1>4 DEF SpawnReply, TypeOK, HoldsJob
  <2>m. PICK m \in Msgs : m = held[w].msg
    BY <2>1 DEF Jobs
  <2>2. /\ UNCHANGED <<seen, queue, marked>>
        /\ held' = [held EXCEPT ![w] = NoJob]
        /\ \A v \in Workers, n \in Msgs : v # w \/ n # m => task'[v][n] = task[v][n]
        /\ task'[w][m].pc = "lock" /\ task'[w][m].retry = held[w].retry
    BY <1>4, <2>1, <2>m DEF SpawnReply, TypeOK, redis, NoTask
  <2>3. TaskBudget(w, m)'
    <3>1. Unanswered(m, held[w].retry)
      BY <2>1, <2>m DEF Budget, BudgetHeld
    <3> QED  BY <1>0, <2>2, <3>1 DEF TaskBudget, Untried
  <2>4. BudgetTasks'
    <3>1. ASSUME NEW v \in Workers, NEW n \in Msgs  PROVE TaskBudget(v, n)'
      <4>1. CASE v = w /\ n = m
        BY <2>3, <4>1
      <4>2. CASE v # w \/ n # m
        BY <1>0, <2>2, <4>2, TaskBudgetKept DEF Budget, BudgetTasks
      <4> QED  BY <4>1, <4>2
    <3> QED  BY <3>1 DEF BudgetTasks
  <2>5. BudgetHeld'
    BY <1>0, <2>2 DEF Budget, BudgetHeld, TypeOK
  <2> QED  BY <1>0, <2>2, <2>4, <2>5 DEF Budget, BudgetUntaken, BudgetQueue
<1>5. CASE RequeueUntried(w)
  <2> DEFINE j == held[w]
  <2>1. j \in Jobs /\ j # NoJob
    BY <1>5 DEF RequeueUntried, TypeOK, HoldsJob
  <2>2. /\ UNCHANGED <<seen, marked, task>>
        /\ held' = [held EXCEPT ![w] = NoJob]
        /\ queue' = RetryQueue(j)
    BY <1>5 DEF RequeueUntried
  <2>3. Unanswered(j.msg, j.retry + 1)
    BY <2>1 DEF Budget, BudgetHeld, Unanswered, TypeOK, Jobs
  <2>4. BudgetQueue'
    BY <1>0, <2>1, <2>2, <2>3, BudgetRetry DEF Budget, TypeOK
  <2>5. BudgetHeld'
    BY <1>0, <2>2 DEF Budget, BudgetHeld, TypeOK
  <2> QED  BY <1>0, <2>2, <2>4, <2>5, TaskBudgetKept DEF Budget, BudgetUntaken, BudgetTasks
<1> QED  BY <1>1, <1>2, <1>3, <1>4, <1>5

\* A step of a task that posts nothing and loses no confirmation.
LEMMA BudgetQuietTask ==
  ASSUME TypeOK, Budget, NEW w \in Workers, NEW m \in Msgs,
         UNCHANGED <<seen, marked, held, queue, posted, unsure>>,
         \A v \in Workers, n \in Msgs : v # w \/ n # m => task'[v][n] = task[v][n],
         \/ task'[w][m].pc = "none"
         \/ /\ task'[w][m].retry = task[w][m].retry
            /\ \/ /\ task[w][m].pc \in Untried
                  /\ task'[w][m].pc \in Untried \cup {"succeeded", "requeue"}
               \/ task[w][m].pc = "posted" /\ task'[w][m].pc = "succeeded"
  PROVE  Budget'
<1>1. task[w][m].retry \in Nat /\ posted[m] \in Nat
  BY ConstantsAssumption DEF TypeOK, Tasks
<1>2. TaskBudget(w, m)
  BY DEF Budget, BudgetTasks
<1>3. TaskBudget(w, m)'
  BY <1>1, <1>2 DEF TaskBudget, Untried, Unanswered, Answered
<1>4. BudgetTasks'
  BY <1>3, TaskBudgetKept DEF Budget, BudgetTasks
<1> QED  BY <1>4, CountsUnchanged DEF Budget, BudgetUntaken, BudgetQueue, BudgetHeld

LEMMA BudgetTask ==
  ASSUME TypeOK, JobInv, Budget, NEW w \in Workers, NEW m \in Msgs, TaskStep(w, m)
  PROVE  Budget'
<1> DEFINE Others == \A v \in Workers, n \in Msgs : v # w \/ n # m => task'[v][n] = task[v][n]
<1>1. /\ Tasked(w, m) /\ UNCHANGED <<seen, marked, held>> /\ Others
      /\ task[w][m] \in Tasks
  <2>1. Tasked(w, m) /\ UNCHANGED <<seen, marked, held>> /\ Others
    BY TaskStepMovesOneJob
  <2>2. task[w][m] \in Tasks
    BY DEF TypeOK
  <2> QED  BY <2>1, <2>2
<1>a. /\ \A pc : Goto(w, m, pc) => /\ task'[w][m].pc = pc
                                   /\ task'[w][m].retry = task[w][m].retry
      /\ EndTask(w, m) => task'[w][m].pc = "none"
      /\ \A s, b : Using(w, m, s, b) => /\ task'[w][m].pc = "rule2"
                                        /\ task'[w][m].retry = task[w][m].retry
  BY TaskUpdated
<1>b. /\ task[w][m].retry \in Nat /\ task[w][m].retry <= MaxRetries
      /\ posted \in [Msgs -> Nat] /\ MaxRetries \in Nat
  BY <1>1, ConstantsAssumption DEF TypeOK, Tasks
<1>c. TaskBudget(w, m)
  BY DEF Budget, BudgetTasks
<1>2. CASE PostReply(w, m)
  <2>1. /\ task[w][m].pc = "typing" /\ task'[w][m].pc = "posted"
        /\ task'[w][m].retry = task[w][m].retry
        /\ queue' = queue /\ unsure' = unsure
        /\ posted' = [posted EXCEPT ![m] = @ + 1]
    BY <1>2, <1>a DEF PostReply, TaskAt, redis
  <2>2. /\ \A i \in DOMAIN queue : queue[i].msg # m
        /\ \A v \in Workers : held[v] # NoJob => held[v].msg # m
        /\ \A v \in Workers : m \notin marked[v] /\ (v # w => task[v][m].pc = "none")
        /\ m \in seen
    BY <1>1 DEF JobInv, OneJobPerMessage, JobsSeen, Pending, Queued, Holds, Tasked
  <2>3. posted'[m] = posted[m] + 1 /\ \A n \in Msgs \ {m} : posted'[n] = posted[n]
    BY <1>b, <2>1
  <2>4. \A n, r : n # m => (Unanswered(n, r)' <=> Unanswered(n, r))
                           /\ (Answered(n, r)' <=> Answered(n, r))
    BY <1>b, <2>1 DEF Unanswered, Answered
  <2>5. posted[m] <= task[w][m].retry /\ (posted[m] > 0 => m \in unsure)
    BY <1>c, <2>1 DEF TaskBudget, Untried, Unanswered
  <2>6. SecondReplyOnlyIfUnsure'
    BY <1>b, <2>1, <2>3, <2>5 DEF Budget, SecondReplyOnlyIfUnsure
  <2>7. BudgetUntaken'
    BY <1>1, <2>2, <2>3 DEF Budget, BudgetUntaken
  <2>8. BudgetQueue'
    BY <2>1, <2>2, <2>4 DEF Budget, BudgetQueue
  <2>9. BudgetHeld'
    BY <1>1, <2>2, <2>4 DEF Budget, BudgetHeld
  <2>10. TaskBudget(w, m)'
    BY <1>b, <2>1, <2>3, <2>5 DEF TaskBudget, Untried, Answered
  <2>11. ASSUME NEW v \in Workers, NEW n \in Msgs, v # w \/ n # m
         PROVE  TaskBudget(v, n)'
    <3>1. task'[v][n] = task[v][n] /\ TaskBudget(v, n)
      BY <1>1, <2>11 DEF Budget, BudgetTasks
    <3>2. CASE n = m
      BY <2>2, <2>11, <3>1, <3>2 DEF TaskBudget, Untried
    <3>3. CASE n # m
      BY <2>4, <3>1, <3>3 DEF TaskBudget
    <3> QED  BY <3>2, <3>3
  <2> QED  BY <2>6, <2>7, <2>8, <2>9, <2>10, <2>11 DEF Budget, BudgetTasks
<1>3. CASE LoseConfirmation(w, m)
  <2>1. /\ task[w][m].pc = "posted" /\ task'[w][m].pc = "requeue"
        /\ task'[w][m].retry = task[w][m].retry
        /\ queue' = queue /\ unsure' = unsure \cup {m} /\ posted' = posted
    BY <1>3, <1>a DEF LoseConfirmation, TaskAt, redis
  <2>2. /\ \A n, r : Unanswered(n, r) => Unanswered(n, r)'
        /\ \A n, r : Answered(n, r) => Answered(n, r)'
    BY <2>1 DEF Unanswered, Answered
  <2>3. TaskBudget(w, m)'
    BY <1>c, <2>1 DEF TaskBudget, Untried, Answered, Unanswered
  <2>4. BudgetTasks'
    BY <1>1, <2>2, <2>3 DEF Budget, BudgetTasks, TaskBudget
  <2>5. SecondReplyOnlyIfUnsure'
    BY <2>1 DEF Budget, SecondReplyOnlyIfUnsure
  <2> QED  BY <1>1, <2>1, <2>2, <2>4, <2>5 DEF Budget, BudgetUntaken, BudgetQueue, BudgetHeld
<1>4. CASE RequeueFailed(w, m)
  <2> DEFINE j == [msg |-> m, retry |-> task[w][m].retry]
  <2>1. j \in Jobs /\ j.msg = m /\ j.retry = task[w][m].retry
    BY <1>1 DEF Jobs, Tasks
  <2>2. /\ task[w][m].pc = "requeue" /\ task'[w][m].pc = "none"
        /\ queue' = RetryQueue(j) /\ UNCHANGED <<posted, unsure>>
    BY <1>4, <1>a DEF RequeueFailed, TaskAt, history
  <2>3. Unanswered(m, j.retry + 1)
    BY <1>c, <2>1, <2>2 DEF TaskBudget
  <2> HIDE DEF j
  <2>4. BudgetQueue'
    BY <2>1, <2>2, <2>3, BudgetRetry DEF Budget, TypeOK
  <2>5. BudgetTasks'
    BY <1>1, <2>2, TaskBudgetKept DEF Budget, BudgetTasks
  <2> QED  BY <1>1, <2>2, <2>4, <2>5, CountsUnchanged DEF Budget, BudgetUntaken, BudgetHeld
<1>5. CASE ~PostReply(w, m) /\ ~LoseConfirmation(w, m) /\ ~RequeueFailed(w, m)
  <2>1. UNCHANGED <<queue, posted, unsure>>
    BY <1>5 DEF TaskStep, AcquireGroupLock, AcquireSemaphore, ChooseAccount,
       CheckThreadReplies, StartTyping, SimulateReply, ConfirmReply, FailReply,
       RevokeSession, TaskRaises, RecordSuccess, redis, history
  <2>2. CASE ChooseAccount(w, m)
    <3>1. /\ task[w][m].pc = "choose"
          /\ \/ EndTask(w, m) \/ Goto(w, m, "requeue")
             \/ \E s, b : Using(w, m, s, b)
      BY <2>2 DEF ChooseAccount, TaskAt
    <3> QED  BY <1>1, <1>a, <2>1, <3>1, BudgetQuietTask DEF Untried
  <2>3. CASE ~ChooseAccount(w, m)
    <3>1. \/ EndTask(w, m)
          \/ /\ task[w][m].pc \in Untried
             /\ \E pc \in Untried \cup {"succeeded", "requeue"} : Goto(w, m, pc)
          \/ task[w][m].pc = "posted" /\ Goto(w, m, "succeeded")
      BY <1>5, <2>3 DEF TaskStep, AcquireGroupLock, AcquireSemaphore,
         CheckThreadReplies, StartTyping, SimulateReply, ConfirmReply, FailReply,
         RevokeSession, TaskRaises, RecordSuccess, TaskAt, Untried
    <3> QED  BY <1>1, <1>a, <2>1, <3>1, BudgetQuietTask
  <2> QED  BY <2>2, <2>3
<1> QED  BY <1>2, <1>3, <1>4, <1>5

LEMMA BudgetStep ==
  ASSUME TypeOK, TypeOK', HoldsJob, JobInv, Budget, [Next]_vars
  PROVE  Budget'
<1>1. CASE OnlyLosesJobs
  <2>1. BudgetTasks'
    BY <1>1, TaskBudgetKept DEF OnlyLosesJobs, NoTask, Budget, BudgetTasks
  <2> QED  BY <1>1, <2>1, CountsUnchanged
           DEF OnlyLosesJobs, Budget, BudgetUntaken, BudgetQueue, BudgetHeld
<1> QED  BY <1>1, BudgetConsumer, BudgetTask, OtherStepsOnlyLose
         DEF Next, ConsumerStep

-----------------------------------------------------------------------------
(* The invariant and what follows from it.                                 *)

Inv == TypeOK /\ HoldsJob /\ JobInv /\ Budget

LEMMA InvInit == Init => Inv
<1> SUFFICES ASSUME Init  PROVE JobInv /\ Budget
  BY TypeInit DEF Inv
<1>1. JobInv
  BY DEF Init, JobInv, OneJobPerMessage, JobsSeen, Pending, Queued, Holds, Tasked, NoTask
<1>2. /\ DOMAIN queue = {} /\ \A w \in Workers : held[w] = NoJob
      /\ \A m \in Msgs : posted[m] = 0
      /\ \A w \in Workers, m \in Msgs : task[w][m].pc = "none"
  BY DEF Init, NoTask
<1>3. Budget
  BY <1>2, ConstantsAssumption DEF Budget, SecondReplyOnlyIfUnsure, BudgetUntaken,
     BudgetQueue, BudgetHeld, BudgetTasks, TaskBudget, Untried
<1> QED  BY <1>1, <1>3

LEMMA InvStep == Inv /\ [Next]_vars => Inv'
BY TypeStep, JobInvStep, BudgetStep DEF Inv

LEMMA InvHolds == Spec => []Inv
BY InvInit, InvStep, PTL DEF Spec

\* Handlers, queue, consumers and tasks of any number of workers never hold
\* two jobs for one message.
THEOREM OneJob == Spec => []OneJobPerMessage
<1>1. Inv => OneJobPerMessage
  BY DEF Inv, JobInv
<1> QED  BY <1>1, InvHolds, PTL

\* A second reply to a message needs a lost confirmation, and the retries
\* bound how many replies there are.
THEOREM SecondReply == Spec => []SecondReplyOnlyIfUnsure
<1>1. Inv => SecondReplyOnlyIfUnsure
  BY DEF Inv, Budget
<1> QED  BY <1>1, InvHolds, PTL

-----------------------------------------------------------------------------
(* Rule 2.  A counter can still grow by one for each worker that has       *)
(* passed the check and not yet counted its reply; the group lock keeps    *)
(* these to one task per worker.                                           *)

Replying(w, m, c, s) ==
  /\ m \in InThread /\ ChatOf[m] = c
  /\ task[w][m].pc \in Counted /\ task[w][m].acc = s

\* The workers that have passed the check for account s in group c.
Passed(c, s) == {w \in Workers : \E m \in Msgs : Replying(w, m, c, s)}

OneLockHolder ==
  \A w \in Workers, m, n \in Msgs :
    task[w][m].pc \in Locked /\ task[w][n].pc \in Locked /\ ChatOf[m] = ChatOf[n] => m = n

CounterBudget ==
  \A c \in Chats, s \in Sessions :
    counter[c][s] + Cardinality(Passed(c, s)) <= MaxConsecutive + Cardinality(Workers) - 1

\* A task is locked by AcquireGroupLock only, and passes by the check only.
LEMMA TaskMoves ==
  ASSUME TypeOK, HoldsJob, [Next]_vars, NEW w \in Workers, NEW m \in Msgs
  PROVE  /\ task'[w][m].pc \in Locked
              => task[w][m].pc \in Locked \/ AcquireGroupLock(w, m)
         /\ task'[w][m].pc \in Counted
              => /\ task'[w][m].acc = task[w][m].acc
                 /\ task[w][m].pc \in Counted \/ CheckThreadReplies(w, m)
<1> USE DEF Locked, Running, Counted
<1>1. CASE task'[w][m] = task[w][m] \/ task'[w][m].pc \in {"none", "lock"}
  BY <1>1
<1>2. CASE OnlyLosesJobs
  BY <1>1, <1>2 DEF OnlyLosesJobs, NoTask
<1>3. ASSUME NEW v \in Workers,
             \/ \E n \in Msgs : MarkSeen(v, n) \/ Enqueue(v, n)
             \/ Pop(v) \/ RequeueUntried(v)
      PROVE  task' = task
  BY <1>3 DEF MarkSeen, Enqueue, Pop, RequeueUntried
<1>4. ASSUME NEW v \in Workers, SpawnReply(v)
      PROVE  task'[w][m] = task[w][m] \/ task'[w][m].pc \in {"none", "lock"}
  BY <1>4 DEF SpawnReply, NoTask, TypeOK
<1>5. ASSUME NEW v \in Workers, NEW n \in Msgs, TaskStep(v, n), v # w \/ n # m
      PROVE  task'[w][m] = task[w][m]
  BY <1>5, TaskStepMovesOneJob
<1>6. CASE TaskStep(w, m)
  <2>1. CASE ChooseAccount(w, m)
    <3>1. \/ EndTask(w, m) \/ Goto(w, m, "requeue")
          \/ \E s, b : Using(w, m, s, b)
      BY <2>1 DEF ChooseAccount
    <3>2. task[w][m].pc = "choose"
      BY <2>1 DEF ChooseAccount, TaskAt
    <3> QED  BY <3>1, <3>2, TaskUpdated
  <2>2. CASE CheckThreadReplies(w, m)
    <3>1. task[w][m].pc = "rule2" /\ (EndTask(w, m) \/ Goto(w, m, "send"))
      BY <2>2 DEF CheckThreadReplies, TaskAt
    <3> QED  BY <2>2, <3>1, TaskUpdated
  <2>3. CASE AcquireGroupLock(w, m)
    <3>1. Goto(w, m, "sem")
      BY <2>3 DEF AcquireGroupLock
    <3> QED  BY <2>3, <3>1, TaskUpdated
  <2>4. CASE AcquireSemaphore(w, m)
    <3>1. task[w][m].pc = "sem" /\ Goto(w, m, "choose")
      BY <2>4 DEF AcquireSemaphore, TaskAt
    <3> QED  BY <3>1, TaskUpdated
  <2>5. CASE StartTyping(w, m) \/ SimulateReply(w, m) \/ PostReply(w, m)
             \/ ConfirmReply(w, m)
    <3>1. task[w][m].pc \in Counted /\ \E pc \in Counted : Goto(w, m, pc)
      BY <2>5 DEF StartTyping, SimulateReply, PostReply, ConfirmReply, TaskAt
    <3> QED  BY <3>1, TaskUpdated
  <2>6. CASE LoseConfirmation(w, m) \/ FailReply(w, m) \/ RevokeSession(w, m)
             \/ TaskRaises(w, m) \/ RecordSuccess(w, m) \/ RequeueFailed(w, m)
    <3>1. task[w][m].pc \in Locked /\ (EndTask(w, m) \/ Goto(w, m, "requeue"))
      BY <2>6 DEF LoseConfirmation, FailReply, RevokeSession, TaskRaises, RecordSuccess,
                  RequeueFailed, TaskAt
    <3> QED  BY <3>1, TaskUpdated
  <2> QED  BY <1>6, <2>1, <2>2, <2>3, <2>4, <2>5, <2>6 DEF TaskStep
<1> QED  BY <1>1, <1>2, <1>3, <1>4, <1>5, <1>6, OtherStepsOnlyLose DEF Next, ConsumerStep

LEMMA OneLockHolderStep ==
  ASSUME TypeOK, HoldsJob, OneLockHolder, [Next]_vars
  PROVE  OneLockHolder'
<1> SUFFICES ASSUME NEW w \in Workers, NEW m \in Msgs, NEW n \in Msgs, m # n,
                    task'[w][m].pc \in Locked, task'[w][n].pc \in Locked,
                    ChatOf[m] = ChatOf[n]
             PROVE  FALSE
  BY DEF OneLockHolder
<1>1. ASSUME NEW j \in Msgs, NEW k \in Msgs, j # k, ChatOf[j] = ChatOf[k],
             AcquireGroupLock(w, j), task'[w][k].pc \in Locked
      PROVE  FALSE
  <2>1. task[w][k].pc \notin Locked
    BY <1>1 DEF AcquireGroupLock, GroupLocked
  <2>2. task'[w][k] = task[w][k]
    BY <1>1, TaskStepMovesOneJob DEF TaskStep
  <2> QED  BY <1>1, <2>1, <2>2
<1>2. task[w][m].pc \in Locked /\ task[w][n].pc \in Locked
  BY <1>1, TaskMoves
<1> QED  BY <1>2 DEF OneLockHolder

\* Only RecordSuccess lets a counter grow.
LEMMA CounterMoves ==
  ASSUME TypeOK, [Next]_vars, NEW c \in Chats, NEW s \in Sessions
  PROVE  \/ counter'[c][s] <= counter[c][s]
         \/ /\ counter'[c][s] = counter[c][s] + 1
            /\ \E w \in Workers, m \in Msgs :
                 /\ RecordSuccess(w, m) /\ m \in InThread
                 /\ ChatOf[m] = c /\ task[w][m].acc = s
<1>1. /\ counter \in [Chats -> [Sessions -> Nat]] /\ counter[c] \in [Sessions -> Nat]
      /\ counter[c][s] \in Nat /\ counter[c][s] <= counter[c][s] /\ 0 <= counter[c][s]
  <2>1. counter \in [Chats -> [Sessions -> Nat]]
    BY DEF TypeOK
  <2> QED  BY <2>1
<1>2. CASE counter' = counter
  BY <1>1, <1>2
<1>3. ASSUME NEW w \in Workers, NEW m \in Msgs, RecordSuccess(w, m), counter' # counter
      PROVE  counter'[c][s] = counter[c][s]
               \/ /\ counter'[c][s] = counter[c][s] + 1
                  /\ m \in InThread /\ ChatOf[m] = c /\ task[w][m].acc = s
  <2>1. /\ m \in InThread
        /\ counter' = [counter EXCEPT ![ChatOf[m]][task[w][m].acc] = @ + 1]
    BY <1>3 DEF RecordSuccess, Counting
  <2> DEFINE d == ChatOf[m]
             a == task[w][m].acc
  <2> HIDE DEF d, a
  <2>2. counter' = [counter EXCEPT ![d] = [counter[d] EXCEPT ![a] = counter[d][a] + 1]]
    BY <2>1 DEF d, a
  <2>3. CASE d = c /\ a = s
    BY <1>1, <2>1, <2>2, <2>3 DEF d, a
  <2>4. CASE ~(d = c /\ a = s)
    BY <1>1, <2>2, <2>4
  <2> QED  BY <2>3, <2>4
<1>4. ASSUME NEW w \in Workers, NEW m \in Msgs, CheckThreadReplies(w, m), counter' # counter
      PROVE  counter'[c][s] <= counter[c][s]
  <2>1. \E d, a : counter' = [counter EXCEPT ![d] = [counter[d] EXCEPT ![a] = 0]]
    BY <1>4 DEF CheckThreadReplies, ResetCounter, Reset
  <2> QED  BY <1>1, <2>1
<1>5. ASSUME NEW d \in Chats, NEW a \in Sessions, ExpireCounter(d, a)
      PROVE  counter'[c][s] <= counter[c][s]
  <2>1. counter' = [counter EXCEPT ![d] = [counter[d] EXCEPT ![a] = 0]]
    BY <1>5 DEF ExpireCounter, ResetCounter, Reset
  <2> QED  BY <1>1, <2>1
<1>6. ASSUME NEW w \in Workers, NEW m \in Msgs, TaskStep(w, m),
             ~RecordSuccess(w, m), ~CheckThreadReplies(w, m)
      PROVE  counter' = counter
  BY <1>6 DEF TaskStep, AcquireGroupLock, AcquireSemaphore, ChooseAccount, StartTyping,
     SimulateReply, PostReply, ConfirmReply, LoseConfirmation, FailReply, RevokeSession,
     TaskRaises, RequeueFailed, redis
<1>7. ASSUME NEW w \in Workers, ConsumerStep(w) \/ \E m \in Msgs : MarkSeen(w, m) \/ Enqueue(w, m)
      PROVE  counter' = counter
  BY <1>7 DEF ConsumerStep, CheckConsumer, Pop, PopEmpty, SpawnReply, RequeueUntried,
              MarkSeen, Enqueue, redis
<1>8. ASSUME Environment, \A d \in Chats, a \in Sessions : ~ExpireCounter(d, a)
      PROVE  counter' = counter
  BY <1>8 DEF Environment, Crash, Restart, RotateConsumer, ReassignRepliers, RecoverAccount,
              RecoverLate, FindRevoked, RestAllAccounts, FlushState, redis
<1>9. CASE UNCHANGED vars
  BY <1>2, <1>9 DEF vars, redis
<1> QED  BY <1>1, <1>2, <1>3, <1>4, <1>5, <1>6, <1>7, <1>8, <1>9 DEF Next

LEMMA CounterBudgetStep ==
  ASSUME TypeOK, TypeOK', HoldsJob, OneLockHolder, CounterBudget, [Next]_vars
  PROVE  CounterBudget'
<1> SUFFICES ASSUME NEW c \in Chats, NEW s \in Sessions
             PROVE  (counter[c][s] + Cardinality(Passed(c, s))
                       <= MaxConsecutive + Cardinality(Workers) - 1)'
  BY DEF CounterBudget
<1> DEFINE P == Passed(c, s)
           Q == Passed(c, s)'
<1>1. /\ P \subseteq Workers /\ Q \subseteq Workers /\ IsFiniteSet(Workers)
      /\ counter[c][s] \in Nat /\ counter'[c][s] \in Nat /\ MaxConsecutive \in Nat \ {0}
  <2>1. counter \in [Chats -> [Sessions -> Nat]] /\ counter' \in [Chats -> [Sessions -> Nat]]
    BY DEF TypeOK
  <2> QED  BY <2>1, ConstantsAssumption DEF Passed
<1>2. /\ IsFiniteSet(P) /\ Cardinality(P) \in Nat
      /\ IsFiniteSet(Q) /\ Cardinality(Q) \in Nat /\ Cardinality(Q) <= Cardinality(Workers)
      /\ Cardinality(Workers) \in Nat
  BY <1>1, FS_Subset, FS_CardinalityType
<1>3. counter[c][s] + Cardinality(P) <= MaxConsecutive + Cardinality(Workers) - 1
  BY DEF CounterBudget
<1>4. ASSUME NEW w \in Q
      PROVE  w \in P \/ \E m \in Msgs : /\ CheckThreadReplies(w, m) /\ m \in InThread
                                       /\ ChatOf[m] = c /\ task[w][m].acc = s
                                       /\ task'[w][m].pc \in Counted
  <2>1. PICK m \in Msgs : Replying(w, m, c, s)'
    BY DEF Passed
  <2>2. w \in Workers
    BY <1>1
  <2>3. CASE task[w][m].pc \in Counted
    <3>1. Replying(w, m, c, s)
      BY <2>1, <2>2, <2>3, TaskMoves DEF Replying
    <3> QED  BY <2>2, <3>1 DEF Passed
  <2>4. CASE task[w][m].pc \notin Counted
    BY <2>1, <2>2, <2>4, TaskMoves DEF Replying
  <2> QED  BY <2>3, <2>4
<1> HIDE DEF P, Q
<1>5. ASSUME NEW w \in Workers, NEW m \in Msgs, RecordSuccess(w, m), m \in InThread,
             ChatOf[m] = c, task[w][m].acc = s, counter'[c][s] = counter[c][s] + 1
      PROVE  counter'[c][s] + Cardinality(Q) <= MaxConsecutive + Cardinality(Workers) - 1
  <2>1. task[w][m].pc = "succeeded" /\ task'[w][m].pc = "none"
    BY <1>5, TaskUpdated DEF RecordSuccess, TaskAt
  <2>2. w \in P
    BY <1>5, <2>1 DEF P, Passed, Replying, Counted
  <2>3. \A v \in Workers, n \in Msgs : v # w \/ n # m => task'[v][n] = task[v][n]
    BY <1>5, TaskStepMovesOneJob DEF TaskStep
  <2>4. ASSUME NEW v \in Q  PROVE v \in P /\ v # w
    <3>1. PICK n \in Msgs : Replying(v, n, c, s)'
      BY DEF Q, Passed
    <3>2. v \in Workers
      BY <1>1
    <3>3. v # w \/ n # m
      BY <2>1, <3>1 DEF Replying, Counted
    <3>4. Replying(v, n, c, s)
      BY <2>3, <3>1, <3>2, <3>3 DEF Replying
    <3>5. v # w
      <4> SUFFICES ASSUME v = w  PROVE FALSE
        OBVIOUS
      <4>1. task[w][n].pc \in Locked /\ task[w][m].pc \in Locked /\ ChatOf[n] = ChatOf[m]
        BY <1>5, <2>1, <3>4 DEF Replying, Locked, Running, Counted
      <4> QED  BY <3>3, <4>1 DEF OneLockHolder
    <3> QED  BY <3>2, <3>4, <3>5 DEF P, Passed
  <2>5. Q \subseteq P \ {w}
    BY <2>4
  <2>6. IsFiniteSet(P \ {w}) /\ Cardinality(P \ {w}) = Cardinality(P) - 1
    BY <1>2, <2>2, FS_RemoveElement
  <2>7. Cardinality(Q) <= Cardinality(P) - 1
    BY <2>5, <2>6, FS_Subset
  <2> QED  BY <1>1, <1>2, <1>3, <1>5, <2>7
<1>6. ASSUME counter'[c][s] <= counter[c][s], Q \subseteq P
      PROVE  counter'[c][s] + Cardinality(Q) <= MaxConsecutive + Cardinality(Workers) - 1
  <2>1. Cardinality(Q) <= Cardinality(P)
    BY <1>2, <1>6, FS_Subset
  <2> QED  BY <1>1, <1>2, <1>3, <1>6, <2>1
<1>7. ASSUME counter'[c][s] <= counter[c][s], ~(Q \subseteq P)
      PROVE  counter'[c][s] + Cardinality(Q) <= MaxConsecutive + Cardinality(Workers) - 1
  <2>1. PICK w \in Workers, m \in Msgs :
          /\ CheckThreadReplies(w, m) /\ m \in InThread
          /\ ChatOf[m] = c /\ task[w][m].acc = s /\ task'[w][m].pc \in Counted
    BY <1>1, <1>4, <1>7
  <2>2. counter[c][s] < MaxConsecutive
    <3>1. task'[w][m].pc # "none"
      BY <2>1 DEF Counted
    <3>2. ~EndTask(w, m)
      BY <3>1, TaskUpdated
    <3>3. ~(counter[c][s] >= MaxConsecutive)
      BY <2>1, <3>2 DEF CheckThreadReplies
    <3> QED  BY <1>1, <3>3
  <2> QED  BY <1>1, <1>2, <1>7, <2>2
<1>8. counter'[c][s] + Cardinality(Q) <= MaxConsecutive + Cardinality(Workers) - 1
  BY <1>5, <1>6, <1>7, CounterMoves
<1> QED  BY <1>8 DEF Q

LEMMA CounterBudgetInit ==
  ASSUME Init  PROVE OneLockHolder /\ CounterBudget
<1>1. \A w \in Workers, m \in Msgs : task[w][m].pc = "none"
  BY DEF Init, NoTask
<1>2. OneLockHolder
  BY <1>1 DEF OneLockHolder, Locked, Running, Counted
<1>3. ASSUME NEW c \in Chats, NEW s \in Sessions
      PROVE  counter[c][s] = 0 /\ Cardinality(Passed(c, s)) = 0
  <2>1. Passed(c, s) = {}
    BY <1>1 DEF Passed, Replying, Counted
  <2> QED  BY <2>1, FS_EmptySet DEF Init
<1>4. Cardinality(Workers) \in Nat /\ MaxConsecutive \in Nat \ {0}
  BY ConstantsAssumption, FS_CardinalityType
<1> QED  BY <1>2, <1>3, <1>4 DEF CounterBudget

\* What is in a row has been counted, waits to be counted or never will be.
RowBudget ==
  \A c \in Chats, s \in Sessions :
    row[c][s] <= counter[c][s] + Cardinality(Uncounted(c, s)) + missed[c][s]

RuleInv == OneLockHolder /\ CounterBudget /\ RowBudget

\* A posted reply waits until it is counted, reported as failed or its worker dies.
LEMMA UncountedStays ==
  ASSUME Inv, [Next]_vars, NEW w \in Workers, NEW m \in Msgs,
         task[w][m].pc \in {"posted", "succeeded"},
         ~Crash(w), ~LoseConfirmation(w, m), ~RecordSuccess(w, m)
  PROVE  task'[w][m].pc \in {"posted", "succeeded"} /\ task'[w][m].acc = task[w][m].acc
<1>0. TypeOK /\ HoldsJob /\ OneJobPerMessage
  BY DEF Inv, JobInv
<1>1. CASE task'[w][m] = task[w][m]
  BY <1>1
<1>2. ASSUME NEW v \in Workers,
             \/ \E n \in Msgs : MarkSeen(v, n) \/ Enqueue(v, n)
             \/ CheckConsumer(v) \/ Pop(v) \/ PopEmpty(v) \/ RequeueUntried(v)
      PROVE  task' = task
  BY <1>2 DEF MarkSeen, Enqueue, CheckConsumer, Pop, PopEmpty, RequeueUntried
<1>3. ASSUME NEW v \in Workers, SpawnReply(v)  PROVE task'[w][m] = task[w][m]
  <2>1. Holds(v, held[v].msg) /\ Tasked(w, m)
    BY <1>0, <1>3 DEF SpawnReply, HoldsJob, Holds, Tasked
  <2>2. held[v].msg \in Msgs
    BY <1>0, <1>3 DEF SpawnReply, HoldsJob, TypeOK, Jobs
  <2>3. held[v].msg # m
    BY <1>0, <2>1, <2>2 DEF OneJobPerMessage
  <2> QED  BY <1>0, <1>3, <2>3 DEF SpawnReply, TypeOK
<1>4. ASSUME NEW v \in Workers, NEW n \in Msgs, TaskStep(v, n), v # w \/ n # m
      PROVE  task'[w][m] = task[w][m]
  BY <1>0, <1>4, TaskStepMovesOneJob
<1>5. CASE TaskStep(w, m)
  <2>1. ConfirmReply(w, m)
    BY <1>5 DEF TaskStep, AcquireGroupLock, AcquireSemaphore, ChooseAccount, CheckThreadReplies,
       StartTyping, SimulateReply, PostReply, FailReply, RevokeSession, TaskRaises,
       RequeueFailed, TaskAt
  <2> QED  BY <1>0, <2>1, TaskUpdated DEF ConfirmReply
<1>6. ASSUME NEW v \in Workers, Crash(v)  PROVE task'[w][m] = task[w][m]
  BY <1>0, <1>6 DEF Crash, TypeOK
<1>7. ASSUME Environment, \A v \in Workers : ~Crash(v)  PROVE task' = task
  BY <1>7 DEF Environment, Restart, RotateConsumer, ReassignRepliers, RecoverAccount, RecoverLate,
              FindRevoked, RestAllAccounts, FlushState, ExpireCounter, local
<1>8. CASE UNCHANGED vars
  BY <1>1, <1>8 DEF vars, local
<1> QED  BY <1>1, <1>2, <1>3, <1>4, <1>5, <1>6, <1>7, <1>8 DEF Next, ConsumerStep

\* So the workers that wait stay, but for one whose reply is counted or missed.
LEMMA UncountedKept ==
  ASSUME Inv, [Next]_vars, NEW c \in Chats, NEW s \in Sessions, NEW w \in Uncounted(c, s),
         ~Crash(w),
         \A m \in InThread : ChatOf[m] = c /\ task[w][m].acc = s
                               => ~LoseConfirmation(w, m) /\ ~RecordSuccess(w, m)
  PROVE  w \in Uncounted(c, s)'
<1>1. PICK m \in InThread : /\ task[w][m].pc \in {"posted", "succeeded"}
                            /\ ChatOf[m] = c /\ task[w][m].acc = s
  BY DEF Uncounted
<1>2. w \in Workers /\ m \in Msgs
  BY ConstantsAssumption DEF Uncounted
<1>3. task'[w][m].pc \in {"posted", "succeeded"} /\ task'[w][m].acc = s
  BY <1>1, <1>2, UncountedStays
<1> QED  BY <1>1, <1>2, <1>3 DEF Uncounted

\* A crash counts as a disturbance, which no step of a task does.
LEMMA CrashCounts ==
  ASSUME TypeOK, NEW w, Crash(w)  PROVE disturbances' # disturbances
BY ConstantsAssumption DEF TypeOK, Crash, Disturb

\* Sizes of two sets of workers.
LEMMA WorkersCounted ==
  ASSUME NEW U \in SUBSET Workers, NEW V \in SUBSET Workers
  PROVE  /\ Cardinality(U) \in Nat /\ Cardinality(V) \in Nat
         /\ U \subseteq V => Cardinality(U) <= Cardinality(V)
         /\ \A w : U \ {w} \subseteq V => Cardinality(U) <= Cardinality(V) + 1
         /\ \A w : w \notin U /\ U \cup {w} \subseteq V => Cardinality(U) + 1 <= Cardinality(V)
<1>1. IsFiniteSet(U) /\ IsFiniteSet(V) /\ Cardinality(U) \in Nat /\ Cardinality(V) \in Nat
  BY ConstantsAssumption, FS_Subset, FS_CardinalityType
<1>2. U \subseteq V => Cardinality(U) <= Cardinality(V)
  BY <1>1, FS_Subset
<1>3. ASSUME NEW w, U \ {w} \subseteq V  PROVE Cardinality(U) <= Cardinality(V) + 1
  <2>1. Cardinality(U \ {w}) <= Cardinality(V)
    BY <1>1, <1>3, FS_Subset
  <2>2. Cardinality(U \ {w}) = IF w \in U THEN Cardinality(U) - 1 ELSE Cardinality(U)
    BY <1>1, FS_RemoveElement
  <2> QED  BY <1>1, <2>1, <2>2
<1>4. ASSUME NEW w, w \notin U, U \cup {w} \subseteq V  PROVE Cardinality(U) + 1 <= Cardinality(V)
  <2>1. Cardinality(U \cup {w}) = Cardinality(U) + 1 /\ IsFiniteSet(U \cup {w})
    BY <1>1, <1>4, FS_AddElement
  <2>2. Cardinality(U \cup {w}) <= Cardinality(V)
    BY <1>1, <1>4, FS_Subset
  <2> QED  BY <2>1, <2>2
<1> QED  BY <1>1, <1>2, <1>3, <1>4

LEMMA RowBudgetStep ==
  ASSUME Inv, Inv', OneLockHolder, RowBudget, [Next]_vars
  PROVE  RowBudget'
<1> SUFFICES ASSUME NEW c \in Chats, NEW s \in Sessions
             PROVE  (row[c][s] <= counter[c][s] + Cardinality(Uncounted(c, s)) + missed[c][s])'
  BY DEF RowBudget
<1> DEFINE U == Uncounted(c, s)
           V == Uncounted(c, s)'
           Mine(w, m) == m \in InThread /\ ChatOf[m] = c /\ task[w][m].acc = s
           Goal == row'[c][s] <= counter'[c][s] + Cardinality(V) + missed'[c][s]
<1>0. TypeOK /\ TypeOK'
  BY DEF Inv
<1>1. /\ counter \in Tally /\ row \in Tally /\ missed \in Tally
      /\ counter' \in Tally /\ row' \in Tally /\ missed' \in Tally
  BY <1>0 DEF TypeOK, Tally
<1>2. /\ counter[c][s] \in Nat /\ row[c][s] \in Nat /\ missed[c][s] \in Nat
      /\ counter'[c][s] \in Nat /\ row'[c][s] \in Nat /\ missed'[c][s] \in Nat
  BY <1>1 DEF Tally
<1>3. U \in SUBSET Workers /\ V \in SUBSET Workers
  BY DEF Uncounted
<1>4. row[c][s] <= counter[c][s] + Cardinality(U) + missed[c][s]
  BY DEF RowBudget
<1>k. ASSUME NEW w \in U, ~Crash(w),
             \A m \in InThread : Mine(w, m) => ~LoseConfirmation(w, m) /\ ~RecordSuccess(w, m)
      PROVE  w \in V
  BY <1>k, UncountedKept
<1> HIDE DEF U, V
<1>5. ASSUME row'[c][s] = row[c][s], counter'[c][s] = counter[c][s],
             missed'[c][s] = missed[c][s], U \subseteq V
      PROVE  Goal
  BY <1>2, <1>3, <1>4, <1>5, WorkersCounted
<1>6. ASSUME row'[c][s] = 0  PROVE Goal
  BY <1>2, <1>3, <1>6, WorkersCounted
<1>7. ASSUME NEW w, row'[c][s] = row[c][s], U \ {w} \subseteq V,
             \/ counter'[c][s] = counter[c][s] + 1 /\ missed'[c][s] = missed[c][s]
             \/ counter'[c][s] = counter[c][s] /\ missed'[c][s] = missed[c][s] + 1
      PROVE  Goal
  <2>1. Cardinality(U) <= Cardinality(V) + 1 /\ Cardinality(U) \in Nat /\ Cardinality(V) \in Nat
    BY <1>3, <1>7, WorkersCounted
  <2> QED  BY <1>2, <1>4, <1>7, <2>1
<1>8. ASSUME NEW w \in Workers, NEW m \in Msgs, PostReply(w, m) \/ SimulateReply(w, m)
      PROVE  Goal
  <2>1. /\ row' = Counting(row, w, m) /\ UNCHANGED <<counter, missed>>
        /\ task[w][m].pc \in {"typing", "simulate"}
        /\ task'[w][m].pc \in {"posted", "succeeded"} /\ task'[w][m].acc = task[w][m].acc
    BY <1>0, <1>8, TaskUpdated DEF PostReply, SimulateReply, TaskAt, redis
  <2>2. U \subseteq V
    <3> SUFFICES ASSUME NEW v \in U  PROVE v \in V
      OBVIOUS
    <3>1. ~Crash(v) /\ \A n \in InThread : ~LoseConfirmation(v, n) /\ ~RecordSuccess(v, n)
      <4>2. v \in Workers /\ task'[w][m].pc # task[w][m].pc
        BY <1>3, <2>1
      <4>3. ~Crash(v)
        <5>1. disturbances' = disturbances
          BY <1>8 DEF PostReply, SimulateReply
        <5> QED  BY <1>0, <5>1, CrashCounts
      <4>4. ASSUME NEW n \in InThread, LoseConfirmation(v, n) \/ RecordSuccess(v, n)  PROVE FALSE
        <5>1. TaskStep(v, n) /\ n \in Msgs
          BY <4>4, ConstantsAssumption DEF TaskStep
        <5>2. v = w /\ n = m
          BY <1>0, <4>2, <5>1, TaskStepMovesOneJob
        <5> QED  BY <2>1, <4>4, <5>2 DEF LoseConfirmation, RecordSuccess, TaskAt
      <4> QED  BY <4>3, <4>4
    <3> QED  BY <3>1, <1>k
  <2>3. CASE Mine(w, m)
    <3>1. row'[c][s] = row[c][s] + 1
      BY <1>1, <2>1, <2>3, CountingValue
    <3>2. w \notin U
      <4> SUFFICES ASSUME w \in U  PROVE FALSE
        OBVIOUS
      <4>1. PICK n \in InThread : task[w][n].pc \in {"posted", "succeeded"} /\ ChatOf[n] = c
        BY DEF U, Uncounted
      <4>2. n = m
        BY <2>1, <2>3, <4>1, ConstantsAssumption DEF OneLockHolder, Locked, Running, Counted
      <4> QED  BY <2>1, <4>1, <4>2
    <3>3. w \in V
      BY <2>1, <2>3 DEF V, Uncounted
    <3>4. Cardinality(U) + 1 <= Cardinality(V) /\ Cardinality(U) \in Nat /\ Cardinality(V) \in Nat
      BY <1>3, <2>2, <3>2, <3>3, WorkersCounted
    <3> QED  BY <1>2, <1>4, <2>1, <3>1, <3>4
  <2>4. CASE ~Mine(w, m)
    BY <1>1, <1>5, <2>1, <2>2, <2>4, CountingValue
  <2> QED  BY <2>3, <2>4
<1>9. ASSUME NEW w \in Workers, NEW m \in Msgs, LoseConfirmation(w, m) \/ RecordSuccess(w, m)
      PROVE  Goal
  <2>1. /\ row' = row /\ m \in Msgs /\ TaskStep(w, m)
        /\ \/ counter' = Counting(counter, w, m) /\ missed' = missed
           \/ missed' = Counting(missed, w, m) /\ counter' = counter
    BY <1>9 DEF LoseConfirmation, RecordSuccess, redis, history, tally, TaskStep
  <2>2. task[w][m].pc \in {"posted", "succeeded"} /\ task'[w][m].pc \in {"none", "requeue"}
    BY <1>0, <1>9, TaskUpdated DEF LoseConfirmation, RecordSuccess, TaskAt
  <2>3. ASSUME NEW v \in U, v # w \/ ~Mine(w, m)  PROVE v \in V
    <3>1. v \in Workers
      BY <1>3
    <3>2. ~Crash(v)
      <4>1. disturbances' = disturbances
        BY <1>9 DEF LoseConfirmation, RecordSuccess
      <4> QED  BY <1>0, <4>1, CrashCounts
    <3>3. ASSUME NEW n \in InThread, Mine(v, n), LoseConfirmation(v, n) \/ RecordSuccess(v, n)
          PROVE  FALSE
      <4>1. TaskStep(v, n) /\ n \in Msgs
        BY <3>3, ConstantsAssumption DEF TaskStep
      <4>2. v = w /\ n = m
        BY <1>0, <2>1, <2>2, <3>1, <4>1, TaskStepMovesOneJob
      <4> QED  BY <2>3, <3>3, <4>2
    <3> QED  BY <1>k, <3>2, <3>3
  <2>4. CASE Mine(w, m)
    <3>1. U \ {w} \subseteq V
      BY <2>3
    <3>2. \/ counter'[c][s] = counter[c][s] + 1 /\ missed'[c][s] = missed[c][s]
          \/ counter'[c][s] = counter[c][s] /\ missed'[c][s] = missed[c][s] + 1
      BY <1>1, <2>1, <2>4, CountingValue
    <3> QED  BY <1>7, <2>1, <3>1, <3>2
  <2>5. CASE ~Mine(w, m)
    <3>1. U \subseteq V
      BY <2>3, <2>5
    <3>2. counter'[c][s] = counter[c][s] /\ missed'[c][s] = missed[c][s]
      BY <1>1, <2>1, <2>5, CountingValue
    <3> QED  BY <1>5, <2>1, <3>1, <3>2
  <2> QED  BY <2>4, <2>5
<1>10. ASSUME NEW w \in Workers, Crash(w)  PROVE Goal
  <2>1. UNCHANGED <<row, counter>>
    BY <1>10 DEF Crash, redis
  <2>2. missed'[c][s] = IF w \in U THEN missed[c][s] + 1 ELSE missed[c][s]
    BY <1>10 DEF Crash, U
  <2>3. ASSUME NEW v \in U, v # w  PROVE v \in V
    <3>1. v \in Workers /\ task'[v] = task[v]
      BY <1>0, <1>3, <1>10, <2>3 DEF Crash, TypeOK
    <3> QED  BY <3>1 DEF U, V, Uncounted
  <2>4. CASE w \in U
    <3>1. U \ {w} \subseteq V
      BY <2>3
    <3> QED  BY <1>7, <2>1, <2>2, <2>4, <3>1
  <2>5. CASE w \notin U
    <3>1. U \subseteq V
      BY <2>3, <2>5
    <3> QED  BY <1>5, <2>1, <2>2, <2>5, <3>1
  <2> QED  BY <2>4, <2>5
<1>11. ASSUME \A w \in Workers : /\ ~Crash(w)
                                 /\ \A m \in Msgs : /\ ~PostReply(w, m) /\ ~SimulateReply(w, m)
                                                    /\ ~LoseConfirmation(w, m)
                                                    /\ ~RecordSuccess(w, m)
      PROVE  Goal
  <2>1. U \subseteq V
    <3> SUFFICES ASSUME NEW w \in U  PROVE w \in V
      OBVIOUS
    <3> QED  BY <1>k, <1>3, <1>11, ConstantsAssumption
  <2>2. CASE UNCHANGED <<counter, row, missed>>
    BY <1>5, <2>1, <2>2
  <2>3. ASSUME NEW d, NEW a, ResetCounter(d, a)  PROVE Goal
    <3>1. \/ row'[c][s] = 0
          \/ /\ row'[c][s] = row[c][s] /\ counter'[c][s] = counter[c][s]
             /\ missed'[c][s] = missed[c][s]
      BY <1>1, <2>3, ResetValue DEF ResetCounter
    <3> QED  BY <1>5, <1>6, <2>1, <3>1
  <2>4. UNCHANGED <<counter, row, missed>> \/ \E d, a : ResetCounter(d, a)
    <3>1. ASSUME NEW w \in Workers, NEW m \in Msgs, CheckThreadReplies(w, m)
          PROVE  UNCHANGED <<counter, row, missed>> \/ \E d, a : ResetCounter(d, a)
      BY <3>1 DEF CheckThreadReplies, tally
    <3>2. ASSUME NEW w \in Workers, NEW m \in Msgs, TaskStep(w, m), ~CheckThreadReplies(w, m)
          PROVE  UNCHANGED <<counter, row, missed>>
      BY <1>11, <3>2 DEF TaskStep, AcquireGroupLock, AcquireSemaphore, ChooseAccount, StartTyping,
         ConfirmReply, FailReply, RevokeSession, TaskRaises, RequeueFailed, redis, history, tally
    <3>3. ASSUME NEW w \in Workers, ConsumerStep(w) \/ \E m \in Msgs : MarkSeen(w, m) \/ Enqueue(w, m)
          PROVE  UNCHANGED <<counter, row, missed>>
      BY <3>3 DEF ConsumerStep, CheckConsumer, Pop, PopEmpty, SpawnReply, RequeueUntried,
                  MarkSeen, Enqueue, redis, history, tally
    <3>4. ASSUME NEW d \in Chats, NEW a \in Sessions, ExpireCounter(d, a)
          PROVE  ResetCounter(d, a)
      BY <3>4 DEF ExpireCounter
    <3>5. ASSUME Environment, \A d \in Chats, a \in Sessions : ~ExpireCounter(d, a)
          PROVE  UNCHANGED <<counter, row, missed>>
      BY <1>11, <3>5 DEF Environment, Restart, RotateConsumer, ReassignRepliers, RecoverAccount,
         RecoverLate, FindRevoked, RestAllAccounts, FlushState, redis, history, tally
    <3>6. CASE UNCHANGED vars
      BY <3>6 DEF vars, redis, history, tally
    <3> QED  BY <3>1, <3>2, <3>3, <3>4, <3>5, <3>6 DEF Next
  <2> QED  BY <2>2, <2>3, <2>4
<1>12. Goal
  BY <1>8, <1>9, <1>10, <1>11
<1> QED  BY <1>12 DEF V

\* Over any number of workers, groups and accounts, and whatever is retried or
\* crashes, the thread replies an account makes in a group until its counter is
\* reset exceed the limit by one for each other worker, and by those whose
\* confirmation was lost or whose worker died.
THEOREM ThreadReplies == Spec => []ThreadReplyBound
<1>1. Init => RuleInv
  <2> SUFFICES ASSUME Init  PROVE RuleInv
    OBVIOUS
  <2>1. ASSUME NEW c \in Chats, NEW s \in Sessions
        PROVE  row[c][s] <= counter[c][s] + Cardinality(Uncounted(c, s)) + missed[c][s]
    <3>1. Uncounted(c, s) = {}
      BY ConstantsAssumption DEF Init, Uncounted, NoTask
    <3>2. row[c][s] = 0 /\ counter[c][s] = 0 /\ missed[c][s] = 0
      BY DEF Init
    <3> QED  BY <3>1, <3>2, FS_EmptySet
  <2> QED  BY <2>1, CounterBudgetInit DEF RuleInv, RowBudget
<1>2. Inv /\ Inv' /\ RuleInv /\ [Next]_vars => RuleInv'
  BY OneLockHolderStep, CounterBudgetStep, RowBudgetStep DEF Inv, RuleInv
<1>3. Inv /\ RuleInv => ThreadReplyBound
  <2> SUFFICES ASSUME Inv, RuleInv, NEW c \in Chats, NEW s \in Sessions
               PROVE  row[c][s] <= MaxConsecutive + Cardinality(Workers) - 1 + missed[c][s]
    BY DEF ThreadReplyBound
  <2>1. counter[c][s] \in Nat /\ row[c][s] \in Nat /\ missed[c][s] \in Nat /\ MaxConsecutive \in Nat
    <3>1. counter \in Tally /\ row \in Tally /\ missed \in Tally
      BY DEF Inv, TypeOK, Tally
    <3> QED  BY <3>1, ConstantsAssumption DEF Tally
  <2>2. IsFiniteSet(Workers) /\ Cardinality(Workers) \in Nat
    BY ConstantsAssumption, FS_CardinalityType
  <2>3. Uncounted(c, s) \subseteq Passed(c, s) /\ Passed(c, s) \subseteq Workers
    BY ConstantsAssumption DEF Uncounted, Passed, Replying, Counted
  <2>4. /\ Cardinality(Uncounted(c, s)) <= Cardinality(Passed(c, s))
        /\ Cardinality(Uncounted(c, s)) \in Nat /\ Cardinality(Passed(c, s)) \in Nat
    BY <2>3, WorkersCounted
  <2>5. /\ counter[c][s] + Cardinality(Passed(c, s)) <= MaxConsecutive + Cardinality(Workers) - 1
        /\ row[c][s] <= counter[c][s] + Cardinality(Uncounted(c, s)) + missed[c][s]
    BY DEF RuleInv, CounterBudget, RowBudget
  <2> QED  BY <2>1, <2>2, <2>4, <2>5
<1> QED  BY <1>1, <1>2, <1>3, InvHolds, PTL DEF Spec

-----------------------------------------------------------------------------
(* The pipeline implements ReplyPromise.                                   *)

LEMMA RetryQueuesOne ==
  ASSUME queue \in Seq(Jobs), NEW j \in Jobs, queue' = RetryQueue(j)
  PROVE  \A n \in Msgs : Queued(n)' => Queued(n) \/ n = j.msg
BY RetryAddsAtMostOne DEF Queued

\* Only MarkSeen gives a message a job it did not have.
LEMMA NoNewJobs ==
  ASSUME TypeOK, HoldsJob, [Next]_vars,
         ~\E w \in Workers, m \in Msgs : MarkSeen(w, m)
  PROVE  seen' = seen /\ \A n \in Msgs : Pending(n)' => Pending(n)
<1>1. CASE OnlyLosesJobs
  BY <1>1 DEF OnlyLosesJobs, NoTask, Pending, Queued, Holds, Tasked
<1>2. ASSUME NEW w \in Workers, NEW m \in Msgs, Enqueue(w, m)
      PROVE  seen' = seen /\ \A n \in Msgs : Pending(n)' => Pending(n)
  <2> DEFINE j == [msg |-> m, retry |-> 0]
  <2>1. j \in Jobs /\ j.msg = m
    BY ConstantsAssumption DEF Jobs
  <2>2. queue' = Append(queue, j)
    BY <1>2 DEF Enqueue
  <2> HIDE DEF j
  <2>3. \A n \in Msgs : Queued(n)' => Queued(n) \/ n = m
    BY <2>1, <2>2, QueueAppend DEF Queued, TypeOK
  <2> QED  BY <1>2, <2>3 DEF Enqueue, Pending, Holds, Tasked, TypeOK
<1>3. ASSUME NEW w \in Workers, Pop(w)
      PROVE  seen' = seen /\ \A n \in Msgs : Pending(n)' => Pending(n)
  <2>1. \A n \in Msgs : Queued(n)' => Queued(n)
    BY <1>3, QueueTail DEF Pop, Queued, TypeOK
  <2>2. \A n \in Msgs, v \in Workers : Holds(v, n)' => Holds(v, n) \/ Queued(n)
    BY <1>3, QueueTail DEF Pop, Holds, Queued, TypeOK
  <2> QED  BY <1>3, <2>1, <2>2 DEF Pop, Pending, Tasked
<1>4. ASSUME NEW w \in Workers, SpawnReply(w)
      PROVE  seen' = seen /\ \A n \in Msgs : Pending(n)' => Pending(n)
  <2>1. Holds(w, held[w].msg)
    BY <1>4 DEF SpawnReply, HoldsJob, Holds
  <2>2. \A n \in Msgs, v \in Workers : Tasked(v, n)' => Tasked(v, n) \/ Holds(w, n)
    BY <1>4, <2>1 DEF SpawnReply, Tasked, TypeOK
  <2>3. \A n \in Msgs, v \in Workers : Holds(v, n)' => Holds(v, n)
    BY <1>4 DEF SpawnReply, Holds, TypeOK
  <2> QED  BY <1>4, <2>2, <2>3 DEF SpawnReply, Pending, Queued, redis
<1>5. ASSUME NEW w \in Workers, RequeueUntried(w)
      PROVE  seen' = seen /\ \A n \in Msgs : Pending(n)' => Pending(n)
  <2>1. held[w] \in Jobs /\ held[w] # NoJob
    BY <1>5 DEF RequeueUntried, TypeOK, HoldsJob
  <2>2. \A n \in Msgs : Queued(n)' => Queued(n) \/ Holds(w, n)
    <3>1. queue \in Seq(Jobs) /\ queue' = RetryQueue(held[w])
      BY <1>5 DEF RequeueUntried, TypeOK
    <3>2. \/ queue' = queue
          \/ /\ DOMAIN queue' = DOMAIN queue \cup {Len(queue) + 1}
             /\ \A i \in DOMAIN queue : queue'[i] = queue[i]
             /\ queue'[Len(queue) + 1].msg = held[w].msg
      BY <2>1, <3>1, RetryAddsAtMostOne
    <3> QED  BY <2>1, <3>2 DEF Queued, Holds
  <2>3. \A n \in Msgs, v \in Workers : Holds(v, n)' => Holds(v, n)
    BY <1>5 DEF RequeueUntried, Holds, TypeOK
  <2> QED  BY <1>5, <2>2, <2>3 DEF RequeueUntried, Pending, Tasked
<1>6. ASSUME NEW w \in Workers, NEW m \in Msgs, TaskStep(w, m)
      PROVE  seen' = seen /\ \A n \in Msgs : Pending(n)' => Pending(n)
  <2> DEFINE j == [msg |-> m, retry |-> task[w][m].retry]
  <2>1. j \in Jobs /\ j.msg = m
    BY DEF Jobs, TypeOK, Tasks
  <2>2. /\ Tasked(w, m) /\ UNCHANGED <<seen, marked, held>>
        /\ \A v \in Workers, n \in Msgs : v # w \/ n # m => task'[v][n] = task[v][n]
        /\ queue' = queue \/ queue' = RetryQueue(j)
    BY <1>6, TaskStepMovesOneJob
  <2> HIDE DEF j
  <2>3. \A n \in Msgs : Queued(n)' => Queued(n) \/ n = m
    <3>1. CASE queue' = queue
      BY <3>1 DEF Queued
    <3>2. CASE queue' = RetryQueue(j)
      BY <2>1, <3>2, RetryQueuesOne DEF TypeOK
    <3> QED  BY <2>2, <3>1, <3>2
  <2>4. \A v \in Workers, n \in Msgs : Tasked(v, n)' => Tasked(v, n)
    BY <2>2 DEF Tasked
  <2>5. \A v \in Workers, n \in Msgs : Holds(v, n)' <=> Holds(v, n)
    BY <2>2 DEF Holds
  <2> QED  BY <2>2, <2>3, <2>4, <2>5 DEF Pending
<1> QED  BY <1>1, <1>2, <1>3, <1>4, <1>5, <1>6, OtherStepsOnlyLose
         DEF Next, ConsumerStep

\* Only PostReply posts, a pending message that has a try left.
LEMMA NoOtherPosts ==
  ASSUME [Next]_vars, ~\E w \in Workers, m \in Msgs : PostReply(w, m)
  PROVE  posted' = posted
<1>1. ASSUME NEW w \in Workers, NEW m \in Msgs, TaskStep(w, m)  PROVE posted' = posted
  BY <1>1 DEF TaskStep, AcquireGroupLock, AcquireSemaphore, ChooseAccount,
     CheckThreadReplies, StartTyping, SimulateReply, ConfirmReply, LoseConfirmation,
     FailReply, RevokeSession, TaskRaises, RecordSuccess, RequeueFailed, history
<1>2. ASSUME NEW w \in Workers, ConsumerStep(w)  PROVE posted' = posted
  BY <1>2 DEF ConsumerStep, CheckConsumer, Pop, PopEmpty, SpawnReply, RequeueUntried, history
<1>3. CASE Environment
  BY <1>3 DEF Environment, Crash, Restart, RotateConsumer, ReassignRepliers, RecoverAccount, RecoverLate,
     FindRevoked, RestAllAccounts, FlushState, ExpireCounter, history
<1> QED  BY <1>1, <1>2, <1>3 DEF Next, MarkSeen, Enqueue, vars, history

LEMMA PhaseOf ==
  ASSUME NEW m \in Msgs
  PROVE  /\ Phase[m] = "fresh" <=> m \notin seen
         /\ Phase[m] = "pending" <=> m \in seen /\ Pending(m)
         /\ Phase[m] = "closed" <=> m \in seen /\ ~Pending(m)
BY DEF Phase

\* Every step accepts a new message, posts one reply of a pending one, or
\* closes messages.
LEMMA StepKeepsPromise ==
  ASSUME Inv, [Next]_vars
  PROVE  [Promise!Next]_<<Phase, posted>>
<1>0. TypeOK /\ HoldsJob /\ JobsSeen /\ BudgetTasks
  BY DEF Inv, JobInv, Budget
<1>1. ASSUME NEW w \in Workers, NEW m \in Msgs, MarkSeen(w, m)
      PROVE  Promise!Accept(m)
  <2>1. /\ m \notin seen /\ seen' = seen \cup {m} /\ posted' = posted
        /\ Pending(m)' /\ \A n \in Msgs \ {m} : Pending(n)' <=> Pending(n)
    BY <1>0, <1>1 DEF MarkSeen, Pending, Queued, Holds, Tasked, TypeOK, history
  <2>2. Phase' = [Phase EXCEPT ![m] = "pending"]
    BY <2>1 DEF Phase
  <2> QED  BY <2>1, <2>2, PhaseOf DEF Promise!Accept
<1>2. ASSUME NEW w \in Workers, NEW m \in Msgs, PostReply(w, m)
      PROVE  Promise!Post(m)
  <2>1. /\ task[w][m].pc = "typing" /\ seen' = seen
        /\ posted' = [posted EXCEPT ![m] = @ + 1]
        /\ UNCHANGED <<queue, marked, held>>
    BY <1>2 DEF PostReply, TaskAt, redis
  <2>2. Tasked(w, m) /\ m \in seen /\ Pending(m)
    BY <1>0, <2>1 DEF JobsSeen, Pending, Tasked
  <2>3. \A n \in Msgs, v \in Workers : Tasked(v, n)' <=> Tasked(v, n)
    BY <1>0, <1>2 DEF PostReply, TaskAt, Goto, Tasked, TypeOK, Tasks
  <2>4. \A n \in Msgs : Pending(n)' <=> Pending(n)
    BY <2>1, <2>3 DEF Pending, Queued, Holds
  <2>5. Phase' = Phase
    BY <2>1, <2>4 DEF Phase
  <2>6. posted[m] < 1 + MaxRetries
    <3>1. task[w][m].retry \in 0..MaxRetries /\ posted[m] \in Nat
      BY <1>0 DEF TypeOK, Tasks
    <3>2. posted[m] <= task[w][m].retry
      BY <1>0, <2>1 DEF BudgetTasks, TaskBudget, Untried, Unanswered
    <3> QED  BY <3>1, <3>2, ConstantsAssumption
  <2> QED  BY <2>1, <2>2, <2>5, <2>6, PhaseOf DEF Promise!Post
<1>3. ASSUME ~\E w \in Workers, m \in Msgs : MarkSeen(w, m) \/ PostReply(w, m)
      PROVE  \E S \in SUBSET Msgs : Promise!Close(S)
  <2>1. /\ seen' = seen /\ posted' = posted
        /\ \A n \in Msgs : Pending(n)' => Pending(n)
    BY <1>0, <1>3, NoNewJobs, NoOtherPosts
  <2>2. PICK S \in SUBSET Msgs :
          \A n \in Msgs : n \in S <=> Phase[n] = "pending" /\ ~Pending(n)'
    <3> WITNESS {n \in Msgs : Phase[n] = "pending" /\ ~Pending(n)'} \in SUBSET Msgs
    <3> QED  OBVIOUS
  <2>3. Phase' = [n \in Msgs |-> IF n \in S THEN "closed" ELSE Phase[n]]
    BY <2>1, <2>2 DEF Phase
  <2> QED  BY <2>1, <2>2, <2>3 DEF Promise!Close
<1> QED  BY <1>1, <1>2, <1>3 DEF Promise!Next

\* The pipeline implements its promise: one acceptance per message, replies
\* only while its job is pending and at most 1 + MaxRetries of them, none after.
THEOREM PipelineKeepsPromise == Spec => KeepsPromise
<1>1. Init => Promise!Init
  BY DEF Init, Promise!Init, Phase
<1>2. Inv /\ [Next]_vars => [Promise!Next]_<<Phase, posted>>
  BY StepKeepsPromise
<1> QED  BY <1>1, <1>2, InvHolds, PTL DEF Spec, KeepsPromise, Promise!Spec
=============================================================================
