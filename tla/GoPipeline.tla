----------------------------- MODULE GoPipeline -----------------------------
(***************************************************************************)
(* The reply pipeline of the Go worker (go-backend/worker/worker.go): a    *)
(* listener marks a message in Redis and puts it into the debounce buffer  *)
(* of its group; three seconds after the first of them a flush queues two  *)
(* fifths of the buffer and drops the rest; the worker that holds the      *)
(* consumer role pops a job and a goroutine answers it, once, through the  *)
(* two accounts of the group in turn.  A step is the code between two      *)
(* calls to Redis, SQLite or Telegram, or one critical section.            *)
(*                                                                         *)
(* Each entry a message makes in this pipeline is a job.  There is one per *)
(* message unless a call to Redis fails: a failed SETNX asks the memory of *)
(* the process instead, and go-redis, as it is configured, sends a command *)
(* again whose answer was lost.                                            *)
(***************************************************************************)
EXTENDS Naturals, Sequences, FiniteSets

CONSTANTS
  Workers,               \* worker processes
  Msgs,                  \* new messages that pass the handler's own filters
  Jobs,                  \* the jobs that can come into being
  MsgOf,                 \* the message of each job
  Chats,                 \* target groups
  Sessions,              \* replier accounts
  ChatOf,                \* the group of each job
  InThread,              \* the jobs whose message replies to another message
  Pair,                  \* group_pair_assignments: two accounts of each group
  MaxConsecutive,        \* 5 in the code (Rule 2)
  MaxConcurrentReplies,  \* the semaphore of each worker
  MaxDisturbances,       \* bound on crashes, faults and outside changes
  NoAcc                  \* no account

\* "OK" stands for ACTIVE, RESTING and TYPING, "DOWN" for FLOOD_WAIT and ERROR,
\* "OUT" for UNAUTHORIZED and DISABLED.
Status == {"OK", "DOWN", "OUT"}

\* A task past Rule 2 waits for the semaphore ("sem") and then holds it.
Running == {"send", "typing", "simulate", "posted", "succeeded"}
Tasks   == [pc : {"none", "choose"}, acc : {NoAcc}] \cup [pc : Running \cup {"rule2", "sem"}, acc : Sessions]
NoTask  == [pc |-> "none", acc |-> NoAcc]

ASSUME GoAssumption ==
  /\ IsFiniteSet(Jobs)
  /\ NoAcc \notin Sessions
  /\ MsgOf \in [Jobs -> Msgs]
  /\ ChatOf \in [Jobs -> Chats]
  /\ InThread \subseteq Jobs
  /\ Pair \in [Chats -> [primary : Sessions, backup : Sessions]]
  /\ MaxConsecutive \in Nat \ {0}
  /\ MaxConcurrentReplies \in Nat \ {0}
  /\ MaxDisturbances \in Nat

VARIABLES
  seen,            \* Redis: the messages marked by SETNX seen:<chat>:<msg>
  texts,           \* Redis: are there reply texts in active_messages?
  queue,           \* Redis: the list tg_message_queue
  activeConsumer,  \* Redis: the worker whose turn it is
  counter,         \* Redis: consecutive_thread_replies:<chat>:<session>
  status,          \* SQLite: accounts.status
  files,           \* the sessions whose .session file exists
  up,              \* is the worker process running?
  memSeen,         \* its memory's own seen map
  marked,          \* handlers between SETNX and the buffer, by worker
  buffer,          \* its debounceBuffers, by group; {} is no entry
  picked,          \* jobs its flushes have picked and not queued yet
  loop,            \* where its consumer loop is
  task,            \* its reply goroutines, by job
  cache,           \* its replierAccountsCache: the status it last loaded
  disturbances,    \* crashes, faults and outside changes so far
  received,        \* history: the jobs that have come into being
  faultsOn,        \* history: calls to Redis about each message that failed
  posted,          \* history: replies that reached Telegram, by job
  flushed,         \* history: jobs whose debounce window has closed
  kept             \* history: those the flush picked

redis    == <<seen, queue, activeConsumer, texts, counter>>
accounts == <<status, files>>
process  == <<up, memSeen>>
local    == <<process, marked, buffer, picked, loop, task, cache>>
jobs     == <<received, faultsOn>>
history  == <<jobs, posted, flushed, kept>>
vars     == <<redis, accounts, local, disturbances, history>>

TypeOK ==
  /\ seen \subseteq Msgs /\ texts \in BOOLEAN
  /\ queue \in Seq(Jobs)
  /\ activeConsumer \in Workers
  /\ counter \in [Chats -> [Sessions -> Nat]]
  /\ status \in [Sessions -> Status] /\ files \subseteq Sessions
  /\ up \in [Workers -> BOOLEAN] /\ memSeen \in [Workers -> SUBSET Msgs]
  /\ marked \in [Workers -> SUBSET Jobs]
  /\ buffer \in [Workers -> [Chats -> SUBSET Jobs]]
  /\ picked \in [Workers -> SUBSET Jobs]
  /\ loop \in [Workers -> {"check", "refresh", "pop"}]
  /\ task \in [Workers -> [Jobs -> Tasks]]
  /\ cache \in [Workers -> [Sessions -> Status \cup {"absent"}]]
  /\ disturbances \in 0..MaxDisturbances
  /\ received \subseteq Jobs /\ faultsOn \in [Msgs -> Nat]
  /\ posted \in [Jobs -> Nat] /\ flushed \subseteq Jobs /\ kept \subseteq Jobs

\* The accounts loadAccountsByRole("REPLIER") finds.
Loadable == {s \in files : status[s] # "OUT"}

Init ==
  /\ seen = {} /\ queue = <<>> /\ texts \in BOOLEAN
  /\ activeConsumer \in Workers
  /\ counter = [c \in Chats |-> [s \in Sessions |-> 0]]
  /\ status = [s \in Sessions |-> "OK"] /\ files = Sessions
  /\ up = [w \in Workers |-> TRUE] /\ memSeen = [w \in Workers |-> {}]
  /\ marked = [w \in Workers |-> {}]
  /\ buffer = [w \in Workers |-> [c \in Chats |-> {}]]
  /\ picked = [w \in Workers |-> {}]
  /\ loop = [w \in Workers |-> "check"]
  /\ task = [w \in Workers |-> [j \in Jobs |-> NoTask]]
  /\ cache = [w \in Workers |-> [s \in Sessions |-> "OK"]]
  /\ disturbances = 0
  /\ received = {} /\ faultsOn = [m \in Msgs |-> 0]
  /\ posted = [j \in Jobs |-> 0] /\ flushed = {} /\ kept = {}

Disturb == disturbances < MaxDisturbances /\ disturbances' = disturbances + 1

-----------------------------------------------------------------------------
(* Listener: handleIncomingMessage and the debounce buffer.                *)

Fault(m) == Disturb /\ faultsOn' = [faultsOn EXCEPT ![m] = @ + 1]

\* A new job of the handler.
Receive(w, j) ==
  /\ up[w] /\ j \notin received
  /\ received' = received \cup {j}
  /\ marked' = [marked EXCEPT ![w] = @ \cup {j}]

\* Mutant: SET instead of SETNX, so that each delivery makes a job.
MarkAgain(w, j) ==
  /\ Receive(w, j) /\ seen' = seen \cup {MsgOf[j]}
  /\ UNCHANGED <<queue, activeConsumer, texts, counter, accounts, process, buffer, picked,
                 loop, task, cache, disturbances, faultsOn, posted, flushed, kept>>

\* A second delivery of a marked message changes nothing.
MarkSeen(w, j) ==
  /\ Receive(w, j) /\ MsgOf[j] \notin seen
  /\ seen' = seen \cup {MsgOf[j]}
  /\ UNCHANGED <<queue, activeConsumer, texts, counter, accounts, process, buffer, picked,
                 loop, task, cache, disturbances, faultsOn, posted, flushed, kept>>

\* SETNX fails, whether or not the mark was set: the memory decides, which does
\* not know what other workers marked.
MarkFails(w, j) ==
  /\ Receive(w, j) /\ MsgOf[j] \notin memSeen[w] /\ Fault(MsgOf[j])
  /\ memSeen' = [memSeen EXCEPT ![w] = @ \cup {MsgOf[j]}]
  /\ seen' \in {seen, seen \cup {MsgOf[j]}}
  /\ UNCHANGED <<queue, activeConsumer, texts, counter, accounts, up, buffer, picked,
                 loop, task, cache, posted, flushed, kept>>

\* The mark is set and its answer lost: sent again SETNX finds the mark, or the
\* memory knows the message.  Nobody takes it.
MarkAlone(w, m) ==
  /\ up[w] /\ m \notin seen /\ Fault(m)
  /\ seen' = seen \cup {m}
  /\ UNCHANGED <<queue, activeConsumer, texts, counter, accounts, local, received,
                 posted, flushed, kept>>

\* The first message of a window starts its timer.
AddToBuffer(w, j) ==
  /\ j \in marked[w]
  /\ marked' = [marked EXCEPT ![w] = @ \ {j}]
  /\ buffer' = [buffer EXCEPT ![w][ChatOf[j]] = @ \cup {j}]
  /\ UNCHANGED <<redis, accounts, process, picked, loop, task, cache, disturbances, history>>

\* Mutant: two fifths, rounded down.
ShareDown(n) == (2 * n) \div 5

\* Two fifths of a window, rounded up.
Share(n) == (2 * n + 4) \div 5

\* Mutant: the buffer is copied and stays.
FlushCopy(w, c) ==
  /\ buffer[w][c] # {} /\ flushed' = flushed \cup buffer[w][c]
  /\ \E S \in SUBSET buffer[w][c] :
       /\ Cardinality(S) = Share(Cardinality(buffer[w][c]))
       /\ picked' = [picked EXCEPT ![w] = @ \cup S]
       /\ kept' = kept \cup S
  /\ UNCHANGED <<redis, accounts, process, marked, buffer, loop, task, cache, disturbances, jobs, posted>>

\* The timer has run out: a random share of the window is kept.  Messages that
\* come while the flush waits for the lock still belong to the window.
Flush(w, c) ==
  /\ buffer[w][c] # {} /\ flushed' = flushed \cup buffer[w][c]
  /\ buffer' = [buffer EXCEPT ![w][c] = {}]
  /\ \E S \in SUBSET buffer[w][c] :
       /\ Cardinality(S) = Share(Cardinality(buffer[w][c]))
       /\ picked' = [picked EXCEPT ![w] = @ \cup S]
       /\ kept' = kept \cup S
  /\ UNCHANGED <<redis, accounts, process, marked, loop, task, cache, disturbances, jobs, posted>>

\* What was picked is queued job by job, in the shuffled order.  When only the
\* answer is lost, the memory queue has a copy too, which is not read while the
\* worker believes in Redis.
Enqueue(w, j) ==
  /\ j \in picked[w]
  /\ picked' = [picked EXCEPT ![w] = @ \ {j}]
  /\ queue' = Append(queue, j)
  /\ UNCHANGED <<seen, activeConsumer, texts, counter, accounts, process, marked, buffer, loop,
                 task, cache, disturbances, history>>

\* RPUSH fails: only the memory queue has the job.
EnqueueFails(w, j) ==
  /\ j \in picked[w] /\ Fault(MsgOf[j])
  /\ picked' = [picked EXCEPT ![w] = @ \ {j}]
  /\ UNCHANGED <<redis, accounts, process, marked, buffer, loop, task, cache, received,
                 posted, flushed, kept>>

\* The answer of RPUSH is lost and the client is about to send it again: what is
\* in the queue by now is one more job k of the message.
RepeatPush(w, j, k) ==
  /\ j \in picked[w] /\ Fault(MsgOf[j])
  /\ k \notin received /\ MsgOf[k] = MsgOf[j]
  /\ received' = received \cup {k}
  /\ queue' = Append(queue, k)
  /\ UNCHANGED <<seen, activeConsumer, texts, counter, accounts, local, posted, flushed, kept>>

-----------------------------------------------------------------------------
(* Consumer: consumerLoop.                                                 *)

Step(w, pc) == loop' = [loop EXCEPT ![w] = pc]

\* The role and the reply texts are read in one round trip.  Without the role, or
\* without texts (none can be read when Redis fails), the loop sleeps.
CheckConsumer(w) ==
  /\ up[w] /\ loop[w] = "check" /\ activeConsumer = w /\ texts
  /\ Step(w, "refresh")
  /\ UNCHANGED <<redis, accounts, process, marked, buffer, picked, task, cache, disturbances, history>>

\* refreshReplierAccountStatuses: of the accounts that are in the cache.
Statuses(old) == [s \in Sessions |-> IF old[s] = "absent" THEN "absent" ELSE status[s]]

\* Without an account that can send the loop sleeps and starts again: an empty
\* cache too counts as one in which nothing can send.
RefreshStatuses(w) ==
  /\ loop[w] = "refresh"
  /\ cache' = [cache EXCEPT ![w] = Statuses(@)]
  /\ Step(w, IF \E s \in Sessions : cache'[w][s] = "OK" THEN "pop" ELSE "check")
  /\ UNCHANGED <<redis, accounts, process, marked, buffer, picked, task, disturbances, history>>

Goto(w, j, pc)     == task' = [task EXCEPT ![w][j].pc = pc]
TaskAt(w, j, pc)   == task[w][j].pc = pc
EndTask(w, j)      == task' = [task EXCEPT ![w][j] = NoTask]

\* The head of the queue gets a goroutine.
Pop(w) ==
  /\ loop[w] = "pop" /\ queue # <<>>
  /\ queue' = Tail(queue)
  /\ Goto(w, Head(queue), "choose")
  /\ Step(w, "check")
  /\ UNCHANGED <<seen, activeConsumer, texts, counter, accounts, process, marked, buffer, picked,
                 cache, disturbances, history>>

\* What loading the repliers adds to the cache; nothing is dropped from it.
Loaded(old) == [s \in Sessions |-> IF s \in Loadable THEN status[s] ELSE old[s]]

\* BLPOP fails: a job whose answer is lost is lost.  The client sends the command
\* again, or the loop goes on as after a timeout.
PopFails(w) ==
  /\ loop[w] = "pop" /\ queue # <<>> /\ Disturb
  /\ queue' \in {queue, Tail(queue)}
  /\ \/ UNCHANGED <<loop, cache>>
     \/ Step(w, "check") /\ cache' \in {cache, [cache EXCEPT ![w] = Loaded(@)]}
  /\ UNCHANGED <<seen, activeConsumer, texts, counter, accounts, process, marked, buffer, picked,
                 task, history>>

\* The timed-out pop, which every 30 s also sets up the listeners and loads the
\* repliers again.
PopEmpty(w) ==
  /\ loop[w] = "pop" /\ queue = <<>>
  /\ Step(w, "check")
  /\ cache' \in {cache, [cache EXCEPT ![w] = Loaded(@)]}
  /\ UNCHANGED <<redis, accounts, process, marked, buffer, picked, task, disturbances, history>>

-----------------------------------------------------------------------------
(* Reply goroutine: dispatchReply and SendReply.                           *)

Usable(w, s) == cache[w][s] = "OK"

\* The accounts of the group that can send, as far as the worker knows.
Healthy(w, c) == {s \in {Pair[c].primary, Pair[c].backup} : Usable(w, s)}

IsBackup(c, s) == s # Pair[c].primary

\* Mutant: when both are at their rate limit the reply goes on without either.
ChooseNobody(w, j) ==
  /\ TaskAt(w, j, "choose")
  /\ \E s \in Healthy(w, ChatOf[j]) \cup {NoAcc} :
       task' = [task EXCEPT ![w][j] = [pc |-> "rule2", acc |-> s]]
  /\ UNCHANGED <<redis, accounts, process, marked, buffer, picked, loop, cache, disturbances, history>>

\* The candidates take turns, and one at its rate limit leaves its turn to the
\* other: either may be chosen, or none.  Rule 4: the backup does not answer a
\* thread message.
ChooseAccount(w, j) ==
  /\ TaskAt(w, j, "choose")
  /\ \/ EndTask(w, j)
     \/ \E s \in Healthy(w, ChatOf[j]) :
          /\ IsBackup(ChatOf[j], s) => j \notin InThread
          /\ task' = [task EXCEPT ![w][j] = [pc |-> "rule2", acc |-> s]]
  /\ UNCHANGED <<redis, accounts, process, marked, buffer, picked, loop, cache, disturbances, history>>

\* Rule 2, first half: GET and compare, or DEL on a top-level message.
CheckThreadReplies(w, j) ==
  LET c == ChatOf[j]
      s == task[w][j].acc
  IN /\ TaskAt(w, j, "rule2")
     /\ IF j \in InThread
        THEN /\ counter' = counter
             /\ IF counter[c][s] >= MaxConsecutive THEN EndTask(w, j) ELSE Goto(w, j, "sem")
        ELSE /\ counter' = [counter EXCEPT ![c][s] = 0]
             /\ Goto(w, j, "sem")
     /\ UNCHANGED <<seen, queue, activeConsumer, texts, accounts, process, marked, buffer, picked,
                    loop, cache, disturbances, history>>

\* Its call fails: GET counts as 0, and DEL leaves the counter.
SkipThreadReplies(w, j) ==
  /\ TaskAt(w, j, "rule2") /\ Disturb
  /\ Goto(w, j, "sem")
  /\ UNCHANGED <<redis, accounts, process, marked, buffer, picked, loop, cache, history>>

RunningTasks(w) == {j \in Jobs : task[w][j].pc \in Running}

AcquireSemaphore(w, j) ==
  /\ TaskAt(w, j, "sem") /\ Cardinality(RunningTasks(w)) < MaxConcurrentReplies
  /\ Goto(w, j, "send")
  /\ UNCHANGED <<redis, accounts, process, marked, buffer, picked, loop, cache, disturbances, history>>

\* The account shows TYPING; without a session file the reply is simulated.
StartTyping(w, j) ==
  /\ TaskAt(w, j, "send")
  /\ status' = [status EXCEPT ![task[w][j].acc] = "OK"]
  /\ Goto(w, j, IF task[w][j].acc \in files THEN "typing" ELSE "simulate")
  /\ UNCHANGED <<redis, files, process, marked, buffer, picked, loop, cache, disturbances, history>>

SimulateReply(w, j) ==
  /\ TaskAt(w, j, "simulate")
  /\ status' = [status EXCEPT ![task[w][j].acc] = "OK"]
  /\ Goto(w, j, "succeeded")
  /\ UNCHANGED <<redis, files, process, marked, buffer, picked, loop, cache, disturbances, history>>

\* The message reaches Telegram; the answer is not in yet.
PostReply(w, j) ==
  /\ TaskAt(w, j, "typing")
  /\ posted' = [posted EXCEPT ![j] = @ + 1]
  /\ Goto(w, j, "posted")
  /\ UNCHANGED <<redis, accounts, process, marked, buffer, picked, loop, cache, disturbances, jobs, flushed, kept>>

ConfirmReply(w, j) ==
  /\ TaskAt(w, j, "posted")
  /\ status' = [status EXCEPT ![task[w][j].acc] = "OK"]
  /\ Goto(w, j, "succeeded")
  /\ UNCHANGED <<redis, files, process, marked, buffer, picked, loop, cache, disturbances, history>>

\* Mutant: a failed reply is queued again, as in the Python worker.
FailAndRequeue(w, j) ==
  /\ TaskAt(w, j, "typing") \/ TaskAt(w, j, "posted")
  /\ status' = [status EXCEPT ![task[w][j].acc] = "DOWN"]
  /\ files' = files
  /\ queue' = Append(queue, j)
  /\ EndTask(w, j)
  /\ UNCHANGED <<seen, activeConsumer, texts, counter, process, marked, buffer, picked, loop, cache, disturbances, history>>

\* Mutant: a failed reply keeps the semaphore.
FailAndHold(w, j) ==
  /\ TaskAt(w, j, "typing") \/ TaskAt(w, j, "posted")
  /\ status' = [status EXCEPT ![task[w][j].acc] = "DOWN"]
  /\ files' = files
  /\ Goto(w, j, "posted")
  /\ UNCHANGED <<redis, process, marked, buffer, picked, loop, cache, disturbances, history>>

\* An error, before Telegram took the message or after: there is no second try.
\* A revoked session also loses its file.
FailReply(w, j) ==
  /\ TaskAt(w, j, "typing") \/ TaskAt(w, j, "posted")
  /\ LET s == task[w][j].acc
     IN \/ /\ \E st \in {"DOWN", "OUT"} : status' = [status EXCEPT ![s] = st]
           /\ files' = files
        \/ /\ TaskAt(w, j, "typing")
           /\ status' = [status EXCEPT ![s] = "OUT"] /\ files' = files \ {s}
  /\ EndTask(w, j)
  /\ UNCHANGED <<redis, process, marked, buffer, picked, loop, cache, disturbances, history>>

\* Rule 2, second half: INCR after success.
RecordSuccess(w, j) ==
  /\ TaskAt(w, j, "succeeded")
  /\ counter' = IF j \in InThread
                THEN [counter EXCEPT ![ChatOf[j]][task[w][j].acc] = @ + 1]
                ELSE counter
  /\ EndTask(w, j)
  /\ UNCHANGED <<seen, queue, activeConsumer, texts, accounts, process, marked, buffer, picked,
                 loop, cache, disturbances, history>>

\* INCR fails and the success counts in a memory nobody reads, or its answer is
\* lost and the client sends it twice.
MiscountSuccess(w, j) ==
  /\ TaskAt(w, j, "succeeded") /\ j \in InThread /\ Disturb
  /\ \E n \in {0, 2} : counter' = [counter EXCEPT ![ChatOf[j]][task[w][j].acc] = @ + n]
  /\ EndTask(w, j)
  /\ UNCHANGED <<seen, queue, activeConsumer, texts, accounts, process, marked, buffer, picked,
                 loop, cache, history>>

-----------------------------------------------------------------------------
(* Worker lifecycle, and what others do to the shared state.               *)

\* A crash or a shutdown: nothing is drained.
Crash(w) ==
  /\ up[w] /\ Disturb
  /\ up' = [up EXCEPT ![w] = FALSE]
  /\ memSeen' = [memSeen EXCEPT ![w] = {}]
  /\ marked' = [marked EXCEPT ![w] = {}]
  /\ buffer' = [buffer EXCEPT ![w] = [c \in Chats |-> {}]]
  /\ picked' = [picked EXCEPT ![w] = {}]
  /\ loop' = [loop EXCEPT ![w] = "check"]
  /\ task' = [task EXCEPT ![w] = [j \in Jobs |-> NoTask]]
  /\ cache' = [cache EXCEPT ![w] = [s \in Sessions |-> "absent"]]
  /\ UNCHANGED <<redis, accounts, history>>

Restart(w) ==
  /\ ~up[w]
  /\ up' = [up EXCEPT ![w] = TRUE]
  /\ cache' = [cache EXCEPT ![w] = Loaded(@)]
  /\ UNCHANGED <<redis, accounts, memSeen, marked, buffer, picked, loop, task, disturbances, history>>

\* The role changes hands, or the consumer's key is flushed.
RotateConsumer(w) ==
  /\ activeConsumer # w /\ Disturb
  /\ activeConsumer' = w
  /\ UNCHANGED <<seen, queue, texts, counter, accounts, local, history>>

\* The reply texts are deleted, or there are some again.
ChangeTexts ==
  /\ Disturb /\ texts' = ~texts
  /\ UNCHANGED <<seen, queue, activeConsumer, counter, accounts, local, history>>

\* The account is logged in again, found unauthorized, or its session is revoked.
ChangeStatus(s) ==
  /\ Disturb
  /\ \/ status[s] = "OUT" /\ status' = [status EXCEPT ![s] = "OK"] /\ files' = files \cup {s}
     \/ status' = [status EXCEPT ![s] = "OUT"] /\ files' \in {files, files \ {s}}
  /\ UNCHANGED <<redis, local, history>>

\* RecoverErroredAndFloodWaitedAccounts, for one account.
RecoverAccount(s) ==
  /\ status[s] = "DOWN"
  /\ \E st \in {"OK", "OUT"} : status' = [status EXCEPT ![s] = st]
  /\ UNCHANGED <<redis, files, local, disturbances, history>>

ConsumerStep(w) ==
  CheckConsumer(w) \/ RefreshStatuses(w) \/ Pop(w) \/ PopFails(w) \/ PopEmpty(w)

TaskStep(w, j) ==
  \/ ChooseAccount(w, j) \/ CheckThreadReplies(w, j) \/ AcquireSemaphore(w, j)
  \/ StartTyping(w, j)   \/ SimulateReply(w, j)      \/ PostReply(w, j)
  \/ ConfirmReply(w, j)  \/ FailReply(w, j)          \/ RecordSuccess(w, j)
  \/ SkipThreadReplies(w, j) \/ MiscountSuccess(w, j)

Handover(w, j) == AddToBuffer(w, j) \/ Enqueue(w, j) \/ EnqueueFails(w, j)

Next ==
  \/ \E w \in Workers, j \in Jobs :
       MarkSeen(w, j) \/ MarkFails(w, j) \/ Handover(w, j) \/ TaskStep(w, j)
  \/ \E w \in Workers, j, k \in Jobs : RepeatPush(w, j, k)
  \/ \E w \in Workers, m \in Msgs : MarkAlone(w, m)
  \/ \E w \in Workers, c \in Chats : Flush(w, c)
  \/ \E w \in Workers : ConsumerStep(w) \/ Crash(w) \/ Restart(w) \/ RotateConsumer(w)
  \/ \E s \in Sessions : ChangeStatus(s) \/ RecoverAccount(s)
  \/ ChangeTexts

Spec == Init /\ [][Next]_vars

\* Timers fire, every call returns and the consumer loop polls for ever.
Fairness ==
  \A w \in Workers :
    /\ WF_vars(ConsumerStep(w))
    /\ \A c \in Chats : WF_vars(Flush(w, c))
    /\ \A j \in Jobs : WF_vars(Handover(w, j)) /\ WF_vars(TaskStep(w, j))

FairSpec == Spec /\ Fairness

-----------------------------------------------------------------------------
Queued(j)    == \E i \in DOMAIN queue : queue[i] = j
Tasked(w, j) == task[w][j].pc # "none"

\* The places a job can be in, at a worker.
Places(w, j) ==
  {p \in {"marked", "buffer", "picked", "task"} :
     \/ p = "marked" /\ j \in marked[w]
     \/ p = "buffer" /\ j \in buffer[w][ChatOf[j]]
     \/ p = "picked" /\ j \in picked[w]
     \/ p = "task"   /\ Tasked(w, j)}

Pending(j) == Queued(j) \/ \E w \in Workers : Places(w, j) # {}

\* From the handler through the buffer, the flush and the queue to the goroutine
\* a job is handed over, never copied, over all workers and crashes.
OnePlace ==
  /\ \A i, k \in DOMAIN queue : queue[i] = queue[k] => i = k
  /\ \A j \in Jobs, w \in Workers :
       /\ Queued(j) => Places(w, j) = {}
       /\ \A p, q \in Places(w, j) : p = q
       /\ \A v \in Workers : v # w => Places(w, j) = {} \/ Places(v, j) = {}

\* The replies to a message, by the jobs it became.
Answered(m) == {j \in Jobs : MsgOf[j] = m /\ posted[j] > 0}

\* "Deduplication" (queue_manager.go:103) over workers, listeners, crashes and
\* lost confirmations: a message is answered once, and once more at most for each
\* call to Redis about it that failed.
SecondAnswerNeedsFault ==
  \A m \in Msgs : /\ Cardinality(Answered(m)) <= 1 + faultsOn[m]
                  /\ \A j \in Answered(m) : posted[j] = 1

\* "Select 40% of messages" (worker.go:265): of all the jobs in the closed windows
\* at least two fifths are kept, however they fall into windows.
KeepsTwoFifths == 5 * Cardinality(kept) >= 2 * Cardinality(flushed)

\* What the pipeline promises about each job: it is answered at most once, even
\* when a confirmation is lost.
Phase == [j \in Jobs |-> IF j \notin received THEN "fresh"
                         ELSE IF Pending(j) THEN "pending" ELSE "closed"]
Promise == INSTANCE ReplyPromise WITH Msgs <- Jobs, phase <- Phase, MaxReplies <- 1
KeepsPromise == Promise!Spec

\* With finitely many disturbances every job leaves the pipeline, unless it is
\* queued and the consumer is down, has no texts or has loaded no account that
\* can send.
JobsFinish ==
  \A j \in Jobs :
    Pending(j) ~>
      \/ ~Pending(j)
      \/ Queued(j) /\ LET w == activeConsumer
                      IN \/ ~up[w] \/ ~texts
                         \/ \A s \in Sessions : cache[w][s] # "absent" => status[s] # "OK"

-----------------------------------------------------------------------------
\* "Skip dequeue if ALL replier accounts are unavailable" (worker.go:664): while
\* there are texts and an account can send, a queued job does not stay queued for
\* ever.
ServesWhileAccountsCanSend ==
  \A j \in Jobs :
    Queued(j) ~> \/ ~Queued(j) \/ ~up[activeConsumer] \/ ~texts
                 \/ \A s \in Sessions : s \notin Loadable \/ status[s] # "OK"
=============================================================================
