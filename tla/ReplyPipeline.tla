--------------------------- MODULE ReplyPipeline ---------------------------
(***************************************************************************)
(* The reply pipeline of the Python worker (backend/worker.py): a listener *)
(* detects a message, marks it in Redis and queues it; the worker that     *)
(* holds the consumer role pops it and a task answers it through a replier *)
(* account; a failed job is queued once more.  Several workers share the   *)
(* Redis keys and the account table.  A step is the code between two       *)
(* awaits, so every interleaving of handlers, tasks and workers is a       *)
(* behaviour.                                                              *)
(***************************************************************************)
EXTENDS Naturals, Sequences, FiniteSets

CONSTANTS
  Workers,               \* worker processes (WORKER_ID)
  Msgs,                  \* new messages that pass the handler's own filters
  Chats,                 \* target groups
  Sessions,              \* replier accounts, numbered in file-name order
  ChatOf,                \* the group of each message
  InThread,              \* the messages that reply to another message
  Assignments,           \* pair maps auto_assign_repliers may publish
  MaxRetries,            \* 1 in the code
  MaxConsecutive,        \* 5 in the code (Rule 2)
  MaxConcurrentReplies,  \* the semaphore of each worker
  MaxDisturbances,       \* bound on crashes and outside changes
  NoJob                  \* the consumer holds no job

NoAcc  == 0
NoPair == [primary |-> NoAcc, backup |-> NoAcc]
Pairs  == [primary : Sessions, backup : Sessions] \cup {NoPair}
NoPairs == [c \in Chats |-> NoPair]
Jobs   == [msg : Msgs, retry : 0..MaxRetries]

\* "OK" stands for ACTIVE, RESTING and TYPING: nothing here tells them apart.
Status == {"OK", "FLOOD_WAIT", "UNAUTHORIZED", "ERROR"}

\* A task holds its group's lock in Locked, the semaphore too in Running; it
\* has passed Rule 2 in Counted.
Counted == {"send", "typing", "simulate", "posted", "succeeded"}
Running == Counted \cup {"choose", "rule2", "requeue"}
Locked  == Running \cup {"sem"}
Tasks   == [pc : Locked \cup {"none", "lock"}, retry : 0..MaxRetries,
            acc : Sessions \cup {NoAcc}, backup : BOOLEAN]
NoTask  == [pc |-> "none", retry |-> 0, acc |-> NoAcc, backup |-> FALSE]

ASSUME ConstantsAssumption ==
  /\ IsFiniteSet(Workers) /\ Workers # {}
  /\ Sessions \subseteq Nat \ {NoAcc}
  /\ ChatOf \in [Msgs -> Chats]
  /\ InThread \subseteq Msgs
  /\ Assignments \subseteq [Chats -> Pairs] /\ Assignments # {}
  /\ MaxRetries \in Nat
  /\ MaxConsecutive \in Nat \ {0}
  /\ MaxConcurrentReplies \in Nat \ {0}
  /\ MaxDisturbances \in Nat
  /\ NoJob \notin Jobs

VARIABLES
  seen,            \* Redis: the messages marked by SETNX seen:<chat>:<msg>
  queue,           \* Redis: the list tg_message_queue
  activeConsumer,  \* Redis: the worker whose turn it is
  counter,         \* Redis: consecutive_thread_replies:<chat>:<session>
  pair,            \* Redis: group_pair_assignments:<worker>; NoPairs if there is none
  status,          \* SQLite: accounts.status
  files,           \* the sessions whose .session file exists
  up,              \* is the worker process running?
  marked,          \* handlers between SETNX and RPUSH, by worker
  loop,            \* where each worker's consumer loop is
  held,            \* the job its consumer loop has popped
  task,            \* its reply tasks, by message
  cache,           \* its replier_accounts_cache: the status it last loaded
  replierOf,       \* its target_to_replier: the fallback when a group has no pair
  own,             \* the pair map it published itself: the fallback when Redis has none
  disturbances,    \* crashes and outside changes so far
  posted,          \* history: replies that reached Telegram, by message
  unsure,          \* history: posts whose confirmation was lost
  row,             \* history: thread replies since the counter was last reset
  missed           \* history: those of them nobody will count

redis    == <<seen, queue, activeConsumer, counter, pair>>
accounts == <<status, files>>
local    == <<up, marked, loop, held, task, cache, replierOf, own>>
tally    == <<row, missed>>
history  == <<posted, unsure, tally>>
vars     == <<redis, accounts, local, disturbances, history>>

TypeOK ==
  /\ seen \subseteq Msgs
  /\ queue \in Seq(Jobs)
  /\ activeConsumer \in Workers
  /\ counter \in [Chats -> [Sessions -> Nat]]
  /\ pair \in [Workers -> [Chats -> Pairs]]
  /\ status \in [Sessions -> Status]
  /\ files \subseteq Sessions
  /\ up \in [Workers -> BOOLEAN]
  /\ marked \in [Workers -> SUBSET Msgs]
  /\ loop \in [Workers -> {"check", "pop", "got"}]
  /\ held \in [Workers -> Jobs \cup {NoJob}]
  /\ task \in [Workers -> [Msgs -> Tasks]]
  /\ cache \in [Workers -> [Sessions -> Status \cup {"absent"}]]
  /\ replierOf \in [Workers -> [Chats -> Sessions \cup {NoAcc}]]
  /\ own \in [Workers -> [Chats -> Pairs]]
  /\ disturbances \in 0..MaxDisturbances
  /\ posted \in [Msgs -> Nat]
  /\ unsure \subseteq Msgs
  /\ row \in [Chats -> [Sessions -> Nat]] /\ missed \in [Chats -> [Sessions -> Nat]]

\* The accounts load_accounts_by_role("REPLIER") and _get_healthy_accounts keep.
Loadable == {s \in files : status[s] # "UNAUTHORIZED"}

\* setup_listeners copies the loadable repliers; it never drops an entry.
Refreshed(old) == [s \in Sessions |-> IF s \in Loadable THEN status[s] ELSE old[s]]

\* get_group_pair_assignments: what Redis has, or else the worker's own memory.
PairsOf(w) == IF pair[w] = NoPairs THEN own[w] ELSE pair[w]

\* build_target_to_replier_map: the first account that lists the group.
FirstOf(q) == IF q.backup < q.primary THEN q.backup ELSE q.primary

\* Mutant: the retry limit is not checked.
RequeueAlways(j) == Append(queue, [msg |-> j.msg, retry |-> j.retry + 1])

\* Mutant: the retry count is neither checked nor increased.
RequeueForever(j) == Append(queue, j)

\* requeue_for_retry: one more turn at the tail, or the job is dropped.
RetryQueue(j) ==
  IF j.retry >= MaxRetries THEN queue
  ELSE Append(queue, [msg |-> j.msg, retry |-> j.retry + 1])

\* A pair map auto_assign_repliers can publish now: healthy accounts only.
Assignable(a) ==
  \A c \in Chats : a[c] # NoPair => {a[c].primary, a[c].backup} \subseteq Loadable

Init ==
  /\ seen = {} /\ queue = <<>>
  /\ activeConsumer \in Workers
  /\ counter = [c \in Chats |-> [s \in Sessions |-> 0]]
  /\ \E a \in Assignments : pair = [w \in Workers |-> a]
  /\ status = [s \in Sessions |-> "OK"] /\ files = Sessions
  /\ up = [w \in Workers |-> TRUE]
  /\ marked = [w \in Workers |-> {}]
  /\ loop = [w \in Workers |-> "check"]
  /\ held = [w \in Workers |-> NoJob]
  /\ task = [w \in Workers |-> [m \in Msgs |-> NoTask]]
  /\ cache = [w \in Workers |-> [s \in Sessions |-> "OK"]]
  /\ replierOf = [w \in Workers |-> [c \in Chats |-> FirstOf(pair[w][c])]]
  /\ own = pair
  /\ disturbances = 0
  /\ posted = [m \in Msgs |-> 0] /\ unsure = {}
  /\ row = counter /\ missed = counter

-----------------------------------------------------------------------------
(* Listener: new_message_handler.  A second delivery of a marked message,  *)
(* through another account or worker, returns without changing anything.   *)

\* Mutant: SET without NX, so that every delivery looks new.
MarkUnchecked(w, m) ==
  /\ up[w]
  /\ seen' = seen \cup {m}
  /\ marked' = [marked EXCEPT ![w] = @ \cup {m}]
  /\ UNCHANGED <<queue, activeConsumer, counter, pair, accounts,
                 up, loop, held, task, cache, replierOf, own, disturbances, history>>

MarkSeen(w, m) ==
  /\ up[w] /\ m \notin seen
  /\ seen' = seen \cup {m}
  /\ marked' = [marked EXCEPT ![w] = @ \cup {m}]
  /\ UNCHANGED <<queue, activeConsumer, counter, pair, accounts,
                 up, loop, held, task, cache, replierOf, own, disturbances, history>>

Enqueue(w, m) ==
  /\ m \in marked[w]
  /\ marked' = [marked EXCEPT ![w] = @ \ {m}]
  /\ queue' = Append(queue, [msg |-> m, retry |-> 0])
  /\ UNCHANGED <<seen, activeConsumer, counter, pair, accounts,
                 up, loop, held, task, cache, replierOf, own, disturbances, history>>

-----------------------------------------------------------------------------
(* Consumer: consumer_loop, one action for the code up to each await.      *)

CheckConsumer(w) ==
  /\ up[w] /\ loop[w] = "check" /\ activeConsumer = w
  /\ loop' = [loop EXCEPT ![w] = "pop"]
  /\ UNCHANGED <<redis, accounts, up, marked, held, task, cache, replierOf, own, disturbances, history>>

\* Mutant: the head is read and left in the list.
PopByReading(w) ==
  /\ loop[w] = "pop" /\ queue # <<>>
  /\ held' = [held EXCEPT ![w] = Head(queue)]
  /\ loop' = [loop EXCEPT ![w] = "got"]
  /\ UNCHANGED <<redis, accounts, up, marked, task, cache, replierOf, own, disturbances, history>>

Pop(w) ==
  /\ loop[w] = "pop" /\ queue # <<>>
  /\ held' = [held EXCEPT ![w] = Head(queue)]
  /\ queue' = Tail(queue)
  /\ loop' = [loop EXCEPT ![w] = "got"]
  /\ UNCHANGED <<seen, activeConsumer, counter, pair, accounts,
                 up, marked, task, cache, replierOf, own, disturbances, history>>

\* The timed-out pop; every 30 s it also refreshes the account cache (unless
\* setup_listeners returns early) and the fallback map.
PopEmpty(w) ==
  /\ loop[w] = "pop" /\ queue = <<>>
  /\ loop' = [loop EXCEPT ![w] = "check"]
  /\ \/ UNCHANGED <<cache, replierOf>>
     \/ /\ cache' \in {cache, [cache EXCEPT ![w] = Refreshed(@)]}
        /\ replierOf' = [replierOf EXCEPT ![w] = [c \in Chats |-> FirstOf(PairsOf(w)[c])]]
  /\ UNCHANGED <<redis, accounts, up, marked, held, task, own, disturbances, history>>

SpawnReply(w) ==
  /\ loop[w] = "got"
  /\ task' = [task EXCEPT ![w][held[w].msg] =
                [NoTask EXCEPT !.pc = "lock", !.retry = held[w].retry]]
  /\ held' = [held EXCEPT ![w] = NoJob]
  /\ loop' = [loop EXCEPT ![w] = "check"]
  /\ UNCHANGED <<redis, accounts, up, marked, cache, replierOf, own, disturbances, history>>

\* No reply text is active: the job goes back without being tried.
RequeueUntried(w) ==
  /\ loop[w] = "got"
  /\ queue' = RetryQueue(held[w])
  /\ held' = [held EXCEPT ![w] = NoJob]
  /\ loop' = [loop EXCEPT ![w] = "check"]
  /\ UNCHANGED <<seen, activeConsumer, counter, pair, accounts,
                 up, marked, task, cache, replierOf, own, disturbances, history>>

-----------------------------------------------------------------------------
(* Reply task: _dispatch_reply and reply_to_channel_message.               *)

TaskAt(w, m, pc)  == task[w][m].pc = pc
Goto(w, m, pc)    == task' = [task EXCEPT ![w][m].pc = pc]
EndTask(w, m)     == task' = [task EXCEPT ![w][m] = NoTask]
Using(w, m, s, b) ==
  task' = [task EXCEPT ![w][m] =
             [pc |-> "rule2", retry |-> task[w][m].retry, acc |-> s, backup |-> b]]

GroupLocked(w, c)   == \E m \in Msgs : ChatOf[m] = c /\ task[w][m].pc \in Locked
RunningTasks(w)     == {m \in Msgs : task[w][m].pc \in Running}

AcquireGroupLock(w, m) ==
  /\ TaskAt(w, m, "lock") /\ ~GroupLocked(w, ChatOf[m])
  /\ Goto(w, m, "sem")
  /\ UNCHANGED <<redis, accounts, up, marked, loop, held, cache, replierOf, own, disturbances, history>>

AcquireSemaphore(w, m) ==
  /\ TaskAt(w, m, "sem") /\ Cardinality(RunningTasks(w)) < MaxConcurrentReplies
  /\ Goto(w, m, "choose")
  /\ UNCHANGED <<redis, accounts, up, marked, loop, held, cache, replierOf, own, disturbances, history>>

\* The account the worker's cache knows under this name, or none.
Cached(w, s) == IF s # NoAcc /\ cache[w][s] # "absent" THEN s ELSE NoAcc
Usable(w, s) == s # NoAcc /\ cache[w][s] = "OK"

\* The account the fallback round robin takes: always the first one.
FirstLoadable(s) == s \in Loadable /\ \A t \in Loadable : s <= t

\* Primary, else backup (Rule 4: not for a thread message), else the primary
\* whatever its status, else the first replier account, else the queue again.
ChooseAccount(w, m) ==
  /\ TaskAt(w, m, "choose")
  /\ LET q == PairsOf(w)[ChatOf[m]]
         p == Cached(w, IF q = NoPair THEN replierOf[w][ChatOf[m]] ELSE q.primary)
         b == Cached(w, q.backup)
     IN \/ /\ Usable(w, p)
           /\ Using(w, m, p, FALSE)
        \/ /\ ~Usable(w, p) /\ Usable(w, b)
           /\ IF m \in InThread THEN EndTask(w, m) ELSE Using(w, m, b, TRUE)
        \/ /\ ~Usable(w, p) /\ ~Usable(w, b) /\ p # NoAcc
           /\ Using(w, m, p, FALSE)
        \/ /\ p = NoAcc /\ ~Usable(w, b)
           /\ \E s \in Sessions : FirstLoadable(s) /\ Using(w, m, s, FALSE)
        \/ /\ p = NoAcc /\ ~Usable(w, b) /\ Loadable = {}
           /\ Goto(w, m, "requeue")
  /\ UNCHANGED <<redis, accounts, up, marked, loop, held, cache, replierOf, own, disturbances, history>>

\* The counter, or a tally, of a thread reply's group and account goes up by one.
Counting(f, w, m) ==
  IF m \in InThread THEN [f EXCEPT ![ChatOf[m]][task[w][m].acc] = @ + 1] ELSE f

\* The counter of an account in a group is deleted, and its tallies with it.
Reset(f, c, s) == [f EXCEPT ![c][s] = 0]
ResetCounter(c, s) ==
  counter' = Reset(counter, c, s) /\ row' = Reset(row, c, s) /\ missed' = Reset(missed, c, s)

\* Mutant: the limit is off by one.
CheckOneTooMany(w, m) ==
  LET c == ChatOf[m]
      s == task[w][m].acc
  IN /\ TaskAt(w, m, "rule2")
     /\ IF m \in InThread
        THEN /\ UNCHANGED <<counter, tally>>
             /\ IF counter[c][s] > MaxConsecutive
                THEN EndTask(w, m) ELSE Goto(w, m, "send")
        ELSE ResetCounter(c, s) /\ Goto(w, m, "send")
     /\ UNCHANGED <<seen, queue, activeConsumer, pair, accounts, up, marked, loop, held,
                    cache, replierOf, own, disturbances, posted, unsure>>

\* Rule 2, first half: GET and compare, or DEL on a top-level message.
CheckThreadReplies(w, m) ==
  LET c == ChatOf[m]
      s == task[w][m].acc
  IN /\ TaskAt(w, m, "rule2")
     /\ IF m \in InThread
        THEN /\ UNCHANGED <<counter, tally>>
             /\ IF counter[c][s] >= MaxConsecutive
                THEN EndTask(w, m) ELSE Goto(w, m, "send")
        ELSE ResetCounter(c, s) /\ Goto(w, m, "send")
     /\ UNCHANGED <<seen, queue, activeConsumer, pair, accounts, up, marked, loop, held,
                    cache, replierOf, own, disturbances, posted, unsure>>

\* The account shows TYPING; without a session file the reply is simulated.
StartTyping(w, m) ==
  /\ TaskAt(w, m, "send")
  /\ status' = [status EXCEPT ![task[w][m].acc] = "OK"]
  /\ Goto(w, m, IF task[w][m].acc \in files THEN "typing" ELSE "simulate")
  /\ UNCHANGED <<redis, files, up, marked, loop, held, cache, replierOf, own, disturbances, history>>

SimulateReply(w, m) ==
  /\ TaskAt(w, m, "simulate")
  /\ status' = [status EXCEPT ![task[w][m].acc] = "OK"]
  /\ row' = Counting(row, w, m)
  /\ Goto(w, m, "succeeded")
  /\ UNCHANGED <<redis, files, up, marked, loop, held, cache, replierOf, own, disturbances,
                 posted, unsure, missed>>

\* send_message reaches Telegram; its answer is not in yet.
PostReply(w, m) ==
  /\ TaskAt(w, m, "typing")
  /\ posted' = [posted EXCEPT ![m] = @ + 1]
  /\ row' = Counting(row, w, m)
  /\ Goto(w, m, "posted")
  /\ UNCHANGED <<redis, accounts, up, marked, loop, held, cache, replierOf, own, disturbances,
                 unsure, missed>>

\* Mutant: the confirmed reply is reported as failed.
ConfirmAsFailed(w, m) ==
  /\ TaskAt(w, m, "posted")
  /\ status' = [status EXCEPT ![task[w][m].acc] = "OK"]
  /\ Goto(w, m, "requeue")
  /\ UNCHANGED <<redis, files, up, marked, loop, held, cache, replierOf, own, disturbances, history>>

ConfirmReply(w, m) ==
  /\ TaskAt(w, m, "posted")
  /\ status' = [status EXCEPT ![task[w][m].acc] = "OK"]
  /\ Goto(w, m, "succeeded")
  /\ UNCHANGED <<redis, files, up, marked, loop, held, cache, replierOf, own, disturbances, history>>

\* The answer is lost, or leaving the typing action fails: reported as failed.
LoseConfirmation(w, m) ==
  /\ TaskAt(w, m, "posted")
  /\ status' = [status EXCEPT ![task[w][m].acc] = "ERROR"]
  /\ unsure' = unsure \cup {m} /\ missed' = Counting(missed, w, m)
  /\ Goto(w, m, "requeue")
  /\ UNCHANGED <<redis, files, up, marked, loop, held, cache, replierOf, own, disturbances,
                 posted, row>>

\* FloodWait, any other error, or no connection: the session file stays.
FailReply(w, m) ==
  /\ TaskAt(w, m, "typing")
  /\ \E st \in {"FLOOD_WAIT", "ERROR", "UNAUTHORIZED"} :
       status' = [status EXCEPT ![task[w][m].acc] = st]
  /\ Goto(w, m, "requeue")
  /\ UNCHANGED <<redis, files, up, marked, loop, held, cache, replierOf, own, disturbances, history>>

\* The session is revoked: handle_invalid_session renames its file.
RevokeSession(w, m) ==
  /\ TaskAt(w, m, "typing")
  /\ status' = [status EXCEPT ![task[w][m].acc] = "UNAUTHORIZED"]
  /\ files' = files \ {task[w][m].acc}
  /\ Goto(w, m, "requeue")
  /\ UNCHANGED <<redis, up, marked, loop, held, cache, replierOf, own, disturbances, history>>

\* is_user_authorized raises outside the try: the task dies with its job.
TaskRaises(w, m) ==
  /\ TaskAt(w, m, "typing")
  /\ EndTask(w, m)
  /\ UNCHANGED <<redis, accounts, up, marked, loop, held, cache, replierOf, own, disturbances, history>>

\* Rule 2, second half: INCR after success, then the SUCCESS log.
RecordSuccess(w, m) ==
  /\ TaskAt(w, m, "succeeded")
  /\ counter' = Counting(counter, w, m)
  /\ EndTask(w, m)
  /\ UNCHANGED <<seen, queue, activeConsumer, pair, accounts,
                 up, marked, loop, held, cache, replierOf, own, disturbances, history>>

RequeueFailed(w, m) ==
  /\ TaskAt(w, m, "requeue")
  /\ queue' = RetryQueue([msg |-> m, retry |-> task[w][m].retry])
  /\ EndTask(w, m)
  /\ UNCHANGED <<seen, activeConsumer, counter, pair, accounts,
                 up, marked, loop, held, cache, replierOf, own, disturbances, history>>

TaskStep(w, m) ==
  \/ AcquireGroupLock(w, m) \/ AcquireSemaphore(w, m)
  \/ ChooseAccount(w, m)    \/ CheckThreadReplies(w, m)
  \/ StartTyping(w, m)      \/ SimulateReply(w, m)
  \/ PostReply(w, m)        \/ ConfirmReply(w, m)
  \/ LoseConfirmation(w, m) \/ FailReply(w, m)
  \/ RevokeSession(w, m)    \/ TaskRaises(w, m)
  \/ RecordSuccess(w, m)    \/ RequeueFailed(w, m)

-----------------------------------------------------------------------------
(* Worker lifecycle, and what the API process does to the shared state.    *)

Disturb == disturbances < MaxDisturbances /\ disturbances' = disturbances + 1

\* The workers with a thread reply of the account in the group that is posted and
\* not counted: one at most for each of them, as the group is locked.
Uncounted(c, s) ==
  {w \in Workers : \E m \in InThread : /\ task[w][m].pc \in {"posted", "succeeded"}
                                      /\ ChatOf[m] = c /\ task[w][m].acc = s}

\* A crash, or a shutdown that gives up on its tasks after 15 s.
Crash(w) ==
  /\ up[w] /\ Disturb
  /\ up' = [up EXCEPT ![w] = FALSE]
  /\ marked' = [marked EXCEPT ![w] = {}]
  /\ loop' = [loop EXCEPT ![w] = "check"]
  /\ held' = [held EXCEPT ![w] = NoJob]
  /\ task' = [task EXCEPT ![w] = [m \in Msgs |-> NoTask]]
  /\ missed' = [c \in Chats |-> [s \in Sessions |->
                 IF w \in Uncounted(c, s) THEN missed[c][s] + 1 ELSE missed[c][s]]]
  /\ UNCHANGED <<redis, accounts, cache, replierOf, own, posted, unsure, row>>

\* Restart=always: start() reassigns the repliers and loads a fresh cache, or
\* loads nothing when setup_listeners returns early.
Restart(w) ==
  /\ ~up[w]
  /\ up' = [up EXCEPT ![w] = TRUE]
  /\ \/ \E a \in Assignments : /\ Assignable(a)
                                /\ pair' = [pair EXCEPT ![w] = a]
                                /\ own' = [own EXCEPT ![w] = a]
     \/ /\ \A a \in Assignments : ~Assignable(a)
        /\ pair' = pair
        /\ own' = [own EXCEPT ![w] = NoPairs]
  /\ LET none == [s \in Sessions |-> "absent"]
     IN \/ /\ cache' = [cache EXCEPT ![w] = Refreshed(none)]
           /\ replierOf' = [replierOf EXCEPT ![w] = [c \in Chats |-> FirstOf(PairsOf(w)'[c])]]
        \/ /\ cache' = [cache EXCEPT ![w] = none]
           /\ replierOf' = [replierOf EXCEPT ![w] = [c \in Chats |-> NoAcc]]
  /\ UNCHANGED <<seen, queue, activeConsumer, counter, accounts,
                 marked, loop, held, task, disturbances, history>>

\* rotate_consumer: the registry may still list a worker that just died.
RotateConsumer(w) ==
  /\ activeConsumer # w
  /\ activeConsumer' = w
  /\ UNCHANGED <<seen, queue, counter, pair, accounts, local, disturbances, history>>

\* The API process starts again: flush_redis_state deletes the maps, and the role
\* goes to the default worker.
FlushState ==
  /\ Disturb
  /\ pair' = [w \in Workers |-> NoPairs]
  /\ activeConsumer' \in Workers
  /\ UNCHANGED <<seen, queue, counter, accounts, local, history>>

\* The API process, at its start, on new targets and in the recovery pass,
\* publishes a new pair map for one registered worker after the other.
ReassignRepliers(w, a) ==
  /\ a # pair[w] /\ Assignable(a)
  /\ IF pair[w] = NoPairs THEN UNCHANGED disturbances ELSE Disturb
  /\ pair' = [pair EXCEPT ![w] = a]
  /\ UNCHANGED <<seen, queue, activeConsumer, counter, accounts, local, history>>

\* recover_errored_and_flood_waited_accounts, for one account.
RecoverAccount(s) ==
  /\ \/ status[s] \in {"FLOOD_WAIT", "ERROR"} /\ status' = [status EXCEPT ![s] = "OK"]
     \/ status[s] = "ERROR" /\ status' = [status EXCEPT ![s] = "UNAUTHORIZED"]
  /\ UNCHANGED <<redis, files, local, disturbances, history>>

\* Its probe answers late: the write covers what happened in between.
RecoverLate(s) ==
  /\ Disturb
  /\ \E st \in {"OK", "UNAUTHORIZED"} : status' = [status EXCEPT ![s] = st]
  /\ UNCHANGED <<redis, files, local, history>>

\* get_client_for_account, called to resolve a target, to refresh the cache or
\* to probe, finds the session revoked: handle_invalid_session renames its file.
FindRevoked(s) ==
  /\ s \in files /\ Disturb
  /\ status' = [status EXCEPT ![s] = "UNAUTHORIZED"]
  /\ files' = files \ {s}
  /\ UNCHANGED <<redis, local, history>>

\* ShiftRotator.stop sets every account RESTING, the unauthorized ones too.
RestAllAccounts ==
  /\ Disturb
  /\ status' = [s \in Sessions |-> "OK"]
  /\ UNCHANGED <<redis, files, local, history>>

\* The counter's key has a time to live of one hour.
ExpireCounter(c, s) ==
  /\ counter[c][s] > 0 /\ Disturb
  /\ ResetCounter(c, s)
  /\ UNCHANGED <<seen, queue, activeConsumer, pair, accounts, local, posted, unsure>>

ConsumerStep(w) ==
  \/ CheckConsumer(w) \/ Pop(w) \/ PopEmpty(w)
  \/ SpawnReply(w)    \/ RequeueUntried(w)

Environment ==
  \/ \E w \in Workers : Crash(w) \/ Restart(w) \/ RotateConsumer(w)
  \/ \E w \in Workers, a \in Assignments : ReassignRepliers(w, a)
  \/ \E s \in Sessions : RecoverAccount(s) \/ RecoverLate(s) \/ FindRevoked(s)
  \/ RestAllAccounts \/ FlushState
  \/ \E c \in Chats, s \in Sessions : ExpireCounter(c, s)

Next ==
  \/ \E w \in Workers, m \in Msgs : MarkSeen(w, m) \/ Enqueue(w, m) \/ TaskStep(w, m)
  \/ \E w \in Workers : ConsumerStep(w)
  \/ Environment

Spec == Init /\ [][Next]_vars

\* Every await of a worker returns, systemd restarts it, and its two-second
\* poll sees each of the much longer turns it is given.
Fairness ==
  \A w \in Workers :
    /\ SF_vars(CheckConsumer(w))
    /\ WF_vars(Pop(w)) /\ WF_vars(SpawnReply(w) \/ RequeueUntried(w))
    /\ WF_vars(Restart(w))
    /\ \A m \in Msgs : WF_vars(Enqueue(w, m)) /\ WF_vars(TaskStep(w, m))

FairSpec == Spec /\ Fairness

-----------------------------------------------------------------------------
(* Properties.                                                             *)

Queued(m)    == \E i \in DOMAIN queue : queue[i].msg = m
Holds(w, m)  == held[w] # NoJob /\ held[w].msg = m
Tasked(w, m) == task[w][m].pc # "none"
\* The message's job exists: in a handler, the queue, a consumer or a task.
Pending(m) ==
  \/ Queued(m)
  \/ \E w \in Workers : m \in marked[w] \/ Holds(w, m) \/ Tasked(w, m)

\* Whatever is delivered twice, retried or crashed, a message has at most one
\* job, in one place: SETNX, RPUSH, BLPOP and requeue hand it over.
OneJobPerMessage ==
  /\ \A i, j \in DOMAIN queue : queue[i].msg = queue[j].msg => i = j
  /\ \A m \in Msgs, w \in Workers :
       /\ Queued(m) => m \notin marked[w] /\ ~Holds(w, m) /\ ~Tasked(w, m)
       /\ \A v \in Workers :
            /\ m \in marked[w] => ~Holds(v, m) /\ ~Tasked(v, m)
            /\ Holds(w, m) => ~Tasked(v, m)
            /\ v # w => /\ ~(m \in marked[w] /\ m \in marked[v])
                        /\ ~(Holds(w, m) /\ Holds(v, m))
                        /\ ~(Tasked(w, m) /\ Tasked(v, m))

\* A user is answered twice only if Telegram took the first reply and its
\* confirmation was lost, and never more often than the retries allow.
SecondReplyOnlyIfUnsure ==
  \A m \in Msgs : /\ posted[m] > 1 => m \in unsure
                  /\ posted[m] <= 1 + MaxRetries

\* Rule 2, "Max 5 consecutive thread replies per account" (worker.py:600), over workers, retries
\* and crashes: of the thread replies an account makes in a group until its counter
\* is reset each other worker can slip one past the limit, and one more is made for
\* each whose confirmation is lost or whose worker dies before counting it.
ThreadReplyBound ==
  \A c \in Chats, s \in Sessions :
    row[c][s] <= MaxConsecutive + Cardinality(Workers) - 1 + missed[c][s]

\* What the pipeline promises about each message, as a specification.
Phase == [m \in Msgs |-> IF m \notin seen THEN "fresh"
                         ELSE IF Pending(m) THEN "pending" ELSE "closed"]
Promise == INSTANCE ReplyPromise WITH phase <- Phase, MaxReplies <- 1 + MaxRetries
\* Every step accepts one new message, posts one reply of a pending message or
\* closes messages: a closed one is never answered again, nor reopened.
KeepsPromise == Promise!Spec

\* With finitely many disturbances every detected message is answered, skipped,
\* dropped or lost with its worker: no job stays in the queue or in a task.
JobsFinish == \A m \in Msgs : Pending(m) ~> ~Pending(m)
=============================================================================
