# Telegram-Client: a TLA+ verification project

Telegram-Client watches Telegram groups through *listener* accounts and answers
new messages through *replier* accounts. There are two backends with the same
design, one in Python (`backend/`) and one in Go (`go-backend/`): several worker
processes, an API process with a dashboard, SQLite for accounts, targets and
sticky assignments, and Redis for everything the processes share at run time.

This directory holds TLA+ models of its core, the TLC configurations that check
them on small instances, and TLAPS proofs of the most important properties for
every value of the constants. Paths below are relative to the repository.

```
tlc -workers 2 -config MCReplyPipeline_one_worker.cfg MCReplyPipeline
tlapm ReplyPipelineProofs.tla
```

## 1. The system

| Component | Source | State | Operations |
|---|---|---|---|
| Listener handler | `backend/worker.py:377-441` | Redis `seen:<chat>:<msg>`, `tg_message_queue` | filter, SETNX, RPUSH |
| Consumer loop | `worker.py:693-739`, `app/queue_manager.py:160-194` | Redis queue and `active_consumer`, popped job | check the role, BLPOP, spawn a task, requeue |
| Reply task | `worker.py:596-691`, `app/telethon_engine.py:139-226` | group lock, semaphore, Rule 2 counter, account status, session file | choose account, check Rule 2, send, count, log, requeue |
| Replier assignment | `app/listener_assigner.py:238-392` | SQLite `group_assignments`; Redis `group_pair_assignments:<w>`, `replier_assignments:<w>` | read rows, clean, retain, fill, save, publish |
| Listener assignment | `listener_assigner.py:50-232` | roles in SQLite, Redis `listener_assignments` | choose listeners, sticky distribution, failure handling |
| Shift rotation | `app/rotator.py:129-253`, `queue_manager.py:238-315` | `is_running`, loop task, `shift_started_at`, worker heartbeats, `active_consumer` | start, stop, toggle, loop, heartbeat |
| Account recovery | `rotator.py:256-314` | account status | probe and reset |
| Listener setup | `worker.py:279-484` | handlers, resolved targets, caches | attach, detach, resolve, refresh |
| Client registry | `telethon_engine.py:93-137` | one client per account | create, connect, drop |
| API: logins | `app/api.py:47-71,177-334` | `pending_auths` | send code, verify, clean up |
| API: broadcast | `api.py:21-38` | list of sockets | connect, disconnect, broadcast |
| API: tables | `api.py:169-175,336-481` | SQLite tables | single statements, resync |
| Redis fallback | `queue_manager.py:41-64` | memory copies of all Redis state | connect, fall back |
| Go worker | `go-backend/worker/worker.go` | debounce buffers, clients, queue | buffer, flush, dispatch |
| Go rate limit | `go-backend/pkg/queue/queue_manager.go:700-739` | Redis or memory counter | check and increment |
| Go assigners, rotation, engine | `go-backend/pkg/...` | as above | as above |
| Frontend | `frontend/` | view of the API state | rendering only |

The processes meet in Redis (queue, seen set, role, counters, published maps)
and SQLite (statuses, sticky rows). Inside a Python process everything runs on
one asyncio loop, so code between two awaits is atomic and code across one is
not. In Go the same holds only under a mutex or for one Redis command.

What is hard here: a message delivered through several listeners and workers;
jobs handed from handler to queue to consumer to task, with a crash possible
between any two; a lost confirmation followed by a retry; the consumer role
moving while replies are in flight; decisions made on cached statuses and stale
snapshots; check-then-increment on shared counters; start and stop requests
that overlap; Redis or SQLite failing in the middle of a sequence of writes.
`PROJECT.json` lists each hazard with its line.

Correctness, component by component:

* pipeline (both backends): in Python one job per message, and a second reply
  only after a lost confirmation; in Go one reply per job, and a second job of a
  message only for a failed call to Redis about it; a closed job is never
  answered again; no job stays for ever; Rule 2 up to what the code can
  guarantee;
* debounce (Go): each job is in one place; two fifths of what is buffered are
  kept;
* rate limit: a window lets no more than the limit through, and ends;
* Redis fallback: how many jobs a message can become, when it can be lost;
* replier assignment: no published map gives an account to two groups; complete
  sticky pairs stay; no account idles while a group has only one;
* listener assignment: fair and sticky shares; roles and map agree; targets and
  map follow the table however stale calls are;
* listener setup: one handler per client, with the groups it was told; in the
  end each group is heard by its owner and by no other account of the map (by
  accounts that were taken out of the map it may be: section 6);
* clients: no client is left open that nobody knows; a login that is too old
  goes away with its client;
* rotation: stop() stops, at the latest when the pass is over; the role leaves
  dead workers; each live worker gets its turn.

## 2. Modules

| Module | Content |
|---|---|
| `ReplyPromise` | abstract specification: what the pipeline promises about each message |
| `ReplyPipeline` | handler, queue, consumer, reply task, retry, crash, restart, API interference (Python) |
| `ReplyPipelineProofs` | its proofs, with the refinement of `ReplyPromise` |
| `RateLimit` | `CheckAndIncrRateLimit` (Go) with Redis errors, crashes and time |
| `ReplierAssigner`, `ReplierAssignerProofs` | `auto_assign_repliers` run by concurrent callers (Python) |
| `ShiftRotation`, `ShiftRotationProofs` | rotator, registry and consumer role (Python) |
| `ListenerAssigner`, `ListenerAssignerProofs` | targets, roles and listener map: synchronisations, rebalances and checks (Python) |
| `ListenerSetup`, `ListenerSetupProofs` | `setup_listeners` of one worker, with its clients and handlers (Python) |
| `GoPipeline`, `GoPipelineProofs` | debounce, queue, consumer and reply of the Go worker; also implements `ReplyPromise` |
| `QueueFallback` | the Python queue manager when Redis calls fail or Redis is absent |
| `QueueManagerProofs` | proofs about the two queue managers, `QueueFallback` and `RateLimit` |
| `ApiClients`, `ApiClientsProofs` | clients of logins and of the engine in the API process (Python) |
| `MC...` | constants of the TLC instances |

### ReplyPipeline

A step is the code between two awaits. `MarkSeen` is the SETNX of
`is_duplicate_and_mark`, `Enqueue` the RPUSH after it; between them the message
sits in `marked`, which a crash loses. `CheckConsumer`, `Pop`/`PopEmpty` and
`SpawnReply`/`RequeueUntried` are the consumer loop. The task goes through
`lock`, `sem`, `choose`, `rule2`, `send`, `typing`, `posted`, `succeeded` or
`requeue`; these are the awaits of `_dispatch_reply` and
`reply_to_channel_message`. `PostReply` is the moment Telegram accepts the
message, `ConfirmReply` or `LoseConfirmation` what the worker learns of it.
`Environment` is everything else that writes the shared state: crash and
restart, rotation at any time, a new pair map (`ReassignRepliers`), the startup
flush (`FlushState`, after which a worker falls back on the map it published
itself, `own`), account recovery (also late, over a status set meanwhile),
revoked sessions, `stop()` setting every account RESTING, and the expiry of the
Rule 2 counter.

Abstracted: the handler's own filters (a message of `Msgs` passes them), texts
and delays, the resolution of entities, the 24 h life of seen keys (no delivery
is that late), `TYPING`/`RESTING`/`ACTIVE` as one status "OK". The pair map and
the group-to-account map published with it are one variable; `ReplierAssigner`
has them apart. Redis does not fail in this module; `QueueFallback` is about that.

The history variables record what happened and guard nothing: `posted` and
`unsure` the replies to each message and the lost confirmations; `row` and
`missed` the thread replies an account really made in a group since its counter
was last reset, and those of them that will never be counted.

### RateLimit

`Get`, `Incr` and `Expire` are the three Redis commands; each can fail the way
the code handles it (an unreadable counter counts as under the limit, a failed
INCR lets the call through, a failed EXPIRE is ignored), and the worker can die
between them. `rateRedis` is decided at startup, as in `connect()`; without it
`TakeInMemory` runs under the mutex. `Tick` is time, and Redis deleting the
key. `recent[k]` counts the calls let through in the last `k + 1` ticks.

### ReplierAssigner

A caller reads the targets once (`Start`), then for each of its workers the
accounts, then the rows; deletes rows of lost targets one await at a time;
retains what is healthy and unclaimed (pass 1); completes pairs and saves each
row (pass 2); publishes two maps. Steps of other callers, of `add_target` and
`delete_target` (two transactions: `DropRow`, `RemoveTarget`), of the startup
flush and of accounts that change fall in between, and a database error or a
crash can end a call anywhere. The map and the list published with it are the
same data, the list inverted.

### ShiftRotation

`task` holds where the loop and each request are: `rotate_consumer` is
`ReadAlive`, `ReadCurrent`, `WriteNext`, `BeginShift`, run by the loop and by
the toggle request. `Start` and `Stop` are split at their awaits, so requests
overlap in every order, and a database call can end a request at each of them
(`RequestFails`), in `stop()` also before the cancellation; `uncancelled`
remembers that. Time is in ticks: `age` since the last heartbeat,
`elapsed` since the shift began, both capped where the code compares them. A
Redis error makes a read return the memory value (an empty registry, or the
API's copy of the consumer) and keeps a write in memory. `RestartApi` is
`sync_sqlite_to_redis_on_startup` with or without Redis. Left out: the persisted
`is_rotator_running` flag, which nothing that changes state reads, and the
other duties of the loop, which do not touch this state.

### ListenerAssigner

`call` holds where each task of the API process and each worker is: reading the
targets, writing them to Redis (`SetActive`), choosing listeners (`Pick`),
looking at the map there is (`Existing`), committing the roles (`CommitRoles`),
publishing the map (`Publish`) and remembering the targets (`SetHash`). A plan
is a function of targets, healthy accounts and accounts that listen already:
`Shares` deals the sorted targets to the first `Count` accounts in the order
`Before`. Between a task's account read and its commit no other task of the
process runs (`MayRun`), because the code does not await there. Calls fail,
workers crash, the API process restarts and flushes Redis. `clash` records that
a call published a map the remembered targets do not belong to, or failed to.
The replier assignment inside a synchronisation is one await.

### ListenerSetup

One run of `setup_listeners` takes the accounts of the map one by one: `Skip`
(targets unchanged), `Connect` and then `Resolve`, `NoClient`, `SessionError` or
`OtherError`, with `Failover` where the code calls `handle_listener_failure`,
and `LoadRepliers` at the end. `client` and `attached` are what is really there,
`handler`, `targetsOf` and `resolved` what the worker remembers; the properties
relate the two. Meanwhile maps are published, with the roles or before them,
Telegram revokes sessions, clients are lost, also the one a run is working with
(`alive`), and the worker crashes. A rebalance publishes a map of `Maps`; which
one it chooses is the business of `ListenerAssigner`.

### GoPipeline

The unit is the job: an entry that a message makes in the pipeline, of which
there is one unless a call to Redis fails. `MarkSeen` is SETNX; when it fails,
the seen map of the process decides (`MarkFails`), which knows nothing of the
marks of others, and when only its answer is lost, the client repeats it and
nobody takes the message (`MarkAlone`). `AddToBuffer` and `Flush` are the
critical sections of `debounceMu`; `picked` is what a flush chose and has not
queued. go-redis repeats an RPUSH whose answer was lost (`RepeatPush`), which
makes a second job. The consumer loop is `CheckConsumer`, `RefreshStatuses`, `Pop`; a goroutine goes through
`choose`, `rule2`, `sem`, `send`, `typing` or `simulate`, `posted`, `succeeded`.
There is no group lock and no requeue. The rate limit (`RateLimit`) may refuse
any candidate, so `ChooseAccount` may end the task or take either account. A
failed RPUSH or BLPOP loses the job (`EnqueueFails`, `PopFails`), as the memory
queue is not read while the worker believes in Redis; a failed Rule 2 call lets
the reply through (`SkipThreadReplies`) or counts it wrongly
(`MiscountSuccess`). Reply texts come and go (`ChangeTexts`), and without them
the consumer only sleeps. Left out: the 24 h life of the marks in Redis (no
delivery is that late). `received`, `faultsOn`, `posted`, `flushed` and `kept`
are history.

### QueueFallback

A call to Redis has an outcome: `ok`, failed `before` or `after` the server did
it, sent `twice` (`retry_on_timeout`), or `memory` for a worker that did not
reach Redis at its start. `Deliver`, `Enqueue`, `CheckConsumer`, `Pop`,
`ReadTexts` and `Requeue` are the calls of the pipeline with those outcomes; the
memory copies are per worker. Expiry of keys is left out; the rest of the reply
is `ReplyPipeline`. `touched` counts the faults that concern a message.

### ApiClients

The clients of one account in the API process: a request that opens a client is
named by it. `SendCode`, `Connect`, `CodeSent` or `CodeFails`, and after the
entry is made `Logged` or `LogFails`, which closes the client and keeps the
entry; `Verify`,
`SignIn`, `Finish` and their failures; `List` and `CleanUp` of the periodic
cleanup; `GetClient`, `Dial`, `Authorized`, `Invalid` or `AuthRaises` of the
engine; the end of a client loop, and Telegram closing a connection. `met`,
`signed` and `failed` are history: which requests overlapped, which client a
login was completed with, which one a call failed on. The properties except
exactly those, since the code really leaves such clients behind.

## 3. What the runs check

| Run | Instance | States | Shows |
|---|---|---|---|
| `MCReplyPipeline_one_worker` | 1 worker, 2 messages (1 in a thread), 2 accounts, pair may swap, 1 retry, 1 disturbance | 1.57 M | `TypeOK`, `OneJobPerMessage`, `SecondReplyOnlyIfUnsure`, `KeepsPromise` |
| `MCReplyPipeline_two_workers` | 2 workers, 3 thread messages, no retry, 1 disturbance | 0.83 M | `OneJobPerMessage`, `ThreadReplyBound` |
| `MCReplyPipeline_liveness` | 2 workers, 1 message, 1 retry, 1 disturbance | 63 k | `JobsFinish` |
| `MCRateLimit_bounds` | 3 goroutines, limit 3, window of 3 ticks, 2 faults | 19 k | `WindowBound`, `SlidingBound`, `LimitLifts` |
| `MCReplierAssigner_two_callers` | 2 callers, 2 groups, 3 accounts, 2 changes | 2.8 M | `TypeOK`, `PublishedDisjoint`, `StickyPairs` |
| `MCShiftRotation_turns` | 3 workers, 2 requests, 3 events | 0.54 M | `TypeOK`, `StopStopsLoop`, `RoleSettles`, `TurnsForAll` |
| `MCListenerAssigner_follows` | 2 tasks and 1 worker, 2 groups, 2 accounts, `MaxGroups` 1, faults, 3 events | 0.31 M | `RolesFitMap`, `FairShares`, `ListenersSticky`, `TargetsArrive`, `MapFollows` |
| `MCListenerSetup_attach` | 2 accounts, 2 groups, 3 maps, 4 events | 0.55 M | `OneHandler`, `HearsItsTargets`, `EveryGroupHeard`, `OwnersDisjoint`, `RepliersKnown` |
| `MCGoPipeline_once` | 2 workers, 1 thread message that may become 2 jobs, 1 account, 2 disturbances | 226 k | `TypeOK`, `OnePlace`, `SecondAnswerNeedsFault`, `KeepsTwoFifths`, `KeepsPromise`, `JobsFinish` |
| `MCQueueFallback_faults` | 2 workers, 1 message, 1 retry, 3 faults | 164 k | `CopiesBound`, `LossNeedsFault`, `QueuesDrain` |
| `MCApiClients_overlap` | 2 clients, 2 faults | 22 k | `NoOrphans`, `PendingIsOpen`, `LoopIsEngines`, `StaleGone` |
| `MCGoPipeline_serves` | 1 worker, 1 message, 1 account, 3 disturbances | 5 k | `ServesWhileAccountsCanSend` is violated |

All but the last pass; `MCGoPipeline_serves` ends in a counterexample (section
6). The type invariants of `ListenerSetup`, `ListenerAssigner`, `ApiClients`,
`RateLimit` and `QueueFallback` are proved instead of run.

The properties:

* `OneJobPerMessage`: at most one of {a handler, the queue, a consumer, a task}
  has a message, and only once.
* `SecondReplyOnlyIfUnsure`: `posted[m] > 1` only with a lost confirmation, and
  never above `1 + MaxRetries`.
* `KeepsPromise`: refinement of `ReplyPromise` under `Phase`, which maps a
  message to fresh, pending or closed. The Go pipeline promises one reply per
  job.
* `ThreadReplyBound`: Rule 2 reads its counter before the reply and increments
  it after. A worker's group lock orders its own tasks, so each *other* worker
  can slip one reply past the limit; and a reply whose confirmation is lost, or
  whose worker dies before it counts it, is posted without being counted. So the
  replies really posted since the counter was last reset are at most
  `MaxConsecutive + |Workers| - 1`, and one more for each of the uncounted.
* `JobsFinish`: every pending message leaves the pipeline.
* `OnePlace`: in the Go pipeline a job is at one handler, in one buffer, with
  one flush, in the queue once, or with one goroutine. `SecondAnswerNeedsFault`:
  a message is answered once, and once more at most for each failed call to Redis
  about it. `KeepsTwoFifths`: whatever the windows, at least two fifths of the
  flushed jobs are kept.
* `CopiesBound`: a message has one job, one more for each worker without Redis
  and one more for each fault that concerned it. `LossNeedsFault`: a detected
  message is lost only after such a fault, or dropped for want of a text.
  `QueuesDrain`: in the end the queues are empty, but for the jobs the code
  strands.
* `WindowBound`: a counter lets at most `Limit` calls through. `SlidingBound`:
  any 60 seconds see at most twice the limit, plus one per fault.
  `LimitLifts`: a used-up limit is lifted. Proved only, not run:
  `ExpiryPending`, without a fault a counter with no time to live has a
  goroutine about to set it.
* `PublishedDisjoint`: no published map uses an account for two groups.
  `StickyPairs`: a complete healthy pair, read from rows that do not conflict,
  is published as it is. Proved only, not run: `NoIdleAccount`, a pair is
  doubled up, or missing, only when every account of the call is used.
* `FairShares`: a plan gives each target to one listener, evenly, and exceeds
  `MaxGroups` only when all healthy accounts listen. `ListenersSticky`: healthy
  listeners are dropped only when fewer are needed. `RolesFitMap`: while nothing
  changes or fails, a published map has the accounts with role LISTENER as its
  owners, in every state, also between the commit and the publication of another
  call. `TargetsArrive`, `MapFollows`: whatever stale calls write, the targets
  in Redis become those of the table, and the map too unless there was a clash.
* `OneHandler`: a client carries at most one handler, the one the worker
  remembers, with the groups it resolved. `HearsItsTargets`: an account hears
  only groups of its target set. `EveryGroupHeard`, `OwnersDisjoint`,
  `RepliersKnown`: when changes end, every group is heard by its owner (unless
  the code gave up on it), by no other account of the map, and the repliers are
  loaded.
* `NoOrphans`: an open client is known to the logins, the engine or a request.
  `PendingIsOpen`: the client of a pending login is open. `LoopIsEngines`: the
  client loop runs for the engine's client. All three except clients whose
  requests overlapped and clients that were dropped or a call failed on,
  `NoOrphans` also those a login was completed with. `StaleGone`: a login that is too old
  goes away with its client.
* `StopStopsLoop`: with `is_running` off and no cancellation pending, the loop
  is inside a pass only if a `stop()` failed before its cancellation, and then
  that pass is the last one. `RoleSettles`: dead workers lose the role for good.
  `TurnsForAll`: a worker that stays alive is the consumer again and again.

Every property of a passing run comes with a mutation of the code's model that
TLC finds to violate it (`\* Mutant` in the modules).

### Bounds

Two messages of one group are what the hand-over needs to confuse one for the
other; a third lets two workers fill the counter and one more try to pass it.
One disturbance puts one crash, flush, revocation or reassignment anywhere in
every behaviour; together with the retry it gives the crash after a pop, the
second try on a swapped pair and the restart with an empty cache. In the rate
limit three goroutines let two overshoot while a third sets the expiry, two
faults let one be spent on the key and one on a call, and three ticks tell the
start, middle and end of a window apart. Two callers, two groups and three
accounts are the smallest instance with a contested account, a complete pair and
a doubled-up one; two changes let a target leave and come back. Three workers
tell "next in order" from the old toggle between two, and three events combine a
start, a stop or toggle and a death or error, or a start and a stop that fails.
`MaxRetries` is 1 in the code (the
two-worker run uses 0 to keep three messages), `MaxConsecutive` is 5 and the
limit 10: the instances use 1 and 3, since the code treats every value below the
limit alike. The proofs hold for all values.
`MCReplyPipeline_two_workers` takes its workers, and its messages, as
interchangeable, which is sound for the invariants it checks.

For the listeners, two tasks and a worker are the smallest set in which a stale
synchronisation, an overtaking one and another process's commit meet, two groups
with `MaxGroups` 1 make one listener too few, and three events change a target,
fail a call and start another; `FullInit` starts with one group and more
listeners than it needs. In the setup two accounts and two groups let a group
move, an account lose all its groups and two accounts swap; four events combine
a map, a revocation, a lost client and a crash. In Go a message that may become
two jobs is taken twice, by one worker or two, into one window or two, and two
disturbances combine a failed call with a crash, another fault or a change; the
two jobs compete for the semaphore. It is in a thread, so that Rule 2 applies; a
top-level message is in `MCGoPipeline_serves` and in the proofs. One account is
both of its pair, as the choice between two is free in `ChooseAccount` anyway.
The fallback has one message and three faults, since its jobs do not interact but
through their order. Two clients are two overlapping requests, or one after the
other; two faults drop one client and fail the request of the other.

`MaxDisturbances`, `MaxFaults`, `MaxChanges` and `MaxEvents` bound
what the environment does and nothing else. All instances start in a state the
program starts in; `MCReplierAssigner_two_callers` fixes all groups as targets
at the beginning, later ones come and go.

### Fairness

`JobsFinish` assumes that an await of a worker returns (`WF` on its steps), that
systemd restarts a worker (`Restart=always`), and `SF` on `CheckConsumer`: the
two-second poll of a worker meets some of its ten-minute turns. The role may
rotate at any time but is not required to. In Go it assumes timers, calls and
the poll, and excepts messages whose consumer is down, has no reply texts or
knows no account that can send. `QueuesDrain` assumes that handlers and consumer
loops go on.
`LimitLifts` assumes that goroutines go on and time passes, and excepts
behaviours with a fault, because the code really leaves a key without expiry
then. `RoleSettles` and `TurnsForAll` assume time, heartbeats and returning
awaits, and are stated for behaviours in which the rotator is on, connected, and
its loop alive from some point on; the code does not restart a loop that failed
(`LoopFails` is in the model). `TargetsArrive` and `MapFollows` assume that the
rotation loop synchronises every second and that the event loop serves each task
(`SF`, because a task does not wait in the gap another one holds). The liveness
of the setup assumes that runs start and go on; that of the logins that the
cleanup does.

## 4. What is proved

| Theorem | Statement |
|---|---|
| `ReplyPipelineProofs!TypeCorrect` | `Spec => []TypeOK` |
| `ReplyPipelineProofs!OneJob` | `Spec => []OneJobPerMessage` |
| `ReplyPipelineProofs!SecondReply` | `Spec => []SecondReplyOnlyIfUnsure` |
| `ReplyPipelineProofs!ThreadReplies` | `Spec => []ThreadReplyBound` |
| `ReplyPipelineProofs!PipelineKeepsPromise` | `Spec => KeepsPromise` |
| `QueueManagerProofs!RateTypeCorrect`, `!LimitHolds`, `!WindowsEnd`, `!TwoWindows` | `RateTypeOK`, `WindowBound`, `ExpiryPending`, `SlidingBound` of `RateLimit` |
| `QueueManagerProofs!FallbackTypes`, `!CopiesBounded`, `!LossExplained` | `TypeOK`, `CopiesBound`, `LossNeedsFault` of `QueueFallback` |
| `ReplierAssignerProofs!TypeCorrect`, `!StrictPolicyInMap` | `TypeOK`, `PublishedDisjoint` |
| `ReplierAssignerProofs!Sticky`, `!NoneIdle` | `StickyPairs`, `NoIdleAccount`, which are about steps |
| `ListenerAssignerProofs!TypeCorrect`, `!RolesFit` | `TypeOK`, `RolesFitMap` |
| `ListenerAssignerProofs!PlansAreFair`, `!PlansAreSticky` | `FairShares`, `ListenersSticky`, which are about steps |
| `ShiftRotationProofs!TypeCorrect`, `!StopStops` | `TypeOK`, `StopStopsLoop` |
| `ListenerSetupProofs!TypeCorrect`, `!NeverTwoHandlers`, `!HearsNothingElse` | `TypeOK`, `OneHandler`, `HearsItsTargets` |
| `ApiClientsProofs!TypeCorrect`, `!NobodyIsOrphaned`, `!PendingStaysOpen`, `!LoopMatches` | `TypeOK`, `NoOrphans`, `PendingIsOpen`, `LoopIsEngines` |
| `GoPipelineProofs!TypeCorrect`, `!OneAtATime`, `!AnswersNeedFaults`, `!TwoFifthsKept`, `!PipelineKeepsPromise` | `TypeOK`, `OnePlace`, `SecondAnswerNeedsFault`, `KeepsTwoFifths`, `Spec => KeepsPromise` |

The assumptions are the ones each module names for its constants: numbers where
numbers are compared, finite sets where they are counted, maps of the right
type. No theorem bounds the number of workers, messages, callers or requests.
`QueueManagerProofs` is about two systems that do not interact, so their theorems
are about two specifications, `Spec` and `RateSpec`; it extends both modules, which
is why `RateLimit` has names of its own (`RateInit`, `rateFaults`, ...).

The arguments:

* *One job.* `OneJobPerMessage` is not inductive by itself: `MarkSeen` would
  create a second job if an unseen message had one. The invariant adds that a
  pending message is in `seen`, and that the consumer holds a job exactly when
  it has popped one. Steps fall into those that move a job, those that create
  the first one, and those that only lose jobs (`OnlyLosesJobs`).
* *Second reply.* A message's tries are bounded by its retry number, so the
  invariant relates `posted[m]` to the retry number of the one job there is, and
  to whether its task has posted and is not confirmed yet. `OneJob` is what
  makes "the one job" meaningful.
* *Rule 2.* A counter alone does not say how far it can still grow, so the
  invariant (`CounterBudget`) adds the workers with a task between the check and
  the count: counter and workers together stay within the bound. A check is
  passed only below `MaxConsecutive`, when the worker itself is not among them
  (`OneLockHolder`: its group lock is with one task), and counting a reply moves
  a worker from one summand to the other. The counter is not what was posted:
  every posted reply of a row is counted, or its worker is about to count it, or
  it is in `missed` (`RowBudget`); the workers about to count are among those past
  the check, which bounds the row.
* *Refinement.* Each step maps to `Accept`, `Post`, `Close` or a stutter of
  `ReplyPromise`; `PostReply` needs that its message is pending and has a try
  left, which is the second-reply invariant.
* *Rate limit.* `taken` is at most `count` and at most `Limit`; and `INCR`
  returning 1 is what hands the expiry to one goroutine.
* *Two windows.* The property speaks of the oldest age only; inductive is that
  all ages within the present window have at most the calls of this counter and
  the faults, and older ones `Limit` more. `Tick` shifts the ages, and by the
  time the counter expires every age of it is an older one.
* *Copies and losses.* Every job and every answer of a message is paid for: by the
  message's mark in Redis, by a worker without Redis that has seen it, or by a
  fault that concerned it (`Paid`). A worker without Redis pays once, because the
  mark in its memory goes only in a crash, and that is a fault which concerns all
  the memory knows about. So calls sent twice, fallbacks and requeues make copies
  only as faults, and a detected message loses its last one only by a fault or
  for want of a text (`Explained`). Both follow from what a step may do to the
  sum of jobs and answers of a message (`Kept`), once for each action but
  `Deliver` and `Restart`. The jobs are counted as cardinalities of sets of
  places; a step changes the places of one worker only (`PoolChange`), so no
  induction over the workers is needed. That the loop holds a job exactly between
  pop and answer (`HeldFits`) is why a pop does not overwrite one.
* *Strict policy.* Inside a running call the map is disjoint and every account
  in it is in `used`; passes 1 and 2 take only accounts outside `used`. Nothing
  is assumed of the rows, so other callers cannot break it.
* *What an assignment does.* The two passes are loops over targets that other
  steps interrupt, so the invariant says what they have done so far: for the
  targets pass 1 is through with, a pair that can be kept is the row's; for those
  pass 2 is through with, an incomplete pair means that every account is used;
  and every used account is in the map, for pass 1 in a row (`BuildOK`). Only the
  call itself changes its map, so other callers cannot break it.
* *Plans.* `Positions` and `Ranks` show that accounts and targets are numbered
  without gaps, whatever set they are, so the listeners of a plan are the first
  `Count` in line (`PlanOwners`), and a target has one (`DealtOnce`). Numbering a
  listener's targets by their quotients bounds its share from both sides
  (`ShareSize`). An account that listens stands before one that does not: hence
  stickiness.
* *Roles and map.* While nothing changes, every plan is made for the same targets
  and accounts, but the roles it reads may be before or after another call's
  commit. A plan made once its listeners have their role chooses them again
  (`Stable`), so all plans of overlapping calls have one set of owners (`Chosen`),
  and whatever is committed or published is that set.
* *Stop.* The invariant is the property with the types: a request that turns
  `is_running` off leaves its own cancellation pending, or fails and leaves
  `uncancelled`, and a pass is entered only with `is_running` on.
* *Handlers.* `OneHandler` and `HearsItsTargets` need that between `Connect` and
  `Resolve` the account has no handler (`ResolvesBare`), and that a handler has
  exactly the resolved groups, which `Prune` keeps inside the target set.
* *Clients.* A client is busy in one request only while it has met no other
  (`BusyHaveMet`), so without overlaps the places a request will write to are
  still empty when it does (`PlaceIsFree`), and what it opened belongs to it
  (`Owned`).
* *One place.* Per worker, `OneStage` says which of handler, buffer, flush and
  goroutine exclude each other, `OneHolder` does so across workers and the
  queue. A type proof of its own is not possible: the popped job must have no
  goroutine yet. One reply per job follows because everything before `PostReply`
  implies that nothing was posted (`Unposted`).
* *Second answers (Go).* The jobs of a message are paid for by its mark in Redis,
  one, and by the failed calls about it: only `MarkSeen`, `MarkFails` and
  `RepeatPush` make a job, the first of them once and the others with a fault.
* *Two fifths.* A job whose window has closed is not waiting for another
  (`Windows`), so the windows are disjoint and what is kept of each adds up
  (`ShareOfBoth`), the rounding of the code being in favour of keeping.

## 5. What is only model-checked

Liveness: `JobsFinish`, `QueuesDrain`, `LimitLifts`, `RoleSettles`,
`TurnsForAll`, `TargetsArrive`, `MapFollows`, `EveryGroupHeard`,
`OwnersDisjoint`, `RepliersKnown` and `StaleGone` are out of the prover's reach, as is everything under fairness. Every invariant and every step property of the
passing runs is proved.

## 6. Where the code departs from its comments

`MCGoPipeline_serves` is a run TLC ends with a counterexample. "refresh account
statuses and skip dequeue if ALL replier accounts are unavailable"
(`go-backend/worker/worker.go:664`): a worker that loaded no replier at its start
has an empty cache, takes that for all of them being unavailable, refreshes only
what is in the cache, and skips the pop whose timeout would reload it. It never
takes a message again, although an account becomes available.

Met while modelling and not in a run of their own:

* "Only 1 account listens to each group at any time" (`worker.py:7`):
  `setup_listeners` visits only the accounts that the map names
  (`worker.py:304-308`), so an account that a rebalance takes out of the map keeps
  its client and its handler, and goes on hearing its old groups beside their new
  owner until the worker restarts. The mark in Redis keeps the messages from being
  queued twice. Between two setup runs two owners may hear one group, too.
* "Max 5 consecutive thread replies per account" (`worker.py:600`) is exceeded
  when the role rotates while a thread reply is in flight, and by every reply
  that is posted and not counted, because its confirmation is lost or its worker
  dies; `ThreadReplyBound` is what holds. The Go check has no group lock: all
  goroutines in flight pass it together, and the rate token is spent before Rules
  2 and 4 are looked at.
* The failover (`worker.py:599`) looks at a cached status and goes on using a
  primary that is in FLOOD_WAIT.
* After a session file is renamed, replies of its account are simulated and
  logged as sent (`telethon_engine.py:184`).
* With an account for every group, pass 2 of the replier assignment gives the
  first group two and the last none (`listener_assigner.py:341`).
* A crash or a Redis error between INCR and EXPIRE leaves an account at its rate
  limit for good (`queue_manager.go:723`).
* When SETNX fails, or go-redis repeats an RPUSH whose answer was lost, a Go
  message becomes two jobs and is answered twice (`queue_manager.go:117-126,147`).
* `stop()` can fail at the database between turning `is_running` off and
  cancelling the loop (`rotator.py:151`); the pass that is on then goes on to its
  end.
* `send_code` whose log row cannot be written answers with an error and closes
  the client, but the login stays pending until the cleanup (`api.py:227`).
* A target that an account cannot resolve is not tried again while its target set
  stays the same (`worker.py:314`).
* `stop()` disconnects Redis and `start()` does not connect it
  (`rotator.py:157`): the role is not rotated again until the API restarts.
* "Force a complete rebalance which will exclude the failed account"
  (`listener_assigner.py:225`): an account that is revoked but still looks sound
  is chosen again, so roles and map may change for ever (`RepliersKnown` excepts
  it).
* A target added while an older synchronisation runs can leave the map of the
  older one under the hash of the newer (`clash` in `ListenerAssigner`).
* A setup run that finds no listening account returns before it loads the repliers.
* `handle_invalid_session` cancels the loop it may be running in, so the session
  file is then not renamed.
* A verification removes whatever login is pending under the name by then, and
  never disconnects its own client; two overlapping requests for a code leave
  one client open with nobody to close it.
* Without Redis a worker has no texts and answers nothing, and only worker-1
  consumes; a job that fell into the memory of a worker that believes in Redis
  stays there until one of its pops fails. In Go that job is never read.
* SIGTERM loses the debounce buffers of a Go worker, whose messages are marked
  as seen.
* The per-group lock is local to a process, so two workers can send to one group
  at the same time; a group with no pair is answered by the first account,
  whosever it is; a start that overlaps a stop can leave `is_running` on with no
  loop; the rate limit increments past the limit before it refuses.

## 7. Not modelled

* Frontend, table definitions, logging, parsing of links: no protocol of their
  own.
* Target resolution and joining: input and output of Telegram (which groups
  resolve is an input of `ListenerSetup`).
* The websocket broadcast iterates over a list that sockets join and leave at
  its awaits: a skipped socket misses one message of a state that is sent again
  each second while the rotator runs.
* The Go assigners and rotator follow the Python ones, with a mutex or a
  goroutine where those have a task; the Go listener assigner keeps sticky rows
  as well, which can push a listener over 35 groups.
* Joining and leaving groups, settings and message tables: single statements.

## 8. Plan

1. Composition of `ReplierAssigner` and `ReplyPipeline` through the published
   maps, for the strict policy across workers and over stale maps, and a second
   group in the pipeline.
2. The sticky listener rows of the Go assigner, as a second plan function of
   `ListenerAssigner`.
3. Proofs: the exact counterpart of `RolesFitMap` under changes, that is which
   calls must end before roles and map agree again.
