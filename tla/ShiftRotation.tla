--------------------------- MODULE ShiftRotation ---------------------------
(***************************************************************************)
(* The rotation of the consumer role (Python): workers send heartbeats to  *)
(* Redis; the rotation loop of the API process gives the role to the next  *)
(* live worker when a shift is over; requests start and stop that loop,    *)
(* toggle the shift, and run between its awaits.                           *)
(***************************************************************************)
EXTENDS Naturals

CONSTANTS
  Workers,    \* worker processes, numbered in the order of their ids
  Requests,   \* requests the API process can serve at the same time
  Loop,       \* the task of the rotation loop
  ShiftLen,   \* rotation_interval_minutes, in ticks
  BeatEvery,  \* HEARTBEAT_INTERVAL, in ticks
  Timeout,    \* WORKER_HEARTBEAT_TIMEOUT, in ticks
  Connects,   \* can the restarting API process reach Redis?
  MaxEvents   \* bound on requests, failures and restarts

Worker1 == 1                       \* the default consumer, "worker-1"
Owners  == Workers \cup {Worker1}
Tasks   == Requests \cup {Loop}

ASSUME RotationAssumption ==
  /\ Workers \subseteq Nat
  /\ Loop \notin Requests
  /\ ShiftLen \in Nat \ {0}
  /\ BeatEvery \in Nat \ {0} /\ Timeout \in Nat /\ BeatEvery < Timeout
  /\ Connects \subseteq BOOLEAN /\ Connects # {}
  /\ MaxEvents \in Nat

VARIABLES
  up,         \* is the worker process running?
  age,        \* ticks since its heartbeat; Timeout also stands for no entry
  consumer,   \* Redis: active_consumer
  memory,     \* the API's copy of it in memory
  useRedis,   \* is the API's queue manager connected?
  isRunning,  \* ShiftRotator.is_running
  elapsed,    \* ticks since shift_started_at
  task,       \* what the loop and the requests do next
  events,     \* requests, failures and restarts so far
  uncancelled \* history: stop() failed before it cancelled the pass that is on

registry == <<up, age>>
roles    == <<consumer, memory>>
vars     == <<registry, roles, useRedis, isRunning, elapsed, task, events, uncancelled>>

\* rotate_consumer goes through alive, current, write and shift; start() through
\* started and create; stop() through cancel and disconnect.
Steps  == {"none", "check", "due", "rest", "alive", "current", "write", "shift",
           "started", "create", "cancel", "disconnect"}
NoTask == [pc |-> "none", alive |-> {}, next |-> Worker1]

TypeOK ==
  /\ up \in [Workers -> BOOLEAN]
  /\ age \in [Workers -> 0..Timeout]
  /\ consumer \in Owners /\ memory \in Owners
  /\ useRedis \in BOOLEAN /\ isRunning \in BOOLEAN
  /\ elapsed \in 0..ShiftLen
  /\ task \in [Tasks -> [pc : Steps, alive : SUBSET Workers, next : Owners]]
  /\ events \in 0..MaxEvents
  /\ uncancelled \in BOOLEAN

Init ==
  /\ up \in [Workers -> BOOLEAN]
  /\ age = [w \in Workers |-> IF up[w] THEN 0 ELSE Timeout]
  /\ consumer = Worker1 /\ memory = Worker1
  /\ useRedis = TRUE /\ isRunning = FALSE
  /\ elapsed = ShiftLen
  /\ task = [t \in Tasks |-> NoTask]
  /\ events = 0 /\ uncancelled = FALSE

At(t, step)   == task[t].pc = step
Goto(t, step) == task' = [task EXCEPT ![t].pc = step]
Event         == events < MaxEvents /\ events' = events + 1

-----------------------------------------------------------------------------
(* Workers and time.                                                       *)

StartWorker(w) ==
  /\ ~up[w]
  /\ up' = [up EXCEPT ![w] = TRUE]
  /\ age' = [age EXCEPT ![w] = 0]
  /\ UNCHANGED <<roles, useRedis, isRunning, elapsed, task, events, uncancelled>>

Heartbeat(w) ==
  /\ up[w] /\ age[w] > 0
  /\ age' = [age EXCEPT ![w] = 0]
  /\ UNCHANGED <<up, roles, useRedis, isRunning, elapsed, task, events, uncancelled>>

\* A worker crashes, or stops and takes itself off the registry.
Die(w) ==
  /\ up[w] /\ Event
  /\ up' = [up EXCEPT ![w] = FALSE]
  /\ age' \in {age, [age EXCEPT ![w] = Timeout]}
  /\ UNCHANGED <<roles, useRedis, isRunning, elapsed, task, uncancelled>>

\* Mutant: ages and shifts are not capped.
LaterUncapped(n, max) == n + 1

\* One tick later, up to max.
Later(n, max) == IF n < max THEN n + 1 ELSE max

\* Time passes; a running worker sends its heartbeat in time.
Tick ==
  /\ \A w \in Workers : up[w] => age[w] < BeatEvery
  /\ age' = [w \in Workers |-> Later(age[w], Timeout)]
  /\ elapsed' = Later(elapsed, ShiftLen)
  /\ UNCHANGED <<up, roles, useRedis, isRunning, task, events, uncancelled>>

-----------------------------------------------------------------------------
(* rotate_consumer, called by the loop and by the toggle request.          *)

\* Mutant: a heartbeat is never too old.
RegisteredIds == IF useRedis THEN {w \in Workers : age[w] <= Timeout} ELSE {}

\* get_alive_worker_ids; the memory registry of the API process is empty.
AliveIds == IF useRedis THEN {w \in Workers : age[w] < Timeout} ELSE {}

IsFirst(w, S) == w \in S /\ \A v \in S : w <= v

\* Mutant: the old toggle between the first two workers.
IsOther(w, S, c) == IsFirst(w, IF S = {c} THEN S ELSE S \ {c})

\* w follows c in the sorted list S; the first follows the last and strangers.
IsNext(w, S, c) ==
  LET later == {v \in S : v > c}
  IN IsFirst(w, IF c \in S /\ later # {} THEN later ELSE S)

\* What comes after rotate_consumer: the rest of the loop, or the response.
Return(t) == IF t = Loop THEN "rest" ELSE "none"

\* A Redis error reads as an empty registry, or as the memory's consumer, and
\* leaves what is to be written in memory only.
ReadAlive(t) ==
  /\ At(t, "alive")
  /\ \/ /\ AliveIds # {}
        /\ task' = [task EXCEPT ![t].pc = "current", ![t].alive = AliveIds]
        /\ UNCHANGED events
     \/ AliveIds = {} /\ Goto(t, Return(t)) /\ UNCHANGED events
     \/ AliveIds # {} /\ Event /\ Goto(t, Return(t))
  /\ UNCHANGED <<registry, roles, useRedis, isRunning, elapsed, uncancelled>>

ReadCurrent(t) ==
  /\ At(t, "current")
  /\ \E c \in {consumer, memory}, w \in task[t].alive :
       /\ \/ c = (IF useRedis THEN consumer ELSE memory) /\ UNCHANGED events
          \/ c = memory /\ useRedis /\ Event
       /\ IsNext(w, task[t].alive, c)
       /\ task' = [task EXCEPT ![t] = [pc |-> "write", alive |-> {}, next |-> w]]
  /\ UNCHANGED <<registry, roles, useRedis, isRunning, elapsed, uncancelled>>

WriteNext(t) ==
  /\ At(t, "write")
  /\ memory' = task[t].next
  /\ \/ consumer' = (IF useRedis THEN task[t].next ELSE consumer) /\ UNCHANGED events
     \/ useRedis /\ Event /\ UNCHANGED consumer
  /\ Goto(t, "shift")
  /\ UNCHANGED <<registry, useRedis, isRunning, elapsed, uncancelled>>

BeginShift(t) ==
  /\ At(t, "shift")
  /\ elapsed' = 0
  /\ task' = [task EXCEPT ![t] = [NoTask EXCEPT !.pc = Return(t)]]
  /\ UNCHANGED <<registry, roles, useRedis, isRunning, events, uncancelled>>

Rotate(t) == ReadAlive(t) \/ ReadCurrent(t) \/ WriteNext(t) \/ BeginShift(t)

-----------------------------------------------------------------------------
(* _rotation_loop.                                                         *)

CheckRunning ==
  /\ At(Loop, "check") /\ Goto(Loop, IF isRunning THEN "due" ELSE "none")
  /\ UNCHANGED <<registry, roles, useRedis, isRunning, elapsed, events>>
  /\ uncancelled' = FALSE

CheckShift ==
  /\ At(Loop, "due") /\ Goto(Loop, IF elapsed >= ShiftLen THEN "alive" ELSE "rest")
  /\ UNCHANGED <<registry, roles, useRedis, isRunning, elapsed, events, uncancelled>>

\* Recovery, sync_state_to_redis and the log drain, then one second of sleep.
Rest ==
  /\ At(Loop, "rest") /\ Goto(Loop, "check")
  /\ UNCHANGED <<registry, roles, useRedis, isRunning, elapsed, events, uncancelled>>

\* An unexpected exception ends the loop; is_running stays as it is.
LoopFails ==
  /\ ~At(Loop, "none") /\ Event
  /\ task' = [task EXCEPT ![Loop] = NoTask]
  /\ UNCHANGED <<registry, roles, useRedis, isRunning, elapsed>>
  /\ uncancelled' = FALSE

-----------------------------------------------------------------------------
(* Requests to the API process.                                            *)

Toggle(t) ==
  /\ At(t, "none") /\ Event /\ Goto(t, "alive")
  /\ UNCHANGED <<registry, roles, useRedis, isRunning, elapsed, uncancelled>>

Start(t) ==
  /\ At(t, "none") /\ Event
  /\ isRunning' = TRUE
  /\ Goto(t, "started")
  /\ UNCHANGED <<registry, roles, useRedis, elapsed, uncancelled>>

StartShift(t) ==
  /\ At(t, "started")
  /\ elapsed' = 0
  /\ Goto(t, "create")
  /\ UNCHANGED <<registry, roles, useRedis, isRunning, events, uncancelled>>

\* The loop is created unless its task is still there.
CreateLoop(t) ==
  /\ At(t, "create")
  /\ task' = [task EXCEPT ![t] = NoTask,
                          ![Loop].pc = IF @ = "none" THEN "check" ELSE @]
  /\ UNCHANGED <<registry, roles, useRedis, isRunning, elapsed, events, uncancelled>>

Stop(t) ==
  /\ At(t, "none") /\ Event
  /\ isRunning' = FALSE
  /\ Goto(t, "cancel")
  /\ UNCHANGED <<registry, roles, useRedis, elapsed, uncancelled>>

\* Mutant: the task is left to its own end.
ForgetLoop(t) ==
  /\ At(t, "cancel")
  /\ Goto(t, "disconnect")
  /\ UNCHANGED <<registry, roles, useRedis, isRunning, elapsed, events, uncancelled>>

CancelLoop(t) ==
  /\ At(t, "cancel")
  /\ task' = [task EXCEPT ![t].pc = "disconnect", ![Loop] = NoTask]
  /\ UNCHANGED <<registry, roles, useRedis, isRunning, elapsed, events>>
  /\ uncancelled' = FALSE

\* A database call of the request raises, and the request ends: in stop() too,
\* between is_running = False and the cancellation.
RequestFails(t) ==
  /\ \E step \in {"shift", "started", "create", "cancel"} : At(t, step)
  /\ Event /\ task' = [task EXCEPT ![t] = NoTask]
  /\ uncancelled' = (uncancelled \/ At(t, "cancel"))
  /\ UNCHANGED <<registry, roles, useRedis, isRunning, elapsed>>

\* queue_manager.disconnect(): nothing connects it again.
Disconnect(t) ==
  /\ At(t, "disconnect")
  /\ useRedis' = FALSE
  /\ Goto(t, "none")
  /\ UNCHANGED <<registry, roles, isRunning, elapsed, events, uncancelled>>

\* The API process restarts: the rotator is off, the role goes to worker-1.
RestartApi ==
  /\ Event
  /\ useRedis' \in Connects
  /\ memory' = Worker1
  /\ consumer' = IF useRedis' THEN Worker1 ELSE consumer
  /\ isRunning' = FALSE
  /\ task' = [t \in Tasks |-> NoTask]
  /\ UNCHANGED <<registry, elapsed>>
  /\ uncancelled' = FALSE

LoopStep    == CheckRunning \/ CheckShift \/ Rotate(Loop) \/ Rest
Serve(t)    == Rotate(t) \/ StartShift(t) \/ CreateLoop(t) \/ CancelLoop(t) \/ Disconnect(t)
Request(t)  == Toggle(t) \/ Start(t) \/ Stop(t)

Next ==
  \/ \E w \in Workers : StartWorker(w) \/ Heartbeat(w) \/ Die(w)
  \/ Tick
  \/ LoopStep \/ LoopFails
  \/ \E t \in Requests : Serve(t) \/ Request(t) \/ RequestFails(t)
  \/ RestartApi

Spec == Init /\ [][Next]_vars

\* Time passes, and every await of the API process returns.
FairSpec ==
  /\ Spec
  /\ WF_vars(Tick) /\ (\A w \in Workers : WF_vars(Heartbeat(w)))
  /\ WF_vars(LoopStep) /\ (\A t \in Requests : WF_vars(Serve(t)))

-----------------------------------------------------------------------------
\* stop() stops: once is_running is off and no cancellation is still to come, the
\* loop is inside a pass only if a stop() failed before it cancelled that pass,
\* which then is the last one, whichever starts, stops and failures overlap.
StopStopsLoop ==
  ~isRunning /\ (\A t \in Requests : ~At(t, "cancel"))
    => At(Loop, "none") \/ At(Loop, "check") \/ uncancelled

Rotating == isRunning /\ useRedis /\ ~At(Loop, "none")

\* The role leaves dead workers for good: once the rotator keeps running and
\* some worker lives, a live worker has the role in the end.
RoleSettles ==
  <>[](Rotating /\ \E w \in Workers : up[w])
    => <>[](consumer \in Workers /\ up[consumer])

\* Round robin over N workers: a worker that stays alive gets its turn again
\* and again, whoever else dies, joins or toggles.
TurnsForAll ==
  \A w \in Workers : <>[](Rotating /\ up[w]) => []<>(consumer = w)
=============================================================================
