------------------------ MODULE ShiftRotationProofs ------------------------
(***************************************************************************)
(* ShiftRotation for any number of workers and overlapping requests: its   *)
(* types, and that stop() leaves no rotation going on.                     *)
(***************************************************************************)
EXTENDS ShiftRotation, TLAPS

USE RotationAssumption

TaskType == [pc : Steps, alive : SUBSET Workers, next : Owners]

\* Away from a pending cancellation, and from one that failed, a loop inside a pass
\* runs with is_running on; a cancellation is only ever pending in a request.
Inv == TypeOK /\ StopStopsLoop

-----------------------------------------------------------------------------
\* Moving one task keeps the type of all.
LEMMA MoveType ==
  ASSUME TypeOK, NEW t \in Tasks, NEW r \in TaskType
  PROVE  /\ [task EXCEPT ![t] = r] \in [Tasks -> TaskType]
         /\ [task EXCEPT ![t] = r][t] = r
         /\ \A u \in Tasks \ {t} : [task EXCEPT ![t] = r][u] = task[u]
BY DEF TypeOK, TaskType

\* Goto moves the program counter of one task.
LEMMA GotoType ==
  ASSUME TypeOK, NEW t \in Tasks, NEW step \in Steps, Goto(t, step)
  PROVE  /\ task' \in [Tasks -> TaskType]
         /\ task'[t].pc = step
         /\ \A u \in Tasks \ {t} : task'[u] = task[u]
<1>1. task[t] \in TaskType
  BY DEF TypeOK, TaskType
<1> DEFINE r == [task[t] EXCEPT !.pc = step]
<1>2. r \in TaskType /\ r.pc = step
  BY <1>1 DEF TaskType
<1>3. task' = [task EXCEPT ![t] = r]
  BY DEF Goto
<1> HIDE DEF r
<1> QED BY <1>2, <1>3, MoveType

\* A step of requests that begin, and of cancelled, stays where it is typed.
LEMMA NoTaskType == NoTask \in TaskType /\ NoTask.pc = "none"
BY DEF NoTask, TaskType, Steps, Owners

LEMMA ReturnType == \A t \in Tasks : Return(t) \in Steps
BY DEF Return, Steps

\* While no cancellation is pending, none has failed and is_running is off, the loop
\* is outside its pass: what every step has to keep.
LEMMA Quiet ==
  ASSUME StopStopsLoop, ~isRunning, ~uncancelled, \A u \in Requests : ~At(u, "cancel")
  PROVE  task[Loop].pc \in {"none", "check"}
BY DEF StopStopsLoop, At

-----------------------------------------------------------------------------
LEMMA InitInv == Init => Inv
<1> SUFFICES ASSUME Init PROVE Inv
  OBVIOUS
<1>1. task \in [Tasks -> TaskType] /\ \A t \in Tasks : task[t].pc = "none"
  BY NoTaskType DEF Init
<1>2. age \in [Workers -> 0..Timeout] /\ elapsed \in 0..ShiftLen
  BY DEF Init
<1>3. TypeOK
  <2>1. events \in 0..MaxEvents /\ consumer \in Owners /\ memory \in Owners
    BY DEF Init, Owners
  <2>3. uncancelled \in BOOLEAN
    BY DEF Init
  <2>2. up \in [Workers -> BOOLEAN] /\ useRedis \in BOOLEAN /\ isRunning \in BOOLEAN
    BY DEF Init
  <2> QED BY <1>1, <1>2, <2>1, <2>2, <2>3 DEF TypeOK, TaskType
<1>4. StopStopsLoop
  BY <1>1 DEF StopStopsLoop, At, Tasks
<1> QED BY <1>3, <1>4 DEF Inv

\* A step that moves one task from a place where it neither cancels nor holds
\* the loop back, or moves the loop inside a pass, keeps StopStopsLoop.
LEMMA MoveKeeps ==
  ASSUME Inv, task' \in [Tasks -> TaskType], isRunning' = isRunning, NEW t \in Tasks,
         uncancelled' = uncancelled \/ isRunning \/ task'[Loop].pc = "none",
         \A u \in Tasks \ {t} : task'[u] = task[u],
         t # Loop => task[t].pc # "cancel",
         t = Loop => \/ task'[t].pc \in {"none", "check"}
                     \/ isRunning
                     \/ task[t].pc \notin {"none", "check"}
  PROVE  StopStopsLoop'
<1> SUFFICES ASSUME ~isRunning', ~uncancelled', task'[Loop].pc # "none",
                    \A u \in Requests : ~At(u, "cancel")'
             PROVE  task'[Loop].pc \in {"none", "check"}
  BY DEF StopStopsLoop, At
<1>1. \A u \in Requests : ~At(u, "cancel")
  BY DEF At, Tasks
<1>2. task[Loop].pc \in {"none", "check"}
  BY <1>1, Quiet DEF Inv
<1> QED BY <1>2 DEF Tasks

\* rotate_consumer moves one task through its steps.
LEMMA RotateMoves ==
  ASSUME Inv, NEW t \in Tasks, Rotate(t)
  PROVE  /\ task' \in [Tasks -> TaskType]
         /\ \A u \in Tasks \ {t} : task'[u] = task[u]
         /\ task[t].pc \in {"alive", "current", "write", "shift"}
<1>1. task[t].pc \in {"alive", "current", "write", "shift"}
  BY DEF Rotate, ReadAlive, ReadCurrent, WriteNext, BeginShift, At
<1>2. TypeOK /\ task[t] \in TaskType
  BY DEF Inv, TypeOK, TaskType
<1>3. CASE ReadAlive(t)
  <2>1. AliveIds \in SUBSET Workers
    BY DEF AliveIds
  <2>2. CASE Goto(t, Return(t))
    BY <1>1, <1>2, <2>2, ReturnType, GotoType
  <2>3. CASE task' = [task EXCEPT ![t].pc = "current", ![t].alive = AliveIds]
    <3> DEFINE r == [task[t] EXCEPT !.pc = "current", !.alive = AliveIds]
    <3>1. r \in TaskType
      <4>1. [task[t] EXCEPT !.pc = "current"] \in TaskType
        BY <1>2 DEF TaskType, Steps
      <4> QED BY <4>1, <2>1 DEF TaskType
    <3>2. task' = [task EXCEPT ![t] = r]
      BY <2>3, <1>2 DEF TypeOK
    <3> HIDE DEF r
    <3> QED BY <1>1, <1>2, <3>1, <3>2, MoveType
  <2> QED BY <1>3, <2>2, <2>3 DEF ReadAlive
<1>4. CASE ReadCurrent(t)
  <2> PICK w \in task[t].alive : task' = [task EXCEPT ![t] = [pc |-> "write", alive |-> {}, next |-> w]]
    BY <1>4 DEF ReadCurrent
  <2>1. [pc |-> "write", alive |-> {}, next |-> w] \in TaskType
    BY <1>2 DEF TaskType, Steps, Owners
  <2> QED BY <1>1, <1>2, <2>1, MoveType
<1>5. CASE WriteNext(t)
  BY <1>1, <1>2, <1>5, GotoType DEF WriteNext, Steps
<1>6. CASE BeginShift(t)
  <2> DEFINE r == [NoTask EXCEPT !.pc = Return(t)]
  <2>1. r \in TaskType
    BY NoTaskType, ReturnType DEF TaskType
  <2>2. task' = [task EXCEPT ![t] = r]
    BY <1>6 DEF BeginShift
  <2> HIDE DEF r
  <2> QED BY <1>1, <1>2, <2>1, <2>2, MoveType
<1> QED BY <1>3, <1>4, <1>5, <1>6 DEF Rotate

\* What it writes elsewhere is of the right type.
LEMMA RotateInv == ASSUME Inv, NEW t \in Tasks, Rotate(t) PROVE Inv'
<1>1. /\ task' \in [Tasks -> TaskType] /\ isRunning' = isRunning /\ uncancelled' = uncancelled
      /\ useRedis' = useRedis /\ UNCHANGED registry
  BY RotateMoves DEF Rotate, ReadAlive, ReadCurrent, WriteNext, BeginShift
<1>2. consumer' \in Owners /\ memory' \in Owners
  <2>1. task[t].next \in Owners
    BY DEF Inv, TypeOK
  <2> QED BY <2>1 DEF Rotate, ReadAlive, ReadCurrent, WriteNext, BeginShift, roles, Inv, TypeOK
<1>3. elapsed' \in 0..ShiftLen /\ events' \in 0..MaxEvents
  BY DEF Rotate, ReadAlive, ReadCurrent, WriteNext, BeginShift, Event, Inv, TypeOK
<1>4. TypeOK'
  BY <1>1, <1>2, <1>3 DEF Inv, TypeOK, TaskType, registry
<1>5. StopStopsLoop'
  BY <1>1, RotateMoves, MoveKeeps
<1> QED BY <1>4, <1>5 DEF Inv

LEMMA LoopInv == ASSUME Inv, LoopStep \/ LoopFails PROVE Inv'
<1>1. CASE Rotate(Loop)
  BY <1>1, RotateInv DEF Tasks
<1>2. CASE CheckRunning \/ CheckShift
  <2>1. isRunning' = isRunning /\ uncancelled' \in BOOLEAN
    BY <1>2 DEF CheckRunning, CheckShift, Inv, TypeOK
  <2>5. uncancelled' = uncancelled \/ isRunning \/ Goto(Loop, "none")
    BY <1>2 DEF CheckRunning, CheckShift
  <2>2. PICK step \in {"none", "due", "alive", "rest"} :
          Goto(Loop, step) /\ (step = "none" \/ isRunning \/ task[Loop].pc = "due")
    BY <1>2 DEF CheckRunning, CheckShift, At
  <2>3. /\ task' \in [Tasks -> TaskType] /\ task'[Loop].pc = step
        /\ \A u \in Tasks \ {Loop} : task'[u] = task[u]
    BY <2>2, GotoType DEF Inv, Steps, Tasks
  <2>6. uncancelled' = uncancelled \/ isRunning \/ task'[Loop].pc = "none"
    BY <2>5, GotoType DEF Inv, Steps, Tasks
  <2>4. StopStopsLoop'
    BY <2>1, <2>2, <2>3, <2>6, MoveKeeps DEF Tasks
  <2> QED BY <1>2, <2>1, <2>3, <2>4 DEF CheckRunning, CheckShift, Inv, TypeOK, TaskType, registry, roles
<1>3. CASE Rest
  <2>1. /\ task' \in [Tasks -> TaskType] /\ task'[Loop].pc = "check"
        /\ \A u \in Tasks \ {Loop} : task'[u] = task[u]
    BY <1>3, GotoType DEF Rest, Inv, Steps, Tasks
  <2>2. StopStopsLoop'
    BY <1>3, <2>1, MoveKeeps DEF Rest, Tasks
  <2> QED BY <1>3, <2>1, <2>2 DEF Rest, Inv, TypeOK, TaskType, registry, roles
<1>4. CASE LoopFails
  <2>1. /\ task' \in [Tasks -> TaskType] /\ task'[Loop].pc = "none"
        /\ \A u \in Tasks \ {Loop} : task'[u] = task[u]
    BY <1>4, NoTaskType, MoveType DEF LoopFails, Inv, Tasks
  <2>2. StopStopsLoop'
    BY <1>4, <2>1, MoveKeeps DEF LoopFails, Tasks
  <2>3. events' \in 0..MaxEvents
    BY <1>4 DEF LoopFails, Event, Inv, TypeOK
  <2>4. uncancelled' \in BOOLEAN
    BY <1>4 DEF LoopFails
  <2> QED BY <1>4, <2>1, <2>2, <2>3, <2>4 DEF LoopFails, Inv, TypeOK, TaskType, registry, roles
<1> QED BY <1>1, <1>2, <1>3, <1>4 DEF LoopStep

-----------------------------------------------------------------------------
\* Requests that begin: stop() leaves its own cancellation pending.
LEMMA RequestInv == ASSUME Inv, NEW t \in Requests, Request(t) PROVE Inv'
<1>1. t \in Tasks /\ t # Loop /\ task[t].pc = "none"
  BY DEF Request, Toggle, Start, Stop, At, Tasks
<1>2. PICK step \in {"alive", "started", "cancel"} :
        Goto(t, step) /\ (step = "cancel" \/ isRunning' \/ isRunning' = isRunning)
  BY DEF Request, Toggle, Start, Stop
<1>3. /\ task' \in [Tasks -> TaskType] /\ task'[t].pc = step
      /\ \A u \in Tasks \ {t} : task'[u] = task[u]
  BY <1>1, <1>2, GotoType DEF Inv, Steps
<1>5. events' \in 0..MaxEvents /\ UNCHANGED <<registry, roles, useRedis, elapsed, uncancelled>>
  BY DEF Request, Toggle, Start, Stop, Event, Inv, TypeOK
<1>4. StopStopsLoop'
  <2>1. CASE step = "cancel" \/ isRunning'
    BY <1>3, <2>1 DEF StopStopsLoop, At
  <2>2. CASE isRunning' = isRunning
    BY <1>1, <1>3, <1>5, <2>2, MoveKeeps
  <2> QED BY <1>2, <2>1, <2>2
<1>6. isRunning' \in BOOLEAN
  BY ZenonT(30) DEF Request, Toggle, Start, Stop, Inv, TypeOK
<1> QED BY <1>3, <1>4, <1>5, <1>6 DEF Inv, TypeOK, TaskType, registry, roles

\* Requests that go on; cancelling ends the loop.
LEMMA ServeInv == ASSUME Inv, NEW t \in Requests, Serve(t) PROVE Inv'
<1>1. t \in Tasks /\ t # Loop /\ Loop \in Tasks /\ TypeOK
  BY DEF Tasks, Inv
<1>2. CASE Rotate(t)
  BY <1>1, <1>2, RotateInv
<1>3. CASE StartShift(t)
  <2>1. /\ task' \in [Tasks -> TaskType]
        /\ \A u \in Tasks \ {t} : task'[u] = task[u]
    BY <1>1, <1>3, GotoType DEF StartShift, Steps
  <2>2. StopStopsLoop'
    BY <1>1, <1>3, <2>1, MoveKeeps DEF StartShift, At
  <2> QED BY <1>3, <2>1, <2>2 DEF StartShift, Inv, TypeOK, TaskType, registry, roles
<1>4. CASE CreateLoop(t)
  <2> DEFINE r == [task[Loop] EXCEPT !.pc = IF @ = "none" THEN "check" ELSE @]
             half == [task EXCEPT ![t] = NoTask]
  <2>1. r \in TaskType /\ (r.pc = task[Loop].pc \/ r.pc = "check")
    BY <1>1 DEF TypeOK, TaskType, Steps
  <2>2. task' = [half EXCEPT ![Loop] = r]
    BY <1>1, <1>4 DEF CreateLoop
  <2>3. half \in [Tasks -> TaskType] /\ half[t] = NoTask /\ \A u \in Tasks \ {t} : half[u] = task[u]
    BY <1>1, NoTaskType, MoveType
  <2> HIDE DEF r, half
  <2>4. /\ task' \in [Tasks -> TaskType] /\ task'[Loop] = r /\ task'[t] = NoTask
        /\ \A u \in Tasks \ {t, Loop} : task'[u] = task[u]
    BY <1>1, <2>1, <2>2, <2>3
  <2>5. StopStopsLoop'
    <3> SUFFICES ASSUME ~isRunning', ~uncancelled', \A u \in Requests : ~At(u, "cancel")'
                 PROVE  task'[Loop].pc \in {"none", "check"}
      BY DEF StopStopsLoop, At
    <3>1. ~isRunning /\ ~uncancelled /\ task[t].pc = "create"
      BY <1>4 DEF CreateLoop, At
    <3>2. \A u \in Requests : ~At(u, "cancel")
      BY <1>1, <2>4, <3>1 DEF At, Tasks
    <3> QED BY <2>1, <2>4, <3>1, <3>2, Quiet DEF Inv
  <2> QED BY <1>4, <2>4, <2>5 DEF CreateLoop, Inv, TypeOK, TaskType, registry, roles
<1>5. CASE CancelLoop(t)
  <2> DEFINE r == [task[t] EXCEPT !.pc = "disconnect"]
             half == [task EXCEPT ![t] = r]
  <2>1. r \in TaskType
    BY <1>1 DEF TypeOK, TaskType, Steps
  <2>2. task' = [half EXCEPT ![Loop] = NoTask]
    BY <1>1, <1>5 DEF CancelLoop
  <2>3. half \in [Tasks -> TaskType]
    BY <1>1, <2>1, MoveType
  <2> HIDE DEF r, half
  <2>4. task' \in [Tasks -> TaskType] /\ task'[Loop].pc = "none"
    BY <1>1, <2>2, <2>3, NoTaskType
  <2>5. StopStopsLoop'
    BY <2>4 DEF StopStopsLoop, At
  <2> QED BY <1>5, <2>4, <2>5 DEF CancelLoop, Inv, TypeOK, TaskType, registry, roles
<1>6. CASE Disconnect(t)
  <2>1. /\ task' \in [Tasks -> TaskType]
        /\ \A u \in Tasks \ {t} : task'[u] = task[u]
    BY <1>1, <1>6, GotoType DEF Disconnect, Steps
  <2>2. StopStopsLoop'
    BY <1>1, <1>6, <2>1, MoveKeeps DEF Disconnect, At
  <2> QED BY <1>6, <2>1, <2>2 DEF Disconnect, Inv, TypeOK, TaskType, registry, roles
<1> QED BY <1>2, <1>3, <1>4, <1>5, <1>6 DEF Serve

\* A request that fails: in stop() it leaves a pass that nobody will cancel.
LEMMA FailsInv == ASSUME Inv, NEW t \in Requests, RequestFails(t) PROVE Inv'
<1>1. t \in Tasks /\ t # Loop /\ TypeOK
  BY DEF Tasks, Inv
<1>2. task' \in [Tasks -> TaskType] /\ \A u \in Tasks \ {t} : task'[u] = task[u]
  BY <1>1, NoTaskType, MoveType DEF RequestFails
<1>3. StopStopsLoop'
  <2>1. CASE At(t, "cancel")
    BY <2>1 DEF RequestFails, StopStopsLoop
  <2>2. CASE ~At(t, "cancel")
    BY <1>1, <1>2, <2>2, MoveKeeps DEF RequestFails, At, TypeOK
  <2> QED BY <2>1, <2>2
<1>4. uncancelled' \in BOOLEAN /\ events' \in 0..MaxEvents
  BY <1>1 DEF RequestFails, Event, TypeOK
<1> QED BY <1>2, <1>3, <1>4 DEF RequestFails, Inv, TypeOK, TaskType, registry, roles

-----------------------------------------------------------------------------
\* Workers and time leave the tasks alone.
LEMMA WorldInv ==
  ASSUME Inv, Tick \/ \E w \in Workers : StartWorker(w) \/ Heartbeat(w) \/ Die(w)
  PROVE  Inv'
<1>1. UNCHANGED <<roles, useRedis, isRunning, task, uncancelled>>
  BY DEF Tick, StartWorker, Heartbeat, Die
<1>2. StopStopsLoop'
  BY <1>1 DEF Inv, StopStopsLoop, At
<1>3. CASE Tick
  <2>1. \A n, max \in Nat : n <= max => Later(n, max) \in 0..max
    BY DEF Later
  <2>2. \A w \in Workers : Later(age[w], Timeout) \in 0..Timeout
    <3> TAKE w \in Workers
    <3>1. age[w] \in 0..Timeout
      BY DEF Inv, TypeOK
    <3> QED BY <3>1, <2>1
  <2>3. age' \in [Workers -> 0..Timeout]
    BY <1>3, <2>2 DEF Tick
  <2>4. elapsed' \in 0..ShiftLen
    <3>1. elapsed \in 0..ShiftLen
      BY DEF Inv, TypeOK
    <3> QED BY <1>3, <2>1, <3>1 DEF Tick
  <2> QED BY <1>1, <1>2, <1>3, <2>3, <2>4 DEF Tick, Inv, TypeOK, roles
<1>4. ASSUME NEW w \in Workers, StartWorker(w) \/ Heartbeat(w) \/ Die(w) PROVE Inv'
  <2>1. up' \in [Workers -> BOOLEAN]
    BY <1>4 DEF StartWorker, Heartbeat, Die, registry, Inv, TypeOK
  <2>2. age' \in [Workers -> 0..Timeout]
    BY <1>4 DEF StartWorker, Heartbeat, Die, Inv, TypeOK
  <2>3. events' \in 0..MaxEvents /\ elapsed' = elapsed
    BY <1>4 DEF StartWorker, Heartbeat, Die, Event, Inv, TypeOK
  <2> QED BY <1>1, <1>2, <2>1, <2>2, <2>3 DEF Inv, TypeOK, roles
<1> QED BY <1>3, <1>4

LEMMA RestartInv == ASSUME Inv, RestartApi PROVE Inv'
<1>1. task' \in [Tasks -> TaskType] /\ \A t \in Tasks : task'[t].pc = "none"
  BY NoTaskType DEF RestartApi
<1>2. StopStopsLoop'
  BY <1>1 DEF StopStopsLoop, At, Tasks
<1>3. useRedis' \in BOOLEAN /\ isRunning' \in BOOLEAN /\ consumer' \in Owners /\ memory' \in Owners
  BY DEF RestartApi, Owners, Inv, TypeOK
<1>4. events' \in 0..MaxEvents
  BY DEF RestartApi, Event, Inv, TypeOK
<1>5. uncancelled' \in BOOLEAN
  BY DEF RestartApi
<1> QED BY <1>1, <1>2, <1>3, <1>4, <1>5 DEF RestartApi, Inv, TypeOK, TaskType, registry

LEMMA NextInv == Inv /\ [Next]_vars => Inv'
<1> SUFFICES ASSUME Inv, [Next]_vars PROVE Inv'
  OBVIOUS
<1>1. CASE UNCHANGED vars
  BY <1>1 DEF vars, registry, roles, Inv, TypeOK, StopStopsLoop, At
<1> QED BY <1>1, WorldInv, LoopInv, RequestInv, ServeInv, FailsInv, RestartInv DEF Next

\* The state of the rotation is of the type its module says.
THEOREM TypeCorrect == Spec => []TypeOK
<1>1. Inv => TypeOK
  BY DEF Inv
<1> QED BY <1>1, InitInv, NextInv, PTL DEF Spec

\* stop() leaves no rotation going on, whichever starts and stops overlap, but for
\* a pass whose own stop() failed before the cancellation.
THEOREM StopStops == Spec => []StopStopsLoop
<1>1. Inv => StopStopsLoop
  BY DEF Inv
<1> QED BY <1>1, InitInv, NextInv, PTL DEF Spec
=============================================================================
