-------------------------- MODULE ListenerAssigner --------------------------
(***************************************************************************)
(* Who listens where (Python): the targets in SQLite, their copy in Redis, *)
(* the role column of the accounts and the published listener map.  Tasks  *)
(* of the API process run sync_state_to_redis and forced rebalances,       *)
(* workers check the map when they start and force a rebalance when a      *)
(* listener fails.  Every await is a place where another call may run; a   *)
(* call that reads the accounts and writes the roles does not await in     *)
(* between, so only another process can.                                   *)
(***************************************************************************)
EXTENDS Naturals, FiniteSets

CONSTANTS
  Tasks,       \* concurrent tasks of the API process
  Loop,        \* the one that is the rotation loop
  Workers,     \* worker processes
  Groups,      \* target groups, numbered in the order of the target list
  Accounts,    \* accounts, numbered in the order of their ids
  MaxGroups,   \* MAX_GROUPS_PER_LISTENER
  Faults,      \* whether calls fail and processes restart
  MaxEvents    \* bound on requests, checks, forced rebalances, changes and faults

Callers == Tasks \cup Workers

ASSUME ListenerAssumption ==
  /\ Loop \in Tasks /\ Tasks \cap Workers = {}
  /\ Groups \subseteq Nat /\ IsFiniteSet(Groups)
  /\ Accounts \subseteq Nat /\ IsFiniteSet(Accounts)
  /\ MaxGroups \in Nat \ {0}
  /\ Faults \in BOOLEAN /\ MaxEvents \in Nat

VARIABLES
  targets,    \* SQLite: the active targets
  active,     \* Redis: active_targets
  healthy,    \* accounts with a session and a status that allows their use
  listeners,  \* SQLite: accounts with role LISTENER
  map,        \* Redis: listener_assignments
  flushed,    \* whether that key is absent, with map empty
  sent,       \* memory of the API process: the active targets it sent last
  own,        \* memory of each worker: the map it published last
  hash,       \* _last_targets_hash of the API process: at most one set of targets
  call,       \* the running call of each caller
  clash,      \* history: the map may lag behind, see Publish and the faults
  calm,       \* history: nothing has changed or failed so far
  events      \* requests, checks, forced rebalances, changes and faults so far

world   == <<targets, healthy>>
budget  == <<calm, events>>
redis   == <<map, flushed, own>>
vars    == <<world, active, sent, listeners, redis, hash, call, clash, budget>>

NoMap == [a \in Accounts |-> {}]
Idle  == [pc |-> "idle"]
Running ==
  [pc : {"read", "active", "decide", "existing", "roles", "publish", "repliers"},
   kind : {"sync", "startup", "force", "check"}, targets : SUBSET Groups,
   healthy : SUBSET Accounts, plan : [Accounts -> SUBSET Groups]]

TypeOK ==
  /\ targets \subseteq Groups /\ active \subseteq Groups
  /\ healthy \subseteq Accounts /\ listeners \subseteq Accounts
  /\ map \in [Accounts -> SUBSET Groups] /\ flushed \in BOOLEAN
  /\ sent \subseteq Groups /\ own \in [Workers -> [Accounts -> SUBSET Groups]]
  /\ hash \in {{}} \cup {{T} : T \in SUBSET Groups}
  /\ call \in [Callers -> Running \cup {Idle}]
  /\ clash \in BOOLEAN
  /\ calm \in BOOLEAN /\ events \in 0..MaxEvents

Begin(kind, pc) ==
  [pc |-> pc, kind |-> kind, targets |-> {}, healthy |-> {}, plan |-> NoMap]

\* The API process starts with what an earlier one left in SQLite.
Init ==
  /\ targets \in SUBSET Groups /\ active = {} /\ sent = {}
  /\ map = NoMap /\ flushed = TRUE /\ own = [w \in Workers |-> NoMap]
  /\ healthy \in SUBSET Accounts /\ listeners \in SUBSET Accounts
  /\ hash = {}
  /\ call = [c \in Callers |-> IF c = Loop THEN Begin("startup", "read") ELSE Idle]
  /\ clash = FALSE
  /\ calm = TRUE /\ events = 0

-----------------------------------------------------------------------------
(* The assignment as a function of targets T, healthy accounts H and       *)
(* accounts L that listen already.                                         *)

Owners(m)  == {a \in Accounts : m[a] # {}}
Covered(m) == UNION {m[a] : a \in Accounts}
Least(x, y) == IF x < y THEN x ELSE y

\* ceil(n / MaxGroups)
Needed(n)   == (n + MaxGroups - 1) \div MaxGroups
Count(T, H) == Least(Needed(Cardinality(T)), Cardinality(H))

\* Mutant: the older accounts first, whatever their role.
BeforeById(L, a, b) == a < b

\* Accounts that listen already come first, then the older ones.
Before(L, a, b) ==
  \/ a \in L /\ b \notin L
  \/ (a \in L <=> b \in L) /\ a < b

Position(H, L, a) == Cardinality({b \in H : Before(L, b, a)})
Rank(g, T)        == Cardinality({h \in T : h < g})

\* Mutant: dealt to as many listeners as are needed, be they there or not.
SharesByNeed(T, H, L) ==
  [a \in Accounts |->
     {g \in T : a \in H /\ Rank(g, T) % Needed(Cardinality(T)) = Position(H, L, a)}]

\* Round robin: the n-th group goes to the (n modulo Count)-th account.
Shares(T, H, L) ==
  [a \in Accounts |->
     {g \in T : a \in H /\ Rank(g, T) % Count(T, H) = Position(H, L, a)}]

\* _is_assignment_valid
Valid(m, k) == Owners(m) \subseteq k.healthy /\ Covered(m) = k.targets

-----------------------------------------------------------------------------
At(c, step)   == call[c].pc = step
Becomes(c, k) == call' = [call EXCEPT ![c] = k]

\* No other task of the process runs between its account read and its commit.
MayRun(c) == c \in Tasks => \A t \in Tasks \ {c} : ~At(t, "roles")

\* Requests and the rotation loop run once the startup is done.
Up == \A t \in Tasks : ~At(t, "idle") => call[t].kind # "startup"

Call   == events < MaxEvents /\ events' = events + 1 /\ calm' = calm
Change == events < MaxEvents /\ events' = events + 1 /\ calm' = FALSE
Fault  == Faults /\ Change

\* A settings or message request, or one pass of the rotation loop, begins by
\* reading the targets.
StartSync(t) ==
  /\ t \in Tasks /\ Up /\ At(t, "idle")
  /\ Becomes(t, [Begin("sync", "active") EXCEPT !.targets = targets])
  /\ IF t = Loop THEN UNCHANGED budget ELSE Call
  /\ UNCHANGED <<world, active, sent, listeners, redis, hash, clash>>

\* add_target or delete_target commits and then synchronises.
ChangeTargets(t) ==
  /\ t \in Tasks \ {Loop} /\ Up /\ At(t, "idle") /\ Change
  /\ \E g \in Groups : targets' = IF g \in targets THEN targets \ {g} ELSE targets \cup {g}
  /\ Becomes(t, Begin("sync", "read"))
  /\ UNCHANGED <<healthy, active, sent, listeners, redis, hash, clash>>

\* A call without targets begins by reading those in Redis; a read that fails
\* returns the copy in memory, which a worker does not have.
ReadActive(c, kind) ==
  \/ /\ Becomes(c, [Begin(kind, "decide") EXCEPT !.targets = active])
     /\ Call /\ UNCHANGED clash
  \/ /\ Becomes(c, [Begin(kind, "decide") EXCEPT !.targets = IF c \in Tasks THEN sent ELSE {}])
     /\ clash' = TRUE /\ Fault

\* A forced rebalance: start, rebalance, recovery, or a worker's failover.
StartForce(c) ==
  /\ c \in Tasks => Up
  /\ At(c, "idle") /\ ReadActive(c, "force")
  /\ UNCHANGED <<world, active, sent, listeners, redis, hash>>

\* A worker starts and looks whether the map is usable.
StartCheck(w) ==
  /\ w \in Workers /\ At(w, "idle") /\ ReadActive(w, "check")
  /\ UNCHANGED <<world, active, sent, listeners, redis, hash>>

ReadTargets(c) ==
  /\ At(c, "read")
  /\ Becomes(c, [call[c] EXCEPT !.pc = "active", !.targets = targets])
  /\ UNCHANGED <<world, active, sent, listeners, redis, hash, clash, budget>>

\* Mutant: targets that were removed are not noticed.
SameOrFewer(c) == call[c].kind = "sync" /\ \E T \in hash : call[c].targets \subseteq T

\* A synchronisation whose targets are those assigned last ends.
Same(c) == call[c].kind = "sync" /\ hash = {call[c].targets}

\* Mutant: the list is written only when it differs from the last assigned.
SetActiveOnChange(c) ==
  /\ At(c, "active")
  /\ \/ active' = (IF Same(c) THEN active ELSE call[c].targets) /\ UNCHANGED budget
     \/ active' = active /\ Fault
  /\ sent' = call[c].targets
  /\ Becomes(c, [call[c] EXCEPT !.pc = "decide"])
  /\ UNCHANGED <<world, listeners, redis, hash, clash>>

SetActive(c) ==
  /\ At(c, "active")
  /\ \/ active' = call[c].targets /\ UNCHANGED budget
     \/ active' = active /\ Fault  \* only the memory of the process has it
  /\ sent' = call[c].targets
  /\ Becomes(c, [call[c] EXCEPT !.pc = "decide"])
  /\ UNCHANGED <<world, listeners, redis, hash, clash>>

Unchanged(c) ==
  /\ At(c, "decide") /\ Same(c)
  /\ Becomes(c, Idle)
  /\ UNCHANGED <<world, active, sent, listeners, redis, hash, clash, budget>>

\* A sync goes on with the repliers and the hash, the recovery pass of the
\* rotation loop with its sync; another call is over.
AfterMap(c) ==
  IF call[c].kind = "sync" THEN [Begin("sync", "repliers") EXCEPT !.targets = call[c].targets]
  ELSE IF c = Loop /\ call[c].kind = "force" THEN Begin("sync", "read")
  ELSE Idle

\* Without targets the empty map is published; without accounts nothing is,
\* and the hash is set all the same.
Pick(c) ==
  /\ At(c, "decide") /\ ~Same(c)
  /\ LET k    == call[c]
         plan == Shares(k.targets, healthy, listeners)
     IN \/ /\ k.targets = {}
           /\ Becomes(c, [k EXCEPT !.pc = "publish"]) /\ UNCHANGED clash
        \/ /\ k.targets # {} /\ healthy = {}
           /\ Becomes(c, AfterMap(c)) /\ clash' = TRUE
        \/ /\ k.targets # {} /\ healthy # {} /\ k.kind = "check"
           /\ Becomes(c, [k EXCEPT !.pc = "existing", !.plan = plan, !.healthy = healthy])
           /\ UNCHANGED clash
        \/ /\ k.targets # {} /\ healthy # {} /\ k.kind # "check"
           /\ Becomes(c, [k EXCEPT !.pc = "roles", !.plan = plan]) /\ UNCHANGED clash
  /\ UNCHANGED <<world, active, sent, listeners, redis, hash, budget>>

\* The published map as a worker reads it: its own copy when the key is absent
\* or the read fails.
Reads(w, m) ==
  \/ m = (IF flushed THEN own[w] ELSE map) /\ UNCHANGED budget
  \/ m = own[w] /\ Fault

\* A worker that finds a valid map leaves it alone.
Existing(w) ==
  /\ At(w, "existing")
  /\ \E m \in {map, own[w]} :
       /\ Reads(w, m)
       /\ Becomes(w, IF m # NoMap /\ Valid(m, call[w]) THEN Idle
                     ELSE [call[w] EXCEPT !.pc = "roles", !.kind = "force", !.healthy = {}])
  /\ UNCHANGED <<world, active, sent, listeners, redis, hash, clash>>

\* Mutant: the roles of the other accounts are not reset.
AddRoles(c) ==
  /\ At(c, "roles")
  /\ \/ listeners' = listeners \cup Owners(call[c].plan) /\ UNCHANGED budget
     \/ listeners' = listeners /\ Fault
  /\ Becomes(c, [call[c] EXCEPT !.pc = "publish"])
  /\ UNCHANGED <<world, active, sent, redis, hash, clash>>

\* All roles are written in one transaction; an error is logged and the call
\* goes on to publish its map.
CommitRoles(c) ==
  /\ At(c, "roles")
  /\ \/ listeners' = Owners(call[c].plan) /\ UNCHANGED budget
     \/ listeners' = listeners /\ Fault
  /\ Becomes(c, [call[c] EXCEPT !.pc = "publish"])
  /\ UNCHANGED <<world, active, sent, redis, hash, clash>>

\* Another call will set, or has set, a hash this map does not belong to: the
\* next sync may take the map for the one of its targets.
Overtakes(c) ==
  \/ \E t \in Tasks \ {c} : At(t, "repliers") /\ call[t].targets # call[c].targets
  \/ call[c].kind # "sync" /\ hash \notin {{}, {call[c].targets}}

Publish(c) ==
  /\ At(c, "publish")
  /\ \/ /\ map' = call[c].plan /\ flushed' = FALSE
        /\ clash' = (clash \/ Overtakes(c)) /\ UNCHANGED budget
     \/ /\ UNCHANGED <<map, flushed>>  \* only the memory of the process has it
        /\ clash' = TRUE /\ Fault
  /\ own' = IF c \in Workers THEN [own EXCEPT ![c] = call[c].plan] ELSE own
  /\ Becomes(c, AfterMap(c))
  /\ UNCHANGED <<world, active, sent, listeners, hash>>

\* The repliers are assigned (ReplierAssigner) and the hash is remembered.
SetHash(c) ==
  /\ At(c, "repliers")
  /\ hash' = {call[c].targets}
  /\ Becomes(c, Idle)
  /\ UNCHANGED <<world, active, sent, listeners, redis, clash, budget>>

-----------------------------------------------------------------------------
\* set_account_role changes one role and publishes nothing.
SetRole(a) ==
  /\ Change
  /\ listeners' = IF a \in listeners THEN listeners \ {a} ELSE listeners \cup {a}
  /\ UNCHANGED <<world, active, sent, redis, hash, call, clash>>

ChangeHealth(a) ==
  /\ Change
  /\ healthy' = IF a \in healthy THEN healthy \ {a} ELSE healthy \cup {a}
  /\ UNCHANGED <<targets, active, sent, listeners, redis, hash, call, clash>>

\* A database error ends a sync, a crash a worker with its memory.
Abort(c) ==
  /\ ~At(c, "idle") /\ call[c].kind # "startup" /\ Fault
  /\ Becomes(c, Idle)
  /\ clash' = (clash \/ At(c, "repliers"))
  /\ own' = IF c \in Workers THEN [own EXCEPT ![c] = NoMap] ELSE own
  /\ UNCHANGED <<world, active, sent, listeners, map, flushed, hash>>

\* The API process starts again, flushes Redis and assigns anew.
Restart ==
  /\ Fault
  /\ active' = {} /\ sent' = {} /\ map' = NoMap /\ flushed' = TRUE /\ hash' = {}
  /\ clash' = FALSE
  /\ call' = [c \in Callers |-> IF c \in Workers THEN call[c]
                                ELSE IF c = Loop THEN Begin("startup", "read") ELSE Idle]
  /\ UNCHANGED <<world, listeners, own>>

Step(c) ==
  /\ MayRun(c)
  /\ \/ ReadTargets(c) \/ SetActive(c) \/ Unchanged(c) \/ Pick(c)
     \/ Existing(c) \/ CommitRoles(c) \/ Publish(c) \/ SetHash(c)

Start(c) ==
  /\ MayRun(c)
  /\ StartSync(c) \/ ChangeTargets(c) \/ StartForce(c) \/ StartCheck(c)

Next ==
  \/ \E c \in Callers : Step(c) \/ Start(c) \/ Abort(c)
  \/ \E a \in Accounts : SetRole(a) \/ ChangeHealth(a)
  \/ Restart

Spec == Init /\ [][Next]_vars

\* Every event loop serves its tasks in turn, and the rotation loop
\* synchronises every second.  Strong fairness, because the gap between the
\* account read and the commit of another task is no place where tasks wait.
Fairness ==
  /\ \A c \in Callers : SF_vars(Step(c))
  /\ SF_vars(MayRun(Loop) /\ StartSync(Loop))

FairSpec == Spec /\ Fairness

-----------------------------------------------------------------------------
\* Shares are fair: a plan gives each target of its call to one listener, no
\* listener has two groups more than another, and none has more than
\* MaxGroups while a healthy account has none.
FairShares ==
  [][\A c \in Callers :
       At(c, "decide") /\ call'[c].pc \in {"existing", "roles"} =>
         LET plan == call'[c].plan
         IN /\ \A g \in call[c].targets : Cardinality({a \in Accounts : g \in plan[a]}) = 1
            /\ \A a, b \in Owners(plan) : Cardinality(plan[a]) <= Cardinality(plan[b]) + 1
            /\ \/ Owners(plan) = healthy
               \/ \A a \in Accounts : Cardinality(plan[a]) <= MaxGroups]_vars

\* Listeners are sticky: a plan drops a healthy listener only when it needs
\* fewer of them, and never for an account that does not listen yet.
ListenersSticky ==
  [][\A c \in Callers :
       At(c, "decide") /\ call'[c].pc \in {"existing", "roles"} =>
         LET before == listeners \cap healthy
             after  == Owners(call'[c].plan)
         IN after \subseteq before \/ before \subseteq after]_vars

\* The two stores agree however calls overlap: as long as nothing changes and
\* nothing fails, the owners of the map are the accounts with role LISTENER.
RolesFitMap == calm => map = NoMap \/ Owners(map) = listeners

\* The targets in Redis follow those in SQLite, whatever order stale
\* synchronisations write in.
TargetsArrive == <>[](active = targets)

\* So does the map, unless a call overtook another one or failed.
MapFollows == <>[](Covered(map) = targets \/ clash)
=============================================================================
