--------------------------- MODULE ListenerSetup ---------------------------
(***************************************************************************)
(* How one worker attaches its listeners (Python, setup_listeners): it     *)
(* reads the published map, loads the accounts that listen, and for each   *)
(* account whose groups changed takes a client, detaches the old handler,  *)
(* resolves the groups and attaches a new handler.  The assigner publishes *)
(* maps meanwhile, Telegram revokes sessions, clients are lost and the     *)
(* worker crashes.                                                         *)
(***************************************************************************)
EXTENDS Naturals, Sequences

CONSTANTS
  Groups,     \* target groups
  Accounts,   \* accounts with a session on this worker's node
  Maps,       \* the listener maps the assigner may publish
  NoAcc,      \* no account
  MaxEvents   \* bound on changes and faults

NoMap == [a \in Accounts |-> {}]

ASSUME SetupAssumption ==
  /\ Maps \subseteq [Accounts -> SUBSET Groups]
  /\ NoMap \notin Maps /\ NoAcc \notin Accounts
  /\ \A m \in Maps, a, b \in Accounts : a # b => m[a] \cap m[b] = {}
  /\ MaxEvents \in Nat

VARIABLES
  map,        \* Redis: listener_assignments
  listeners,  \* SQLite: accounts with role LISTENER
  sound,      \* accounts with a session file and a usable status
  revoked,    \* Telegram: accounts whose session is no longer valid
  client,     \* the client of each account in this worker: none, on or off
  attached,   \* the handlers of the connected client: the groups of each
  handler,    \* listener_handlers: none, attached to that client, or lost with one
  targetsOf,  \* listener_targets; {} stands for no entry
  resolved,   \* resolved_targets
  cache,      \* replier_accounts_cache
  setup,      \* the run of setup_listeners
  events      \* changes and faults so far

world  == <<map, listeners, sound, revoked>>
worker == <<client, attached, handler, targetsOf, resolved, cache>>
vars   == <<world, worker, setup, events>>

Idle    == [pc |-> "idle"]
Running ==
  [pc : {"next"}, plan : [Accounts -> SUBSET Groups], todo : SUBSET Accounts,
   acc : {NoAcc}, alive : {TRUE}]
    \cup
  [pc : {"resolve", "failover"}, plan : [Accounts -> SUBSET Groups], todo : SUBSET Accounts,
   acc : Accounts, alive : BOOLEAN]

TypeOK ==
  /\ map \in [Accounts -> SUBSET Groups]
  /\ listeners \subseteq Accounts /\ sound \subseteq Accounts /\ revoked \subseteq Accounts
  /\ client \in [Accounts -> {"none", "on", "off"}]
  /\ attached \in [Accounts -> Seq(SUBSET Groups)]
  /\ handler \in [Accounts -> {"none", "attached", "lost"}]
  /\ targetsOf \in [Accounts -> SUBSET Groups]
  /\ resolved \in [Accounts -> SUBSET Groups]
  /\ cache \subseteq Accounts
  /\ setup \in Running \cup {Idle}
  /\ events \in 0..MaxEvents

Owners(m) == {a \in Accounts : m[a] # {}}

\* What a worker knows when it starts.
Fresh ==
  [client |-> [a \in Accounts |-> "none"], attached |-> [a \in Accounts |-> <<>>],
   handler |-> [a \in Accounts |-> "none"], groups |-> NoMap, cache |-> {}]

Init ==
  /\ map \in Maps \cup {NoMap} /\ listeners = Owners(map)
  /\ sound = Accounts /\ revoked = {}
  /\ client = Fresh.client /\ attached = Fresh.attached /\ handler = Fresh.handler
  /\ targetsOf = Fresh.groups /\ resolved = Fresh.groups /\ cache = Fresh.cache
  /\ setup = Idle /\ events = 0

-----------------------------------------------------------------------------
Event == events < MaxEvents /\ events' = events + 1

\* A rebalance chooses among the accounts that look sound.
Assigns(m) ==
  /\ m \in Maps /\ Owners(m) \subseteq sound
  /\ map' = m /\ listeners' = Owners(m)

\* The run works from the map and the accounts it has read; without an account
\* that listens it ends at once, and the repliers are not loaded either.
Enter(m, L) ==
  setup' = IF L \cap sound = {} THEN Idle
           ELSE [pc |-> "next", plan |-> m, todo |-> Owners(m) \cap L \cap sound,
                 acc |-> NoAcc, alive |-> TRUE]

\* A run starts.  A map that is missing is assigned first, if it can be.
Begin ==
  /\ setup = Idle
  /\ \/ map # NoMap /\ Enter(map, listeners) /\ UNCHANGED <<map, listeners>>
     \/ \E m \in Maps : map = NoMap /\ Assigns(m) /\ Enter(m, Owners(m))
  /\ UNCHANGED <<sound, revoked, worker, events>>

At(step) == setup.pc = step

GoTo(step, a) == setup' = [setup EXCEPT !.pc = step, !.acc = a, !.alive = TRUE,
                                        !.todo = @ \ {a}]

\* Mutant: an account that listens to its groups already is set up again
\* only when it has more of them.
SameOrFewer(a) == setup.plan[a] \subseteq targetsOf[a]

\* Mutant: an account is set up once.
SetUpBefore(a) == targetsOf[a] # {}

\* An account that listens to exactly its groups is skipped.
Same(a) == targetsOf[a] = setup.plan[a]

Skip(a) ==
  /\ At("next") /\ a \in setup.todo /\ Same(a)
  /\ setup' = [setup EXCEPT !.todo = @ \ {a}]
  /\ UNCHANGED <<world, worker, events>>

\* Mutant: the old handler is forgotten, not removed.
ForgetHandler(a) ==
  /\ attached' = [attached EXCEPT ![a] = IF client[a] = "on" THEN @ ELSE <<>>]
  /\ handler' = [handler EXCEPT ![a] = "none"]

\* The handler the worker remembers is removed from the client, which is the
\* one it is attached to, unless that one was lost.
Detach(a) ==
  /\ attached' = [attached EXCEPT ![a] =
                    CASE client[a] # "on" -> <<>>
                      [] handler[a] = "attached" -> SubSeq(@, 1, Len(@) - 1)
                      [] OTHER -> @]
  /\ handler' = [handler EXCEPT ![a] = "none"]

\* Mutant: the entities of groups that are no longer assigned stay.
KeepResolved(a) == resolved' = resolved

\* The entities of groups that are no longer assigned are forgotten.
Prune(a) == resolved' = [resolved EXCEPT ![a] = @ \cap setup.plan[a]]

\* There is a client: the one that is connected or a new one.  A connected
\* client of a revoked session may still call itself authorized.
Connect(a) ==
  /\ At("next") /\ a \in setup.todo /\ ~Same(a)
  /\ client[a] = "on" \/ a \notin revoked
  /\ Detach(a) /\ Prune(a)
  /\ client' = [client EXCEPT ![a] = "on"]
  /\ GoTo("resolve", a)
  /\ UNCHANGED <<world, targetsOf, cache, events>>

\* There is none, or it is not authorized: a new client of a revoked session
\* renames the session file, a connected one does not.
NoClient(a) ==
  /\ At("next") /\ a \in setup.todo /\ ~Same(a)
  /\ \/ a \in revoked /\ client[a] = "on" /\ UNCHANGED <<sound, events>>
     \/ a \in revoked /\ client[a] # "on" /\ sound' = sound \ {a} /\ UNCHANGED events
     \/ a \notin revoked /\ client[a] # "on" /\ sound' = sound /\ Event
  /\ GoTo("failover", a)
  /\ UNCHANGED <<map, listeners, revoked, worker>>

\* The session turns out to be revoked: everything about it is dropped.
SessionError(a) ==
  /\ At("next") /\ a \in setup.todo /\ ~Same(a)
  /\ a \in revoked /\ client[a] = "on"
  /\ client' = [client EXCEPT ![a] = "none"]
  /\ attached' = [attached EXCEPT ![a] = <<>>]
  /\ handler' = [handler EXCEPT ![a] = "none"]
  /\ targetsOf' = [targetsOf EXCEPT ![a] = {}]
  /\ sound' = sound \ {a}
  /\ GoTo("failover", a)
  /\ UNCHANGED <<map, listeners, revoked, resolved, cache, events>>

\* Any other error leaves the account as it is until the next run.
OtherError(a) ==
  /\ At("next") /\ a \in setup.todo /\ ~Same(a) /\ client[a] = "on" /\ Event
  /\ setup' = [setup EXCEPT !.todo = @ \ {a}]
  /\ UNCHANGED <<world, worker>>

\* The groups are resolved as far as Telegram allows, and a handler for those is
\* attached to the client taken before.  The target set counts as listened to
\* even if some or all of it was not resolved.
Resolve ==
  /\ At("resolve")
  /\ LET a == setup.acc
     IN \E S \in SUBSET (setup.plan[a] \ resolved[a]) :
          LET chats == resolved[a] \cup S
          IN /\ a \in revoked => S = {}
             /\ resolved' = [resolved EXCEPT ![a] = chats]
             /\ targetsOf' = [targetsOf EXCEPT ![a] = setup.plan[a]]
             /\ attached' = [attached EXCEPT ![a] =
                               IF chats # {} /\ setup.alive THEN Append(@, chats) ELSE @]
             /\ handler' = [handler EXCEPT ![a] =
                              IF chats = {} THEN @ ELSE IF setup.alive THEN "attached" ELSE "lost"]
  /\ GoTo("next", NoAcc)
  /\ UNCHANGED <<world, client, cache, events>>

\* handle_listener_failure: a forced rebalance, when there are accounts for it.
\* The run goes on with the map and the accounts it has.
Failover ==
  /\ At("failover")
  /\ \/ \E m \in Maps : Assigns(m)
     \/ UNCHANGED <<map, listeners>>
  /\ GoTo("next", NoAcc)
  /\ UNCHANGED <<sound, revoked, worker, events>>

\* Mutant: the accounts that reply are loaded once.
LoadOnce ==
  /\ At("next") /\ setup.todo = {}
  /\ cache' = IF cache = {} THEN sound \ listeners ELSE cache
  /\ setup' = Idle
  /\ UNCHANGED <<world, client, attached, handler, targetsOf, resolved, events>>

\* In the end the accounts that reply are loaded; none is ever dropped.
LoadRepliers ==
  /\ At("next") /\ setup.todo = {}
  /\ cache' = cache \cup (sound \ listeners)
  /\ setup' = Idle
  /\ UNCHANGED <<world, client, attached, handler, targetsOf, resolved, events>>

-----------------------------------------------------------------------------
\* The client of an account is lost, with what is attached to it.
Lose(a) ==
  /\ client' = [client EXCEPT ![a] = "off"]
  /\ attached' = [attached EXCEPT ![a] = <<>>]
  /\ handler' = [handler EXCEPT ![a] = IF @ = "attached" THEN "lost" ELSE @]
  /\ setup' = IF At("resolve") /\ setup.acc = a THEN [setup EXCEPT !.alive = FALSE] ELSE setup

Drop(a) ==
  /\ client[a] = "on" /\ Event /\ Lose(a)
  /\ UNCHANGED <<world, targetsOf, resolved, cache>>

\* The loop of a client learns that its session is revoked.
LoopEnds(a) ==
  /\ client[a] = "on" /\ a \in revoked /\ Lose(a)
  /\ sound' = sound \ {a}
  /\ UNCHANGED <<map, listeners, revoked, targetsOf, resolved, cache, events>>

Revoke(a) ==
  /\ a \notin revoked /\ Event
  /\ revoked' = revoked \cup {a}
  /\ UNCHANGED <<map, listeners, sound, worker, setup>>

\* The assigner publishes another map, with the roles or without.
Publish ==
  /\ Event
  /\ \E m \in Maps \cup {NoMap} : m # map /\ map' = m /\ listeners' \in {Owners(m), listeners}
  /\ UNCHANGED <<sound, revoked, worker, setup>>

Crash ==
  /\ Event
  /\ client' = Fresh.client /\ attached' = Fresh.attached /\ handler' = Fresh.handler
  /\ targetsOf' = Fresh.groups /\ resolved' = Fresh.groups /\ cache' = Fresh.cache
  /\ setup' = Idle
  /\ UNCHANGED world

SetUp(a) == Skip(a) \/ Connect(a) \/ NoClient(a) \/ SessionError(a) \/ OtherError(a)
Run == (\E a \in Accounts : SetUp(a)) \/ Resolve \/ Failover \/ LoadRepliers

Next ==
  \/ Begin \/ Run \/ Publish \/ Crash
  \/ \E a \in Accounts : Drop(a) \/ LoopEnds(a) \/ Revoke(a)

Spec == Init /\ [][Next]_vars

\* A run that started goes on, and the next one starts whenever the consumer
\* loop of the worker finds the queue empty.
Fairness == WF_vars(Begin) /\ WF_vars(Run)

FairSpec == Spec /\ Fairness

-----------------------------------------------------------------------------
\* The groups account a hears.
Hears(a) ==
  IF client[a] = "on" /\ a \notin revoked
  THEN UNION {attached[a][i] : i \in 1..Len(attached[a])} ELSE {}

\* The accounts the worker should listen with.
Listening == {a \in Owners(map) \cap listeners \cap sound : a \notin revoked}

\* No client ever carries two handlers, and a handler the worker believes to be
\* attached is the one that is, with the groups it has resolved.
OneHandler ==
  \A a \in Accounts :
    /\ Len(attached[a]) <= 1
    /\ handler[a] = "attached" <=> attached[a] # <<>>
    /\ handler[a] = "attached" => client[a] = "on" /\ attached[a][1] = resolved[a]

\* No account hears a group it has not been told to: the groups of a handler
\* are those of the last target set.
HearsItsTargets ==
  \A a \in Accounts : Hears(a) \subseteq targetsOf[a]

\* In the end every group of the map is heard by its owner, unless the owner
\* could not resolve it or lost its client when it was set up for the groups.
EveryGroupHeard ==
  <>[](\A a \in Listening : \A g \in map[a] :
         g \in Hears(a) \/ (targetsOf[a] = map[a] /\ (g \notin resolved[a] \/ handler[a] = "lost")))

\* In the end the accounts that are in the map do not hear each other's groups.
\* An account that was taken out of the map may: no run visits it again, and it
\* keeps its handler, although "only 1 account listens to each group at any time"
\* (worker.py:7).
OwnersDisjoint ==
  <>[](\A a, b \in Listening : a # b => Hears(a) \cap Hears(b) = {})

\* In the end every account that replies is known, unless no account listens or
\* one that listens is revoked and not yet found out: a failover does not exclude
\* the account that failed, so the roles may then change for ever.
RepliersKnown ==
  <>[](listeners \cap sound # {} /\ map # NoMap /\ listeners \cap sound \cap revoked = {}
         => sound \ listeners \subseteq cache)
=============================================================================
