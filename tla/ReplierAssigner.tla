-------------------------- MODULE ReplierAssigner --------------------------
(***************************************************************************)
(* The assignment of replier accounts to target groups (Python,            *)
(* auto_assign_repliers).  A call works from the targets, the accounts and *)
(* the sticky SQLite rows it read at its start, deletes and saves rows one *)
(* await at a time, and publishes two Redis maps for one worker.  The API  *)
(* process calls it for one registered worker after the other, a starting  *)
(* worker for itself, concurrently.                                        *)
(***************************************************************************)
EXTENDS Naturals, FiniteSets

CONSTANTS
  Workers,     \* worker processes
  Callers,     \* processes that run auto_assign_repliers
  Api,         \* the one that serves the API
  AssignsFor,  \* the workers each caller assigns for
  Groups,      \* target groups, numbered in the order of the target list
  Sessions,    \* accounts, numbered in the order of their ids
  MaxChanges   \* bound on changes of the world and on failed calls

NoAcc  == 0
NoPair == [primary |-> NoAcc, backup |-> NoAcc]
Pairs  == [primary : Sessions, backup : Sessions] \cup {NoPair}
Maps   == [Groups -> Pairs]
NoMap  == [g \in Groups |-> NoPair]

ASSUME AssignerAssumption ==
  /\ Api \in Callers
  /\ AssignsFor \in [Callers -> (SUBSET Workers) \ {{}}]
  /\ Groups \subseteq Nat
  /\ Sessions \subseteq Nat \ {NoAcc}
  /\ MaxChanges \in Nat

VARIABLES
  targets,   \* the active targets
  leaving,   \* targets that delete_target is about to remove
  repliers,  \* healthy accounts with role REPLIER
  rows,      \* SQLite: group_assignments
  pairs,     \* Redis: group_pair_assignments, by worker
  lists,     \* Redis: replier_assignments, by worker, as the map it inverts
  call,      \* the running call of each caller
  changes    \* changes of the world and failed calls so far

world == <<targets, leaving, repliers>>
vars  == <<world, rows, pairs, lists, call, changes>>

Idle    == [pc |-> "idle"]
Running ==
  [pc : {"next", "rows", "clean", "retain", "fill", "lists", "pairs"},
   workers : SUBSET Workers, worker : Workers, targets : SUBSET Groups,
   repliers : SUBSET Sessions, rows : Maps, todo : SUBSET Groups,
   map : Maps, used : SUBSET Sessions]

TypeOK ==
  /\ targets \subseteq Groups /\ leaving \subseteq targets
  /\ repliers \subseteq Sessions
  /\ rows \in Maps
  /\ pairs \in [Workers -> Maps]
  /\ lists \in [Workers -> Maps]
  /\ call \in [Callers -> Running \cup {Idle}]
  /\ changes \in 0..MaxChanges

Init ==
  /\ targets \in SUBSET Groups /\ leaving = {} /\ repliers \in SUBSET Sessions
  /\ rows = NoMap
  /\ pairs = [w \in Workers |-> NoMap] /\ lists = [w \in Workers |-> NoMap]
  /\ call = [c \in Callers |-> Idle]
  /\ changes = 0

-----------------------------------------------------------------------------
IsFirst(x, S)  == x \in S /\ \A y \in S : x <= y
InUse(q)       == {q.primary, q.backup} \ {NoAcc}
Complete(q)    == q # NoPair /\ q.primary # q.backup
At(c, step)    == call[c].pc = step
Becomes(c, k)  == call' = [call EXCEPT ![c] = k]

\* The next loop of a call: over S, or the one after it when S is empty.
GoOn(k, step, S, next, T) ==
  IF S # {} THEN [k EXCEPT !.pc = step, !.todo = S] ELSE [k EXCEPT !.pc = next, !.todo = T]

\* The caller reads the targets, once for all its workers.
Start(c) ==
  /\ At(c, "idle")
  /\ \E w \in AssignsFor[c] :
       Becomes(c, [pc |-> "next", workers |-> AssignsFor[c], worker |-> w,
                   targets |-> targets, repliers |-> {}, rows |-> NoMap,
                   todo |-> {}, map |-> NoMap, used |-> {}])
  /\ UNCHANGED <<world, rows, pairs, lists, changes>>

\* After one worker comes the next, or the end.
Rest(k) == IF k.workers = {} THEN Idle ELSE [k EXCEPT !.pc = "next"]

\* Without targets two empty maps are published for the worker; without
\* accounts nothing is, and what was published stays.
ReadAccounts(c) ==
  /\ At(c, "next")
  /\ \E w \in call[c].workers :
       LET k == [call[c] EXCEPT !.workers = @ \ {w}, !.worker = w, !.repliers = repliers,
                                !.map = NoMap, !.used = {}]
       IN \/ k.targets = {} /\ Becomes(c, [k EXCEPT !.pc = "lists"])
          \/ k.targets # {} /\ repliers = {} /\ Becomes(c, Rest(k))
          \/ k.targets # {} /\ repliers # {} /\ Becomes(c, [k EXCEPT !.pc = "rows"])
  /\ UNCHANGED <<world, rows, pairs, lists, changes>>

ReadRows(c) ==
  /\ At(c, "rows")
  /\ LET k    == [call[c] EXCEPT !.rows = rows]
         gone == {g \in Groups \ k.targets : rows[g] # NoPair}
     IN Becomes(c, GoOn(k, "clean", gone, "retain", k.targets))
  /\ UNCHANGED <<world, rows, pairs, lists, changes>>

\* The row of a group that is no target any more is deleted.
DeleteRow(c) ==
  /\ At(c, "clean")
  /\ \E g \in call[c].todo :
       /\ rows' = [rows EXCEPT ![g] = NoPair]
       /\ Becomes(c, GoOn(call[c], "clean", call[c].todo \ {g}, "retain", call[c].targets))
  /\ UNCHANGED <<world, pairs, lists, changes>>

\* Mutant: the missing account of a pair stays missing.
KeptWithGaps(q, kept) ==
  [primary |-> IF q.primary \in kept THEN q.primary ELSE NoAcc,
   backup  |-> IF q.backup \in kept THEN q.backup ELSE NoAcc]

\* Mutant: of two accounts only the first is kept.
KeptPrimary(q, kept) ==
  IF kept = {} THEN NoPair
  ELSE LET a == IF q.primary \in kept THEN q.primary ELSE q.backup
       IN [primary |-> a, backup |-> a]

\* What is left of pair q when only the accounts in kept are: one account
\* stands for both.
Kept(q, kept) ==
  IF kept = {} THEN NoPair
  ELSE [primary |-> IF q.primary \in kept THEN q.primary ELSE q.backup,
        backup  |-> IF q.backup \in kept THEN q.backup ELSE q.primary]

\* Mutant: accounts claimed by another group are retained too.
RetainClaimed(c) ==
  /\ At(c, "retain")
  /\ \E g \in call[c].todo :
       /\ IsFirst(g, call[c].todo)
       /\ LET k == call[c]
              q == k.rows[g]
              kept == InUse(q) \cap k.repliers
          IN Becomes(c, GoOn([k EXCEPT !.map = [@ EXCEPT ![g] = Kept(q, kept)],
                                       !.used = @ \cup kept],
                             "retain", k.todo \ {g}, "fill", k.targets))
  /\ UNCHANGED <<world, rows, pairs, lists, changes>>

\* Pass 1, one group: what is still healthy and unclaimed of its row is kept.
Retain(c) ==
  /\ At(c, "retain")
  /\ \E g \in call[c].todo :
       /\ IsFirst(g, call[c].todo)
       /\ LET k == call[c]
              q == k.rows[g]
              kept == (InUse(q) \cap k.repliers) \ k.used
          IN Becomes(c, GoOn([k EXCEPT !.map = [@ EXCEPT ![g] = Kept(q, kept)],
                                       !.used = @ \cup kept],
                             "retain", k.todo \ {g}, "fill", k.targets))
  /\ UNCHANGED <<world, rows, pairs, lists, changes>>

\* The backup for primary p: the first free account, or else p itself.
IsBackup(b, p, free) ==
  IF free \ {p} = {} THEN b = p ELSE IsFirst(b, free \ {p})

SaveRow(g, q) == rows' = [rows EXCEPT ![g] = q]

\* Pass 2, one group: an incomplete pair takes the first unused accounts, and
\* its row is saved; without any the group stays unassigned.
Fill(c) ==
  /\ At(c, "fill")
  /\ \E g \in call[c].todo :
       /\ IsFirst(g, call[c].todo)
       /\ LET k    == call[c]
              q    == k.map[g]
              free == k.repliers \ k.used
              After(m, used) == GoOn([k EXCEPT !.map = m, !.used = used],
                                     "fill", k.todo \ {g}, "lists", {})
          IN \/ /\ Complete(q) \/ (q = NoPair /\ free = {})
                /\ Becomes(c, After(k.map, k.used))
                /\ rows' = rows
             \/ /\ ~Complete(q)
                /\ \E p, b \in Sessions :
                     /\ IF q # NoPair THEN p = q.primary ELSE IsFirst(p, free)
                     /\ IsBackup(b, p, free)
                     /\ LET new == [primary |-> p, backup |-> b]
                        IN /\ SaveRow(g, new)
                           /\ Becomes(c, After([k.map EXCEPT ![g] = new], k.used \cup {p, b}))
  /\ UNCHANGED <<world, pairs, lists, changes>>

PublishLists(c) ==
  /\ At(c, "lists")
  /\ lists' = [lists EXCEPT ![call[c].worker] = call[c].map]
  /\ Becomes(c, [call[c] EXCEPT !.pc = "pairs"])
  /\ UNCHANGED <<world, rows, pairs, changes>>

PublishPairs(c) ==
  /\ At(c, "pairs")
  /\ pairs' = [pairs EXCEPT ![call[c].worker] = call[c].map]
  /\ Becomes(c, Rest(call[c]))
  /\ UNCHANGED <<world, rows, lists, changes>>

-----------------------------------------------------------------------------
Change == changes < MaxChanges /\ changes' = changes + 1

AddTarget(g) ==
  /\ Change /\ g \notin targets
  /\ targets' = targets \cup {g}
  /\ UNCHANGED <<leaving, repliers, rows, pairs, lists, call>>

\* delete_target drops the row and then, in a transaction of its own, the
\* target: a running call may save the row again, or still use the target.
DropRow(g) ==
  /\ Change /\ g \in targets
  /\ rows' = [rows EXCEPT ![g] = NoPair]
  /\ leaving' = leaving \cup {g}
  /\ UNCHANGED <<targets, repliers, pairs, lists, call>>

RemoveTarget(g) ==
  /\ g \in leaving
  /\ targets' = targets \ {g} /\ leaving' = leaving \ {g}
  /\ UNCHANGED <<repliers, rows, pairs, lists, call, changes>>

\* An account changes its health or its role.
ChangeRepliers(s) ==
  /\ Change
  /\ repliers' = IF s \in repliers THEN repliers \ {s} ELSE repliers \cup {s}
  /\ UNCHANGED <<targets, leaving, rows, pairs, lists, call>>

\* A database error or a crash ends the call where it is.
Abort(c) ==
  /\ ~At(c, "idle") /\ Change
  /\ Becomes(c, Idle)
  /\ UNCHANGED <<world, rows, pairs, lists>>

\* The API process starts again and deletes the published maps of all workers.
FlushState ==
  /\ Change
  /\ Becomes(Api, Idle)
  /\ pairs' = [w \in Workers |-> NoMap] /\ lists' = [w \in Workers |-> NoMap]
  /\ UNCHANGED <<world, rows>>

Step(c) ==
  \/ Start(c) \/ ReadAccounts(c) \/ ReadRows(c) \/ DeleteRow(c) \/ Retain(c) \/ Fill(c)
  \/ PublishLists(c) \/ PublishPairs(c)

Next ==
  \/ \E c \in Callers : Step(c) \/ Abort(c)
  \/ \E g \in Groups : AddTarget(g) \/ DropRow(g) \/ RemoveTarget(g)
  \/ \E s \in Sessions : ChangeRepliers(s)
  \/ FlushState

Spec == Init /\ [][Next]_vars

-----------------------------------------------------------------------------
\* No account of the map belongs to two groups.
Disjoint(map) ==
  \A g, h \in Groups : g # h => InUse(map[g]) \cap InUse(map[h]) = {}

\* STRICT POLICY inside one worker: whatever the rows hold, and whoever else
\* writes them meanwhile, a published map uses no account for two groups.
PublishedDisjoint ==
  \A w \in Workers : Disjoint(pairs[w]) /\ Disjoint(lists[w])

\* Assignments are sticky: while the rows a call has read share no account, the
\* complete pair of healthy accounts a target has there is published as it is.
StickyPairs ==
  [][\A c \in Callers, g \in Groups :
       /\ PublishPairs(c)
       /\ Disjoint(call[c].rows) /\ g \in call[c].targets
       /\ Complete(call[c].rows[g]) /\ InUse(call[c].rows[g]) \subseteq call[c].repliers
       => pairs'[call[c].worker][g] = call[c].rows[g]]_vars

\* No account idles while a group has only one: a published pair is doubled up
\* only when every account of the call is in use.
NoIdleAccount ==
  [][\A c \in Callers :
       PublishPairs(c) /\ (\E g \in call[c].targets : ~Complete(call[c].map[g]))
         => call[c].repliers \subseteq UNION {InUse(call[c].map[g]) : g \in Groups}]_vars
=============================================================================
