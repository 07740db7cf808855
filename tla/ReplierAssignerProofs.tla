----------------------- MODULE ReplierAssignerProofs -----------------------
(***************************************************************************)
(* ReplierAssigner for any number of callers, workers, groups and          *)
(* accounts, however the calls interleave and fail: a published map gives  *)
(* no account to two groups, keeps the pairs it can keep and leaves no     *)
(* account idle while a group has only one.                                *)
(***************************************************************************)
EXTENDS ReplierAssigner, TLAPS

USE AssignerAssumption

\* What a running call has built so far: disjoint pairs of used accounts.
MapOK(map, used) ==
  /\ Disjoint(map)
  /\ \A g \in Groups : InUse(map[g]) \subseteq used

CallOK(k) == k = Idle \/ (k \in Running /\ MapOK(k.map, k.used))

Inv ==
  /\ TypeOK
  /\ \A c \in Callers : CallOK(call[c])
  /\ PublishedDisjoint

-----------------------------------------------------------------------------
\* A call that moves on keeps what it has built.
LEMMA NoMapOK == NoMap \in Maps /\ Disjoint(NoMap) /\ (\A used : MapOK(NoMap, used))
  BY DEF NoMap, Maps, Pairs, Disjoint, MapOK, InUse, NoPair

LEMMA GoOnOK ==
  ASSUME NEW k \in Running, MapOK(k.map, k.used),
         NEW step \in {"clean", "retain", "fill"}, NEW next \in {"retain", "fill", "lists"},
         NEW S \in SUBSET Groups, NEW T \in SUBSET Groups
  PROVE  CallOK(GoOn(k, step, S, next, T))
<1>1. ASSUME NEW pc \in {"clean", "retain", "fill", "lists"}, NEW todo \in SUBSET Groups
      PROVE  CallOK([k EXCEPT !.pc = pc, !.todo = todo])
  <2> DEFINE n == [k EXCEPT !.pc = pc, !.todo = todo]
  <2>1. n \in Running /\ n.map = k.map /\ n.used = k.used
    BY DEF Running
  <2> QED BY <2>1 DEF CallOK
<1> QED BY <1>1 DEF GoOn

\* A pair of accounts nobody has used yet, or that the group has already, can
\* be given to group g.
LEMMA AssignOK ==
  ASSUME NEW map \in Maps, NEW used \in SUBSET Sessions, MapOK(map, used),
         NEW g \in Groups, NEW q \in Pairs,
         InUse(q) \cap used \subseteq InUse(map[g])
  PROVE  /\ [map EXCEPT ![g] = q] \in Maps
         /\ MapOK([map EXCEPT ![g] = q], used \cup InUse(q))
<1> DEFINE m == [map EXCEPT ![g] = q]
<1>1. m \in Maps /\ m[g] = q /\ \A h \in Groups \ {g} : m[h] = map[h]
  BY DEF Maps
<1>2. \A h \in Groups : InUse(m[h]) \subseteq used \cup InUse(q)
  BY <1>1 DEF MapOK
<1>3. ASSUME NEW h \in Groups \ {g} PROVE InUse(q) \cap InUse(map[h]) = {}
  <2>1. InUse(map[h]) \subseteq used /\ InUse(map[g]) \cap InUse(map[h]) = {}
    BY DEF MapOK, Disjoint
  <2> QED BY <2>1
<1>4. Disjoint(m)
  <2> SUFFICES ASSUME NEW h \in Groups, NEW i \in Groups, h # i
               PROVE  InUse(m[h]) \cap InUse(m[i]) = {}
    BY DEF Disjoint
  <2>1. CASE h = g  BY <2>1, <1>1, <1>3
  <2>2. CASE i = g  BY <2>2, <1>1, <1>3
  <2>3. CASE h # g /\ i # g  BY <2>3, <1>1 DEF MapOK, Disjoint
  <2> QED BY <2>1, <2>2, <2>3
<1> QED BY <1>1, <1>2, <1>4 DEF MapOK

\* Installing a good call keeps all calls good.
LEMMA BecomesOK ==
  ASSUME Inv, NEW c \in Callers, NEW k, CallOK(k), Becomes(c, k)
  PROVE  /\ call' \in [Callers -> Running \cup {Idle}]
         /\ \A d \in Callers : CallOK(call'[d])
<1>1. call' \in [Callers -> Running \cup {Idle}]
  BY DEF Inv, TypeOK, Becomes, CallOK
<1>2. call'[c] = k /\ \A d \in Callers \ {c} : call'[d] = call[d]
  BY DEF Inv, TypeOK, Becomes
<1> QED BY <1>1, <1>2 DEF Inv

-----------------------------------------------------------------------------
LEMMA InitInv == Init => Inv
<1> SUFFICES ASSUME Init PROVE Inv
  OBVIOUS
<1>1. TypeOK
  BY NoMapOK DEF Init, TypeOK
<1>2. PublishedDisjoint
  BY NoMapOK DEF Init, PublishedDisjoint
<1> QED BY <1>1, <1>2 DEF Init, Inv, CallOK

\* A running call, and what it has built.
LEMMA RunningCall ==
  ASSUME Inv, NEW c \in Callers, ~At(c, "idle")
  PROVE  call[c] \in Running /\ MapOK(call[c].map, call[c].used)
BY DEF Inv, At, CallOK, Idle

LEMMA StartInv == ASSUME Inv, NEW c \in Callers, Start(c) PROVE Inv'
<1> PICK w \in AssignsFor[c] :
      Becomes(c, [pc |-> "next", workers |-> AssignsFor[c], worker |-> w,
                  targets |-> targets, repliers |-> {}, rows |-> NoMap,
                  todo |-> {}, map |-> NoMap, used |-> {}])
  BY DEF Start
<1> DEFINE k == [pc |-> "next", workers |-> AssignsFor[c], worker |-> w,
                 targets |-> targets, repliers |-> {}, rows |-> NoMap,
                 todo |-> {}, map |-> NoMap, used |-> {}]
<1>1. AssignsFor[c] \in SUBSET Workers /\ targets \in SUBSET Groups
  BY DEF Inv, TypeOK
<1>2. k \in Running /\ k.map = NoMap /\ k.used = {}
  BY <1>1, NoMapOK DEF Running
<1>3. CallOK(k)
  BY <1>2, NoMapOK DEF CallOK
<1> HIDE DEF k
<1> QED BY <1>3, BecomesOK DEF Inv, TypeOK, PublishedDisjoint, world, Start, k

\* The end of a call for one worker.
LEMMA RestOK == ASSUME NEW k \in Running, MapOK(k.map, k.used) PROVE CallOK(Rest(k))
<1> DEFINE n == [k EXCEPT !.pc = "next"]
<1>1. n \in Running /\ n.map = k.map /\ n.used = k.used
  BY DEF Running
<1>2. CallOK(n)
  BY <1>1 DEF CallOK
<1> QED BY <1>2 DEF Rest, CallOK

LEMMA ReadAccountsInv == ASSUME Inv, NEW c \in Callers, ReadAccounts(c) PROVE Inv'
<1>1. call[c] \in Running
  BY RunningCall DEF ReadAccounts, At
<1> PICK w \in call[c].workers :
      LET k == [call[c] EXCEPT !.workers = @ \ {w}, !.worker = w, !.repliers = repliers,
                               !.map = NoMap, !.used = {}]
      IN \/ Becomes(c, [k EXCEPT !.pc = "lists"])
         \/ Becomes(c, Rest(k))
         \/ Becomes(c, [k EXCEPT !.pc = "rows"])
  BY DEF ReadAccounts
<1> DEFINE k == [call[c] EXCEPT !.workers = @ \ {w}, !.worker = w, !.repliers = repliers,
                                !.map = NoMap, !.used = {}]
<1>2. w \in Workers /\ repliers \in SUBSET Sessions
  BY <1>1 DEF Running, Inv, TypeOK
<1>3. k \in Running /\ k.map = NoMap /\ k.used = {}
  BY <1>1, <1>2, NoMapOK DEF Running
<1>4. MapOK(k.map, k.used)
  BY <1>3, NoMapOK
<1>5. \/ Becomes(c, [k EXCEPT !.pc = "lists"]) \/ Becomes(c, Rest(k))
      \/ Becomes(c, [k EXCEPT !.pc = "rows"])
  OBVIOUS
<1> HIDE DEF k
<1>6. ASSUME NEW step \in {"lists", "rows"} PROVE CallOK([k EXCEPT !.pc = step])
  <2> DEFINE n == [k EXCEPT !.pc = step]
  <2>1. n \in Running /\ n.map = k.map /\ n.used = k.used
    BY <1>3 DEF Running
  <2> QED BY <2>1, <1>4 DEF CallOK
<1>7. \E n : CallOK(n) /\ Becomes(c, n)
  BY <1>3, <1>4, <1>5, <1>6, RestOK
<1> QED BY <1>7, BecomesOK DEF Inv, TypeOK, PublishedDisjoint, world, ReadAccounts

LEMMA ReadRowsInv == ASSUME Inv, NEW c \in Callers, ReadRows(c) PROVE Inv'
<1>1. call[c] \in Running /\ MapOK(call[c].map, call[c].used)
  BY RunningCall DEF ReadRows, At
<1> DEFINE k == [call[c] EXCEPT !.rows = rows]
           gone == {g \in Groups \ k.targets : rows[g] # NoPair}
<1>2. k \in Running /\ k.map = call[c].map /\ k.used = call[c].used
  BY <1>1 DEF Running, Inv, TypeOK
<1>3. MapOK(k.map, k.used) /\ k.targets \in SUBSET Groups /\ gone \in SUBSET Groups
  BY <1>1, <1>2 DEF Running
<1>4. Becomes(c, GoOn(k, "clean", gone, "retain", k.targets))
  BY DEF ReadRows
<1> HIDE DEF k, gone
<1>5. CallOK(GoOn(k, "clean", gone, "retain", k.targets))
  BY <1>2, <1>3, GoOnOK
<1> QED BY <1>4, <1>5, BecomesOK DEF Inv, TypeOK, PublishedDisjoint, world, ReadRows

LEMMA DeleteRowInv == ASSUME Inv, NEW c \in Callers, DeleteRow(c) PROVE Inv'
<1>1. call[c] \in Running /\ MapOK(call[c].map, call[c].used)
  BY RunningCall DEF DeleteRow, At
<1> PICK g \in call[c].todo :
      /\ rows' = [rows EXCEPT ![g] = NoPair]
      /\ Becomes(c, GoOn(call[c], "clean", call[c].todo \ {g}, "retain", call[c].targets))
  BY DEF DeleteRow
<1>2. /\ call[c].todo \ {g} \in SUBSET Groups /\ call[c].targets \in SUBSET Groups
  BY <1>1 DEF Running
<1>3. CallOK(GoOn(call[c], "clean", call[c].todo \ {g}, "retain", call[c].targets))
  BY <1>1, <1>2, GoOnOK
<1>4. rows' \in Maps
  BY DEF Inv, TypeOK, Maps, Pairs
<1> QED BY <1>3, <1>4, BecomesOK DEF Inv, TypeOK, PublishedDisjoint, world, DeleteRow

\* Pass 1 claims accounts only once: a pair is cut down to what no group before
\* it has.
LEMMA RetainInv == ASSUME Inv, NEW c \in Callers, Retain(c) PROVE Inv'
<1> DEFINE k == call[c]
<1>1. k \in Running /\ MapOK(k.map, k.used)
  BY RunningCall DEF Retain, At
<1> PICK g \in k.todo :
      LET kept == (InUse(k.rows[g]) \cap k.repliers) \ k.used
      IN Becomes(c, GoOn([k EXCEPT !.map = [@ EXCEPT ![g] = Kept(k.rows[g], kept)],
                                   !.used = @ \cup kept],
                         "retain", k.todo \ {g}, "fill", k.targets))
  BY DEF Retain
<1> DEFINE q == k.rows[g]
           kept == (InUse(q) \cap k.repliers) \ k.used
           n == [k EXCEPT !.map = [@ EXCEPT ![g] = Kept(q, kept)], !.used = @ \cup kept]
<1>2. Becomes(c, GoOn(n, "retain", k.todo \ {g}, "fill", k.targets))
  OBVIOUS
<1> HIDE DEF k
<1>3. g \in Groups /\ q \in Pairs /\ k.map \in Maps /\ k.used \in SUBSET Sessions
  BY <1>1 DEF Running, Maps
<1>4. Kept(q, kept) \in Pairs /\ InUse(Kept(q, kept)) = kept
  <2>1. kept \subseteq InUse(q) /\ kept \subseteq Sessions
    BY <1>1 DEF Running
  <2> HIDE DEF kept, q
  <2>2. CASE kept = {}
    BY <2>2 DEF Kept, Pairs, InUse, NoPair
  <2>3. CASE kept # {}
    <3>1. q \in [primary : Sessions, backup : Sessions]
      BY <1>3, <2>1, <2>3 DEF Pairs, InUse, NoPair
    <3> QED BY <2>1, <2>3, <3>1 DEF Kept, Pairs, InUse
  <2> QED BY <2>2, <2>3
<1>5. kept \in SUBSET Sessions /\ kept \cap k.used = {}
  BY <1>1 DEF Running
<1> DEFINE m == [k.map EXCEPT ![g] = Kept(q, kept)]
<1>6. m \in Maps /\ MapOK(m, k.used \cup kept)
  <2> HIDE DEF kept, q
  <2> QED BY <1>1, <1>3, <1>4, <1>5, AssignOK
<1>7. n \in Running /\ n.map = m /\ n.used = k.used \cup kept
  <2>1. n = [k EXCEPT !.map = m, !.used = k.used \cup kept]
    BY <1>1 DEF Running
  <2> HIDE DEF m, kept, n
  <2> QED BY <2>1, <1>1, <1>5, <1>6 DEF Running
<1>8. k.todo \ {g} \in SUBSET Groups /\ k.targets \in SUBSET Groups
  BY <1>1 DEF Running
<1> HIDE DEF n, m, kept
<1>9. CallOK(GoOn(n, "retain", k.todo \ {g}, "fill", k.targets))
  BY <1>6, <1>7, <1>8, GoOnOK
<1> QED BY <1>2, <1>9, BecomesOK DEF Inv, TypeOK, PublishedDisjoint, world, Retain

\* Pass 2 adds only accounts no group has.
LEMMA FillInv == ASSUME Inv, NEW c \in Callers, Fill(c) PROVE Inv'
<1> DEFINE k == call[c]
<1>1. k \in Running /\ MapOK(k.map, k.used)
  BY RunningCall DEF Fill, At
<1> PICK g \in k.todo :
      LET q    == k.map[g]
          free == k.repliers \ k.used
          After(m, used) == GoOn([k EXCEPT !.map = m, !.used = used],
                                 "fill", k.todo \ {g}, "lists", {})
      IN \/ /\ Becomes(c, After(k.map, k.used))
            /\ rows' = rows
         \/ \E p, b \in Sessions :
              /\ IF q # NoPair THEN p = q.primary ELSE IsFirst(p, free)
              /\ IsBackup(b, p, free)
              /\ LET new == [primary |-> p, backup |-> b]
                 IN /\ SaveRow(g, new)
                    /\ Becomes(c, After([k.map EXCEPT ![g] = new], k.used \cup {p, b}))
  BY DEF Fill
<1> DEFINE q    == k.map[g]
           free == k.repliers \ k.used
           After(m, used) == GoOn([k EXCEPT !.map = m, !.used = used],
                                  "fill", k.todo \ {g}, "lists", {})
<1>2. \/ Becomes(c, After(k.map, k.used)) /\ rows' = rows
      \/ \E p, b \in Sessions :
           /\ IF q # NoPair THEN p = q.primary ELSE IsFirst(p, free)
           /\ IsBackup(b, p, free)
           /\ SaveRow(g, [primary |-> p, backup |-> b])
           /\ Becomes(c, After([k.map EXCEPT ![g] = [primary |-> p, backup |-> b]],
                               k.used \cup {p, b}))
  OBVIOUS
<1> HIDE DEF k
<1>3. g \in Groups /\ q \in Pairs /\ k.map \in Maps /\ k.used \in SUBSET Sessions
  BY <1>1 DEF Running, Maps
<1>4. ASSUME NEW m \in Maps, NEW used \in SUBSET Sessions, MapOK(m, used)
      PROVE  CallOK(After(m, used))
  <2> DEFINE n == [k EXCEPT !.map = m, !.used = used]
  <2>1. n \in Running /\ n.map = m /\ n.used = used
    BY <1>1 DEF Running
  <2>2. k.todo \ {g} \in SUBSET Groups
    BY <1>1 DEF Running
  <2> HIDE DEF n
  <2>3. CallOK(GoOn(n, "fill", k.todo \ {g}, "lists", {}))
    BY <1>4, <2>1, <2>2, GoOnOK
  <2> QED BY <2>3 DEF n
<1> HIDE DEF After
<1>5. CASE Becomes(c, After(k.map, k.used)) /\ rows' = rows
  <2>1. CallOK(After(k.map, k.used))
    BY <1>1, <1>3, <1>4
  <2> QED BY <1>5, <2>1, BecomesOK DEF Inv, TypeOK, PublishedDisjoint, world, Fill
<1>6. ASSUME NEW p \in Sessions, NEW b \in Sessions,
             IF q # NoPair THEN p = q.primary ELSE IsFirst(p, free),
             IsBackup(b, p, free),
             SaveRow(g, [primary |-> p, backup |-> b]),
             Becomes(c, After([k.map EXCEPT ![g] = [primary |-> p, backup |-> b]],
                              k.used \cup {p, b}))
      PROVE  Inv'
  <2> DEFINE new == [primary |-> p, backup |-> b]
  <2>1. new \in Pairs /\ InUse(new) = {p, b}
    BY DEF Pairs, InUse, NoAcc
  <2>2. p \in InUse(q) \/ p \notin k.used
    BY <1>3, <1>6 DEF IsFirst, InUse, Pairs, NoPair
  <2>3. b = p \/ b \notin k.used
    BY <1>6 DEF IsFirst, IsBackup
  <2>4. InUse(new) \cap k.used \subseteq InUse(k.map[g])
    BY <2>1, <2>2, <2>3
  <2> DEFINE m == [k.map EXCEPT ![g] = new]
  <2>5. m \in Maps /\ MapOK(m, k.used \cup {p, b})
    <3> HIDE DEF new
    <3> QED BY <1>1, <1>3, <2>1, <2>4, AssignOK
  <2>6. k.used \cup {p, b} \in SUBSET Sessions
    BY <1>3
  <2>7. Becomes(c, After(m, k.used \cup {p, b}))
    BY <1>6
  <2>8. rows' \in Maps
    BY <1>3, <1>6, <2>1 DEF SaveRow, Maps, Inv, TypeOK
  <2> HIDE DEF m
  <2>9. CallOK(After(m, k.used \cup {p, b}))
    BY <1>4, <2>5, <2>6
  <2> QED BY <2>7, <2>8, <2>9, BecomesOK DEF Inv, TypeOK, PublishedDisjoint, world, Fill
<1> QED BY <1>2, <1>5, <1>6

LEMMA PublishListsInv == ASSUME Inv, NEW c \in Callers, PublishLists(c) PROVE Inv'
<1> DEFINE k == call[c]
<1>1. k \in Running /\ MapOK(k.map, k.used)
  BY RunningCall DEF PublishLists, At
<1> DEFINE n == [k EXCEPT !.pc = "pairs"]
<1>2. Becomes(c, n) /\ lists' = [lists EXCEPT ![k.worker] = k.map]
  BY DEF PublishLists
<1> HIDE DEF k
<1>3. n \in Running /\ n.map = k.map /\ n.used = k.used
  BY <1>1 DEF Running
<1>4. CallOK(n)
  BY <1>1, <1>3 DEF CallOK
<1>5. k.worker \in Workers /\ k.map \in Maps /\ Disjoint(k.map)
  BY <1>1 DEF Running, MapOK
<1>6. lists' \in [Workers -> Maps] /\ \A w \in Workers : Disjoint(lists'[w])
  BY <1>2, <1>5 DEF Inv, TypeOK, PublishedDisjoint
<1> HIDE DEF n
<1> QED BY <1>2, <1>4, <1>6, BecomesOK DEF Inv, TypeOK, PublishedDisjoint, world, PublishLists

LEMMA PublishPairsInv == ASSUME Inv, NEW c \in Callers, PublishPairs(c) PROVE Inv'
<1> DEFINE k == call[c]
<1>1. k \in Running /\ MapOK(k.map, k.used)
  BY RunningCall DEF PublishPairs, At
<1>2. Becomes(c, Rest(k)) /\ pairs' = [pairs EXCEPT ![k.worker] = k.map]
  BY DEF PublishPairs
<1> HIDE DEF k
<1>3. CallOK(Rest(k))
  BY <1>1, RestOK
<1>4. k.worker \in Workers /\ k.map \in Maps /\ Disjoint(k.map)
  BY <1>1 DEF Running, MapOK
<1>5. pairs' \in [Workers -> Maps] /\ \A w \in Workers : Disjoint(pairs'[w])
  BY <1>2, <1>4 DEF Inv, TypeOK, PublishedDisjoint
<1> QED BY <1>2, <1>3, <1>5, BecomesOK DEF Inv, TypeOK, PublishedDisjoint, world, PublishPairs

-----------------------------------------------------------------------------
\* Every step keeps the invariant.
LEMMA NextInv == Inv /\ [Next]_vars => Inv'
<1> SUFFICES ASSUME Inv, [Next]_vars PROVE Inv'
  OBVIOUS
<1>1. ASSUME NEW c \in Callers, Step(c) PROVE Inv'
  BY <1>1, StartInv, ReadAccountsInv, ReadRowsInv, DeleteRowInv, RetainInv, FillInv,
     PublishListsInv, PublishPairsInv DEF Step
<1>2. ASSUME NEW c \in Callers, Abort(c) PROVE Inv'
  <2>1. CallOK(Idle)
    BY DEF CallOK
  <2> QED BY <1>2, <2>1, BecomesOK DEF Abort, Change, Inv, TypeOK, PublishedDisjoint, world
<1>3. ASSUME NEW g \in Groups, AddTarget(g) \/ DropRow(g) \/ RemoveTarget(g) PROVE Inv'
  <2>1. CASE AddTarget(g)
    BY <2>1 DEF AddTarget, Change, Inv, TypeOK, PublishedDisjoint
  <2>2. CASE DropRow(g)
    <3>1. rows' \in Maps
      BY <2>2 DEF DropRow, Inv, TypeOK, Maps, Pairs
    <3> QED BY <2>2, <3>1 DEF DropRow, Change, Inv, TypeOK, PublishedDisjoint
  <2>3. CASE RemoveTarget(g)
    BY <2>3 DEF RemoveTarget, Inv, TypeOK, PublishedDisjoint
  <2> QED BY <1>3, <2>1, <2>2, <2>3
<1>4. ASSUME NEW s \in Sessions, ChangeRepliers(s) PROVE Inv'
  BY <1>4 DEF ChangeRepliers, Change, Inv, TypeOK, PublishedDisjoint
<1>5. CASE FlushState
  <2>1. CallOK(Idle)
    BY DEF CallOK
  <2> QED BY <1>5, <2>1, NoMapOK, BecomesOK, AssignerAssumption
          DEF FlushState, Change, Inv, TypeOK, PublishedDisjoint, world
<1>6. CASE UNCHANGED vars
  BY <1>6 DEF vars, world, Inv, TypeOK, PublishedDisjoint
<1> QED BY <1>1, <1>2, <1>3, <1>4, <1>5, <1>6 DEF Next

\* The state of the assigner is of the type its module says.
THEOREM TypeCorrect == Spec => []TypeOK
<1>1. Inv => TypeOK
  BY DEF Inv
<1> QED BY <1>1, InitInv, NextInv, PTL DEF Spec

\* auto_assign_repliers keeps its STRICT POLICY inside every published map.
THEOREM StrictPolicyInMap == Spec => []PublishedDisjoint
<1>1. Inv => PublishedDisjoint
  BY DEF Inv
<1> QED BY <1>1, InitInv, NextInv, PTL DEF Spec

-----------------------------------------------------------------------------
(* What the two passes of a call have done so far.                         *)

\* The targets pass 1 has seen, and those pass 2 has seen.
Retained(k) ==
  IF k.pc = "retain" THEN k.targets \ k.todo
  ELSE IF k.pc \in {"fill", "lists", "pairs"} THEN k.targets ELSE {}
Filled(k) ==
  IF k.pc = "fill" THEN k.targets \ k.todo
  ELSE IF k.pc \in {"lists", "pairs"} THEN k.targets ELSE {}

\* Before pass 1 reaches a target it has no accounts.
Fresh(k) ==
  /\ k.pc \in {"rows", "clean"} => k.map = NoMap /\ k.used = {}
  /\ k.pc = "retain" => \A g \in k.todo : g \in k.targets /\ k.map[g] = NoPair

\* Pass 1 uses an account only for a group whose row names it.
Claims(k) ==
  k.pc = "retain" => \A s \in k.used : \E h \in k.targets \ k.todo : s \in InUse(k.rows[h])

\* A pair that can be kept is kept.
Keeps(k, g) ==
  Complete(k.rows[g]) /\ InUse(k.rows[g]) \subseteq k.repliers => k.map[g] = k.rows[g]
Sticks(k) == Disjoint(k.rows) => \A g \in Retained(k) : Keeps(k, g)

\* A used account is in the map.
Mapped(k) == \A s \in k.used : \E g \in Groups : s \in InUse(k.map[g])

\* Pass 2 leaves a pair incomplete only when no account is free.
Full(k) == \A g \in Filled(k) : ~Complete(k.map[g]) => k.repliers \subseteq k.used

BuildOK(k) == k = Idle \/ (Fresh(k) /\ Claims(k) /\ Sticks(k) /\ Mapped(k) /\ Full(k))

\* Call n is call k after one group of a loop, and goes on to the next.
GoesOn(k, g, n, next, todo) ==
  /\ n \in Running
  /\ n.pc = (IF k.todo \ {g} # {} THEN k.pc ELSE next)
  /\ n.todo = (IF k.todo \ {g} # {} THEN k.todo \ {g} ELSE todo)
  /\ n.targets = k.targets /\ n.rows = k.rows /\ n.repliers = k.repliers

\* What pass 1 can still give to the group.
Keepable(k, g) == (InUse(k.rows[g]) \cap k.repliers) \ k.used

Retains(k, g, n) ==
  /\ GoesOn(k, g, n, "fill", k.targets)
  /\ n.map = [k.map EXCEPT ![g] = Kept(k.rows[g], Keepable(k, g))]
  /\ n.used = k.used \cup Keepable(k, g)

Skips(k, g, n) ==
  /\ GoesOn(k, g, n, "lists", {})
  /\ Complete(k.map[g]) \/ k.repliers \ k.used = {}
  /\ n.map = k.map /\ n.used = k.used

Takes(k, g, p, b, n) ==
  /\ GoesOn(k, g, n, "lists", {})
  /\ ~Complete(k.map[g])
  /\ IF k.map[g] # NoPair THEN p = k.map[g].primary ELSE IsFirst(p, k.repliers \ k.used)
  /\ IsBackup(b, p, k.repliers \ k.used)
  /\ n.map = [k.map EXCEPT ![g] = [primary |-> p, backup |-> b]]
  /\ n.used = k.used \cup {p, b}

LEMMA PairFacts ==
  ASSUME NEW q \in Pairs
  PROVE  /\ Complete(q) => q = [primary |-> q.primary, backup |-> q.backup]
                           /\ InUse(q) = {q.primary, q.backup}
         /\ q # NoPair => q.primary \in Sessions /\ q.backup \in Sessions
         /\ q # NoPair /\ ~Complete(q) => InUse(q) = {q.primary}
         /\ InUse(NoPair) = {} /\ ~Complete(NoPair)
BY DEF Pairs, Complete, InUse, NoPair, NoAcc

\* Pass 1 for one group.
LEMMA RetainBuild ==
  ASSUME NEW k \in Running, k.pc = "retain", BuildOK(k), NEW g \in k.todo,
         NEW n, Retains(k, g, n)
  PROVE  BuildOK(n)
<1> USE DEF Retains, GoesOn
<1> DEFINE q    == k.rows[g]
           kept == Keepable(k, g)
<1>a. kept = (InUse(q) \cap k.repliers) \ k.used
  BY DEF Keepable
<1>b. n.map = [k.map EXCEPT ![g] = Kept(q, kept)] /\ n.used = k.used \cup kept
  OBVIOUS
<1> HIDE DEF kept
<1>0. Fresh(k) /\ Claims(k) /\ Sticks(k) /\ Mapped(k)
  BY DEF BuildOK, Idle
<1>1. /\ k.targets \in SUBSET Groups /\ k.todo \in SUBSET Groups /\ k.todo \subseteq k.targets
      /\ k.map \in Maps /\ k.rows \in Maps /\ q \in Pairs /\ g \in Groups
      /\ k.used \in SUBSET Sessions
  <2>1. k.todo \subseteq k.targets
    BY <1>0 DEF Fresh
  <2> QED  BY <2>1 DEF Running, Maps
<1>2. /\ n.map[g] = Kept(q, kept)
      /\ \A h \in Groups \ {g} : n.map[h] = k.map[h]
      /\ k.map[g] = NoPair
  BY <1>0, <1>1, <1>b DEF Maps, Fresh
<1>3. Retained(n) = Retained(k) \cup {g} /\ Filled(n) = {}
  BY <1>1 DEF Retained, Filled
<1>4. kept # {} => InUse(Kept(q, kept)) = kept
  BY <1>a, <1>1 DEF Kept, Pairs, InUse, NoPair
<1>5. Fresh(n)
  BY <1>1, <1>2 DEF Fresh, BuildOK, Idle
<1>6. Claims(n)
  BY <1>0, <1>a, <1>b, <1>1 DEF Claims
<1>7. Mapped(n)
  <2>1. ASSUME NEW s \in k.used  PROVE \E h \in Groups : s \in InUse(n.map[h])
    <3>1. PICK h \in Groups : s \in InUse(k.map[h])
      BY DEF BuildOK, Mapped, Idle
    <3>2. h # g
      BY <1>2, <3>1 DEF InUse, NoPair
    <3> QED  BY <1>2, <3>1, <3>2
  <2>2. ASSUME NEW s \in kept  PROVE s \in InUse(n.map[g])
    BY <1>2, <1>4, <2>2
  <2> QED  BY <1>b, <1>1, <2>1, <2>2 DEF Mapped
<1>8. Sticks(n)
  <2> SUFFICES ASSUME Disjoint(k.rows), NEW h \in Retained(n)  PROVE Keeps(n, h)
    BY DEF Sticks
  <2>1. CASE h # g
    BY <1>1, <1>2, <1>3, <2>1 DEF BuildOK, Sticks, Keeps, Idle, Retained
  <2>2. CASE h = g
    <3> SUFFICES ASSUME Complete(q), InUse(q) \subseteq k.repliers  PROVE n.map[g] = q
      BY <2>2 DEF Keeps
    <3>1. ASSUME NEW s \in k.used, s \in InUse(q)  PROVE FALSE
      <4>1. PICK i \in k.targets \ k.todo : s \in InUse(k.rows[i])
        BY <1>0, <3>1 DEF Claims
      <4>2. InUse(k.rows[i]) \cap InUse(q) = {}
        BY <1>1 DEF Disjoint
      <4> QED  BY <3>1, <4>1, <4>2
    <3>2. kept = InUse(q)
      BY <1>a, <3>1
    <3> QED  BY <1>1, <1>2, <3>2, PairFacts DEF Kept
  <2> QED  BY <2>1, <2>2
<1> QED  BY <1>3, <1>5, <1>6, <1>7, <1>8 DEF BuildOK, Full

\* Pass 2 for one group that keeps what it has.
LEMMA SkipBuild ==
  ASSUME NEW k \in Running, k.pc = "fill", BuildOK(k), NEW g \in k.todo,
         NEW n, Skips(k, g, n)
  PROVE  BuildOK(n)
<1> USE DEF Skips, GoesOn
<1>1. Retained(n) = Retained(k) /\ Filled(n) \subseteq Filled(k) \cup {g}
  BY DEF Retained, Filled, Running
<1>2. Full(n)
  BY <1>1 DEF Full, BuildOK, Idle
<1>3. Fresh(n) /\ Claims(n)
  BY DEF Fresh, Claims
<1> QED  BY <1>1, <1>2, <1>3 DEF BuildOK, Sticks, Keeps, Mapped, Idle

\* Pass 2 for one group that takes new accounts.
LEMMA TakeBuild ==
  ASSUME NEW k \in Running, k.pc = "fill", BuildOK(k), NEW g \in k.todo,
         NEW p \in Sessions, NEW b \in Sessions, NEW n, Takes(k, g, p, b, n)
  PROVE  BuildOK(n)
<1> USE DEF Takes, GoesOn
<1> DEFINE new == [primary |-> p, backup |-> b]
<1>1. /\ g \in Groups /\ k.map \in Maps /\ k.map[g] \in Pairs /\ k.rows \in Maps
      /\ k.targets \in SUBSET Groups
  BY DEF Running, Maps
<1>2. n.map[g] = new /\ \A h \in Groups \ {g} : n.map[h] = k.map[h]
  BY <1>1 DEF Maps
<1>3. Retained(n) = Retained(k) /\ Filled(n) \subseteq Filled(k) \cup {g}
  BY DEF Retained, Filled, Running
<1>4. InUse(new) = {p, b} /\ InUse(k.map[g]) \subseteq InUse(new)
  <2>1. InUse(new) = {p, b}
    BY DEF InUse, NoAcc
  <2> QED  BY <1>1, <2>1, PairFacts
<1>5. Mapped(n)
  <2> HIDE DEF new
  <2>1. ASSUME NEW s \in k.used  PROVE \E h \in Groups : s \in InUse(n.map[h])
    <3>1. PICK h \in Groups : s \in InUse(k.map[h])
      BY DEF BuildOK, Mapped, Idle
    <3> QED  BY <1>1, <1>2, <1>4, <3>1
  <2> QED  BY <1>1, <1>2, <1>4, <2>1 DEF Mapped
<1>6. Full(n)
  <2> SUFFICES ASSUME NEW h \in Filled(n), ~Complete(n.map[h])
               PROVE  k.repliers \subseteq k.used \cup {p, b}
    BY DEF Full
  <2>1. CASE h = g
    <3>1. p = b
      BY <1>2, <2>1, <1>4, PairFacts DEF Complete, NoPair, NoAcc
    <3> QED  BY <3>1 DEF IsBackup, IsFirst
  <2>2. CASE h # g
    BY <1>1, <1>2, <1>3, <2>2 DEF Full, BuildOK, Idle, Filled
  <2> QED  BY <2>1, <2>2
<1>7. Sticks(n)
  <2> SUFFICES ASSUME Disjoint(k.rows), NEW h \in Retained(n)  PROVE Keeps(n, h)
    BY DEF Sticks
  <2>1. Keeps(k, h) /\ h \in Groups
    BY <1>1, <1>3 DEF BuildOK, Sticks, Idle, Retained
  <2>2. h = g => ~Complete(k.rows[h]) \/ ~(InUse(k.rows[h]) \subseteq k.repliers)
    BY <2>1 DEF Keeps
  <2> QED  BY <1>2, <2>1, <2>2 DEF Keeps
<1>8. Fresh(n) /\ Claims(n)
  BY DEF Fresh, Claims
<1> QED  BY <1>5, <1>6, <1>7, <1>8 DEF BuildOK

\* Pass 1 starts with empty hands, over all targets.
LEMMA ReadBuild ==
  ASSUME NEW k \in Running, k.map = NoMap, k.used = {}, NEW S,
         NEW n, n = GoOn(k, "clean", S, "retain", k.targets)
  PROVE  BuildOK(n)
<1>1. /\ n.pc = (IF S # {} THEN "clean" ELSE "retain") /\ n.todo = (IF S # {} THEN S ELSE k.targets)
      /\ n.targets = k.targets /\ n.map = NoMap /\ n.used = {}
  BY DEF GoOn, Running
<1>2. k.targets \subseteq Groups
  BY DEF Running
<1>3. Fresh(n) /\ Claims(n) /\ Mapped(n)
  BY <1>1, <1>2 DEF Fresh, Claims, Mapped, NoMap
<1>4. Retained(n) = {} /\ Filled(n) = {}
  BY <1>1 DEF Retained, Filled
<1> QED  BY <1>3, <1>4 DEF BuildOK, Sticks, Full

\* A call that is between two workers, or that publishes, owes nothing more.
LEMMA MoveBuild ==
  ASSUME NEW k \in Running, Mapped(k), NEW pc \in {"next", "rows", "lists", "pairs"},
         pc = "rows" => k.map = NoMap /\ k.used = {},
         pc = "lists" => k.targets = {},
         pc = "pairs" => k.pc = "lists" /\ BuildOK(k)
  PROVE  BuildOK([k EXCEPT !.pc = pc])
<1> DEFINE n == [k EXCEPT !.pc = pc]
<1>1. n.pc = pc /\ n.targets = k.targets /\ n.rows = k.rows /\ n.repliers = k.repliers
      /\ n.map = k.map /\ n.used = k.used
  BY DEF Running
<1> HIDE DEF n
<1>2. Fresh(n) /\ Claims(n) /\ Mapped(n)
  BY <1>1 DEF Fresh, Claims, Mapped
<1>3. Sticks(n) /\ Full(n)
  <2>1. CASE pc = "pairs"
    <3>1. Retained(n) = Retained(k) /\ Filled(n) = Filled(k)
      BY <1>1, <2>1 DEF Retained, Filled
    <3> QED  BY <1>1, <2>1, <3>1 DEF BuildOK, Sticks, Full, Keeps, Idle
  <2>2. CASE pc # "pairs"
    <3>1. Retained(n) = {} /\ Filled(n) = {}
      BY <1>1, <2>2 DEF Retained, Filled
    <3> QED  BY <3>1 DEF Sticks, Full
  <2> QED  BY <2>1, <2>2
<1> QED  BY <1>2, <1>3 DEF BuildOK, n

\* A step of a call keeps its work.
LEMMA StepBuild ==
  ASSUME Inv, Inv', NEW c \in Callers, BuildOK(call[c]), Step(c)
  PROVE  BuildOK(call'[c])
<1> DEFINE k == call[c]
           n == call'[c]
<1>0. /\ k = Idle \/ (k \in Running /\ k.pc # "idle" /\ Mapped(k))
      /\ n = Idle \/ n \in Running
      /\ \A r : Becomes(c, r) => n = r
  BY DEF Inv, TypeOK, Running, Idle, BuildOK, Becomes
<1>1. CASE Start(c)
  <2>1. n.pc = "next" /\ n.used = {} /\ n.pc # "idle"
    BY <1>0, <1>1 DEF Start
  <2> HIDE DEF n
  <2>2. Retained(n) = {} /\ Filled(n) = {}
    BY <2>1 DEF Retained, Filled
  <2> QED  BY <2>1, <2>2 DEF BuildOK, Fresh, Claims, Sticks, Mapped, Full, n
<1>2. CASE ReadAccounts(c)
  <2> PICK w \in k.workers :
        LET r == [k EXCEPT !.workers = @ \ {w}, !.worker = w, !.repliers = repliers,
                           !.map = NoMap, !.used = {}]
        IN \/ r.targets = {} /\ Becomes(c, [r EXCEPT !.pc = "lists"])
           \/ Becomes(c, Rest(r))
           \/ Becomes(c, [r EXCEPT !.pc = "rows"])
    BY <1>2 DEF ReadAccounts
  <2> DEFINE r == [k EXCEPT !.workers = @ \ {w}, !.worker = w, !.repliers = repliers,
                            !.map = NoMap, !.used = {}]
  <2>1. k \in Running
    BY <1>0, <1>2 DEF ReadAccounts, At, Idle
  <2>2. w \in Workers /\ repliers \in SUBSET Sessions
    BY <2>1 DEF Running, Inv, TypeOK
  <2>3. r \in Running /\ r.map = NoMap /\ r.used = {}
    BY <2>1, <2>2, NoMapOK DEF Running
  <2>4. \/ r.targets = {} /\ Becomes(c, [r EXCEPT !.pc = "lists"])
        \/ Becomes(c, Rest(r))
        \/ Becomes(c, [r EXCEPT !.pc = "rows"])
    OBVIOUS
  <2> HIDE DEF r, k, n
  <2>5. Mapped(r) /\ BuildOK(Idle)
    BY <2>3 DEF Mapped, BuildOK
  <2>6. BuildOK(Rest(r))
    BY <2>3, <2>5, MoveBuild DEF Rest
  <2>7. BuildOK([r EXCEPT !.pc = "rows"]) /\ (r.targets = {} => BuildOK([r EXCEPT !.pc = "lists"]))
    BY <2>3, <2>5, MoveBuild
  <2>8. BuildOK(n)
    BY <1>0, <2>4, <2>6, <2>7
  <2> QED  BY <2>8 DEF n
<1>3. CASE ReadRows(c)
  <2>1. k \in Running /\ k.map = NoMap /\ k.used = {}
    BY <1>0, <1>3 DEF ReadRows, At, Idle, BuildOK, Fresh
  <2> DEFINE r == [k EXCEPT !.rows = rows]
  <2>2. r \in Running /\ r.map = NoMap /\ r.used = {} /\ r.targets = k.targets
    BY <2>1 DEF Running, Inv, TypeOK
  <2>3. \E S : n = GoOn(r, "clean", S, "retain", r.targets)
    BY <1>0, <1>3, <2>2 DEF ReadRows
  <2> QED  BY <2>2, <2>3, ReadBuild
<1>4. CASE DeleteRow(c)
  <2>1. k \in Running /\ k.map = NoMap /\ k.used = {}
    BY <1>0, <1>4 DEF DeleteRow, At, Idle, BuildOK, Fresh
  <2>2. \E S : n = GoOn(k, "clean", S, "retain", k.targets)
    BY <1>0, <1>4 DEF DeleteRow
  <2> QED  BY <2>1, <2>2, ReadBuild
<1>5. CASE Retain(c)
  <2>1. k \in Running /\ k.pc = "retain"
    BY <1>0, <1>5 DEF Retain, At, Idle
  <2> PICK g \in k.todo :
        Becomes(c, GoOn([k EXCEPT !.map = [@ EXCEPT ![g] = Kept(k.rows[g], Keepable(k, g))],
                                  !.used = @ \cup Keepable(k, g)],
                        "retain", k.todo \ {g}, "fill", k.targets))
    BY <1>5 DEF Retain, Keepable
  <2>2. n = GoOn([k EXCEPT !.map = [@ EXCEPT ![g] = Kept(k.rows[g], Keepable(k, g))],
                           !.used = @ \cup Keepable(k, g)],
                 "retain", k.todo \ {g}, "fill", k.targets)
    BY <1>0
  <2>3. BuildOK(k)
    OBVIOUS
  <2> HIDE DEF k, n
  <2>4. Retains(k, g, n)
    BY <1>0, <2>1, <2>2 DEF Retains, GoesOn, GoOn, Running, Idle
  <2>5. BuildOK(n)
    BY <2>1, <2>3, <2>4, RetainBuild
  <2> QED  BY <2>5 DEF n
<1>6. CASE Fill(c)
  <2>0. At(c, "fill")
    BY <1>6 DEF Fill
  <2>1. k \in Running /\ At(c, "fill")
    BY <1>0, <2>0 DEF At, Idle
  <2> DEFINE free == k.repliers \ k.used
             After(g, m, used) == GoOn([k EXCEPT !.map = m, !.used = used],
                                       "fill", k.todo \ {g}, "lists", {})
  <2>2. PICK g \in k.todo :
          \/ /\ Complete(k.map[g]) \/ free = {}
             /\ n = After(g, k.map, k.used)
          \/ /\ ~Complete(k.map[g])
             /\ \E p, b \in Sessions :
                  /\ IF k.map[g] # NoPair THEN p = k.map[g].primary ELSE IsFirst(p, free)
                  /\ IsBackup(b, p, free)
                  /\ n = After(g, [k.map EXCEPT ![g] = [primary |-> p, backup |-> b]],
                               k.used \cup {p, b})
    BY <1>0, <1>6 DEF Fill
  <2>3. BuildOK(k) /\ k.pc = "fill"
    BY <2>1 DEF At
  <2> HIDE DEF k, n
  <2>4. CASE (Complete(k.map[g]) \/ free = {}) /\ n = After(g, k.map, k.used)
    <3>1. Skips(k, g, n)
      BY <1>0, <2>1, <2>3, <2>4 DEF Skips, GoesOn, GoOn, Running, Idle
    <3> QED  BY <2>1, <2>3, <3>1, SkipBuild DEF n
  <2>5. ASSUME ~Complete(k.map[g]), NEW p \in Sessions, NEW b \in Sessions,
               IF k.map[g] # NoPair THEN p = k.map[g].primary ELSE IsFirst(p, free),
               IsBackup(b, p, free),
               n = After(g, [k.map EXCEPT ![g] = [primary |-> p, backup |-> b]], k.used \cup {p, b})
        PROVE  BuildOK(n)
    <3>1. Takes(k, g, p, b, n)
      BY <1>0, <2>1, <2>3, <2>5 DEF Takes, GoesOn, GoOn, Running, Idle
    <3> QED  BY <2>1, <2>3, <3>1, TakeBuild
  <2>6. BuildOK(n)
    BY <2>2, <2>4, <2>5 DEF n
  <2> QED  BY <2>6 DEF n
<1>7. CASE PublishLists(c)
  <2>1. k \in Running /\ k.pc = "lists" /\ n = [k EXCEPT !.pc = "pairs"]
    BY <1>0, <1>7 DEF PublishLists, At, Idle
  <2>2. Mapped(k) /\ BuildOK(k)
    BY <1>0, <2>1 DEF Idle
  <2> HIDE DEF k, n
  <2>3. BuildOK([k EXCEPT !.pc = "pairs"])
    BY <2>1, <2>2, MoveBuild
  <2>4. BuildOK(n)
    BY <2>1, <2>3
  <2> QED  BY <2>4 DEF n
<1>8. CASE PublishPairs(c)
  <2>1. k \in Running /\ n = Rest(k) /\ Mapped(k)
    BY <1>0, <1>8 DEF PublishPairs, At, Idle
  <2> HIDE DEF k, n
  <2>2. BuildOK(Rest(k))
    BY <2>1, MoveBuild DEF Rest, BuildOK
  <2>3. BuildOK(n)
    BY <2>1, <2>2
  <2> QED  BY <2>3 DEF n
<1> QED  BY <1>1, <1>2, <1>3, <1>4, <1>5, <1>6, <1>7, <1>8 DEF Step

AllBuilt == \A c \in Callers : BuildOK(call[c])

\* Calls work on records of their own.
LEMMA BuiltStep ==
  ASSUME Inv, Inv', AllBuilt, [Next]_vars
  PROVE  AllBuilt'
<1>1. ASSUME NEW c \in Callers, NEW k, Becomes(c, k)
      PROVE  call'[c] = k /\ \A d \in Callers \ {c} : call'[d] = call[d]
  BY <1>1 DEF Becomes, Inv, TypeOK
<1>2. ASSUME NEW c \in Callers, Step(c)  PROVE AllBuilt'
  <2>1. \E k : Becomes(c, k)
    BY <1>2 DEF Step, Start, ReadAccounts, ReadRows, DeleteRow, Retain, Fill, PublishLists, PublishPairs
  <2>2. \A d \in Callers \ {c} : call'[d] = call[d]
    BY <1>1, <2>1
  <2>3. BuildOK(call'[c])
    BY <1>2, StepBuild DEF AllBuilt
  <2> QED  BY <2>2, <2>3 DEF AllBuilt
<1>3. ASSUME NEW c \in Callers, Becomes(c, Idle)  PROVE AllBuilt'
  BY <1>1, <1>3 DEF AllBuilt, BuildOK
<1>4. ASSUME call' = call  PROVE AllBuilt'
  BY <1>4 DEF AllBuilt
<1>5. ASSUME NEW g \in Groups, AddTarget(g) \/ DropRow(g) \/ RemoveTarget(g)  PROVE call' = call
  BY <1>5 DEF AddTarget, DropRow, RemoveTarget
<1>6. ASSUME NEW s \in Sessions, ChangeRepliers(s)  PROVE call' = call
  BY <1>6 DEF ChangeRepliers
<1>7. CASE UNCHANGED vars
  BY <1>4, <1>7 DEF vars
<1> QED  BY <1>2, <1>3, <1>4, <1>5, <1>6, <1>7, AssignerAssumption DEF Next, Abort, FlushState

LEMMA BuiltHolds == Spec => [](Inv /\ AllBuilt)
<1>1. Init => AllBuilt
  BY DEF Init, AllBuilt, BuildOK
<1>2. Inv /\ AllBuilt /\ [Next]_vars => (Inv /\ AllBuilt)'
  BY NextInv, BuiltStep
<1> QED  BY <1>1, <1>2, InitInv, PTL DEF Spec

\* A call that publishes has passed every target twice.
LEMMA PublishedCall ==
  ASSUME Inv, AllBuilt, NEW c \in Callers, PublishPairs(c)
  PROVE  /\ call[c] \in Running /\ pairs'[call[c].worker] = call[c].map
         /\ Sticks(call[c]) /\ Mapped(call[c]) /\ Full(call[c])
         /\ Retained(call[c]) = call[c].targets /\ Filled(call[c]) = call[c].targets
<1>1. call[c] \in Running /\ call[c].pc = "pairs"
  BY RunningCall DEF PublishPairs, At
<1>2. call[c].worker \in Workers
  BY <1>1 DEF Running
<1>3. pairs'[call[c].worker] = call[c].map
  BY <1>2 DEF PublishPairs, Inv, TypeOK
<1> QED  BY <1>1, <1>3 DEF AllBuilt, BuildOK, Idle, Retained, Filled

\* Whoever else writes the rows meanwhile, a complete pair of healthy accounts
\* of the rows a call has read is published as it is, if those share no account.
THEOREM Sticky == Spec => StickyPairs
<1>1. Inv /\ AllBuilt => \A c \in Callers, g \in Groups :
        /\ PublishPairs(c)
        /\ Disjoint(call[c].rows) /\ g \in call[c].targets
        /\ Complete(call[c].rows[g]) /\ InUse(call[c].rows[g]) \subseteq call[c].repliers
        => pairs'[call[c].worker][g] = call[c].rows[g]
  BY PublishedCall DEF Sticks, Keeps
<1> QED  BY <1>1, BuiltHolds, PTL DEF StickyPairs

\* A target is left with one account, or none, only by a call that has given out
\* every account it knows.
THEOREM NoneIdle == Spec => NoIdleAccount
<1>1. Inv /\ AllBuilt => \A c \in Callers :
        PublishPairs(c) /\ (\E g \in call[c].targets : ~Complete(call[c].map[g]))
          => call[c].repliers \subseteq UNION {InUse(call[c].map[g]) : g \in Groups}
  <2> SUFFICES ASSUME Inv, AllBuilt, NEW c \in Callers, PublishPairs(c),
                      NEW h \in call[c].targets, ~Complete(call[c].map[h])
               PROVE  call[c].repliers \subseteq UNION {InUse(call[c].map[g]) : g \in Groups}
    OBVIOUS
  <2>1. Mapped(call[c]) /\ Full(call[c]) /\ h \in Filled(call[c])
    BY PublishedCall
  <2>2. call[c].repliers \subseteq call[c].used
    BY <2>1 DEF Full
  <2>3. call[c].used \subseteq UNION {InUse(call[c].map[g]) : g \in Groups}
    BY <2>1 DEF Mapped
  <2> QED  BY <2>2, <2>3
<1> QED  BY <1>1, BuiltHolds, PTL DEF NoIdleAccount
=============================================================================
