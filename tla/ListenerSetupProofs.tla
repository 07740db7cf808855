------------------------ MODULE ListenerSetupProofs ------------------------
(***************************************************************************)
(* Theorems about ListenerSetup, for any groups, accounts and maps.        *)
(***************************************************************************)
EXTENDS ListenerSetup, SequenceTheorems, TLAPS

\* The account a run resolves has no handler, and its client is the one that was
\* taken unless it was lost.
ResolvesBare ==
  setup.pc = "resolve" =>
    /\ handler[setup.acc] # "attached"
    /\ setup.alive => client[setup.acc] = "on"
    /\ resolved[setup.acc] \subseteq setup.plan[setup.acc]

\* What an attached handler hears belongs to the target set it was set up for.
HandlerFits ==
  \A a \in Accounts : handler[a] = "attached" => resolved[a] \subseteq targetsOf[a]

Inv == TypeOK /\ OneHandler /\ ResolvesBare /\ HandlerFits

-----------------------------------------------------------------------------
\* A run that goes on keeps its type.
LEMMA GoesOn ==
  ASSUME setup \in Running, NEW a \in Accounts, NEW step \in {"resolve", "failover"}
  PROVE  /\ [setup EXCEPT !.pc = step, !.acc = a, !.alive = TRUE,
                          !.todo = @ \ {a}] \in Running
         /\ [setup EXCEPT !.pc = "next", !.acc = NoAcc, !.alive = TRUE,
                          !.todo = @ \ {NoAcc}] \in Running
         /\ setup.pc = "next" => [setup EXCEPT !.todo = @ \ {a}] \in Running
         /\ setup.pc = "resolve" => [setup EXCEPT !.alive = FALSE] \in Running
BY DEF Running

\* A run that has started has a plan, and where it works on an account it has one.
LEMMA RunHas ==
  ASSUME setup \in Running \cup {Idle}
  PROVE  /\ setup.pc # "idle" => setup \in Running
         /\ setup.pc = "idle" => setup = Idle
         /\ setup \in Running =>
              /\ setup.plan \in [Accounts -> SUBSET Groups]
              /\ setup.todo \subseteq Accounts
              /\ setup.alive \in BOOLEAN
         /\ setup.pc \in {"resolve", "failover"} => setup.acc \in Accounts
<1>1. CASE setup = Idle
  <2>1. setup.pc = "idle"
    BY <1>1 DEF Idle
  <2>2. setup \notin Running
    BY <2>1 DEF Running
  <2> QED  BY <1>1, <2>1, <2>2
<1>2. CASE setup \in Running
  BY <1>2 DEF Running
<1> QED  BY <1>1, <1>2

\* A list of at most one handler loses it, or gets one.
LEMMA OneOfThem ==
  ASSUME NEW s \in Seq(SUBSET Groups), Len(s) <= 1, NEW chats \in SUBSET Groups
  PROVE  /\ s # <<>> => SubSeq(s, 1, Len(s) - 1) = <<>>
         /\ s = <<>> => Append(s, chats) \in Seq(SUBSET Groups) /\ Len(Append(s, chats)) = 1
                        /\ Append(s, chats)[1] = chats /\ Append(s, chats) # <<>>
         /\ s # <<>> => Len(s) = 1 /\ s[1] \in SUBSET Groups
         /\ Len(<<>>) = 0 /\ <<>> \in Seq(SUBSET Groups)
<1>1. s # <<>> => Len(s) = 1 /\ s[1] \in SUBSET Groups
  <2>1. s # <<>> => Len(s) \in Nat \ {0}
    BY EmptySeq
  <2>2. \A n \in Nat \ {0} : n <= 1 => n = 1
    OBVIOUS
  <2>3. s # <<>> => Len(s) = 1
    BY <2>1, <2>2, Zenon
  <2>4. Len(s) = 1 => s[1] \in SUBSET Groups
    BY ElementOfSeq
  <2> QED  BY <2>3, <2>4, Zenon
<1>2. s # <<>> => SubSeq(s, 1, Len(s) - 1) = <<>>
  <2>1. SubSeq(s, 1, 0) = <<>>
    BY SubSeqEmpty
  <2>2. s # <<>> => Len(s) - 1 = 0
    BY <1>1
  <2> QED  BY <2>1, <2>2
<1>3. s = <<>> => /\ Append(s, chats) \in Seq(SUBSET Groups) /\ Len(Append(s, chats)) = 1
                  /\ Append(s, chats)[1] = chats
  OBVIOUS
<1>4. Len(<<>>) = 0 /\ <<>> \in Seq(SUBSET Groups)
  OBVIOUS
<1> QED  BY <1>1, <1>2, <1>3, <1>4

-----------------------------------------------------------------------------
LEMMA InvInit == Init => Inv
<1> SUFFICES ASSUME Init PROVE Inv
  OBVIOUS
<1> USE SetupAssumption DEF Init, Fresh, NoMap, Idle
<1>1. TypeOK
  <2>1. map \in [Accounts -> SUBSET Groups]
    OBVIOUS
  <2>2. Owners(map) \subseteq Accounts
    BY DEF Owners
  <2>3. attached \in [Accounts -> Seq(SUBSET Groups)]
    OBVIOUS
  <2> QED  BY <2>1, <2>2, <2>3 DEF TypeOK
<1>2. OneHandler
  BY DEF OneHandler
<1>3. ResolvesBare /\ HandlerFits
  BY DEF ResolvesBare, HandlerFits
<1> QED  BY <1>1, <1>2, <1>3 DEF Inv

\* Detaching leaves no handler on the account, and nothing else changes.
LEMMA Detaches ==
  ASSUME Inv, NEW a \in Accounts, Detach(a)
  PROVE  /\ attached' = [attached EXCEPT ![a] = <<>>]
         /\ handler' = [handler EXCEPT ![a] = "none"]
<1>1. attached[a] \in Seq(SUBSET Groups) /\ Len(attached[a]) <= 1
  BY DEF Inv, TypeOK, OneHandler
<1>2. /\ client[a] # "on" => attached[a] = <<>>
      /\ handler[a] # "attached" => attached[a] = <<>>
      /\ handler[a] = "attached" => attached[a] # <<>>
  BY DEF Inv, OneHandler
<1>3. attached[a] # <<>> => SubSeq(attached[a], 1, Len(attached[a]) - 1) = <<>>
  BY <1>1, OneOfThem
<1> QED  BY <1>2, <1>3 DEF Detach

\* What happens outside the worker leaves the handlers alone.
LEMMA OutsideStep ==
  ASSUME Inv, TypeOK', UNCHANGED <<client, attached, handler, targetsOf, resolved>>,
         setup'.pc = "resolve" => setup' = setup
  PROVE  Inv'
BY DEF Inv, OneHandler, ResolvesBare, HandlerFits

-----------------------------------------------------------------------------
(* Types.                                                                  *)

\* A map that is assigned has the type of one.
LEMMA AssignsType ==
  ASSUME NEW m, Assigns(m)
  PROVE  map' \in [Accounts -> SUBSET Groups] /\ listeners' \subseteq Accounts
BY SetupAssumption DEF Assigns, Owners

LEMMA EntersType ==
  ASSUME NEW m \in [Accounts -> SUBSET Groups], NEW L \in SUBSET Accounts, Enter(m, L)
  PROVE  setup' \in Running \cup {Idle} /\ setup'.pc \in {"idle", "next"}
<1>1. Owners(m) \cap L \cap sound \subseteq Accounts
  BY DEF Owners
<1>2. CASE L \cap sound = {}
  BY <1>2 DEF Enter, Idle
<1>3. CASE L \cap sound # {}
  <2>1. setup' = [pc |-> "next", plan |-> m, todo |-> Owners(m) \cap L \cap sound,
                  acc |-> NoAcc, alive |-> TRUE]
    BY <1>3 DEF Enter
  <2> QED  BY <1>1, <2>1 DEF Running
<1> QED  BY <1>2, <1>3

\* The steps of a run, but for the one that attaches a handler.
LEMMA RunTypes ==
  ASSUME Inv, NEW a \in Accounts, SetUp(a)
  PROVE  TypeOK'
<1> USE DEF At
<1>0. setup \in Running
  BY RunHas DEF SetUp, Skip, Connect, NoClient, SessionError, OtherError, Inv, TypeOK
<1>1. CASE Skip(a)
  <2>1. setup' \in Running
    BY <1>0, <1>1, GoesOn DEF Skip
  <2> QED  BY <1>1, <2>1 DEF Skip, Inv, TypeOK, world, worker
<1>2. CASE Connect(a)
  <2>1. setup' \in Running
    BY <1>0, <1>2, GoesOn DEF Connect, GoTo
  <2>2. /\ attached' \in [Accounts -> Seq(SUBSET Groups)]
        /\ handler' \in [Accounts -> {"none", "attached", "lost"}]
    <3>1. <<>> \in Seq(SUBSET Groups)
      BY EmptySeq
    <3>2. /\ attached' = [attached EXCEPT ![a] = <<>>]
          /\ handler' = [handler EXCEPT ![a] = "none"]
      BY <1>2, Detaches DEF Connect
    <3> QED  BY <3>1, <3>2 DEF Inv, TypeOK
  <2>3. resolved' \in [Accounts -> SUBSET Groups]
    BY <1>2 DEF Connect, Prune, Inv, TypeOK
  <2>4. client' \in [Accounts -> {"none", "on", "off"}]
    BY <1>2 DEF Connect, Inv, TypeOK
  <2> QED  BY <1>2, <2>1, <2>2, <2>3, <2>4 DEF Connect, Inv, TypeOK, world
<1>3. CASE NoClient(a)
  <2>1. setup' \in Running
    BY <1>0, <1>3, GoesOn DEF NoClient, GoTo
  <2> QED  BY <1>3, <2>1, SetupAssumption DEF NoClient, Inv, TypeOK, worker, Event
<1>4. CASE SessionError(a)
  <2>1. setup' \in Running
    BY <1>0, <1>4, GoesOn DEF SessionError, GoTo
  <2>2. attached' \in [Accounts -> Seq(SUBSET Groups)]
    <3>1. <<>> \in Seq(SUBSET Groups)
      BY EmptySeq
    <3> QED  BY <1>4, <3>1 DEF SessionError, Inv, TypeOK
  <2> QED  BY <1>4, <2>1, <2>2 DEF SessionError, Inv, TypeOK
<1>5. CASE OtherError(a)
  <2>1. setup' \in Running
    BY <1>0, <1>5, GoesOn DEF OtherError
  <2> QED  BY <1>5, <2>1, SetupAssumption DEF OtherError, Inv, TypeOK, world, worker, Event
<1> QED  BY <1>1, <1>2, <1>3, <1>4, <1>5 DEF SetUp

\* A handler is attached to an account that has none.
LEMMA ResolveStep ==
  ASSUME Inv, Resolve
  PROVE  Inv'
<1> DEFINE a == setup.acc
<1>0. /\ a \in Accounts /\ setup \in Running /\ setup.pc = "resolve"
      /\ setup.plan \in [Accounts -> SUBSET Groups]
  BY RunHas DEF Resolve, At, Inv, TypeOK
<1>1. /\ attached[a] = <<>> /\ handler[a] # "attached"
      /\ setup.alive => client[a] = "on"
      /\ resolved[a] \subseteq setup.plan[a]
  BY <1>0 DEF Inv, ResolvesBare, OneHandler
<1>2. PICK S \in SUBSET (setup.plan[a] \ resolved[a]) :
        LET chats == resolved[a] \cup S
        IN /\ resolved' = [resolved EXCEPT ![a] = chats]
           /\ targetsOf' = [targetsOf EXCEPT ![a] = setup.plan[a]]
           /\ attached' = [attached EXCEPT ![a] =
                             IF chats # {} /\ setup.alive THEN Append(@, chats) ELSE @]
           /\ handler' = [handler EXCEPT ![a] =
                            IF chats = {} THEN @ ELSE IF setup.alive THEN "attached" ELSE "lost"]
  BY DEF Resolve
<1> DEFINE chats == resolved[a] \cup S
<1>3. chats \in SUBSET Groups /\ chats \subseteq setup.plan[a]
  BY <1>0, <1>1, <1>2 DEF Inv, TypeOK
<1>4. /\ attached[a] \in Seq(SUBSET Groups) /\ Len(attached[a]) <= 1
      /\ <<>> \in Seq(SUBSET Groups) /\ Len(<<>>) = 0
  BY <1>0, EmptySeq DEF Inv, TypeOK, OneHandler
<1>5. /\ Append(<<>>, chats) \in Seq(SUBSET Groups) /\ Len(Append(<<>>, chats)) = 1
      /\ Append(<<>>, chats)[1] = chats /\ Append(<<>>, chats) # <<>>
  BY <1>1, <1>3, <1>4, OneOfThem
<1>6. setup' \in Running /\ setup'.pc = "next"
  <2>1. setup' = [setup EXCEPT !.pc = "next", !.acc = NoAcc, !.alive = TRUE,
                               !.todo = @ \ {NoAcc}]
    BY DEF Resolve, GoTo
  <2> QED  BY <1>0, <2>1, GoesOn DEF Running
<1> HIDE DEF a, chats
<1>7. attached' = [attached EXCEPT ![a] =
                     IF chats # {} /\ setup.alive THEN Append(<<>>, chats) ELSE <<>>]
  BY <1>1, <1>2 DEF chats, a
<1>8. /\ resolved' = [resolved EXCEPT ![a] = chats]
      /\ targetsOf' = [targetsOf EXCEPT ![a] = setup.plan[a]]
      /\ handler' = [handler EXCEPT ![a] =
                       IF chats = {} THEN @ ELSE IF setup.alive THEN "attached" ELSE "lost"]
      /\ UNCHANGED <<world, client, cache, events>>
  BY <1>2 DEF chats, a, Resolve
<1>9. TypeOK'
  BY <1>0, <1>3, <1>4, <1>5, <1>6, <1>7, <1>8 DEF Inv, TypeOK, world
<1>10. OneHandler'
  BY <1>0, <1>1, <1>4, <1>5, <1>7, <1>8 DEF Inv, TypeOK, OneHandler, a
<1>11. HandlerFits'
  BY <1>0, <1>3, <1>8 DEF Inv, TypeOK, HandlerFits
<1> QED  BY <1>6, <1>9, <1>10, <1>11 DEF Inv, ResolvesBare

\* Setting up an account never leaves it with more than one handler.
LEMMA SetUpStep ==
  ASSUME Inv, NEW a \in Accounts, SetUp(a)
  PROVE  Inv'
<1>0. TypeOK'
  BY RunTypes
<1> USE DEF At
<1>1. CASE Skip(a)
  <2>1. setup'.pc # "resolve"
    <3>1. setup \in Running /\ setup.pc = "next"
      BY <1>1, RunHas DEF Skip, Inv, TypeOK
    <3> QED  BY <1>1, <3>1 DEF Skip, Running
  <2> QED  BY <1>0, <1>1, <2>1, OutsideStep DEF Skip, world, worker
<1>2. CASE Connect(a)
  <2>1. setup \in Running /\ setup.pc = "next"
    BY <1>2, RunHas DEF Connect, Inv, TypeOK
  <2>2. /\ setup'.pc = "resolve" /\ setup'.acc = a
        /\ setup'.plan = setup.plan
    BY <1>2, <2>1 DEF Connect, GoTo, Running
  <2>3. /\ attached' = [attached EXCEPT ![a] = <<>>]
        /\ handler' = [handler EXCEPT ![a] = "none"]
        /\ client' = [client EXCEPT ![a] = "on"]
        /\ resolved' = [resolved EXCEPT ![a] = @ \cap setup.plan[a]]
        /\ targetsOf' = targetsOf
    BY <1>2, Detaches DEF Connect, Prune
  <2>4. Len(<<>>) = 0
    BY EmptySeq
  <2>5. OneHandler'
    BY <2>3, <2>4 DEF Inv, TypeOK, OneHandler
  <2>6. ResolvesBare' /\ HandlerFits'
    BY <2>2, <2>3 DEF Inv, TypeOK, ResolvesBare, HandlerFits
  <2> QED  BY <1>0, <2>5, <2>6 DEF Inv
<1>3. CASE NoClient(a) \/ OtherError(a)
  <2>1. setup'.pc # "resolve"
    <3>1. setup \in Running /\ setup.pc = "next"
      BY <1>3, RunHas DEF NoClient, OtherError, Inv, TypeOK
    <3> QED  BY <1>3, <3>1 DEF NoClient, OtherError, GoTo, Running
  <2> QED  BY <1>0, <1>3, <2>1, OutsideStep DEF NoClient, OtherError, world, worker
<1>4. CASE SessionError(a)
  <2>1. setup'.pc # "resolve"
    <3>1. setup \in Running /\ setup.pc = "next"
      BY <1>4, RunHas DEF SessionError, Inv, TypeOK
    <3> QED  BY <1>4, <3>1 DEF SessionError, GoTo, Running
  <2>2. Len(<<>>) = 0
    BY EmptySeq
  <2>3. OneHandler' /\ HandlerFits'
    BY <1>4, <2>2 DEF SessionError, Inv, TypeOK, OneHandler, HandlerFits
  <2> QED  BY <1>0, <2>1, <2>3 DEF Inv, ResolvesBare
<1> QED  BY <1>1, <1>2, <1>3, <1>4 DEF SetUp

\* A client that is lost takes its handler with it.
LEMMA LosesStep ==
  ASSUME Inv, NEW a \in Accounts, Lose(a), events' \in 0..MaxEvents, sound' \subseteq Accounts,
         UNCHANGED <<map, listeners, revoked, targetsOf, resolved, cache>>
  PROVE  Inv'
<1>1. Len(<<>>) = 0 /\ <<>> \in Seq(SUBSET Groups)
  BY EmptySeq
<1>2. setup' \in Running \cup {Idle}
  <2>1. CASE setup.pc = "resolve" /\ setup.acc = a
    <3>1. setup' \in Running
      BY <2>1, RunHas, GoesOn DEF Lose, At, Inv, TypeOK
    <3> QED  BY <3>1
  <2>2. CASE ~(setup.pc = "resolve" /\ setup.acc = a)
    BY <2>2 DEF Lose, At, Inv, TypeOK
  <2> QED  BY <2>1, <2>2
<1>3. setup'.pc = "resolve" =>
        /\ setup.pc = "resolve" /\ setup'.acc = setup.acc /\ setup'.plan = setup.plan
        /\ setup'.alive => setup.alive /\ setup.acc # a
  BY RunHas DEF Lose, At, Inv, TypeOK, Running, Idle
<1>4. TypeOK'
  BY <1>1, <1>2 DEF Lose, Inv, TypeOK
<1>5. OneHandler' /\ HandlerFits'
  BY <1>1 DEF Lose, Inv, TypeOK, OneHandler, HandlerFits
<1>6. ResolvesBare'
  <2> SUFFICES ASSUME setup'.pc = "resolve" PROVE ResolvesBare'
    BY DEF ResolvesBare
  <2>1. setup.acc \in Accounts
    BY <1>3, RunHas DEF Inv, TypeOK
  <2> QED  BY <1>3, <2>1 DEF Lose, Inv, TypeOK, ResolvesBare
<1> QED  BY <1>4, <1>5, <1>6 DEF Inv

-----------------------------------------------------------------------------
LEMMA BeginStep == Inv /\ Begin => Inv'
<1> SUFFICES ASSUME Inv, Begin PROVE Inv'
  OBVIOUS
<1>1. /\ setup' \in Running \cup {Idle} /\ setup'.pc \in {"idle", "next"}
      /\ map' \in [Accounts -> SUBSET Groups] /\ listeners' \subseteq Accounts
  <2>1. CASE map # NoMap /\ Enter(map, listeners) /\ UNCHANGED <<map, listeners>>
    BY <2>1, EntersType DEF Inv, TypeOK
  <2>2. CASE \E m \in Maps : map = NoMap /\ Assigns(m) /\ Enter(m, Owners(m))
    <3>1. PICK m \in Maps : Assigns(m) /\ Enter(m, Owners(m))
      BY <2>2
    <3>2. m \in [Accounts -> SUBSET Groups] /\ Owners(m) \in SUBSET Accounts
      BY SetupAssumption DEF Owners
    <3> QED  BY <3>1, <3>2, EntersType, AssignsType
  <2> QED  BY <2>1, <2>2 DEF Begin
<1>2. TypeOK'
  BY <1>1 DEF Begin, Inv, TypeOK, worker
<1> QED  BY <1>1, <1>2, OutsideStep DEF Begin, worker

LEMMA FailoverStep == Inv /\ Failover => Inv'
<1> SUFFICES ASSUME Inv, Failover PROVE Inv'
  OBVIOUS
<1>0. setup \in Running /\ setup.acc \in Accounts
  BY RunHas DEF Failover, At, Inv, TypeOK
<1>1. setup' \in Running /\ setup'.pc = "next"
  BY <1>0, GoesOn DEF Failover, GoTo, Running
<1>2. map' \in [Accounts -> SUBSET Groups] /\ listeners' \subseteq Accounts
  BY AssignsType DEF Failover, Inv, TypeOK
<1>3. TypeOK'
  BY <1>1, <1>2 DEF Failover, Inv, TypeOK, worker
<1> QED  BY <1>1, <1>3, OutsideStep DEF Failover, worker

LEMMA LoadStep == Inv /\ LoadRepliers => Inv'
<1> SUFFICES ASSUME Inv, LoadRepliers PROVE Inv'
  OBVIOUS
<1>1. TypeOK' /\ setup'.pc # "resolve"
  BY DEF LoadRepliers, Inv, TypeOK, Idle, world
<1> QED  BY <1>1, OutsideStep DEF LoadRepliers

LEMMA PublishStep == Inv /\ (Publish \/ \E a \in Accounts : Revoke(a)) => Inv'
<1> SUFFICES ASSUME Inv, Publish \/ \E a \in Accounts : Revoke(a) PROVE Inv'
  OBVIOUS
<1>1. events' \in 0..MaxEvents
  BY SetupAssumption DEF Publish, Revoke, Event, Inv, TypeOK
<1>2. map' \in [Accounts -> SUBSET Groups] /\ listeners' \subseteq Accounts
  BY SetupAssumption DEF Publish, Revoke, Owners, NoMap, Inv, TypeOK
<1>3. TypeOK' /\ setup' = setup
  BY <1>1, <1>2 DEF Publish, Revoke, Inv, TypeOK, worker
<1> QED  BY <1>3, OutsideStep DEF Publish, Revoke, worker

LEMMA CrashStep == Inv /\ Crash => Inv'
<1> SUFFICES ASSUME Inv, Crash PROVE Inv'
  OBVIOUS
<1>1. Len(<<>>) = 0 /\ <<>> \in Seq(SUBSET Groups)
  BY EmptySeq
<1>2. events' \in 0..MaxEvents
  BY SetupAssumption DEF Crash, Event, Inv, TypeOK
<1>3. /\ client' = [a \in Accounts |-> "none"] /\ attached' = [a \in Accounts |-> <<>>]
      /\ handler' = [a \in Accounts |-> "none"] /\ cache' = {} /\ setup' = Idle
      /\ targetsOf' = [a \in Accounts |-> {}] /\ resolved' = [a \in Accounts |-> {}]
  BY DEF Crash, Fresh, NoMap
<1>4. TypeOK'
  BY <1>1, <1>2, <1>3 DEF Crash, Inv, TypeOK, world
<1>5. OneHandler' /\ HandlerFits' /\ ResolvesBare'
  BY <1>1, <1>3 DEF OneHandler, HandlerFits, ResolvesBare, Idle
<1> QED  BY <1>4, <1>5 DEF Inv

LEMMA InvStep == Inv /\ [Next]_vars => Inv'
<1> SUFFICES ASSUME Inv, [Next]_vars PROVE Inv'
  OBVIOUS
<1>1. CASE Begin \/ Failover \/ LoadRepliers \/ Publish \/ Crash \/ Resolve
  BY <1>1, BeginStep, FailoverStep, LoadStep, PublishStep, CrashStep, ResolveStep
<1>2. ASSUME NEW a \in Accounts, SetUp(a) PROVE Inv'
  BY <1>2, SetUpStep
<1>3. ASSUME NEW a \in Accounts, Revoke(a) PROVE Inv'
  BY <1>3, PublishStep
<1>4. ASSUME NEW a \in Accounts, Drop(a) \/ LoopEnds(a) PROVE Inv'
  <2>1. events' \in 0..MaxEvents /\ sound' \subseteq Accounts
    BY <1>4, SetupAssumption DEF Drop, LoopEnds, Event, Inv, TypeOK, world
  <2> QED  BY <1>4, <2>1, LosesStep DEF Drop, LoopEnds, world
<1>5. CASE UNCHANGED vars
  BY <1>5 DEF vars, world, worker, Inv, TypeOK, OneHandler, HandlerFits, ResolvesBare
<1> QED  BY <1>1, <1>2, <1>3, <1>4, <1>5 DEF Next, Run

LEMMA InvHolds == Spec => []Inv
BY InvInit, InvStep, PTL DEF Spec

\* Runs, clients, handlers and caches keep their types.
THEOREM TypeCorrect == Spec => []TypeOK
<1>1. Inv => TypeOK
  BY DEF Inv
<1> QED  BY <1>1, InvHolds, PTL

\* However often an account is set up and however its client comes and goes, it
\* carries at most one handler, and the worker knows about it.
THEOREM NeverTwoHandlers == Spec => []OneHandler
<1>1. Inv => OneHandler
  BY DEF Inv
<1> QED  BY <1>1, InvHolds, PTL

\* An account hears only groups of its last target set.
THEOREM HearsNothingElse == Spec => []HearsItsTargets
<1>1. Inv => HearsItsTargets
  <2> SUFFICES ASSUME Inv, NEW a \in Accounts PROVE Hears(a) \subseteq targetsOf[a]
    BY DEF HearsItsTargets
  <2> DEFINE heard == {attached[a][i] : i \in 1..Len(attached[a])}
  <2>1. attached[a] \in Seq(SUBSET Groups) /\ Len(attached[a]) \in Nat /\ Len(attached[a]) <= 1
    BY LenProperties DEF Inv, TypeOK, OneHandler
  <2>2. CASE attached[a] = <<>>
    BY <2>2, EmptySeq DEF Hears
  <2>3. CASE attached[a] # <<>>
    <3>1. handler[a] = "attached" /\ attached[a][1] = resolved[a]
      BY <2>3 DEF Inv, OneHandler
    <3>2. \A i \in 1..Len(attached[a]) : i = 1
      BY <2>1
    <3> QED  BY <3>1, <3>2 DEF Hears, Inv, HandlerFits
  <2> QED  BY <2>2, <2>3
<1> QED  BY <1>1, InvHolds, PTL
=============================================================================
