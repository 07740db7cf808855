-------------------------- MODULE ApiClientsProofs --------------------------
(***************************************************************************)
(* Theorems about ApiClients, for any number of requests.                  *)
(***************************************************************************)
EXTENDS ApiClients, TLAPS

\* Clients that the properties make no promise about.
Excused == met \cup signed \cup failed

\* Requests that work at the same time have met.
BusyHaveMet == \A c, d \in Busy : c # d => c \in met

\* A client that is kept is past its request, or the code is being logged; logins and the engine
\* keep different ones.
KeptRest ==
  /\ \A c \in {engine, loop} \ {NoClient} : pc[c] = "rest"
  /\ entry # NoClient => pc[entry] \in {"log", "rest"}
  /\ entry # NoClient => entry \notin {engine, loop}

\* A client that is not connected yet is not open.
Unconnected == \A c \in open : pc[c] \notin {"unused", "connect", "dial"}

\* A request finds the place of its client free, or taken by one it has met.
PlaceIsFree ==
  \A c \in Clients :
    /\ pc[c] \in {"connect", "code"} => entry \in met \cup {NoClient}
    /\ pc[c] \in {"dial", "auth"} => engine \notin open \/ engine \in met
    /\ verify[c] # "none" => entry \in met \cup {c, NoClient}
    /\ verify[c] = "row" => c \in signed

\* A client that is not excused and stays open is kept, or its request works.
Owned ==
  \A c \in open \ Excused : c \in {entry, engine} \/ pc[c] \in {"code", "auth"}

Inv ==
  /\ TypeOK /\ BusyHaveMet /\ KeptRest /\ Unconnected /\ PlaceIsFree
  /\ Owned /\ PendingIsOpen /\ LoopIsEngines

LEMMA InvInit == Init => Inv
<1> SUFFICES ASSUME Init PROVE Inv
  OBVIOUS
<1> USE ClientsAssumption
<1>1. TypeOK
  <2>1. pc \in [Clients -> {"unused", "connect", "code", "log", "dial", "auth", "rest"}]
    BY DEF Init
  <2>2. verify \in [Clients -> {"none", "signin", "row"}]
    BY DEF Init
  <2>3. faults \in 0..MaxFaults
    BY DEF Init
  <2>4. {entry, engine, loop} \subseteq Clients \cup {NoClient}
    BY DEF Init
  <2>5. listed \in BOOLEAN
    BY DEF Init
  <2>6. \A S \in {open, stale, signed, failed, met} : S \subseteq Clients
    BY DEF Init
  <2> QED  BY <2>1, <2>2, <2>3, <2>4, <2>5, <2>6 DEF TypeOK
<1>2. BusyHaveMet /\ KeptRest /\ Unconnected /\ PlaceIsFree
  BY DEF Init, BusyHaveMet, Busy, KeptRest, Unconnected, PlaceIsFree
<1>3. Owned /\ PendingIsOpen /\ LoopIsEngines
  BY DEF Init, Owned, PendingIsOpen, LoopIsEngines
<1> QED  BY <1>1, <1>2, <1>3 DEF Inv

LEMMA TypeStep == TypeOK /\ [Next]_vars => TypeOK'
<1> SUFFICES ASSUME TypeOK, [Next]_vars PROVE TypeOK'
  OBVIOUS
<1> USE ClientsAssumption DEF TypeOK
<1>1. ASSUME NEW c \in Clients, Login(c) PROVE TypeOK'
  <2>1. CASE SendCode(c)
    BY <2>1 DEF SendCode, Meets, Busy, DropOld, Step, At, login, account
  <2>2. CASE Connect(c)
    BY <2>2 DEF Connect, Step, At, login, account
  <2>3. CASE CodeSent(c)
    BY <2>3 DEF CodeSent, Step, At, login, account
  <2>4. CASE CodeFails(c)
    BY <2>4 DEF CodeFails, CloseFailed, Step, At, login, account
  <2>5. CASE Expire(c)
    BY <2>5 DEF Expire, Step, At, login, account
  <2>6. CASE Verify(c)
    BY <2>6 DEF Verify, Meets, Busy, Step, At, login, account
  <2>7. CASE SignInFails(c)
    BY <2>7 DEF SignInFails, Step, At, login, account
  <2>8. CASE SignIn(c)
    BY <2>8 DEF SignIn, Step, At, login, account
  <2>9. CASE Finish(c)
    BY <2>9 DEF Finish, Step, At, login, account
  <2>10. CASE FinishFails(c)
    BY <2>10 DEF FinishFails, Step, At, login, account
  <2>11. CASE Logged(c) \/ LogFails(c)
    BY <2>11 DEF Logged, LogFails, Fault, CloseFailed, Step, At, login, account
  <2> QED
    BY <1>1, <2>1, <2>2, <2>3, <2>4, <2>5, <2>6, <2>7, <2>8, <2>9, <2>10, <2>11 DEF Login
<1>2. ASSUME NEW c \in Clients, Engine(c) PROVE TypeOK'
  <2>1. CASE GetClient(c)
    BY <2>1 DEF GetClient, Meets, Busy, LoopFor, Step, At, login, account
  <2>2. CASE Dial(c)
    BY <2>2 DEF Dial, Step, At, login, account
  <2>3. CASE Authorized(c)
    BY <2>3 DEF Authorized, LoopFor, KeepClient, Step, At, login, account
  <2>4. CASE Invalid(c)
    BY <2>4 DEF Invalid, CancelLoop, Step, At, login, account
  <2>5. CASE AuthRaises(c)
    BY <2>5 DEF AuthRaises, Step, At, login, account
  <2> QED  BY <1>2, <2>1, <2>2, <2>3, <2>4, <2>5 DEF Engine
<1>3. ASSUME NEW c \in Clients, Drop(c) PROVE TypeOK'
  BY <1>3 DEF Drop, Fault, Step, At, login, account
<1>4. CASE List \/ CleanUp \/ Disconnect \/ LoopEnds \/ LoopRevoked
  BY <1>4 DEF List, CleanUp, Disconnect, LoopEnds, LoopRevoked, TooOld, DropListed,
              CancelLoop, login, account
<1>5. CASE UNCHANGED vars
  BY <1>5 DEF vars, login, account
<1> QED  BY <1>1, <1>2, <1>3, <1>4, <1>5 DEF Next

\* A step of a login preserves the invariant.
LEMMA LoginStep ==
  ASSUME Inv, TypeOK', NEW c \in Clients, Login(c)
  PROVE  Inv'
<1> USE ClientsAssumption DEF Inv, BusyHaveMet, Busy, KeptRest, Unconnected, PlaceIsFree, Owned,
               Excused, PendingIsOpen, LoopIsEngines, TypeOK
<1>1. CASE SendCode(c)
  BY <1>1 DEF SendCode, Meets, DropOld, Step, At, login, account
<1>2. CASE Connect(c)
  BY <1>2 DEF Connect, Step, At, login, account
<1>3. CASE CodeSent(c)
  BY <1>3 DEF CodeSent, Step, At, login, account
<1>4. CASE CodeFails(c)
  BY <1>4 DEF CodeFails, CloseFailed, Step, At, login, account
<1>5. CASE Expire(c)
  BY <1>5 DEF Expire, Step, At, login, account
<1>6. CASE Verify(c)
  BY <1>6 DEF Verify, Meets, Step, At, login, account
<1>7. CASE SignInFails(c)
  BY <1>7 DEF SignInFails, Step, At, login, account
<1>8. CASE SignIn(c)
  BY <1>8 DEF SignIn, Step, At, login, account
<1>9. CASE Finish(c)
  BY <1>9 DEF Finish, Step, At, login, account
<1>10. CASE FinishFails(c)
  BY <1>10 DEF FinishFails, Step, At, login, account
<1>11. CASE Logged(c)
  BY <1>11 DEF Logged, Step, At, login, account
<1>12. CASE LogFails(c)
  BY <1>12 DEF LogFails, Fault, CloseFailed, Step, At, login, account
<1> HIDE DEF Inv
<1> QED
  BY <1>1, <1>2, <1>3, <1>4, <1>5, <1>6, <1>7, <1>8, <1>9, <1>10, <1>11, <1>12 DEF Login

\* So does a step of the engine.
LEMMA EngineStep ==
  ASSUME Inv, TypeOK', NEW c \in Clients, Engine(c)
  PROVE  Inv'
<1> USE ClientsAssumption DEF Inv, BusyHaveMet, Busy, KeptRest, Unconnected, PlaceIsFree, Owned,
               Excused, PendingIsOpen, LoopIsEngines, TypeOK
<1>1. CASE GetClient(c)
  BY <1>1 DEF GetClient, Meets, LoopFor, Step, At, login, account
<1>2. CASE Dial(c)
  BY <1>2 DEF Dial, Step, At, login, account
<1>3. CASE Authorized(c)
  BY <1>3 DEF Authorized, LoopFor, KeepClient, Step, At, login, account
<1>4. CASE Invalid(c)
  BY <1>4 DEF Invalid, CancelLoop, Step, At, login, account
<1>5. CASE AuthRaises(c)
  BY <1>5 DEF AuthRaises, Step, At, login, account
<1> HIDE DEF Inv
<1> QED  BY <1>1, <1>2, <1>3, <1>4, <1>5 DEF Engine

LEMMA InvStep == Inv /\ [Next]_vars => Inv'
<1> SUFFICES ASSUME Inv, [Next]_vars PROVE Inv'
  OBVIOUS
<1>0. TypeOK'
  BY TypeStep DEF Inv
<1>1. ASSUME NEW c \in Clients, Login(c) \/ Engine(c) PROVE Inv'
  BY <1>0, <1>1, LoginStep, EngineStep
<1> USE ClientsAssumption
    DEF login, account, BusyHaveMet, Busy, KeptRest, Unconnected, PlaceIsFree, Owned,
        Excused, PendingIsOpen, LoopIsEngines, TypeOK, Inv
<1>2. ASSUME NEW c \in Clients, Drop(c) PROVE Inv'
  BY <1>0, <1>2 DEF Drop, Fault
<1>3. CASE List
  BY <1>0, <1>3 DEF List, TooOld
<1>4. CASE CleanUp
  BY <1>0, <1>4 DEF CleanUp, DropListed
<1>5. CASE Disconnect
  BY <1>0, <1>5 DEF Disconnect, CancelLoop
<1>6. CASE LoopEnds
  BY <1>0, <1>6 DEF LoopEnds, CancelLoop
<1>7. CASE LoopRevoked
  BY <1>0, <1>7 DEF LoopRevoked, CancelLoop
<1>8. CASE UNCHANGED vars
  BY <1>8 DEF vars
<1> HIDE DEF Inv
<1> QED  BY <1>1, <1>2, <1>3, <1>4, <1>5, <1>6, <1>7, <1>8 DEF Next

LEMMA InvHolds == Spec => []Inv
BY InvInit, InvStep, PTL DEF Spec

\* The state of the clients keeps its type.
THEOREM TypeCorrect == Spec => []TypeOK
<1>1. Inv => TypeOK
  BY DEF Inv
<1> QED  BY <1>1, InvHolds, PTL

\* However requests interleave, a client that stays open is known to the logins,
\* to the engine or to a request in progress, unless its request overlapped with
\* another, a login was completed with it, or a call on it failed.
THEOREM NobodyIsOrphaned == Spec => []NoOrphans
<1>1. Inv => NoOrphans
  BY ClientsAssumption DEF Inv, Owned, Excused, NoOrphans, Busy, TypeOK
<1> QED  BY <1>1, InvHolds, PTL

\* A login that is pending can be completed: its client is open, unless requests
\* met, Telegram closed it, or the log row of the sent code was not written.
THEOREM PendingStaysOpen == Spec => []PendingIsOpen
<1>1. Inv => PendingIsOpen
  BY DEF Inv
<1> QED  BY <1>1, InvHolds, PTL

\* The loop that keeps a client open runs for the client of the engine.
THEOREM LoopMatches == Spec => []LoopIsEngines
<1>1. Inv => LoopIsEngines
  BY DEF Inv
<1> QED  BY <1>1, InvHolds, PTL
=============================================================================
