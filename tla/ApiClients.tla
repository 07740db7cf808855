----------------------------- MODULE ApiClients -----------------------------
(***************************************************************************)
(* The Telegram clients that the API process (Python) opens for one        *)
(* account: those of logins, kept in pending_auths until the code and the  *)
(* password are verified or the entry is too old (api.py), and those of    *)
(* the engine, kept in clients and client_tasks (telethon_engine.py).      *)
(* Requests are tasks of one event loop that overlap at their awaits.      *)
(* Every request that opens a client is named by it.                       *)
(***************************************************************************)
EXTENDS Naturals, FiniteSets

CONSTANTS
  Clients,    \* client objects that may be opened
  NoClient,   \* no client
  MaxFaults   \* bound on dropped connections and unwritten log rows

ASSUME ClientsAssumption == NoClient \notin Clients /\ MaxFaults \in Nat

VARIABLES
  pc,       \* where the request that opens the client is
  open,     \* the clients that are connected
  entry,    \* pending_auths: the client of the login
  stale,    \* clients of logins older than PENDING_AUTH_TTL_SECONDS
  verify,   \* where the verification that uses the client is
  listed,   \* has a cleanup pass found the entry too old?
  engine,   \* the engine's client
  loop,     \* the client of the engine's client loop
  faults,   \* dropped connections and unwritten log rows so far
  signed,   \* history: clients a login was completed with
  failed,   \* history: clients that Telegram dropped or a call failed on
  met       \* history: clients of requests that overlapped with another one

login   == <<entry, stale, verify, listed>>
account == <<engine, loop>>
vars    == <<pc, open, login, account, faults, signed, failed, met>>

TypeOK ==
  /\ pc \in [Clients -> {"unused", "connect", "code", "log", "dial", "auth", "rest"}]
  /\ open \subseteq Clients
  /\ {entry, engine, loop} \subseteq Clients \cup {NoClient}
  /\ stale \subseteq Clients
  /\ verify \in [Clients -> {"none", "signin", "row"}]
  /\ listed \in BOOLEAN
  /\ faults \in 0..MaxFaults
  /\ signed \subseteq Clients /\ failed \subseteq Clients /\ met \subseteq Clients

Init ==
  /\ pc = [c \in Clients |-> "unused"]
  /\ open = {} /\ entry = NoClient /\ stale = {}
  /\ verify = [c \in Clients |-> "none"]
  /\ listed = FALSE /\ engine = NoClient /\ loop = NoClient
  /\ faults = 0 /\ signed = {} /\ failed = {} /\ met = {}

-----------------------------------------------------------------------------
\* The clients that a request is working with.
Busy == {c \in Clients : pc[c] \notin {"unused", "rest"} \/ verify[c] # "none"}

\* A request for client c starts: which others does it meet?
Meets(c) == met' = IF Busy \subseteq {c} THEN met ELSE met \cup Busy \cup {c}

Step(c, p) == pc' = [pc EXCEPT ![c] = p]
At(c, p)   == pc[c] = p

Fault(c) == faults < MaxFaults /\ faults' = faults + 1 /\ failed' = failed \cup {c}

(* Login: send_auth_code, verify_auth_code, verify_auth_password.          *)

\* Mutant: the client of an earlier login is left alone.
KeepOld == UNCHANGED <<entry, open>>

\* The client of an earlier login is closed.
DropOld == entry' = NoClient /\ open' = open \ {entry}

SendCode(c) ==
  /\ At(c, "unused") /\ Meets(c)
  /\ DropOld
  /\ Step(c, "connect")
  /\ UNCHANGED <<stale, verify, listed, account, faults, signed, failed>>

Connect(c) ==
  /\ At(c, "connect")
  /\ \/ open' = open \cup {c} /\ Step(c, "code")
     \/ open' = open /\ Step(c, "rest")
  /\ UNCHANGED <<login, account, faults, signed, failed, met>>

CloseFailed(c) == open' = open \ {c}

\* The code is requested and the entry is made, whatever is there by now.
CodeSent(c) ==
  /\ At(c, "code") /\ c \in open
  /\ entry' = c /\ Step(c, "log")
  /\ UNCHANGED <<open, stale, verify, listed, account, faults, signed, failed, met>>

Logged(c) ==
  /\ At(c, "log") /\ Step(c, "rest")
  /\ UNCHANGED <<open, login, account, faults, signed, failed, met>>

\* The log row cannot be written: the client is closed, and the entry stays.
LogFails(c) ==
  /\ At(c, "log") /\ Fault(c)
  /\ CloseFailed(c) /\ Step(c, "rest")
  /\ UNCHANGED <<login, account, signed, met>>

CodeFails(c) ==
  /\ At(c, "code") /\ CloseFailed(c)
  /\ Step(c, "rest")
  /\ UNCHANGED <<login, account, faults, signed, failed, met>>

\* One verification at a time uses a client.
Verify(c) ==
  /\ entry = c /\ verify[c] = "none" /\ Meets(c)
  /\ verify' = [verify EXCEPT ![c] = "signin"]
  /\ UNCHANGED <<pc, open, entry, stale, listed, account, faults, signed, failed>>

\* Signing in fails, or needs a password: the entry stays as it is.
SignInFails(c) ==
  /\ verify[c] = "signin"
  /\ verify' = [verify EXCEPT ![c] = "none"]
  /\ UNCHANGED <<pc, open, entry, stale, listed, account, faults, signed, failed, met>>

SignIn(c) ==
  /\ verify[c] = "signin" /\ c \in open
  /\ verify' = [verify EXCEPT ![c] = "row"]
  /\ signed' = signed \cup {c}
  /\ UNCHANGED <<pc, open, entry, stale, listed, account, faults, failed, met>>

\* The account is saved and the entry removed, whichever login it belongs to by
\* now; nothing closes the client.
Finish(c) ==
  /\ verify[c] = "row"
  /\ verify' = [verify EXCEPT ![c] = "none"]
  /\ entry' = NoClient
  /\ UNCHANGED <<pc, open, stale, listed, account, faults, signed, failed, met>>

\* Saving fails: the entry stays.
FinishFails(c) ==
  /\ verify[c] = "row"
  /\ verify' = [verify EXCEPT ![c] = "none"]
  /\ UNCHANGED <<pc, open, entry, stale, listed, account, faults, signed, failed, met>>

\* Time passes.
Expire(c) ==
  /\ entry = c /\ c \notin stale
  /\ stale' = stale \cup {c}
  /\ UNCHANGED <<pc, open, entry, verify, listed, account, faults, signed, failed, met>>

\* Mutant: entries whose client is open are taken for logins in progress.
TooOldAndClosed == entry \in stale \ open

TooOld == entry \in stale

\* cleanup_stale_pending_auths lists the old entries of all accounts ...
List ==
  /\ ~listed /\ TooOld
  /\ listed' = TRUE
  /\ UNCHANGED <<pc, open, entry, stale, verify, account, faults, signed, failed, met>>

\* Mutant: the client is closed and the entry forgotten.
CloseListed == open' = open \ {entry} /\ entry' = entry

DropListed == open' = open \ {entry} /\ entry' = NoClient

\* ... and then removes them one by one, whatever is there by then.
CleanUp ==
  /\ listed /\ listed' = FALSE
  /\ DropListed
  /\ UNCHANGED <<pc, stale, verify, account, faults, signed, failed, met>>

-----------------------------------------------------------------------------
(* Engine: get_client_for_account, handle_invalid_session, disconnects.    *)

\* The loop of a client is started unless one is running.
LoopFor(c) == loop' = IF loop = NoClient THEN c ELSE loop

\* The client there is, when it is connected; else a new one is dialled.
GetClient(c) ==
  /\ IF engine \in open
     THEN c = engine /\ LoopFor(c) /\ UNCHANGED <<pc, met>>
     ELSE At(c, "unused") /\ Meets(c) /\ Step(c, "dial") /\ loop' = loop
  /\ UNCHANGED <<open, login, engine, faults, signed, failed>>

Dial(c) ==
  /\ At(c, "dial")
  /\ \/ open' = open \cup {c} /\ Step(c, "auth")
     \/ open' = open /\ Step(c, "rest")
  /\ UNCHANGED <<login, account, faults, signed, failed, met>>

\* Mutant: a client is kept when one was kept before.
KeepFirst(c) == IF engine = NoClient THEN engine' = c ELSE engine' = engine

KeepClient(c) == engine' = c

Authorized(c) ==
  /\ At(c, "auth") /\ c \in open
  /\ LoopFor(c) /\ KeepClient(c)
  /\ Step(c, "rest")
  /\ UNCHANGED <<open, login, faults, signed, failed, met>>

\* The client's loop is cancelled, which closes the client it runs for.
CancelLoop == loop' = NoClient

\* The session is not authorized: handle_invalid_session with the new client.
Invalid(c) ==
  /\ At(c, "auth") /\ CancelLoop
  /\ open' = open \ {c, loop}
  /\ Step(c, "rest")
  /\ UNCHANGED <<login, engine, faults, signed, failed, met>>

\* Asking raises any other error: the new client is dropped as it is.
AuthRaises(c) ==
  /\ At(c, "auth")
  /\ failed' = failed \cup {c}
  /\ Step(c, "rest")
  /\ UNCHANGED <<open, login, account, faults, signed, met>>

\* disconnect_account: the account is deleted.
Disconnect ==
  /\ engine # NoClient \/ loop # NoClient
  /\ CancelLoop /\ engine' = NoClient
  /\ open' = open \ {loop, engine}
  /\ UNCHANGED <<pc, login, faults, signed, failed, met>>

\* The client was closed: its loop ends.
LoopEnds ==
  /\ loop # NoClient /\ loop \notin open
  /\ CancelLoop
  /\ UNCHANGED <<pc, open, login, engine, faults, signed, failed, met>>

\* The loop learns that the session is revoked: handle_invalid_session cancels
\* the loop it is running in, and closes its client.
LoopRevoked ==
  /\ loop \in open
  /\ CancelLoop /\ open' = open \ {loop}
  /\ UNCHANGED <<pc, login, engine, faults, signed, failed, met>>

\* Telegram closes a connection.
Drop(c) ==
  /\ c \in open /\ Fault(c)
  /\ open' = open \ {c}
  /\ UNCHANGED <<pc, login, account, signed, met>>

Login(c) ==
  \/ SendCode(c) \/ Connect(c) \/ CodeSent(c) \/ CodeFails(c) \/ Logged(c)
  \/ LogFails(c) \/ Expire(c)
  \/ Verify(c) \/ SignInFails(c) \/ SignIn(c) \/ Finish(c) \/ FinishFails(c)

Engine(c) == GetClient(c) \/ Dial(c) \/ Authorized(c) \/ Invalid(c) \/ AuthRaises(c)

Next ==
  \/ \E c \in Clients : Login(c) \/ Engine(c) \/ Drop(c)
  \/ List \/ CleanUp \/ Disconnect \/ LoopEnds \/ LoopRevoked

Spec == Init /\ [][Next]_vars

\* The cleanup runs every minute.
FairSpec == Spec /\ WF_vars(List) /\ WF_vars(CleanUp)

-----------------------------------------------------------------------------
\* A client that stays open is known: to the logins, to the engine or to a request
\* in progress. Excepted are the clients of requests that overlapped, of logins
\* that were completed (nothing ever closes them) and of calls that failed.
NoOrphans ==
  \A c \in open \ (met \cup signed \cup failed) :
    c \in {entry, engine, loop} \cup Busy

\* The client of a pending login is open, so the login can be completed, unless
\* requests overlapped, Telegram dropped the client, or the log row of the sent
\* code could not be written (which closes the client and keeps the entry).
PendingIsOpen ==
  entry # NoClient => entry \in open \cup met \cup failed

\* The loop that runs is that of the engine's client, and so an account that is
\* disconnected leaves no client of the engine open, but for overlaps.
LoopIsEngines ==
  loop \in open \ (met \cup failed) => loop = engine

\* A login that is too old goes away, and its client is closed unless a login was
\* completed with it or another request overlapped.
StaleGone ==
  \A c \in Clients :
    (entry = c /\ c \in stale) ~>
      (entry # c /\ (c \in open => c \in signed \cup met))
=============================================================================
