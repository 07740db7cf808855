----------------------------- MODULE RateLimit -----------------------------
(***************************************************************************)
(* The rate limit of one replier account in the Go backend                 *)
(* (CheckAndIncrRateLimit): a counter in Redis that reply goroutines of    *)
(* all workers read, then increment, then give a time to live; or, when    *)
(* Redis could not be reached at startup, a counter in memory.  Time       *)
(* passes in ticks, WindowLen of which make the 60 seconds of the code.    *)
(* Names that QueueFallback has as well begin with rate: one module holds  *)
(* the proofs about both.                                                  *)
(***************************************************************************)
EXTENDS Naturals

CONSTANTS
  Threads,        \* goroutines that run dispatchReply for this account
  Limit,          \* maxPerMinute, 10 in the code
  WindowLen,      \* 60 s, in ticks
  MaxRateFaults,  \* bound on Redis errors and worker crashes
  NoTTL           \* the key does not exist or never expires

ASSUME RateAssumption ==
  /\ Limit \in Nat \ {0}
  /\ WindowLen \in Nat \ {0}
  /\ MaxRateFaults \in Nat
  /\ NoTTL \notin Nat

VARIABLES
  rateRedis,   \* did connect() reach Redis?
  count,       \* the counter; in Redis, 0 means that the key does not exist
  ttl,         \* ticks until Redis deletes the key
  pc,          \* what each goroutine does next
  rateFaults,  \* faults so far
  taken,       \* history: calls the current counter has let through
  recent       \* history: recent[k] calls were let through in the last k + 1 ticks

\* How many ticks ago a call of the last minute was let through.
Ages == 0..WindowLen - 1

rateVars == <<rateRedis, count, ttl, pc, rateFaults, taken, recent>>

RateTypeOK ==
  /\ rateRedis \in BOOLEAN
  /\ count \in Nat
  /\ ttl \in 1..WindowLen \cup {NoTTL}
  /\ pc \in [Threads -> {"get", "incr", "expire"}]
  /\ rateFaults \in 0..MaxRateFaults
  /\ taken \in Nat
  /\ recent \in [Ages -> Nat]

RateInit ==
  /\ rateRedis \in BOOLEAN
  /\ count = 0 /\ ttl = NoTTL
  /\ pc = [t \in Threads |-> "get"]
  /\ rateFaults = 0
  /\ taken = 0 /\ recent = [k \in Ages |-> 0]

Goto(t, step) == pc' = [pc EXCEPT ![t] = step]
LetThrough    == recent' = [k \in Ages |-> recent[k] + 1]
Fault         == rateFaults < MaxRateFaults /\ rateFaults' = rateFaults + 1

\* Under the limit the call goes on; at the limit it returns false.
Get(t) ==
  /\ rateRedis /\ pc[t] = "get" /\ count < Limit
  /\ Goto(t, "incr")
  /\ UNCHANGED <<rateRedis, count, ttl, rateFaults, taken, recent>>

\* An unreadable counter is taken for one under the limit.
GetFails(t) ==
  /\ rateRedis /\ pc[t] = "get" /\ Fault
  /\ Goto(t, "incr")
  /\ UNCHANGED <<rateRedis, count, ttl, taken, recent>>

\* Mutant: the call trusts its first read.
IncrUnchecked(t) ==
  /\ pc[t] = "incr"
  /\ count' = count + 1
  /\ taken' = taken + 1 /\ LetThrough
  /\ Goto(t, IF count = 0 THEN "expire" ELSE "get")
  /\ UNCHANGED <<rateRedis, ttl, rateFaults>>

\* INCR: its result decides, and the first one has the expiry to set.
Incr(t) ==
  /\ pc[t] = "incr"
  /\ count' = count + 1
  /\ IF count + 1 <= Limit
     THEN taken' = taken + 1 /\ LetThrough
     ELSE UNCHANGED <<taken, recent>>
  /\ Goto(t, IF count = 0 THEN "expire" ELSE "get")
  /\ UNCHANGED <<rateRedis, ttl, rateFaults>>

\* A failed INCR lets the call through.
IncrFails(t) ==
  /\ pc[t] = "incr" /\ Fault
  /\ LetThrough
  /\ Goto(t, "get")
  /\ UNCHANGED <<rateRedis, count, ttl, taken>>

\* Mutant: the expiry is never set.
ExpireForgotten(t) ==
  /\ pc[t] = "expire"
  /\ Goto(t, "get")
  /\ UNCHANGED <<rateRedis, count, ttl, rateFaults, taken, recent>>

\* Mutant: the key lives one tick only.
ExpireEarly(t) ==
  /\ pc[t] = "expire"
  /\ ttl' = 1
  /\ Goto(t, "get")
  /\ UNCHANGED <<rateRedis, count, rateFaults, taken, recent>>

Expire(t) ==
  /\ pc[t] = "expire"
  /\ ttl' = WindowLen
  /\ Goto(t, "get")
  /\ UNCHANGED <<rateRedis, count, rateFaults, taken, recent>>

\* EXPIRE fails, and its error is ignored; or the worker dies before a step.
ExpireFails(t) ==
  /\ pc[t] = "expire" /\ Fault
  /\ Goto(t, "get")
  /\ UNCHANGED <<rateRedis, count, ttl, taken, recent>>

Crash(t) ==
  /\ pc[t] # "get" /\ Fault
  /\ Goto(t, "get")
  /\ UNCHANGED <<rateRedis, count, ttl, taken, recent>>

\* The fallback, under the mutex; nothing ever resets its counter.
TakeInMemory(t) ==
  /\ ~rateRedis /\ count < Limit
  /\ count' = count + 1
  /\ taken' = taken + 1 /\ LetThrough
  /\ UNCHANGED <<rateRedis, ttl, pc, rateFaults>>

\* Time passes; Redis deletes the key when its time is over.
Tick ==
  /\ recent' = [k \in Ages |-> IF k = 0 THEN 0 ELSE recent[k - 1]]
  /\ \/ ttl = NoTTL /\ UNCHANGED <<count, ttl, taken>>
     \/ ttl = 1 /\ count' = 0 /\ ttl' = NoTTL /\ taken' = 0
     \/ ttl \in 2..WindowLen /\ ttl' = ttl - 1 /\ UNCHANGED <<count, taken>>
  /\ UNCHANGED <<rateRedis, pc, rateFaults>>

RateNext ==
  \/ \E t \in Threads : \/ Get(t) \/ GetFails(t) \/ Incr(t) \/ IncrFails(t)
                        \/ Expire(t) \/ ExpireFails(t) \/ Crash(t)
                        \/ TakeInMemory(t)
  \/ Tick

RateSpec == RateInit /\ [][RateNext]_rateVars

\* Goroutines run on, and time passes.
RateFairSpec ==
  /\ RateSpec /\ WF_rateVars(Tick)
  /\ \A t \in Threads : WF_rateVars(Incr(t)) /\ WF_rateVars(Expire(t))

-----------------------------------------------------------------------------
\* However the goroutines of all workers interleave their GET and INCR, one
\* counter lets no more than Limit calls through.
WindowBound == taken <= Limit

\* A window starts with its first call, so the last minute overlaps at most
\* two of them; each Redis error can let one more call through.
SlidingBound == recent[WindowLen - 1] <= 2 * Limit + rateFaults

\* Unless something failed, a counter without a time to live has a goroutine
\* that is about to set it: no window is left open for ever.
ExpiryPending ==
  rateRedis /\ count > 0 /\ ttl = NoTTL /\ rateFaults = 0
    => \E t \in Threads : pc[t] = "expire"

\* A used up limit is lifted again, unless something failed: the goroutine that
\* made the key gives it its time to live.
LimitLifts == rateRedis /\ count >= Limit ~> count < Limit \/ rateFaults > 0
=============================================================================
