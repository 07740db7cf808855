---------------------------- MODULE ReplyPromise ----------------------------
(***************************************************************************)
(* What the reply pipeline promises about each message, whatever the       *)
(* listeners, the queue and the workers do: it is accepted once, answered  *)
(* while its job is pending and at most MaxReplies times, and once its job *)
(* is closed nothing is ever posted for it again.                          *)
(***************************************************************************)
EXTENDS Naturals

CONSTANTS Msgs, MaxReplies
VARIABLES phase, posted

Init ==
  /\ phase = [m \in Msgs |-> "fresh"]
  /\ posted = [m \in Msgs |-> 0]

Accept(m) ==
  /\ phase[m] = "fresh"
  /\ phase' = [phase EXCEPT ![m] = "pending"]
  /\ posted' = posted

Post(m) ==
  /\ phase[m] = "pending" /\ posted[m] < MaxReplies
  /\ posted' = [posted EXCEPT ![m] = @ + 1]
  /\ phase' = phase

\* A job ends alone; the jobs of a crashed worker end together.
Close(S) ==
  /\ \A m \in S : phase[m] = "pending"
  /\ phase' = [m \in Msgs |-> IF m \in S THEN "closed" ELSE phase[m]]
  /\ posted' = posted

Next ==
  \/ \E m \in Msgs : Accept(m) \/ Post(m)
  \/ \E S \in SUBSET Msgs : Close(S)

Spec == Init /\ [][Next]_<<phase, posted>>
=============================================================================
