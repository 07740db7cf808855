-------------------------- MODULE MCReplyPipeline --------------------------
(***************************************************************************)
(* Small instances of ReplyPipeline for TLC.                               *)
(***************************************************************************)
EXTENDS ReplyPipeline, TLC

CONSTANTS w1, w2, g1, g2, m1, m2, m3

\* One group, its pair of accounts never reassigned.
OneGroup    == [m \in Msgs |-> g1]
FixedPair   == {[c \in Chats |-> [primary |-> 1, backup |-> 2]]}
\* The pair may be swapped by a new assignment.
SwappedPair == FixedPair \cup {[c \in Chats |-> [primary |-> 2, backup |-> 1]]}
\* One account for the only group, as when there is no spare one.
LonePair    == {[c \in Chats |-> [primary |-> 1, backup |-> 1]]}

\* Workers are alike; so are messages of one group that are all in threads.
FullSymmetry   == Permutations(Workers) \cup Permutations(Msgs)
=============================================================================
