---------------------------- MODULE MCGoPipeline ----------------------------
(***************************************************************************)
(* Small instances of GoPipeline for TLC.                                  *)
(***************************************************************************)
EXTENDS GoPipeline

CONSTANTS w1, w2, g1, m1, m2, j1, j2, j3, a1

\* Two jobs of the first message, which is at the top level; one of the second,
\* which is in a thread.
TwoOfTheFirst == [j \in Jobs |-> IF j = j3 THEN m2 ELSE m1]
Threads == {j \in Jobs : MsgOf[j] = m2}

\* One group, with one account that is both of its pair.
OneGroup == [j \in Jobs |-> g1]
OneAccount == [c \in Chats |-> [primary |-> a1, backup |-> a1]]
=============================================================================
