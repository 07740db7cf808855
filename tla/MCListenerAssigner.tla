------------------------ MODULE MCListenerAssigner ------------------------
(***************************************************************************)
(* Small instances of ListenerAssigner for TLC.                            *)
(***************************************************************************)
EXTENDS ListenerAssigner

CONSTANTS loop, request, w1

\* One group, and more listeners than it needs from an earlier life.
FullInit == Init /\ targets = {1} /\ healthy = Accounts /\ listeners = Accounts

FullFairSpec == FullInit /\ [][Next]_vars /\ Fairness
===========================================================================
