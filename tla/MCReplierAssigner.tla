------------------------- MODULE MCReplierAssigner -------------------------
(***************************************************************************)
(* Small instances of ReplierAssigner for TLC.                             *)
(***************************************************************************)
EXTENDS ReplierAssigner

CONSTANTS w1, w2, api, start

\* The API process assigns for every worker, a starting worker for itself.
Assigners == [c \in Callers |-> IF c = api THEN Workers ELSE {w1}]

\* All groups are targets at the beginning; later ones come and go.
FullInit == Init /\ targets = Groups
=============================================================================
