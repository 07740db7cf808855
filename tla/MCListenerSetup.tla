------------------------- MODULE MCListenerSetup -------------------------
(***************************************************************************)
(* Small instances of ListenerSetup for TLC.                               *)
(***************************************************************************)
EXTENDS ListenerSetup

CONSTANTS a1, a2, g1, g2

\* Either account listens to both groups, or each to one.
TwoGroups ==
  {[a \in Accounts |-> IF a = x THEN Groups ELSE {}] : x \in Accounts}
    \cup {[a \in Accounts |-> IF a = a1 THEN {g1} ELSE {g2}]}
==========================================================================
