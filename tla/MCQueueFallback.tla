--------------------------- MODULE MCQueueFallback ---------------------------
(***************************************************************************)
(* A small instance of QueueFallback for TLC.                              *)
(***************************************************************************)
EXTENDS QueueFallback

CONSTANTS w1, w2, m1
=============================================================================
