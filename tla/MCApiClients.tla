---------------------------- MODULE MCApiClients ----------------------------
(***************************************************************************)
(* A small instance of ApiClients for TLC.                                 *)
(***************************************************************************)
EXTENDS ApiClients

CONSTANTS c1, c2
=============================================================================
