-------------------------- MODULE MCShiftRotation --------------------------
(***************************************************************************)
(* Small instances of ShiftRotation for TLC.                               *)
(***************************************************************************)
EXTENDS ShiftRotation
=============================================================================
