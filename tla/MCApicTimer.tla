---------------------------- MODULE MCApicTimer ----------------------------
(***************************************************************************)
(* Calibration with 10 ms of 20 ticks of the PIT; a step of the code may   *)
(* take two of them.                                                       *)
(***************************************************************************)
EXTENDS ApicTimer
=============================================================================
