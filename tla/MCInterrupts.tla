---------------------------- MODULE MCInterrupts ----------------------------
(***************************************************************************)
(* Interrupts for TLC: counters narrow enough to wrap, handlers nested up  *)
(* to three deep.                                                          *)
(***************************************************************************)
EXTENDS Interrupts
=============================================================================
