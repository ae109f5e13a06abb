------------------------------- MODULE MCPs2 -------------------------------
(***************************************************************************)
(* Ps2 for TLC: a small screen and three motions.  The bytes of the first  *)
(* look like first bytes of a packet (bit 3 set), those of the second do   *)
(* not and reach over the edges, and the third is too long for int8_t.     *)
(***************************************************************************)
EXTENDS Ps2
MCMotions ==
  {[buttons |-> 1, dx |-> -1, dy |-> -8], [buttons |-> 0, dx |-> -128, dy |-> 3],
   [buttons |-> 1, dx |-> -253, dy |-> 0]}
=============================================================================
