----------------------------- MODULE MCStorage -----------------------------
(***************************************************************************)
(* Storage with registers of three values: calls for two sectors and for   *)
(* as many as a register counts (none, to the driver), at an address that  *)
(* fills every register and whose successor carries into the next one.     *)
(***************************************************************************)
EXTENDS Storage
=============================================================================
