----------------------------- MODULE MCRamdisk -----------------------------
(***************************************************************************)
(* Ramdisk for TLC: four names, one of them too long, a table of two       *)
(* entries and a disk of three blocks of two bytes.  The writes stay       *)
(* inside a block, leave a hole, need one, two or three blocks and end in  *)
(* the middle of one.                                                      *)
(***************************************************************************)
EXTENDS Ramdisk
MCWrites == {<<1, 1>>, <<2, 1>>, <<0, 5>>}
=============================================================================
