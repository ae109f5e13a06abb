--------------------------- MODULE MCKernelMemory ---------------------------
(***************************************************************************)
(* KernelMemory on four pages of 10 bytes: two virtual pages of one table,  *)
(* one that shares only their page directory, one under another root       *)
(* entry, one in a huge page of the boot loader and one of the first four  *)
(* megabytes.                                                              *)
(***************************************************************************)
EXTENDS KernelMemory
MCCallocArgs == {}
MCPages ==
  {<<0, 2, 0, 0>>, <<0, 2, 0, 1>>, <<0, 2, 1, 0>>, <<1, 0, 0, 0>>,
   <<0, 0, 2, 0>>, <<0, 0, 1, 0>>}
=============================================================================
