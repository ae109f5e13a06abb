------------------------------- MODULE MCHeap -------------------------------
(***************************************************************************)
(* Heap on a small memory: a header is 2 bytes, a page 10, sizes round up  *)
(* to 2.  The configurations give the other constants.                     *)
(***************************************************************************)
EXTENDS Heap

(* calloc(0, 3), calloc(2, 2), and calloc(13, 5), whose product wraps to 1. *)
MCCallocArgs == {<<0, 3>>, <<2, 2>>, <<13, 5>>}

=============================================================================
