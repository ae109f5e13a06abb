----------------------------- MODULE MCConsole -----------------------------
(***************************************************************************)
(* Console on a screen of two rows and two columns, with texts of up to    *)
(* six characters that are also paths and formats; a path of six fills its *)
(* buffer.                                                                 *)
(***************************************************************************)
EXTENDS Console
MCCharacters == {"s", "d", "x", ".", "/", "%", "\n"}
MCNumbers == {-12, 0, 175}
=============================================================================
