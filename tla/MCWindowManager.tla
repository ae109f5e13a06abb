-------------------------- MODULE MCWindowManager --------------------------
(***************************************************************************)
(* WindowManager for TLC: up to three windows at four interchangeable      *)
(* addresses, on a screen where the title bar is two rows high and its     *)
(* close button one point.  The mouse visits the corner and the close      *)
(* button of a new window: dragging from one to the other moves a window   *)
(* off the screen (modulo COORD) or next to the origin.                    *)
(***************************************************************************)
EXTENDS WindowManager

CONSTANTS a1, a2, a3, a4
MCAddrs == {a1, a2, a3, a4}
AnyAddress == Permutations(MCAddrs)

MCShapes == {<<0, 0, 3, 3>>}
MCPoints == {<<0, 0>>, <<1, 1>>}
=============================================================================
