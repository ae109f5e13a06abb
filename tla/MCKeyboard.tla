----------------------------- MODULE MCKeyboard -----------------------------
(***************************************************************************)
(* Keyboard for TLC: both shift and both control keys, the right alt key,  *)
(* caps lock, the digits 1 and 2, both Enter keys, the letter j (with      *)
(* control it is a line feed, the character of Enter) and F1; two of them  *)
(* are down at a time.                                                     *)
(***************************************************************************)
EXTENDS Keyboard
Plain(code) == [prefixed |-> FALSE, code |-> code]
Prefixed(code) == [prefixed |-> TRUE, code |-> code]
MCKeys ==
  {Plain(KEY_LSHIFT), Plain(KEY_RSHIFT), Prefixed(KEY_RCTRL),
   Plain(KEY_LCTRL), Prefixed(KEY_RALT), Plain(KEY_CAPSLOCK),
   Plain(2), Plain(3), Plain(28), Prefixed(28), Plain(36), Plain(KEY_F1)}
=============================================================================
