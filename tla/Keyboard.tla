------------------------------ MODULE Keyboard ------------------------------
(***************************************************************************)
(* From a key to the setup wizard: the scan-code decoder                   *)
(* (drivers/keyboard/keymap.c), what keyboard_handler does with a byte     *)
(* (drivers/keyboard/keyboard.c), and the callbacks of kernel/main.c with  *)
(* the wizard they drive.                                                  *)
(*                                                                         *)
(* The keyboard sends one byte per interrupt, so a key with the 0xE0       *)
(* prefix takes two runs of the handler, with the decoder's state kept in  *)
(* between.  A character is its ASCII code, as in the source.  What the    *)
(* handler does to the processor and to the PIC is in Interrupts; what     *)
(* window_handle_key does is in WindowManager.  Printing is left out.      *)
(*                                                                         *)
(* The wire is lossless: every byte of a key is handled.  The bytes that   *)
(* mouse_init throws away when it empties the controller's buffer, called  *)
(* by init_system when the callbacks are registered, are outside.          *)
(***************************************************************************)
EXTENDS Integers, Sequences, FiniteSets

CONSTANTS
  Keys,      (* the keys of the keyboard: prefixed or not, and their code  *)
  MaxHeld    (* bound: keys down at the same time                          *)

ASSUME KeysAssumption ==
  /\ Keys \subseteq [prefixed: BOOLEAN, code: 1 .. 95] /\ Keys # {}
  /\ MaxHeld \in Nat

KEY_RELEASED == 128
KEY_ESCAPE == 1
KEY_LCTRL == 29
KEY_RCTRL == 29
KEY_LSHIFT == 42
KEY_RSHIFT == 54
KEY_LALT == 56
KEY_RALT == 56
KEY_CAPSLOCK == 58
KEY_F1 == 59
KEY_F12 == 88
KEY_NUMLOCK == 69
KEY_SCROLLLOCK == 70
KEY_HOME == 71
KEY_DELETE == 83
KEY_EXTENDED == 224

SETUP_WELCOME == 0
SETUP_LANGUAGE == 1
SETUP_TIMEZONE == 5
SETUP_CONFIRM == 6
SETUP_COMPLETE == 7
Choices == SETUP_LANGUAGE .. SETUP_TIMEZONE   (* pages that ask for 1-4    *)

VARIABLES
  held,                (* external: the keys that are down                 *)
  wire,                (* external: bytes of the last key not yet read     *)
  registered,          (* callbacks set so far: scancode, char, special    *)
  keyboard_state,      (* keyboard.c's decoder state                       *)
  current_setup_state, (* main.c: the wizard's page                        *)
  system_config,       (* main.c: the digit chosen on each page, 0: none   *)
  setup_complete,      (* main.c                                           *)
  desktops,            (* how often window_init and window_init_gui ran    *)
  source,              (* ghost: the key whose bytes are on the wire       *)
  delivered            (* ghost: what the handler's last run called        *)

setupVars == <<current_setup_state, system_config, setup_complete, desktops>>
vars == <<held, wire, registered, keyboard_state, setupVars, source, delivered>>

KeyboardState ==
  [shift_pressed: BOOLEAN, ctrl_pressed: BOOLEAN, alt_pressed: BOOLEAN,
   caps_lock: BOOLEAN, num_lock: BOOLEAN, scroll_lock: BOOLEAN,
   extended: BOOLEAN]

Call(callback, c) == [callback |-> callback, char |-> c]
Nothing == Call("none", 0)

Init ==
  /\ held = {} /\ wire = <<>> /\ registered = 0
  /\ keyboard_state \in KeyboardState
  /\ \A f \in DOMAIN keyboard_state : ~keyboard_state[f]
  /\ current_setup_state = SETUP_WELCOME
  /\ system_config = [p \in Choices |-> 0]
  /\ setup_complete = FALSE /\ desktops = 0
  /\ source = [key |-> CHOOSE k \in Keys : TRUE, pressed |-> FALSE]
  /\ delivered = Nothing

-----------------------------------------------------------------------------
(* keymap.c                                                                *)

(* The two tables, from scan code 0 to 57 (Space). *)
ascii_lowercase ==
  <<0, 0, 49, 50, 51, 52, 53, 54, 55, 56, 57, 48, 45, 61, 8, 9,
    113, 119, 101, 114, 116, 121, 117, 105, 111, 112, 91, 93, 10, 0,
    97, 115, 100, 102, 103, 104, 106, 107, 108, 59, 39, 96, 0, 92,
    122, 120, 99, 118, 98, 110, 109, 44, 46, 47, 0, 42, 0, 32>>

ascii_uppercase ==
  <<0, 0, 33, 64, 35, 36, 37, 94, 38, 42, 40, 41, 95, 43, 8, 9,
    81, 87, 69, 82, 84, 89, 85, 73, 79, 80, 123, 125, 10, 0,
    65, 83, 68, 70, 71, 72, 74, 75, 76, 58, 34, 126, 0, 124,
    90, 88, 67, 86, 66, 78, 77, 60, 62, 63, 0, 42, 0, 32>>

KeyOf(scancode) == scancode % KEY_RELEASED
Released(scancode) == scancode >= KEY_RELEASED

is_special_key(scancode) ==
  \/ KeyOf(scancode) \in KEY_F1 .. KEY_F12
  \/ KeyOf(scancode) \in KEY_HOME .. KEY_DELETE
  \/ KeyOf(scancode) = KEY_ESCAPE

(* Mutant: the prefix is not forgotten. *)
AfterExtendedKept(key, pressed, state) ==
  [state EXCEPT !.ctrl_pressed = IF key = KEY_RCTRL THEN pressed ELSE @,
                !.alt_pressed = IF key = KEY_RALT THEN pressed ELSE @]

AfterExtended(key, pressed, state) ==
  [state EXCEPT !.ctrl_pressed = IF key = KEY_RCTRL THEN pressed ELSE @,
                !.alt_pressed = IF key = KEY_RALT THEN pressed ELSE @,
                !.extended = FALSE]

(* Mutant: a shift key toggles, like caps lock, on every byte. *)
AfterPlainToggles(key, pressed, state) ==
  [state EXCEPT
     !.shift_pressed = IF key \in {KEY_LSHIFT, KEY_RSHIFT} THEN ~@ ELSE @,
     !.ctrl_pressed = IF key = KEY_LCTRL THEN pressed ELSE @,
     !.alt_pressed = IF key = KEY_LALT THEN pressed ELSE @,
     !.caps_lock = IF key = KEY_CAPSLOCK /\ pressed THEN ~@ ELSE @]

AfterPlain(key, pressed, state) ==
  [state EXCEPT
     !.shift_pressed = IF key \in {KEY_LSHIFT, KEY_RSHIFT} THEN pressed ELSE @,
     !.ctrl_pressed = IF key = KEY_LCTRL THEN pressed ELSE @,
     !.alt_pressed = IF key = KEY_LALT THEN pressed ELSE @,
     !.caps_lock = IF key = KEY_CAPSLOCK /\ pressed THEN ~@ ELSE @,
     !.num_lock = IF key = KEY_NUMLOCK /\ pressed THEN ~@ ELSE @,
     !.scroll_lock = IF key = KEY_SCROLLLOCK /\ pressed THEN ~@ ELSE @]

update_keyboard_state(scancode, state) ==
  IF scancode = KEY_EXTENDED
  THEN [state EXCEPT !.extended = TRUE]
  ELSE IF state.extended
       THEN AfterExtended(KeyOf(scancode), ~Released(scancode), state)
       ELSE AfterPlain(KeyOf(scancode), ~Released(scancode), state)

CtrlCode(base) == base - 97 + 1

(* Mutant: every key of the row counts as a letter. *)
AlwaysLetter(base) == TRUE

IsLetter(base) == base \in 97 .. 122

scancode_to_ascii(scancode, state) ==
  LET key == KeyOf(scancode)
      uppercase == /\ state.shift_pressed \/ state.caps_lock
                   /\ ~(state.shift_pressed /\ state.caps_lock)
  IN IF Released(scancode) \/ state.extended THEN 0
     ELSE IF key >= Len(ascii_lowercase) THEN 0
     ELSE IF /\ state.ctrl_pressed /\ key \in 30 .. 57
             /\ IsLetter(ascii_lowercase[key + 1])
          THEN CtrlCode(ascii_lowercase[key + 1])
     ELSE IF uppercase THEN ascii_uppercase[key + 1]
     ELSE ascii_lowercase[key + 1]

-----------------------------------------------------------------------------
(* main.c: the setup wizard.                                               *)

IsEnter(c) == c \in {10, 13}
IsDigit(c) == c \in 49 .. 52

(* Mutant: the last choice already finishes the setup. *)
TurnToEarly(page) ==
  /\ current_setup_state' = page
  /\ setup_complete' = (setup_complete \/ page >= SETUP_CONFIRM)

(* Turning the page also runs run_setup_wizard, which finishes the setup   *)
(* when it shows the last page.                                            *)
TurnTo(page) ==
  /\ current_setup_state' = page
  /\ setup_complete' = (setup_complete \/ page = SETUP_COMPLETE)

(* Mutant: a digit is stored but the last page of choices is not turned. *)
SetupStays(c) ==
  \/ /\ IsEnter(c) /\ current_setup_state = SETUP_WELCOME
     /\ TurnTo(SETUP_LANGUAGE)
     /\ UNCHANGED system_config
  \/ /\ IsDigit(c) /\ current_setup_state \in Choices
     /\ system_config' = [system_config EXCEPT ![current_setup_state] = c - 48]
     /\ TurnTo(IF current_setup_state = SETUP_TIMEZONE THEN SETUP_TIMEZONE
               ELSE current_setup_state + 1)

handle_setup_input(c) ==
  \/ /\ IsEnter(c) /\ current_setup_state = SETUP_WELCOME
     /\ TurnTo(SETUP_LANGUAGE)
     /\ UNCHANGED system_config
  \/ /\ IsEnter(c) /\ current_setup_state = SETUP_CONFIRM
     /\ TurnTo(SETUP_COMPLETE)
     /\ UNCHANGED system_config
  \/ /\ IsDigit(c) /\ current_setup_state \in Choices
     /\ system_config' = [system_config EXCEPT ![current_setup_state] = c - 48]
     /\ TurnTo(current_setup_state + 1)
  \/ /\ ~(IsEnter(c) /\ current_setup_state \in {SETUP_WELCOME, SETUP_CONFIRM})
     /\ ~(IsDigit(c) /\ current_setup_state \in Choices)
     /\ UNCHANGED <<current_setup_state, system_config, setup_complete>>

keyboard_char(c) ==
  \/ /\ ~setup_complete
     /\ handle_setup_input(c)
     /\ desktops' = IF setup_complete' THEN desktops + 1 ELSE desktops
     /\ delivered' = Call("setup", c)
  \/ /\ setup_complete
     /\ delivered' = Call("window", c)
     /\ UNCHANGED setupVars

-----------------------------------------------------------------------------
(* keyboard.c                                                              *)

(* The callbacks are registered one after the other, with interrupts       *)
(* already enabled.                                                        *)
keyboard_set_callback ==
  /\ registered < 3
  /\ registered' = registered + 1
  /\ UNCHANGED <<held, wire, keyboard_state, setupVars, source, delivered>>

char_callback == registered >= 2
special_callback == registered = 3

(* The handler reads one byte.  (It finds data: the interrupt with an      *)
(* empty buffer returns at once and changes nothing here.)                 *)
keyboard_handler ==
  /\ wire # <<>>
  /\ LET scancode == Head(wire)
         state == update_keyboard_state(scancode, keyboard_state)
         c == scancode_to_ascii(scancode, state)
     IN /\ keyboard_state' = state
        /\ wire' = Tail(wire)
        /\ \/ /\ is_special_key(scancode)
              /\ delivered' = IF special_callback THEN Call("special", 0)
                              ELSE Nothing
              /\ UNCHANGED setupVars
           \/ /\ ~is_special_key(scancode) /\ char_callback /\ c # 0
              /\ keyboard_char(c)
           \/ /\ ~is_special_key(scancode) /\ ~(char_callback /\ c # 0)
              /\ delivered' = Nothing
              /\ UNCHANGED setupVars
  /\ UNCHANGED <<held, registered, source>>

-----------------------------------------------------------------------------
(* The keyboard: external, scan-code set 1 as keymap.h describes it.       *)

Send(key, pressed) ==
  /\ wire = <<>>
  /\ source' = [key |-> key, pressed |-> pressed]
  /\ wire' = (IF key.prefixed THEN <<KEY_EXTENDED>> ELSE <<>>)
              \o <<IF pressed THEN key.code ELSE key.code + KEY_RELEASED>>
  /\ UNCHANGED <<registered, keyboard_state, setupVars, delivered>>

(* A key goes down, or repeats while it is held. *)
Press(key) ==
  /\ Cardinality(held \union {key}) <= MaxHeld
  /\ held' = held \union {key}
  /\ Send(key, TRUE)

Release(key) ==
  /\ key \in held
  /\ held' = held \ {key}
  /\ Send(key, FALSE)

Next ==
  \/ keyboard_set_callback
  \/ keyboard_handler
  \/ \E key \in Keys : Press(key) \/ Release(key)

Spec == Init /\ [][Next]_vars

-----------------------------------------------------------------------------
(* Properties.                                                             *)

(* Every variable has its type; a character is a 7-bit code, also when     *)
(* scancode_to_ascii computes it from a letter (a char there is signed).   *)
TypeOK ==
  /\ held \subseteq Keys
  /\ wire \in Seq(1 .. 255) /\ Len(wire) <= 2
  /\ registered \in 0 .. 3
  /\ keyboard_state \in KeyboardState
  /\ current_setup_state \in SETUP_WELCOME .. SETUP_COMPLETE
  /\ system_config \in [Choices -> 0 .. 4]
  /\ setup_complete \in BOOLEAN /\ desktops \in Nat
  /\ source \in [key: Keys, pressed: BOOLEAN]
  /\ delivered \in [callback: {"none", "setup", "window", "special"},
                    char: 0 .. 127]

Down(prefixed, code) == [prefixed |-> prefixed, code |-> code] \in held

(* Once every byte has been handled, a modifier is not pressed if none of  *)
(* its keys is down, however presses, repeats and releases of the left and *)
(* the right key were mixed: update_keyboard_state never leaves a modifier *)
(* stuck.  (The converse fails: both shift keys share one flag, and        *)
(* releasing one ends the shift while the other is down.)                  *)
NoStuckModifier ==
  wire = <<>> =>
    /\ keyboard_state.shift_pressed =>
         Down(FALSE, KEY_LSHIFT) \/ Down(FALSE, KEY_RSHIFT)
    /\ keyboard_state.ctrl_pressed =>
         Down(FALSE, KEY_LCTRL) \/ Down(TRUE, KEY_RCTRL)
    /\ keyboard_state.alt_pressed =>
         Down(FALSE, KEY_LALT) \/ Down(TRUE, KEY_RALT)

(* The decoder remembers the prefix exactly between the two bytes of a     *)
(* prefixed key, so no other key is ever decoded as an extended one.       *)
PrefixConsumed ==
  keyboard_state.extended <=> source.key.prefixed /\ Len(wire) = 1

(* The wizard has exactly the choices of the pages it has turned, and      *)
(* setup_complete says that the last page was reached: NansOS never starts *)
(* with a part of system_config that nobody chose.  keyboard_char runs     *)
(* window_init then and never again: it would forget every window.         *)
SetupInOrder ==
  /\ \A p \in Choices : system_config[p] # 0 <=> p < current_setup_state
  /\ setup_complete <=> current_setup_state = SETUP_COMPLETE
  /\ desktops = IF setup_complete THEN 1 ELSE 0

(* A choice once made never changes, whatever is typed later: the digits   *)
(* go to the page shown, and after the setup to the windows.               *)
ChoicesFinal ==
  [][\A p \in Choices : system_config[p] # 0
                         => system_config'[p] = system_config[p]]_vars

=============================================================================
