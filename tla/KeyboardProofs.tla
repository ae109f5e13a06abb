--------------------------- MODULE KeyboardProofs ---------------------------
(***************************************************************************)
(* Proofs about Keyboard, for every keyboard whose keys send set-1 codes   *)
(* and however many keys are down at a time.                               *)
(***************************************************************************)
EXTENDS Keyboard, TLAPS, SequenceTheorems

(* The last byte of the key being sent. *)
CodeByte(s) == IF s.pressed THEN s.key.code ELSE s.key.code + KEY_RELEASED

(* What is left on the wire of the key being sent. *)
WireHolds ==
  \/ wire = <<>>
  \/ wire = <<CodeByte(source)>>
  \/ wire = <<KEY_EXTENDED, CodeByte(source)>> /\ source.key.prefixed

(* A key is not down while the bytes of its release are on the wire, and   *)
(* it is while those of its press are.                                     *)
SourceHeld == wire # <<>> => (source.pressed <=> source.key \in held)

(* The key being sent is the release of one of ks. *)
Releasing(ks) == wire # <<>> /\ ~source.pressed /\ source.key \in ks

Key(prefixed, code) == [prefixed |-> prefixed, code |-> code]
ShiftKeys == {Key(FALSE, KEY_LSHIFT), Key(FALSE, KEY_RSHIFT)}
CtrlKeys == {Key(FALSE, KEY_LCTRL), Key(TRUE, KEY_RCTRL)}
AltKeys == {Key(FALSE, KEY_LALT), Key(TRUE, KEY_RALT)}

(* A modifier is pressed only while one of its keys is down or the byte    *)
(* that ends it is still on the wire.                                      *)
Justified(pressed, ks) == pressed => (\E k \in ks : k \in held) \/ Releasing(ks)

ModifiersJustified ==
  /\ Justified(keyboard_state.shift_pressed, ShiftKeys)
  /\ Justified(keyboard_state.ctrl_pressed, CtrlKeys)
  /\ Justified(keyboard_state.alt_pressed, AltKeys)

KeyboardInv ==
  /\ TypeOK
  /\ WireHolds /\ SourceHeld /\ PrefixConsumed /\ ModifiersJustified
  /\ SetupInOrder

-----------------------------------------------------------------------------
(* keymap.c                                                                *)

(* Both tables have an entry, a 7-bit code, for scan codes 0 to 57. *)
LEMMA TableTypes ==
  /\ Len(ascii_lowercase) = 58
  /\ \A n \in 1 .. 58 : ascii_lowercase[n] \in 0 .. 127
  /\ \A n \in 1 .. 58 : ascii_uppercase[n] \in 0 .. 127
<1>1. Len(ascii_lowercase) = 58
  BY DEF ascii_lowercase
<1>2. \A n \in 1 .. 58 : ascii_lowercase[n] \in 0 .. 127
  BY DEF ascii_lowercase
<1>3. \A n \in 1 .. 58 : ascii_uppercase[n] \in 0 .. 127
  BY DEF ascii_uppercase
<1> QED
  BY <1>1, <1>2, <1>3

(* The low seven bits of a scan code are the key's own code, and the top   *)
(* one says that it was released; no such byte is the prefix.              *)
LEMMA CodeByteDecodes ==
  ASSUME NEW s \in [key: Keys, pressed: BOOLEAN]
  PROVE  /\ CodeByte(s) \in 1 .. 223 /\ CodeByte(s) # KEY_EXTENDED
         /\ KeyOf(CodeByte(s)) = s.key.code
         /\ Released(CodeByte(s)) <=> ~s.pressed
<1>1. s.key.code \in 1 .. 95
  BY KeysAssumption
<1> QED
  BY <1>1 DEF CodeByte, KeyOf, Released, KEY_RELEASED, KEY_EXTENDED

(* A character that scancode_to_ascii yields is a 7-bit code, also when it *)
(* computes one from a letter.                                             *)
LEMMA AsciiType ==
  ASSUME NEW scancode \in 0 .. 255, NEW state
  PROVE  scancode_to_ascii(scancode, state) \in 0 .. 127
<1> DEFINE key == KeyOf(scancode)
<1>1. key \in 0 .. 127
  BY DEF KeyOf, KEY_RELEASED
<1>2. CASE key >= Len(ascii_lowercase)
  BY <1>2 DEF scancode_to_ascii
<1>3. CASE ~(key >= Len(ascii_lowercase))
  <2>1. key + 1 \in 1 .. 58
    BY <1>1, <1>3, TableTypes, SMTT(30)
  <2>2. /\ ascii_lowercase[key + 1] \in 0 .. 127
        /\ ascii_uppercase[key + 1] \in 0 .. 127
    BY <2>1, TableTypes
  <2>3. IsLetter(ascii_lowercase[key + 1])
          => CtrlCode(ascii_lowercase[key + 1]) \in 0 .. 127
    BY <2>2 DEF IsLetter, CtrlCode
  <2> HIDE DEF key
  <2> QED
    BY <1>3, <2>2, <2>3, SMTT(30) DEF scancode_to_ascii, key
<1> QED
  BY <1>2, <1>3

(* The decoder's state keeps its type; the prefix sets extended and        *)
(* nothing else.                                                           *)
LEMMA PrefixByte ==
  ASSUME NEW state \in KeyboardState
  PROVE  LET after == update_keyboard_state(KEY_EXTENDED, state)
         IN /\ after \in KeyboardState /\ after.extended
            /\ after.shift_pressed = state.shift_pressed
            /\ after.ctrl_pressed = state.ctrl_pressed
            /\ after.alt_pressed = state.alt_pressed
BY DEF update_keyboard_state, KeyboardState

(* What the last byte of a key does to the modifiers: a plain key with the *)
(* prefix forgotten, a prefixed one with the prefix remembered.            *)
LEMMA LastByte ==
  ASSUME NEW state \in KeyboardState, NEW s \in [key: Keys, pressed: BOOLEAN],
         state.extended <=> s.key.prefixed
  PROVE  LET after == update_keyboard_state(CodeByte(s), state)
         IN /\ after \in KeyboardState /\ ~after.extended
            /\ after.shift_pressed =
                 IF s.key \in ShiftKeys THEN s.pressed ELSE state.shift_pressed
            /\ after.ctrl_pressed =
                 IF s.key \in CtrlKeys THEN s.pressed ELSE state.ctrl_pressed
            /\ after.alt_pressed =
                 IF s.key \in AltKeys THEN s.pressed ELSE state.alt_pressed
<1> DEFINE code == s.key.code
           after == update_keyboard_state(CodeByte(s), state)
<1>1. /\ CodeByte(s) # KEY_EXTENDED /\ KeyOf(CodeByte(s)) = code
      /\ Released(CodeByte(s)) <=> ~s.pressed
      /\ s.pressed \in BOOLEAN /\ s.key \in [prefixed: BOOLEAN, code: 1 .. 95]
  BY CodeByteDecodes, KeysAssumption
<1>2. /\ s.key \in ShiftKeys <=> ~s.key.prefixed /\ code \in {KEY_LSHIFT, KEY_RSHIFT}
      /\ s.key \in CtrlKeys <=> code = KEY_LCTRL
      /\ s.key \in AltKeys <=> code = KEY_LALT
  BY <1>1 DEF ShiftKeys, CtrlKeys, AltKeys, Key, KEY_LCTRL, KEY_RCTRL, KEY_LALT, KEY_RALT
<1>3. CASE s.key.prefixed
  <2>1. after = AfterExtended(code, ~Released(CodeByte(s)), state)
    BY <1>1, <1>3 DEF update_keyboard_state
  <2> QED
    BY <1>1, <1>2, <1>3, <2>1, ZenonT(40)
    DEF AfterExtended, KeyboardState, KEY_LCTRL, KEY_RCTRL, KEY_LALT, KEY_RALT
<1>4. CASE ~s.key.prefixed
  <2>1. after = AfterPlain(code, ~Released(CodeByte(s)), state)
    BY <1>1, <1>4 DEF update_keyboard_state
  <2> QED
    BY <1>1, <1>2, <1>4, <2>1, ZenonT(40) DEF AfterPlain, KeyboardState
<1> QED
  BY <1>3, <1>4
-----------------------------------------------------------------------------
(* The wizard.                                                             *)

(* The types of the wizard's part of the state. *)
SetupTypes ==
  /\ current_setup_state \in SETUP_WELCOME .. SETUP_COMPLETE
  /\ system_config \in [Choices -> 0 .. 4]
  /\ setup_complete \in BOOLEAN /\ desktops \in Nat
  /\ delivered \in [callback: {"none", "setup", "window", "special"}, char: 0 .. 127]

(* No choice that was made changes in this step. *)
ChoicesKept ==
  \A p \in Choices : system_config[p] # 0 => system_config'[p] = system_config[p]

(* Turning to a page but the last one leaves the setup incomplete. *)
LEMMA TurnToPage ==
  ASSUME NEW page, TurnTo(page), ~setup_complete
  PROVE  /\ current_setup_state' = page /\ setup_complete' \in BOOLEAN
         /\ setup_complete' <=> page = SETUP_COMPLETE
BY Zenon DEF TurnTo

(* A character leaves the wizard in order and no choice changed. *)
LEMMA CharStep ==
  ASSUME SetupTypes, SetupInOrder, NEW c \in 0 .. 127, keyboard_char(c)
  PROVE  SetupTypes' /\ SetupInOrder' /\ ChoicesKept
<1> USE DEF SETUP_WELCOME, SETUP_LANGUAGE, SETUP_TIMEZONE, SETUP_CONFIRM,
            SETUP_COMPLETE, Choices
<1>1. delivered' \in [callback: {"none", "setup", "window", "special"}, char: 0 .. 127]
  BY DEF keyboard_char, Call
<1>2. CASE setup_complete
  BY <1>1, <1>2 DEF keyboard_char, setupVars, SetupTypes, SetupInOrder, ChoicesKept
<1>3. CASE ~setup_complete
  <2> DEFINE page == current_setup_state
  <2>1. /\ handle_setup_input(c)
        /\ desktops' = IF setup_complete' THEN desktops + 1 ELSE desktops
        /\ desktops = 0 /\ page \in 0 .. 6
    BY <1>3 DEF keyboard_char, SetupTypes, SetupInOrder
  <2>2. CASE UNCHANGED <<current_setup_state, system_config, setup_complete>>
    BY <1>1, <1>3, <2>1, <2>2 DEF SetupTypes, SetupInOrder, ChoicesKept
  <2>3. CASE page = 0 /\ TurnTo(1) /\ system_config' = system_config
    <3>1. page' = 1 /\ ~setup_complete' /\ setup_complete' \in BOOLEAN
      BY <1>3, <2>3, TurnToPage
    <3> QED
      BY <1>1, <1>3, <2>1, <2>3, <3>1 DEF SetupTypes, SetupInOrder, ChoicesKept
  <2>4. CASE page = 6 /\ TurnTo(7) /\ system_config' = system_config
    <3>1. page' = 7 /\ setup_complete' /\ setup_complete' \in BOOLEAN
      BY <1>3, <2>4, TurnToPage
    <3> QED
      BY <1>1, <1>3, <2>1, <2>4, <3>1 DEF SetupTypes, SetupInOrder, ChoicesKept
  <2>5. CASE /\ IsDigit(c) /\ page \in Choices
             /\ system_config' = [system_config EXCEPT ![page] = c - 48]
             /\ TurnTo(page + 1)
    <3>1. page' = page + 1 /\ page' # 7 /\ ~setup_complete' /\ setup_complete' \in BOOLEAN
      BY <1>3, <2>5, TurnToPage
    <3>2. c - 48 \in 1 .. 4
      BY <2>5 DEF IsDigit
    <3>3. /\ system_config' \in [Choices -> 0 .. 4]
          /\ \A p \in Choices : system_config'[p] =
               IF p = page THEN c - 48 ELSE system_config[p]
      BY <2>5, <3>2 DEF SetupTypes
    <3>4. system_config[page] = 0
      BY <2>5 DEF SetupInOrder
    <3>5. SetupTypes'
      BY <1>1, <2>1, <2>5, <3>1, <3>3 DEF SetupTypes
    <3>6. SetupInOrder'
      <4>1. \A p \in Choices : system_config'[p] # 0 <=> p < page'
        BY <2>5, <3>1, <3>2, <3>3 DEF SetupInOrder
      <4>2. desktops' = 0 /\ page' # SETUP_COMPLETE
        BY <2>1, <3>1
      <4> QED
        BY <3>1, <4>1, <4>2 DEF SetupInOrder
    <3>7. ChoicesKept
      BY <3>3, <3>4 DEF ChoicesKept
    <3> QED
      BY <3>5, <3>6, <3>7
  <2> QED
    BY <2>1, <2>2, <2>3, <2>4, <2>5 DEF handle_setup_input
<1> QED
  BY <1>2, <1>3

(* So does a step of the handler, whatever byte it reads. *)
LEMMA HandlerSetupStep ==
  ASSUME TypeOK, SetupInOrder, keyboard_handler
  PROVE  SetupTypes' /\ SetupInOrder' /\ ChoicesKept
<1>1. SetupTypes
  BY DEF TypeOK, SetupTypes
<1>2. CASE /\ UNCHANGED setupVars
           /\ delivered' \in {Nothing, Call("special", 0)}
  <2>1. delivered' \in [callback: {"none", "setup", "window", "special"}, char: 0 .. 127]
    BY <1>2 DEF Nothing, Call
  <2> QED
    BY <1>1, <1>2, <2>1 DEF setupVars, SetupTypes, SetupInOrder, ChoicesKept
<1>3. CASE \E c \in 0 .. 127 : keyboard_char(c)
  BY <1>1, <1>3, CharStep
<1>4. \/ UNCHANGED setupVars /\ delivered' \in {Nothing, Call("special", 0)}
      \/ \E c \in 0 .. 127 : keyboard_char(c)
  <2> DEFINE scancode == Head(wire)
             state == update_keyboard_state(scancode, keyboard_state)
             c == scancode_to_ascii(scancode, state)
  <2>1. scancode \in 0 .. 255
    <3>1. wire \in Seq(1 .. 255) /\ wire # <<>>
      BY DEF TypeOK, keyboard_handler
    <3> QED
      BY <3>1, HeadTailProperties
  <2>2. c \in 0 .. 127
    BY <2>1, AsciiType
  <2>3. \/ delivered' \in {Nothing, Call("special", 0)} /\ UNCHANGED setupVars
        \/ keyboard_char(c)
    BY DEF keyboard_handler
  <2> QED
    BY <2>2, <2>3
<1> QED
  BY <1>2, <1>3, <1>4
-----------------------------------------------------------------------------
(* The decoder.                                                            *)

(* The part of the invariant about the keys, the wire and the decoder. *)
InputInv ==
  /\ held \subseteq Keys
  /\ wire \in Seq(1 .. 255) /\ Len(wire) <= 2
  /\ registered \in 0 .. 3
  /\ keyboard_state \in KeyboardState
  /\ source \in [key: Keys, pressed: BOOLEAN]
  /\ WireHolds /\ SourceHeld /\ PrefixConsumed /\ ModifiersJustified

(* The invariant splits into the input side and the wizard. *)
LEMMA KeyboardInvParts == KeyboardInv <=> InputInv /\ SetupTypes /\ SetupInOrder
BY Zenon DEF KeyboardInv, InputInv, SetupTypes, TypeOK

(* The byte after the last one is handled: a modifier is justified by its  *)
(* key being down.                                                         *)
LEMMA JustifiedByHeld ==
  ASSUME NEW ks, NEW before \in BOOLEAN, NEW after,
         source \in [key: Keys, pressed: BOOLEAN], wire # <<>>, SourceHeld,
         Justified(before, ks),
         after = IF source.key \in ks THEN source.pressed ELSE before
  PROVE  after => \E k \in ks : k \in held
<1> SUFFICES ASSUME after PROVE \E k \in ks : k \in held
  OBVIOUS
<1>1. CASE source.key \in ks
  <2>1. source.pressed
    BY <1>1, Zenon
  <2> QED
    BY <1>1, <2>1 DEF SourceHeld
<1>2. CASE source.key \notin ks
  BY <1>2 DEF Justified, Releasing
<1> QED
  BY <1>1, <1>2

(* The handler reads the prefix. *)
LEMMA PrefixStep ==
  ASSUME InputInv, keyboard_handler, wire = <<KEY_EXTENDED, CodeByte(source)>>,
         source.key.prefixed
  PROVE  InputInv'
<1>1. /\ keyboard_state' = update_keyboard_state(KEY_EXTENDED, keyboard_state)
      /\ wire' = Tail(wire) /\ Head(wire) = KEY_EXTENDED
      /\ UNCHANGED <<held, registered, source>>
  BY DEF keyboard_handler
<1>2. wire' = <<CodeByte(source)>> /\ wire # <<>> /\ wire' # <<>>
  BY <1>1
<1>3. CodeByte(source) \in 1 .. 255
  BY CodeByteDecodes DEF InputInv
<1>4. wire' \in Seq(1 .. 255) /\ Len(wire') = 1
  BY <1>2, <1>3
<1>5. /\ keyboard_state' \in KeyboardState /\ keyboard_state'.extended
      /\ keyboard_state'.shift_pressed = keyboard_state.shift_pressed
      /\ keyboard_state'.ctrl_pressed = keyboard_state.ctrl_pressed
      /\ keyboard_state'.alt_pressed = keyboard_state.alt_pressed
  BY <1>1, PrefixByte DEF InputInv
<1>6. WireHolds'
  BY <1>1, <1>2 DEF WireHolds, CodeByte
<1>7. SourceHeld' /\ ModifiersJustified'
  BY <1>1, <1>2, <1>5 DEF InputInv, SourceHeld, ModifiersJustified, Justified, Releasing
<1>8. PrefixConsumed'
  BY <1>1, <1>4, <1>5 DEF PrefixConsumed
<1> QED
  BY <1>1, <1>4, <1>5, <1>6, <1>7, <1>8 DEF InputInv

(* The handler reads the last byte of a key. *)
LEMMA LastStep ==
  ASSUME InputInv, keyboard_handler, wire = <<CodeByte(source)>>
  PROVE  InputInv'
<1>1. /\ keyboard_state' = update_keyboard_state(CodeByte(source), keyboard_state)
      /\ wire' = Tail(wire) /\ Head(wire) = CodeByte(source)
      /\ UNCHANGED <<held, registered, source>>
  BY DEF keyboard_handler
<1>2. wire' = <<>> /\ wire # <<>> /\ Len(wire) = 1
  BY <1>1
<1>3. wire' \in Seq(1 .. 255) /\ Len(wire') = 0
  BY <1>2, EmptySeq
<1>4. keyboard_state.extended <=> source.key.prefixed
  BY <1>2 DEF InputInv, PrefixConsumed
<1>5. /\ keyboard_state' \in KeyboardState /\ ~keyboard_state'.extended
      /\ keyboard_state'.shift_pressed =
           IF source.key \in ShiftKeys THEN source.pressed
           ELSE keyboard_state.shift_pressed
      /\ keyboard_state'.ctrl_pressed =
           IF source.key \in CtrlKeys THEN source.pressed
           ELSE keyboard_state.ctrl_pressed
      /\ keyboard_state'.alt_pressed =
           IF source.key \in AltKeys THEN source.pressed
           ELSE keyboard_state.alt_pressed
  BY <1>1, <1>4, LastByte DEF InputInv
<1>6. ModifiersJustified'
  <2>1. /\ keyboard_state.shift_pressed \in BOOLEAN
        /\ keyboard_state.ctrl_pressed \in BOOLEAN
        /\ keyboard_state.alt_pressed \in BOOLEAN
    BY DEF InputInv, KeyboardState
  <2>2. /\ Justified(keyboard_state.shift_pressed, ShiftKeys)
        /\ Justified(keyboard_state.ctrl_pressed, CtrlKeys)
        /\ Justified(keyboard_state.alt_pressed, AltKeys)
        /\ source \in [key: Keys, pressed: BOOLEAN] /\ SourceHeld
    BY DEF InputInv, ModifiersJustified
  <2>3. keyboard_state'.shift_pressed => \E k \in ShiftKeys : k \in held
    BY <1>2, <1>5, <2>1, <2>2, JustifiedByHeld
  <2>4. keyboard_state'.ctrl_pressed => \E k \in CtrlKeys : k \in held
    BY <1>2, <1>5, <2>1, <2>2, JustifiedByHeld
  <2>5. keyboard_state'.alt_pressed => \E k \in AltKeys : k \in held
    BY <1>2, <1>5, <2>1, <2>2, JustifiedByHeld
  <2> QED
    BY <1>1, <2>3, <2>4, <2>5 DEF ModifiersJustified, Justified
<1>7. WireHolds' /\ SourceHeld' /\ PrefixConsumed'
  BY <1>2, <1>3, <1>5 DEF WireHolds, SourceHeld, PrefixConsumed
<1> QED
  BY <1>1, <1>3, <1>5, <1>6, <1>7 DEF InputInv

(* A prefix and a code byte make two bytes. *)
LEMMA TwoBytes ==
  ASSUME NEW a \in Int, NEW b \in Int
  PROVE  <<a>> \o <<b>> = <<a, b>>
<1>1. /\ <<a>> \in Seq(Int) /\ <<b>> \in Seq(Int) /\ <<a, b>> \in Seq(Int)
      /\ Len(<<a>>) = 1 /\ Len(<<b>>) = 1 /\ Len(<<a, b>>) = 2
  OBVIOUS
<1>2. <<a>> \o <<b>> \in Seq(Int) /\ Len(<<a>> \o <<b>>) = 2
  OBVIOUS
<1>3. \A i \in 1 .. 2 : (<<a>> \o <<b>>)[i] = <<a, b>>[i]
  BY <1>1, ConcatProperties
<1> QED
  BY <1>1, <1>2, <1>3, SeqEqual

(* A key is pressed, repeated or released: the new held is the one with or *)
(* without it, and its bytes go on the wire.                               *)
LEMMA SendStep ==
  ASSUME InputInv, NEW key \in Keys, NEW pressed \in BOOLEAN, Send(key, pressed),
         held' = IF pressed THEN held \union {key} ELSE held \ {key}
  PROVE  InputInv'
<1>1. /\ wire = <<>> /\ source' = [key |-> key, pressed |-> pressed]
      /\ UNCHANGED <<registered, keyboard_state>>
      /\ wire' = (IF key.prefixed THEN <<KEY_EXTENDED>> ELSE <<>>)
                   \o <<IF pressed THEN key.code ELSE key.code + KEY_RELEASED>>
  BY DEF Send
<1>2. source' \in [key: Keys, pressed: BOOLEAN] /\ held' \subseteq Keys
  BY <1>1 DEF InputInv
<1>3. CodeByte(source') = IF pressed THEN key.code ELSE key.code + KEY_RELEASED
  BY <1>1 DEF CodeByte
<1>4. CodeByte(source') \in 1 .. 255
  BY <1>2, CodeByteDecodes
<1>5. \/ wire' = <<CodeByte(source')>> /\ ~key.prefixed
      \/ wire' = <<KEY_EXTENDED, CodeByte(source')>> /\ key.prefixed
  <2> DEFINE b == CodeByte(source')
  <2>1. wire' = (IF key.prefixed THEN <<KEY_EXTENDED>> ELSE <<>>) \o <<b>>
    BY <1>1, <1>3
  <2>2. <<KEY_EXTENDED>> \o <<b>> = <<KEY_EXTENDED, b>> /\ <<>> \o <<b>> = <<b>>
    <3>1. b \in Int /\ <<b>> \in Seq(Int) /\ KEY_EXTENDED \in Int
      BY <1>4 DEF KEY_EXTENDED
    <3> HIDE DEF b
    <3>2. <<>> \o <<b>> = <<b>>
      BY <3>1, ConcatEmptySeq
    <3>3. <<KEY_EXTENDED>> \o <<b>> = <<KEY_EXTENDED, b>>
      BY <3>1, TwoBytes
    <3> QED
      BY <3>2, <3>3
  <2> HIDE DEF b
  <2>3. CASE key.prefixed
    BY <2>1, <2>2, <2>3, Zenon DEF b
  <2>4. CASE ~key.prefixed
    BY <2>1, <2>2, <2>4, Zenon DEF b
  <2> QED
    BY <2>3, <2>4
<1>6. /\ wire' \in Seq(1 .. 255) /\ Len(wire') <= 2 /\ wire' # <<>>
      /\ Len(wire') = 1 => ~key.prefixed
  <2>1. \A b \in 1 .. 255 :
          /\ <<b>> \in Seq(1 .. 255) /\ Len(<<b>>) = 1 /\ <<b>> # <<>>
          /\ <<KEY_EXTENDED, b>> \in Seq(1 .. 255) /\ Len(<<KEY_EXTENDED, b>>) = 2
          /\ <<KEY_EXTENDED, b>> # <<>>
    BY SMTT(30) DEF KEY_EXTENDED
  <2>2. CASE wire' = <<CodeByte(source')>> /\ ~key.prefixed
    BY <1>4, <2>1, <2>2, SMTT(30)
  <2>3. CASE wire' = <<KEY_EXTENDED, CodeByte(source')>> /\ key.prefixed
    BY <1>4, <2>1, <2>3
  <2> QED
    BY <1>5, <2>2, <2>3
<1>7. WireHolds'
  BY <1>1, <1>5 DEF WireHolds
<1>8. SourceHeld'
  BY <1>1 DEF SourceHeld
<1>9. PrefixConsumed'
  <2>1. ~keyboard_state.extended
    BY <1>1, EmptySeq DEF InputInv, PrefixConsumed
  <2> QED
    BY <1>1, <1>6, <2>1 DEF PrefixConsumed
<1>10. ModifiersJustified'
  <2>1. ASSUME NEW ks, NEW p, Justified(p, ks)
        PROVE  p => (\E k \in ks : k \in held') \/ (wire' # <<>> /\ ~source'.pressed /\ source'.key \in ks)
    <3> SUFFICES ASSUME p
                 PROVE  (\E k \in ks : k \in held') \/ (~pressed /\ key \in ks)
      BY <1>1, <1>6
    <3>1. PICK k \in ks : k \in held
      BY <1>1, <2>1 DEF Justified, Releasing
    <3> QED
      BY <3>1
  <2>2. ASSUME NEW ks, NEW p, Justified(p, ks)
        PROVE  p => (\E k \in ks : k \in held') \/ (Releasing(ks))'
    BY <2>1, <2>2 DEF Releasing
  <2> QED
    BY <1>1, <2>2 DEF InputInv, ModifiersJustified, Justified
<1> QED
  BY <1>1, <1>2, <1>6, <1>7, <1>8, <1>9, <1>10 DEF InputInv
-----------------------------------------------------------------------------
(* The theorems.                                                           *)

(* At boot no key is down and the wizard has not begun. *)
LEMMA InitInv == Init => KeyboardInv
<1> SUFFICES ASSUME Init PROVE KeyboardInv
  OBVIOUS
<1>1. InputInv
  <2>1. /\ held = {} /\ wire = <<>> /\ wire \in Seq(1 .. 255) /\ Len(wire) = 0
        /\ registered = 0 /\ keyboard_state \in KeyboardState
    BY EmptySeq DEF Init
  <2>2. /\ ~keyboard_state.extended /\ ~keyboard_state.shift_pressed
        /\ ~keyboard_state.ctrl_pressed /\ ~keyboard_state.alt_pressed
    BY DEF Init, KeyboardState
  <2>3. source \in [key: Keys, pressed: BOOLEAN]
    BY KeysAssumption DEF Init
  <2>4. WireHolds /\ SourceHeld /\ PrefixConsumed /\ ModifiersJustified
    BY <2>1, <2>2 DEF WireHolds, SourceHeld, PrefixConsumed, ModifiersJustified, Justified
  <2> QED
    BY <2>1, <2>3, <2>4 DEF InputInv
<1>2. SetupTypes
  <2>1. current_setup_state \in SETUP_WELCOME .. SETUP_COMPLETE /\ desktops \in Nat
    BY DEF Init, SETUP_WELCOME, SETUP_COMPLETE
  <2>2. system_config \in [Choices -> 0 .. 4] /\ setup_complete \in BOOLEAN
    <3>1. setup_complete \in BOOLEAN /\ system_config = [p \in Choices |-> 0]
      BY Zenon DEF Init
    <3>2. [p \in Choices |-> 0] \in [Choices -> 0 .. 4]
      OBVIOUS
    <3> QED
      BY <3>1, <3>2, Zenon
  <2>3. delivered \in [callback: {"none", "setup", "window", "special"}, char: 0 .. 127]
    BY DEF Init, Nothing, Call
  <2> QED
    BY <2>1, <2>2, <2>3 DEF SetupTypes
<1>3. SetupInOrder
  BY DEF Init, SetupInOrder, Choices, SETUP_WELCOME, SETUP_LANGUAGE, SETUP_TIMEZONE,
         SETUP_COMPLETE
<1> QED
  BY <1>1, <1>2, <1>3, KeyboardInvParts

(* A step of the handler, with either byte. *)
LEMMA HandlerStep ==
  ASSUME KeyboardInv, keyboard_handler
  PROVE  KeyboardInv' /\ ChoicesKept
<1>1. InputInv /\ TypeOK /\ SetupInOrder
  BY KeyboardInvParts DEF KeyboardInv
<1>2. InputInv'
  <2>1. \/ wire = <<CodeByte(source)>>
        \/ wire = <<KEY_EXTENDED, CodeByte(source)>> /\ source.key.prefixed
    BY <1>1 DEF InputInv, WireHolds, keyboard_handler
  <2> QED
    BY <1>1, <2>1, PrefixStep, LastStep
<1>3. SetupTypes' /\ SetupInOrder' /\ ChoicesKept
  BY <1>1, HandlerSetupStep
<1>4. (KeyboardInv <=> InputInv /\ SetupTypes /\ SetupInOrder)'
  BY KeyboardInvParts, PTL
<1> QED
  BY <1>2, <1>3, <1>4

(* Every step preserves the invariant and the choices made. *)
LEMMA NextInv == KeyboardInv /\ [Next]_vars => KeyboardInv' /\ ChoicesKept
<1> SUFFICES ASSUME KeyboardInv, [Next]_vars PROVE KeyboardInv' /\ ChoicesKept
  OBVIOUS
<1>1. InputInv /\ SetupTypes /\ SetupInOrder
  BY KeyboardInvParts
<1>2. CASE keyboard_handler
  BY <1>2, HandlerStep
<1>3. CASE ~keyboard_handler
  <2>1. UNCHANGED <<setupVars, delivered>>
    BY <1>3 DEF Next, Press, Release, Send, keyboard_set_callback, vars
  <2>2. SetupTypes' /\ SetupInOrder' /\ ChoicesKept
    BY <1>1, <2>1 DEF setupVars, SetupTypes, SetupInOrder, ChoicesKept
  <2>3. InputInv'
    <3>1. CASE keyboard_set_callback
      BY <1>1, <3>1
      DEF keyboard_set_callback, InputInv, WireHolds, CodeByte, SourceHeld,
          PrefixConsumed, ModifiersJustified, Justified, Releasing
    <3>2. CASE \E key \in Keys : Press(key)
      BY <1>1, <3>2, SendStep DEF Press
    <3>3. CASE \E key \in Keys : Release(key)
      BY <1>1, <3>3, SendStep DEF Release
    <3>4. CASE UNCHANGED vars
      BY <1>1, <3>4
      DEF vars, InputInv, WireHolds, CodeByte, SourceHeld, PrefixConsumed,
          ModifiersJustified, Justified, Releasing
    <3> QED
      BY <1>3, <3>1, <3>2, <3>3, <3>4 DEF Next
  <2>4. (KeyboardInv <=> InputInv /\ SetupTypes /\ SetupInOrder)'
    BY KeyboardInvParts, PTL
  <2> QED
    BY <2>2, <2>3, <2>4
<1> QED
  BY <1>2, <1>3

(* The inductive invariant holds in every state of every behaviour. *)
THEOREM KeyboardInvariant == Spec => []KeyboardInv
<1>1. KeyboardInv /\ [Next]_vars => KeyboardInv'
  BY NextInv
<1> QED
  BY <1>1, InitInv, PTL DEF Spec

(* Every variable keeps its type; every character handed to a callback is  *)
(* a 7-bit code, whatever modifiers are pressed.                           *)
THEOREM TypeCorrect == Spec => []TypeOK
<1>1. KeyboardInv => TypeOK
  BY DEF KeyboardInv
<1> QED
  BY <1>1, KeyboardInvariant, PTL

(* The decoder remembers the 0xE0 prefix exactly between the two bytes of  *)
(* a prefixed key, whatever keys the keyboard has.                         *)
THEOREM PrefixRemembered == Spec => []PrefixConsumed
<1>1. KeyboardInv => PrefixConsumed
  BY DEF KeyboardInv
<1> QED
  BY <1>1, KeyboardInvariant, PTL

(* No modifier is stuck once every byte has been handled, however many     *)
(* keys are down and in whatever order they are released.                  *)
THEOREM ModifiersReleased == Spec => []NoStuckModifier
<1>1. KeyboardInv => NoStuckModifier
  BY DEF KeyboardInv, NoStuckModifier, ModifiersJustified, Justified, Releasing,
         ShiftKeys, CtrlKeys, AltKeys, Key, Down
<1> QED
  BY <1>1, KeyboardInvariant, PTL

(* The wizard has exactly the choices of the pages it has turned, and the  *)
(* windows are initialised once, when it ends.                             *)
THEOREM WizardInOrder == Spec => []SetupInOrder
<1>1. KeyboardInv => SetupInOrder
  BY DEF KeyboardInv
<1> QED
  BY <1>1, KeyboardInvariant, PTL

(* No later key changes a choice that was made. *)
THEOREM ChoicesNeverChange == Spec => ChoicesFinal
<1>1. KeyboardInv /\ [Next]_vars => [ChoicesKept]_vars
  BY NextInv
<1>2. [][ChoicesKept]_vars => ChoicesFinal
  BY PTL DEF ChoicesKept, ChoicesFinal
<1> QED
  BY <1>1, <1>2, KeyboardInvariant, PTL DEF Spec

=============================================================================
