-------------------------------- MODULE Ps2 --------------------------------
(***************************************************************************)
(* The PS/2 controller that the keyboard and the mouse share, and the two  *)
(* drivers' dialogue with it: keyboard_init, keyboard_handler (which byte  *)
(* it takes), keyboard_enable and keyboard_disable of                      *)
(* drivers/keyboard/keyboard.c, and all of drivers/mouse/mouse.c, with the *)
(* decoder of the mouse's three-byte packets.                              *)
(*                                                                         *)
(* Both devices send through one output buffer of one byte.  A byte that   *)
(* enters it requests its device's interrupt, if the configuration byte of *)
(* the controller says so; the driver code also polls the buffer, and the  *)
(* request of a byte that was polled stays behind.                         *)
(* What the scan codes mean is in Keyboard; acknowledgements and the       *)
(* interrupt flag are in Interrupts.  Here a handler is one step, taken    *)
(* while its line is requested and unmasked and interrupts may come.       *)
(***************************************************************************)
EXTENDS Integers, Sequences

CONSTANTS
  XMAX, YMAX,   (* the last column and row: 1023 and 767                   *)
  X0, Y0,       (* where mouse_init puts the pointer: 512 and 384          *)
  Motions,      (* what the mouse reports: buttons, dx, dy (up is > 0)     *)
  MaxAcks       (* bound: answers to mouse_init's commands left unread     *)

ASSUME ScreenAssumption ==
  /\ XMAX \in Nat /\ YMAX \in Nat /\ X0 \in 0 .. XMAX /\ Y0 \in 0 .. YMAX
  /\ Motions \subseteq [buttons: 0 .. 7, dx: -256 .. 255, dy: -256 .. 255]
  /\ MaxAcks \in Nat

KEYBOARD_IRQ == 1
MOUSE_IRQ == 12
ACK == 250

VARIABLES
  pc,          (* the next call of init_system, or "loop"                  *)
  out,         (* external: the output buffer, at most one byte            *)
  irq,         (* external: requested lines                                *)
  config,      (* external: lines the controller's configuration requests  *)
  unmasked,    (* lines of the two devices that the PICs let through       *)
  kbd_on,      (* external: the keyboard sends                             *)
  streaming,   (* external: the mouse reports motions                      *)
  auxq,        (* external: what the mouse has still to send               *)
  cycle,       (* mouse_handler's static variables                         *)
  packet,      (* (its y_movement is used at once and never read again)    *)
  mouse_state, (* mouse.c                                                  *)
  motion,      (* ghost: the motion whose first byte was decoded last      *)
  whole        (* ghost: packet has come from that motion so far           *)

controllerVars == <<out, irq, config, kbd_on, streaming, auxq>>
ghostVars == <<motion, whole>>
decoderVars == <<cycle, packet, mouse_state, ghostVars>>
vars == <<pc, unmasked, controllerVars, decoderVars>>

NoMotion == [buttons |-> 0, dx |-> 0, dy |-> 0]

(* A byte knows, as a ghost, the motion it reports and its place in the    *)
(* packet (3: in none).                                                    *)
KeyByte == [aux |-> FALSE, data |-> 0, place |-> 3, of |-> NoMotion]
AckByte == [aux |-> TRUE, data |-> ACK, place |-> 3, of |-> NoMotion]
MouseByte(data, place, m) ==
  [aux |-> TRUE, data |-> data, place |-> place, of |-> m]

(* Movements have nine bits: the sign bits travel in the first byte, the   *)
(* other eight in a byte of their own.                                     *)
PacketOf(m) ==
  <<MouseByte(8 + m.buttons + (IF m.dx < 0 THEN 16 ELSE 0)
                            + (IF m.dy < 0 THEN 32 ELSE 0), 0, m),
    MouseByte(m.dx % 256, 1, m),
    MouseByte(m.dy % 256, 2, m)>>

(* The firmware may leave a byte behind, with or without a request, and    *)
(* any configuration.  pic_init has unmasked the keyboard's line already.  *)
Init ==
  /\ pc = "keyboard_init"
  /\ out \in {<<>>, <<KeyByte>>} /\ irq \in {{}, {KEYBOARD_IRQ}}
  /\ config \in SUBSET {KEYBOARD_IRQ, MOUSE_IRQ} /\ unmasked = {KEYBOARD_IRQ}
  /\ kbd_on = TRUE /\ streaming = FALSE /\ auxq = <<>>
  /\ cycle = 0
  /\ packet = [buttons |-> 0, x_movement |-> 0]
  /\ mouse_state = [x_pos |-> X0, y_pos |-> Y0, buttons |-> 0]
  /\ motion = NoMotion /\ whole = FALSE

-----------------------------------------------------------------------------
(* The devices: external.                                                  *)

KeyboardSends ==
  /\ kbd_on /\ out = <<>>
  /\ out' = <<KeyByte>> /\ irq' = irq \union ({KEYBOARD_IRQ} \intersect config)
  /\ UNCHANGED <<pc, config, unmasked, kbd_on, streaming, auxq, decoderVars>>

MouseSends ==
  /\ auxq # <<>> /\ out = <<>>
  /\ out' = <<Head(auxq)>> /\ auxq' = Tail(auxq)
  /\ irq' = irq \union ({MOUSE_IRQ} \intersect config)
  /\ UNCHANGED <<pc, config, unmasked, kbd_on, streaming, decoderVars>>

(* The mouse begins a packet when it has sent the previous one. *)
MouseMoves(m) ==
  /\ streaming /\ auxq = <<>>
  /\ auxq' = PacketOf(m)
  /\ UNCHANGED <<pc, config, unmasked, out, irq, kbd_on, streaming, decoderVars>>

-----------------------------------------------------------------------------
(* Polling.  The code empties the buffer and reads answers from it; each   *)
(* byte it takes this way may leave its request behind.                    *)
Poll(lines) ==
  /\ out' = <<>>
  /\ \E stale \in SUBSET lines : irq' = irq \union stale

(* A wait for an answer runs out: the answer never comes, or it comes when *)
(* nobody polls for it any more, and requests the keyboard's line if that  *)
(* is among the requested ones.                                            *)
PollInVain(lines, requested) ==
  \/ Poll(lines)
  \/ /\ out' = <<KeyByte>>
     /\ \E stale \in SUBSET lines :
          irq' = irq \union stale \union ({KEYBOARD_IRQ} \intersect requested)

(* A command makes the mouse drop what it was sending and answer; one      *)
(* answer is polled, others, or one that the handler is quicker to take,   *)
(* are still to come.                                                      *)
MouseAnswers(most) ==
  \E n \in 0 .. most : auxq' = [i \in 1 .. n |-> AckByte]

(* keyboard_init up to its call of mouse_init. *)
keyboard_init ==
  /\ pc = "keyboard_init" /\ pc' = "keyboard_init:mouse_init"
  /\ Poll({KEYBOARD_IRQ})
  /\ kbd_on' = TRUE
  /\ config' = config \union {KEYBOARD_IRQ}
  /\ unmasked' = unmasked \union {KEYBOARD_IRQ}
  /\ UNCHANGED <<streaming, auxq, decoderVars>>

(* One of its waits runs out and it returns, the keyboard's line unmasked  *)
(* all the same: before it has sent a command; when the configuration does *)
(* not come, with both devices disabled; or when the keyboard, configured  *)
(* and enabled, does not answer.                                           *)
keyboard_init_timeout ==
  /\ pc = "keyboard_init" /\ pc' = "mouse_init"
  /\ \/ UNCHANGED <<out, irq, config, kbd_on>>
     \/ /\ PollInVain({KEYBOARD_IRQ}, config)
        /\ kbd_on' = FALSE /\ UNCHANGED config
     \/ /\ PollInVain({KEYBOARD_IRQ}, {KEYBOARD_IRQ})
        /\ kbd_on' = TRUE /\ config' = config \union {KEYBOARD_IRQ}
  /\ UNCHANGED <<unmasked, streaming, auxq, decoderVars>>

(* mouse_init is called by keyboard_init and again by init_system.  It     *)
(* resets mouse_state, not the handler's cycle and packet.  The mouse may  *)
(* not answer the last command: the code goes on.                          *)
AfterMouseInit ==
  IF pc = "keyboard_init:mouse_init" THEN "mouse_init" ELSE "loop"

(* Mutant: the mouse's line is left masked. *)
MouseInitMasked ==
  /\ pc \in {"keyboard_init:mouse_init", "mouse_init"} /\ pc' = AfterMouseInit
  /\ Poll({KEYBOARD_IRQ, MOUSE_IRQ})
  /\ kbd_on' = TRUE /\ config' = {KEYBOARD_IRQ, MOUSE_IRQ}
  /\ \/ streaming' = TRUE /\ MouseAnswers(MaxAcks)
     \/ streaming' = FALSE /\ auxq' = <<>>
  /\ mouse_state' = [x_pos |-> X0, y_pos |-> Y0, buttons |-> 0]
  /\ UNCHANGED <<unmasked, cycle, packet, ghostVars>>

mouse_init ==
  /\ pc \in {"keyboard_init:mouse_init", "mouse_init"} /\ pc' = AfterMouseInit
  /\ Poll({KEYBOARD_IRQ, MOUSE_IRQ})
  /\ kbd_on' = TRUE /\ config' = {KEYBOARD_IRQ, MOUSE_IRQ}
  /\ \/ streaming' = TRUE /\ MouseAnswers(MaxAcks)
     \/ streaming' = FALSE /\ auxq' = <<>>
  /\ mouse_state' = [x_pos |-> X0, y_pos |-> Y0, buttons |-> 0]
  /\ unmasked' = unmasked \union {MOUSE_IRQ}
  /\ UNCHANGED <<cycle, packet, ghostVars>>

(* The configuration byte does not come, or comes too late: both devices   *)
(* stay disabled.                                                          *)
mouse_init_timeout ==
  /\ pc \in {"keyboard_init:mouse_init", "mouse_init"} /\ pc' = AfterMouseInit
  /\ PollInVain({KEYBOARD_IRQ, MOUSE_IRQ}, config)
  /\ kbd_on' = FALSE /\ streaming' = FALSE /\ auxq' = <<>>
  /\ UNCHANGED <<config, unmasked, decoderVars>>

(* keyboard_enable and keyboard_disable. *)
keyboard_enable(on) ==
  /\ pc = "loop"
  /\ PollInVain({KEYBOARD_IRQ}, config)
  /\ kbd_on' = on
  /\ UNCHANGED <<pc, config, unmasked, streaming, auxq, decoderVars>>

(* mouse_enable and mouse_disable, with a mouse that was initialised. *)
mouse_enable(on) ==
  /\ pc = "loop" /\ MOUSE_IRQ \in unmasked
  /\ Poll({MOUSE_IRQ})
  /\ streaming' = on /\ MouseAnswers(1)
  /\ UNCHANGED <<pc, config, unmasked, kbd_on, decoderVars>>

-----------------------------------------------------------------------------
(* The handlers.                                                           *)

(* init_system runs with interrupts enabled once keyboard_init returns. *)
Interrupted(line) ==
  /\ pc \in {"mouse_init", "loop"}
  /\ line \in irq \intersect unmasked
  /\ irq' = irq \ {line}

(* The keyboard's handler takes whatever byte is there. *)
keyboard_handler ==
  /\ Interrupted(KEYBOARD_IRQ)
  /\ out' = <<>>
  /\ UNCHANGED <<pc, config, unmasked, kbd_on, streaming, auxq, decoderVars>>

(* Mutant: the byte is not converted. *)
Unsigned(data) == data

(* A byte as int8_t. *)
Signed(data) == IF data < 128 THEN data ELSE data - 256

(* Mutant: the lower bound is forgotten. *)
ClampHigh(n, max) == IF n > max THEN max ELSE n

Clamp(n, max) == IF n < 0 THEN 0 ELSE IF n > max THEN max ELSE n

FirstByte(byte) ==
  /\ cycle = 0
  /\ IF (byte.data \div 8) % 2 = 1
     THEN /\ packet' = [packet EXCEPT !.buttons = byte.data]
          /\ cycle' = 1
          /\ motion' = byte.of /\ whole' = (byte.place = 0)
     ELSE UNCHANGED <<packet, cycle, ghostVars>>
  /\ UNCHANGED mouse_state

SecondByte(byte) ==
  /\ cycle = 1
  /\ packet' = [packet EXCEPT !.x_movement = Signed(byte.data)]
  /\ cycle' = 2
  /\ whole' = (whole /\ byte.place = 1 /\ byte.of = motion)
  /\ UNCHANGED <<mouse_state, motion>>

(* Mutant: the third byte does not start a new packet. *)
ThirdByteStays(byte) ==
  /\ cycle = 2
  /\ UNCHANGED decoderVars

ThirdByte(byte) ==
  /\ cycle = 2
  /\ mouse_state' =
       [x_pos |-> Clamp(mouse_state.x_pos + packet.x_movement, XMAX),
        y_pos |-> Clamp(mouse_state.y_pos - Signed(byte.data), YMAX),
        buttons |-> packet.buttons % 8]
  /\ cycle' = 0
  /\ whole' = (whole /\ byte.place = 2 /\ byte.of = motion)
  /\ UNCHANGED <<packet, motion>>

(* The mouse's handler takes a byte only if the status register says that  *)
(* it is the mouse's.  The keyboard's line has the higher priority.        *)
mouse_handler ==
  /\ KEYBOARD_IRQ \notin irq \intersect unmasked
  /\ Interrupted(MOUSE_IRQ)
  /\ \/ /\ out # <<>> /\ out[1].aux
        /\ out' = <<>>
        /\ FirstByte(out[1]) \/ SecondByte(out[1]) \/ ThirdByte(out[1])
     \/ /\ ~(out # <<>> /\ out[1].aux)
        /\ UNCHANGED <<out, decoderVars>>
  /\ UNCHANGED <<pc, config, unmasked, kbd_on, streaming, auxq>>

Next ==
  \/ KeyboardSends
  \/ MouseSends
  \/ \E m \in Motions : MouseMoves(m)
  \/ keyboard_init
  \/ keyboard_init_timeout
  \/ mouse_init
  \/ mouse_init_timeout
  \/ \E on \in BOOLEAN : keyboard_enable(on) \/ mouse_enable(on)
  \/ keyboard_handler
  \/ mouse_handler

Spec == Init /\ [][Next]_vars

-----------------------------------------------------------------------------
(* Properties.                                                             *)

MouseBytes ==
  [aux: {TRUE}, data: 0 .. 255, place: 0 .. 3, of: Motions \union {NoMotion}]

(* Every variable has its type; in particular the pointer stays on the     *)
(* screen, so its uint16_t coordinates never wrap around, whatever bytes   *)
(* the decoder takes for movements.                                        *)
TypeOK ==
  /\ pc \in {"keyboard_init", "keyboard_init:mouse_init", "mouse_init", "loop"}
  /\ out = <<>> \/ out = <<KeyByte>> \/ (Len(out) = 1 /\ out[1] \in MouseBytes)
  /\ irq \subseteq {KEYBOARD_IRQ, MOUSE_IRQ}
  /\ config \subseteq {KEYBOARD_IRQ, MOUSE_IRQ}
  /\ unmasked \subseteq {KEYBOARD_IRQ, MOUSE_IRQ}
  /\ kbd_on \in BOOLEAN /\ streaming \in BOOLEAN
  /\ auxq \in Seq(MouseBytes)
  /\ cycle \in 0 .. 2
  /\ packet \in [buttons: 0 .. 255, x_movement: -128 .. 127]
  /\ mouse_state \in [x_pos: 0 .. XMAX, y_pos: 0 .. YMAX, buttons: 0 .. 7]
  /\ motion \in Motions \union {NoMotion} /\ whole \in BOOLEAN

(* Once the system is up, and unless none of the initialisations got the   *)
(* controller to request interrupts, a byte in the buffer always has an    *)
(* interrupt on its way whose handler will take it: no order of firmware   *)
(* bytes, polls, stale requests, early returns and late answers leaves the *)
(* buffer full with nobody to empty it, which would silence both devices   *)
(* for good.  (Before that, mouse_init is still to come and empties it.)   *)
NoStuckByte ==
  pc = "loop" /\ out # <<>> /\ KEYBOARD_IRQ \in config =>
    \/ KEYBOARD_IRQ \in irq \intersect unmasked
    \/ out[1].aux /\ MOUSE_IRQ \in irq \intersect unmasked

FromMouse == IF out # <<>> /\ out[1].aux THEN out \o auxq ELSE auxq

(* The decoder expects the byte that comes next. *)
Aligned ==
  IF FromMouse = <<>> THEN cycle = 0 ELSE Head(FromMouse).place = cycle

(* The decoder stays in step with the packets through every motion, byte   *)
(* and interrupt: only a command to the mouse, a poll, or the keyboard's   *)
(* handler taking one of its bytes can put it out of step.                 *)
AlignmentKept ==
  [][Aligned /\ (\/ KeyboardSends \/ MouseSends \/ mouse_handler
                 \/ \E m \in Motions : MouseMoves(m)
                 \/ keyboard_handler /\ ~(out # <<>> /\ out[1].aux))
     => Aligned']_vars

(* The column or row on the screen that is closest to n. *)
Distance(a, b) == IF a < b THEN b - a ELSE a - b
Nearest(n, max) ==
  CHOOSE p \in 0 .. max :
    \A q \in 0 .. max : Distance(p, n) <= Distance(q, n)

(* What the cast of a movement's byte to int8_t makes of its nine bits: a  *)
(* movement of up to 127 is kept, a longer one comes out in the opposite   *)
(* direction.                                                              *)
Carried(d) == IF d > 127 THEN d - 256 ELSE IF d < -128 THEN d + 256 ELSE d

(* A packet that was decoded from the three bytes of one motion moves the  *)
(* pointer by that motion, up to the edge of the screen, and sets the      *)
(* buttons: splitting it into bytes and interrupts loses nothing but the   *)
(* sign bits of the first byte, which the code never reads, so that a      *)
(* motion of more than 127 goes the wrong way.                             *)
MovesAsSent ==
  [][whole' /\ cycle = 2 /\ cycle' = 0 =>
       mouse_state' =
         [x_pos |-> Nearest(mouse_state.x_pos + Carried(motion.dx), XMAX),
          y_pos |-> Nearest(mouse_state.y_pos - Carried(motion.dy), YMAX),
          buttons |-> motion.buttons]]_vars
=============================================================================
