------------------------------ MODULE Ps2Proofs ------------------------------
(***************************************************************************)
(* Proofs about Ps2, for every screen, every set of motions the mouse can  *)
(* report and any number of answers left unread.                           *)
(***************************************************************************)
EXTENDS Ps2, TLAPS, SequenceTheorems

(* The bytes of a motion's packet, by their place in it. *)
PacketByte(m, i) == PacketOf(m)[i + 1]

(* What the mouse has still to send: answers to commands only, or the rest *)
(* of one packet.                                                          *)
QueueHolds ==
  \/ \A k \in 1 .. Len(auxq) : auxq[k] = AckByte
  \/ \E m \in Motions :
       \/ auxq = <<PacketByte(m, 0), PacketByte(m, 1), PacketByte(m, 2)>>
       \/ auxq = <<PacketByte(m, 1), PacketByte(m, 2)>>
       \/ auxq = <<PacketByte(m, 2)>>

(* A byte of a packet in the buffer is followed by the rest of its packet, *)
(* and the last byte of one by nothing or by a whole packet.               *)
BufferHolds ==
  \/ out \in {<<>>, <<KeyByte>>, <<AckByte>>}
  \/ \E m \in Motions :
       \/ /\ out = <<PacketByte(m, 0)>>
          /\ auxq = <<PacketByte(m, 1), PacketByte(m, 2)>>
       \/ out = <<PacketByte(m, 1)>> /\ auxq = <<PacketByte(m, 2)>>
       \/ /\ out = <<PacketByte(m, 2)>>
          /\ auxq = <<>> \/ \E n \in Motions : auxq =
               <<PacketByte(n, 0), PacketByte(n, 1), PacketByte(n, 2)>>

(* The mouse sends nothing before its line is unmasked, which mouse_init   *)
(* does after it has configured the controller to request it; the          *)
(* keyboard's line is unmasked from the start.                             *)
LinesUnmasked ==
  /\ streaming \/ auxq # <<>> => MOUSE_IRQ \in unmasked
  /\ MOUSE_IRQ \in unmasked => MOUSE_IRQ \in config
  /\ KEYBOARD_IRQ \in unmasked

(* The bytes of a whole packet are stored as its motion was sent. *)
DecodedSoFar ==
  whole =>
    /\ motion \in Motions
    /\ cycle \in {1, 2} => packet.buttons = PacketByte(motion, 0).data
    /\ cycle = 2 => packet.x_movement = Carried(motion.dx)

Ps2Inv ==
  /\ TypeOK
  /\ QueueHolds /\ BufferHolds /\ LinesUnmasked
  /\ NoStuckByte /\ DecodedSoFar

-----------------------------------------------------------------------------
(* Bytes and packets.                                                      *)

(* A motion fits the bytes of a packet. *)
LEMMA MotionType ==
  ASSUME NEW m \in Motions
  PROVE  m.buttons \in 0 .. 7 /\ m.dx \in -256 .. 255 /\ m.dy \in -256 .. 255
BY ScreenAssumption

(* The three bytes of a packet know their place and their motion. *)
LEMMA PacketShape ==
  ASSUME NEW m \in Motions
  PROVE  /\ PacketOf(m) = <<PacketByte(m, 0), PacketByte(m, 1), PacketByte(m, 2)>>
         /\ \A i \in 0 .. 2 : /\ PacketByte(m, i) \in MouseBytes
                              /\ PacketByte(m, i).aux /\ PacketByte(m, i).of = m
                              /\ PacketByte(m, i).place = i
                              /\ PacketByte(m, i) \notin {KeyByte, AckByte}
<1> DEFINE flags == 8 + m.buttons + (IF m.dx < 0 THEN 16 ELSE 0)
                                  + (IF m.dy < 0 THEN 32 ELSE 0)
<1>1. flags \in 0 .. 255 /\ m.dx % 256 \in 0 .. 255 /\ m.dy % 256 \in 0 .. 255
  BY MotionType
<1> HIDE DEF flags
<1>2. PacketOf(m) = <<MouseByte(flags, 0, m), MouseByte(m.dx % 256, 1, m),
                      MouseByte(m.dy % 256, 2, m)>>
  BY DEF PacketOf, flags
<1>3. /\ PacketByte(m, 0) = MouseByte(flags, 0, m)
      /\ PacketByte(m, 1) = MouseByte(m.dx % 256, 1, m)
      /\ PacketByte(m, 2) = MouseByte(m.dy % 256, 2, m)
  BY <1>2 DEF PacketByte
<1>4. ASSUME NEW data \in 0 .. 255, NEW i \in 0 .. 2, NEW b,
             b = MouseByte(data, i, m)
      PROVE  b \in MouseBytes /\ b.aux /\ b.of = m /\ b.place = i
             /\ b \notin {KeyByte, AckByte}
  <2>1. b.aux /\ b.of = m /\ b.place = i /\ KeyByte.place = 3 /\ AckByte.place = 3
    BY <1>4 DEF MouseByte, KeyByte, AckByte
  <2>2. b \in MouseBytes
    BY <1>4 DEF MouseByte, MouseBytes
  <2> QED
    BY <2>1, <2>2
<1> DEFINE Shaped(i) == /\ PacketByte(m, i) \in MouseBytes
                        /\ PacketByte(m, i).aux /\ PacketByte(m, i).of = m
                        /\ PacketByte(m, i).place = i
                        /\ PacketByte(m, i) \notin {KeyByte, AckByte}
<1>5. ASSUME NEW data \in 0 .. 255, NEW i \in 0 .. 2,
             PacketByte(m, i) = MouseByte(data, i, m)
      PROVE  Shaped(i)
  BY <1>4, <1>5, ZenonT(40)
<1>6. 0 \in 0 .. 2 /\ 1 \in 0 .. 2 /\ 2 \in 0 .. 2
  OBVIOUS
<1>7. Shaped(0) /\ Shaped(1) /\ Shaped(2)
  <2> HIDE DEF Shaped
  <2> QED
    BY <1>1, <1>3, <1>5, <1>6, ZenonT(40)
<1>8. PacketOf(m) = <<PacketByte(m, 0), PacketByte(m, 1), PacketByte(m, 2)>>
  BY <1>2, <1>3, Zenon
<1> HIDE DEF Shaped
<1>9. \A i \in 0 .. 2 : Shaped(i)
  <2>1. \A i \in 0 .. 2 : i = 0 \/ i = 1 \/ i = 2
    OBVIOUS
  <2> QED
    BY <1>7, <2>1, Zenon
<1> QED
  BY <1>8, <1>9 DEF Shaped

(* What the bytes of a packet carry: the first has bit 3 set and the       *)
(* buttons in its low bits, the others the movements, of which the cast to *)
(* int8_t recovers what Carried says.                                      *)
LEMMA PacketData ==
  ASSUME NEW m \in Motions
  PROVE  /\ (PacketByte(m, 0).data \div 8) % 2 = 1
         /\ PacketByte(m, 0).data % 8 = m.buttons
         /\ Signed(PacketByte(m, 1).data) = Carried(m.dx)
         /\ Signed(PacketByte(m, 2).data) = Carried(m.dy)
<1> DEFINE x == IF m.dx < 0 THEN 16 ELSE 0
           y == IF m.dy < 0 THEN 32 ELSE 0
<1>1. m.buttons \in 0 .. 7 /\ m.dx \in -256 .. 255 /\ m.dy \in -256 .. 255
  BY MotionType
<1>2. /\ PacketByte(m, 0).data = 8 + m.buttons + x + y
      /\ PacketByte(m, 1).data = m.dx % 256
      /\ PacketByte(m, 2).data = m.dy % 256
  BY DEF PacketByte, PacketOf, MouseByte
<1>3. x \in {0, 16} /\ y \in {0, 32}
  OBVIOUS
<1> HIDE DEF x, y
<1>4. /\ ((8 + m.buttons + x + y) \div 8) % 2 = 1
      /\ (8 + m.buttons + x + y) % 8 = m.buttons
  <2>1. CASE x = 0 /\ y = 0
    BY <1>1, <2>1
  <2>2. CASE x = 16 /\ y = 0
    BY <1>1, <2>2
  <2>3. CASE x = 0 /\ y = 32
    BY <1>1, <2>3
  <2>4. CASE x = 16 /\ y = 32
    BY <1>1, <2>4
  <2> QED
    BY <1>3, <2>1, <2>2, <2>3, <2>4
<1>5. ASSUME NEW n \in -256 .. 255
      PROVE  Signed(n % 256) = Carried(n)
  <2>1. n % 256 = IF n < 0 THEN n + 256 ELSE n
    OBVIOUS
  <2> QED
    BY <2>1 DEF Signed, Carried
<1>6. Signed(m.dx % 256) = Carried(m.dx) /\ Signed(m.dy % 256) = Carried(m.dy)
  BY <1>1, <1>5, Zenon
<1> QED
  BY <1>2, <1>4, <1>6, Zenon

(* Clamping yields the nearest point of the screen. *)
LEMMA ClampIsNearest ==
  ASSUME NEW n \in Int, NEW max \in Nat
  PROVE  Clamp(n, max) = Nearest(n, max) /\ Clamp(n, max) \in 0 .. max
<1> DEFINE P(p) == \A q \in 0 .. max : Distance(p, n) <= Distance(q, n)
           c == Clamp(n, max)
<1>1. c \in 0 .. max /\ P(c)
  BY DEF Clamp, Distance
<1>2. ASSUME NEW p \in 0 .. max, P(p)
      PROVE  p = c
  <2>1. Distance(p, n) <= Distance(c, n)
    BY <1>1, <1>2
  <2> QED
    BY <2>1 DEF Distance, Clamp
<1>3. Nearest(n, max) = CHOOSE p \in 0 .. max : P(p)
  BY DEF Nearest
<1> HIDE DEF P, c
<1>4. Nearest(n, max) \in 0 .. max /\ P(Nearest(n, max))
  BY <1>1, <1>3
<1>5. Nearest(n, max) = c
  BY <1>2, <1>4
<1> QED
  BY <1>1, <1>5 DEF c

(* An answer is a mouse byte without a place in a packet. *)
LEMMA SpecialBytes ==
  /\ AckByte \in MouseBytes /\ AckByte.aux /\ AckByte.place = 3
  /\ ~KeyByte.aux /\ KeyByte # AckByte
<1>1. AckByte.aux /\ AckByte.place = 3 /\ ~KeyByte.aux
  BY DEF AckByte, KeyByte
<1>2. AckByte \in MouseBytes
  BY DEF AckByte, MouseBytes, ACK
<1> QED
  BY <1>1, <1>2

(* The buffer is empty, or holds the keyboard's byte, an answer or a byte  *)
(* of a packet.                                                            *)
LEMMA BufferByte ==
  ASSUME BufferHolds, out # <<>>
  PROVE  \E b : /\ out = <<b>> /\ Len(out) = 1 /\ out[1] = b
                /\ \/ b = KeyByte /\ ~b.aux
                   \/ /\ b \in MouseBytes /\ b.aux
                      /\ \/ b = AckByte
                         \/ \E m \in Motions : \E i \in 0 .. 2 : b = PacketByte(m, i)
<1>1. \A b : Len(<<b>>) = 1 /\ <<b>>[1] = b
  OBVIOUS
<1>2. CASE out \in {<<KeyByte>>, <<AckByte>>}
  BY <1>1, <1>2, SpecialBytes
<1>3. CASE \E m \in Motions : \E i \in 0 .. 2 : out = <<PacketByte(m, i)>>
  BY <1>1, <1>3, PacketShape
<1> QED
  BY <1>2, <1>3 DEF BufferHolds

(* Whose byte the buffer holds, as its type has it. *)
BufferType == out = <<>> \/ out = <<KeyByte>> \/ (Len(out) = 1 /\ out[1] \in MouseBytes)

(* What the output buffer holds is a byte of one of the devices. *)
LEMMA BufferTyped == BufferHolds => BufferType
BY BufferByte DEF BufferType

-----------------------------------------------------------------------------
(* Where the bytes are.                                                    *)

(* The part of the invariant about the buffer, the queue and the lines. *)
ControllerInv ==
  /\ auxq \in Seq(MouseBytes) /\ irq \subseteq {KEYBOARD_IRQ, MOUSE_IRQ}
  /\ config \subseteq {KEYBOARD_IRQ, MOUSE_IRQ}
  /\ unmasked \subseteq {KEYBOARD_IRQ, MOUSE_IRQ}
  /\ pc \in {"keyboard_init", "keyboard_init:mouse_init", "mouse_init", "loop"}
  /\ kbd_on \in BOOLEAN /\ streaming \in BOOLEAN
  /\ QueueHolds /\ BufferHolds /\ LinesUnmasked /\ NoStuckByte

(* The keyboard puts a byte into an empty buffer and requests its line. *)
LEMMA KeyboardSendsStep ==
  ASSUME ControllerInv, KeyboardSends
  PROVE  ControllerInv'
<1>1. /\ irq' \subseteq {KEYBOARD_IRQ, MOUSE_IRQ}
      /\ KEYBOARD_IRQ \in config' => KEYBOARD_IRQ \in irq'
  BY DEF ControllerInv, KeyboardSends
<1>2. QueueHolds' /\ BufferHolds' /\ LinesUnmasked'
  BY DEF ControllerInv, KeyboardSends, QueueHolds, BufferHolds, LinesUnmasked
<1>3. NoStuckByte'
  BY <1>1, <1>2 DEF NoStuckByte, LinesUnmasked
<1> QED
  BY <1>1, <1>2, <1>3 DEF ControllerInv, KeyboardSends

(* The mouse moves its next byte into an empty buffer and requests its     *)
(* line.                                                                   *)
LEMMA MouseSendsStep ==
  ASSUME ControllerInv, MouseSends
  PROVE  ControllerInv'
<1>1. /\ auxq \in Seq(MouseBytes) /\ auxq # <<>> /\ out = <<>>
      /\ out' = <<Head(auxq)>> /\ auxq' = Tail(auxq)
      /\ irq' = irq \union ({MOUSE_IRQ} \intersect config)
      /\ UNCHANGED <<pc, config, unmasked, kbd_on, streaming>>
  BY DEF ControllerInv, MouseSends
<1>2. /\ Head(auxq) \in MouseBytes /\ Tail(auxq) \in Seq(MouseBytes)
      /\ Len(auxq) \in Nat \ {0} /\ Len(Tail(auxq)) = Len(auxq) - 1
      /\ Head(auxq) = auxq[1]
      /\ \A i \in 1 .. Len(Tail(auxq)) : Tail(auxq)[i] = auxq[i + 1]
  BY <1>1, HeadTailProperties, EmptySeq
<1>3. QueueHolds' /\ BufferHolds'
  <2>1. CASE \A k \in 1 .. Len(auxq) : auxq[k] = AckByte
    <3>1. Head(auxq) = AckByte /\ \A k \in 1 .. Len(auxq') : auxq'[k] = AckByte
      BY <1>1, <1>2, <2>1
    <3> QED
      BY <1>1, <3>1 DEF QueueHolds, BufferHolds
  <2>2. ASSUME NEW m \in Motions,
               auxq = <<PacketByte(m, 0), PacketByte(m, 1), PacketByte(m, 2)>>
        PROVE  QueueHolds' /\ BufferHolds'
    <3>1. out' = <<PacketByte(m, 0)>> /\ auxq' = <<PacketByte(m, 1), PacketByte(m, 2)>>
      BY <1>1, <2>2
    <3> QED
      BY <3>1 DEF QueueHolds, BufferHolds
  <2>3. ASSUME NEW m \in Motions, auxq = <<PacketByte(m, 1), PacketByte(m, 2)>>
        PROVE  QueueHolds' /\ BufferHolds'
    <3>1. out' = <<PacketByte(m, 1)>> /\ auxq' = <<PacketByte(m, 2)>>
      BY <1>1, <2>3
    <3> QED
      BY <3>1 DEF QueueHolds, BufferHolds
  <2>4. ASSUME NEW m \in Motions, auxq = <<PacketByte(m, 2)>>
        PROVE  QueueHolds' /\ BufferHolds'
    <3>1. out' = <<PacketByte(m, 2)>> /\ auxq' = <<>> /\ Len(auxq') = 0
      BY <1>1, <2>4
    <3> QED
      BY <3>1 DEF QueueHolds, BufferHolds
  <2> QED
    BY <2>1, <2>2, <2>3, <2>4 DEF ControllerInv, QueueHolds
<1>4. LinesUnmasked' /\ MOUSE_IRQ \in unmasked \intersect config
  BY <1>1 DEF ControllerInv, LinesUnmasked
<1>5. NoStuckByte'
  <2>1. out'[1].aux
    BY <1>1, <1>2 DEF MouseBytes
  <2> QED
    BY <1>1, <1>4, <2>1 DEF NoStuckByte
<1>6. irq' \subseteq {KEYBOARD_IRQ, MOUSE_IRQ} /\ auxq' \in Seq(MouseBytes)
  BY <1>1, <1>2 DEF ControllerInv
<1> QED
  BY <1>1, <1>3, <1>4, <1>5, <1>6 DEF ControllerInv

(* A motion queues one packet behind an empty queue. *)
LEMMA MouseMovesStep ==
  ASSUME ControllerInv, NEW m \in Motions, MouseMoves(m)
  PROVE  ControllerInv'
<1>1. /\ streaming /\ auxq = <<>> /\ auxq' = PacketOf(m)
      /\ UNCHANGED <<pc, config, unmasked, out, irq, kbd_on, streaming>>
  BY DEF MouseMoves
<1>2. auxq' = <<PacketByte(m, 0), PacketByte(m, 1), PacketByte(m, 2)>>
  BY <1>1, PacketShape
<1>3. auxq' \in Seq(MouseBytes)
  BY <1>2, PacketShape
<1>4. QueueHolds'
  BY <1>2 DEF QueueHolds
<1>5. BufferHolds'
  <2>1. CASE out \in {<<>>, <<KeyByte>>, <<AckByte>>}
    BY <1>1, <2>1 DEF BufferHolds
  <2>2. CASE \E n \in Motions : out = <<PacketByte(n, 2)>>
    BY <1>1, <1>2, <2>2 DEF BufferHolds
  <2>3. \A b, c : <<b>> # <<>> /\ <<b, c>> # <<>>
    OBVIOUS
  <2> QED
    BY <1>1, <2>1, <2>2, <2>3 DEF ControllerInv, BufferHolds
<1>6. LinesUnmasked' /\ NoStuckByte'
  BY <1>1 DEF ControllerInv, LinesUnmasked, NoStuckByte
<1> QED
  BY <1>1, <1>3, <1>4, <1>5, <1>6 DEF ControllerInv

(* Emptying the buffer, or leaving a byte that is not the mouse's in it:   *)
(* the queue stays as it is or holds answers only.                         *)
LEMMA DrainStep ==
  ASSUME ControllerInv, out' = <<>> \/ out' = <<KeyByte>>,
         auxq' = auxq \/ \E n \in Nat : auxq' = [i \in 1 .. n |-> AckByte]
  PROVE  auxq' \in Seq(MouseBytes) /\ QueueHolds' /\ BufferHolds'
<1>1. CASE auxq' = auxq
  BY <1>1 DEF ControllerInv, QueueHolds, BufferHolds
<1>2. CASE \E n \in Nat : auxq' = [i \in 1 .. n |-> AckByte]
  <2>1. PICK n \in Nat : auxq' = [i \in 1 .. n |-> AckByte]
    BY <1>2
  <2>2. [i \in 1 .. n |-> AckByte] \in [1 .. n -> MouseBytes]
    BY SpecialBytes
  <2>3. auxq' \in Seq(MouseBytes)
    BY <2>1, <2>2, SeqDef
  <2>4. Len(auxq') = n
    BY <2>1
  <2>5. QueueHolds'
    BY <2>1, <2>4 DEF QueueHolds
  <2> QED
    BY <2>3, <2>5 DEF BufferHolds
<1> QED
  BY <1>1, <1>2

(* The code that polls: the initialisations, enable and disable. *)
LEMMA PollStep ==
  ASSUME ControllerInv,
         \/ keyboard_init \/ keyboard_init_timeout \/ mouse_init \/ mouse_init_timeout
         \/ \E on \in BOOLEAN : keyboard_enable(on) \/ mouse_enable(on)
  PROVE  ControllerInv'
<1> USE DEF Poll, PollInVain, MouseAnswers, AfterMouseInit
<1>1. irq' \subseteq {KEYBOARD_IRQ, MOUSE_IRQ}
  BY DEF ControllerInv, keyboard_init, keyboard_init_timeout, mouse_init,
         mouse_init_timeout, keyboard_enable, mouse_enable
<1>2. /\ unmasked' \subseteq {KEYBOARD_IRQ, MOUSE_IRQ}
      /\ config' \subseteq {KEYBOARD_IRQ, MOUSE_IRQ}
      /\ pc' \in {"keyboard_init", "keyboard_init:mouse_init", "mouse_init", "loop"}
      /\ unmasked \subseteq unmasked' /\ config \subseteq config'
      /\ MOUSE_IRQ \in unmasked' => MOUSE_IRQ \in unmasked \union config'
  BY DEF ControllerInv, keyboard_init, keyboard_init_timeout, mouse_init,
         mouse_init_timeout, keyboard_enable, mouse_enable, KEYBOARD_IRQ, MOUSE_IRQ
<1>3. kbd_on' \in BOOLEAN /\ streaming' \in BOOLEAN
  BY Zenon DEF ControllerInv, keyboard_init, keyboard_init_timeout, mouse_init,
         mouse_init_timeout, keyboard_enable, mouse_enable
<1>4. \/ auxq' = auxq
      \/ auxq' = <<>>
      \/ \E n \in Nat : auxq' = [i \in 1 .. n |-> AckByte]
  <2>1. \A n \in 0 .. MaxAcks : n \in Nat
    OBVIOUS
  <2>2. \A n \in 0 .. 1 : n \in Nat
    OBVIOUS
  <2> QED
    BY <2>1, <2>2, Zenon
    DEF keyboard_init, keyboard_init_timeout, mouse_init, mouse_init_timeout,
        keyboard_enable, mouse_enable
<1>5. auxq' = auxq \/ \E n \in Nat : auxq' = [i \in 1 .. n |-> AckByte]
  <2>1. <<>> = [i \in 1 .. 0 |-> AckByte]
    OBVIOUS
  <2> QED
    BY <1>4, <2>1
<1>6. LinesUnmasked'
  <2>1. streaming' \/ auxq' # <<>> => MOUSE_IRQ \in unmasked'
    <3>1. CASE mouse_init
      BY <3>1 DEF mouse_init
    <3>2. CASE \E on \in BOOLEAN : mouse_enable(on)
      BY <3>2 DEF mouse_enable
    <3>3. CASE mouse_init_timeout
      BY <3>3 DEF mouse_init_timeout
    <3>4. CASE UNCHANGED <<streaming, auxq>>
      BY <1>2, <3>4 DEF ControllerInv, LinesUnmasked
    <3> QED
      BY <3>1, <3>2, <3>3, <3>4 DEF keyboard_init, keyboard_init_timeout, keyboard_enable
  <2> QED
    BY <1>2, <2>1 DEF ControllerInv, LinesUnmasked
<1>7. NoStuckByte'
  <2> SUFFICES ASSUME pc' = "loop", out' # <<>>, KEYBOARD_IRQ \in config'
               PROVE  KEYBOARD_IRQ \in irq'
    BY <1>6 DEF NoStuckByte, LinesUnmasked
  <2> QED
    BY DEF keyboard_init, keyboard_init_timeout, mouse_init, mouse_init_timeout,
           keyboard_enable, mouse_enable
<1>8. CASE out' = <<>> \/ out' = <<KeyByte>>
  BY <1>1, <1>2, <1>3, <1>5, <1>6, <1>7, <1>8, DrainStep DEF ControllerInv
<1>9. CASE UNCHANGED <<out, auxq>>
  <2>1. QueueHolds' /\ BufferHolds' /\ auxq' \in Seq(MouseBytes)
    BY <1>9 DEF ControllerInv, QueueHolds, BufferHolds
  <2> QED
    BY <1>1, <1>2, <1>3, <1>6, <1>7, <2>1 DEF ControllerInv
<1>10. \/ out' = <<>> \/ out' = <<KeyByte>> \/ UNCHANGED <<out, auxq>>
  BY DEF keyboard_init, keyboard_init_timeout, mouse_init, mouse_init_timeout,
         keyboard_enable, mouse_enable
<1> QED
  BY <1>8, <1>9, <1>10

(* The handlers: the one that leaves a byte has the other's request. *)
LEMMA HandlerStep ==
  ASSUME ControllerInv, keyboard_handler \/ mouse_handler
  PROVE  ControllerInv'
<1>1. /\ UNCHANGED <<pc, config, unmasked, kbd_on, streaming, auxq>>
      /\ irq' \subseteq {KEYBOARD_IRQ, MOUSE_IRQ}
  BY DEF keyboard_handler, mouse_handler, Interrupted, ControllerInv
<1>2. LinesUnmasked'
  BY <1>1 DEF ControllerInv, LinesUnmasked
<1>3. CASE out' = <<>>
  <2>1. NoStuckByte'
    BY <1>3 DEF NoStuckByte
  <2> QED
    BY <1>1, <1>2, <1>3, <2>1, DrainStep DEF ControllerInv
<1>4. CASE out' # <<>>
  <2>1. /\ out' = out /\ out # <<>> /\ ~out[1].aux
        /\ irq' = irq \ {MOUSE_IRQ}
    BY <1>4 DEF keyboard_handler, mouse_handler, Interrupted
  <2>2. QueueHolds' /\ BufferHolds' /\ auxq' \in Seq(MouseBytes)
    BY <1>1, <2>1 DEF ControllerInv, QueueHolds, BufferHolds
  <2>3. NoStuckByte'
    BY <1>1, <2>1 DEF ControllerInv, NoStuckByte, KEYBOARD_IRQ, MOUSE_IRQ
  <2> QED
    BY <1>1, <1>2, <2>2, <2>3 DEF ControllerInv
<1> QED
  BY <1>3, <1>4

(* Every step keeps the invariant of the controller. *)
LEMMA ControllerNext ==
  ASSUME ControllerInv, [Next]_vars
  PROVE  ControllerInv'
<1>1. CASE UNCHANGED vars
  BY <1>1 DEF vars, controllerVars, ControllerInv, QueueHolds, BufferHolds,
              LinesUnmasked, NoStuckByte
<1> QED
  BY <1>1, KeyboardSendsStep, MouseSendsStep, MouseMovesStep, PollStep, HandlerStep
  DEF Next

-----------------------------------------------------------------------------
(* The decoder.                                                            *)

(* The part of the invariant about the packet being decoded. *)
DecoderInv ==
  /\ cycle \in 0 .. 2
  /\ packet \in [buttons: 0 .. 255, x_movement: -128 .. 127]
  /\ mouse_state \in [x_pos: 0 .. XMAX, y_pos: 0 .. YMAX, buttons: 0 .. 7]
  /\ motion \in Motions \union {NoMotion} /\ whole \in BOOLEAN
  /\ DecodedSoFar

(* The invariant splits into the controller and the decoder. *)
LEMMA Ps2InvParts == Ps2Inv <=> ControllerInv /\ DecoderInv
BY BufferTyped, ZenonT(40) DEF Ps2Inv, ControllerInv, DecoderInv, TypeOK, BufferType

(* A byte as int8_t, and the pointer after a movement. *)
LEMMA SignedType ==
  ASSUME NEW data \in 0 .. 255
  PROVE  Signed(data) \in -128 .. 127
BY DEF Signed

(* The decoder takes a byte of the mouse. *)
LEMMA ByteStep ==
  ASSUME DecoderInv, NEW b \in MouseBytes,
         b = AckByte \/ \E m \in Motions : \E i \in 0 .. 2 : b = PacketByte(m, i),
         FirstByte(b) \/ SecondByte(b) \/ ThirdByte(b)
  PROVE  DecoderInv'
<1>1. /\ b.data \in 0 .. 255 /\ b.of \in Motions \union {NoMotion}
      /\ Signed(b.data) \in -128 .. 127
  BY SignedType DEF MouseBytes
<1>2. ASSUME b.place # 3
      PROVE  /\ b.of \in Motions /\ b.place \in 0 .. 2
             /\ b = PacketByte(b.of, b.place)
  BY <1>2, SpecialBytes, PacketShape
<1>3. CASE FirstByte(b)
  <2>1. CASE UNCHANGED decoderVars
    BY <2>1 DEF decoderVars, ghostVars, DecoderInv, DecodedSoFar
  <2>2. CASE /\ packet' = [packet EXCEPT !.buttons = b.data]
             /\ cycle' = 1 /\ motion' = b.of /\ whole' = (b.place = 0)
             /\ mouse_state' = mouse_state
    <3>1. /\ packet' \in [buttons: 0 .. 255, x_movement: -128 .. 127]
          /\ packet'.buttons = b.data
      <4>1. packet \in [buttons: 0 .. 255, x_movement: -128 .. 127]
        BY DEF DecoderInv
      <4> DEFINE d == b.data
                 p == [packet EXCEPT !.buttons = d]
      <4>2. packet' = p /\ d \in 0 .. 255
        BY <1>1, <2>2
      <4> HIDE DEF d
      <4>3. p \in [buttons: 0 .. 255, x_movement: -128 .. 127] /\ p.buttons = d
        BY <4>1, <4>2
      <4> QED
        BY <4>2, <4>3, Zenon DEF d
    <3>2. whole' \in BOOLEAN /\ (whole' => b.place = 0)
      BY <2>2, Zenon
    <3>3. DecodedSoFar'
      BY <1>2, <2>2, <3>1, <3>2 DEF DecodedSoFar
    <3> QED
      BY <1>1, <2>2, <3>1, <3>2, <3>3 DEF DecoderInv
  <2> QED
    BY <1>3, <2>1, <2>2 DEF FirstByte, decoderVars, ghostVars
<1>4. CASE SecondByte(b)
  <2>1. /\ cycle = 1 /\ cycle' = 2 /\ motion' = motion /\ mouse_state' = mouse_state
        /\ packet' = [packet EXCEPT !.x_movement = Signed(b.data)]
        /\ whole' = (whole /\ b.place = 1 /\ b.of = motion)
    BY <1>4 DEF SecondByte
  <2>2. /\ packet' \in [buttons: 0 .. 255, x_movement: -128 .. 127]
        /\ packet'.buttons = packet.buttons /\ packet'.x_movement = Signed(b.data)
    <3>1. packet \in [buttons: 0 .. 255, x_movement: -128 .. 127]
      BY DEF DecoderInv
    <3> DEFINE x == Signed(b.data)
               p == [packet EXCEPT !.x_movement = x]
    <3>2. packet' = p /\ x \in -128 .. 127
      BY <1>1, <2>1
    <3> HIDE DEF x
    <3>3. /\ p \in [buttons: 0 .. 255, x_movement: -128 .. 127]
          /\ p.buttons = packet.buttons /\ p.x_movement = x
      BY <3>1, <3>2
    <3> QED
      BY <3>2, <3>3, Zenon DEF x
  <2>3. whole' \in BOOLEAN /\ (whole' => whole /\ b.place = 1 /\ b.of = motion)
    BY <2>1, Zenon
  <2>4. DecodedSoFar'
    <3> SUFFICES ASSUME whole'
                 PROVE  /\ motion \in Motions
                        /\ packet'.buttons = PacketByte(motion, 0).data
                        /\ packet'.x_movement = Carried(motion.dx)
      BY <2>1 DEF DecodedSoFar
    <3>1. /\ motion \in Motions /\ b = PacketByte(motion, 1)
          /\ packet.buttons = PacketByte(motion, 0).data
      BY <1>2, <2>1, <2>3 DEF DecoderInv, DecodedSoFar
    <3> QED
      BY <2>2, <3>1, PacketData
  <2> QED
    BY <2>1, <2>2, <2>3, <2>4 DEF DecoderInv
<1>5. CASE ThirdByte(b)
  <2>1. /\ cycle' = 0 /\ packet' = packet /\ motion' = motion
        /\ whole' = (whole /\ b.place = 2 /\ b.of = motion)
    BY <1>5 DEF ThirdByte
  <2>2. whole' \in BOOLEAN /\ (whole' => whole)
    BY <2>1, Zenon
  <2>3. mouse_state' \in [x_pos: 0 .. XMAX, y_pos: 0 .. YMAX, buttons: 0 .. 7]
    <3>1. /\ mouse_state.x_pos + packet.x_movement \in Int
          /\ mouse_state.y_pos - Signed(b.data) \in Int
          /\ packet.buttons % 8 \in 0 .. 7 /\ XMAX \in Nat /\ YMAX \in Nat
      BY <1>1, ScreenAssumption, SMTT(30) DEF DecoderInv
    <3>2. /\ Clamp(mouse_state.x_pos + packet.x_movement, XMAX) \in 0 .. XMAX
          /\ Clamp(mouse_state.y_pos - Signed(b.data), YMAX) \in 0 .. YMAX
      BY <3>1, ClampIsNearest
    <3> QED
      BY <1>5, <3>1, <3>2 DEF ThirdByte
  <2>4. DecodedSoFar'
    BY <2>1, <2>2 DEF DecoderInv, DecodedSoFar
  <2> QED
    BY <2>1, <2>2, <2>3, <2>4 DEF DecoderInv
<1> QED
  BY <1>3, <1>4, <1>5

(* Only mouse_handler decodes; mouse_init puts the pointer back. *)
LEMMA DecoderNext ==
  ASSUME ControllerInv, DecoderInv, [Next]_vars
  PROVE  DecoderInv'
<1>1. CASE UNCHANGED decoderVars
  BY <1>1 DEF decoderVars, ghostVars, DecoderInv, DecodedSoFar
<1>2. CASE mouse_init
  <2>1. /\ UNCHANGED <<cycle, packet, motion, whole>>
        /\ mouse_state' = [x_pos |-> X0, y_pos |-> Y0, buttons |-> 0]
    BY <1>2 DEF mouse_init, ghostVars
  <2>2. mouse_state' \in [x_pos: 0 .. XMAX, y_pos: 0 .. YMAX, buttons: 0 .. 7]
    BY <2>1, ScreenAssumption
  <2> QED
    BY <2>1, <2>2 DEF DecoderInv, DecodedSoFar
<1>3. CASE mouse_handler
  <2>1. CASE ~(out # <<>> /\ out[1].aux)
    BY <1>1, <1>3, <2>1 DEF mouse_handler
  <2>2. CASE out # <<>> /\ out[1].aux
    <3>1. PICK b : /\ out[1] = b
                   /\ \/ b = KeyByte /\ ~b.aux
                      \/ /\ b \in MouseBytes
                         /\ \/ b = AckByte
                            \/ \E m \in Motions : \E i \in 0 .. 2 : b = PacketByte(m, i)
      BY <2>2, BufferByte DEF ControllerInv
    <3>2. /\ b \in MouseBytes
          /\ b = AckByte \/ \E m \in Motions : \E i \in 0 .. 2 : b = PacketByte(m, i)
      BY <2>2, <3>1
    <3>3. FirstByte(b) \/ SecondByte(b) \/ ThirdByte(b)
      BY <1>3, <2>2, <3>1 DEF mouse_handler
    <3> QED
      BY <3>2, <3>3, ByteStep
  <2> QED
    BY <2>1, <2>2
<1>4. \/ UNCHANGED decoderVars \/ mouse_init \/ mouse_handler
  BY DEF Next, vars, KeyboardSends, MouseSends, MouseMoves, keyboard_init,
         keyboard_init_timeout, mouse_init_timeout, keyboard_enable, mouse_enable,
         keyboard_handler
<1> QED
  BY <1>1, <1>2, <1>3, <1>4

(* A whole packet moves the pointer as its motion says. *)
Moved ==
  whole' /\ cycle = 2 /\ cycle' = 0 =>
    mouse_state' = [x_pos |-> Nearest(mouse_state.x_pos + Carried(motion.dx), XMAX),
                    y_pos |-> Nearest(mouse_state.y_pos - Carried(motion.dy), YMAX),
                    buttons |-> motion.buttons]

(* A packet that was read whole moves the pointer as the mouse was moved. *)
LEMMA MovedStep ==
  ASSUME ControllerInv, DecoderInv, Next
  PROVE  Moved
<1> SUFFICES ASSUME whole', cycle = 2, cycle' = 0
             PROVE  mouse_state' =
                      [x_pos |-> Nearest(mouse_state.x_pos + Carried(motion.dx), XMAX),
                       y_pos |-> Nearest(mouse_state.y_pos - Carried(motion.dy), YMAX),
                       buttons |-> motion.buttons]
  BY DEF Moved
<1>1. out # <<>> /\ out[1].aux /\ ThirdByte(out[1])
  BY DEF Next, decoderVars, KeyboardSends, MouseSends, MouseMoves, keyboard_init,
         keyboard_init_timeout, mouse_init, mouse_init_timeout, keyboard_enable,
         mouse_enable, keyboard_handler, mouse_handler, FirstByte, SecondByte
<1>2. PICK b : /\ out[1] = b
               /\ \/ b = KeyByte /\ ~b.aux
                  \/ b = AckByte
                  \/ \E m \in Motions : \E i \in 0 .. 2 : b = PacketByte(m, i)
  BY <1>1, BufferByte DEF ControllerInv
<1>3. /\ whole /\ b.place = 2 /\ b.of = motion
      /\ mouse_state' =
           [x_pos |-> Clamp(mouse_state.x_pos + packet.x_movement, XMAX),
            y_pos |-> Clamp(mouse_state.y_pos - Signed(b.data), YMAX),
            buttons |-> packet.buttons % 8]
  BY <1>1, <1>2 DEF ThirdByte
<1>4. motion \in Motions /\ b = PacketByte(motion, 2)
  BY <1>1, <1>2, <1>3, SpecialBytes, PacketShape
<1>5. /\ packet.x_movement = Carried(motion.dx) /\ Signed(b.data) = Carried(motion.dy)
      /\ packet.buttons % 8 = motion.buttons
  BY <1>3, <1>4, PacketData DEF DecoderInv, DecodedSoFar
<1>6. /\ mouse_state.x_pos + Carried(motion.dx) \in Int
      /\ mouse_state.y_pos - Carried(motion.dy) \in Int
      /\ XMAX \in Nat /\ YMAX \in Nat
  <2>1. Carried(motion.dx) \in Int /\ Carried(motion.dy) \in Int
    BY <1>4, MotionType DEF Carried
  <2> QED
    BY <2>1, ScreenAssumption, SMTT(30) DEF DecoderInv
<1>7. /\ Clamp(mouse_state.x_pos + Carried(motion.dx), XMAX)
           = Nearest(mouse_state.x_pos + Carried(motion.dx), XMAX)
      /\ Clamp(mouse_state.y_pos - Carried(motion.dy), YMAX)
           = Nearest(mouse_state.y_pos - Carried(motion.dy), YMAX)
  BY <1>6, ClampIsNearest
<1> QED
  BY <1>3, <1>5, <1>7, Zenon

-----------------------------------------------------------------------------
(* Alignment.                                                              *)

MouseByteWaits == out # <<>> /\ out[1].aux

(* The byte that comes next is the one in the buffer or, when that one is  *)
(* not the mouse's, the first of the queue.                                *)
LEMMA NextByte ==
  ControllerInv =>
    /\ MouseByteWaits => (Aligned <=> out[1].place = cycle)
    /\ ~MouseByteWaits /\ auxq # <<>> => (Aligned <=> Head(auxq).place = cycle)
    /\ ~MouseByteWaits /\ auxq = <<>> => (Aligned <=> cycle = 0)
<1> SUFFICES ASSUME ControllerInv
             PROVE  /\ MouseByteWaits => (Aligned <=> out[1].place = cycle)
                    /\ ~MouseByteWaits /\ auxq # <<>>
                         => (Aligned <=> Head(auxq).place = cycle)
                    /\ ~MouseByteWaits /\ auxq = <<>> => (Aligned <=> cycle = 0)
  OBVIOUS
<1>1. CASE MouseByteWaits
  <2>1. PICK b \in MouseBytes : out = <<b>> /\ out[1] = b
    BY <1>1, BufferByte DEF ControllerInv, MouseByteWaits
  <2>2. /\ <<b>> \in Seq(MouseBytes) /\ Len(<<b>>) = 1 /\ <<b>>[1] = b
        /\ auxq \in Seq(MouseBytes)
    BY <2>1 DEF ControllerInv
  <2>3. /\ <<b>> \o auxq \in Seq(MouseBytes) /\ Len(<<b>> \o auxq) = 1 + Len(auxq)
        /\ (<<b>> \o auxq)[1] = b /\ <<b>> \o auxq # <<>>
    BY <2>2, ConcatProperties, LenProperties, EmptySeq
  <2>4. Head(<<b>> \o auxq) = b
    BY <2>3
  <2>5. FromMouse = <<b>> \o auxq
    BY <1>1, <2>1, Zenon DEF FromMouse, MouseByteWaits
  <2>6. Aligned <=> b.place = cycle
    BY <2>3, <2>4, <2>5, Zenon DEF Aligned
  <2> QED
    BY <1>1, <2>1, <2>6
<1>2. CASE ~MouseByteWaits
  BY <1>2 DEF FromMouse, Aligned, MouseByteWaits
<1> QED
  BY <1>1, <1>2

(* The steps of the devices and of the handlers that take no byte of the   *)
(* mouse's from the decoder.                                               *)
StreamStep ==
  \/ KeyboardSends \/ MouseSends \/ mouse_handler
  \/ \E m \in Motions : MouseMoves(m)
  \/ keyboard_handler /\ ~(out # <<>> /\ out[1].aux)

(* The decoder takes the byte it expects and then expects the next one. *)
LEMMA DecodeAligned ==
  ASSUME ControllerInv, ControllerInv', Aligned, mouse_handler, MouseByteWaits
  PROVE  Aligned'
<1>1. PICK b : /\ out = <<b>> /\ out[1] = b /\ b.aux
               /\ \/ b = AckByte
                  \/ \E m \in Motions : \E i \in 0 .. 2 : b = PacketByte(m, i)
  BY BufferByte, SpecialBytes DEF ControllerInv, MouseByteWaits
<1>2. /\ out' = <<>> /\ auxq' = auxq
      /\ FirstByte(b) \/ SecondByte(b) \/ ThirdByte(b)
  BY <1>1 DEF mouse_handler, MouseByteWaits
<1>3. cycle \in 0 .. 2 /\ b.place = cycle
  BY <1>1, <1>2, NextByte DEF FirstByte, SecondByte, ThirdByte
<1>4. PICK m \in Motions : \E i \in 0 .. 2 : b = PacketByte(m, i)
  BY <1>1, <1>3, SpecialBytes
<1>5. b = PacketByte(m, cycle)
  BY <1>3, <1>4, PacketShape
<1>6. (ControllerInv =>
        /\ MouseByteWaits => (Aligned <=> out[1].place = cycle)
        /\ ~MouseByteWaits /\ auxq # <<>> => (Aligned <=> Head(auxq).place = cycle)
        /\ ~MouseByteWaits /\ auxq = <<>> => (Aligned <=> cycle = 0))'
  BY NextByte, PTL
<1>7. ~MouseByteWaits'
  BY <1>2 DEF MouseByteWaits
<1>8. /\ auxq # <<>> => (Aligned' <=> Head(auxq).place = cycle')
      /\ auxq = <<>> => (Aligned' <=> cycle' = 0)
  BY <1>2, <1>6, <1>7
<1>9. b \notin {KeyByte, AckByte} /\ \A k \in 0 .. 2 : \A n \in Motions :
                                       b = PacketByte(n, k) => n = m /\ k = cycle
  BY <1>3, <1>5, PacketShape
<1>10. \A x, y : <<x>> = <<y>> => x = y
  OBVIOUS
<1>11. \/ cycle = 0 /\ auxq = <<PacketByte(m, 1), PacketByte(m, 2)>>
       \/ cycle = 1 /\ auxq = <<PacketByte(m, 2)>>
       \/ /\ cycle = 2
          /\ auxq = <<>> \/ \E n \in Motions : auxq =
               <<PacketByte(n, 0), PacketByte(n, 1), PacketByte(n, 2)>>
  <2>1. BufferHolds /\ out # <<>> /\ 0 \in 0 .. 2 /\ 1 \in 0 .. 2 /\ 2 \in 0 .. 2
    BY <1>1 DEF ControllerInv
  <2>2. out \notin {<<>>, <<KeyByte>>, <<AckByte>>}
    BY <1>1, <1>9, <1>10, <2>1
  <2>3. ASSUME NEW n \in Motions, NEW k \in 0 .. 2, out = <<PacketByte(n, k)>>
        PROVE  n = m /\ k = cycle
    BY <1>1, <1>9, <1>10, <2>3
  <2> QED
    BY <2>1, <2>2, <2>3, Zenon DEF BufferHolds
<1>12. cycle' = IF cycle = 2 THEN 0 ELSE cycle + 1
  <2>1. cycle = 0 => (b.data \div 8) % 2 = 1
    BY <1>5, PacketData
  <2> QED
    BY <1>2, <1>3, <2>1 DEF FirstByte, SecondByte, ThirdByte
<1>13. CASE cycle = 0
  <2>1. auxq # <<>> /\ Head(auxq) = PacketByte(m, 1)
    BY <1>11, <1>13
  <2> QED
    BY <1>8, <1>12, <1>13, <2>1, PacketShape
<1>14. CASE cycle = 1
  <2>1. auxq # <<>> /\ Head(auxq) = PacketByte(m, 2)
    BY <1>11, <1>14
  <2> QED
    BY <1>8, <1>12, <1>14, <2>1, PacketShape
<1>15. CASE cycle = 2
  <2>1. auxq = <<>> \/ \E n \in Motions : auxq # <<>> /\ Head(auxq) = PacketByte(n, 0)
    BY <1>11, <1>15
  <2> QED
    BY <1>8, <1>12, <1>15, <2>1, PacketShape
<1> QED
  BY <1>3, <1>13, <1>14, <1>15

(* A step of the byte stream keeps an aligned decoder aligned. *)
LEMMA AlignedStep ==
  ASSUME ControllerInv, ControllerInv', Aligned, StreamStep
  PROVE  Aligned'
<1>1. (ControllerInv =>
        /\ MouseByteWaits => (Aligned <=> out[1].place = cycle)
        /\ ~MouseByteWaits /\ auxq # <<>> => (Aligned <=> Head(auxq).place = cycle)
        /\ ~MouseByteWaits /\ auxq = <<>> => (Aligned <=> cycle = 0))'
  BY NextByte, PTL
<1>2. ASSUME UNCHANGED <<auxq, cycle>>, ~MouseByteWaits, ~MouseByteWaits'
      PROVE  Aligned'
  BY <1>1, <1>2, NextByte
<1>3. CASE KeyboardSends
  <2>1. ~MouseByteWaits /\ ~MouseByteWaits' /\ UNCHANGED <<auxq, cycle>>
    BY <1>3, SpecialBytes DEF KeyboardSends, MouseByteWaits, decoderVars
  <2> QED
    BY <1>2, <2>1
<1>4. CASE MouseSends
  <2>1. /\ auxq # <<>> /\ ~MouseByteWaits /\ cycle' = cycle /\ out' = <<Head(auxq)>>
    BY <1>4 DEF MouseSends, MouseByteWaits, decoderVars
  <2>2. Head(auxq) \in MouseBytes
    BY <2>1, HeadTailProperties DEF ControllerInv
  <2>3. MouseByteWaits' /\ out'[1] = Head(auxq)
    BY <2>1, <2>2 DEF MouseByteWaits, MouseBytes
  <2> QED
    BY <1>1, <2>1, <2>3, NextByte
<1>5. CASE mouse_handler
  <2>1. CASE MouseByteWaits
    BY <1>5, <2>1, DecodeAligned
  <2>2. CASE ~MouseByteWaits
    <3>1. UNCHANGED <<out, auxq, cycle>>
      BY <1>5, <2>2 DEF mouse_handler, MouseByteWaits, decoderVars
    <3>2. ~MouseByteWaits'
      BY <2>2, <3>1 DEF MouseByteWaits
    <3> QED
      BY <1>2, <2>2, <3>1, <3>2
  <2> QED
    BY <2>1, <2>2
<1>6. ASSUME NEW m \in Motions, MouseMoves(m)
      PROVE  Aligned'
  <2>1. UNCHANGED <<out, cycle>> /\ auxq = <<>> /\ auxq' = PacketOf(m)
    BY <1>6 DEF MouseMoves, decoderVars
  <2>2. MouseByteWaits' <=> MouseByteWaits
    BY <2>1 DEF MouseByteWaits
  <2>3. auxq' # <<>> /\ Head(auxq') = PacketByte(m, 0) /\ PacketByte(m, 0).place = 0
    BY <2>1, PacketShape
  <2> QED
    BY <1>1, <2>1, <2>2, <2>3, NextByte
<1>7. CASE keyboard_handler /\ ~(out # <<>> /\ out[1].aux)
  <2>1. ~MouseByteWaits /\ ~MouseByteWaits' /\ UNCHANGED <<auxq, cycle>>
    BY <1>7 DEF keyboard_handler, MouseByteWaits, decoderVars
  <2> QED
    BY <1>2, <2>1
<1> QED
  BY <1>3, <1>4, <1>5, <1>6, <1>7 DEF StreamStep

-----------------------------------------------------------------------------
(* The theorems.                                                           *)

(* At reset the buffer and the decoder are empty. *)
LEMMA InitInv == Init => Ps2Inv
<1> SUFFICES ASSUME Init PROVE ControllerInv /\ DecoderInv
  BY Ps2InvParts
<1>1. ControllerInv
  <2>1. auxq = <<>> /\ <<>> \in Seq(MouseBytes) /\ Len(<<>>) = 0
    BY EmptySeq DEF Init
  <2>2. QueueHolds /\ BufferHolds /\ LinesUnmasked /\ NoStuckByte
    BY <2>1 DEF Init, QueueHolds, BufferHolds, LinesUnmasked, NoStuckByte,
                KEYBOARD_IRQ, MOUSE_IRQ
  <2>3. kbd_on \in BOOLEAN /\ streaming \in BOOLEAN
    BY Zenon DEF Init
  <2>4. /\ auxq \in Seq(MouseBytes) /\ irq \subseteq {KEYBOARD_IRQ, MOUSE_IRQ}
        /\ config \subseteq {KEYBOARD_IRQ, MOUSE_IRQ}
        /\ unmasked \subseteq {KEYBOARD_IRQ, MOUSE_IRQ} /\ pc = "keyboard_init"
    BY <2>1 DEF Init
  <2> QED
    BY <2>2, <2>3, <2>4, Zenon DEF ControllerInv
<1>2. DecoderInv
  <2>1. whole = FALSE /\ motion = NoMotion /\ cycle = 0
    BY DEF Init
  <2>2. packet \in [buttons: 0 .. 255, x_movement: -128 .. 127]
    BY DEF Init
  <2>3. mouse_state \in [x_pos: 0 .. XMAX, y_pos: 0 .. YMAX, buttons: 0 .. 7]
    BY ScreenAssumption DEF Init
  <2>4. DecodedSoFar /\ whole \in BOOLEAN
    BY <2>1, Zenon DEF DecodedSoFar
  <2>5. cycle \in 0 .. 2 /\ motion \in Motions \union {NoMotion}
    BY <2>1
  <2> QED
    BY <2>2, <2>3, <2>4, <2>5 DEF DecoderInv
<1> QED
  BY <1>1, <1>2

(* Every step preserves the invariant. *)
LEMMA NextInv == Ps2Inv /\ [Next]_vars => Ps2Inv'
<1> SUFFICES ASSUME ControllerInv, DecoderInv, [Next]_vars PROVE Ps2Inv'
  BY Ps2InvParts
<1>1. ControllerInv' /\ DecoderInv'
  BY ControllerNext, DecoderNext
<1>2. (Ps2Inv <=> ControllerInv /\ DecoderInv)'
  BY Ps2InvParts, PTL
<1> QED
  BY <1>1, <1>2

(* The inductive invariant holds in every state of every behaviour. *)
THEOREM Ps2Invariant == Spec => []Ps2Inv
BY InitInv, NextInv, PTL DEF Spec

(* Every variable keeps its type: the pointer stays on the screen whatever *)
(* bytes the decoder takes for movements.                                  *)
THEOREM TypeCorrect == Spec => []TypeOK
<1>1. Ps2Inv => TypeOK
  BY DEF Ps2Inv
<1> QED
  BY <1>1, Ps2Invariant, PTL

(* Once the system is up and its controller requests interrupts, a byte in *)
(* the buffer always has an interrupt on its way whose handler takes it,   *)
(* whatever the firmware left and whichever initialisation gave up.        *)
THEOREM BytesAreTaken == Spec => []NoStuckByte
<1>1. Ps2Inv => NoStuckByte
  BY DEF Ps2Inv
<1> QED
  BY <1>1, Ps2Invariant, PTL

(* The decoder stays in step with the packets through every motion, byte   *)
(* and interrupt.                                                          *)
THEOREM DecoderStaysAligned == Spec => AlignmentKept
<1>1. Ps2Inv /\ Ps2Inv' => [Aligned /\ StreamStep => Aligned']_vars
  <2>1. (Ps2Inv <=> ControllerInv /\ DecoderInv)'
    BY Ps2InvParts, PTL
  <2> QED
    BY <2>1, Ps2InvParts, AlignedStep
<1>2. [][Aligned /\ StreamStep => Aligned']_vars => AlignmentKept
  BY PTL DEF StreamStep, AlignmentKept
<1> QED
  BY <1>1, <1>2, Ps2Invariant, PTL

(* A packet decoded from the bytes of one motion moves the pointer by that *)
(* motion, up to the edge of the screen, or by what int8_t makes of it     *)
(* when its nine bits do not fit.                                          *)
THEOREM PointerMovesAsSent == Spec => MovesAsSent
<1>1. Ps2Inv /\ [Next]_vars => [Moved]_vars
  BY Ps2InvParts, MovedStep
<1>2. [][Moved]_vars => MovesAsSent
  BY PTL DEF Moved, MovesAsSent
<1> QED
  BY <1>1, <1>2, Ps2Invariant, PTL DEF Spec

=============================================================================
