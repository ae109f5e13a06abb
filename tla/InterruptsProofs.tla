-------------------------- MODULE InterruptsProofs --------------------------
(***************************************************************************)
(* Proofs about Interrupts, for every width of the two tick counters and   *)
(* every depth to which handlers nest.                                     *)
(***************************************************************************)
EXTENDS Interrupts, TLAPS, SequenceTheorems

(* The boot points before lidt, before the PICs are remapped, before the   *)
(* timer's callback is registered, before the first sti, and before the    *)
(* first of the keyboard's callbacks is registered.                        *)
BeforeLidt == {"idt_init"}
BeforeRemap == BeforeLidt \cup {"pic_init"}
BeforeTimer == BeforeRemap \cup {"pit_init", "pit_set_callback"}
BeforeSti == BeforeTimer \cup
  {"rtc_init", "rtc_read_time", "keyboard_init", "keyboard_init:flush",
   "keyboard_init:mouse_init", "keyboard_init:mouse_init:flush"}
BeforeCallbacks == BeforeSti \cup {"keyboard_init:sti"}

(* What the boot code has done when it is at pc. *)
BootOrder ==
  /\ pc \notin BeforeLidt => idt_loaded
  /\ pc \notin BeforeRemap => remapped /\ CASCADE_IRQ \notin imr
  /\ pc \notin BeforeTimer => timer_callback
  /\ pc \in BeforeSti =>
       ~iflag /\ \A n \in 1 .. Len(frames) : frames[n].irq = NMI
  /\ pc \in BeforeCallbacks => kbd_callbacks = 0
  /\ pc = "set_keyboard_callbacks" => kbd_callbacks <= 2

(* A handler that has not run its body is the innermost one, but for an    *)
(* NMI that came in it, and the interrupt flag is clear until it has.      *)
OneUndone ==
  /\ iflag => \A n \in 1 .. Len(frames) : frames[n].done
  /\ \A n, m \in 1 .. Len(frames) :
       n < m /\ ~frames[n].done => frames[m].irq = NMI

(* The line a request of i puts in service on the master. *)
MasterLine(i) == IF i < 8 THEN i ELSE CASCADE_IRQ

(* Only the line whose handler has yet to run its body is in service; the  *)
(* EOI of an NMI may already have ended its service on the master.         *)
ServedBy(f) ==
  /\ ~f.done /\ f.irq # NMI
  /\ isr1 \subseteq {MasterLine(f.irq)}
  /\ isr2 \subseteq {f.irq} /\ (f.irq < 8 => isr2 = {})

InService ==
  \/ isr1 = {} /\ isr2 = {}
  \/ \E n \in 1 .. Len(frames) : ServedBy(frames[n])

InterruptsInv == TypeOK /\ BootOrder /\ OneUndone /\ InService /\ TicksAgree

-----------------------------------------------------------------------------
(* The stack of handlers.                                                  *)

(* Entering a handler puts it above the others. *)
LEMMA PushFrame ==
  ASSUME NEW s \in Seq(Handler), NEW i \in Lines \cup {NMI}
  PROVE  LET f == [irq |-> i, done |-> FALSE]
         IN /\ Append(s, f) \in Seq(Handler)
            /\ Len(Append(s, f)) = Len(s) + 1
            /\ Append(s, f)[Len(s) + 1] = f
            /\ \A n \in 1 .. Len(s) : Append(s, f)[n] = s[n]
BY DEF Handler

(* Running the innermost handler's body changes no other frame. *)
LEMMA FinishFrame ==
  ASSUME NEW s \in Seq(Handler), s # <<>>
  PROVE  LET t == [s EXCEPT ![Len(s)].done = TRUE]
         IN /\ t \in Seq(Handler) /\ Len(t) = Len(s)
            /\ t[Len(s)].irq = s[Len(s)].irq /\ t[Len(s)].done = TRUE
            /\ \A n \in 1 .. Len(s) - 1 : t[n] = s[n]
<1> DEFINE t == [s EXCEPT ![Len(s)].done = TRUE]
<1>1. Len(s) \in Nat \ {0} /\ s \in [1 .. Len(s) -> Handler]
  BY EmptySeq, LenProperties
<1>2. s[Len(s)] \in Handler
  BY <1>1
<1>3. [s[Len(s)] EXCEPT !.done = TRUE] \in Handler
  BY <1>2 DEF Handler
<1>4. t \in [1 .. Len(s) -> Handler]
  BY <1>1, <1>3
<1>5. t \in Seq(Handler) /\ Len(t) = Len(s)
  BY <1>1, <1>4, SeqDef, LenProperties
<1>6. /\ t[Len(s)].irq = s[Len(s)].irq /\ t[Len(s)].done = TRUE
      /\ \A n \in 1 .. Len(s) - 1 : t[n] = s[n]
  BY <1>1, <1>2 DEF Handler
<1> QED
  BY <1>5, <1>6

(* Returning removes the innermost handler only. *)
LEMMA PopFrame ==
  ASSUME NEW s \in Seq(Handler), s # <<>>
  PROVE  /\ Front(s) \in Seq(Handler)
         /\ Len(Front(s)) = Len(s) - 1 /\ Len(s) \in Nat \ {0}
         /\ \A n \in 1 .. Len(s) - 1 : Front(s)[n] = s[n]
<1>1. Len(s) \in Nat \ {0} /\ \A n \in 1 .. Len(s) - 1 : s[n] \in Handler
  BY EmptySeq, LenProperties
<1>2. 1 \in Int /\ Len(s) - 1 \in Int
  BY <1>1
<1> DEFINE t == SubSeq(s, 1, Len(s) - 1)
           l == Len(s)
<1>3. /\ t \in Seq(Handler)
      /\ Len(t) = IF 1 <= l - 1 THEN l - 1 - 1 + 1 ELSE 0
      /\ \A n \in 1 .. l - 1 - 1 + 1 : t[n] = s[1 + n - 1]
  BY <1>1, <1>2, SubSeqProperties
<1>4. l \in Nat \ {0} /\ Front(s) = t
  BY <1>1 DEF Front
<1> HIDE DEF t, l
<1>5. /\ Len(t) = l - 1
      /\ \A n \in 1 .. l - 1 : 1 + n - 1 = n /\ n \in 1 .. l - 1 - 1 + 1
  BY <1>3, <1>4
<1>6. \A n \in 1 .. l - 1 : t[n] = s[n]
  BY <1>3, <1>5
<1> QED
  BY <1>3, <1>4, <1>5, <1>6 DEF l

(* A frame of the stack is a handler. *)
LEMMA FrameType ==
  ASSUME NEW s \in Seq(Handler), NEW n \in 1 .. Len(s)
  PROVE  s[n] \in Handler /\ s[n].irq \in Lines \cup {NMI} /\ s[n].done \in BOOLEAN
<1>1. s[n] \in Handler
  BY ElementOfSeq
<1> QED
  BY <1>1 DEF Handler

-----------------------------------------------------------------------------
(* The PICs and the counters.                                              *)

(* The end of interrupt ends the one line in service. *)
LEMMA EndHighestEnds ==
  ASSUME NEW S, NEW x \in Int, S \subseteq {x}
  PROVE  EndHighest(S) = {}
<1>1. \A i, j \in S : ~(j < i)
  OBVIOUS
<1> QED
  BY <1>1 DEF EndHighest

(* A nonspecific EOI puts nothing in service. *)
LEMMA EndHighestWithin ==
  ASSUME NEW S
  PROVE  EndHighest(S) \subseteq S
BY DEF EndHighest

(* A counter of width w wraps after w - 1. *)
LEMMA NextModulo ==
  ASSUME NEW w \in Nat, w > 0, NEW t \in Nat
  PROVE  (t + 1) % w = IF t % w = w - 1 THEN 0 ELSE (t % w) + 1
<1> DEFINE q == t \div w
           r == t % w
<1>1. t = w * q + r /\ r \in 0 .. w - 1 /\ q \in Nat
  OBVIOUS
<1>2. \A p \in Nat : \A s \in 0 .. w - 1 : (w * p + s) % w = s
  OBVIOUS
<1> HIDE DEF q, r
<1>3. CASE r = w - 1
  <2>1. t + 1 = w * (q + 1) + 0 /\ q + 1 \in Nat /\ 0 \in 0 .. w - 1
    BY <1>1, <1>3
  <2>2. (w * (q + 1) + 0) % w = 0
    BY <1>2, <2>1
  <2> QED
    BY <1>3, <2>1, <2>2 DEF r
<1>4. CASE r # w - 1
  <2>1. t + 1 = w * q + (r + 1) /\ r + 1 \in 0 .. w - 1
    BY <1>1, <1>4
  <2> QED
    BY <1>1, <1>2, <1>4, <2>1 DEF r
<1> QED
  BY <1>3, <1>4

(* Both counters, one width a multiple of the other, count a tick alike. *)
LEMMA CountersAgree ==
  ASSUME NEW t \in 0 .. WIDTH64 - 1
  PROVE  ((t + 1) % WIDTH64) % WIDTH32 = ((t % WIDTH32) + 1) % WIDTH32
<1>1. WIDTH32 \in Nat /\ WIDTH32 > 0 /\ WIDTH64 \in Nat /\ WIDTH64 > 0
      /\ WIDTH64 % WIDTH32 = 0 /\ t \in Nat
  BY WidthAssumption
<1>2. (t + 1) % WIDTH32 = ((t % WIDTH32) + 1) % WIDTH32
  <2>1. t % WIDTH32 \in 0 .. WIDTH32 - 1
    BY <1>1
  <2>2. WIDTH32 % WIDTH32 = 0 /\ \A n \in 0 .. WIDTH32 - 1 : n % WIDTH32 = n
    BY <1>1
  <2>3. (t + 1) % WIDTH32
          = IF t % WIDTH32 = WIDTH32 - 1 THEN 0 ELSE (t % WIDTH32) + 1
    BY <1>1, NextModulo
  <2> QED
    BY <1>1, <2>1, <2>2, <2>3
<1>3. CASE t + 1 = WIDTH64
  <2>1. (t + 1) % WIDTH64 = 0
    BY <1>1, <1>3
  <2>2. 0 % WIDTH32 = 0
    BY <1>1
  <2> QED
    BY <1>1, <1>2, <1>3, <2>1, <2>2
<1>4. CASE t + 1 # WIDTH64
  <2>1. (t + 1) % WIDTH64 = t + 1
    BY <1>1, <1>4
  <2> QED
    BY <1>2, <2>1
<1> QED
  BY <1>3, <1>4

-----------------------------------------------------------------------------
(* The boot code.                                                          *)

(* At reset nothing is requested or in service. *)
LEMMA InitInv == Init => InterruptsInv
<1> SUFFICES ASSUME Init PROVE InterruptsInv
  OBVIOUS
<1>1. TypeOK
  <2>1. <<>> \in Seq(Handler)
    BY EmptySeq
  <2>2. 0 \in 0 .. WIDTH64 - 1 /\ 0 \in 0 .. WIDTH32 - 1
    BY WidthAssumption
  <2>3. /\ pc \in BootPoints /\ cpu \in {"running", "wild", "halted"}
        /\ kbd_callbacks \in 0 .. 3 /\ frames \in Seq(Handler)
        /\ tick_count \in 0 .. WIDTH64 - 1 /\ ticks \in 0 .. WIDTH32 - 1
    BY <2>1, <2>2 DEF Init, BootPoints
  <2>4. /\ iflag \in BOOLEAN /\ nmi_blocked \in BOOLEAN
        /\ idt_loaded \in BOOLEAN /\ remapped \in BOOLEAN
        /\ imr \subseteq Lines /\ irr \subseteq Lines
        /\ isr1 \subseteq 0 .. 7 /\ isr2 \subseteq 8 .. 15
        /\ rtc \in [on: BOOLEAN, latched: BOOLEAN]
        /\ timer_callback \in BOOLEAN /\ mouse_callback \in BOOLEAN
    BY DEF Init
  <2>5. device \in Device
    <3>1. PICK present \in BOOLEAN :
            device = [updating |-> FALSE, present |-> present, enabled |-> TRUE,
                      full |-> ~present]
      BY DEF Init
    <3>2. (~present) \in BOOLEAN
      OBVIOUS
    <3> QED
      BY <3>1, <3>2, Zenon DEF Device
  <2> QED
    BY <2>3, <2>4, <2>5 DEF TypeOK
<1>2. BootOrder
  BY EmptySeq DEF Init, BootOrder, BeforeLidt, BeforeRemap, BeforeTimer,
                  BeforeSti, BeforeCallbacks
<1>3. OneUndone /\ InService
  BY EmptySeq DEF Init, OneUndone, InService
<1>4. TicksAgree
  <2>1. 0 % WIDTH32 = 0
    BY WidthAssumption
  <2> QED
    BY <2>1 DEF Init, TicksAgree
<1> QED
  BY <1>1, <1>2, <1>3, <1>4 DEF InterruptsInv

(* With no handler in progress nothing is in service, so a step of the     *)
(* boot code may set the interrupt flag.                                   *)
LEMMA BootFrames ==
  ASSUME InterruptsInv, frames = <<>>, frames' = frames,
         (isr1' = isr1 /\ isr2' = isr2) \/ (isr1' = {} /\ isr2' = {}),
         tick_count' = tick_count, ticks' = ticks
  PROVE  /\ OneUndone' /\ InService' /\ TicksAgree'
         /\ frames' \in Seq(Handler) /\ Len(frames') = 0
         /\ isr1' = {} /\ isr2' = {}
<1>1. Len(frames) = 0 /\ frames \in Seq(Handler) /\ Len(frames') = 0
  BY EmptySeq
<1>2. isr1' = {} /\ isr2' = {}
  BY <1>1 DEF InterruptsInv, InService
<1>3. OneUndone' /\ InService'
  BY <1>1, <1>2 DEF OneUndone, InService
<1> QED
  BY <1>1, <1>2, <1>3 DEF InterruptsInv, TicksAgree

(* What the devices and the boot code do to a device. *)
LEMMA DeviceUpdate ==
  ASSUME device \in Device, NEW b \in BOOLEAN
  PROVE  /\ [device EXCEPT !.updating = b] \in Device
         /\ [device EXCEPT !.enabled = b] \in Device
         /\ [device EXCEPT !.full = b] \in Device
BY DEF Device

(* The other fields of a device are flags. *)
LEMMA DeviceFlags ==
  ASSUME device \in Device
  PROVE  (~device.updating) \in BOOLEAN /\ (~device.present) \in BOOLEAN
BY Zenon DEF Device

(* Every call of init_system runs outside the handlers. *)
LEMMA BootStep ==
  ASSUME InterruptsInv, Boot
  PROVE  InterruptsInv'
<1> USE DEF At, Goto, PicClearMask, setupVars, callbackVars, picVars, tickVars
<1>1. /\ frames = <<>> /\ frames' = frames
      /\ (isr1' = isr1 /\ isr2' = isr2) \/ (isr1' = {} /\ isr2' = {})
      /\ tick_count' = tick_count /\ ticks' = ticks
      /\ cpu' = cpu /\ nmi_blocked' = nmi_blocked
  BY DEF Boot, IdtInit, PicInit, PitInit, PitSetCallback, RtcInit,
         RtcEnableInterrupt, KeyboardInit, KeyboardInitTimeout, FlushByte,
         KeyboardConfigure, KeyboardConfigureTimeout, MouseInit, MouseConfigure,
         KeyboardSti, KeyboardSetCallback, MouseSetCallback,
         IdtEnableInterrupts, MainLoop
<1>2. /\ OneUndone' /\ InService' /\ TicksAgree'
      /\ frames' \in Seq(Handler) /\ Len(frames') = 0
      /\ isr1' = {} /\ isr2' = {}
  BY <1>1, BootFrames
<1>3. TypeOK /\ BootOrder
  BY DEF InterruptsInv
<1>4. /\ pc' \in BootPoints /\ iflag' \in BOOLEAN
      /\ idt_loaded' \in BOOLEAN /\ remapped' \in BOOLEAN
      /\ timer_callback' \in BOOLEAN /\ mouse_callback' \in BOOLEAN
      /\ rtc' \in [on: BOOLEAN, latched: BOOLEAN]
  <2>1. pc' \in BootPoints
    BY <1>3
    DEF Boot, IdtInit, PicInit, PitInit, PitSetCallback, RtcInit,
        RtcEnableInterrupt, KeyboardInit, KeyboardInitTimeout, FlushByte,
        KeyboardConfigure, KeyboardConfigureTimeout, MouseInit, MouseConfigure,
        KeyboardSti, KeyboardSetCallback, MouseSetCallback, IdtEnableInterrupts,
        MainLoop, TypeOK, BootPoints
  <2>2. /\ iflag' = iflag \/ iflag' = TRUE \/ iflag' = FALSE
        /\ idt_loaded' = idt_loaded \/ idt_loaded' = TRUE
        /\ remapped' = remapped \/ remapped' = TRUE
        /\ timer_callback' = timer_callback \/ timer_callback' = TRUE
        /\ mouse_callback' = mouse_callback \/ mouse_callback' = TRUE
        /\ rtc' = rtc \/ rtc' = [on |-> TRUE, latched |-> FALSE]
    BY DEF Boot, IdtInit, PicInit, PitInit, PitSetCallback, RtcInit,
           RtcEnableInterrupt, KeyboardInit, KeyboardInitTimeout, FlushByte,
           KeyboardConfigure, KeyboardConfigureTimeout, MouseInit,
           MouseConfigure, KeyboardSti, KeyboardSetCallback, MouseSetCallback,
           IdtEnableInterrupts, MainLoop
  <2> QED
    <3>1. /\ iflag' \in BOOLEAN /\ idt_loaded' \in BOOLEAN /\ remapped' \in BOOLEAN
          /\ timer_callback' \in BOOLEAN /\ mouse_callback' \in BOOLEAN
      BY <1>3, <2>2, Zenon DEF TypeOK
    <3>2. rtc' \in [on: BOOLEAN, latched: BOOLEAN]
      <4>1. [on |-> TRUE, latched |-> FALSE] \in [on: BOOLEAN, latched: BOOLEAN]
        OBVIOUS
      <4>2. rtc \in [on: BOOLEAN, latched: BOOLEAN]
        BY <1>3 DEF TypeOK
      <4> QED
        BY <2>2, <4>1, <4>2, Zenon
    <3> QED
      BY <2>1, <3>1, <3>2
<1>5. imr' \subseteq Lines /\ irr' \subseteq Lines
  <2>1. /\ imr' = imr \/ imr' = Lines \ {PIT_IRQ, KEYBOARD_IRQ, CASCADE_IRQ}
           \/ \E irq \in Lines : imr' = imr \ {irq}
        /\ irr' = irr \/ irr' = {}
    BY DEF Boot, IdtInit, PicInit, PitInit, PitSetCallback, RtcInit,
           RtcEnableInterrupt, KeyboardInit, KeyboardInitTimeout, FlushByte,
           KeyboardConfigure, KeyboardConfigureTimeout, MouseInit,
           MouseConfigure, KeyboardSti, KeyboardSetCallback, MouseSetCallback,
           IdtEnableInterrupts, MainLoop, Lines, PIT_IRQ, KEYBOARD_IRQ, RTC_IRQ,
           MOUSE_IRQ
  <2> QED
    BY <1>3, <2>1 DEF TypeOK
<1>6. kbd_callbacks' \in 0 .. 3
  BY <1>3
  DEF TypeOK, BootOrder, Boot, IdtInit, PicInit, PitInit, PitSetCallback, RtcInit,
      RtcEnableInterrupt, KeyboardInit, KeyboardInitTimeout, FlushByte,
      KeyboardConfigure, KeyboardConfigureTimeout, MouseInit, MouseConfigure,
      KeyboardSti, KeyboardSetCallback, MouseSetCallback, IdtEnableInterrupts,
      MainLoop
<1>7. device' \in Device
  <2>1. device \in Device /\ (~device.present) \in BOOLEAN
    BY <1>3, DeviceFlags DEF TypeOK
  <2>2. \/ device' = device
        \/ \E b \in BOOLEAN : device' = [device EXCEPT !.enabled = b]
        \/ \E b \in BOOLEAN : device' = [device EXCEPT !.full = b]
    <3>1. CASE FlushByte
      BY <2>1, <3>1, Zenon DEF FlushByte
    <3>2. CASE KeyboardInit \/ KeyboardConfigure \/ MouseInit
      BY <3>2, Zenon DEF KeyboardInit, KeyboardConfigure, MouseInit
    <3>3. CASE MouseConfigure
      BY <3>3, Zenon DEF MouseConfigure
    <3>4. CASE KeyboardConfigureTimeout
      BY <3>4, Zenon DEF KeyboardConfigureTimeout
    <3> QED
      BY <3>1, <3>2, <3>3, <3>4
      DEF Boot, IdtInit, PicInit, PitInit, PitSetCallback, RtcInit,
          RtcEnableInterrupt, KeyboardInitTimeout, KeyboardSti,
          KeyboardSetCallback, MouseSetCallback, IdtEnableInterrupts, MainLoop
  <2> QED
    BY <2>1, <2>2, DeviceUpdate, Zenon
<1>8. TypeOK'
  BY <1>1, <1>2, <1>3, <1>4, <1>5, <1>6, <1>7 DEF TypeOK
<1>9. BootOrder'
  <2> USE <1>2, <1>3
      DEF BootOrder, BeforeLidt, BeforeRemap, BeforeTimer, BeforeSti, BeforeCallbacks
  <2>1. CASE IdtInit
    BY <2>1 DEF IdtInit
  <2>2. CASE PicInit
    BY <2>2 DEF PicInit, Lines, PIT_IRQ, KEYBOARD_IRQ, CASCADE_IRQ
  <2>3. CASE PitInit
    BY <2>3 DEF PitInit
  <2>4. CASE PitSetCallback
    BY <2>4 DEF PitSetCallback
  <2>5. CASE RtcInit
    BY <2>5 DEF RtcInit
  <2>6. CASE KeyboardInit \/ KeyboardConfigure
    BY <2>6 DEF KeyboardInit, KeyboardConfigure
  <2>7. CASE KeyboardInitTimeout \/ KeyboardConfigureTimeout
    BY <2>7 DEF KeyboardInitTimeout, KeyboardConfigureTimeout
  <2>8. CASE MouseInit
    BY <2>8 DEF MouseInit
  <2>9. CASE KeyboardSti
    BY <2>9 DEF KeyboardSti
  <2>10. CASE KeyboardSetCallback
    BY <2>10 DEF KeyboardSetCallback, TypeOK
  <2>11. CASE MouseSetCallback
    BY <2>11 DEF MouseSetCallback
  <2>12. CASE IdtEnableInterrupts
    BY <2>12 DEF IdtEnableInterrupts
  <2>13. CASE MainLoop
    BY <2>13 DEF MainLoop
  <2>14. CASE MouseConfigure
    BY <2>14 DEF MouseConfigure
  <2>15. CASE RtcEnableInterrupt \/ FlushByte
    BY <2>15 DEF RtcEnableInterrupt, FlushByte
  <2> QED
    BY <2>1, <2>2, <2>3, <2>4, <2>5, <2>6, <2>7, <2>8, <2>9, <2>10, <2>11,
       <2>12, <2>13, <2>14, <2>15 DEF Boot
<1> QED
  BY <1>2, <1>8, <1>9 DEF InterruptsInv

-----------------------------------------------------------------------------
(* The devices.                                                            *)

(* A device that requests an interrupt touches only its line. *)
LEMMA RaiseStep ==
  ASSUME InterruptsInv, RaiseTimer \/ RaiseRtc \/ RaisePS2
  PROVE  InterruptsInv'
<1>1. PICK i \in Lines : Raise(i)
  BY DEF RaiseTimer, RaiseRtc, RaisePS2, Lines, PIT_IRQ, RTC_IRQ, KEYBOARD_IRQ,
         MOUSE_IRQ
<1>2. /\ UNCHANGED <<idt_loaded, remapped, timer_callback, kbd_callbacks,
                     mouse_callback, device>>
      /\ rtc' \in [on: BOOLEAN, latched: BOOLEAN]
  BY DEF RaiseTimer, RaiseRtc, RaisePS2, setupVars, callbackVars, InterruptsInv, TypeOK
<1>3. TypeOK'
  BY <1>1, <1>2 DEF InterruptsInv, TypeOK, Raise, tickVars
<1>4. BootOrder' /\ OneUndone' /\ InService' /\ TicksAgree'
  BY <1>1, <1>2 DEF InterruptsInv, BootOrder, OneUndone, InService, ServedBy,
                    TicksAgree, Raise, tickVars
<1> QED
  BY <1>3, <1>4 DEF InterruptsInv

(* What the boot code waits for touches nothing else. *)
LEMMA DeviceStep ==
  ASSUME InterruptsInv, RtcUpdate \/ BufferFills
  PROVE  InterruptsInv'
<1>1. device \in Device /\ (~device.updating) \in BOOLEAN
  BY DeviceFlags DEF InterruptsInv, TypeOK
<1>2. device' \in Device
  BY <1>1, DeviceUpdate, Zenon DEF RtcUpdate, BufferFills
<1>3. UNCHANGED <<pc, iflag, cpu, nmi_blocked, frames, imr, irr, isr1, isr2,
                  tick_count, ticks, idt_loaded, remapped, rtc, timer_callback,
                  kbd_callbacks, mouse_callback>>
  BY DEF RtcUpdate, BufferFills, DeviceChanges, picVars, tickVars, callbackVars
<1>4. TypeOK'
  BY <1>2, <1>3 DEF InterruptsInv, TypeOK
<1>5. BootOrder' /\ OneUndone' /\ InService' /\ TicksAgree'
  BY <1>3 DEF InterruptsInv, BootOrder, OneUndone, InService, ServedBy, TicksAgree
<1> QED
  BY <1>4, <1>5 DEF InterruptsInv

-----------------------------------------------------------------------------
(* The interrupts and the handlers.                                        *)

(* While the flag is set every handler in progress has acknowledged. *)
LEMMA InvAcknowledged == InterruptsInv => AllAcknowledged
BY DEF InterruptsInv, AllAcknowledged, OneUndone, InService, ServedBy

(* Entering a handler, of a line or of the NMI, with the flag clear. *)
LEMMA PushStep ==
  ASSUME InterruptsInv, NEW i \in Lines \cup {NMI},
         frames' = Append(frames, [irq |-> i, done |-> FALSE]),
         iflag' = FALSE, i = NMI \/ iflag,
         UNCHANGED <<pc, imr, idt_loaded, remapped, timer_callback, kbd_callbacks>>
  PROVE  frames' \in Seq(Handler) /\ BootOrder' /\ OneUndone'
<1>1. /\ TypeOK /\ BootOrder /\ OneUndone
      /\ frames \in Seq(Handler) /\ Len(frames) \in Nat
  BY LenProperties DEF InterruptsInv, TypeOK
<1>2. /\ frames' \in Seq(Handler) /\ Len(frames') = Len(frames) + 1
      /\ frames'[Len(frames) + 1] = [irq |-> i, done |-> FALSE]
      /\ \A n \in 1 .. Len(frames) : frames'[n] = frames[n]
  BY <1>1, PushFrame
<1>3. BootOrder'
  <2>1. ASSUME pc \in BeforeSti, NEW n \in 1 .. Len(frames')
        PROVE  frames'[n].irq = NMI
    <3>1. i = NMI /\ \A m \in 1 .. Len(frames) : frames[m].irq = NMI
      BY <1>1, <2>1 DEF BootOrder
    <3>2. n \in 1 .. Len(frames) \/ n = Len(frames) + 1
      BY <1>1, <1>2
    <3> QED
      BY <1>2, <3>1, <3>2
  <2> QED
    BY <1>1, <2>1 DEF BootOrder
<1>4. OneUndone'
  <2> SUFFICES ASSUME NEW n \in 1 .. Len(frames'), NEW m \in 1 .. Len(frames'),
                      n < m, ~frames'[n].done
               PROVE  frames'[m].irq = NMI
    BY DEF OneUndone
  <2>1. n \in 1 .. Len(frames) /\ (m \in 1 .. Len(frames) \/ m = Len(frames) + 1)
    BY <1>1, <1>2
  <2>2. ~frames[n].done /\ ~iflag
    BY <1>1, <1>2, <2>1 DEF OneUndone
  <2> QED
    BY <1>1, <1>2, <2>1, <2>2 DEF OneUndone
<1> QED
  BY <1>2, <1>3, <1>4

(* Taking an interrupt puts its level in service and pushes its handler. *)
LEMMA DeliverStep ==
  ASSUME InterruptsInv, NEW i \in Lines, Deliver(i)
  PROVE  InterruptsInv'
<1> USE DEF setupVars, callbackVars, tickVars
<1>1. /\ frames' = Append(frames, [irq |-> i, done |-> FALSE])
      /\ iflag /\ iflag' = FALSE
      /\ UNCHANGED <<pc, cpu, nmi_blocked, imr, idt_loaded, remapped, rtc,
                     timer_callback, kbd_callbacks, mouse_callback,
                     tick_count, ticks, device>>
      /\ irr' = irr \ {i}
      /\ isr1' = isr1 \cup {MasterLine(i)}
      /\ isr2' = IF i < 8 THEN isr2 ELSE isr2 \cup {i}
  BY DEF Deliver, Enter, MasterLine
<1>2. frames' \in Seq(Handler) /\ BootOrder' /\ OneUndone'
  BY <1>1, PushStep
<1>3. isr1 = {} /\ isr2 = {} /\ i \in 0 .. 15 /\ i # NMI
  BY <1>1, InvAcknowledged DEF AllAcknowledged, Lines, NMI
<1>4. TypeOK'
  <2>1. isr1' \subseteq 0 .. 7 /\ isr2' \subseteq 8 .. 15
    BY <1>1, <1>3 DEF MasterLine, CASCADE_IRQ
  <2> QED
    BY <1>1, <1>2, <2>1 DEF InterruptsInv, TypeOK
<1>5. InService'
  <2>1. PICK n \in 1 .. Len(frames') : frames'[n] = [irq |-> i, done |-> FALSE]
    <3>1. frames \in Seq(Handler) /\ Len(frames) \in Nat
      BY LenProperties DEF InterruptsInv, TypeOK
    <3>2. /\ Len(frames') = Len(frames) + 1
          /\ frames'[Len(frames) + 1] = [irq |-> i, done |-> FALSE]
      BY <1>1, <3>1, PushFrame
    <3> QED
      BY <3>1, <3>2
  <2>2. isr1' = {MasterLine(i)} /\ isr2' \subseteq {i} /\ (i < 8 => isr2' = {})
    BY <1>1, <1>3
  <2>3. ServedBy(frames[n])'
    BY <1>3, <2>1, <2>2 DEF ServedBy
  <2> QED
    BY <2>1, <2>3 DEF InService
<1>6. TicksAgree'
  BY <1>1 DEF InterruptsInv, TicksAgree
<1> QED
  BY <1>2, <1>4, <1>5, <1>6 DEF InterruptsInv

(* A handler that no line asked for changes nothing at the PICs yet. *)
LEMMA DeliverOtherStep ==
  ASSUME InterruptsInv, DeliverSpurious \/ DeliverNmi
  PROVE  InterruptsInv'
<1> USE DEF setupVars, callbackVars, tickVars, picVars
<1>1. PICK i \in Lines \cup {NMI} :
        /\ frames' = Append(frames, [irq |-> i, done |-> FALSE])
        /\ i = NMI \/ iflag
  BY DEF DeliverSpurious, DeliverNmi, Enter, Lines, SPURIOUS_IRQ
<1>2. /\ iflag' = FALSE
      /\ nmi_blocked' = nmi_blocked \/ nmi_blocked' = TRUE
      /\ UNCHANGED <<pc, cpu, imr, irr, isr1, isr2, idt_loaded, remapped, rtc,
                     timer_callback, kbd_callbacks, mouse_callback,
                     tick_count, ticks, device>>
  BY DEF DeliverSpurious, DeliverNmi, Enter
<1>3. frames' \in Seq(Handler) /\ BootOrder' /\ OneUndone'
  BY <1>1, <1>2, PushStep
<1>4. TypeOK'
  <2>1. nmi_blocked' \in BOOLEAN
    BY <1>2, Zenon DEF InterruptsInv, TypeOK
  <2> QED
    BY <1>2, <1>3, <2>1 DEF InterruptsInv, TypeOK
<1>5. InService'
  <2>1. /\ frames \in Seq(Handler) /\ Len(frames) \in Nat
        /\ Len(frames') = Len(frames) + 1
        /\ \A n \in 1 .. Len(frames) : frames'[n] = frames[n]
    BY <1>1, PushFrame, LenProperties DEF InterruptsInv, TypeOK
  <2>2. \A n \in 1 .. Len(frames) : n \in 1 .. Len(frames')
    BY <2>1
  <2>3. InService
    BY DEF InterruptsInv
  <2> QED
    BY <1>2, <2>1, <2>2, <2>3 DEF InService, ServedBy
<1>6. TicksAgree'
  BY <1>2 DEF InterruptsInv, TicksAgree
<1> QED
  BY <1>3, <1>4, <1>5, <1>6 DEF InterruptsInv

(* A fatal exception halts the processor and changes nothing else. *)
LEMMA FatalStep ==
  ASSUME InterruptsInv, FatalException
  PROVE  InterruptsInv'
<1>1. TypeOK'
  BY DEF InterruptsInv, TypeOK, FatalException, picVars, setupVars, callbackVars,
         tickVars
<1>2. BootOrder' /\ OneUndone' /\ InService' /\ TicksAgree'
  BY DEF InterruptsInv, FatalException, BootOrder, OneUndone, InService, ServedBy,
         TicksAgree, picVars, setupVars, callbackVars, tickVars
<1> QED
  BY <1>1, <1>2 DEF InterruptsInv

(* The body of the innermost handler, for line i: what it does to the      *)
(* stack, and that any handler but the NMI's leaves nothing in service.    *)
LEMMA HandlerStack ==
  ASSUME InterruptsInv, NEW i \in Lines \cup {NMI}, InHandler(i)
  PROVE  /\ frames' \in Seq(Handler) /\ Len(frames') = Len(frames)
         /\ frames'[Len(frames)].done
         /\ Len(frames) \in Nat \ {0} /\ frames[Len(frames)].irq = i
         /\ \A n \in 1 .. Len(frames) : frames'[n].irq = frames[n].irq
         /\ \A n \in 1 .. Len(frames) - 1 : frames'[n] = frames[n]
         /\ i # NMI => \A n \in 1 .. Len(frames) - 1 : frames[n].done
<1>1. /\ frames \in Seq(Handler) /\ Len(frames) \in Nat \ {0}
      /\ frames[Len(frames)] = [irq |-> i, done |-> FALSE]
      /\ frames' = [frames EXCEPT ![Len(frames)].done = TRUE]
  BY EmptySeq DEF InterruptsInv, TypeOK, InHandler, Last
<1>2. /\ frames' \in Seq(Handler) /\ Len(frames') = Len(frames)
      /\ frames'[Len(frames)].irq = frames[Len(frames)].irq
      /\ frames'[Len(frames)].done = TRUE
      /\ \A n \in 1 .. Len(frames) - 1 : frames'[n] = frames[n]
  BY <1>1, FinishFrame DEF InHandler
<1>3. \A n \in 1 .. Len(frames) : n \in 1 .. Len(frames) - 1 \/ n = Len(frames)
  BY <1>1
<1>4. frames[Len(frames)].irq = i
  BY <1>1
<1>5. i # NMI => \A n \in 1 .. Len(frames) - 1 : frames[n].done
  <2> SUFFICES ASSUME i # NMI, NEW n \in 1 .. Len(frames) - 1
               PROVE  frames[n].done
    OBVIOUS
  <2>1. n < Len(frames) /\ n \in 1 .. Len(frames) /\ Len(frames) \in 1 .. Len(frames)
    BY <1>1
  <2> QED
    BY <1>4, <2>1 DEF InterruptsInv, OneUndone
<1> QED
  BY <1>1, <1>2, <1>3, <1>4, <1>5

(* A line's handler acknowledges its interrupt at both PICs. *)
LEMMA LineAcknowledged ==
  ASSUME InterruptsInv, NEW i \in Lines, InHandler(i), Acknowledge(i)
  PROVE  isr1' = {} /\ isr2' = {}
<1>1. i \in Int /\ i # NMI
  BY DEF Lines, NMI
<1>2. isr1' = EndHighest(isr1) /\ isr2' = IF i >= 8 THEN EndHighest(isr2) ELSE isr2
  BY DEF Acknowledge, PicSendEoi
<1>3. CASE isr1 = {} /\ isr2 = {}
  BY <1>2, <1>3 DEF EndHighest
<1>4. CASE \E n \in 1 .. Len(frames) : ServedBy(frames[n])
  <2>1. PICK n \in 1 .. Len(frames) : ServedBy(frames[n])
    BY <1>4
  <2>2. n = Len(frames) /\ frames[Len(frames)].irq = i
    <3>1. /\ Len(frames) \in Nat \ {0} /\ frames[Len(frames)].irq = i
          /\ \A m \in 1 .. Len(frames) - 1 : frames[m].done
      BY <1>1, HandlerStack
    <3>2. n \notin 1 .. Len(frames) - 1
      BY <2>1, <3>1 DEF ServedBy
    <3> QED
      BY <3>1, <3>2
  <2>3. /\ isr1 \subseteq {MasterLine(i)} /\ MasterLine(i) \in Int
        /\ isr2 \subseteq {i} /\ (i < 8 => isr2 = {})
    BY <1>1, <2>1, <2>2 DEF ServedBy, MasterLine, CASCADE_IRQ
  <2>4. EndHighest(isr1) = {} /\ EndHighest(isr2) = {}
    BY <1>1, <2>3, EndHighestEnds
  <2>5. i >= 8 \/ i < 8
    BY <1>1
  <2>6. isr2' = {}
    BY <1>2, <2>3, <2>4, <2>5, Zenon
  <2> QED
    BY <1>2, <2>4, <2>6
<1> QED
  BY <1>3, <1>4 DEF InterruptsInv, InService

(* What every handler's body preserves. *)
LEMMA HandlerStep ==
  ASSUME InterruptsInv, NEW i \in Lines \cup {NMI}, InHandler(i),
         iflag' => iflag \/ i = KEYBOARD_IRQ
  PROVE  frames' \in Seq(Handler) /\ BootOrder' /\ OneUndone'
<1> USE DEF setupVars, callbackVars
<1>1. /\ frames' \in Seq(Handler) /\ Len(frames') = Len(frames)
      /\ frames'[Len(frames)].done
      /\ Len(frames) \in Nat \ {0} /\ frames[Len(frames)].irq = i
      /\ \A n \in 1 .. Len(frames) : frames'[n].irq = frames[n].irq
      /\ \A n \in 1 .. Len(frames) - 1 : frames'[n] = frames[n]
      /\ i # NMI => \A n \in 1 .. Len(frames) - 1 : frames[n].done
  BY HandlerStack
<1>2. Len(frames) \in 1 .. Len(frames) /\ ~frames[Len(frames)].done
  BY <1>1 DEF InHandler, Last
<1>3. ~iflag /\ BootOrder /\ OneUndone
  BY <1>2 DEF InterruptsInv, OneUndone
<1>4. BootOrder'
  <2>1. i = KEYBOARD_IRQ => pc \notin BeforeSti
    BY <1>1, <1>2, <1>3 DEF BootOrder, KEYBOARD_IRQ, NMI
  <2> QED
    BY <1>1, <1>3, <2>1 DEF BootOrder, InHandler
<1>5. OneUndone'
  <2>1. ASSUME iflag', NEW n \in 1 .. Len(frames')
        PROVE  frames'[n].done
    <3>1. i # NMI
      BY <1>3, <2>1 DEF KEYBOARD_IRQ, NMI
    <3>2. n = Len(frames) \/ n \in 1 .. Len(frames) - 1
      BY <1>1
    <3> QED
      BY <1>1, <3>1, <3>2
  <2>2. ASSUME NEW n \in 1 .. Len(frames'), NEW m \in 1 .. Len(frames'),
               n < m, ~frames'[n].done
        PROVE  frames'[m].irq = NMI
    <3>1. n \in 1 .. Len(frames) - 1 /\ n \in 1 .. Len(frames) /\ m \in 1 .. Len(frames)
      BY <1>1, <2>2
    <3> QED
      BY <1>1, <1>3, <2>2, <3>1 DEF OneUndone
  <2> QED
    BY <2>1, <2>2 DEF OneUndone
<1> QED
  BY <1>1, <1>4, <1>5

(* A handler acknowledges the level it was entered for. *)
LEMMA HandleStep ==
  ASSUME InterruptsInv, Handle
  PROVE  InterruptsInv'
<1> USE DEF setupVars, callbackVars, tickVars
<1>1. PICK i \in Lines \cup {NMI} : InHandler(i) /\ (iflag' => iflag \/ i = KEYBOARD_IRQ)
  BY DEF Handle, IsrTimer, IsrKeyboard, IsrOther, IsrNmi, Lines, PIT_IRQ,
         KEYBOARD_IRQ, MOUSE_IRQ, RTC_IRQ, SPURIOUS_IRQ
<1>2. /\ UNCHANGED <<pc, cpu, nmi_blocked, imr, irr, idt_loaded, remapped, rtc,
                     timer_callback, kbd_callbacks, mouse_callback, device>>
      /\ frames' \in Seq(Handler) /\ BootOrder' /\ OneUndone'
  BY <1>1, HandlerStep DEF InHandler
<1>3. IsrNmi \/ (isr1' = {} /\ isr2' = {})
  <2>1. CASE IsrTimer
    BY <2>1, LineAcknowledged DEF IsrTimer, Lines, PIT_IRQ
  <2>2. CASE IsrKeyboard
    BY <2>2, LineAcknowledged DEF IsrKeyboard, Lines, KEYBOARD_IRQ
  <2>3. CASE IsrOther
    BY <2>3, LineAcknowledged DEF IsrOther, Lines, MOUSE_IRQ, RTC_IRQ, SPURIOUS_IRQ
  <2> QED
    BY <2>1, <2>2, <2>3 DEF Handle
<1>4. isr1' \subseteq isr1 /\ isr2' \subseteq isr2
  <2>1. CASE IsrNmi
    BY <2>1, EndHighestWithin DEF IsrNmi, Acknowledge, PicSendEoi, PIT_IRQ
  <2> QED
    BY <1>3, <2>1
<1>5. InService'
  <2>1. CASE isr1' = {} /\ isr2' = {}
    BY <2>1 DEF InService
  <2>2. CASE IsrNmi /\ ~(isr1' = {} /\ isr2' = {})
    <3>1. PICK n \in 1 .. Len(frames) : ServedBy(frames[n])
      BY <1>4, <2>2 DEF InterruptsInv, InService
    <3>2. /\ InHandler(NMI) /\ Len(frames) \in Nat \ {0} /\ Len(frames') = Len(frames)
          /\ frames[Len(frames)].irq = NMI
          /\ \A m \in 1 .. Len(frames) - 1 : frames'[m] = frames[m]
      BY <2>2, HandlerStack DEF IsrNmi
    <3>3. n # Len(frames)
      BY <3>1, <3>2 DEF ServedBy
    <3>4. n \in 1 .. Len(frames') /\ frames'[n] = frames[n]
      BY <3>2, <3>3
    <3>5. ServedBy(frames[n])'
      BY <1>4, <3>1, <3>4 DEF ServedBy
    <3> QED
      BY <3>4, <3>5 DEF InService
  <2> QED
    BY <1>3, <2>1, <2>2
<1>6. tick_count' \in 0 .. WIDTH64 - 1 /\ ticks' \in 0 .. WIDTH32 - 1 /\ TicksAgree'
  <2> USE WidthAssumption
  <2>1. CASE IsrTimer
    <3>1. Len(frames) \in 1 .. Len(frames) /\ frames[Len(frames)].irq = PIT_IRQ
      <4>1. InHandler(PIT_IRQ) /\ PIT_IRQ \in Lines \cup {NMI}
        BY <2>1 DEF IsrTimer, PIT_IRQ, Lines
      <4> QED
        BY <4>1, HandlerStack
    <3>2. timer_callback
      BY <3>1 DEF InterruptsInv, BootOrder, BeforeSti, PIT_IRQ, NMI
    <3>3. tick_count' = (tick_count + 1) % WIDTH64 /\ ticks' = (ticks + 1) % WIDTH32
      BY <2>1, <3>2 DEF IsrTimer
    <3>4. /\ tick_count \in 0 .. WIDTH64 - 1 /\ ticks \in 0 .. WIDTH32 - 1
          /\ ticks = tick_count % WIDTH32
      BY DEF InterruptsInv, TypeOK, TicksAgree
    <3>5. tick_count' \in 0 .. WIDTH64 - 1 /\ ticks' \in 0 .. WIDTH32 - 1
      BY <3>3, <3>4
    <3>6. ticks' = tick_count' % WIDTH32
      BY <3>3, <3>4, CountersAgree
    <3> QED
      BY <3>5, <3>6 DEF TicksAgree
  <2>2. CASE ~IsrTimer
    <3>1. tick_count' = tick_count /\ ticks' = ticks
      BY <2>2 DEF Handle, IsrKeyboard, IsrOther, IsrNmi
    <3> QED
      BY <3>1 DEF InterruptsInv, TypeOK, TicksAgree
  <2> QED
    BY <2>1, <2>2
<1>7. TypeOK'
  <2>1. isr1' \subseteq 0 .. 7 /\ isr2' \subseteq 8 .. 15
    BY <1>4 DEF InterruptsInv, TypeOK
  <2>2. iflag' \in BOOLEAN
    <3>1. iflag' = iflag \/ iflag' = TRUE
      BY DEF Handle, IsrTimer, IsrKeyboard, IsrOther, IsrNmi
    <3> QED
      BY <3>1, Zenon DEF InterruptsInv, TypeOK
  <2> QED
    BY <1>2, <1>6, <2>1, <2>2 DEF InterruptsInv, TypeOK
<1> QED
  BY <1>2, <1>5, <1>6, <1>7 DEF InterruptsInv

(* A handler returns after it has acknowledged. *)
LEMMA ReturnStep ==
  ASSUME InterruptsInv, Return
  PROVE  InterruptsInv'
<1> USE DEF setupVars, callbackVars, tickVars, picVars
<1>1. /\ frames \in Seq(Handler) /\ frames # <<>> /\ frames' = Front(frames)
      /\ frames[Len(frames)].done
  BY DEF InterruptsInv, TypeOK, Return, Last
<1>2. /\ frames' \in Seq(Handler)
      /\ Len(frames') = Len(frames) - 1 /\ Len(frames) \in Nat \ {0}
      /\ \A n \in 1 .. Len(frames) - 1 : frames'[n] = frames[n]
  BY <1>1, PopFrame
<1>3. \A n \in 1 .. Len(frames') : n \in 1 .. Len(frames) /\ frames'[n] = frames[n]
  BY <1>2
<1>4. /\ pc' = pc \/ (pc = "hlt" /\ pc' = "loop")
      /\ cpu' \in {cpu, "running", "wild"}
      /\ UNCHANGED <<iflag, nmi_blocked, imr, irr, isr1, isr2, idt_loaded, remapped,
                     rtc, timer_callback, kbd_callbacks, mouse_callback,
                     tick_count, ticks, device>>
  BY DEF Return
<1>5. TypeOK'
  <2>1. pc' \in BootPoints /\ cpu' \in {"running", "wild", "halted"}
    BY <1>4 DEF InterruptsInv, TypeOK, BootPoints
  <2> QED
    BY <1>2, <1>4, <2>1 DEF InterruptsInv, TypeOK
<1>6. BootOrder'
  BY <1>3, <1>4 DEF InterruptsInv, BootOrder, BeforeLidt, BeforeRemap, BeforeTimer,
                    BeforeSti, BeforeCallbacks
<1>7. OneUndone'
  BY <1>3, <1>4 DEF InterruptsInv, OneUndone
<1>8. InService'
  <2>1. CASE isr1 = {} /\ isr2 = {}
    BY <1>4, <2>1 DEF InService
  <2>2. CASE \E n \in 1 .. Len(frames) : ServedBy(frames[n])
    <3>1. PICK n \in 1 .. Len(frames) : ServedBy(frames[n])
      BY <2>2
    <3>2. n # Len(frames)
      BY <1>1, <3>1 DEF ServedBy
    <3>3. n \in 1 .. Len(frames')
      BY <1>2, <3>2
    <3>4. ServedBy(frames[n])'
      BY <1>3, <1>4, <3>1, <3>3 DEF ServedBy
    <3> QED
      BY <3>3, <3>4 DEF InService
  <2> QED
    BY <2>1, <2>2 DEF InterruptsInv, InService
<1>9. TicksAgree'
  BY <1>4 DEF InterruptsInv, TicksAgree
<1> QED
  BY <1>5, <1>6, <1>7, <1>8, <1>9 DEF InterruptsInv

-----------------------------------------------------------------------------
(* The theorems.                                                           *)

(* Every step preserves the invariant. *)
LEMMA NextInv == InterruptsInv /\ [Next]_vars => InterruptsInv'
<1> SUFFICES ASSUME InterruptsInv, [Next]_vars PROVE InterruptsInv'
  OBVIOUS
<1>1. CASE Boot
  BY <1>1, BootStep
<1>2. CASE RaiseTimer \/ RaiseRtc \/ RaisePS2
  BY <1>2, RaiseStep
<1>3. CASE \E i \in Lines : Deliver(i)
  BY <1>3, DeliverStep
<1>4. CASE DeliverSpurious \/ DeliverNmi
  BY <1>4, DeliverOtherStep
<1>5. CASE FatalException
  BY <1>5, FatalStep
<1>6. CASE Handle
  BY <1>6, HandleStep
<1>7. CASE Return
  BY <1>7, ReturnStep
<1>8. CASE UNCHANGED vars
  BY <1>8 DEF vars, picVars, tickVars, setupVars, callbackVars, InterruptsInv, TypeOK,
              BootOrder, OneUndone, InService, ServedBy, TicksAgree
<1>9. CASE RtcUpdate \/ BufferFills
  BY <1>9, DeviceStep
<1> QED
  BY <1>1, <1>2, <1>3, <1>4, <1>5, <1>6, <1>7, <1>8, <1>9 DEF Next

(* The inductive invariant holds in every state of every behaviour. *)
THEOREM InterruptsInvariant == Spec => []InterruptsInv
BY InitInv, NextInv, PTL DEF Spec

(* Every variable keeps its type: no line enters the wrong PIC's in-service *)
(* register, and the three callbacks of the keyboard are set once each.     *)
THEOREM TypeCorrect == Spec => []TypeOK
<1>1. InterruptsInv => TypeOK
  BY DEF InterruptsInv
<1> QED
  BY <1>1, InterruptsInvariant, PTL

(* Whenever the interrupt flag is set, every interrupt taken so far has     *)
(* been acknowledged at both PICs, however deep handlers and the NMI nest.  *)
THEOREM InterruptsAcknowledged == Spec => []AllAcknowledged
BY InvAcknowledged, InterruptsInvariant, PTL

(* No interrupt is enabled and no handler but the NMI's runs before the IDT *)
(* is loaded, the PICs are remapped and the cascade is unmasked.            *)
THEOREM InterruptsFindTheirVectors == Spec => []VectorsReady
<1>1. InterruptsInv => VectorsReady
  BY DEF InterruptsInv, BootOrder, VectorsReady, BeforeLidt, BeforeRemap, BeforeTimer,
         BeforeSti
<1> QED
  BY <1>1, InterruptsInvariant, PTL

(* timer_tick's counter and pit.c's agree modulo the narrower width, for    *)
(* all widths of which one is a multiple of the other.                      *)
THEOREM TickCountersAgree == Spec => []TicksAgree
<1>1. InterruptsInv => TicksAgree
  BY DEF InterruptsInv
<1> QED
  BY <1>1, InterruptsInvariant, PTL

=============================================================================
