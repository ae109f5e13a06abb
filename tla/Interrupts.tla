----------------------------- MODULE Interrupts -----------------------------
(***************************************************************************)
(* How the kernel boots with interrupts: init_system and the main loop of  *)
(* kernel/main.c, the IDT (kernel/idt.c), the interrupt service routines   *)
(* (kernel/isr.c), the two 8259 PICs (drivers/pic/pic.c), the timer        *)
(* (drivers/pit/pit.c) and the parts of the RTC, keyboard and mouse        *)
(* drivers that unmask a line, register a callback, acknowledge an         *)
(* interrupt or execute cli and sti.                                       *)
(*                                                                         *)
(* One processor runs either the boot code (at pc) or the innermost        *)
(* interrupt handler (the last of frames).  The service routines are plain *)
(* C functions behind interrupt gates: the gate clears the interrupt flag  *)
(* and the routine ends with ret, not iretq, so it neither restores the    *)
(* flag nor removes the rest of the processor's frame from the stack.      *)
(* Code that uses its stack pointer afterwards, as every called function   *)
(* does when it returns, may jump to a garbage address: cpu = "wild",      *)
(* after which nothing is claimed.  Only the main loop, which halts in     *)
(* kernel_main itself and never returns, surely resumes.                   *)
(*                                                                         *)
(* Of the exceptions, the two that come from outside can come at any time: *)
(* NMI, standing for the handlers that send an EOI and return, and machine *)
(* check, standing for the ones that halt the processor.                   *)
(*                                                                         *)
(* Three loops of the boot code have no time-out: the one that waits for   *)
(* the RTC's update to end and the two that empty the PS/2 controller's    *)
(* buffer.  What they wait for is in device.  A computer without the       *)
(* controller reads 0xFF from its ports, a buffer that never gets empty.   *)
(***************************************************************************)
EXTENDS Integers, Sequences, SequencesExt

CONSTANTS
  WIDTH64,   (* pit.c's tick_count counts modulo this (2^64)               *)
  WIDTH32,   (* timer_tick's ticks counts modulo this (2^32)               *)
  MaxDepth   (* bound: handlers nested at most this deep                   *)

ASSUME WidthAssumption ==
  /\ WIDTH32 \in Nat \ {0}
  /\ WIDTH64 \in Nat \ {0} /\ WIDTH64 % WIDTH32 = 0
  /\ MaxDepth \in Nat

PIT_IRQ == 0
KEYBOARD_IRQ == 1
CASCADE_IRQ == 2
SPURIOUS_IRQ == 7
RTC_IRQ == 8
MOUSE_IRQ == 12
Lines == 0 .. 15
NMI == 16  (* not a line: the frame of an NMI handler                      *)

VARIABLES
  pc,              (* where the boot code is: the next call of init_system *)
                   (* (and of keyboard_init), "loop" or "hlt"              *)
  iflag,           (* the processor's interrupt flag                       *)
  cpu,             (* "running", "wild" after a return to nowhere, or      *)
                   (* "halted" by a fatal exception                        *)
  nmi_blocked,     (* an NMI was taken: no iretq ever ends its blocking    *)
  frames,          (* the handlers in progress, the innermost one last     *)
  idt_loaded,      (* lidt has been executed                               *)
  remapped,        (* the PICs deliver vectors 0x20-0x2F                   *)
  imr,             (* masked lines                                         *)
  irr,             (* requested lines                                      *)
  isr1, isr2,      (* lines in service on the master and on the slave      *)
  rtc,             (* periodic interrupt enabled, status C latched         *)
  timer_callback, kbd_callbacks, mouse_callback,   (* registered so far    *)
  tick_count,      (* pit.c's counter                                      *)
  ticks,           (* timer_tick's own counter                             *)
  device           (* external: the RTC is updating its time; the PS/2     *)
                   (* controller is present, its devices are enabled, its  *)
                   (* output buffer is full                                *)

picVars == <<imr, irr, isr1, isr2>>
callbackVars == <<timer_callback, kbd_callbacks, mouse_callback>>
tickVars == <<tick_count, ticks>>
setupVars == <<idt_loaded, remapped, rtc, callbackVars, device>>
vars == <<pc, iflag, cpu, nmi_blocked, frames, picVars, tickVars, setupVars>>

BootPoints ==
  {"idt_init", "pic_init", "pit_init", "pit_set_callback", "rtc_init",
   "rtc_read_time", "keyboard_init", "keyboard_init:flush",
   "keyboard_init:mouse_init", "keyboard_init:mouse_init:flush",
   "keyboard_init:sti", "set_keyboard_callbacks", "mouse_init",
   "mouse_init:flush", "mouse_set_callback", "idt_enable_interrupts", "loop",
   "hlt"}

Handler == [irq: Lines \cup {NMI}, done: BOOLEAN]

Device ==
  [updating: BOOLEAN, present: BOOLEAN, enabled: BOOLEAN, full: BOOLEAN]

(* kernel_main has executed cli; the firmware left the PICs at vectors 8-F. *)
Init ==
  /\ pc = "idt_init" /\ iflag = FALSE /\ cpu = "running" /\ frames = <<>>
  /\ nmi_blocked = FALSE
  /\ idt_loaded = FALSE /\ remapped = FALSE
  /\ imr \in {{}, Lines} /\ irr = {} /\ isr1 = {} /\ isr2 = {}
  /\ rtc = [on |-> FALSE, latched |-> FALSE]
  /\ timer_callback = FALSE /\ kbd_callbacks = 0 /\ mouse_callback = FALSE
  /\ tick_count = 0 /\ ticks = 0
  /\ \E present \in BOOLEAN :
       device = [updating |-> FALSE, present |-> present, enabled |-> TRUE,
                 full |-> ~present]

-----------------------------------------------------------------------------
(* The PICs.                                                               *)

(* Fully nested priority: the slave's lines rank where the cascade does. *)
Rank(i) == IF i < 8 THEN 8 * i ELSE 8 * CASCADE_IRQ + (i - 8)

(* A non-specific end of interrupt ends the most urgent line in service. *)
EndHighest(S) == {i \in S : \E j \in S : j < i}

(* Mutant of PicSendEoi: the slave is forgotten. *)
PicSendEoiMasterOnly(irq, m, s) == [master |-> EndHighest(m), slave |-> s]

(* pic_send_eoi(irq) on the in-service lines m (master) and s (slave). *)
PicSendEoi(irq, m, s) ==
  [master |-> EndHighest(m), slave |-> IF irq >= 8 THEN EndHighest(s) ELSE s]

(* pic_clear_mask(irq) *)
PicClearMask(irq) == imr \ {irq}

(* A line the PICs present to the processor: requested, unmasked (as is the *)
(* cascade, for the slave's lines), and more urgent than what is in service *)
(* and than the other such requests.                                        *)
Unmasked(i) == i \notin imr /\ (i >= 8 => CASCADE_IRQ \notin imr)
Presented(i) ==
  /\ i \in irr /\ Unmasked(i)
  /\ \A j \in irr : Unmasked(j) => Rank(i) <= Rank(j)
  /\ \A j \in isr1 : Rank(i) < Rank(j) \/ (i >= 8 /\ j = CASCADE_IRQ)
  /\ \A j \in isr2 : i < j

-----------------------------------------------------------------------------
(* The devices request interrupts.                                         *)

Raise(i) ==
  /\ irr' = irr \cup {i}
  /\ UNCHANGED <<pc, iflag, cpu, nmi_blocked, frames, imr, isr1, isr2, tickVars>>

(* The timer ticks from power-up on; pit_init only changes its rate. *)
RaiseTimer ==
  /\ PIT_IRQ \notin irr
  /\ Raise(PIT_IRQ) /\ UNCHANGED setupVars

(* The RTC requests nothing more until status register C is read. *)
RaiseRtc ==
  /\ rtc.on /\ ~rtc.latched
  /\ Raise(RTC_IRQ)
  /\ rtc' = [rtc EXCEPT !.latched = TRUE]
  /\ UNCHANGED <<idt_loaded, remapped, callbackVars, device>>

RaisePS2 ==
  /\ device.present
  /\ \E i \in {KEYBOARD_IRQ, MOUSE_IRQ} \ irr : Raise(i)
  /\ UNCHANGED setupVars

(* The RTC begins or ends an update of its time (seen only by the loop that *)
(* waits for it), and a byte comes into the PS/2 controller's buffer (seen  *)
(* here only by the loops that empty it).                                   *)
DeviceChanges ==
  UNCHANGED <<pc, iflag, cpu, nmi_blocked, frames, picVars, tickVars, idt_loaded,
              remapped, rtc, callbackVars>>

RtcUpdate ==
  /\ pc = "rtc_read_time"
  /\ device' = [device EXCEPT !.updating = ~device.updating]
  /\ DeviceChanges

FlushPoints ==
  {"keyboard_init:flush", "keyboard_init:mouse_init:flush", "mouse_init:flush"}

BufferFills ==
  /\ pc \in {"keyboard_init", "mouse_init"} \cup FlushPoints
  /\ device.present /\ device.enabled /\ ~device.full
  /\ device' = [device EXCEPT !.full = TRUE]
  /\ DeviceChanges

-----------------------------------------------------------------------------
(* Boot: one action per call of init_system that matters to interrupts.    *)

(* The boot code runs when no handler does. *)
At(p) == cpu = "running" /\ frames = <<>> /\ pc = p
Goto(p) == pc' = p /\ UNCHANGED <<cpu, nmi_blocked, frames, tickVars>>

(* Mutant of IdtInit: the entries are set but lidt is forgotten. *)
IdtInitNoLidt ==
  /\ At("idt_init") /\ Goto("pic_init")
  /\ UNCHANGED <<iflag, picVars, setupVars>>

IdtInit ==
  /\ At("idt_init") /\ Goto("pic_init")
  /\ idt_loaded' = TRUE
  /\ UNCHANGED <<iflag, picVars, remapped, rtc, callbackVars, device>>

(* ICW1 clears requests and services; then the masks 0xF8 and 0xFF. *)
PicInit ==
  /\ At("pic_init") /\ Goto("pit_init")
  /\ remapped' = TRUE
  /\ irr' = {} /\ isr1' = {} /\ isr2' = {}
  /\ imr' = Lines \ {PIT_IRQ, KEYBOARD_IRQ, CASCADE_IRQ}
  /\ UNCHANGED <<iflag, idt_loaded, rtc, callbackVars, device>>

PitInit ==
  /\ At("pit_init") /\ Goto("pit_set_callback")
  /\ imr' = PicClearMask(PIT_IRQ)
  /\ UNCHANGED <<iflag, irr, isr1, isr2, setupVars>>

(* Mutant of PitSetCallback: the callback is not registered here. *)
PitSetNoCallback ==
  /\ At("pit_set_callback") /\ Goto("rtc_init")
  /\ UNCHANGED <<iflag, picVars, setupVars>>

PitSetCallback ==
  /\ At("pit_set_callback") /\ Goto("rtc_init")
  /\ timer_callback' = TRUE
  /\ UNCHANGED <<iflag, picVars, idt_loaded, remapped, rtc, kbd_callbacks,
                 mouse_callback, device>>

(* rtc_init up to rtc_read_time. *)
RtcInit ==
  /\ At("rtc_init") /\ Goto("rtc_read_time")
  /\ imr' = PicClearMask(RTC_IRQ)
  /\ UNCHANGED <<iflag, irr, isr1, isr2, setupVars>>

(* rtc_read_time waits, without a time-out, until no update is going on;    *)
(* then rtc_enable_interrupt, which reads status register C.                *)
RtcEnableInterrupt ==
  /\ At("rtc_read_time") /\ Goto("keyboard_init")
  /\ ~device.updating
  /\ rtc' = [on |-> TRUE, latched |-> FALSE]
  /\ UNCHANGED <<iflag, picVars, idt_loaded, remapped, callbackVars, device>>

(* Mutant of KeyboardInit: the devices stay enabled while the buffer is     *)
(* being emptied.                                                           *)
KeyboardInitEnabled ==
  /\ At("keyboard_init") /\ Goto("keyboard_init:flush")
  /\ device.present
  /\ iflag' = FALSE
  /\ UNCHANGED <<picVars, setupVars>>

(* keyboard_init: cli, the wait for the controller, both devices disabled. *)
KeyboardInit ==
  /\ At("keyboard_init") /\ Goto("keyboard_init:flush")
  /\ device.present
  /\ iflag' = FALSE
  /\ device' = [device EXCEPT !.enabled = FALSE]
  /\ UNCHANGED <<picVars, idt_loaded, remapped, rtc, callbackVars>>

(* That wait runs out, as it does without a controller: sti and return. *)
KeyboardInitTimeout ==
  /\ At("keyboard_init") /\ Goto("set_keyboard_callbacks")
  /\ iflag' = TRUE
  /\ UNCHANGED <<picVars, setupVars>>

(* A round of one of the loops that empty the buffer. *)
FlushByte ==
  /\ pc \in FlushPoints /\ At(pc) /\ Goto(pc)
  /\ device.full
  /\ device' = [device EXCEPT !.full = ~device.present]
  /\ UNCHANGED <<iflag, picVars, idt_loaded, remapped, rtc, callbackVars>>

(* keyboard_init from there to its call of mouse_init. *)
KeyboardConfigure ==
  /\ At("keyboard_init:flush") /\ Goto("keyboard_init:mouse_init")
  /\ ~device.full
  /\ device' = [device EXCEPT !.enabled = TRUE]
  /\ imr' = PicClearMask(KEYBOARD_IRQ)
  /\ UNCHANGED <<iflag, irr, isr1, isr2, idt_loaded, remapped, rtc, callbackVars>>

(* Any of the other four time-outs: sti and return, the keyboard disabled   *)
(* or not.                                                                  *)
KeyboardConfigureTimeout ==
  /\ At("keyboard_init:flush") /\ Goto("set_keyboard_callbacks")
  /\ ~device.full
  /\ \E enabled \in BOOLEAN : device' = [device EXCEPT !.enabled = enabled]
  /\ iflag' = TRUE
  /\ UNCHANGED <<picVars, idt_loaded, remapped, rtc, callbackVars>>

(* mouse_init, called by keyboard_init and again by init_system: cli, both  *)
(* devices disabled.                                                        *)
MouseInit ==
  /\ \/ At("keyboard_init:mouse_init") /\ Goto("keyboard_init:mouse_init:flush")
     \/ At("mouse_init") /\ Goto("mouse_init:flush")
  /\ iflag' = FALSE
  /\ device' = [device EXCEPT !.enabled = FALSE]
  /\ UNCHANGED <<picVars, idt_loaded, remapped, rtc, callbackVars>>

(* Then the dialogue with the mouse, and sti.  When the controller does not *)
(* answer, the interrupt is not unmasked and the devices stay disabled, but *)
(* sti is executed too.                                                     *)
MouseConfigure ==
  /\ \/ At("keyboard_init:mouse_init:flush") /\ Goto("keyboard_init:sti")
     \/ At("mouse_init:flush") /\ Goto("mouse_set_callback")
  /\ ~device.full
  /\ iflag' = TRUE
  /\ \/ imr' = PicClearMask(MOUSE_IRQ) /\ device' = [device EXCEPT !.enabled = TRUE]
     \/ UNCHANGED <<imr, device>>
  /\ UNCHANGED <<irr, isr1, isr2, idt_loaded, remapped, rtc, callbackVars>>

KeyboardSti ==
  /\ At("keyboard_init:sti") /\ Goto("set_keyboard_callbacks")
  /\ iflag' = TRUE
  /\ UNCHANGED <<picVars, setupVars>>

(* keyboard_set_{scancode,char,special}_callback, one after the other. *)
KeyboardSetCallback ==
  /\ At("set_keyboard_callbacks")
  /\ Goto(IF kbd_callbacks = 2 THEN "mouse_init" ELSE pc)
  /\ kbd_callbacks' = kbd_callbacks + 1
  /\ UNCHANGED <<iflag, picVars, idt_loaded, remapped, rtc, timer_callback,
                 mouse_callback, device>>

MouseSetCallback ==
  /\ At("mouse_set_callback") /\ Goto("idt_enable_interrupts")
  /\ mouse_callback' = TRUE
  /\ UNCHANGED <<iflag, picVars, idt_loaded, remapped, rtc, timer_callback,
                 kbd_callbacks, device>>

IdtEnableInterrupts ==
  /\ At("idt_enable_interrupts") /\ Goto("loop")
  /\ iflag' = TRUE
  /\ UNCHANGED <<picVars, setupVars>>

(* One round of the main loop, up to the hlt instruction. *)
MainLoop ==
  /\ At("loop") /\ Goto("hlt")
  /\ UNCHANGED <<iflag, picVars, setupVars>>

Boot ==
  \/ IdtInit \/ PicInit \/ PitInit \/ PitSetCallback
  \/ RtcInit \/ RtcEnableInterrupt
  \/ KeyboardInit \/ KeyboardInitTimeout \/ FlushByte
  \/ KeyboardConfigure \/ KeyboardConfigureTimeout
  \/ MouseInit \/ MouseConfigure \/ KeyboardSti
  \/ KeyboardSetCallback \/ MouseSetCallback \/ IdtEnableInterrupts
  \/ MainLoop

-----------------------------------------------------------------------------
(* Interrupts.                                                             *)

(* The interrupt gate (0x8E) clears the flag and enters the handler. *)
Enter(i) ==
  /\ cpu = "running" /\ iflag
  /\ Len(frames) < MaxDepth
  /\ frames' = Append(frames, [irq |-> i, done |-> FALSE])
  /\ iflag' = FALSE
  /\ UNCHANGED <<pc, cpu, nmi_blocked, imr, setupVars, tickVars>>

Deliver(i) ==
  /\ Presented(i) /\ Enter(i)
  /\ irr' = irr \ {i}
  /\ isr1' = isr1 \cup {IF i < 8 THEN i ELSE CASCADE_IRQ}
  /\ isr2' = IF i < 8 THEN isr2 ELSE isr2 \cup {i}

(* A request that vanishes before it is acknowledged: IRQ7, not in service. *)
DeliverSpurious == Enter(SPURIOUS_IRQ) /\ UNCHANGED <<irr, isr1, isr2>>

(* An NMI does not ask for the flag; it can come inside another handler. *)
DeliverNmi ==
  /\ cpu = "running" /\ idt_loaded /\ ~nmi_blocked /\ Len(frames) < MaxDepth
  /\ frames' = Append(frames, [irq |-> NMI, done |-> FALSE])
  /\ iflag' = FALSE /\ nmi_blocked' = TRUE
  /\ UNCHANGED <<pc, cpu, picVars, setupVars, tickVars>>

(* isr_machine_check, isr_page_fault_handler, isr_divide_by_zero and the    *)
(* like: cli, and hlt for ever.                                             *)
FatalException ==
  /\ cpu = "running" /\ idt_loaded
  /\ cpu' = "halted" /\ iflag' = FALSE
  /\ UNCHANGED <<pc, nmi_blocked, frames, picVars, setupVars, tickVars>>

(* The innermost handler is for line i and runs its body. *)
InHandler(i) ==
  /\ cpu = "running" /\ frames # <<>> /\ Last(frames) = [irq |-> i, done |-> FALSE]
  /\ frames' = [frames EXCEPT ![Len(frames)].done = TRUE]
  /\ UNCHANGED <<pc, cpu, nmi_blocked, imr, irr, setupVars>>

Acknowledge(i) ==
  LET eoi == PicSendEoi(i, isr1, isr2)
  IN isr1' = eoi.master /\ isr2' = eoi.slave

(* Mutant of IsrTimer: timer_tick's counter takes pit.c's width. *)
IsrTimerWideTicks ==
  /\ InHandler(PIT_IRQ)
  /\ tick_count' = (tick_count + 1) % WIDTH64
  /\ ticks' = IF timer_callback THEN (ticks + 1) % WIDTH64 ELSE ticks
  /\ Acknowledge(PIT_IRQ)
  /\ UNCHANGED iflag

(* isr_timer, pit_handler and, once registered, timer_tick. *)
IsrTimer ==
  /\ InHandler(PIT_IRQ)
  /\ tick_count' = (tick_count + 1) % WIDTH64
  /\ ticks' = IF timer_callback THEN (ticks + 1) % WIDTH32 ELSE ticks
  /\ Acknowledge(PIT_IRQ)
  /\ UNCHANGED iflag

(* isr_keyboard, keyboard_handler: acknowledge, then sti, with or without a *)
(* byte to read.                                                            *)
IsrKeyboard ==
  /\ InHandler(KEYBOARD_IRQ)
  /\ Acknowledge(KEYBOARD_IRQ)
  /\ iflag' = TRUE
  /\ UNCHANGED tickVars

(* isr_mouse; isr_rtc, which does not call rtc_handler and so leaves status *)
(* register C unread; isr_lpt1, which acknowledges a spurious interrupt.    *)
IsrOther ==
  \E i \in {MOUSE_IRQ, RTC_IRQ, SPURIOUS_IRQ} :
    /\ InHandler(i)
    /\ Acknowledge(i)
    /\ UNCHANGED <<iflag, tickVars>>

(* isr_nmi (like isr_debug, isr_breakpoint and others) sends the master an  *)
(* EOI although no line asked for it: it ends the service of the line whose *)
(* handler the NMI came in.                                                 *)
IsrNmi ==
  /\ InHandler(NMI)
  /\ Acknowledge(PIT_IRQ)
  /\ UNCHANGED <<iflag, tickVars>>

Handle == IsrTimer \/ IsrKeyboard \/ IsrOther \/ IsrNmi

(* ret at the end of a service routine.  The main loop goes on after its    *)
(* hlt; any other interrupted code goes on or loses its way.                *)
Return ==
  /\ cpu = "running" /\ frames # <<>> /\ Last(frames).done
  /\ frames' = Front(frames)
  /\ IF pc = "hlt" /\ Len(frames) = 1
       THEN pc' = "loop" /\ UNCHANGED cpu
       ELSE cpu' \in {"running", "wild"} /\ UNCHANGED pc
  /\ UNCHANGED <<iflag, nmi_blocked, picVars, setupVars, tickVars>>

Next ==
  \/ Boot
  \/ RaiseTimer \/ RaiseRtc \/ RaisePS2
  \/ RtcUpdate \/ BufferFills
  \/ \E i \in Lines : Deliver(i)
  \/ DeliverSpurious \/ DeliverNmi \/ FatalException
  \/ Handle
  \/ Return

Spec == Init /\ [][Next]_vars

(* The processor executes the code it is in, and takes an interrupt that    *)
(* stays presented; the timer never stops.  Boot is strongly fair: between  *)
(* the interrupts of a storm the interrupted code gets to run, and the loop *)
(* that polls the RTC, whose update takes 2 ms of every second, meets it    *)
(* between two updates.  Every update ends.  Nothing is assumed of the PS/2 *)
(* controller: if there is one, its devices may send whenever they are      *)
(* enabled.                                                                 *)
Fairness ==
  /\ SF_vars(Boot) /\ WF_vars(device.updating /\ RtcUpdate)
  /\ WF_vars(Handle) /\ WF_vars(Return)
  /\ WF_vars(RaiseTimer) /\ WF_vars(\E i \in Lines : Deliver(i))

FairSpec == Spec /\ Fairness

-----------------------------------------------------------------------------
(* Properties.                                                             *)

(* Every variable has its type; in particular the two tick counters stay   *)
(* within their widths, and only the master's lines are in service there.  *)
TypeOK ==
  /\ pc \in BootPoints /\ iflag \in BOOLEAN /\ cpu \in {"running", "wild", "halted"}
  /\ nmi_blocked \in BOOLEAN
  /\ frames \in Seq(Handler)
  /\ idt_loaded \in BOOLEAN /\ remapped \in BOOLEAN
  /\ imr \subseteq Lines /\ irr \subseteq Lines
  /\ isr1 \subseteq 0 .. 7 /\ isr2 \subseteq 8 .. 15
  /\ rtc \in [on: BOOLEAN, latched: BOOLEAN]
  /\ timer_callback \in BOOLEAN /\ kbd_callbacks \in 0 .. 3
  /\ mouse_callback \in BOOLEAN
  /\ tick_count \in 0 .. WIDTH64 - 1 /\ ticks \in 0 .. WIDTH32 - 1
  /\ device \in Device

(* Whenever the processor can be interrupted every interrupt taken so far   *)
(* has been acknowledged at both PICs: no sti comes before an EOI, the      *)
(* handlers of the slave's lines end both services, and neither the EOI     *)
(* that isr_lpt1 sends for a spurious interrupt nor the one of isr_nmi, in  *)
(* the middle of any other handler, leaves a line in service for ever.      *)
AllAcknowledged == iflag => isr1 = {} /\ isr2 = {}

(* Interrupts are first enabled when the IDT is loaded, the PICs no longer  *)
(* deliver on the exception vectors and the cascade carries the slave's     *)
(* unmasked lines, whichever of the sti in keyboard_init, mouse_init and    *)
(* idt_enable_interrupts comes first; no handler runs before that, except   *)
(* the one of an NMI.                                                       *)
VectorsReady ==
  iflag \/ (\E i \in 1 .. Len(frames) : frames[i].irq # NMI) =>
    /\ idt_loaded /\ remapped
    /\ (\E i \in 8 .. 15 : i \notin imr) => CASCADE_IRQ \notin imr

(* main.c's timer_tick and pit.c count the same ticks (modulo the narrower  *)
(* counter): none is handled before the callback is registered.             *)
TicksAgree == ticks = tick_count % WIDTH32

(* With a PS/2 controller, boot ends in the main loop, unless an interrupt  *)
(* taken on the way makes it lose its way or an exception is fatal: none of *)
(* the loops without a time-out goes on for ever, because the devices are   *)
(* disabled before the buffer is emptied and every update of the RTC ends.  *)
(* Without a controller keyboard_init gives up, but mouse_init never gets   *)
(* out of its loop, and boot hangs with interrupts disabled.                *)
BootCompletes ==
  /\ device.present => <>(pc = "hlt" \/ cpu # "running")
  /\ ~device.present =>
       <>[]((pc = "mouse_init:flush" /\ ~iflag) \/ cpu # "running")

(* "Halt CPU until next interrupt" (main.c:505): a processor that halts in  *)
(* the main loop, with the timer running, wakes again, unless an interrupt  *)
(* that nests in another's handler makes it lose its way or an exception is *)
(* fatal.                                                                   *)
HaltWakes ==
  (pc = "hlt" /\ frames = <<>>) ~> (pc = "loop" \/ cpu # "running")

=============================================================================
