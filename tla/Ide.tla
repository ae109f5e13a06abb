-------------------------------- MODULE Ide --------------------------------
(***************************************************************************)
(* ide_read_sectors and ide_write_sectors of drivers/storage/ide.c, on one *)
(* channel with a master and a slave.                                      *)
(*                                                                         *)
(* The driver polls.  Its calls run one after the other; what they race    *)
(* with is the drives, which answer, fail or hang in their own time; a     *)
(* time-out leaves a drive in the middle of a command for the next call to *)
(* find.  A drive shows that it is busy as soon as it has a command.       *)
(*                                                                         *)
(* A sector that crosses the data port is the pair <<drive, address>>;     *)
(* what is read while the drive offers no data, what is written while it   *)
(* takes none, and what a call moves that found a drive in the middle of a *)
(* command, is Garbage.  The registers of the channel are not state: every *)
(* call writes all those that its command uses.                            *)
(*                                                                         *)
(* The functions are called with an IDEDevice, as their parameter says.    *)
(* In ide_ops they are cast to functions of a StorageDevice: called        *)
(* through that table they would take its name for port and drive.  No     *)
(* code of the kernel calls them that way, and it is not modelled.         *)
(***************************************************************************)
EXTENDS Integers, Sequences

CONSTANTS
  BYTE,      (* values of a register of the channel (256)                  *)
  NIBBLE,    (* values of the address bits in the device register (16)     *)
  Addresses, (* the sector addresses callers pass (uint64_t)               *)
  Counts     (* the numbers of sectors callers pass (uint32_t)             *)

ASSUME IdeAssumption ==
  /\ BYTE \in Nat \ {0} /\ NIBBLE \in Nat \ {0}
  /\ Addresses \subseteq Nat /\ Counts \subseteq Nat

Slaves == 0 .. 1
Garbage == <<>>
Elsewhere == -1
CHANNEL_BITS == BYTE * BYTE * BYTE * NIBBLE  (* addresses of 28 bits       *)

VARIABLES
  drives,  (* what the drives are doing                                    *)
  lba48,   (* use_lba48 of the two devices, as ide_identify found it       *)
  call     (* the driver's call; its slave is the selected drive           *)

channelVars == <<drives, lba48, call>>

-----------------------------------------------------------------------------
(* The drives (hardware).                                                  *)

Idle == [phase |-> "idle", cmd |-> "none", at |-> Elsewhere, left |-> 0]

(* What a drive may become when a command is written: a busy one does not  *)
(* see it, one that is transferring data may drop either command.          *)
Commanded(drive, new) ==
  CASE drive.phase = "idle" -> {new}
    [] drive.phase = "busy" -> {drive}
    [] OTHER -> {drive, new}

(* A sector has crossed the data port. *)
Transferred(drive) ==
  IF drive.left = 1 /\ drive.cmd = "read" THEN Idle
  ELSE [phase |-> "busy", cmd |-> drive.cmd, left |-> drive.left - 1,
        at |-> IF drive.at = Elsewhere THEN Elsewhere ELSE drive.at + 1]

(* A busy drive asks for the next sector or has done all of them. *)
DriveAnswers(d) ==
  /\ drives[d].phase = "busy"
  /\ drives' = [drives EXCEPT ![d] =
                  IF @.left > 0 THEN [@ EXCEPT !.phase = "drq"] ELSE Idle]
  /\ UNCHANGED <<lba48, call>>

(* It gives up, with its error bit set, which the driver never looks at. *)
DriveFails(d) ==
  /\ drives[d].phase = "busy"
  /\ drives' = [drives EXCEPT ![d] = Idle]
  /\ call' = [call EXCEPT !.trouble = (call.pc # "idle")]
  /\ UNCHANGED lba48

-----------------------------------------------------------------------------
(* The driver.  A call is waiting for the drive it has selected ("select"),*)
(* for the next sector ("data") or for the flushed cache ("flush").        *)

NoCall == [pc |-> "idle", op |-> "none", slave |-> 0, lba |-> 0, count |-> 0,
           moved |-> <<>>, ret |-> 0,
           clean |-> TRUE,     (* ghost: it found both drives idle         *)
           trouble |-> FALSE]  (* ghost: a time-out or a drive's error     *)

sectors == call.count % BYTE  (* uint8_t sectors *)

IdeInit ==
  /\ drives = [d \in Slaves |-> Idle]
  /\ lba48 \in [Slaves -> BOOLEAN]
  /\ call = NoCall

Return(ret) == call' = [call EXCEPT !.pc = "done", !.ret = ret]

(* ide_wait_ready sees the selected drive ready, or tires of waiting. *)
Ready == drives[call.slave].phase # "busy"
TimesOut == drives[call.slave].phase = "busy"
Troubled(ret) ==
  call' = [call EXCEPT !.pc = "done", !.ret = ret, !.trouble = TRUE]

(* Entry: a call for no sector fails; else ide_select_drive.  The buffer   *)
(* is not NULL.                                                            *)
EnterCall(op, slave, lba, count) ==
  /\ call.pc = "idle"
  /\ LET c == [NoCall EXCEPT !.op = op, !.slave = slave, !.lba = lba, !.count = count,
                             !.clean = \A d \in Slaves : drives[d].phase = "idle"]
     IN call' = IF count % BYTE = 0 THEN [c EXCEPT !.pc = "done", !.ret = -1]
                ELSE [c EXCEPT !.pc = "select"]
  /\ UNCHANGED <<drives, lba48>>

(* The address as ide.c splits it: Bits takes the bits from a weight on,   *)
(* and the cast to uint8_t cuts off the others.                            *)
Weight(n) ==
  CASE n = 0 -> 1
    [] n = 1 -> BYTE
    [] n = 2 -> BYTE * BYTE
    [] n = 3 -> BYTE * BYTE * BYTE

Bits(n) == (call.lba \div Weight(n)) % BYTE

(* The command that the registers describe. *)
Command28 ==
  [phase |-> "busy", cmd |-> call.op, left |-> sectors,
   at |-> Bits(0) + Weight(1) * Bits(1) + Weight(2) * Bits(2)
            + Weight(3) * ((call.lba \div Weight(3)) % NIBBLE)]

(* The 48-bit commands want the high bytes first, but get the low ones     *)
(* first, and the count register gets bits 24 to 31 of the address: the    *)
(* count ends up in its high byte, the address is another one (Elsewhere). *)
Command48 ==
  [phase |-> "busy", cmd |-> call.op, left |-> Bits(3) + BYTE * sectors,
   at |-> Elsewhere]

(* ide_wait_ready succeeds: registers, then the command. *)
SendCommand ==
  /\ call.pc = "select" /\ Ready
  /\ \E drive \in Commanded(drives[call.slave],
                            IF lba48[call.slave] THEN Command48 ELSE Command28) :
       drives' = [drives EXCEPT ![call.slave] = drive]
  /\ call' = [call EXCEPT !.pc = "data"]
  /\ UNCHANGED lba48

(* The 256 words of a sector.  After the last sector of a write the cache  *)
(* is flushed, a command that a drive still busy with that sector does not *)
(* see.                                                                    *)
MoveSector ==
  LET d == drives[call.slave]
      offered == d.phase = "drq" /\ d.cmd = call.op
      moved == Append(call.moved, IF offered /\ call.clean THEN <<call.slave, d.at>>
                                  ELSE Garbage)
      last == Len(moved) = sectors
      after == IF offered THEN Transferred(d) ELSE d
      flush == [Idle EXCEPT !.phase = "busy", !.cmd = "flush"]
  IN /\ call' = [call EXCEPT !.moved = moved,
                             !.pc = IF ~last THEN "data"
                                    ELSE IF call.op = "write" THEN "flush" ELSE "done"]
     /\ \E drive \in IF last /\ call.op = "write" THEN Commanded(after, flush)
                     ELSE {after} :
          drives' = [drives EXCEPT ![call.slave] = drive]
     /\ UNCHANGED lba48

(* One round of the loop: ide_wait_ready, then the sector. *)
TransferSector == call.pc = "data" /\ Ready /\ MoveSector

(* Mutant of WaitTimesOut: only the first wait is bounded. *)
FirstWaitTimesOut ==
  /\ call.pc = "select" /\ TimesOut
  /\ Troubled(-1)
  /\ UNCHANGED <<drives, lba48>>

(* A wait that times out ends the call with -1. *)
WaitTimesOut ==
  /\ call.pc \in {"select", "data"} /\ TimesOut
  /\ Troubled(-1)
  /\ UNCHANGED <<drives, lba48>>

(* Mutant of AwaitFlush: the last wait is left out. *)
SkipFlush ==
  /\ call.pc = "flush"
  /\ Return(0)
  /\ UNCHANGED <<drives, lba48>>

(* The result of the wait for the flush is ignored. *)
AwaitFlush ==
  /\ call.pc = "flush"
  /\ \/ Ready /\ Return(0)
     \/ TimesOut /\ Troubled(0)
  /\ UNCHANGED <<drives, lba48>>

(* The caller takes the result. *)
TakeReturn ==
  /\ call.pc = "done"
  /\ call' = NoCall
  /\ UNCHANGED <<drives, lba48>>

DriverStep ==
  \/ SendCommand
  \/ TransferSector
  \/ WaitTimesOut
  \/ AwaitFlush

IdeNext ==
  \/ \E op \in {"read", "write"}, slave \in Slaves,
        lba \in Addresses, count \in Counts :
       EnterCall(op, slave, lba, count)
  \/ DriverStep
  \/ TakeReturn
  \/ \E d \in Slaves : DriveAnswers(d) \/ DriveFails(d)

=============================================================================
