---------------------------- MODULE StorageProofs ----------------------------
(***************************************************************************)
(* Proofs about Storage and Ide, for every number of slots, every width of *)
(* the channel's registers and every address and count that callers pass.  *)
(***************************************************************************)
EXTENDS Storage, TLAPS, SequenceTheorems, WellFoundedInduction

(* The values of the channel's variables. *)
Drive == [phase: {"idle", "busy", "drq"}, cmd: {"none", "read", "write", "flush"},
          at: Int, left: Int]
Sector == {Garbage} \union (Slaves \X Int)
Call == [pc: {"idle", "select", "data", "flush", "done"},
         op: {"none", "read", "write"}, slave: Slaves, lba: Nat, count: Nat,
         moved: Seq(Sector), ret: {0, -1}, clean: BOOLEAN, trouble: BOOLEAN]

ChannelType ==
  /\ drives \in [Slaves -> Drive]
  /\ lba48 \in [Slaves -> BOOLEAN]
  /\ call \in Call

(* A call about which TransfersAsAsked says something. *)
Smooth == call.clean /\ ~call.trouble /\ ~lba48[call.slave]

Selected == drives[call.slave]

(* The first sector that the registers name. *)
First == Command28.at

(* The sectors moved so far are the first ones. *)
MovedInOrder ==
  \A i \in 1 .. Len(call.moved) : call.moved[i] = <<call.slave, First + i - 1>>

(* Where the selected drive is in the command, at each point of the call. *)
DriveFollows ==
  /\ call.pc = "select" => Selected.phase = "idle" /\ call.moved = <<>> /\ sectors # 0
  /\ call.pc = "data" =>
       /\ Selected.phase \in {"busy", "drq"} /\ Selected.cmd = call.op
       /\ Selected.left = sectors - Len(call.moved) /\ Selected.left > 0
       /\ Selected.at = First + Len(call.moved)
  /\ call.pc = "flush" =>
       /\ Selected.phase = "idle" \/ (Selected.phase = "busy" /\ Selected.left = 0)
       /\ Len(call.moved) = sectors
  /\ call.pc = "done" =>
       Selected.phase = "idle" /\ (call.ret = 0 => Len(call.moved) = sectors)

SmoothCall ==
  call.pc # "idle" /\ Smooth =>
    /\ \A d \in Slaves : d # call.slave => drives[d].phase = "idle"
    /\ call.op \in {"read", "write"}
    /\ MovedInOrder /\ DriveFollows

ChannelInv == ChannelType /\ SmoothCall

(* The values of the registry's variables. *)
RegistryInv ==
  /\ devices \in [Slots -> Devices \union {NULL}]
  /\ num_devices \in 0 .. MAX_STORAGE_DEVICES
  /\ live \subseteq Devices /\ twice \in BOOLEAN
  /\ RegistryKept

-----------------------------------------------------------------------------
(* The registers.                                                          *)

(* Division with remainder. *)
LEMMA DivMod ==
  ASSUME NEW w \in Nat, w > 0, NEW n \in Nat
  PROVE  n = w * (n \div w) + (n % w) /\ n % w \in 0 .. w - 1 /\ n \div w \in Nat
OBVIOUS

(* A quotient and a remainder determine each other. *)
LEMMA DivUnique ==
  ASSUME NEW w \in Nat, w > 0, NEW q \in Nat, NEW r \in 0 .. w - 1
  PROVE  (w * q + r) \div w = q /\ (w * q + r) % w = r
OBVIOUS

(* Dividing by a product divides by one factor after the other. *)
LEMMA DivDiv ==
  ASSUME NEW v \in Nat, v > 0, NEW w \in Nat, w > 0, NEW n \in Nat
  PROVE  n \div (v * w) = (n \div v) \div w
<1> DEFINE q == n \div v
           r == n % v
           p == q \div w
           s == q % w
<1>1. n = v * q + r /\ r \in 0 .. v - 1 /\ q \in Nat
  BY DivMod
<1>2. q = w * p + s /\ s \in 0 .. w - 1 /\ p \in Nat
  BY <1>1, DivMod
<1> HIDE DEF q, r, p, s
<1>3. v * w \in Nat /\ v * w > 0
  OBVIOUS
<1>4. n = (v * w) * p + (v * s + r)
  <2>1. v * (w * p + s) = (v * w) * p + v * s
    BY <1>2
  <2> QED
    BY <1>1, <1>2, <2>1
<1>5. v * s + r \in 0 .. (v * w) - 1
  <2>1. v * s <= v * (w - 1)
    BY <1>2
  <2>2. v * (w - 1) = v * w - v
    OBVIOUS
  <2>3. v * s \in Nat
    BY <1>2
  <2> QED
    BY <1>1, <1>3, <2>1, <2>2, <2>3
<1>6. n \div (v * w) = p
  BY <1>2, <1>3, <1>4, <1>5, DivUnique
<1> QED
  BY <1>6 DEF p, q

(* A number below w * v is the digits that division by w leaves. *)
LEMMA DivBound ==
  ASSUME NEW w \in Nat, w > 0, NEW v \in Nat, NEW n \in Nat, n < w * v
  PROVE  n \div w < v
<1>1. n = w * (n \div w) + (n % w) /\ n % w \in 0 .. w - 1 /\ n \div w \in Nat
  BY DivMod
<1> DEFINE q == n \div w
<1> HIDE DEF q
<1>2. CASE q >= v
  <2>1. w * q >= w * v
    BY <1>1, <1>2 DEF q
  <2>2. n >= w * q
    BY <1>1 DEF q
  <2> QED
    BY <1>1, <2>1, <2>2 DEF q
<1> QED
  BY <1>1, <1>2 DEF q

(* The weights of the four address registers. *)
LEMMA Weights ==
  /\ Weight(0) = 1 /\ Weight(1) = BYTE /\ Weight(2) = BYTE * BYTE
  /\ Weight(3) = BYTE * BYTE * BYTE
  /\ \A n \in 0 .. 3 : Weight(n) \in Nat /\ Weight(n) > 0
<1>1. /\ Weight(0) = 1 /\ Weight(1) = BYTE /\ Weight(2) = BYTE * BYTE
      /\ Weight(3) = BYTE * BYTE * BYTE
  BY DEF Weight
<1>2. BYTE \in Nat /\ BYTE > 0
  BY IdeAssumption
<1>3. BYTE * BYTE \in Nat /\ BYTE * BYTE > 0
  BY <1>2
<1>4. BYTE * BYTE * BYTE \in Nat /\ BYTE * BYTE * BYTE > 0
  BY <1>2, <1>3
<1>5. \A n \in 0 .. 3 : n = 0 \/ n = 1 \/ n = 2 \/ n = 3
  OBVIOUS
<1> QED
  BY <1>1, <1>2, <1>3, <1>4, <1>5

(* An address that the 28 bits hold comes back from the registers. *)
LEMMA AddressKept ==
  ASSUME NEW n \in Nat, n < BYTE * BYTE * BYTE * NIBBLE
  PROVE  n = ((n \div Weight(0)) % BYTE) + Weight(1) * ((n \div Weight(1)) % BYTE)
               + Weight(2) * ((n \div Weight(2)) % BYTE)
               + Weight(3) * ((n \div Weight(3)) % NIBBLE)
<1> DEFINE w == BYTE
           q1 == n \div w
           q2 == q1 \div w
           q3 == q2 \div w
           r0 == n % w
           r1 == q1 % w
           r2 == q2 % w
<1>1. /\ w \in Nat /\ w > 0 /\ w * w \in Nat /\ w * w > 0
      /\ w * w * w \in Nat /\ w * w * w > 0 /\ NIBBLE \in Nat /\ NIBBLE > 0
  BY Weights, IdeAssumption
<1>2. n = w * q1 + r0 /\ q1 \in Nat /\ r0 \in Nat
  BY <1>1, DivMod
<1>3. q1 = w * q2 + r1 /\ q2 \in Nat /\ r1 \in Nat
  BY <1>1, <1>2, DivMod
<1>4. q2 = w * q3 + r2 /\ q3 \in Nat /\ r2 \in Nat
  BY <1>1, <1>3, DivMod
<1>5. n \div (w * w) = q2
  BY <1>1, DivDiv
<1>6. n \div (w * w * w) = q3
  <2>1. n \div ((w * w) * w) = (n \div (w * w)) \div w
    BY <1>1, DivDiv
  <2> QED
    BY <1>5, <2>1
<1>7. q3 < NIBBLE
  BY <1>1, <1>6, DivBound
<1>8. n \div 1 = n
  OBVIOUS
<1>9. q3 % NIBBLE = q3
  BY <1>1, <1>4, <1>7
<1> HIDE DEF w, q1, q2, q3, r0, r1, r2
<1>10. n = r0 + w * r1 + (w * w) * r2 + (w * w * w) * q3
  <2>1. w * q1 = w * (w * q2) + w * r1
    BY <1>1, <1>3
  <2>2. w * (w * q2) = (w * w) * q2
    BY <1>1, <1>3
  <2>3. (w * w) * q2 = (w * w) * (w * q3) + (w * w) * r2
    BY <1>1, <1>4
  <2>4. (w * w) * (w * q3) = (w * w * w) * q3
    BY <1>1, <1>4
  <2> QED
    BY <1>1, <1>2, <1>3, <1>4, <2>1, <2>2, <2>3, <2>4
<1> QED
  BY <1>5, <1>6, <1>8, <1>9, <1>10, Weights DEF w, q1, r0, r1, r2

-----------------------------------------------------------------------------
(* The channel.                                                            *)

(* The parts of a command are numbers. *)
LEMMA CommandTypes ==
  ASSUME ChannelType
  PROVE  /\ sectors \in Nat /\ First \in Nat
         /\ \A n \in 0 .. 3 : Bits(n) \in Nat
         /\ Command28.left = sectors /\ Command28.at = First
         /\ Command28.phase = "busy" /\ Command28.cmd = call.op
         /\ call.op \in {"read", "write"} => Command28 \in Drive /\ Command48 \in Drive
<1>1. call.lba \in Nat /\ call.count \in Nat /\ BYTE \in Nat /\ BYTE > 0
      /\ NIBBLE \in Nat /\ NIBBLE > 0
  BY IdeAssumption DEF ChannelType, Call
<1>2. \A n \in 0 .. 3 : Bits(n) \in Nat
  <2> SUFFICES ASSUME NEW n \in 0 .. 3 PROVE Bits(n) \in Nat
    OBVIOUS
  <2>1. call.lba \div Weight(n) \in Nat
    BY <1>1, Weights, DivMod
  <2> QED
    BY <1>1, <2>1, DivMod DEF Bits
<1>3. sectors \in Nat
  BY <1>1, DivMod DEF sectors
<1>4. (call.lba \div Weight(3)) % NIBBLE \in Nat
  <2>1. call.lba \div Weight(3) \in Nat
    BY <1>1, Weights, DivMod
  <2> QED
    BY <1>1, <2>1, DivMod
<1>5. /\ First = Bits(0) + Weight(1) * Bits(1) + Weight(2) * Bits(2)
                   + Weight(3) * ((call.lba \div Weight(3)) % NIBBLE)
      /\ Command28.left = sectors /\ Command28.at = First
      /\ Command28.phase = "busy" /\ Command28.cmd = call.op
  BY DEF First, Command28
<1>6. First \in Nat
  <2>1. \A m, n \in Nat : m * n \in Nat /\ m + n \in Nat
    OBVIOUS
  <2>2. Weight(1) \in Nat /\ Weight(2) \in Nat /\ Weight(3) \in Nat
    BY Weights
  <2> QED
    BY <1>2, <1>4, <1>5, <2>1, <2>2
<1>7. ASSUME call.op \in {"read", "write"}
      PROVE  Command28 \in Drive /\ Command48 \in Drive
  <2>1. Command28 = [phase |-> "busy", cmd |-> call.op, left |-> sectors, at |-> First]
    BY DEF Command28, First
  <2>2. Bits(3) + BYTE * sectors \in Int
    BY <1>1, <1>2, <1>3
  <2> QED
    BY <1>3, <1>6, <1>7, <2>1, <2>2 DEF Command48, Drive, Elsewhere
<1> QED
  BY <1>2, <1>3, <1>5, <1>6, <1>7

(* The idle drive and the driver without a call have their types. *)
LEMMA IdleType == Idle \in Drive /\ NoCall \in Call
<1>1. Idle \in Drive
  BY DEF Idle, Drive, Elsewhere
<1>2. <<>> \in Seq(Sector)
  BY EmptySeq
<1> QED
  BY <1>1, <1>2 DEF NoCall, Call, Slaves

(* At boot both drives are idle. *)
LEMMA IdeInitInv == IdeInit => ChannelInv
<1> SUFFICES ASSUME IdeInit PROVE ChannelInv
  OBVIOUS
<1>1. ChannelType
  BY IdleType DEF IdeInit, ChannelType
<1>2. SmoothCall
  BY DEF IdeInit, SmoothCall, NoCall
<1> QED
  BY <1>1, <1>2 DEF ChannelInv

(* The other drive's answer, or the selected one's, keeps the call smooth. *)
LEMMA AnswersStep ==
  ASSUME ChannelInv, NEW d \in Slaves, DriveAnswers(d)
  PROVE  ChannelInv'
<1>1. /\ drives \in [Slaves -> Drive] /\ drives[d].phase = "busy"
      /\ lba48' = lba48 /\ call' = call
      /\ drives' = [drives EXCEPT ![d] =
                      IF @.left > 0 THEN [@ EXCEPT !.phase = "drq"] ELSE Idle]
  BY DEF ChannelInv, ChannelType, DriveAnswers
<1>2. drives[d] \in Drive
  BY <1>1
<1>3. [drives[d] EXCEPT !.phase = "drq"] \in Drive
  BY <1>2 DEF Drive
<1>4. ChannelType'
  BY <1>1, <1>3, IdleType DEF ChannelInv, ChannelType
<1>5. SmoothCall'
  <2> SUFFICES ASSUME call.pc # "idle", Smooth
               PROVE  SmoothCall'
    BY <1>1 DEF SmoothCall, Smooth
  <2>1. SmoothCall /\ call.slave \in Slaves
    BY DEF ChannelInv, ChannelType, Call
  <2>2. d = call.slave
    BY <1>1, <2>1 DEF SmoothCall
  <2>3. /\ \A e \in Slaves : e # call.slave => drives'[e] = drives[e]
        /\ drives'[call.slave] = IF Selected.left > 0 THEN [Selected EXCEPT !.phase = "drq"]
                                 ELSE Idle
    BY <1>1, <2>1, <2>2 DEF Selected
  <2>4. Selected \in Drive
    BY <1>2, <2>2 DEF Selected
  <2>5. \/ call.pc = "data" /\ Selected' = [Selected EXCEPT !.phase = "drq"]
        \/ call.pc = "flush" /\ Selected' = Idle
    BY <1>1, <2>1, <2>2, <2>3 DEF SmoothCall, DriveFollows, Selected, ChannelInv, ChannelType,
                                  Call
  <2>6. First' = First /\ sectors' = sectors
    BY <1>1 DEF First, Command28, Bits, sectors
  <2>7. DriveFollows'
    BY <1>1, <2>1, <2>4, <2>5, <2>6 DEF SmoothCall, DriveFollows, Drive, Idle
  <2>8. MovedInOrder'
    BY <1>1, <2>1, <2>6 DEF SmoothCall, MovedInOrder
  <2> QED
    BY <1>1, <2>1, <2>3, <2>7, <2>8 DEF SmoothCall
<1> QED
  BY <1>4, <1>5 DEF ChannelInv

(* A drive that fails gives up what it was doing; a running call meets     *)
(* trouble.                                                                *)
LEMMA FailsStep ==
  ASSUME ChannelInv, NEW d \in Slaves, DriveFails(d)
  PROVE  ChannelInv'
<1>1. /\ drives' = [drives EXCEPT ![d] = Idle] /\ lba48' = lba48
      /\ call' = [call EXCEPT !.trouble = (call.pc # "idle")]
      /\ drives \in [Slaves -> Drive] /\ call \in Call
  BY DEF ChannelInv, ChannelType, DriveFails
<1>2. call' \in Call /\ call'.pc = call.pc /\ (call.pc # "idle" => call'.trouble)
  BY <1>1 DEF Call
<1>3. ChannelType'
  BY <1>1, <1>2, IdleType DEF ChannelInv, ChannelType
<1>4. SmoothCall'
  BY <1>2 DEF SmoothCall, Smooth
<1> QED
  BY <1>3, <1>4 DEF ChannelInv

(* First and sectors depend on the arguments of the call only. *)
LEMMA SameCommand ==
  ASSUME call'.lba = call.lba, call'.count = call.count
  PROVE  First' = First /\ sectors' = sectors
BY DEF First, Command28, Bits, sectors

(* A call that finds both drives idle starts smoothly. *)
LEMMA EnterStep ==
  ASSUME ChannelInv, NEW op \in {"read", "write"}, NEW slave \in Slaves,
         NEW lba \in Addresses, NEW count \in Counts, EnterCall(op, slave, lba, count)
  PROVE  ChannelInv'
<1> DEFINE allIdle == \A d \in Slaves : drives[d].phase = "idle"
           c == [NoCall EXCEPT !.op = op, !.slave = slave, !.lba = lba, !.count = count,
                               !.clean = allIdle]
<1>1. /\ drives' = drives /\ lba48' = lba48
      /\ call' = IF count % BYTE = 0 THEN [c EXCEPT !.pc = "done", !.ret = -1]
                 ELSE [c EXCEPT !.pc = "select"]
  BY DEF EnterCall
<1>2. c \in Call /\ c.op = op /\ c.slave = slave /\ c.count = count /\ c.moved = <<>>
      /\ c.clean = allIdle
  <2>1. lba \in Nat /\ count \in Nat
    BY IdeAssumption
  <2>2. allIdle \in BOOLEAN
    BY Zenon
  <2>3. NoCall \in Call /\ NoCall.moved = <<>>
    BY IdleType DEF NoCall
  <2> HIDE DEF allIdle
  <2> QED
    BY <2>1, <2>2, <2>3 DEF Call
<1>3. c.clean => \A d \in Slaves : drives[d].phase = "idle"
  <2> HIDE DEF c
  <2> QED
    BY <1>2, Zenon
<1> HIDE DEF c, allIdle
<1>4. /\ call' \in Call /\ call'.op = op /\ call'.slave = slave /\ call'.count = count
      /\ call'.moved = <<>> /\ (call'.clean => c.clean)
      /\ \/ call'.pc = "done" /\ call'.ret = -1
         \/ call'.pc = "select" /\ count % BYTE # 0
  BY <1>1, <1>2 DEF Call
<1>5. ChannelType'
  BY <1>1, <1>4 DEF ChannelInv, ChannelType
<1>6. SmoothCall'
  <2> SUFFICES ASSUME call'.clean PROVE SmoothCall'
    BY DEF SmoothCall, Smooth
  <2>1. \A d \in Slaves : drives'[d].phase = "idle"
    BY <1>1, <1>3, <1>4
  <2>2. Selected'.phase = "idle"
    BY <1>4, <2>1 DEF Selected
  <2>3. MovedInOrder'
    BY <1>4 DEF MovedInOrder
  <2>4. DriveFollows'
    BY <1>4, <2>2 DEF DriveFollows, sectors
  <2> QED
    BY <1>4, <2>1, <2>3, <2>4 DEF SmoothCall
<1> QED
  BY <1>5, <1>6 DEF ChannelInv

(* The command reaches a drive that is idle. *)
LEMMA SendStep ==
  ASSUME ChannelInv, SendCommand
  PROVE  ChannelInv'
<1> DEFINE new == IF lba48[call.slave] THEN Command48 ELSE Command28
<1>1. /\ drives \in [Slaves -> Drive] /\ call \in Call /\ call.slave \in Slaves
      /\ lba48' = lba48 /\ call.pc = "select"
      /\ call' = [call EXCEPT !.pc = "data"]
  BY DEF ChannelInv, ChannelType, SendCommand, Call
<1>2. PICK drive \in Commanded(drives[call.slave], new) :
        drives' = [drives EXCEPT ![call.slave] = drive]
  BY DEF SendCommand
<1>3. /\ call' \in Call /\ call'.pc = "data" /\ call'.op = call.op /\ call'.slave = call.slave
      /\ call'.lba = call.lba /\ call'.count = call.count /\ call'.moved = call.moved
      /\ call'.clean = call.clean /\ call'.trouble = call.trouble
  BY <1>1 DEF Call
<1>4. First' = First /\ sectors' = sectors
  BY <1>3, SameCommand
<1>5. drive \in Drive
  <2>1. drive = drives[call.slave] \/ drive = new
    BY <1>2 DEF Commanded
  <2>2. new \in Drive
    <3>1. Command48 = [phase |-> "busy", cmd |-> call.op,
                       left |-> Bits(3) + BYTE * sectors, at |-> Elsewhere]
      BY DEF Command48
    <3>2. Command28 = [phase |-> "busy", cmd |-> call.op, left |-> sectors, at |-> First]
      BY DEF Command28, First
    <3>3. Bits(3) + BYTE * sectors \in Int
      BY CommandTypes, IdeAssumption DEF ChannelInv
    <3>4. First \in Nat /\ sectors \in Nat
      BY CommandTypes DEF ChannelInv
    <3>5. call.op \in {"none", "read", "write", "flush"}
      BY <1>1 DEF Call
    <3> QED
      BY <3>1, <3>2, <3>3, <3>4, <3>5 DEF Drive, Elsewhere
  <2> QED
    BY <1>1, <2>1, <2>2
<1>6. ChannelType'
  BY <1>1, <1>2, <1>3, <1>5 DEF ChannelInv, ChannelType
<1>7. SmoothCall'
  <2> SUFFICES ASSUME Smooth PROVE SmoothCall'
    BY <1>1, <1>3 DEF SmoothCall, Smooth
  <2>1. /\ SmoothCall /\ Selected.phase = "idle" /\ call.moved = <<>> /\ sectors # 0
        /\ call.op \in {"read", "write"}
    BY <1>1 DEF ChannelInv, SmoothCall, DriveFollows
  <2>2. drive = Command28
    BY <1>2, <2>1 DEF Commanded, Selected, Smooth
  <2>3. /\ \A d \in Slaves : d # call.slave => drives'[d] = drives[d]
        /\ Selected' = Command28
    BY <1>1, <1>2, <1>3, <2>2 DEF Selected
  <2>4. Len(call'.moved) = 0 /\ sectors \in Nat /\ First \in Nat
    BY <1>3, <2>1, CommandTypes DEF ChannelInv
  <2>5. DriveFollows'
    BY <1>3, <1>4, <2>1, <2>3, <2>4, CommandTypes DEF DriveFollows, ChannelInv
  <2>6. MovedInOrder'
    BY <2>4 DEF MovedInOrder
  <2> QED
    BY <1>1, <1>3, <2>1, <2>3, <2>5, <2>6 DEF SmoothCall
<1> QED
  BY <1>6, <1>7 DEF ChannelInv

(* A wait that times out is trouble; taking the result ends the call. *)
LEMMA TimesOutStep ==
  ASSUME ChannelInv, WaitTimesOut
  PROVE  ChannelInv'
<1>1. /\ drives' = drives /\ lba48' = lba48 /\ call \in Call
      /\ call' = [call EXCEPT !.pc = "done", !.ret = -1, !.trouble = TRUE]
  BY DEF ChannelInv, ChannelType, WaitTimesOut, Troubled
<1>2. call' \in Call /\ call'.trouble
  BY <1>1 DEF Call
<1> QED
  BY <1>1, <1>2 DEF ChannelInv, ChannelType, SmoothCall, Smooth

(* After the wait for the flush the drive is idle. *)
LEMMA FlushStep ==
  ASSUME ChannelInv, AwaitFlush
  PROVE  ChannelInv'
<1>1. drives' = drives /\ lba48' = lba48 /\ call \in Call /\ call.pc = "flush"
  BY DEF ChannelInv, ChannelType, AwaitFlush
<1>2. CASE TimesOut /\ Troubled(0)
  <2>1. call' \in Call /\ call'.trouble
    BY <1>1, <1>2 DEF Call, Troubled
  <2> QED
    BY <1>1, <2>1 DEF ChannelInv, ChannelType, SmoothCall, Smooth
<1>3. CASE Ready /\ Return(0)
  <2>1. /\ call' \in Call /\ call'.pc = "done" /\ call'.op = call.op /\ call'.slave = call.slave
        /\ call'.lba = call.lba /\ call'.count = call.count /\ call'.moved = call.moved
        /\ call'.clean = call.clean /\ call'.trouble = call.trouble
    BY <1>1, <1>3 DEF Call, Return
  <2>2. First' = First /\ sectors' = sectors /\ Selected' = Selected
    BY <1>1, <2>1, SameCommand DEF Selected
  <2>3. SmoothCall'
    <3> SUFFICES ASSUME Smooth PROVE SmoothCall'
      BY <1>1, <2>1 DEF SmoothCall, Smooth
    <3>1. SmoothCall /\ DriveFollows /\ MovedInOrder
      BY <1>1 DEF ChannelInv, SmoothCall
    <3>2. Selected.phase = "idle" /\ Len(call.moved) = sectors
      BY <1>1, <1>3, <3>1 DEF DriveFollows, Ready, Selected
    <3>3. DriveFollows'
      BY <2>1, <2>2, <3>2 DEF DriveFollows
    <3>4. MovedInOrder'
      BY <2>1, <2>2, <3>1 DEF MovedInOrder
    <3> QED
      BY <1>1, <2>1, <3>1, <3>3, <3>4 DEF SmoothCall, Smooth
  <2> QED
    BY <1>1, <2>1, <2>3 DEF ChannelInv, ChannelType
<1> QED
  BY <1>2, <1>3 DEF AwaitFlush

(* A sector crosses the data port. *)
LEMMA TransferStep ==
  ASSUME ChannelInv, TransferSector
  PROVE  ChannelInv'
<1> DEFINE d == drives[call.slave]
           offered == d.phase = "drq" /\ d.cmd = call.op
           sector == IF offered /\ call.clean THEN <<call.slave, d.at>> ELSE Garbage
           moved == Append(call.moved, sector)
           last == Len(moved) = sectors
           after == IF offered THEN Transferred(d) ELSE d
           flush == [Idle EXCEPT !.phase = "busy", !.cmd = "flush"]
           pc == IF ~last THEN "data" ELSE IF call.op = "write" THEN "flush" ELSE "done"
<1>1. /\ drives \in [Slaves -> Drive] /\ call \in Call /\ call.slave \in Slaves
      /\ lba48' = lba48 /\ call.pc = "data" /\ d \in Drive /\ d.phase # "busy"
      /\ call' = [call EXCEPT !.moved = moved, !.pc = pc]
  BY DEF ChannelInv, ChannelType, TransferSector, MoveSector, Call, Ready
<1>2. PICK drive \in IF last /\ call.op = "write" THEN Commanded(after, flush) ELSE {after} :
        drives' = [drives EXCEPT ![call.slave] = drive]
  BY DEF TransferSector, MoveSector
<1>3. /\ moved \in Seq(Sector) /\ Len(moved) = Len(call.moved) + 1
      /\ Len(call.moved) \in Nat
      /\ moved[Len(call.moved) + 1] = sector
      /\ \A i \in 1 .. Len(call.moved) : moved[i] = call.moved[i]
  <2>1. call.moved \in Seq(Sector)
    BY <1>1 DEF Call
  <2>2. sector \in Sector
    <3>1. d.at \in Int
      BY <1>1 DEF Drive
    <3> QED
      BY <1>1, <3>1 DEF Sector
  <2> HIDE DEF sector
  <2> QED
    BY <2>1, <2>2
<1>4. pc \in {"data", "flush", "done"}
  OBVIOUS
<1> HIDE DEF moved, pc
<1>5. /\ call' \in Call /\ call'.pc = pc /\ call'.op = call.op /\ call'.slave = call.slave
      /\ call'.lba = call.lba /\ call'.count = call.count /\ call'.moved = moved
      /\ call'.clean = call.clean /\ call'.trouble = call.trouble
  BY <1>1, <1>3, <1>4 DEF Call
<1>6. First' = First /\ sectors' = sectors
  BY <1>5, SameCommand
<1>7. drive \in Drive
  <2>1. Transferred(d) \in Drive
    <3>1. d.left - 1 \in Int /\ d.at + 1 \in Int /\ d.cmd \in {"none", "read", "write", "flush"}
      BY <1>1 DEF Drive
    <3>2. (IF d.at = Elsewhere THEN Elsewhere ELSE d.at + 1) \in Int
      BY <3>1 DEF Elsewhere
    <3> QED
      BY <3>1, <3>2, IdleType DEF Transferred, Drive
  <2>2. flush \in Drive
    BY IdleType DEF Drive
  <2>3. after \in Drive
    BY <1>1, <2>1
  <2>4. drive = after \/ drive = flush
    BY <1>2 DEF Commanded
  <2> QED
    BY <2>2, <2>3, <2>4
<1>8. ChannelType'
  BY <1>1, <1>2, <1>5, <1>7 DEF ChannelInv, ChannelType
<1>9. SmoothCall'
  <2> SUFFICES ASSUME Smooth PROVE SmoothCall'
    BY <1>1, <1>5 DEF SmoothCall, Smooth
  <2>1. /\ SmoothCall /\ MovedInOrder /\ call.op \in {"read", "write"}
        /\ d.phase \in {"busy", "drq"} /\ d.cmd = call.op
        /\ d.left = sectors - Len(call.moved) /\ d.left > 0
        /\ d.at = First + Len(call.moved)
    BY <1>1 DEF ChannelInv, SmoothCall, DriveFollows, Selected
  <2>2. First \in Nat /\ sectors \in Nat
    BY CommandTypes DEF ChannelInv
  <2>3. offered /\ sector = <<call.slave, First + Len(call.moved)>> /\ d.at # Elsewhere
    BY <1>1, <1>3, <2>1, <2>2 DEF Smooth, Elsewhere
  <2>4. last <=> d.left = 1
    BY <1>3, <2>1, <2>2
  <2>5. MovedInOrder'
    <3> SUFFICES ASSUME NEW i \in 1 .. Len(call.moved) + 1
                 PROVE  moved[i] = <<call.slave, First + i - 1>>
      BY <1>3, <1>5, <1>6 DEF MovedInOrder
    <3>1. CASE i = Len(call.moved) + 1
      <4>1. First + Len(call.moved) = First + i - 1
        BY <1>3, <2>2, <3>1
      <4> QED
        BY <1>3, <2>3, <3>1, <4>1
    <3>2. CASE i \in 1 .. Len(call.moved)
      BY <1>3, <2>1, <3>2 DEF MovedInOrder
    <3> QED
      BY <1>3, <3>1, <3>2
  <2>6. /\ \A e \in Slaves : e # call.slave => drives'[e] = drives[e]
        /\ Selected' = drive
    BY <1>1, <1>2, <1>5 DEF Selected
  <2>7. DriveFollows'
    <3>1. CASE ~last
      <4>1. drive = [phase |-> "busy", cmd |-> call.op, left |-> d.left - 1, at |-> d.at + 1]
        BY <1>2, <2>1, <2>3, <2>4, <3>1 DEF Transferred
      <4>2. drive.phase = "busy" /\ drive.cmd = call.op /\ drive.left = d.left - 1
            /\ drive.at = d.at + 1
        BY <4>1
      <4>3. d.left - 1 = sectors - Len(moved) /\ d.left - 1 > 0 /\ d.at + 1 = First + Len(moved)
        <5>1. d.left \in Int /\ d.at \in Int
          BY <1>1 DEF Drive
        <5>2. d.left # 1 /\ Len(moved) = Len(call.moved) + 1 /\ Len(call.moved) \in Nat
          BY <1>3, <2>4, <3>1
        <5>3. d.left = sectors - Len(call.moved) /\ d.left > 0 /\ d.at = First + Len(call.moved)
          BY <2>1
        <5> HIDE DEF d
        <5> QED
          BY <2>2, <5>1, <5>2, <5>3, SMTT(30)
      <4>4. pc = "data"
        BY <3>1 DEF pc
      <4> QED
        BY <1>5, <1>6, <2>6, <4>2, <4>3, <4>4 DEF DriveFollows
    <3>2. CASE last /\ call.op = "read"
      <4>1. drive = Idle /\ pc = "done"
        BY <1>2, <2>1, <2>3, <2>4, <3>2 DEF Transferred, pc
      <4> QED
        BY <1>5, <1>6, <2>6, <3>2, <4>1 DEF DriveFollows, Idle
    <3>3. CASE last /\ call.op = "write"
      <4>1. /\ after.phase = "busy" /\ after.left = 0 /\ pc = "flush"
            /\ drive \in Commanded(after, flush)
        BY <1>1, <1>2, <2>1, <2>3, <2>4, <3>3 DEF Transferred, pc
      <4>2. drive = after
        BY <4>1 DEF Commanded
      <4> QED
        BY <1>5, <1>6, <2>6, <3>3, <4>1, <4>2 DEF DriveFollows
    <3> QED
      BY <2>1, <3>1, <3>2, <3>3
  <2> QED
    BY <1>1, <1>5, <2>1, <2>5, <2>6, <2>7 DEF SmoothCall
<1> QED
  BY <1>8, <1>9 DEF ChannelInv

(* Every step of the channel. *)
LEMMA ChannelNext ==
  ASSUME ChannelInv, [IdeNext]_channelVars
  PROVE  ChannelInv'
<1>1. CASE UNCHANGED channelVars
  <2>1. drives' = drives /\ lba48' = lba48 /\ call' = call
    BY <1>1 DEF channelVars
  <2>2. First' = First /\ sectors' = sectors /\ Selected' = Selected
    BY <2>1, SameCommand DEF Selected
  <2> QED
    BY <2>1, <2>2 DEF ChannelInv, ChannelType, SmoothCall, Smooth, MovedInOrder, DriveFollows
<1>2. CASE TakeReturn
  <2>1. call' = NoCall /\ NoCall \in Call /\ NoCall.pc = "idle" /\ drives' = drives
        /\ lba48' = lba48
    BY <1>2, IdleType DEF TakeReturn, NoCall
  <2> QED
    BY <2>1 DEF ChannelInv, ChannelType, SmoothCall
<1>3. CASE DriverStep
  BY <1>3, SendStep, TransferStep, TimesOutStep, FlushStep DEF DriverStep
<1>4. CASE \E op \in {"read", "write"}, slave \in Slaves,
              lba \in Addresses, count \in Counts : EnterCall(op, slave, lba, count)
  BY <1>4, EnterStep
<1>5. CASE \E d \in Slaves : DriveAnswers(d) \/ DriveFails(d)
  BY <1>5, AnswersStep, FailsStep
<1> QED
  BY <1>1, <1>2, <1>3, <1>4, <1>5 DEF IdeNext

(* What the invariant says of a call that has returned. *)
LEMMA CallMoved ==
  ASSUME ChannelInv
  PROVE  TransfersAsAsked
<1> SUFFICES ASSUME call.pc = "done", Smooth
             PROVE  /\ call.ret = 0 /\ call.count < BYTE /\ call.lba + call.count <= CHANNEL_BITS
                         => call.moved = Asked
                    /\ \A d \in Slaves : drives[d].phase = "idle"
  BY DEF TransfersAsAsked, Smooth
<1>1. SmoothCall /\ MovedInOrder /\ DriveFollows /\ call.slave \in Slaves
      /\ call.moved \in Seq(Sector) /\ call.lba \in Nat /\ call.count \in Nat
  BY DEF ChannelInv, SmoothCall, ChannelType, Call
<1>2. \A d \in Slaves : drives[d].phase = "idle"
  BY <1>1 DEF SmoothCall, DriveFollows, Selected
<1>3. ASSUME call.ret = 0, call.count < BYTE, call.lba + call.count <= CHANNEL_BITS
      PROVE  call.moved = Asked
  <2>1. sectors = call.count /\ Len(call.moved) = sectors
    <3>1. \A w \in Nat \ {0}, n \in Nat : n < w => n % w = n
      OBVIOUS
    <3>2. call.count % BYTE = call.count
      BY <1>1, <1>3, <3>1, IdeAssumption
    <3> QED
      BY <1>1, <1>3, <3>2 DEF DriveFollows, sectors
  <2>2. ASSUME NEW i \in 1 .. call.count
        PROVE  call.moved[i] = <<call.slave, call.lba + i - 1>>
    <3>1. call.lba < BYTE * BYTE * BYTE * NIBBLE
      <4>1. BYTE * BYTE * BYTE \in Nat /\ NIBBLE \in Nat
        BY Weights, IdeAssumption
      <4>2. CHANNEL_BITS = (BYTE * BYTE * BYTE) * NIBBLE /\ CHANNEL_BITS \in Nat
        BY <4>1 DEF CHANNEL_BITS
      <4> QED
        BY <1>1, <1>3, <4>2
    <3>2. First = call.lba
      BY <1>1, <3>1, AddressKept DEF First, Command28, Bits
    <3> QED
      BY <1>1, <2>1, <3>2 DEF MovedInOrder
  <2>3. call.moved = [i \in 1 .. call.count |-> call.moved[i]]
    BY <1>1, <2>1, LenProperties
  <2> QED
    BY <2>2, <2>3 DEF Asked
<1> QED
  BY <1>2, <1>3

-----------------------------------------------------------------------------
(* The registry.                                                           *)

(* No device is the empty slot. *)
LEMMA DevicesAreNotNull == NULL \notin Devices
BY DEF Devices, Device, Slaves, NULL

(* The registry starts empty. *)
LEMMA RegistryInitInv == StorageInit => RegistryInv
<1> SUFFICES ASSUME StorageInit PROVE RegistryInv
  OBVIOUS
<1>1. /\ devices = [i \in Slots |-> NULL] /\ num_devices = 0 /\ live = {} /\ twice = FALSE
      /\ MAX_STORAGE_DEVICES \in Nat
  BY SlotsAssumption DEF StorageInit
<1>2. \A i \in Slots : devices[i] = NULL /\ ~(i <= num_devices)
  BY <1>1 DEF Slots
<1>3. 1 .. num_devices = {}
  BY <1>1
<1>4. RegistryKept
  BY <1>2, <1>3 DEF RegistryKept
<1>5. /\ devices \in [Slots -> Devices \union {NULL}] /\ live \subseteq Devices
      /\ num_devices \in 0 .. MAX_STORAGE_DEVICES
  BY <1>1
<1>6. twice \in BOOLEAN
  BY <1>1
<1> QED
  BY <1>4, <1>5, <1>6 DEF RegistryInv

(* A registered device has a first slot. *)
LEMMA FirstSlot ==
  ASSUME RegistryInv, NEW dev \in Devices, Registered(dev)
  PROVE  \E k \in 1 .. num_devices : devices[k] = dev /\ \A j \in 1 .. k - 1 : devices[j] # dev
<1> DEFINE S == {k \in 1 .. num_devices : devices[k] = dev}
<1>1. S \subseteq Nat /\ S # {}
  BY DEF Registered, RegistryInv
<1>2. PICK k \in S : \A j \in S : <<j, k>> \notin OpToRel(<, Nat)
  BY <1>1, NatLessThanWellFounded, WFMin, Zenon
<1>3. ASSUME NEW j \in 1 .. k - 1, devices[j] = dev PROVE FALSE
  <2>1. j \in S /\ j < k /\ k \in Nat /\ j \in Nat
    BY <1>3 DEF RegistryInv
  <2>2. <<j, k>> \in OpToRel(<, Nat)
    BY <2>1 DEF OpToRel
  <2> QED
    BY <1>2, <2>1, <2>2
<1> QED
  BY <1>2, <1>3

(* Registering fills the first free slot. *)
LEMMA RegisterStep ==
  ASSUME RegistryInv, NEW dev \in Devices, NEW ok \in BOOLEAN, storage_register_device(dev, ok)
  PROVE  /\ RegistryInv'
         /\ \A e \in Devices : Registered(e) => Registered(e)'
<1>1. CASE num_devices < MAX_STORAGE_DEVICES /\ ok
  <2>1. /\ devices' = [devices EXCEPT ![num_devices + 1] = dev] /\ num_devices' = num_devices + 1
        /\ live' = live /\ dev \in live /\ num_devices \in Nat
        /\ devices \in [Slots -> Devices \union {NULL}] /\ num_devices + 1 \in Slots
    BY <1>1, SlotsAssumption DEF storage_register_device, RegistryInv, Slots
  <2>2. twice' \in BOOLEAN /\ (~twice' => ~twice /\ ~Registered(dev))
    BY <1>1, Zenon DEF storage_register_device
  <2>3. /\ devices' \in [Slots -> Devices \union {NULL}]
        /\ num_devices' \in 0 .. MAX_STORAGE_DEVICES
        /\ devices'[num_devices + 1] = dev
        /\ \A i \in Slots : i # num_devices + 1 => devices'[i] = devices[i]
    BY <1>1, <2>1, SlotsAssumption DEF RegistryInv
  <2>4. \A i \in 1 .. num_devices : i \in Slots /\ i # num_devices + 1 /\ devices'[i] = devices[i]
    BY <2>1, <2>3, SlotsAssumption DEF Slots
  <2>5. \A i \in Slots : devices'[i] # NULL <=> i <= num_devices'
    BY <2>1, <2>3, DevicesAreNotNull DEF RegistryInv, RegistryKept, Slots
  <2>6. ~twice' => \A i \in 1 .. num_devices' :
                     devices'[i] \in live' /\ \A j \in 1 .. i - 1 : devices'[j] # devices'[i]
    <3> SUFFICES ASSUME ~twice', NEW i \in 1 .. num_devices'
                 PROVE  devices'[i] \in live' /\ \A j \in 1 .. i - 1 : devices'[j] # devices'[i]
      OBVIOUS
    <3>1. CASE i = num_devices + 1
      <4>1. \A j \in 1 .. num_devices : devices[j] # dev
        BY <2>2 DEF Registered
      <4> QED
        BY <2>1, <2>3, <2>4, <3>1, <4>1
    <3>2. CASE i \in 1 .. num_devices
      <4>1. devices[i] \in live /\ \A j \in 1 .. i - 1 : devices[j] # devices[i]
        BY <2>2, <3>2 DEF RegistryInv, RegistryKept
      <4>2. \A j \in 1 .. i - 1 : j \in 1 .. num_devices
        BY <2>1, <3>2
      <4> QED
        BY <2>1, <2>4, <3>2, <4>1, <4>2
    <3> QED
      BY <2>1, <3>1, <3>2
  <2>7. \A e \in Devices : Registered(e) => Registered(e)'
    <3> SUFFICES ASSUME NEW i \in 1 .. num_devices
                 PROVE  i \in 1 .. num_devices' /\ devices'[i] = devices[i]
      BY DEF Registered
    <3> QED
      BY <2>1, <2>4
  <2>8. live' \subseteq Devices
    BY <2>1 DEF RegistryInv
  <2> QED
    BY <2>2, <2>3, <2>5, <2>6, <2>7, <2>8 DEF RegistryInv, RegistryKept
<1>2. CASE ~(num_devices < MAX_STORAGE_DEVICES /\ ok)
  BY <1>2 DEF storage_register_device, RegistryInv, RegistryKept, Registered
<1> QED
  BY <1>1, <1>2

(* Unregistering takes out one slot and moves the others up. *)
LEMMA UnregisterStep ==
  ASSUME RegistryInv, NEW dev \in Devices, storage_unregister_device(dev)
  PROVE  /\ RegistryInv'
         /\ \A e \in Devices : Registered(e) /\ e \in live' => Registered(e)'
<1>1. CASE ~Registered(dev)
  BY <1>1 DEF storage_unregister_device, RegistryInv, RegistryKept, Registered
<1>2. CASE Registered(dev)
  <2> DEFINE i == CHOOSE k \in 1 .. num_devices :
                    devices[k] = dev /\ \A j \in 1 .. k - 1 : devices[j] # dev
  <2>1. i \in 1 .. num_devices /\ devices[i] = dev
    BY <1>2, FirstSlot
  <2>2. /\ devices' = RemoveSlot(i) /\ num_devices' = num_devices - 1
        /\ live' = live \ {dev} /\ twice' = twice
    BY <1>2 DEF storage_unregister_device, ide_cleanup_device
  <2> HIDE DEF i
  <2>3. /\ devices \in [Slots -> Devices \union {NULL}] /\ num_devices \in Nat
        /\ num_devices <= MAX_STORAGE_DEVICES /\ MAX_STORAGE_DEVICES \in Nat /\ i \in Nat
    BY <2>1, SlotsAssumption DEF RegistryInv
  <2>4. /\ \A j \in Slots : devices'[j] = IF j = num_devices THEN NULL
                                          ELSE IF i <= j /\ j < num_devices THEN devices[j + 1]
                                          ELSE devices[j]
        /\ devices' \in [Slots -> Devices \union {NULL}]
    <3>1. \A j \in Slots : j < num_devices => j + 1 \in Slots
      BY <2>3 DEF Slots
    <3> QED
      BY <2>2, <2>3, <3>1 DEF RemoveSlot
  <2>5. ASSUME NEW j \in 1 .. num_devices'
        PROVE  \E n \in 1 .. num_devices :
                 /\ devices'[j] = devices[n] /\ n # i
                 /\ n = (IF i <= j THEN j + 1 ELSE j)
    BY <2>1, <2>2, <2>3, <2>4 DEF Slots
  <2>6. ASSUME NEW n \in 1 .. num_devices, n # i
        PROVE  \E j \in 1 .. num_devices' : devices'[j] = devices[n]
    <3>1. CASE n < i
      <4>1. n \in 1 .. num_devices' /\ n \in Slots /\ devices'[n] = devices[n]
        BY <2>1, <2>2, <2>3, <2>4, <3>1 DEF Slots
      <4> QED
        BY <4>1
    <3>2. CASE n > i
      <4>1. n - 1 \in 1 .. num_devices' /\ n - 1 \in Slots /\ devices'[n - 1] = devices[n]
        BY <2>1, <2>2, <2>3, <2>4, <3>2 DEF Slots
      <4> QED
        BY <4>1
    <3> QED
      BY <2>3, <2>6, <3>1, <3>2
  <2>7. \A j \in Slots : devices'[j] # NULL <=> j <= num_devices'
    <3> SUFFICES ASSUME NEW j \in Slots
                 PROVE  devices'[j] # NULL <=> j <= num_devices'
      OBVIOUS
    <3>1. \A m \in Slots : devices[m] # NULL <=> m <= num_devices
      BY DEF RegistryInv, RegistryKept
    <3>2. CASE j < num_devices
      <4>1. j + 1 \in Slots /\ j + 1 <= num_devices /\ j <= num_devices'
        BY <2>2, <2>3, <3>2 DEF Slots
      <4>2. j \in Int /\ j <= num_devices /\ j # num_devices
        BY <2>3, <3>2 DEF Slots
      <4>3. devices'[j] = devices[j + 1] \/ devices'[j] = devices[j]
        BY <2>4, <4>2
      <4> QED
        BY <3>1, <4>1, <4>2, <4>3
    <3>3. CASE j >= num_devices
      <4>1. ~(j <= num_devices')
        BY <2>2, <2>3, <3>3 DEF Slots
      <4> QED
        BY <2>3, <2>4, <3>1, <3>3, <4>1 DEF Slots
    <3> QED
      BY <2>3, <3>2, <3>3 DEF Slots
  <2>8. ~twice' => \A j \in 1 .. num_devices' :
                     devices'[j] \in live' /\ \A m \in 1 .. j - 1 : devices'[m] # devices'[j]
    <3> SUFFICES ASSUME ~twice, NEW j \in 1 .. num_devices'
                 PROVE  devices'[j] \in live' /\ \A m \in 1 .. j - 1 : devices'[m] # devices'[j]
      BY <2>2
    <3>1. \A n \in 1 .. num_devices : devices[n] \in live
      BY DEF RegistryInv, RegistryKept
    <3>2. \A n, m \in 1 .. num_devices : n # m => devices[n] # devices[m]
      BY DEF RegistryInv, RegistryKept
    <3>3. devices'[j] \in live'
      BY <2>1, <2>2, <2>5, <3>1, <3>2
    <3>4. ASSUME NEW m \in 1 .. j - 1 PROVE devices'[m] # devices'[j]
      <4>1. m \in 1 .. num_devices' /\ m # j
        BY <2>2, <2>3
      <4>2. PICK p \in 1 .. num_devices : devices'[j] = devices[p]
                                          /\ p = (IF i <= j THEN j + 1 ELSE j)
        BY <2>5
      <4>3. PICK q \in 1 .. num_devices : devices'[m] = devices[q]
                                          /\ q = (IF i <= m THEN m + 1 ELSE m)
        BY <2>5, <4>1
      <4>4. q < p
        BY <2>2, <2>3, <4>2, <4>3
      <4>5. p # q
        BY <2>3, <4>4
      <4> QED
        BY <3>2, <4>2, <4>3, <4>5
    <3> QED
      BY <3>3, <3>4
  <2>9. ASSUME NEW e \in Devices, Registered(e), e \in live'
        PROVE  Registered(e)'
    <3>1. PICK n \in 1 .. num_devices : devices[n] = e
      BY <2>9 DEF Registered
    <3>2. n # i
      BY <2>1, <2>2, <2>9, <3>1
    <3> QED
      BY <2>6, <3>1, <3>2 DEF Registered
  <2>10. /\ num_devices' \in 0 .. MAX_STORAGE_DEVICES /\ live' \subseteq Devices
         /\ twice' \in BOOLEAN
    BY <2>1, <2>2, <2>3 DEF RegistryInv
  <2> QED
    BY <2>4, <2>7, <2>8, <2>9, <2>10 DEF RegistryInv, RegistryKept
<1> QED
  BY <1>1, <1>2

(* A step of the registry keeps its invariant, and of the devices that     *)
(* stay allocated drops none, except for storage_init.                     *)
LEMMA RegistryNext ==
  ASSUME RegistryInv, [RegistryStep]_registryVars
  PROVE  /\ RegistryInv'
         /\ num_devices' > 0 => \A e \in Devices : Registered(e) /\ e \in live' => Registered(e)'
<1>1. CASE UNCHANGED registryVars
  BY <1>1 DEF registryVars, RegistryInv, RegistryKept, Registered
<1>2. CASE storage_init
  <2>1. num_devices' = 0 /\ live' = live /\ twice' = twice /\ devices' = [i \in Slots |-> NULL]
    BY <1>2 DEF storage_init
  <2> QED
    BY <2>1, SlotsAssumption DEF RegistryInv, RegistryKept, Slots
<1>3. ASSUME NEW dev \in Devices, NEW ok \in BOOLEAN, ide_init_device(dev, ok)
      PROVE  RegistryInv' /\ \A e \in Devices : Registered(e) => Registered(e)'
  BY <1>3 DEF ide_init_device, RegistryInv, RegistryKept, Registered
<1>4. CASE \E dev \in Devices, ok \in BOOLEAN : storage_register_device(dev, ok)
  BY <1>4, RegisterStep
<1>5. CASE \E dev \in Devices : storage_unregister_device(dev)
  BY <1>5, UnregisterStep
<1> QED
  BY <1>1, <1>2, <1>3, <1>4, <1>5 DEF RegistryStep

-----------------------------------------------------------------------------
(* The specification.                                                      *)

Inv == ChannelInv /\ RegistryInv

(* A step is one of the channel or one of the registry. *)
LEMMA StorageSteps ==
  ASSUME [StorageNext]_storageVars
  PROVE  [IdeNext]_channelVars /\ [RegistryStep]_registryVars
BY DEF StorageNext, storageVars

(* The inductive invariant: in a call that found the drives idle and met   *)
(* no trouble, the selected drive is exactly as far in the command as      *)
(* ide_read_sectors or ide_write_sectors is in its loop, and the other     *)
(* drive is idle; the registry has its devices in the first slots.         *)
THEOREM StorageInvariant == StorageSpec => []Inv
<1>1. StorageInit => Inv
  BY IdeInitInv, RegistryInitInv DEF StorageInit, Inv
<1>2. Inv /\ [StorageNext]_storageVars => Inv'
  BY StorageSteps, ChannelNext, RegistryNext DEF Inv
<1> QED
  BY <1>1, <1>2, PTL DEF StorageSpec

(* ide_read_sectors and ide_write_sectors, with 28-bit addresses, on idle  *)
(* drives and without time-outs or errors, move the sectors asked for, and *)
(* leave the drives idle: for registers of any width and any address and   *)
(* count.                                                                  *)
THEOREM CallsTransferAsAsked == StorageSpec => []TransfersAsAsked
<1>1. Inv => TransfersAsAsked
  BY CallMoved DEF Inv
<1> QED
  BY <1>1, StorageInvariant, PTL

(* storage_register_device and storage_unregister_device keep the filled   *)
(* slots together and free of dangling devices, for any number of slots.   *)
THEOREM RegistryConsistent == StorageSpec => []RegistryKept
<1>1. Inv => RegistryKept
  BY DEF Inv, RegistryInv
<1> QED
  BY <1>1, StorageInvariant, PTL

(* storage_unregister_device removes the device it frees and no other.     *)
THEOREM RemovalSparesOthers == StorageSpec => OnlyFreedLeave
<1> DEFINE Spared == num_devices' > 0 =>
             \A dev \in Devices : Registered(dev) /\ dev \in live' => Registered(dev)'
<1>1. Inv /\ [StorageNext]_storageVars => [Spared]_storageVars
  BY StorageSteps, RegistryNext DEF Inv
<1>2. [][Spared]_storageVars => OnlyFreedLeave
  BY PTL DEF Spared, OnlyFreedLeave
<1> QED
  BY <1>1, <1>2, StorageInvariant, PTL DEF StorageSpec

=============================================================================
