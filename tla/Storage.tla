------------------------------ MODULE Storage ------------------------------
(***************************************************************************)
(* The registry of drivers/storage/storage.c, the lifetimes of the devices *)
(* that ide_init_device makes and ide_cleanup_device frees, and the        *)
(* channel of Ide.                                                         *)
(*                                                                         *)
(* A device is the address of its structure, here one per drive; the same  *)
(* address is handed out again after it was freed.  The operations of the  *)
(* registry run between two calls of the driver, in the same thread, and   *)
(* the driver is called for allocated devices.                             *)
(***************************************************************************)
EXTENDS Ide

CONSTANT MAX_STORAGE_DEVICES  (* slots of the registry (16)                *)

ASSUME SlotsAssumption == MAX_STORAGE_DEVICES \in Nat \ {0}

NULL == 0
Device(slave) == slave + 1
Devices == {Device(slave) : slave \in Slaves}

VARIABLES
  devices,      (* the slots                                               *)
  num_devices,
  live,         (* the devices that are allocated                          *)
  twice         (* ghost: a device was registered while it already was     *)

registryVars == <<devices, num_devices, live, twice>>
storageVars == <<channelVars, registryVars>>

Slots == 1 .. MAX_STORAGE_DEVICES
Registered(dev) == \E i \in 1 .. num_devices : devices[i] = dev

StorageInit ==
  /\ IdeInit
  /\ devices = [i \in Slots |-> NULL]
  /\ num_devices = 0
  /\ live = {}
  /\ twice = FALSE

storage_init ==
  /\ devices' = [i \in Slots |-> NULL]
  /\ num_devices' = 0
  /\ UNCHANGED <<live, twice>>

(* Both structures are freed again when the drive does not identify itself *)
(* (ide_identify polls registers relative to the channel's that are not    *)
(* its own: either outcome is possible).                                   *)
ide_init_device(dev, identified) ==
  /\ dev \notin live
  /\ live' = IF identified THEN live \union {dev} ELSE live
  /\ UNCHANGED <<devices, num_devices, twice>>

(* initialised: the driver's init, if it has one, returned 0. *)
storage_register_device(dev, initialised) ==
  /\ dev \in live
  /\ IF num_devices < MAX_STORAGE_DEVICES /\ initialised
       THEN /\ devices' = [devices EXCEPT ![num_devices + 1] = dev]
            /\ num_devices' = num_devices + 1
            /\ twice' = (twice \/ Registered(dev))
       ELSE UNCHANGED <<devices, num_devices, twice>>
  /\ UNCHANGED live

(* It frees both structures of dev. *)
ide_cleanup_device(dev) == live' = live \ {dev}

(* Mutants of RemoveSlot: the last slot is not cleared; the shift starts a *)
(* slot too late.                                                          *)
RemoveKeepsLast(i) ==
  [j \in Slots |-> IF i <= j /\ j < num_devices THEN devices[j + 1] ELSE devices[j]]

RemoveShiftsLate(i) ==
  [j \in Slots |-> IF j = num_devices THEN NULL
                   ELSE IF i < j /\ j < num_devices THEN devices[j + 1]
                   ELSE devices[j]]

RemoveSlot(i) ==
  [j \in Slots |-> IF j = num_devices THEN NULL
                   ELSE IF i <= j /\ j < num_devices THEN devices[j + 1]
                   ELSE devices[j]]

(* The first slot of dev: its driver's cleanup runs, then the other slots  *)
(* move up.  A device that is not registered is left alone.  (The message  *)
(* at the end prints dev->info.name, which cleanup has freed: what it      *)
(* prints is undefined, and no state depends on it.)                       *)
storage_unregister_device(dev) ==
  /\ IF Registered(dev)
       THEN LET i == CHOOSE k \in 1 .. num_devices :
                       devices[k] = dev /\ \A j \in 1 .. k - 1 : devices[j] # dev
            IN /\ ide_cleanup_device(dev)
               /\ devices' = RemoveSlot(i)
               /\ num_devices' = num_devices - 1
       ELSE UNCHANGED <<devices, num_devices, live>>
  /\ UNCHANGED twice

RegistryStep ==
  \/ storage_init
  \/ \E dev \in Devices, ok \in BOOLEAN : ide_init_device(dev, ok)
  \/ \E dev \in Devices, ok \in BOOLEAN : storage_register_device(dev, ok)
  \/ \E dev \in Devices : storage_unregister_device(dev)

CallsAllocated ==
  call.pc = "idle" /\ call'.pc # "idle" => Device(call'.slave) \in live

StorageNext ==
  \/ IdeNext /\ CallsAllocated /\ UNCHANGED registryVars
  \/ call.pc = "idle" /\ RegistryStep /\ UNCHANGED channelVars

(* The driver's polling loops are bounded; nothing is assumed of drives or *)
(* callers.                                                                *)
StorageSpec ==
  /\ StorageInit /\ [][StorageNext]_storageVars
  /\ WF_storageVars(DriverStep /\ UNCHANGED registryVars)

-----------------------------------------------------------------------------
(* Properties.                                                             *)

Asked == [i \in 1 .. call.count |-> <<call.slave, call.lba + i - 1>>]

(* A call with 28-bit addresses that finds the drives idle and meets no     *)
(* time-out and no error moves exactly the sectors it was asked for, of     *)
(* the drive it was asked for and in order, although ide_read_sectors waits *)
(* for a drive that is not busy and tests neither DRQ nor the error bit.    *)
(* (Counts of a whole register and more, and addresses that the registers   *)
(* cannot hold, are cut off.)  It leaves both drives idle for the next      *)
(* call: it is the wait after the flush that makes this true of a write.    *)
TransfersAsAsked ==
  call.pc = "done" /\ call.clean /\ ~call.trouble /\ ~lba48[call.slave] =>
    /\ call.ret = 0 /\ call.count < BYTE /\ call.lba + call.count <= CHANNEL_BITS
         => call.moved = Asked
    /\ \A d \in Slaves : drives[d].phase = "idle"

(* Every call returns, whatever the drives do: no wait is unbounded.        *)
CallsReturn == (call.pc \notin {"idle", "done"}) ~> (call.pc = "done")

(* The filled slots are the first num_devices ones, as storage_probe_devices *)
(* and the list functions assume, and, as long as no device was registered   *)
(* twice, hold allocated devices, each in one slot: nothing dangles after    *)
(* storage_unregister_device has freed a device and shifted the rest.        *)
RegistryKept ==
  /\ \A i \in Slots : devices[i] # NULL <=> i <= num_devices
  /\ ~twice => \A i \in 1 .. num_devices :
                 /\ devices[i] \in live
                 /\ \A j \in 1 .. i - 1 : devices[j] # devices[i]

(* A device leaves the registry only when it is freed, or with all others    *)
(* in storage_init: removing one device never drops another.                 *)
OnlyFreedLeave ==
  [][num_devices' > 0 =>
       \A dev \in Devices : Registered(dev) /\ dev \in live' => Registered(dev)']_storageVars

=============================================================================
