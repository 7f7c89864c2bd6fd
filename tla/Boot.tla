------------------------------- MODULE Boot -------------------------------
(***************************************************************************)
(* From the device tree to the first transfer: the two readers, the probe  *)
(* of init_virtio_backend, init_virtio_driver and init_queue, and kmain's  *)
(* first block_write.  The device is a virtio-mmio transport of version 2; *)
(* another system may have used it before, as nothing but the driver's own *)
(* first write resets it.                                                  *)
(***************************************************************************)
EXTENDS DeviceTree

CONSTANTS Transports,  \* transports in the window: 32
          Step,        \* distance of their registers: 0x200
          Block        \* bytes add_virtio_page maps: 2 MB

ASSUME BootAssumption == Transports \in Nat \ {0}

VARIABLES pc,          \* the statement init_virtio_backend and its callees are at
          slots,       \* what is behind each transport
          offered,     \* the upper features the device offers
          QueueNumMax, \* of its queue 0
          regs,        \* its registers
          index,       \* the transport the probe looks at, then the one chosen
          served       \* the device has carried out the first request

dvars == <<pc, slots, offered, QueueNumMax, regs, index, served>>
bvars == <<tvars, dvars>>

\* Another magic or an older version; no device; a disk; a device that is none.
SlotKinds == {"invalid", "empty", "blk", "other"}
Size  == 12
Rings == "rings of this boot"
Stale == "rings of an earlier system"
None  == "none"

\* Registers after a reset, and as an earlier driver left them.
ResetRegs ==
    [status |-> {}, ready |-> FALSE, num |-> 0, rings |-> None,
     low |-> {}, high |-> {}]
UsedRegs ==
    [status |-> {"ACK", "DRIVER", "FEATURES_OK", "DRIVER_OK"}, ready |-> TRUE,
     num |-> 8, rings |-> Stale, low |-> {"FLUSH"}, high |-> {"VERSION_1"}]

BootInit ==
    /\ TreeInit
    /\ pc = "tree"
    /\ slots = << >>
    /\ offered = {}
    /\ QueueNumMax = 0
    /\ regs = ResetRegs
    /\ index = 0
    /\ served = FALSE

Goto(a, b) == pc = a /\ pc' = b
KeepMachine == UNCHANGED <<tvars, slots, offered, QueueNumMax>>

\* The device. A status of 0 resets it; it leaves FEATURES_OK out when the
\* driver takes what it does not offer, or not VERSION_1.
WriteStatus(s) ==
    regs' = IF s = {} THEN ResetRegs
            ELSE [regs EXCEPT !.status =
                     IF regs.high \subseteq offered /\ "VERSION_1" \in regs.high
                     THEN s ELSE s \ {"FEATURES_OK"}]

\* The tree is read; init_virtio_backend maps the window. The machine's
\* transports are given here, as nothing looked at them before.
StartProbe ==
    /\ reader = "done" /\ Goto("tree", "probe")
    /\ slots' \in [0 .. Transports - 1 -> SlotKinds]
    /\ offered' \in {{"VERSION_1"}, {"VERSION_1", "RING_PACKED"}, {}}
    /\ QueueNumMax' \in {0, 1024}
    /\ regs' \in {ResetRegs, UsedRegs}
    /\ tree' = Unread
    /\ UNCHANGED <<reader, p, inside, total_ram, info, index, served>>

\* The window starts where the tree's transport is, not at its 2 MB block.
Behind_FromListed(i) ==
    LET t == (info.address % Block) \div Step + i
    IN  IF info.address \div Block = 1 /\ t \in DOMAIN slots
        THEN slots[t] ELSE "invalid"

\* What the driver sees at VIRTIO_REG_RANGE + i * 0x200: the hardware maps the
\* whole block around the address of the tree. The transports fill the start
\* of the second block of the address space.
Behind(i) ==
    IF info.address \div Block = 1 /\ i \in DOMAIN slots THEN slots[i] ELSE "invalid"

\* check_virtio_driver wants the magic, version 2 and a device id that is not 0:
\* any device will do.
Accepted(i) == Behind(i) \in {"blk", "other"}

\* One round of the loop.
Probe ==
    /\ pc = "probe"
    /\ IF Accepted(index) THEN pc' = "reset" /\ UNCHANGED index
       ELSE IF index = Transports - 1 THEN pc' = "no device" /\ UNCHANGED index
       ELSE index' = index + 1 /\ UNCHANGED pc
    /\ KeepMachine /\ UNCHANGED <<regs, served>>

-----------------------------------------------------------------------------
\* The status is left as it was.
Reset_Left ==
    /\ Goto("reset", "driver")
    /\ KeepMachine /\ UNCHANGED <<regs, index, served>>

\* init_virtio_driver
Reset ==
    /\ Goto("reset", "driver")
    /\ WriteStatus({})
    /\ KeepMachine /\ UNCHANGED <<index, served>>

\* ACK, then ACK and DRIVER: the device sees the second last.
Acknowledge ==
    /\ Goto("driver", "features")
    /\ WriteStatus({"ACK", "DRIVER"})
    /\ KeepMachine /\ UNCHANGED <<index, served>>

\* All lower features offered; of the upper ones, VERSION_1 alone.
Negotiate ==
    /\ Goto("features", "features_ok")
    /\ regs' = [regs EXCEPT !.low = {"FLUSH"}, !.high = {"VERSION_1"}]
    /\ KeepMachine /\ UNCHANGED <<index, served>>

\* Whether the device kept FEATURES_OK is printed only.
FeaturesOk ==
    /\ Goto("features_ok", "queue")
    /\ WriteStatus(regs.status \cup {"FEATURES_OK"})
    /\ KeepMachine /\ UNCHANGED <<index, served>>

\* init_queue gives up when the queue is in use or there is none.
InitQueue ==
    /\ pc = "queue"
    /\ pc' = IF regs.ready \/ QueueNumMax = 0 THEN "driver_ok" ELSE "num"
    /\ KeepMachine /\ UNCHANGED <<regs, index, served>>

QueueNum ==
    /\ Goto("num", "rings")
    /\ regs' = [regs EXCEPT !.num = Size]
    /\ KeepMachine /\ UNCHANGED <<index, served>>

InitVirtioRegisters ==
    /\ Goto("rings", "ready")
    /\ regs' = [regs EXCEPT !.rings = Rings]
    /\ KeepMachine /\ UNCHANGED <<index, served>>

QueueReady ==
    /\ Goto("ready", "driver_ok")
    /\ regs' = [regs EXCEPT !.ready = TRUE]
    /\ KeepMachine /\ UNCHANGED <<index, served>>

DriverOk ==
    /\ Goto("driver_ok", "io")
    /\ WriteStatus(regs.status \cup {"DRIVER_OK"})
    /\ KeepMachine /\ UNCHANGED <<index, served>>

\* kmain's first block_write notifies the device, which carries it out if it is
\* a disk and its queue is up; otherwise block_write polls the used ring for
\* ever. Without a device it notifies whatever lies at the base nobody set.
\* The driver's rings are split ones.
Live ==
    /\ {"FEATURES_OK", "DRIVER_OK"} \subseteq regs.status
    /\ "RING_PACKED" \notin regs.high
    /\ regs.ready

FirstTransfer ==
    /\ pc = "io" /\ Live /\ Behind(index) = "blk" /\ ~served
    /\ served' = TRUE
    /\ KeepMachine /\ UNCHANGED <<pc, regs, index>>

BootNext ==
    \/ TreeNext /\ UNCHANGED dvars
    \/ StartProbe \/ Probe
    \/ Reset \/ Acknowledge \/ Negotiate \/ FeaturesOk
    \/ InitQueue \/ QueueNum \/ InitVirtioRegisters \/ QueueReady
    \/ DriverOk \/ FirstTransfer

\* One processor runs kmain and nothing preempts it: interrupts are masked.
BootSpec == BootInit /\ [][BootNext]_bvars /\ WF_bvars(BootNext)

-----------------------------------------------------------------------------
\* Once the driver has chosen a device, that device is not on rings that are not
\* the driver's: its queue is ready only with all its registers written by this
\* boot, whatever an earlier system left in it. The driver does not read
\* FEATURES_OK back: the queue is made ready whether or not features are agreed.
LiveQueueIsOurs ==
    pc \notin {"tree", "probe", "no device", "reset"} /\ regs.ready =>
        regs.rings = Rings /\ regs.num = Size

\* A machine whose tree lists a transport, and whose first device is a disk that
\* agrees to VERSION_1 and has a queue, carries out the first transfer, whichever
\* of its transports the tree lists first and whatever an earlier system left in
\* the registers. A device of another kind before the disk would be taken for it.
Usable ==
    /\ pc # "tree"
    /\ info.address \in Addresses
    /\ "VERSION_1" \in offered
    /\ QueueNumMax > 0
    /\ \E i \in DOMAIN slots :
          slots[i] = "blk" /\ \A j \in 0 .. i - 1 : slots[j] \in {"invalid", "empty"}

FirstTransferServed == Usable ~> served
=============================================================================
