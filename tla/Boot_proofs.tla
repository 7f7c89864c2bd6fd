---------------------------- MODULE Boot_proofs ----------------------------
(***************************************************************************)
(* Proofs about Boot.tla: the probe and the device set-up, for any number  *)
(* of transports, any device behind each and any registers an earlier      *)
(* system left; then the readers of DeviceTree.tla, for trees of any size, *)
(* words of any width and transports at any addresses.                     *)
(***************************************************************************)
EXTENDS Boot, WellFoundedInduction, TLAPS

Agreed == {"queue", "num", "rings", "ready", "driver_ok", "io"}
SetUp  == {"driver", "features", "features_ok"} \cup Agreed
Chosen == {"reset"} \cup SetUp

StatusBits == {"ACK", "DRIVER", "FEATURES_OK", "DRIVER_OK"}
Registers ==
    [status : SUBSET StatusBits, ready : BOOLEAN, num : {0, 8, Size},
     rings : {None, Stale, Rings}, low : SUBSET {"FLUSH"}, high : SUBSET {"VERSION_1"}]

\* The tree is read before the probe, and the probe stays within the window.
ProbeTyped ==
    /\ pc \in {"tree", "probe", "no device"} \cup Chosen
    /\ pc # "tree" => reader = "done" /\ DOMAIN slots = 0 .. Transports - 1
    /\ index \in 0 .. Transports - 1
    /\ QueueNumMax \in Nat
    /\ regs \in Registers
    /\ pc = "tree" => index = 0

\* No transport that was passed over has a device, and the one chosen has.
ProbeFindsFirst ==
    /\ pc = "probe" => \A i \in 0 .. index - 1 : ~Accepted(i)
    /\ pc = "no device" => \A i \in 0 .. Transports - 1 : ~Accepted(i)
    /\ pc \in Chosen =>
          Accepted(index) /\ \A i \in 0 .. index - 1 : ~Accepted(i)

\* The queue's registers are written before it is made ready, and nothing else
\* makes it ready once the device is reset.
QueueWritten ==
    /\ pc \in SetUp \ {"driver_ok", "io"} => ~regs.ready
    /\ pc \in {"rings", "ready"} => regs.num = Size
    /\ pc = "ready" => regs.rings = Rings
    /\ pc \in {"driver_ok", "io"} /\ regs.ready => regs.num = Size /\ regs.rings = Rings
    /\ pc \in {"num", "rings", "ready"} => QueueNumMax > 0
    /\ pc \in {"driver_ok", "io"} => (regs.ready <=> QueueNumMax > 0)

\* What the driver and the device agreed to: VERSION_1 or nothing.
FeaturesAgreed ==
    /\ pc \in {"features_ok"} \cup Agreed => regs.high = {"VERSION_1"}
    /\ pc \in Agreed => ("FEATURES_OK" \in regs.status <=> "VERSION_1" \in offered)
    /\ pc = "io" => "DRIVER_OK" \in regs.status

\* A transfer is carried out by a disk that is up only.
ServedLive == served => pc = "io" /\ Live /\ Behind(index) = "blk"

PInv == ProbeTyped /\ ProbeFindsFirst /\ QueueWritten /\ FeaturesAgreed /\ ServedLive

\* The driver talks to the first device of the window, of whatever kind, and to
\* nothing else, and finds none only where there is none.
FirstDeviceChosen ==
    /\ pc = "no device" => \A i \in 0 .. Transports - 1 : ~Accepted(i)
    /\ pc \in Chosen =>
          /\ Accepted(index)
          /\ \A i \in 0 .. Transports - 1 : Accepted(i) => index <= i

\* The safety half of FirstTransferServed: a usable disk in the window the tree
\* points to is never passed over, nor another device taken for it, nor waited for
\* in vain.
UsableNeverStuck ==
    Usable /\ info.address \div Block = 1 =>
        pc # "no device" /\ (pc = "io" => Live /\ Behind(index) = "blk")

\* At the first block_write the device is up exactly when it took VERSION_1 and has
\* a queue, and only such a device, if it is a disk, carries out a transfer.
UpWhenItAgreed ==
    /\ pc = "io" => (Live <=> "VERSION_1" \in offered /\ QueueNumMax > 0)
    /\ served => "VERSION_1" \in offered /\ QueueNumMax > 0 /\ Behind(index) = "blk"

-----------------------------------------------------------------------------
(* The steps of the probe and of the set-up. *)

\* Once get_drive_info has returned, nothing reads the tree.
LEMMA ReadersDone == TreeNext => reader # "done"
  <1>1. GetTotalRam => reader = "ram"
    BY DEF GetTotalRam, At, RamReg, RamEnd
  <1>2. GetDriveInfo => reader = "drive"
    BY DEF GetDriveInfo, At, DriveReg, DriveProp, DriveSkip, DriveEnd
  <1>3. QED
    BY <1>1, <1>2 DEF TreeNext

\* What the registers can hold when the driver meets them.
LEMMA KnownRegisters == {ResetRegs, UsedRegs} \subseteq Registers
  BY DEF Registers, ResetRegs, UsedRegs, StatusBits, None

\* kmain starts with the tree.
LEMMA InitInvariant == BootInit => PInv
  <1> SUFFICES ASSUME BootInit PROVE PInv
    OBVIOUS
  <1>1. /\ pc = "tree" /\ index = 0 /\ QueueNumMax = 0 /\ ~served
        /\ pc \notin {"probe", "no device"} \cup Chosen
    BY DEF BootInit, Chosen, SetUp, Agreed
  <1>2. 0 \in 0 .. Transports - 1
    BY BootAssumption
  <1>3. ProbeTyped
    <2>1. regs \in Registers
      BY KnownRegisters DEF BootInit
    <2>2. QED
      BY <1>1, <1>2, <2>1 DEF ProbeTyped
  <1>4. ProbeFindsFirst /\ QueueWritten /\ FeaturesAgreed /\ ServedLive
    BY <1>1 DEF ProbeFindsFirst, QueueWritten, FeaturesAgreed, ServedLive, Chosen, SetUp, Agreed
  <1>5. QED
    BY <1>3, <1>4 DEF PInv

\* While the tree is read, no transport is touched.
LEMMA ReadInvariant == PInv /\ TreeNext /\ UNCHANGED dvars => PInv'
  <1> SUFFICES ASSUME PInv, TreeNext, UNCHANGED dvars PROVE PInv'
    OBVIOUS
  <1>1. pc = "tree"
    BY ReadersDone DEF PInv, ProbeTyped
  <1>2. ~served
    BY <1>1 DEF PInv, ServedLive
  <1>3. UNCHANGED <<pc, slots, offered, QueueNumMax, regs, index, served>>
    BY DEF dvars
  <1>4. ProbeTyped'
    BY <1>1, <1>3 DEF PInv, ProbeTyped
  <1>5. ProbeFindsFirst' /\ QueueWritten' /\ FeaturesAgreed' /\ ServedLive'
    BY <1>1, <1>2, <1>3 DEF ProbeFindsFirst, QueueWritten, FeaturesAgreed, ServedLive, Chosen,
       SetUp, Agreed
  <1>6. QED
    BY <1>4, <1>5 DEF PInv

\* The probe starts at the first transport of the window.
LEMMA StartProbeInvariant == PInv /\ StartProbe => PInv'
  <1> SUFFICES ASSUME PInv, StartProbe PROVE PInv'
    OBVIOUS
  <1>1. /\ pc = "tree" /\ pc' = "probe" /\ reader' = "done" /\ UNCHANGED <<index, served>>
        /\ QueueNumMax' \in {0, 1024} /\ regs' \in Registers
        /\ DOMAIN slots' = 0 .. Transports - 1
    BY KnownRegisters DEF StartProbe, Goto
  <1>2. index = 0 /\ ~served
    BY <1>1 DEF PInv, ProbeTyped, ServedLive
  <1>3. ProbeTyped'
    BY <1>1 DEF PInv, ProbeTyped
  <1>4. ProbeFindsFirst'
    BY <1>1, <1>2 DEF ProbeFindsFirst, Chosen, SetUp, Agreed
  <1>5. QueueWritten' /\ FeaturesAgreed' /\ ServedLive'
    BY <1>1, <1>2 DEF QueueWritten, FeaturesAgreed, ServedLive, SetUp, Agreed
  <1>6. QED
    BY <1>3, <1>4, <1>5 DEF PInv

\* A round of the loop finds a device, or passes a transport over that has none.
LEMMA ProbeInvariant == PInv /\ Probe => PInv'
  <1> SUFFICES ASSUME PInv, Probe PROVE PInv'
    OBVIOUS
  <1>1. /\ pc = "probe" /\ UNCHANGED <<reader, info, slots, QueueNumMax, regs, served>>
        /\ \A i : Accepted(i)' = Accepted(i)
    BY DEF Probe, KeepMachine, tvars, Behind, Accepted
  <1>2. /\ index \in 0 .. Transports - 1 /\ QueueNumMax \in Nat /\ reader = "done" /\ ~served
        /\ DOMAIN slots = 0 .. Transports - 1 /\ regs \in Registers
        /\ \A i \in 0 .. index - 1 : ~Accepted(i)
    BY <1>1 DEF PInv, ProbeTyped, ProbeFindsFirst, ServedLive
  <1>3. \/ Accepted(index) /\ pc' = "reset" /\ index' = index
        \/ ~Accepted(index) /\ index = Transports - 1 /\ pc' = "no device" /\ index' = index
        \/ ~Accepted(index) /\ index # Transports - 1 /\ pc' = pc /\ index' = index + 1
    BY DEF Probe
  <1>4. ProbeTyped' /\ ProbeFindsFirst'
    <2>1. CASE Accepted(index) /\ pc' = "reset" /\ index' = index
      BY <1>1, <1>2, <2>1 DEF ProbeTyped, ProbeFindsFirst, Chosen, SetUp, Agreed
    <2>2. CASE /\ ~Accepted(index) /\ index = Transports - 1 /\ pc' = "no device"
               /\ index' = index
      <3>1. \A i \in 0 .. Transports - 1 : ~Accepted(i)
        <4>1. index \in Int /\ \A i \in 0 .. index : i \in 0 .. index - 1 \/ i = index
          BY <1>2
        <4>2. QED
          BY <1>2, <2>2, <4>1
      <3>2. QED
        BY <1>1, <1>2, <2>2, <3>1 DEF ProbeTyped, ProbeFindsFirst, Chosen, SetUp, Agreed
    <2>3. CASE /\ ~Accepted(index) /\ index # Transports - 1 /\ pc' = pc
               /\ index' = index + 1
      <3>1. \A i \in 0 .. index' - 1 : ~Accepted(i)
        BY <1>2, <2>3
      <3>2. index' \in 0 .. Transports - 1
        BY <1>2, <2>3, BootAssumption
      <3>3. QED
        BY <1>1, <1>2, <2>3, <3>1, <3>2
           DEF ProbeTyped, ProbeFindsFirst, Chosen, SetUp, Agreed
    <2>4. QED
      BY <1>3, <2>1, <2>2, <2>3
  <1>5. QueueWritten' /\ FeaturesAgreed' /\ ServedLive'
    <2>1. pc' \in {"probe", "reset", "no device"}
      BY <1>1, <1>3
    <2>2. QED
      BY <1>1, <1>2, <2>1 DEF QueueWritten, FeaturesAgreed, ServedLive, SetUp, Agreed
  <1>6. QED
    BY <1>4, <1>5 DEF PInv

\* From the reset on, a step of init_virtio_driver keeps the transport chosen.
LEMMA SetUpKeeps ==
  ASSUME PInv, KeepMachine, UNCHANGED index, regs' \in Registers,
         pc \in Chosen, pc' \in Chosen
  PROVE  ProbeTyped' /\ ProbeFindsFirst'
  <1>1. /\ UNCHANGED <<reader, info, slots, QueueNumMax, index>>
        /\ \A i : Behind(i)' = Behind(i)
        /\ \A i : Accepted(i)' = Accepted(i)
    BY DEF KeepMachine, tvars, Behind, Accepted
  <1>2. pc' \notin {"tree", "probe", "no device"} /\ pc # "tree"
    BY DEF Chosen, SetUp, Agreed
  <1>3. ProbeTyped'
    BY <1>1, <1>2 DEF PInv, ProbeTyped
  <1>4. ProbeFindsFirst'
    BY <1>1, <1>2 DEF PInv, ProbeFindsFirst
  <1>5. QED
    BY <1>3, <1>4

\* A write of the status register changes nothing but the status, unless it is a
\* reset, and leaves FEATURES_OK out when VERSION_1 was not agreed.
LEMMA StatusWritten ==
  ASSUME regs \in Registers, NEW s \in SUBSET StatusBits, s # {}, WriteStatus(s)
  PROVE  /\ regs' \in Registers
         /\ regs'.ready = regs.ready /\ regs'.num = regs.num /\ regs'.rings = regs.rings
         /\ regs'.high = regs.high
         /\ regs'.status = IF regs.high \subseteq offered /\ "VERSION_1" \in regs.high
                           THEN s ELSE s \ {"FEATURES_OK"}
  <1> DEFINE left == IF regs.high \subseteq offered /\ "VERSION_1" \in regs.high
                     THEN s ELSE s \ {"FEATURES_OK"}
  <1>1. regs' = [regs EXCEPT !.status = left]
    BY DEF WriteStatus
  <1>2. left \in SUBSET StatusBits
    OBVIOUS
  <1> HIDE DEF left
  <1>3. /\ regs' \in Registers /\ regs'.status = left
        /\ regs'.ready = regs.ready /\ regs'.num = regs.num /\ regs'.rings = regs.rings
        /\ regs'.high = regs.high
    BY <1>1, <1>2 DEF Registers
  <1>4. QED
    BY <1>3 DEF left

\* A reset leaves nothing of an earlier system.
LEMMA ResetInvariant == PInv /\ Reset => PInv'
  <1> SUFFICES ASSUME PInv, Reset PROVE PInv'
    OBVIOUS
  <1>1. /\ pc = "reset" /\ pc' = "driver" /\ KeepMachine /\ UNCHANGED <<index, served>>
        /\ regs' = ResetRegs
    BY DEF Reset, Goto, WriteStatus
  <1>2. regs' \in Registers /\ ~regs'.ready
    BY <1>1 DEF Registers, ResetRegs, None
  <1>3. ~served
    BY <1>1 DEF PInv, ServedLive
  <1>4. ProbeTyped' /\ ProbeFindsFirst'
    BY <1>1, <1>2, SetUpKeeps DEF Chosen, SetUp, Agreed
  <1>5. QueueWritten' /\ FeaturesAgreed' /\ ServedLive'
    BY <1>1, <1>2, <1>3 DEF QueueWritten, FeaturesAgreed, ServedLive, SetUp, Agreed
  <1>6. QED
    BY <1>4, <1>5 DEF PInv

\* Up to FEATURES_OK the queue is not touched.
LEMMA HandshakeInvariant == PInv /\ (Acknowledge \/ Negotiate \/ FeaturesOk) => PInv'
  <1> SUFFICES ASSUME PInv, Acknowledge \/ Negotiate \/ FeaturesOk PROVE PInv'
    OBVIOUS
  <1>1. /\ pc \in {"driver", "features", "features_ok"} /\ KeepMachine
        /\ UNCHANGED <<index, served, offered>>
    BY DEF Acknowledge, Negotiate, FeaturesOk, Goto, KeepMachine
  <1>2. regs \in Registers /\ ~regs.ready /\ ~served
    BY <1>1 DEF PInv, ProbeTyped, QueueWritten, ServedLive, SetUp, Agreed
  <1>3. CASE Acknowledge
    <2>1. pc' = "features" /\ WriteStatus({"ACK", "DRIVER"})
      BY <1>3 DEF Acknowledge, Goto
    <2>2. regs' \in Registers /\ regs'.ready = regs.ready
      BY <1>2, <2>1, StatusWritten DEF StatusBits
    <2>3. ProbeTyped' /\ ProbeFindsFirst'
      BY <1>1, <2>1, <2>2, SetUpKeeps DEF Chosen, SetUp, Agreed
    <2>4. QueueWritten' /\ FeaturesAgreed' /\ ServedLive'
      BY <1>1, <1>2, <2>1, <2>2 DEF QueueWritten, FeaturesAgreed, ServedLive, SetUp, Agreed
    <2>5. QED
      BY <2>3, <2>4 DEF PInv
  <1>4. CASE Negotiate
    <2>1. /\ pc' = "features_ok"
          /\ regs' = [regs EXCEPT !.low = {"FLUSH"}, !.high = {"VERSION_1"}]
      BY <1>4 DEF Negotiate, Goto
    <2>2. regs' \in Registers /\ regs'.ready = regs.ready /\ regs'.high = {"VERSION_1"}
      BY <1>2, <2>1 DEF Registers
    <2>3. ProbeTyped' /\ ProbeFindsFirst'
      BY <1>1, <2>1, <2>2, SetUpKeeps DEF Chosen, SetUp, Agreed
    <2>4. QueueWritten' /\ FeaturesAgreed' /\ ServedLive'
      BY <1>1, <1>2, <2>1, <2>2 DEF QueueWritten, FeaturesAgreed, ServedLive, SetUp, Agreed
    <2>5. QED
      BY <2>3, <2>4 DEF PInv
  <1>5. CASE FeaturesOk
    <2>1. /\ pc = "features_ok" /\ pc' = "queue"
          /\ WriteStatus(regs.status \cup {"FEATURES_OK"})
      BY <1>5 DEF FeaturesOk, Goto
    <2>2. regs.high = {"VERSION_1"} /\ regs.status \in SUBSET StatusBits
      BY <1>2, <2>1 DEF PInv, FeaturesAgreed, Registers
    <2>3. /\ regs' \in Registers /\ regs'.ready = regs.ready /\ regs'.high = {"VERSION_1"}
          /\ "FEATURES_OK" \in regs'.status <=> "VERSION_1" \in offered
      <3> DEFINE s == regs.status \cup {"FEATURES_OK"}
      <3>1. s \in SUBSET StatusBits /\ s # {}
        BY <2>2 DEF StatusBits
      <3> HIDE DEF s
      <3>2. WriteStatus(s)
        BY <2>1 DEF s
      <3>3. "FEATURES_OK" \in s
        BY DEF s
      <3>4. /\ regs' \in Registers /\ regs'.ready = regs.ready /\ regs'.high = regs.high
            /\ regs'.status = IF regs.high \subseteq offered /\ "VERSION_1" \in regs.high
                              THEN s ELSE s \ {"FEATURES_OK"}
        BY <1>2, <3>1, <3>2, StatusWritten
      <3>5. QED
        BY <2>2, <3>3, <3>4
    <2>4. ProbeTyped' /\ ProbeFindsFirst'
      BY <1>1, <2>1, <2>3, SetUpKeeps DEF Chosen, SetUp, Agreed
    <2>5. QueueWritten' /\ FeaturesAgreed' /\ ServedLive'
      BY <1>1, <1>2, <2>1, <2>3 DEF QueueWritten, FeaturesAgreed, ServedLive, SetUp, Agreed
    <2>6. QED
      BY <2>4, <2>5 DEF PInv
  <1>6. QED
    BY <1>3, <1>4, <1>5

\* init_queue writes the number and the rings, then makes the queue ready; it gives
\* up only on a device without a queue, as the reset left none in use.
LEMMA QueueInvariant ==
  PInv /\ (InitQueue \/ QueueNum \/ InitVirtioRegisters \/ QueueReady) => PInv'
  <1> SUFFICES ASSUME PInv, InitQueue \/ QueueNum \/ InitVirtioRegisters \/ QueueReady
               PROVE  PInv'
    OBVIOUS
  <1>1. /\ pc \in {"queue", "num", "rings", "ready"} /\ KeepMachine
        /\ UNCHANGED <<index, served, offered, QueueNumMax>>
    BY DEF InitQueue, QueueNum, InitVirtioRegisters, QueueReady, Goto, KeepMachine
  <1>2. /\ regs \in Registers /\ ~regs.ready /\ ~served /\ QueueNumMax \in Nat
        /\ regs.high = {"VERSION_1"}
        /\ "FEATURES_OK" \in regs.status <=> "VERSION_1" \in offered
    BY <1>1 DEF PInv, ProbeTyped, QueueWritten, FeaturesAgreed, ServedLive, SetUp, Agreed
  <1>3. CASE InitQueue
    <2>1. /\ regs' = regs
          /\ pc' = IF QueueNumMax = 0 THEN "driver_ok" ELSE "num"
      BY <1>2, <1>3 DEF InitQueue
    <2>2. ProbeTyped' /\ ProbeFindsFirst'
      BY <1>1, <1>2, <2>1, SetUpKeeps DEF Chosen, SetUp, Agreed
    <2>3. QueueWritten' /\ FeaturesAgreed' /\ ServedLive'
      BY <1>1, <1>2, <2>1 DEF QueueWritten, FeaturesAgreed, ServedLive, SetUp, Agreed
    <2>4. QED
      BY <2>2, <2>3 DEF PInv
  <1>4. CASE QueueNum
    <2>1. pc = "num" /\ pc' = "rings" /\ regs' = [regs EXCEPT !.num = Size]
      BY <1>4 DEF QueueNum, Goto
    <2>2. /\ regs' \in Registers /\ regs'.ready = regs.ready /\ regs'.high = regs.high
          /\ regs'.status = regs.status /\ regs'.num = Size
      BY <1>2, <2>1 DEF Registers
    <2>3. ProbeTyped' /\ ProbeFindsFirst'
      BY <1>1, <2>1, <2>2, SetUpKeeps DEF Chosen, SetUp, Agreed
    <2>4. QueueNumMax > 0
      BY <2>1 DEF PInv, QueueWritten
    <2>5. QueueWritten' /\ FeaturesAgreed' /\ ServedLive'
      BY <1>1, <1>2, <2>1, <2>2, <2>4
         DEF QueueWritten, FeaturesAgreed, ServedLive, SetUp, Agreed
    <2>6. QED
      BY <2>3, <2>5 DEF PInv
  <1>5. CASE InitVirtioRegisters
    <2>1. pc = "rings" /\ pc' = "ready" /\ regs' = [regs EXCEPT !.rings = Rings]
      BY <1>5 DEF InitVirtioRegisters, Goto
    <2>2. /\ regs' \in Registers /\ regs'.ready = regs.ready /\ regs'.high = regs.high
          /\ regs'.status = regs.status /\ regs'.num = regs.num /\ regs'.rings = Rings
      BY <1>2, <2>1 DEF Registers
    <2>3. ProbeTyped' /\ ProbeFindsFirst'
      BY <1>1, <2>1, <2>2, SetUpKeeps DEF Chosen, SetUp, Agreed
    <2>4. QueueNumMax > 0 /\ regs.num = Size
      BY <2>1 DEF PInv, QueueWritten
    <2>5. QueueWritten' /\ FeaturesAgreed' /\ ServedLive'
      BY <1>1, <1>2, <2>1, <2>2, <2>4
         DEF QueueWritten, FeaturesAgreed, ServedLive, SetUp, Agreed
    <2>6. QED
      BY <2>3, <2>5 DEF PInv
  <1>6. CASE QueueReady
    <2>1. pc = "ready" /\ pc' = "driver_ok" /\ regs' = [regs EXCEPT !.ready = TRUE]
      BY <1>6 DEF QueueReady, Goto
    <2>2. /\ regs' \in Registers /\ regs'.ready /\ regs'.high = regs.high
          /\ regs'.status = regs.status /\ regs'.num = regs.num /\ regs'.rings = regs.rings
      BY <1>2, <2>1 DEF Registers
    <2>3. ProbeTyped' /\ ProbeFindsFirst'
      BY <1>1, <2>1, <2>2, SetUpKeeps DEF Chosen, SetUp, Agreed
    <2>4. QueueNumMax > 0 /\ regs.num = Size /\ regs.rings = Rings
      BY <2>1 DEF PInv, QueueWritten
    <2>5. QueueWritten' /\ FeaturesAgreed' /\ ServedLive'
      BY <1>1, <1>2, <2>1, <2>2, <2>4
         DEF QueueWritten, FeaturesAgreed, ServedLive, SetUp, Agreed
    <2>6. QED
      BY <2>3, <2>5 DEF PInv
  <1>7. QED
    BY <1>3, <1>4, <1>5, <1>6

\* With DRIVER_OK the disk is up, if it agreed; block_write finds it so.
LEMMA StartInvariant == PInv /\ (DriverOk \/ FirstTransfer) => PInv'
  <1> SUFFICES ASSUME PInv, DriverOk \/ FirstTransfer PROVE PInv'
    OBVIOUS
  <1>1. CASE DriverOk
    <2>1. /\ pc = "driver_ok" /\ pc' = "io" /\ KeepMachine /\ UNCHANGED <<index, served>>
          /\ UNCHANGED <<offered, QueueNumMax>>
          /\ WriteStatus(regs.status \cup {"DRIVER_OK"})
      BY <1>1 DEF DriverOk, Goto, KeepMachine
    <2>2. /\ regs \in Registers /\ ~served /\ regs.high = {"VERSION_1"}
          /\ "FEATURES_OK" \in regs.status <=> "VERSION_1" \in offered
          /\ regs.ready => regs.num = Size /\ regs.rings = Rings
          /\ regs.ready <=> QueueNumMax > 0
      BY <2>1 DEF PInv, ProbeTyped, QueueWritten, FeaturesAgreed, ServedLive, SetUp, Agreed
    <2>3. /\ regs' \in Registers /\ regs'.ready = regs.ready /\ regs'.high = regs.high
          /\ regs'.num = regs.num /\ regs'.rings = regs.rings
          /\ "FEATURES_OK" \in regs'.status <=> "VERSION_1" \in offered
          /\ "DRIVER_OK" \in regs'.status
      <3> DEFINE s == regs.status \cup {"DRIVER_OK"}
      <3>1. s \in SUBSET StatusBits /\ s # {}
        BY <2>2 DEF StatusBits, Registers
      <3>2. "DRIVER_OK" \in s /\ ("FEATURES_OK" \in s <=> "VERSION_1" \in offered)
        BY <2>2
      <3> HIDE DEF s
      <3>3. WriteStatus(s)
        BY <2>1 DEF s
      <3>4. /\ regs' \in Registers /\ regs'.ready = regs.ready /\ regs'.high = regs.high
            /\ regs'.num = regs.num /\ regs'.rings = regs.rings
            /\ regs'.status = IF regs.high \subseteq offered /\ "VERSION_1" \in regs.high
                              THEN s ELSE s \ {"FEATURES_OK"}
        BY <2>2, <3>1, <3>3, StatusWritten
      <3>5. QED
        BY <2>2, <3>2, <3>4
    <2>4. ProbeTyped' /\ ProbeFindsFirst'
      BY <2>1, <2>3, SetUpKeeps DEF Chosen, SetUp, Agreed
    <2>5. QueueWritten' /\ FeaturesAgreed' /\ ServedLive'
      BY <2>1, <2>2, <2>3 DEF QueueWritten, FeaturesAgreed, ServedLive, SetUp, Agreed
    <2>6. QED
      BY <2>4, <2>5 DEF PInv
  <1>2. CASE FirstTransfer
    <2>1. /\ pc = "io" /\ Live /\ Behind(index) = "blk" /\ KeepMachine /\ UNCHANGED <<index, pc, regs>>
          /\ UNCHANGED <<offered, QueueNumMax>>
      BY <1>2 DEF FirstTransfer, KeepMachine
    <2>2. regs' \in Registers
      BY <2>1 DEF PInv, ProbeTyped
    <2>3. ProbeTyped' /\ ProbeFindsFirst'
      BY <2>1, <2>2, SetUpKeeps DEF Chosen, SetUp, Agreed
    <2>4. QueueWritten' /\ FeaturesAgreed' /\ ServedLive'
      BY <2>1 DEF PInv, QueueWritten, FeaturesAgreed, ServedLive, SetUp, Agreed, Live, Behind,
         KeepMachine, tvars
    <2>5. QED
      BY <2>3, <2>4 DEF PInv
  <1>3. QED
    BY <1>1, <1>2

-----------------------------------------------------------------------------
(* The theorems about the device. *)

\* Every step of boot keeps the invariant.
LEMMA InductiveStep == PInv /\ [BootNext]_bvars => PInv'
  <1> SUFFICES ASSUME PInv, [BootNext]_bvars PROVE PInv'
    OBVIOUS
  <1>1. CASE TreeNext /\ UNCHANGED dvars
    BY <1>1, ReadInvariant
  <1>2. CASE StartProbe
    BY <1>2, StartProbeInvariant
  <1>3. CASE Probe
    BY <1>3, ProbeInvariant
  <1>4. CASE Reset
    BY <1>4, ResetInvariant
  <1>5. CASE Acknowledge \/ Negotiate \/ FeaturesOk
    BY <1>5, HandshakeInvariant
  <1>6. CASE InitQueue \/ QueueNum \/ InitVirtioRegisters \/ QueueReady
    BY <1>6, QueueInvariant
  <1>7. CASE DriverOk \/ FirstTransfer
    BY <1>7, StartInvariant
  <1>8. CASE UNCHANGED bvars
    <2>1. UNCHANGED <<pc, index, regs, served, offered, QueueNumMax, slots, reader, info>>
      BY <1>8 DEF bvars, tvars, dvars
    <2>2. ProbeTyped' /\ ProbeFindsFirst'
      BY <2>1 DEF PInv, ProbeTyped, ProbeFindsFirst, Behind, Accepted
    <2>3. QueueWritten' /\ FeaturesAgreed' /\ ServedLive'
      BY <2>1 DEF PInv, QueueWritten, FeaturesAgreed, ServedLive, Live, Behind
    <2>4. QED
      BY <2>2, <2>3 DEF PInv
  <1>9. QED
    BY <1>1, <1>2, <1>3, <1>4, <1>5, <1>6, <1>7, <1>8 DEF BootNext

\* The invariant holds throughout boot.
LEMMA Invariance == BootSpec => []PInv
  <1> QED
    BY InitInvariant, InductiveStep, PTL DEF BootSpec

\* init_virtio_driver and init_queue make no queue ready but one whose registers
\* they wrote, whatever an earlier system left in the device.
THEOREM RingsAreOurs == BootSpec => []LiveQueueIsOurs
  <1>1. PInv => LiveQueueIsOurs
    BY DEF PInv, ProbeTyped, QueueWritten, LiveQueueIsOurs, Chosen, SetUp, Agreed
  <1> QED
    BY <1>1, Invariance, PTL

\* init_virtio_backend drives the first device of the window, disk or not, as
\* check_virtio_driver accepts any device id but 0, and says that there is none only
\* where there is none.
THEOREM ProbeIsRight == BootSpec => []FirstDeviceChosen
  <1>1. PInv => FirstDeviceChosen
    <2> SUFFICES ASSUME PInv PROVE FirstDeviceChosen
      OBVIOUS
    <2>1. pc = "no device" => \A i \in 0 .. Transports - 1 : ~Accepted(i)
      BY DEF PInv, ProbeFindsFirst
    <2>2. ASSUME pc \in Chosen
          PROVE  /\ Accepted(index)
                 /\ \A i \in 0 .. Transports - 1 : Accepted(i) => index <= i
      <3>1. /\ Accepted(index) /\ \A i \in 0 .. index - 1 : ~Accepted(i)
            /\ index \in 0 .. Transports - 1
        BY <2>2 DEF PInv, ProbeTyped, ProbeFindsFirst
      <3>2. ASSUME NEW i \in 0 .. Transports - 1, Accepted(i)
            PROVE  index <= i
        <4>1. i \notin 0 .. index - 1
          BY <3>1, <3>2
        <4>2. QED
          BY <3>1, <4>1
      <3>3. QED
        BY <3>1, <3>2
    <2>3. QED
      BY <2>1, <2>2 DEF FirstDeviceChosen
  <1> QED
    BY <1>1, Invariance, PTL

\* The handshake brings up every device that takes VERSION_1 and has a queue, and
\* block_write's first request is carried out by such a device, a disk, or by none.
THEOREM HandshakeIsRight == BootSpec => []UpWhenItAgreed
  <1>1. PInv => UpWhenItAgreed
    <2> SUFFICES ASSUME PInv PROVE UpWhenItAgreed
      OBVIOUS
    <2>1. pc = "io" => (Live <=> "VERSION_1" \in offered /\ QueueNumMax > 0)
      BY DEF PInv, QueueWritten, FeaturesAgreed, Live, Agreed
    <2>2. served => pc = "io" /\ Live /\ Behind(index) = "blk"
      BY DEF PInv, ServedLive
    <2>3. QED
      BY <2>1, <2>2 DEF UpWhenItAgreed
  <1> QED
    BY <1>1, Invariance, PTL

\* Neither the probe nor the handshake can keep kmain from the first transfer on a
\* usable disk, one before which the window has no other device: what
\* FirstTransferServed needs beside a processor that goes on.
THEOREM UsableDiskComesUp == BootSpec => []UsableNeverStuck
  <1>1. PInv => UsableNeverStuck
    <2> SUFFICES ASSUME PInv, Usable, info.address \div Block = 1
                 PROVE  pc # "no device" /\ (pc = "io" => Live /\ Behind(index) = "blk")
      BY DEF UsableNeverStuck
    <2>1. pc # "tree" /\ DOMAIN slots = 0 .. Transports - 1
      BY DEF PInv, ProbeTyped, Usable
    <2>2. PICK d \in 0 .. Transports - 1 :
             slots[d] = "blk" /\ \A j \in 0 .. d - 1 : slots[j] \in {"invalid", "empty"}
      BY <2>1 DEF Usable
    <2>3. /\ Behind(d) = "blk" /\ Accepted(d)
          /\ \A j \in 0 .. d - 1 : ~Accepted(j)
      BY <2>1, <2>2, BootAssumption DEF Behind, Accepted
    <2>4. pc # "no device"
      BY <2>3 DEF PInv, ProbeFindsFirst
    <2>5. ASSUME pc = "io"
          PROVE  Live /\ Behind(index) = "blk"
      <3>1. Live
        BY <2>5 DEF PInv, QueueWritten, FeaturesAgreed, Live, Agreed, Usable
      <3>2. /\ Accepted(index) /\ \A i \in 0 .. index - 1 : ~Accepted(i)
            /\ index \in 0 .. Transports - 1
        BY <2>5 DEF PInv, ProbeTyped, ProbeFindsFirst, Chosen, SetUp, Agreed
      <3>3. ~(index < d) /\ ~(d < index)
        BY <2>3, <3>2, BootAssumption
      <3>4. index = d
        BY <3>2, <3>3, BootAssumption
      <3>5. QED
        BY <2>3, <3>1, <3>4
    <2>6. QED
      BY <2>4, <2>5
  <1> QED
    BY <1>1, Invariance, PTL

-----------------------------------------------------------------------------
(* Sequences joined to one: where FlattenSeq puts the elements of each. *)

\* Induction, over a set of numbers.
LEMMA SetInduction ==
  ASSUME NEW S, 0 \in S, \A n \in Nat : n \in S => n + 1 \in S
  PROVE  Nat \subseteq S
  <1> DEFINE T == Nat \ S
  <1> SUFFICES ASSUME T # {} PROVE FALSE
    OBVIOUS
  <1>1. PICK v \in T : \A w \in T : ~(<<w, v>> \in OpToRel(<, Nat))
    <2> HIDE DEF T
    <2>1. T \subseteq Nat
      BY DEF T
    <2>2. QED
      BY <2>1, NatLessThanWellFounded, WFMin
  <1>2. v \in Nat /\ v \notin S /\ \A w \in T : ~(w < v)
    BY <1>1 DEF OpToRel
  <1>3. v - 1 \in Nat /\ v - 1 < v /\ (v - 1) + 1 = v
    BY <1>2
  <1>4. v - 1 \in S
    BY <1>2, <1>3
  <1>5. QED
    BY <1>2, <1>3, <1>4

\* Where the elements of a sequence of sequences lie in FlattenSeq of it: element
\* k is at start[k] + 1 and on.
Laid(seqs, start) ==
  /\ start \in [1 .. Len(seqs) + 1 -> Nat]
  /\ start[1] = 0
  /\ start[Len(seqs) + 1] = Len(FlattenSeq(seqs))
  /\ \A k \in 1 .. Len(seqs) :
        /\ start[k + 1] = start[k] + Len(seqs[k])
        /\ start[k + 1] <= Len(FlattenSeq(seqs))
        /\ \A i \in 1 .. Len(seqs[k]) : FlattenSeq(seqs)[start[k] + i] = seqs[k][i]

\* The recursion of FlattenSeq, for its first n elements.
Joined(seqs, n, f) ==
  f = [i \in 1 .. n |-> IF i = 1 THEN seqs[i] ELSE f[i - 1] \o seqs[i]]

\* There is such a sequence of joins for every number of elements.
LEMMA JoinedExists ==
  ASSUME NEW seqs
  PROVE  \A n \in Nat : \E f : Joined(seqs, n, f)
  <1> DEFINE S == {n \in Nat : \E f : Joined(seqs, n, f)}
  <1>1. 0 \in S
    <2>1. Joined(seqs, 0, [i \in {} |-> 0])
      BY DEF Joined
    <2>2. QED
      BY <2>1
  <1>2. ASSUME NEW n \in Nat, n \in S PROVE n + 1 \in S
    <2>1. PICK f : Joined(seqs, n, f)
      BY <1>2
    <2> DEFINE g == [i \in 1 .. n + 1 |->
                        IF i = n + 1 THEN IF i = 1 THEN seqs[i] ELSE f[i - 1] \o seqs[i]
                                     ELSE f[i]]
    <2>2. \A i \in 1 .. n : g[i] = f[i]
      OBVIOUS
    <2>3. \A i \in 1 .. n : f[i] = IF i = 1 THEN seqs[i] ELSE f[i - 1] \o seqs[i]
      BY <2>1 DEF Joined
    <2>4. ASSUME NEW i \in 1 .. n + 1
          PROVE  g[i] = IF i = 1 THEN seqs[i] ELSE g[i - 1] \o seqs[i]
      <3>1. CASE i = n + 1
        <4>1. i # 1 => g[i - 1] = f[i - 1]
          BY <2>2, <3>1
        <4>2. QED
          BY <3>1, <4>1
      <3>2. CASE i # n + 1
        <4>1. i \in 1 .. n /\ (i # 1 => g[i - 1] = f[i - 1])
          BY <2>2, <3>2
        <4>2. QED
          BY <2>2, <2>3, <4>1
      <3>3. QED
        BY <3>1, <3>2
    <2>5. Joined(seqs, n + 1, g)
      <3> DEFINE h == [i \in 1 .. n + 1 |-> IF i = 1 THEN seqs[i] ELSE g[i - 1] \o seqs[i]]
      <3>1. \A i \in 1 .. n + 1 : g[i] = h[i]
        BY <2>4
      <3>2. g = h
        BY <3>1
      <3>3. QED
        BY <3>2 DEF Joined
    <2> HIDE DEF g
    <2>6. QED
      BY <2>5
  <1> HIDE DEF S
  <1>3. Nat \subseteq S
    BY <1>1, <1>2, SetInduction
  <1>4. QED
    BY <1>3 DEF S

\* Two sequences joined: the elements of each keep their order.
LEMMA Joint ==
  ASSUME NEW S, NEW s \in Seq(S), NEW t \in Seq(S)
  PROVE  /\ s \o t \in Seq(S) /\ Len(s \o t) = Len(s) + Len(t)
         /\ Len(s) \in Nat /\ Len(t) \in Nat
         /\ \A i \in 1 .. Len(s) : (s \o t)[i] = s[i]
         /\ \A i \in 1 .. Len(t) : (s \o t)[Len(s) + i] = t[i]
  OBVIOUS

\* The same for three.
LEMMA JointThree ==
  ASSUME NEW S, NEW r \in Seq(S), NEW s \in Seq(S), NEW t \in Seq(S)
  PROVE  /\ r \o s \o t \in Seq(S)
         /\ Len(r \o s \o t) = Len(r) + Len(s) + Len(t)
         /\ Len(r) \in Nat /\ Len(s) \in Nat /\ Len(t) \in Nat
         /\ \A i \in 1 .. Len(r) : (r \o s \o t)[i] = r[i]
         /\ \A i \in 1 .. Len(s) : (r \o s \o t)[Len(r) + i] = s[i]
         /\ \A i \in 1 .. Len(t) : (r \o s \o t)[Len(r) + Len(s) + i] = t[i]
  <1> DEFINE j == r \o s
             k == j \o t
  <1>1. /\ j \in Seq(S) /\ Len(j) = Len(r) + Len(s)
        /\ Len(r) \in Nat /\ Len(s) \in Nat
        /\ \A i \in 1 .. Len(r) : j[i] = r[i]
        /\ \A i \in 1 .. Len(s) : j[Len(r) + i] = s[i]
    BY Joint
  <1> HIDE DEF j
  <1>2. /\ k \in Seq(S) /\ Len(k) = Len(j) + Len(t) /\ Len(t) \in Nat
        /\ \A i \in 1 .. Len(j) : k[i] = j[i]
        /\ \A i \in 1 .. Len(t) : k[Len(j) + i] = t[i]
    <2>1. j \in Seq(S)
      BY <1>1
    <2>2. QED
      BY <2>1, Joint
  <1> HIDE DEF k
  <1>3. /\ k \in Seq(S)
        /\ Len(k) = Len(r) + Len(s) + Len(t)
        /\ \A i \in 1 .. Len(r) : k[i] = r[i]
        /\ \A i \in 1 .. Len(s) : k[Len(r) + i] = s[i]
        /\ \A i \in 1 .. Len(t) : k[Len(r) + Len(s) + i] = t[i]
    BY <1>1, <1>2
  <1>4. QED
    BY <1>1, <1>2, <1>3 DEF k, j

\* The same over an interval that starts at 1.
LEMMA IntervalInduction ==
  ASSUME NEW n \in Nat, NEW S, 1 \in S, \A m \in 1 .. n - 1 : m \in S => m + 1 \in S
  PROVE  1 .. n \subseteq S
  <1> DEFINE T == {m \in Nat : m < n => m + 1 \in S}
  <1>1. 0 \in T
    OBVIOUS
  <1>2. ASSUME NEW m \in Nat, m \in T PROVE m + 1 \in T
    <2> SUFFICES ASSUME m + 1 < n PROVE (m + 1) + 1 \in S
      OBVIOUS
    <2>1. m + 1 \in S /\ m + 1 \in 1 .. n - 1
      BY <1>2
    <2>2. QED
      BY <2>1
  <1> HIDE DEF T
  <1>3. Nat \subseteq T
    BY <1>1, <1>2, SetInduction
  <1>4. ASSUME NEW m \in 1 .. n PROVE m \in S
    <2>1. m - 1 \in T /\ m - 1 < n /\ (m - 1) + 1 = m
      BY <1>3
    <2>2. QED
      BY <2>1 DEF T
  <1>5. QED
    BY <1>4

\* Sequence t begins as s does.
Kept(s, t) == Len(s) <= Len(t) /\ \A i \in 1 .. Len(s) : t[i] = s[i]

\* What a sequence begins with, it still begins with when it is extended.
LEMMA JointKeeps ==
  ASSUME NEW S, NEW r \in Seq(S), NEW s \in Seq(S), NEW t \in Seq(S), Kept(r, s)
  PROVE  Kept(r, s \o t)
  <1> DEFINE j == s \o t
  <1>1. /\ Len(j) = Len(s) + Len(t) /\ Len(s) \in Nat /\ Len(t) \in Nat
        /\ \A i \in 1 .. Len(s) : j[i] = s[i]
    BY Joint
  <1>2. Len(r) \in Nat
    OBVIOUS
  <1> HIDE DEF j
  <1>3. Kept(r, j)
    BY <1>1, <1>2 DEF Kept
  <1>4. QED
    BY <1>3 DEF j

\* Sequences of which each is the one before it with the next part appended.
Grown(S, parts, n, F) ==
  /\ n \in Nat \ {0}
  /\ \A k \in 1 .. n : parts[k] \in Seq(S)
  /\ F[1] = parts[1]
  /\ \A m \in 1 .. n - 1 : F[m + 1] = F[m] \o parts[m + 1]

\* A join of sequences over a set is one over that set.
LEMMA GrownTyped ==
  ASSUME NEW S, NEW parts, NEW n, NEW F, Grown(S, parts, n, F)
  PROVE  \A m \in 1 .. n : F[m] \in Seq(S)
  <1> DEFINE T == {m \in Nat : F[m] \in Seq(S)}
  <1>1. n \in Nat /\ 1 \in T
    BY DEF Grown
  <1>2. ASSUME NEW m \in 1 .. n - 1, m \in T PROVE m + 1 \in T
    <2>1. F[m] \in Seq(S) /\ parts[m + 1] \in Seq(S) /\ m + 1 \in Nat
      BY <1>2 DEF Grown
    <2>2. F[m + 1] = F[m] \o parts[m + 1]
      BY DEF Grown
    <2>3. F[m] \o parts[m + 1] \in Seq(S)
      BY <2>1
    <2>4. QED
      BY <2>1, <2>2, <2>3
  <1> HIDE DEF T
  <1>3. 1 .. n \subseteq T
    BY <1>1, <1>2, IntervalInduction
  <1>4. QED
    BY <1>3 DEF T

\* A later join begins with an earlier one.
LEMMA GrownKeeps ==
  ASSUME NEW S, NEW parts, NEW n, NEW F, Grown(S, parts, n, F), NEW k \in 1 .. n
  PROVE  \A m \in k .. n : Kept(F[k], F[m])
  <1> DEFINE U == {m \in Nat : m >= k => Kept(F[k], F[m])}
  <1>1. n \in Nat /\ k \in Nat
    BY DEF Grown
  <1>2. \A m \in 1 .. n : F[m] \in Seq(S)
    BY GrownTyped
  <1>3. Kept(F[k], F[k])
    <2>1. Len(F[k]) \in Nat
      BY <1>2
    <2>2. QED
      BY <2>1 DEF Kept
  <1>4. 1 \in U
    <2>1. k # 1 => ~(1 >= k)
      BY <1>1
    <2>2. QED
      BY <1>3, <2>1
  <1>5. ASSUME NEW m \in 1 .. n - 1, m \in U PROVE m + 1 \in U
    <2> SUFFICES ASSUME m + 1 >= k, m + 1 # k PROVE Kept(F[k], F[m + 1])
      BY <1>3
    <2>1. m \in 1 .. n /\ m + 1 \in 1 .. n /\ m >= k
      BY <1>1
    <2>2. F[m] \in Seq(S) /\ parts[m + 1] \in Seq(S) /\ F[k] \in Seq(S)
      BY <1>2, <2>1 DEF Grown
    <2>3. Kept(F[k], F[m])
      BY <1>5, <2>1
    <2>4. Kept(F[k], F[m] \o parts[m + 1])
      BY <2>2, <2>3, JointKeeps
    <2>5. F[m + 1] = F[m] \o parts[m + 1]
      BY DEF Grown
    <2>6. QED
      BY <2>4, <2>5
  <1> HIDE DEF U
  <1>6. 1 .. n \subseteq U
    BY <1>1, <1>4, <1>5, IntervalInduction
  <1>7. ASSUME NEW m \in k .. n PROVE Kept(F[k], F[m])
    <2>1. m \in U /\ m >= k
      BY <1>1, <1>6
    <2>2. QED
      BY <2>1 DEF U
  <1>8. QED
    BY <1>7

\* FlattenSeq lays its elements one after the other.
LEMMA FlattenLaid ==
  ASSUME NEW S, NEW seqs \in Seq(Seq(S))
  PROVE  FlattenSeq(seqs) \in Seq(S) /\ \E start : Laid(seqs, start)
  <1> DEFINE n == Len(seqs)
  <1>1. n \in Nat /\ \A k \in 1 .. n : seqs[k] \in Seq(S) /\ Len(seqs[k]) \in Nat
    OBVIOUS
  <1>2. CASE n = 0
    <2>1. seqs = << >> /\ FlattenSeq(seqs) = << >>
      BY <1>2 DEF FlattenSeq
    <2> DEFINE start == [k \in {1} |-> 0]
    <2>2. Laid(seqs, start)
      BY <2>1 DEF Laid
    <2>3. << >> \in Seq(S)
      OBVIOUS
    <2> HIDE DEF start
    <2>4. QED
      BY <2>1, <2>2, <2>3
  <1>3. CASE n # 0
    <2> DEFINE F == CHOOSE f : Joined(seqs, n, f)
    <2>1. Joined(seqs, n, F)
      BY <1>1, JoinedExists
    <2>2. FlattenSeq(seqs) = F[n]
      BY <1>3, Zenon DEF FlattenSeq, Joined
    <2> HIDE DEF F
    <2>3. \A i \in 1 .. n : F[i] = IF i = 1 THEN seqs[i] ELSE F[i - 1] \o seqs[i]
      BY <2>1 DEF Joined
    <2> HIDE DEF n
    <2>4. F[1] = seqs[1] /\ \A m \in 1 .. n - 1 : F[m + 1] = F[m] \o seqs[m + 1]
      <3>1. F[1] = seqs[1]
        BY <1>1, <1>3, <2>3
      <3>2. ASSUME NEW m \in 1 .. n - 1 PROVE F[m + 1] = F[m] \o seqs[m + 1]
        <4>1. m + 1 \in 1 .. n /\ m + 1 # 1 /\ (m + 1) - 1 = m
          BY <1>1
        <4>2. QED
          BY <2>3, <4>1
      <3>3. QED
        BY <3>1, <3>2
    <2>5. /\ \A m \in 1 .. n : F[m] \in Seq(S)
          /\ \A k \in 1 .. n : Kept(F[k], F[n])
      <3>1. Grown(S, seqs, n, F)
        BY <1>1, <1>3, <2>4 DEF Grown
      <3>2. ASSUME NEW k \in 1 .. n PROVE Kept(F[k], F[n])
        <4>1. n \in k .. n
          BY <1>1
        <4>2. QED
          BY <3>1, <4>1, GrownKeeps
      <3>3. QED
        BY <3>1, <3>2, GrownTyped
    <2> DEFINE start == [k \in 1 .. n + 1 |-> IF k = 1 THEN 0 ELSE Len(F[k - 1])]
    <2>6. \A k \in 1 .. n : Len(F[k]) \in Nat
      BY <2>5
    <2>7. start \in [1 .. n + 1 -> Nat] /\ start[1] = 0 /\ start[n + 1] = Len(F[n])
      <3>1. ASSUME NEW k \in 1 .. n + 1 PROVE start[k] \in Nat
        BY <1>1, <2>6
      <3>2. start \in [1 .. n + 1 -> Nat]
        BY <3>1
      <3>3. QED
        BY <1>1, <1>3, <3>2
    <2>8. ASSUME NEW k \in 1 .. n
          PROVE  /\ start[k + 1] = start[k] + Len(seqs[k])
                 /\ start[k + 1] <= Len(F[n])
                 /\ \A i \in 1 .. Len(seqs[k]) : F[n][start[k] + i] = seqs[k][i]
      <3>1. start[k + 1] = Len(F[k]) /\ start[k] \in Nat /\ k + 1 \in 1 .. n + 1
        BY <1>1, <2>7
      <3>2. /\ Len(F[k]) = start[k] + Len(seqs[k])
            /\ \A i \in 1 .. Len(seqs[k]) : F[k][start[k] + i] = seqs[k][i]
        <4>1. CASE k = 1
          BY <1>1, <2>4, <2>7, <4>1
        <4>2. CASE k # 1
          <5>1. k - 1 \in 1 .. n /\ k - 1 \in 1 .. n - 1 /\ (k - 1) + 1 = k
            BY <1>1, <4>2
          <5>2. start[k] = Len(F[k - 1])
            BY <1>1, <4>2
          <5>3. F[k] = F[k - 1] \o seqs[k] /\ F[k - 1] \in Seq(S) /\ seqs[k] \in Seq(S)
            BY <1>1, <2>4, <2>5, <5>1
          <5> DEFINE before == F[k - 1]
                     part == seqs[k]
                     j == before \o part
          <5> HIDE DEF start, before, part
          <5>4. before \in Seq(S) /\ part \in Seq(S)
            BY <5>3 DEF before, part
          <5>5. /\ Len(j) = Len(before) + Len(part)
                /\ \A i \in 1 .. Len(part) : j[Len(before) + i] = part[i]
            BY <5>4, Joint
          <5>6. F[k] = j
            BY <5>3 DEF before, part
          <5> HIDE DEF j
          <5>7. QED
            BY <5>2, <5>5, <5>6 DEF before, part
        <4>3. QED
          BY <4>1, <4>2
      <3>3. Len(F[k]) <= Len(F[n]) /\ \A i \in 1 .. Len(F[k]) : F[n][i] = F[k][i]
        BY <2>5 DEF Kept
      <3> HIDE DEF start
      <3>4. ASSUME NEW i \in 1 .. Len(seqs[k]) PROVE F[n][start[k] + i] = seqs[k][i]
        <4>1. start[k] + i \in 1 .. Len(F[k])
          BY <1>1, <3>1, <3>2
        <4>2. QED
          BY <3>2, <3>3, <4>1
      <3>5. QED
        BY <3>1, <3>2, <3>3, <3>4
    <2> HIDE DEF start
    <2>9. Laid(seqs, start)
      BY <2>2, <2>7, <2>8 DEF Laid, n
    <2>10. n \in 1 .. n
      BY <1>1, <1>3
    <2>11. QED
      BY <2>2, <2>5, <2>9, <2>10
  <1>4. QED
    BY <1>2, <1>3

-----------------------------------------------------------------------------
(* Where the tokens of the tree are. *)

Properties == {Text, NoReg, Irq} \cup Banks \cup Regs

\* A property has as many words as its length says, and a reg that is not empty has
\* an address and a size.
WellFormed(q) ==
  /\ q.len \in Nat /\ q.name \in Nat /\ q.words \in Seq(Nat)
  /\ Len(q.words) = (q.len + 3) \div 4
  /\ q.name = Reg => q.len = 0 \/ q.len >= 16

\* Every property of the machine is well formed.
LEMMA PropertiesWellFormed == \A q \in Properties : WellFormed(q)
  <1> USE DEF Property, WellFormed, Reg, Interrupts, Compatible
  <1>1. WellFormed(Text)
    BY DEF Text
  <1>2. WellFormed(NoReg)
    BY DEF NoReg
  <1>3. WellFormed(Irq)
    BY DEF Irq
  <1>4. /\ WellFormed(Property(Reg, 16, <<0, 4, 1, 2>>))
        /\ WellFormed(Property(Reg, 32, <<0, 4, 0, 3, 1, 0, 2, 1>>))
    <2>1. <<0, 4, 0, 3, 1, 0, 2, 1>> \in Seq(Nat) /\ Len(<<0, 4, 0, 3, 1, 0, 2, 1>>) = 8
      OBVIOUS
    <2>2. (32 + 3) \div 4 = 8 /\ (16 + 3) \div 4 = 4
      OBVIOUS
    <2>3. WellFormed(Property(Reg, 16, <<0, 4, 1, 2>>))
      BY <2>2
    <2>4. WellFormed(Property(Reg, 32, <<0, 4, 0, 3, 1, 0, 2, 1>>))
      BY <2>1, <2>2
    <2>5. QED
      BY <2>3, <2>4
  <1>5. ASSUME NEW a \in Addresses
        PROVE  WellFormed(Property(Reg, 16, <<a \div Cell, a % Cell, 0, 2>>))
    <2>1. a \div Cell \in Nat /\ a % Cell \in Nat
      BY DeviceTreeAssumption
    <2>2. QED
      BY <2>1
  <1> USE DEF Regs
  <1> HIDE DEF WellFormed, Property
  <1>6. \A q \in Regs : WellFormed(q)
    BY <1>5
  <1>7. \A q \in Banks : WellFormed(q)
    BY <1>4 DEF Banks
  <1>8. QED
    BY <1>1, <1>2, <1>3, <1>6, <1>7 DEF Properties

\* The padding SkipProp counts is the one PropWords has.
LEMMA WordsCounted ==
  \A q \in Properties : Len(q.words) \in Nat /\ Len(q.words) = (q.len + 3) \div 4
  BY PropertiesWellFormed DEF WellFormed

\* The properties of a node are some of them.
LEMMA PropListsTyped ==
  ASSUME NEW S, S \subseteq Properties
  PROVE  PropLists(S) \subseteq Seq(Properties)
  <1>1. Text \in Properties /\ NoReg \in Properties /\ Irq \in Properties
    BY DEF Properties
  <1>2. {<< >>, <<Text>>, <<NoReg, Text>>} \subseteq Seq(Properties)
    BY <1>1
  <1>3. ASSUME NEW r \in S
        PROVE  {<<r>>, <<Irq, r, Text>>, <<Text, r>>, <<r, Irq>>} \subseteq Seq(Properties)
    <2>1. r \in Properties
      OBVIOUS
    <2>2. QED
      BY <1>1, <2>1
  <1>4. ASSUME NEW l \in PropLists(S) PROVE l \in Seq(Properties)
    <2>1. \/ l \in {<< >>, <<Text>>, <<NoReg, Text>>}
          \/ \E r \in S : l \in {<<r>>, <<Irq, r, Text>>, <<Text, r>>, <<r, Irq>>}
      BY Zenon DEF PropLists
    <2>2. QED
      BY <1>2, <1>3, <2>1, Zenon
  <1>5. QED
    BY <1>4

\* A node has a name that is not that of the root, and properties.
LEMMA NodesTyped ==
  ASSUME NEW n \in NodeSet
  PROVE  n.name \in Nat /\ n.name # Root /\ n.props \in Seq(Properties)
  <1>1. Banks \subseteq Properties /\ Regs \subseteq Properties
    BY DEF Properties
  <1>2. PropLists(Banks) \subseteq Seq(Properties) /\ PropLists(Regs) \subseteq Seq(Properties)
    BY <1>1, PropListsTyped
  <1>3. QED
    BY <1>2 DEF NodeSet, Memory, Virtio, Other, Root

\* Where property j of node k begins, and node k; one more of each is what follows.
Start(seqs) == CHOOSE start : Laid(seqs, start)
PropSeq(n) == [i \in DOMAIN n.props |-> PropWords(n.props[i])]
NodeSeq == [i \in DOMAIN tree |-> NodeWords(tree[i])]
NodeAt(k) == 8 + Start(NodeSeq)[k]
PropAt(k, j) == NodeAt(k) + 2 + Start(PropSeq(tree[k]))[j]

\* Every element of what FlattenSeq joins has a place where it starts.
LEMMA Started ==
  ASSUME NEW S, NEW seqs \in Seq(Seq(S))
  PROVE  FlattenSeq(seqs) \in Seq(S) /\ Laid(seqs, Start(seqs))
  <1>1. FlattenSeq(seqs) \in Seq(S) /\ \E start : Laid(seqs, start)
    BY FlattenLaid
  <1>2. QED
    BY <1>1, Zenon DEF Start

\* The words of a property.
LEMMA PropLaid ==
  ASSUME NEW q \in Properties
  PROVE  LET w == PropWords(q)
         IN  /\ w \in Seq(Nat) /\ Len(w) = 3 + (q.len + 3) \div 4
             /\ w[1] = PROP /\ w[2] = q.len /\ w[3] = q.name
             /\ \A i \in 1 .. Len(q.words) : w[3 + i] = q.words[i]
  <1>1. /\ q.len \in Nat /\ q.name \in Nat /\ q.words \in Seq(Nat)
        /\ Len(q.words) = (q.len + 3) \div 4
    BY PropertiesWellFormed DEF WellFormed
  <1> DEFINE h == <<PROP, q.len, q.name>>
  <1>2. h \in Seq(Nat) /\ Len(h) = 3 /\ h[1] = PROP /\ h[2] = q.len /\ h[3] = q.name
    BY <1>1 DEF PROP
  <1>3. PropWords(q) = h \o q.words
    BY DEF PropWords
  <1> HIDE DEF h
  <1> DEFINE w == h \o q.words
  <1>4. /\ w \in Seq(Nat) /\ Len(w) = Len(h) + Len(q.words)
        /\ \A i \in 1 .. Len(h) : w[i] = h[i]
        /\ \A i \in 1 .. Len(q.words) : w[Len(h) + i] = q.words[i]
    <2>1. h \in Seq(Nat) /\ q.words \in Seq(Nat)
      BY <1>1, <1>2
    <2>2. QED
      BY <2>1, Joint
  <1>5. w = PropWords(q)
    BY <1>3
  <1> HIDE DEF w
  <1>6. /\ Len(w) = 3 + (q.len + 3) \div 4
        /\ w[1] = h[1] /\ w[2] = h[2] /\ w[3] = h[3]
        /\ \A i \in 1 .. Len(q.words) : w[3 + i] = q.words[i]
    <2>1. w[1] = h[1] /\ w[2] = h[2] /\ w[3] = h[3]
      BY <1>2, <1>4
    <2>2. Len(w) = 3 + Len(q.words)
          /\ \A i \in 1 .. Len(q.words) : w[3 + i] = q.words[i]
      BY <1>2, <1>4
    <2>3. QED
      BY <1>1, <2>1, <2>2
  <1>7. QED
    BY <1>2, <1>4, <1>5, <1>6

\* The words of a node: those of its properties one after the other, between its
\* name and an END_NODE.
LEMMA NodeLaid ==
  ASSUME NEW n \in NodeSet
  PROVE  LET w  == NodeWords(n)
             at == Start(PropSeq(n))
             m  == Len(n.props)
         IN  /\ w \in Seq(Nat) /\ m \in Nat /\ DOMAIN n.props = 1 .. m
             /\ at \in [1 .. m + 1 -> Nat] /\ at[1] = 0
             /\ Len(w) = at[m + 1] + 3
             /\ w[1] = BEGIN_NODE /\ w[2] = n.name /\ w[at[m + 1] + 3] = END_NODE
             /\ \A j \in 1 .. m :
                   LET q == n.props[j]
                   IN  /\ at[j + 1] = at[j] + 3 + (q.len + 3) \div 4
                       /\ at[j + 1] <= at[m + 1]
                       /\ w[at[j] + 3] = PROP /\ w[at[j] + 4] = q.len
                       /\ w[at[j] + 5] = q.name
                       /\ \A i \in 1 .. Len(q.words) : w[at[j] + 5 + i] = q.words[i]
  <1> DEFINE m == Len(n.props)
             seqs == PropSeq(n)
             f == FlattenSeq(seqs)
             at == Start(seqs)
             w == NodeWords(n)
  <1>1. n.name \in Nat /\ n.props \in Seq(Properties)
    BY NodesTyped
  <1>2. /\ m \in Nat /\ DOMAIN n.props = 1 .. m
        /\ \A j \in 1 .. m : n.props[j] \in Properties
    BY <1>1
  <1>3. /\ seqs \in Seq(Seq(Nat)) /\ Len(seqs) = m
        /\ \A j \in 1 .. m : seqs[j] = PropWords(n.props[j])
    <2>1. \A j \in 1 .. m : PropWords(n.props[j]) \in Seq(Nat)
      BY <1>2, PropLaid
    <2> HIDE DEF m
    <2>2. seqs = [j \in 1 .. m |-> PropWords(n.props[j])]
      BY <1>2 DEF PropSeq
    <2>3. QED
      BY <1>2, <2>1, <2>2
  <1>4. f \in Seq(Nat) /\ Laid(seqs, at)
    BY <1>3, Started
  <1>5. w = <<BEGIN_NODE, n.name>> \o f \o <<END_NODE>>
    BY DEF NodeWords, PropSeq
  <1> HIDE DEF m, seqs, f, at, w
  <1>6. w \in Seq(Nat) /\ Len(w) = Len(f) + 3
        /\ w[1] = BEGIN_NODE /\ w[2] = n.name /\ w[Len(f) + 3] = END_NODE
        /\ \A i \in 1 .. Len(f) : w[i + 2] = f[i]
    <2> DEFINE h == <<BEGIN_NODE, n.name>>
               e == <<END_NODE>>
               v == h \o f \o e
    <2>1. h \in Seq(Nat) /\ Len(h) = 2 /\ h[1] = BEGIN_NODE /\ h[2] = n.name
      BY <1>1 DEF BEGIN_NODE
    <2>2. e \in Seq(Nat) /\ Len(e) = 1 /\ e[1] = END_NODE
      BY DEF END_NODE
    <2>3. w = v
      BY <1>5
    <2> HIDE DEF h, e
    <2>4. /\ v \in Seq(Nat) /\ Len(v) = Len(h) + Len(f) + Len(e) /\ Len(f) \in Nat
          /\ \A i \in 1 .. Len(h) : v[i] = h[i]
          /\ \A i \in 1 .. Len(f) : v[Len(h) + i] = f[i]
          /\ \A i \in 1 .. Len(e) : v[Len(h) + Len(f) + i] = e[i]
      <3>1. h \in Seq(Nat) /\ f \in Seq(Nat) /\ e \in Seq(Nat)
        BY <1>4, <2>1, <2>2
      <3>2. QED
        BY <3>1, JointThree
    <2> HIDE DEF v
    <2>5. /\ v[1] = h[1] /\ v[2] = h[2] /\ v[Len(f) + 3] = e[1]
          /\ \A i \in 1 .. Len(f) : v[i + 2] = f[i]
      BY <2>1, <2>2, <2>4
    <2>6. QED
      BY <2>1, <2>2, <2>3, <2>4, <2>5
  <1>7. /\ at \in [1 .. m + 1 -> Nat] /\ at[1] = 0 /\ at[m + 1] = Len(f)
        /\ \A j \in 1 .. m :
              /\ at[j + 1] = at[j] + Len(seqs[j])
              /\ at[j + 1] <= Len(f)
              /\ \A i \in 1 .. Len(seqs[j]) : f[at[j] + i] = seqs[j][i]
    BY <1>3, <1>4 DEF Laid, f
  <1>8. ASSUME NEW j \in 1 .. m
        PROVE  LET q == n.props[j]
               IN  /\ at[j + 1] = at[j] + 3 + (q.len + 3) \div 4
                   /\ at[j + 1] <= at[m + 1]
                   /\ w[at[j] + 3] = PROP /\ w[at[j] + 4] = q.len
                   /\ w[at[j] + 5] = q.name
                   /\ \A i \in 1 .. Len(q.words) : w[at[j] + 5 + i] = q.words[i]
    <2> DEFINE q == n.props[j]
               u == seqs[j]
               k == Len(q.words)
    <2>1. q \in Properties /\ u = PropWords(q) /\ k \in Nat
      BY <1>2, <1>3, PropertiesWellFormed DEF WellFormed
    <2>2. /\ Len(u) = 3 + k /\ k = (q.len + 3) \div 4
          /\ u[1] = PROP /\ u[2] = q.len /\ u[3] = q.name
          /\ \A i \in 1 .. k : u[3 + i] = q.words[i]
      BY <2>1, PropLaid, PropertiesWellFormed DEF WellFormed
    <2>3. /\ at[j] \in Nat /\ at[j + 1] = at[j] + Len(u) /\ at[j + 1] <= Len(f)
          /\ \A i \in 1 .. Len(u) : f[at[j] + i] = u[i]
      BY <1>2, <1>7
    <2>4. Len(f) \in Nat
      BY <1>4
    <2> DEFINE b == at[j]
    <2>5. k \in Nat /\ b \in Nat
      BY <2>1, <2>3
    <2> HIDE DEF q, u, k
    <2>6. ASSUME NEW i \in 1 .. k + 3 PROVE w[at[j] + 2 + i] = u[i]
      <3>1. i \in 1 .. Len(u) /\ at[j] + i \in 1 .. Len(f)
        <4>1. Len(u) = 3 + k /\ b + (3 + k) <= Len(f)
          BY <2>2, <2>3
        <4> HIDE DEF b
        <4>2. i \in 1 .. 3 + k /\ b + i \in 1 .. Len(f)
          BY <2>4, <2>5, <4>1
        <4>3. QED
          BY <4>1, <4>2 DEF b
      <3>2. w[(at[j] + i) + 2] = u[i]
        BY <1>6, <2>3, <3>1
      <3>3. (at[j] + i) + 2 = at[j] + 2 + i
        BY <2>3
      <3>4. QED
        BY <3>2, <3>3
    <2>7. w[at[j] + 3] = u[1] /\ w[at[j] + 4] = u[2] /\ w[at[j] + 5] = u[3]
      <3>1. 1 \in 1 .. k + 3 /\ 2 \in 1 .. k + 3 /\ 3 \in 1 .. k + 3
        BY <2>1
      <3>2. w[at[j] + 2 + 1] = u[1] /\ w[at[j] + 2 + 2] = u[2] /\ w[at[j] + 2 + 3] = u[3]
        BY <2>6, <3>1
      <3> HIDE DEF b
      <3>3. b + 2 + 1 = b + 3 /\ b + 2 + 2 = b + 4 /\ b + 2 + 3 = b + 5
        BY <2>5
      <3>4. QED
        BY <3>2, <3>3 DEF b
    <2>8. ASSUME NEW i \in 1 .. k PROVE w[at[j] + 5 + i] = u[3 + i]
      <3>1. 3 + i \in 1 .. k + 3 /\ at[j] + 2 + (3 + i) = at[j] + 5 + i
        <4> HIDE DEF b
        <4>1. 3 + i \in 1 .. k + 3 /\ b + 2 + (3 + i) = b + 5 + i
          BY <2>5
        <4>2. QED
          BY <4>1 DEF b
      <3>2. QED
        BY <2>6, <3>1
    <2>9. at[j + 1] = at[j] + 3 + (q.len + 3) \div 4
      <3>1. at[j + 1] = at[j] + 3 + k
        <4>1. at[j + 1] = b + Len(u) /\ Len(u) = 3 + k
          BY <2>2, <2>3
        <4> HIDE DEF b
        <4>2. b + (3 + k) = b + 3 + k
          BY <2>5
        <4>3. QED
          BY <4>1, <4>2 DEF b
      <3>2. QED
        BY <2>2, <3>1
    <2>10. \A i \in 1 .. k : w[at[j] + 5 + i] = q.words[i]
      BY <2>2, <2>8
    <2>11. at[j + 1] <= at[m + 1]
      BY <1>7, <2>3
    <2>12. QED
      BY <2>2, <2>7, <2>9, <2>10, <2>11 DEF q, k
  <1>9. QED
    BY <1>1, <1>2, <1>6, <1>7, <1>8 DEF m, seqs, f, at, w

\* The tree while it is read.
TreeGiven == tree \in Seq(NodeSet)

PropPlace(k, j) ==
  LET q == tree[k].props[j]
      a == PropAt(k, j)
  IN  /\ q \in Properties
      /\ a + 4 <= NodeAt(k + 1)
      /\ PropAt(k, j + 1) = a + 3 + (q.len + 3) \div 4
      /\ dt_struct[a] = PROP /\ dt_struct[a + 1] = q.len /\ dt_struct[a + 2] = q.name
      /\ \A i \in 1 .. Len(q.words) : dt_struct[a + 2 + i] = q.words[i]

NodePlace(k) ==
  LET m == Len(tree[k].props)
  IN  /\ m \in Nat /\ DOMAIN tree[k].props = 1 .. m
      /\ tree[k].name \in Nat /\ tree[k].name # Root
      /\ NodeAt(k + 1) <= NodeAt(Len(tree) + 1)
      /\ dt_struct[NodeAt(k)] = BEGIN_NODE /\ dt_struct[NodeAt(k) + 1] = tree[k].name
      /\ PropAt(k, 1) = NodeAt(k) + 2
      /\ \A j \in 1 .. m : PropPlace(k, j)
      /\ \A j \in 1 .. m + 1 : PropAt(k, j) \in Nat \ {0} /\ PropAt(k, j) < NodeAt(k + 1)
      /\ dt_struct[PropAt(k, m + 1)] = END_NODE
      /\ NodeAt(k + 1) = PropAt(k, m + 1) + 1

TreePlace ==
  LET n == Len(tree)
  IN  /\ n \in Nat /\ DOMAIN tree = 1 .. n
      /\ dt_struct[1] = BEGIN_NODE /\ dt_struct[2] = Root
      /\ dt_struct[3] = PROP /\ dt_struct[4] = 6 /\ dt_struct[5] = Compatible
      /\ NodeAt(1) = 8
      /\ \A k \in 1 .. n + 1 : NodeAt(k) \in Nat \ (0 .. 7)
      /\ \A k \in 1 .. n : NodePlace(k)
      /\ dt_struct[NodeAt(n + 1)] = NOP
      /\ dt_struct[NodeAt(n + 1) + 1] = END_NODE
      /\ dt_struct[NodeAt(n + 1) + 2] = END
      /\ dt_struct \in Seq(Nat) /\ Len(dt_struct) = NodeAt(n + 1) + 2

\* The words of the whole tree, node by node.
LEMMA TreeWords ==
  ASSUME TreeGiven
  PROVE  LET n == Len(tree)
         IN  /\ n \in Nat /\ DOMAIN tree = 1 .. n
             /\ \A k \in 1 .. n : tree[k] \in NodeSet
             /\ \A k \in 1 .. n + 1 : NodeAt(k) \in Nat \ (0 .. 7)
             /\ NodeAt(1) = 8
             /\ \A k \in 1 .. n :
                   /\ NodeAt(k + 1) = NodeAt(k) + Len(NodeWords(tree[k]))
                   /\ NodeAt(k + 1) <= NodeAt(n + 1)
                   /\ \A i \in 1 .. Len(NodeWords(tree[k])) :
                         dt_struct[NodeAt(k) - 1 + i] = NodeWords(tree[k])[i]
             /\ dt_struct \in Seq(Nat) /\ Len(dt_struct) = NodeAt(n + 1) + 2
             /\ dt_struct[1] = BEGIN_NODE /\ dt_struct[2] = Root
             /\ dt_struct[3] = PROP /\ dt_struct[4] = 6 /\ dt_struct[5] = Compatible
             /\ dt_struct[NodeAt(n + 1)] = NOP
             /\ dt_struct[NodeAt(n + 1) + 1] = END_NODE
             /\ dt_struct[NodeAt(n + 1) + 2] = END
  <1> DEFINE n == Len(tree)
             f == FlattenSeq(NodeSeq)
             at == Start(NodeSeq)
  <1>1. n \in Nat /\ DOMAIN tree = 1 .. n /\ \A k \in 1 .. n : tree[k] \in NodeSet
    BY DEF TreeGiven
  <1>2. \A k \in 1 .. n : NodeWords(tree[k]) \in Seq(Nat) /\ Len(NodeWords(tree[k])) \in Nat
    <2>1. \A k \in 1 .. n : NodeWords(tree[k]) \in Seq(Nat)
      BY <1>1, NodeLaid
    <2>2. QED
      BY <2>1
  <1> HIDE DEF n
  <1>3. /\ NodeSeq \in Seq(Seq(Nat)) /\ Len(NodeSeq) = n
        /\ \A k \in 1 .. n : NodeSeq[k] = NodeWords(tree[k])
    <2>1. NodeSeq = [k \in 1 .. n |-> NodeWords(tree[k])]
      BY <1>1 DEF NodeSeq
    <2>2. QED
      BY <1>1, <1>2, <2>1
  <1>4. f \in Seq(Nat) /\ Laid(NodeSeq, at)
    BY <1>3, Started
  <1> HIDE DEF f, at
  <1>5. /\ at \in [1 .. n + 1 -> Nat] /\ at[1] = 0 /\ at[n + 1] = Len(f)
        /\ \A k \in 1 .. n :
              /\ at[k + 1] = at[k] + Len(NodeWords(tree[k]))
              /\ at[k + 1] <= Len(f)
              /\ \A i \in 1 .. Len(NodeWords(tree[k])) : f[at[k] + i] = NodeWords(tree[k])[i]
    BY <1>3, <1>4 DEF Laid, f
  <1> DEFINE r == <<BEGIN_NODE, Root>>
             h == r \o PropWords(Text)
             e == <<NOP, END_NODE, END>>
             v == h \o f \o e
  <1>6. /\ h \in Seq(Nat) /\ Len(h) = 7 /\ h[1] = BEGIN_NODE /\ h[2] = Root
        /\ h[3] = PROP /\ h[4] = 6 /\ h[5] = Compatible
    <2>1. r \in Seq(Nat) /\ Len(r) = 2 /\ r[1] = BEGIN_NODE /\ r[2] = Root
      BY DEF BEGIN_NODE, Root
    <2> DEFINE t == PropWords(Text)
    <2>2. /\ t \in Seq(Nat) /\ Len(t) = 5
          /\ t[1] = PROP /\ t[2] = 6 /\ t[3] = Compatible
      <3>1. Text \in Properties /\ Text.len = 6 /\ Text.name = Compatible
        BY DEF Properties, Text, Property
      <3>2. /\ t \in Seq(Nat) /\ Len(t) = 3 + (Text.len + 3) \div 4
            /\ t[1] = PROP /\ t[2] = Text.len /\ t[3] = Text.name
        <4> HIDE DEF t
        <4>1. ASSUME NEW q \in Properties, q = Text
              PROVE  /\ PropWords(q) \in Seq(Nat)
                     /\ Len(PropWords(q)) = 3 + (q.len + 3) \div 4
                     /\ PropWords(q)[1] = PROP /\ PropWords(q)[2] = q.len
                     /\ PropWords(q)[3] = q.name
          BY PropLaid
        <4>2. QED
          BY <3>1, <4>1 DEF t
      <3>3. (6 + 3) \div 4 = 2
        OBVIOUS
      <3> HIDE DEF t
      <3>4. QED
        BY <3>1, <3>2, <3>3
    <2> HIDE DEF r, t
    <2>3. /\ h \in Seq(Nat) /\ Len(h) = Len(r) + Len(t)
          /\ \A i \in 1 .. Len(r) : h[i] = r[i]
          /\ \A i \in 1 .. Len(t) : h[Len(r) + i] = t[i]
      <3>1. r \in Seq(Nat) /\ t \in Seq(Nat)
        BY <2>1, <2>2
      <3>2. QED
        BY <3>1, Joint DEF t
    <2> HIDE DEF h
    <2>4. QED
      BY <2>1, <2>2, <2>3
  <1>7. e \in Seq(Nat) /\ Len(e) = 3 /\ e[1] = NOP /\ e[2] = END_NODE /\ e[3] = END
    BY DEF NOP, END_NODE, END
  <1>8. dt_struct = v
    BY DEF dt_struct, NodeSeq, f
  <1> HIDE DEF h, e
  <1>9. /\ v \in Seq(Nat) /\ Len(v) = Len(h) + Len(f) + Len(e) /\ Len(f) \in Nat
        /\ \A i \in 1 .. Len(h) : v[i] = h[i]
        /\ \A i \in 1 .. Len(f) : v[Len(h) + i] = f[i]
        /\ \A i \in 1 .. Len(e) : v[Len(h) + Len(f) + i] = e[i]
    <2>1. h \in Seq(Nat) /\ f \in Seq(Nat) /\ e \in Seq(Nat)
      BY <1>4, <1>6, <1>7
    <2>2. QED
      BY <2>1, JointThree
  <1> HIDE DEF v
  <1>10. /\ NodeAt(n + 1) = 8 + Len(f) /\ NodeAt(1) = 8
         /\ \A k \in 1 .. n + 1 : NodeAt(k) = 8 + at[k] /\ NodeAt(k) \in Nat \ (0 .. 7)
    <2>1. \A k : NodeAt(k) = 8 + at[k]
      BY DEF NodeAt, at
    <2>2. \A k \in 1 .. n + 1 : at[k] \in Nat
      BY <1>5
    <2>3. \A k \in 1 .. n + 1 : NodeAt(k) \in Nat \ (0 .. 7)
      BY <2>1, <2>2
    <2>4. NodeAt(n + 1) = 8 + Len(f) /\ NodeAt(1) = 8
      BY <1>5, <2>1
    <2>5. QED
      BY <2>1, <2>3, <2>4
  <1>11. /\ v[1] = BEGIN_NODE /\ v[2] = Root /\ v[3] = PROP /\ v[4] = 6
         /\ v[5] = Compatible
         /\ v[NodeAt(n + 1)] = NOP /\ v[NodeAt(n + 1) + 1] = END_NODE
         /\ v[NodeAt(n + 1) + 2] = END /\ Len(v) = NodeAt(n + 1) + 2
    <2>1. /\ v[1] = BEGIN_NODE /\ v[2] = Root /\ v[3] = PROP /\ v[4] = 6
          /\ v[5] = Compatible
      BY <1>6, <1>9
    <2> DEFINE l == Len(f)
    <2>2. /\ l \in Nat /\ Len(v) = 7 + l + 3 /\ NodeAt(n + 1) = 8 + l
          /\ v[7 + l + 1] = NOP /\ v[7 + l + 2] = END_NODE /\ v[7 + l + 3] = END
      BY <1>6, <1>7, <1>9, <1>10
    <2> HIDE DEF l
    <2>3. 7 + l + 1 = 8 + l /\ 7 + l + 2 = 8 + l + 1 /\ 7 + l + 3 = 8 + l + 2
      BY <2>2
    <2>4. QED
      BY <2>1, <2>2, <2>3
  <1>12. ASSUME NEW k \in 1 .. n
         PROVE  LET w == NodeWords(tree[k])
                IN  /\ NodeAt(k + 1) = NodeAt(k) + Len(w)
                    /\ NodeAt(k + 1) <= NodeAt(n + 1)
                    /\ \A i \in 1 .. Len(w) : v[NodeAt(k) - 1 + i] = w[i]
    <2> DEFINE w == NodeWords(tree[k])
    <2>1. /\ at[k] \in Nat /\ at[k + 1] \in Nat /\ Len(w) \in Nat
          /\ NodeAt(k) = 8 + at[k] /\ NodeAt(k + 1) = 8 + at[k + 1]
      <3>1. k \in 1 .. n + 1 /\ k + 1 \in 1 .. n + 1
        BY <1>1
      <3> HIDE DEF w
      <3>2. at[k] \in Nat /\ at[k + 1] \in Nat
        BY <1>5, <3>1
      <3>3. NodeAt(k) = 8 + at[k] /\ NodeAt(k + 1) = 8 + at[k + 1]
        BY <1>10, <3>1
      <3>4. Len(w) \in Nat
        BY <1>2 DEF w
      <3>5. QED
        BY <3>2, <3>3, <3>4
    <2>2. /\ at[k + 1] = at[k] + Len(w) /\ at[k + 1] <= Len(f)
          /\ \A i \in 1 .. Len(w) : f[at[k] + i] = w[i]
      BY <1>5
    <2> HIDE DEF w
    <2>3. ASSUME NEW i \in 1 .. Len(w) PROVE v[NodeAt(k) - 1 + i] = w[i]
      <3>1. at[k] + i \in 1 .. Len(f)
        <4>1. Len(f) \in Nat
          BY <1>9
        <4>2. QED
          BY <2>1, <2>2, <4>1
      <3>2. v[7 + (at[k] + i)] = w[i]
        BY <1>6, <1>9, <2>2, <3>1
      <3>3. 7 + (at[k] + i) = NodeAt(k) - 1 + i
        BY <2>1
      <3>4. QED
        BY <3>2, <3>3
    <2>4. QED
      BY <1>9, <1>10, <2>1, <2>2, <2>3 DEF w
  <1>13. QED
    BY <1>1, <1>8, <1>9, <1>10, <1>11, <1>12 DEF n

\* Every node, property and word of the tree is in its place in dt_struct.
LEMMA TreeLaid == TreeGiven => TreePlace
  <1> SUFFICES ASSUME TreeGiven PROVE TreePlace
    OBVIOUS
  <1> DEFINE n == Len(tree)
  <1>1. /\ n \in Nat /\ DOMAIN tree = 1 .. n
        /\ \A k \in 1 .. n : tree[k] \in NodeSet
        /\ \A k \in 1 .. n + 1 : NodeAt(k) \in Nat \ (0 .. 7)
        /\ \A k \in 1 .. n :
              /\ NodeAt(k + 1) = NodeAt(k) + Len(NodeWords(tree[k]))
              /\ NodeAt(k + 1) <= NodeAt(n + 1)
              /\ \A i \in 1 .. Len(NodeWords(tree[k])) :
                    dt_struct[NodeAt(k) - 1 + i] = NodeWords(tree[k])[i]
    BY TreeWords
  <1> HIDE DEF n
  <1>2. ASSUME NEW k \in 1 .. n PROVE NodePlace(k)
    <2> DEFINE a == NodeAt(k)
               z == NodeAt(k + 1)
               node == tree[k]
               w == NodeWords(node)
               at == Start(PropSeq(node))
               m == Len(node.props)
    <2>1. /\ a \in Nat \ (0 .. 7) /\ z \in Nat /\ z = a + Len(w) /\ z <= NodeAt(n + 1)
          /\ \A i \in 1 .. Len(w) : dt_struct[a - 1 + i] = w[i]
      <3>1. k \in 1 .. n + 1 /\ k + 1 \in 1 .. n + 1
        BY <1>1
      <3>2. QED
        BY <1>1, <3>1
    <2>2. node \in NodeSet /\ node.name \in Nat /\ node.name # Root
      BY <1>1, NodesTyped
    <2>3. /\ w \in Seq(Nat) /\ m \in Nat /\ DOMAIN node.props = 1 .. m
          /\ at \in [1 .. m + 1 -> Nat] /\ at[1] = 0
          /\ Len(w) = at[m + 1] + 3
          /\ w[1] = BEGIN_NODE /\ w[2] = node.name /\ w[at[m + 1] + 3] = END_NODE
      BY <2>2, NodeLaid
    <2>4. ASSUME NEW j \in 1 .. m
          PROVE  LET q == node.props[j]
                 IN  /\ q \in Properties
                     /\ at[j + 1] = at[j] + 3 + (q.len + 3) \div 4
                     /\ at[j + 1] <= at[m + 1]
                     /\ w[at[j] + 3] = PROP /\ w[at[j] + 4] = q.len
                     /\ w[at[j] + 5] = q.name
                     /\ \A i \in 1 .. Len(q.words) : w[at[j] + 5 + i] = q.words[i]
      <3>1. node.props[j] \in Properties
        BY <2>2, NodesTyped
      <3>2. QED
        BY <2>2, <3>1, NodeLaid
    <2>5. \A j \in 1 .. m + 1 : PropAt(k, j) = a + 2 + at[j] /\ at[j] \in Nat
      BY <2>3 DEF PropAt
    <2> HIDE DEF a, z, w, at, m
    <2>6. dt_struct[a] = BEGIN_NODE /\ dt_struct[a + 1] = node.name
      <3>1. a \in Nat
        BY <2>1
      <3>2. a - 1 + 1 = a /\ a - 1 + 2 = a + 1
        BY <3>1
      <3>3. at[m + 1] \in Nat /\ Len(w) = at[m + 1] + 3
        BY <2>3
      <3>4. 1 \in 1 .. Len(w) /\ 2 \in 1 .. Len(w)
        BY <3>3
      <3>5. QED
        BY <2>1, <2>3, <3>2, <3>4
    <2>7. /\ dt_struct[PropAt(k, m + 1)] = END_NODE
          /\ z = PropAt(k, m + 1) + 1 /\ PropAt(k, 1) = a + 2
      <3> DEFINE e == at[m + 1]
      <3>1. e \in Nat /\ PropAt(k, m + 1) = a + 2 + e /\ PropAt(k, 1) = a + 2 + at[1]
        BY <2>3, <2>5
      <3>2. Len(w) = e + 3 /\ w[e + 3] = END_NODE /\ at[1] = 0
        BY <2>3
      <3> HIDE DEF e
      <3>3. e + 3 \in 1 .. Len(w) /\ a - 1 + (e + 3) = a + 2 + e
        <4>1. a \in Nat /\ e \in Nat
          BY <2>1, <3>1
        <4>2. a - 1 + (e + 3) = a + 2 + e
          BY <4>1
        <4>3. QED
          BY <3>2, <4>1, <4>2
      <3>4. dt_struct[a + 2 + e] = END_NODE
        BY <2>1, <3>2, <3>3
      <3>5. QED
        BY <2>1, <3>1, <3>2, <3>4
    <2>8. ASSUME NEW j \in 1 .. m PROVE PropPlace(k, j)
      <3> DEFINE q == node.props[j]
                 c == Len(q.words)
                 b == at[j]
                 e == at[m + 1]
      <3>1. /\ q \in Properties /\ c \in Nat /\ c = (q.len + 3) \div 4
        BY <2>4, WordsCounted
      <3>2. /\ at[j + 1] = b + 3 + (q.len + 3) \div 4 /\ at[j + 1] <= e
            /\ w[b + 3] = PROP /\ w[b + 4] = q.len /\ w[b + 5] = q.name
            /\ \A i \in 1 .. c : w[b + 5 + i] = q.words[i]
        BY <2>4
      <3>3. /\ b \in Nat /\ e \in Nat /\ Len(w) = e + 3 /\ z = a + (e + 3)
            /\ PropAt(k, j) = a + 2 + b /\ PropAt(k, j + 1) = a + 2 + at[j + 1]
        <4>1. j \in 1 .. m + 1 /\ j + 1 \in 1 .. m + 1 /\ m + 1 \in 1 .. m + 1
          BY <2>3
        <4>2. QED
          BY <2>1, <2>3, <2>5, <4>1
      <3> HIDE DEF q, c, b, e
      <3>4. at[j + 1] = b + 3 + c /\ b + 3 + c <= e
        BY <3>1, <3>2
      <3>5. ASSUME NEW i \in 3 .. c + 5 PROVE dt_struct[a - 1 + (b + i)] = w[b + i]
        <4>1. b + i \in 1 .. Len(w)
          BY <3>1, <3>3, <3>4
        <4>2. QED
          BY <2>1, <4>1
      <3>6. /\ dt_struct[a + 2 + b] = PROP /\ dt_struct[a + 2 + b + 1] = q.len
            /\ dt_struct[a + 2 + b + 2] = q.name
        <4>1. 3 \in 3 .. c + 5 /\ 4 \in 3 .. c + 5 /\ 5 \in 3 .. c + 5
          BY <3>1
        <4>2. /\ dt_struct[a - 1 + (b + 3)] = w[b + 3]
              /\ dt_struct[a - 1 + (b + 4)] = w[b + 4]
              /\ dt_struct[a - 1 + (b + 5)] = w[b + 5]
          BY <3>5, <4>1
        <4>3. /\ a - 1 + (b + 3) = a + 2 + b /\ a - 1 + (b + 4) = a + 2 + b + 1
              /\ a - 1 + (b + 5) = a + 2 + b + 2
          <5>1. a \in Nat /\ b \in Nat
            BY <2>1, <3>3
          <5>2. QED
            BY <5>1
        <4>4. QED
          BY <3>2, <4>2, <4>3
      <3>7. ASSUME NEW i \in 1 .. c PROVE dt_struct[a + 2 + b + 2 + i] = q.words[i]
        <4>1. 5 + i \in 3 .. c + 5
          BY <3>1
        <4>2. /\ a - 1 + (b + (5 + i)) = a + 2 + b + 2 + i
              /\ b + (5 + i) = b + 5 + i
          <5>1. a \in Nat /\ b \in Nat /\ i \in Nat
            BY <2>1, <3>1, <3>3
          <5>2. QED
            BY <5>1
        <4>3. dt_struct[a + 2 + b + 2 + i] = w[b + 5 + i]
          BY <3>5, <4>1, <4>2
        <4>4. QED
          BY <3>2, <4>3
      <3>8. PropAt(k, j) + 4 <= z
        <4>1. a \in Nat /\ c \in Nat
          BY <2>1, <3>1
        <4>2. QED
          BY <3>3, <3>4, <4>1
      <3>9. PropAt(k, j + 1) = PropAt(k, j) + 3 + (q.len + 3) \div 4
        <4>1. PropAt(k, j + 1) = PropAt(k, j) + 3 + c
          BY <2>1, <3>1, <3>3, <3>4
        <4>2. QED
          BY <3>1, <4>1
      <3>10. QED
        BY <3>1, <3>3, <3>6, <3>7, <3>8, <3>9 DEF PropPlace, q, c, z
    <2>9. ASSUME NEW j \in 1 .. m + 1
          PROVE  PropAt(k, j) \in Nat \ {0} /\ PropAt(k, j) < z
      <3>1. at[j] <= at[m + 1]
        <4>1. CASE j = m + 1
          BY <2>3, <2>5, <4>1
        <4>2. CASE j # m + 1
          <5>1. j \in 1 .. m /\ j + 1 \in 1 .. m + 1 /\ m + 1 \in 1 .. m + 1
            BY <2>3, <4>2
          <5> DEFINE q == node.props[j]
                     c == Len(q.words)
          <5>2. c \in Nat /\ c = (q.len + 3) \div 4
            <6>1. q \in Properties
              BY <2>4, <5>1
            <6>2. QED
              BY <6>1, WordsCounted
          <5>3. at[j + 1] = at[j] + 3 + (q.len + 3) \div 4 /\ at[j + 1] <= at[m + 1]
            BY <2>4, <5>1
          <5> HIDE DEF q, c
          <5>4. at[j + 1] = at[j] + 3 + c
            BY <5>2, <5>3
          <5>5. QED
            BY <2>5, <5>1, <5>2, <5>3, <5>4
        <4>3. QED
          BY <4>1, <4>2
      <3>2. at[j] \in Nat /\ at[m + 1] \in Nat
        BY <2>3, <2>5
      <3>3. PropAt(k, j) = a + 2 + at[j] /\ a \in Nat /\ z = a + (at[m + 1] + 3)
        BY <2>1, <2>3, <2>5
      <3>4. QED
        BY <3>1, <3>2, <3>3
    <2>10. QED
      BY <2>1, <2>2, <2>3, <2>6, <2>7, <2>8, <2>9 DEF NodePlace, a, z, m, n
  <1>3. QED
    BY <1>1, <1>2, TreeWords DEF TreePlace, n

-----------------------------------------------------------------------------
(* Where a reader that looks for a name stands: always at a token, never in *)
(* the words of a property.  `inside' says whether it is in a node of that   *)
(* name, and it has passed no reg of such a node.                            *)

AtRoot == p \in {1, 3} /\ ~inside

AtNode(name, least, k) == p = NodeAt(k) /\ ~inside /\ Passed(name, least, k, 1)

AtProp(name, least, k, j) ==
  p = PropAt(k, j) /\ (inside <=> tree[k].name = name) /\ Passed(name, least, k, j)

AtEnd(name, least) ==
  LET z == Len(tree) + 1
  IN  p \in {NodeAt(z) + 1, NodeAt(z) + 2} /\ ~inside /\ Passed(name, least, z, 1)

Place(name, least) ==
  \/ AtRoot
  \/ \E k \in 1 .. Len(tree) + 1 : AtNode(name, least, k)
  \/ \E k \in 1 .. Len(tree) : \E j \in 1 .. Len(tree[k].props) + 1 :
        AtProp(name, least, k, j)
  \/ AtEnd(name, least)

\* Each token is where it belongs.
LEMMA TokenRead ==
  ASSUME TreeGiven, NEW name, NEW least, Place(name, least)
  PROVE  LET n == Len(tree)
             M(k) == Len(tree[k].props)
         IN  /\ p \in Nat \ {0} /\ p <= Len(dt_struct)
             /\ \/ AtRoot /\ p = 1 /\ dt_struct[p] = BEGIN_NODE
                \/ AtRoot /\ p = 3 /\ dt_struct[p] = PROP
                \/ /\ dt_struct[p] = BEGIN_NODE
                   /\ \E k \in 1 .. n : AtNode(name, least, k)
                \/ /\ dt_struct[p] = PROP
                   /\ \E k \in 1 .. n : \E j \in 1 .. M(k) : AtProp(name, least, k, j)
                \/ /\ dt_struct[p] = END_NODE
                   /\ \E k \in 1 .. n : AtProp(name, least, k, M(k) + 1)
                \/ AtNode(name, least, n + 1) /\ dt_struct[p] = NOP
                \/ /\ AtEnd(name, least) /\ p = NodeAt(n + 1) + 1
                   /\ dt_struct[p] = END_NODE
                \/ /\ AtEnd(name, least) /\ p = NodeAt(n + 1) + 2
                   /\ dt_struct[p] = END
  <1> DEFINE n == Len(tree)
             M(k) == Len(tree[k].props)
             z == NodeAt(n + 1)
  <1>1. /\ n \in Nat /\ Len(dt_struct) = z + 2 /\ z \in Nat \ (0 .. 7)
        /\ dt_struct[1] = BEGIN_NODE /\ dt_struct[3] = PROP /\ dt_struct[z] = NOP
        /\ dt_struct[z + 1] = END_NODE /\ dt_struct[z + 2] = END
    BY TreeLaid DEF TreePlace
  <1>2. \A k \in 1 .. n : NodePlace(k) /\ NodeAt(k) \in Nat /\ NodeAt(k + 1) \in Nat
    <2>1. ASSUME NEW k \in 1 .. n
          PROVE  NodePlace(k) /\ NodeAt(k) \in Nat /\ NodeAt(k + 1) \in Nat
      <3>1. k \in 1 .. n + 1 /\ k + 1 \in 1 .. n + 1
        BY <1>1
      <3>2. QED
        BY <3>1, TreeLaid DEF TreePlace
    <2>2. QED
      BY <2>1
  <1>3. \A k \in 1 .. n : /\ M(k) \in Nat /\ NodeAt(k + 1) <= z
                          /\ dt_struct[NodeAt(k)] = BEGIN_NODE
                          /\ PropAt(k, 1) = NodeAt(k) + 2
                          /\ dt_struct[PropAt(k, M(k) + 1)] = END_NODE
    BY <1>2 DEF NodePlace
  <1>4. \A k \in 1 .. n : \A j \in 1 .. M(k) + 1 :
           PropAt(k, j) \in Nat \ {0} /\ PropAt(k, j) < NodeAt(k + 1)
    BY <1>2 DEF NodePlace
  <1>5. \A k \in 1 .. n : \A j \in 1 .. M(k) : dt_struct[PropAt(k, j)] = PROP
    BY <1>2 DEF NodePlace, PropPlace
  <1>6. ASSUME NEW k \in 1 .. n PROVE NodeAt(k) < z /\ NodeAt(k) # 0
    <2>1. 1 \in 1 .. M(k) + 1
      BY <1>3
    <2>2. PropAt(k, 1) < NodeAt(k + 1)
      BY <1>4, <2>1
    <2>3. k \in 1 .. n + 1
      BY <1>1
    <2>4. NodeAt(k) # 0
      BY <2>3, TreeLaid DEF TreePlace
    <2>5. QED
      BY <1>1, <1>2, <1>3, <2>2, <2>4
  <1> HIDE DEF n, M, z
  <1>7. CASE AtRoot
    <2>1. p \in {1, 3}
      BY <1>7 DEF AtRoot
    <2>2. p \in Nat \ {0} /\ p <= z + 2
      BY <1>1, <2>1
    <2>3. QED
      BY <1>1, <1>7, <2>1, <2>2
  <1>8. CASE \E k \in 1 .. n + 1 : AtNode(name, least, k)
    <2>1. PICK k \in 1 .. n + 1 : AtNode(name, least, k)
      BY <1>8
    <2>2. p = NodeAt(k)
      BY <2>1 DEF AtNode
    <2>3. CASE k = n + 1
      BY <1>1, <2>1, <2>2, <2>3 DEF z, n
    <2>4. CASE k # n + 1
      <3>1. k \in 1 .. n
        BY <1>1, <2>4
      <3>2. p \in Nat \ {0} /\ p <= z + 2 /\ dt_struct[p] = BEGIN_NODE
        BY <1>1, <1>2, <1>3, <1>6, <2>2, <3>1
      <3>3. QED
        BY <1>1, <2>1, <3>1, <3>2 DEF n
    <2>5. QED
      BY <2>3, <2>4
  <1>9. CASE \E k \in 1 .. n : \E j \in 1 .. M(k) + 1 : AtProp(name, least, k, j)
    <2>1. PICK k \in 1 .. n : \E j \in 1 .. M(k) + 1 : AtProp(name, least, k, j)
      BY <1>9
    <2>2. PICK j \in 1 .. M(k) + 1 : AtProp(name, least, k, j)
      BY <2>1
    <2>3. p = PropAt(k, j)
      BY <2>2 DEF AtProp
    <2>4. p \in Nat \ {0} /\ p < NodeAt(k + 1) /\ NodeAt(k + 1) <= z /\ NodeAt(k + 1) \in Nat
      BY <1>2, <1>3, <1>4, <2>3
    <2>5. p <= z + 2
      BY <1>1, <2>4
    <2>6. CASE j = M(k) + 1
      <3>1. dt_struct[p] = END_NODE
        BY <1>3, <2>3, <2>6
      <3>2. AtProp(name, least, k, M(k) + 1)
        BY <2>2, <2>6
      <3>3. QED
        BY <1>1, <2>4, <2>5, <3>1, <3>2 DEF n, M
    <2>7. CASE j # M(k) + 1
      <3>1. j \in 1 .. M(k)
        BY <1>3, <2>7
      <3>2. dt_struct[p] = PROP
        BY <1>5, <2>3, <3>1
      <3>3. QED
        BY <1>1, <2>2, <2>4, <2>5, <3>1, <3>2 DEF n, M
    <2>8. QED
      BY <2>6, <2>7
  <1>10. CASE AtEnd(name, least)
    <2>1. p = z + 1 \/ p = z + 2
      BY <1>10 DEF AtEnd, z, n
    <2>2. p \in Nat \ {0} /\ p <= z + 2
      BY <1>1, <2>1
    <2>3. QED
      BY <1>1, <1>10, <2>1, <2>2 DEF z, n
  <1>11. QED
    BY <1>7, <1>8, <1>9, <1>10 DEF Place, n, M

\* What a reader has passed: nothing at first, a property that is not such a
\* reg, a whole node, and at last the tree.
LEMMA PassedOn ==
  ASSUME TreeGiven, NEW name, NEW least
  PROVE  LET n == Len(tree)
             M(k) == Len(tree[k].props)
         IN  /\ Passed(name, least, 1, 1)
             /\ \A k \in 1 .. n : \A j \in 1 .. M(k) :
                   Passed(name, least, k, j) /\ ~IsReg(name, least, k, j)
                      => Passed(name, least, k, j + 1)
             /\ \A k \in 1 .. n :
                   Passed(name, least, k, M(k) + 1) => Passed(name, least, k + 1, 1)
             /\ Passed(name, least, n + 1, 1) => HasNone(name, least)
  <1> DEFINE n == Len(tree)
             M(k) == Len(tree[k].props)
  <1>1. n \in Nat /\ DOMAIN tree = 1 .. n
    BY TreeLaid DEF TreePlace
  <1>2. \A k \in 1 .. n : M(k) \in Nat /\ DOMAIN tree[k].props = 1 .. M(k)
    BY TreeLaid DEF TreePlace, NodePlace
  <1> HIDE DEF n, M
  <1> DEFINE R(k, j) == IsReg(name, least, k, j)
             P(k, j) == \A m \in 1 .. n : \A i \in 1 .. M(m) :
                           m < k \/ (m = k /\ i < j) => ~R(m, i)
  <1>3. \A k, j : Passed(name, least, k, j) <=> P(k, j)
    BY <1>1, <1>2 DEF Passed
  <1>4. HasNone(name, least) <=> \A k \in 1 .. n : \A j \in 1 .. M(k) : ~R(k, j)
    BY <1>1, <1>2 DEF HasNone
  <1> HIDE DEF R
  <1>5. P(1, 1)
    BY <1>1, <1>2
  <1>6. ASSUME NEW k \in 1 .. n, NEW j \in 1 .. M(k), P(k, j), ~R(k, j)
        PROVE  P(k, j + 1)
    <2>1. SUFFICES ASSUME NEW m \in 1 .. n, NEW i \in 1 .. M(m),
                          m < k \/ (m = k /\ i < j + 1)
                   PROVE  ~R(m, i)
      OBVIOUS
    <2>2. M(m) \in Nat /\ M(k) \in Nat
      BY <1>2
    <2>3. CASE m < k \/ (m = k /\ i < j)
      BY <1>6, <2>3
    <2>4. CASE ~(m < k \/ (m = k /\ i < j))
      <3>1. m = k /\ i = j
        BY <2>1, <2>2, <2>4
      <3>2. QED
        BY <1>6, <3>1
    <2>5. QED
      BY <2>3, <2>4
  <1>7. ASSUME NEW k \in 1 .. n, P(k, M(k) + 1)
        PROVE  P(k + 1, 1)
    <2>1. SUFFICES ASSUME NEW m \in 1 .. n, NEW i \in 1 .. M(m),
                          m < k + 1 \/ (m = k + 1 /\ i < 1)
                   PROVE  ~R(m, i)
      OBVIOUS
    <2>2. M(m) \in Nat
      BY <1>2
    <2>3. m < k \/ (m = k /\ i < M(k) + 1)
      BY <2>1, <2>2, <1>1
    <2>4. QED
      BY <1>7, <2>3
  <1>8. ASSUME P(n + 1, 1), NEW k \in 1 .. n, NEW j \in 1 .. M(k)
        PROVE  ~R(k, j)
    <2>1. k < n + 1
      BY <1>1
    <2>2. QED
      BY <1>8, <2>1
  <1> HIDE DEF P
  <1>9. QED
    BY <1>3, <1>4, <1>5, <1>6, <1>7, <1>8 DEF n, M, R

\* Where a step that leaves the tree alone takes a reader.
LEMMA Arrives ==
  ASSUME tree' = tree, NEW name, NEW least,
         LET z == Len(tree) + 1
         IN  \/ p' \in {1, 3} /\ ~inside'
             \/ \E k \in 1 .. z : /\ p' = NodeAt(k) /\ ~inside'
                                  /\ Passed(name, least, k, 1)
             \/ \E k \in 1 .. Len(tree) : \E j \in 1 .. Len(tree[k].props) + 1 :
                   /\ p' = PropAt(k, j) /\ (inside' <=> tree[k].name = name)
                   /\ Passed(name, least, k, j)
             \/ /\ p' \in {NodeAt(z) + 1, NodeAt(z) + 2} /\ ~inside'
                /\ Passed(name, least, z, 1)
  PROVE  Place(name, least)'
  <1>1. NodeSeq' = NodeSeq
    BY DEF NodeSeq
  <1>2. \A k : NodeAt(k)' = NodeAt(k)
    BY <1>1 DEF NodeAt
  <1>3. \A k, j : PropAt(k, j)' = PropAt(k, j)
    BY <1>2 DEF PropAt
  <1>4. \A k, j : IsReg(name, least, k, j)' = IsReg(name, least, k, j)
    BY DEF IsReg
  <1>5. \A k, j : Passed(name, least, k, j)' <=> Passed(name, least, k, j)
    BY <1>4 DEF Passed
  <1>6. QED
    BY <1>2, <1>3, <1>5 DEF Place, AtRoot, AtNode, AtProp, AtEnd

\* The steps of both readers up to the reg they look for: each takes them from
\* a token to the next one, and they know in whose node it is.
LEMMA Moves ==
  ASSUME TreeGiven, NEW name \in {Memory, Virtio}, NEW least, Place(name, least),
         tree' = tree,
         \/ dt_struct[p] = BEGIN_NODE /\ p' = p + 2 /\ inside' = (dt_struct[p + 1] = name)
         \/ /\ dt_struct[p] = PROP /\ ~(inside /\ PropName = Reg /\ PropLen >= least)
            /\ p' = p + 3 + (PropLen + 3) \div 4 /\ inside' = inside
         \/ dt_struct[p] = END_NODE /\ p' = p + 1 /\ inside' = FALSE
         \/ dt_struct[p] = NOP /\ p' = p + 1 /\ inside' = inside
  PROVE  Place(name, least)'
  <1> DEFINE n == Len(tree)
             M(k) == Len(tree[k].props)
             z == NodeAt(n + 1)
  <1>1. /\ n \in Nat /\ NodeAt(1) = 8 /\ name # Root
        /\ dt_struct[2] = Root /\ dt_struct[4] = 6 /\ dt_struct[5] = Compatible
    BY TreeLaid DEF TreePlace, Memory, Virtio, Root
  <1>2. \A k \in 1 .. n : /\ M(k) \in Nat /\ dt_struct[NodeAt(k) + 1] = tree[k].name
                          /\ PropAt(k, 1) = NodeAt(k) + 2
                          /\ NodeAt(k + 1) = PropAt(k, M(k) + 1) + 1
    BY TreeLaid DEF TreePlace, NodePlace
  <1>3. \A k \in 1 .. n : \A j \in 1 .. M(k) : PropPlace(k, j)
    BY TreeLaid DEF TreePlace, NodePlace
  <1>4. /\ BEGIN_NODE # PROP /\ BEGIN_NODE # END_NODE /\ BEGIN_NODE # NOP
        /\ PROP # END_NODE /\ PROP # NOP /\ END_NODE # NOP
        /\ END \notin {BEGIN_NODE, PROP, END_NODE, NOP} /\ Reg # Compatible
    BY DEF BEGIN_NODE, END_NODE, PROP, NOP, END, Reg, Compatible
  <1>5. /\ Passed(name, least, 1, 1)
        /\ \A k \in 1 .. n : \A j \in 1 .. M(k) :
              Passed(name, least, k, j) /\ ~IsReg(name, least, k, j)
                 => Passed(name, least, k, j + 1)
        /\ \A k \in 1 .. n :
              Passed(name, least, k, M(k) + 1) => Passed(name, least, k + 1, 1)
    BY PassedOn
  <1> HIDE DEF n, M, z
  <1> DEFINE Arrived ==
               \/ p' \in {1, 3} /\ ~inside'
               \/ \E k \in 1 .. n + 1 : /\ p' = NodeAt(k) /\ ~inside'
                                        /\ Passed(name, least, k, 1)
               \/ \E k \in 1 .. n : \E j \in 1 .. M(k) + 1 :
                     /\ p' = PropAt(k, j) /\ (inside' <=> tree[k].name = name)
                     /\ Passed(name, least, k, j)
               \/ /\ p' \in {z + 1, z + 2} /\ ~inside'
                  /\ Passed(name, least, n + 1, 1)
  <1>6. SUFFICES Arrived
    BY Arrives DEF n, M, z
  <1>7. CASE AtRoot /\ p = 1 /\ dt_struct[p] = BEGIN_NODE
    <2>1. p' = p + 2 /\ inside' = (dt_struct[p + 1] = name)
      BY <1>4, <1>7
    <2>2. p + 1 = 2 /\ p + 2 = 3
      BY <1>7
    <2>3. p' = 3 /\ ~inside'
      BY <1>1, <2>1, <2>2
    <2>4. QED
      BY <2>3
  <1>8. CASE AtRoot /\ p = 3 /\ dt_struct[p] = PROP
    <2>1. p' = p + 3 + (PropLen + 3) \div 4 /\ inside' = inside
      BY <1>4, <1>8
    <2>2. PropLen = 6
      BY <1>1, <1>8 DEF PropLen
    <2>3. p' = NodeAt(1)
      BY <1>1, <1>8, <2>1, <2>2
    <2>4. ~inside' /\ 1 \in 1 .. n + 1
      BY <1>1, <1>8, <2>1 DEF AtRoot
    <2>5. QED
      BY <1>5, <2>3, <2>4
  <1>9. CASE dt_struct[p] = BEGIN_NODE /\ \E k \in 1 .. n : AtNode(name, least, k)
    <2>1. PICK k \in 1 .. n : AtNode(name, least, k)
      BY <1>9
    <2>2. p' = PropAt(k, 1) /\ (inside' <=> tree[k].name = name) /\ Passed(name, least, k, 1)
      BY <1>2, <1>4, <1>9, <2>1 DEF AtNode
    <2>3. 1 \in 1 .. M(k) + 1
      BY <1>2
    <2>4. QED
      BY <2>2, <2>3
  <1>10. CASE /\ dt_struct[p] = PROP
              /\ \E k \in 1 .. n : \E j \in 1 .. M(k) : AtProp(name, least, k, j)
    <2>1. PICK k \in 1 .. n : \E j \in 1 .. M(k) : AtProp(name, least, k, j)
      BY <1>10
    <2>2. PICK j \in 1 .. M(k) : AtProp(name, least, k, j)
      BY <2>1
    <2> DEFINE q == tree[k].props[j]
    <2>3. /\ p = PropAt(k, j) /\ (inside <=> tree[k].name = name)
          /\ Passed(name, least, k, j)
      BY <2>2 DEF AtProp
    <2>4. /\ PropAt(k, j + 1) = p + 3 + (q.len + 3) \div 4
          /\ PropLen = q.len /\ PropName = q.name
      <3>1. PropPlace(k, j)
        BY <1>3
      <3>2. QED
        BY <2>3, <3>1 DEF PropPlace, PropLen, PropName
    <2>5. /\ ~(inside /\ PropName = Reg /\ PropLen >= least)
          /\ p' = p + 3 + (PropLen + 3) \div 4 /\ inside' = inside
      BY <1>4, <1>10
    <2>6. ~IsReg(name, least, k, j)
      BY <2>3, <2>4, <2>5 DEF IsReg
    <2>7. p' = PropAt(k, j + 1)
      BY <2>4, <2>5
    <2>8. Passed(name, least, k, j + 1) /\ (inside' <=> tree[k].name = name)
      BY <1>5, <2>3, <2>5, <2>6
    <2>9. j + 1 \in 1 .. M(k) + 1
      BY <1>2
    <2>10. QED
      BY <2>7, <2>8, <2>9
  <1>11. CASE /\ dt_struct[p] = END_NODE
              /\ \E k \in 1 .. n : AtProp(name, least, k, M(k) + 1)
    <2>1. PICK k \in 1 .. n : AtProp(name, least, k, M(k) + 1)
      BY <1>11
    <2>2. p' = NodeAt(k + 1) /\ ~inside'
      BY <1>2, <1>4, <1>11, <2>1 DEF AtProp
    <2>3. Passed(name, least, k + 1, 1) /\ k + 1 \in 1 .. n + 1
      BY <1>1, <1>5, <2>1 DEF AtProp
    <2>4. QED
      BY <2>2, <2>3
  <1>12. CASE AtNode(name, least, n + 1) /\ dt_struct[p] = NOP
    <2>1. p' = z + 1 /\ ~inside' /\ Passed(name, least, n + 1, 1)
      BY <1>4, <1>12 DEF AtNode, z
    <2>2. QED
      BY <2>1
  <1>13. CASE AtEnd(name, least) /\ p = z + 1 /\ dt_struct[p] = END_NODE
    <2>1. z \in Nat
      <3>1. n + 1 \in 1 .. n + 1
        BY <1>1
      <3>2. QED
        BY <3>1, TreeLaid DEF TreePlace, n, z
    <2>2. p' = z + 2 /\ ~inside'
      BY <1>4, <1>13, <2>1
    <2>3. Passed(name, least, n + 1, 1)
      BY <1>13 DEF AtEnd, n
    <2>4. QED
      BY <2>2, <2>3
  <1>14. ~(dt_struct[p] = END)
    BY <1>4
  <1>15. QED
    BY <1>7, <1>8, <1>9, <1>10, <1>11, <1>12, <1>13, <1>14, TokenRead DEF n, M, z

\* A reader that meets END has passed every node.
LEMMA EndMet ==
  ASSUME TreeGiven, NEW name, NEW least, Place(name, least),
         dt_struct[p] \notin {BEGIN_NODE, PROP, END_NODE, NOP}
  PROVE  HasNone(name, least)
  <1>1. AtEnd(name, least)
    BY TokenRead
  <1>2. QED
    BY <1>1, PassedOn DEF AtEnd

\* A reader that stops at a reg stops at the first one.
LEMMA RegMet ==
  ASSUME TreeGiven, NEW name \in {Memory, Virtio}, NEW least, Place(name, least),
         dt_struct[p] = PROP, inside, PropName = Reg, PropLen >= least
  PROVE  \E k \in DOMAIN tree : \E j \in DOMAIN tree[k].props :
            LET q == tree[k].props[j]
            IN  /\ IsFirst(name, least, k, j) /\ WellFormed(q)
                /\ q.len = PropLen
                /\ \A i \in 1 .. Len(q.words) : PropWord(i) = q.words[i]
  <1> DEFINE n == Len(tree)
             M(k) == Len(tree[k].props)
  <1>1. PICK k \in 1 .. n : \E j \in 1 .. M(k) : AtProp(name, least, k, j)
    <2>1. PROP \notin {BEGIN_NODE, END_NODE, NOP, END}
      BY DEF BEGIN_NODE, END_NODE, PROP, NOP, END
    <2>2. ~AtRoot
      BY DEF AtRoot
    <2>3. QED
      BY <2>1, <2>2, TokenRead
  <1>2. PICK j \in 1 .. M(k) : AtProp(name, least, k, j)
    BY <1>1
  <1>3. /\ NodePlace(k) /\ k \in DOMAIN tree
    BY TreeLaid DEF TreePlace
  <1>4. PropPlace(k, j) /\ j \in DOMAIN tree[k].props
    BY <1>3 DEF NodePlace
  <1> DEFINE q == tree[k].props[j]
  <1>5. /\ p = PropAt(k, j) /\ tree[k].name = name /\ Passed(name, least, k, j)
    BY <1>2 DEF AtProp
  <1>6. /\ q \in Properties /\ PropLen = q.len /\ PropName = q.name
        /\ \A i \in 1 .. Len(q.words) : PropWord(i) = q.words[i]
    BY <1>4, <1>5 DEF PropPlace, PropLen, PropName, PropWord
  <1>7. IsFirst(name, least, k, j)
    BY <1>5, <1>6 DEF IsFirst, IsReg
  <1>8. WellFormed(q)
    BY <1>6, PropertiesWellFormed
  <1>9. QED
    BY <1>3, <1>4, <1>6, <1>7, <1>8

\* The greatest of some numbers up to c.
LEMMA Greatest ==
  ASSUME NEW c \in Nat, NEW s \in SUBSET (1 .. c), s # {}
  PROVE  Max(s) \in s
  <1> DEFINE Has(t) == \E x \in t : \A y \in t : x >= y
             T == {m \in Nat : \A t \in SUBSET (1 .. m) : t # {} => Has(t)}
  <1>1. 0 \in T
    <2>1. ASSUME NEW t \in SUBSET (1 .. 0), t # {} PROVE FALSE
      <3>1. PICK x : x \in t
        BY <2>1
      <3>2. x \in 1 .. 0
        BY <3>1
      <3>3. QED
        BY <3>2
    <2>2. QED
      BY <2>1
  <1>2. ASSUME NEW m \in Nat, m \in T PROVE m + 1 \in T
    <2> SUFFICES ASSUME NEW t \in SUBSET (1 .. m + 1), t # {} PROVE Has(t)
      OBVIOUS
    <2>1. CASE m + 1 \in t
      BY <2>1
    <2>2. CASE m + 1 \notin t
      <3>1. t \in SUBSET (1 .. m)
        BY <2>2
      <3>2. QED
        BY <1>2, <3>1
    <2>3. QED
      BY <2>1, <2>2
  <1> HIDE DEF T
  <1>3. c \in T
    BY <1>1, <1>2, SetInduction
  <1>4. \E x \in s : \A y \in s : x >= y
    BY <1>3 DEF T
  <1>5. QED
    BY <1>4 DEF Max

\* The sum of the sizes of some banks: as the reader sums it, and of the words of
\* a property.
SumRead(c) == FoldLeft(LAMBDA sum, i : sum + Value(4 * i - 1), 0, [i \in 1 .. c |-> i])
SumOf(words, c) ==
  FoldLeft(LAMBDA sum, i : sum + (words[4 * i - 1] * Cell + words[4 * i]), 0,
           [i \in 1 .. c |-> i])

\* Sums of the same values are the same.
LEMMA SumsAgree ==
  ASSUME NEW c \in Nat, NEW words,
         \A i \in 1 .. c : Value(4 * i - 1) = words[4 * i - 1] * Cell + words[4 * i]
  PROVE  SumRead(c) = SumOf(words, c)
  <1> DEFINE S == 1 .. c
             seq == [i \in S |-> i]
             W(i) == words[4 * i - 1] * Cell + words[4 * i]
             V(i) == Value(4 * i - 1)
             Read(g) == [s \in SUBSET S |-> IF s = {} THEN 0
                                            ELSE g[s \ {Max(s)}] + V(seq[Max(s)])]
             Given(g) == [s \in SUBSET S |-> IF s = {} THEN 0
                                             ELSE g[s \ {Max(s)}] + W(seq[Max(s)])]
  <1>1. \A g : Read(g) = Given(g)
    <2>1. ASSUME NEW g, NEW s \in SUBSET S, s # {}
          PROVE  V(seq[Max(s)]) = W(seq[Max(s)])
      <3>1. Max(s) \in S
        BY <2>1, Greatest
      <3> HIDE DEF V, W
      <3>2. seq[Max(s)] \in S
        BY <3>1
      <3> HIDE DEF seq
      <3>3. QED
        BY <3>2 DEF V, W
    <2> HIDE DEF V, W, seq
    <2>2. QED
      BY <2>1
  <1>2. DOMAIN seq = S
    OBVIOUS
  <1>3. SumRead(c) = (CHOOSE g : g = Read(g))[S]
    BY <1>2, Zenon DEF SumRead, FoldLeft, MapThenFoldSet
  <1>4. SumOf(words, c) = (CHOOSE g : g = Given(g))[S]
    BY <1>2, Zenon DEF SumOf, FoldLeft, MapThenFoldSet
  <1>5. (CHOOSE g : g = Read(g)) = (CHOOSE g : g = Given(g))
    <2> HIDE DEF Read, Given
    <2>1. QED
      BY <1>1
  <1>6. QED
    BY <1>3, <1>4, <1>5

-----------------------------------------------------------------------------
(* What the readers return. *)

\* What get_total_ram and get_drive_info are to return.
TotalFound(total) ==
  \/ HasNone(Memory, 0) /\ total = 0
  \/ \E k \in DOMAIN tree : \E j \in DOMAIN tree[k].props :
        /\ IsFirst(Memory, 0, k, j)
        /\ LET reg == tree[k].props[j]
           IN  total = SumOf(reg.words, reg.len \div 16)

AddressFound(address) ==
  \/ HasNone(Virtio, 1) /\ address = Before
  \/ \E k \in DOMAIN tree : \E j \in DOMAIN tree[k].props :
        /\ IsFirst(Virtio, 1, k, j)
        /\ LET reg == tree[k].props[j]
           IN  address = reg.words[1] * Cell + reg.words[2]

\* The readers stand at a token of a tree, each in its node, until they return.
TInv ==
  \/ tree = Unread /\ reader = "done"
  \/ /\ TreeGiven /\ reader \in {"ram", "drive", "done"}
     /\ reader = "ram" => Place(Memory, 0)
     /\ reader = "drive" => Place(Virtio, 1)
     /\ info = [address |-> info.address, size |-> info.size, irq |-> info.irq]
     /\ reader # "done" => info.address = Before
     /\ reader # "ram" => TotalFound(total_ram)
     /\ reader = "done" => AddressFound(info.address)

\* The invariant says what both readers are to return.
LEMMA TInvMeans == TInv => RamIsMemory /\ DriveIsFirstTransport
  <1> SUFFICES ASSUME TInv PROVE RamIsMemory /\ DriveIsFirstTransport
    OBVIOUS
  <1>1. CASE tree = Unread
    BY <1>1 DEF RamIsMemory, DriveIsFirstTransport
  <1>2. CASE tree # Unread
    <2>1. reader # "ram" => TotalFound(total_ram)
      BY <1>2 DEF TInv
    <2>2. reader = "done" => AddressFound(info.address)
      BY <1>2 DEF TInv
    <2>3. RamIsMemory
      BY <2>1 DEF TotalFound, RamIsMemory, SumOf
    <2>4. DriveIsFirstTransport
      BY <2>2 DEF AddressFound, DriveIsFirstTransport
    <2>5. QED
      BY <2>3, <2>4
  <1>3. QED
    BY <1>1, <1>2

\* What is to be found is in the tree, which no reader writes.
LEMMA FoundKept ==
  ASSUME tree' = tree
  PROVE  /\ TreeGiven' <=> TreeGiven
         /\ \A total : TotalFound(total)' <=> TotalFound(total)
         /\ \A address : AddressFound(address)' <=> AddressFound(address)
  <1>1. \A name, least, k, j :
           /\ IsReg(name, least, k, j)' <=> IsReg(name, least, k, j)
           /\ HasNone(name, least)' <=> HasNone(name, least)
    BY DEF IsReg, HasNone
  <1>2. \A name, least, k, j : IsFirst(name, least, k, j)' <=> IsFirst(name, least, k, j)
    BY <1>1 DEF IsFirst, Passed
  <1>3. TreeGiven' <=> TreeGiven
    BY DEF TreeGiven
  <1>4. \A total : TotalFound(total)' <=> TotalFound(total)
    BY <1>1, <1>2 DEF TotalFound
  <1>5. \A address : AddressFound(address)' <=> AddressFound(address)
    BY <1>1, <1>2 DEF AddressFound
  <1>6. QED
    BY <1>3, <1>4, <1>5

\* A reader starts at the root.
LEMMA StartsAtRoot ==
  ASSUME p' = 1, inside' = FALSE, NEW name, NEW least
  PROVE  Place(name, least)'
  BY DEF Place, AtRoot

\* In the node it looks for, a reader reads the length of a property.
LEMMA LengthRead ==
  ASSUME TreeGiven, NEW name, NEW least, Place(name, least),
         dt_struct[p] = PROP, inside
  PROVE  PropLen \in Nat
  <1>1. PICK k \in 1 .. Len(tree) : \E j \in 1 .. Len(tree[k].props) :
                AtProp(name, least, k, j)
    <2>1. PROP \notin {BEGIN_NODE, END_NODE, NOP, END}
      BY DEF BEGIN_NODE, END_NODE, PROP, NOP, END
    <2>2. ~AtRoot
      BY DEF AtRoot
    <2>3. QED
      BY <2>1, <2>2, TokenRead
  <1>2. PICK j \in 1 .. Len(tree[k].props) : AtProp(name, least, k, j)
    BY <1>1
  <1>3. PropPlace(k, j) /\ p = PropAt(k, j)
    BY <1>2, TreeLaid DEF TreePlace, NodePlace, AtProp
  <1>4. tree[k].props[j] \in Properties /\ PropLen = tree[k].props[j].len
    BY <1>3 DEF PropPlace, PropLen
  <1>5. QED
    BY <1>4, PropertiesWellFormed DEF WellFormed

\* get_total_ram keeps it, and returns the sum over the first reg of a memory node.
LEMMA RamKeeps ==
  ASSUME TInv, GetTotalRam
  PROVE  TInv'
  <1>1. reader = "ram" /\ tree' = tree
    BY DEF GetTotalRam, At, RamReg, RamEnd, Begin, SkipProp, EndNode, Nop
  <1>2. /\ TreeGiven /\ Place(Memory, 0) /\ info.address = Before
        /\ info = [address |-> info.address, size |-> info.size, irq |-> info.irq]
    BY <1>1 DEF TInv
  <1>3. info' = info
    BY DEF GetTotalRam, RamReg, RamEnd, Begin, EndNode, Nop
  <1>4. CASE RamReg
    <2>1. /\ reader' = "drive" /\ p' = 1 /\ inside' = FALSE
          /\ dt_struct[p] = PROP /\ inside /\ PropName = Reg
          /\ total_ram' = SumRead(PropLen \div 16)
      BY <1>4 DEF RamReg, Return, At, SumRead
    <2>2. PropLen \in Nat
      BY <1>2, <2>1, LengthRead
    <2>3. PICK k \in DOMAIN tree : \E j \in DOMAIN tree[k].props :
              LET q == tree[k].props[j]
              IN  /\ IsFirst(Memory, 0, k, j) /\ WellFormed(q)
                  /\ q.len = PropLen
                  /\ \A i \in 1 .. Len(q.words) : PropWord(i) = q.words[i]
      <3> DEFINE least == 0
      <3>1. PropLen >= least /\ Place(Memory, least)
        BY <1>2, <2>2
      <3> HIDE DEF least
      <3>2. \E k \in DOMAIN tree : \E j \in DOMAIN tree[k].props :
              LET q == tree[k].props[j]
              IN  /\ IsFirst(Memory, least, k, j) /\ WellFormed(q)
                  /\ q.len = PropLen
                  /\ \A i \in 1 .. Len(q.words) : PropWord(i) = q.words[i]
        BY <1>2, <2>1, <3>1, RegMet
      <3>3. QED
        BY <3>2 DEF least
    <2>4. PICK j \in DOMAIN tree[k].props :
              LET q == tree[k].props[j]
              IN  /\ IsFirst(Memory, 0, k, j) /\ WellFormed(q)
                  /\ q.len = PropLen
                  /\ \A i \in 1 .. Len(q.words) : PropWord(i) = q.words[i]
      BY <2>3
    <2> DEFINE q == tree[k].props[j]
               words == q.words
               c == PropLen \div 16
    <2>5. c \in Nat /\ 16 * c <= PropLen
      BY <2>2
    <2>6. 4 * c <= Len(words) /\ Len(words) \in Nat
      <3>1. Len(words) \in Nat /\ Len(words) = (PropLen + 3) \div 4
        BY <2>4 DEF WellFormed
      <3> HIDE DEF words, c
      <3>2. QED
        BY <2>2, <2>5, <3>1
    <2> HIDE DEF c
    <2>7. ASSUME NEW i \in 1 .. c
          PROVE  Value(4 * i - 1) = words[4 * i - 1] * Cell + words[4 * i]
      <3>1. /\ 4 * i - 1 \in 1 .. Len(words) /\ 4 * i \in 1 .. Len(words)
            /\ (4 * i - 1) + 1 = 4 * i
        <4> HIDE DEF words
        <4>1. QED
          BY <2>5, <2>6
      <3>2. PropWord(4 * i - 1) = words[4 * i - 1] /\ PropWord(4 * i) = words[4 * i]
        BY <2>4, <3>1
      <3>3. QED
        BY <3>1, <3>2 DEF Value
    <2>8. total_ram' = SumOf(words, c)
      <3> HIDE DEF words
      <3>1. SumRead(c) = SumOf(words, c)
        BY <2>5, <2>7, SumsAgree
      <3>2. QED
        BY <2>1, <3>1 DEF c
    <2>9. TotalFound(total_ram')
      BY <2>4, <2>8 DEF TotalFound, c
    <2>10. Place(Virtio, 1)'
      BY <2>1, StartsAtRoot
    <2>11. QED
      BY <1>1, <1>2, <1>3, <2>1, <2>9, <2>10, FoundKept DEF TInv
  <1>5. CASE RamEnd
    <2>1. /\ reader' = "drive" /\ p' = 1 /\ inside' = FALSE /\ total_ram' = 0
          /\ dt_struct[p] \notin {BEGIN_NODE, PROP, END_NODE, NOP}
      BY <1>5 DEF RamEnd, Return
    <2>2. TotalFound(total_ram')
      BY <1>2, <2>1, EndMet DEF TotalFound
    <2>3. Place(Virtio, 1)'
      BY <2>1, StartsAtRoot
    <2>4. QED
      BY <1>1, <1>2, <1>3, <2>1, <2>2, <2>3, FoundKept DEF TInv
  <1>6. CASE ~RamReg /\ ~RamEnd
    <2>1. /\ reader' = reader
          /\ \/ /\ dt_struct[p] = BEGIN_NODE /\ p' = p + 2
                /\ inside' = (dt_struct[p + 1] = Memory)
             \/ /\ dt_struct[p] = PROP /\ ~(inside /\ PropName = Reg /\ PropLen >= 0)
                /\ p' = p + 3 + (PropLen + 3) \div 4 /\ inside' = inside
             \/ dt_struct[p] = END_NODE /\ p' = p + 1 /\ inside' = FALSE
             \/ dt_struct[p] = NOP /\ p' = p + 1 /\ inside' = inside
      BY <1>6 DEF GetTotalRam, At, Begin, SkipProp, EndNode, Nop
    <2>2. Place(Memory, 0)'
      BY <1>1, <1>2, <2>1, Moves
    <2>3. QED
      BY <1>1, <1>2, <1>3, <2>1, <2>2, FoundKept DEF TInv
  <1>7. QED
    BY <1>4, <1>5, <1>6

\* get_drive_info keeps it, and returns the address of the first reg of a virtio node.
LEMMA DriveKeeps ==
  ASSUME TInv, GetDriveInfo
  PROVE  TInv'
  <1>1. reader = "drive" /\ tree' = tree /\ total_ram' = total_ram
    BY DEF GetDriveInfo, At, DriveReg, DriveProp, DriveSkip, DriveEnd, Begin, SkipProp, EndNode
  <1>2. /\ TreeGiven /\ Place(Virtio, 1) /\ info.address = Before /\ TotalFound(total_ram)
        /\ info = [address |-> info.address, size |-> info.size, irq |-> info.irq]
    BY <1>1 DEF TInv
  <1>3. CASE DriveReg
    <2>1. /\ reader' = "done"
          /\ dt_struct[p] = PROP /\ inside /\ PropName = Reg /\ PropLen > 0
          /\ info' = [info EXCEPT !.address = Value(1), !.size = Value(3)]
      BY <1>3 DEF DriveReg, Return, At
    <2>2. /\ info' = [address |-> info'.address, size |-> info'.size, irq |-> info'.irq]
          /\ info'.address = Value(1)
      <3> DEFINE a == Value(1)
                 b == Value(3)
      <3> HIDE DEF a, b
      <3>1. info' = [info EXCEPT !.address = a, !.size = b]
        BY <2>1 DEF a, b
      <3>2. QED
        BY <1>2, <3>1 DEF a
    <2>3. PropLen \in Nat /\ PropLen >= 1
      <3>1. PropLen \in Nat
        BY <1>2, <2>1, LengthRead
      <3>2. QED
        BY <2>1, <3>1
    <2>4. PICK k \in DOMAIN tree : \E j \in DOMAIN tree[k].props :
              LET q == tree[k].props[j]
              IN  /\ IsFirst(Virtio, 1, k, j) /\ WellFormed(q)
                  /\ q.len = PropLen
                  /\ \A i \in 1 .. Len(q.words) : PropWord(i) = q.words[i]
      BY <1>2, <2>1, <2>3, RegMet
    <2>5. PICK j \in DOMAIN tree[k].props :
              LET q == tree[k].props[j]
              IN  /\ IsFirst(Virtio, 1, k, j) /\ WellFormed(q)
                  /\ q.len = PropLen
                  /\ \A i \in 1 .. Len(q.words) : PropWord(i) = q.words[i]
      BY <2>4
    <2> DEFINE q == tree[k].props[j]
    <2>6. 1 \in 1 .. Len(q.words) /\ 2 \in 1 .. Len(q.words)
      <3>1. q.name = Reg
        BY <2>5 DEF IsFirst, IsReg
      <3>2. q.len >= 16 /\ q.len \in Nat /\ Len(q.words) = (q.len + 3) \div 4
        BY <2>3, <2>5, <3>1 DEF WellFormed
      <3>3. QED
        BY <3>2
    <2>7. Value(1) = q.words[1] * Cell + q.words[2]
      <3>1. PropWord(1) = q.words[1] /\ PropWord(2) = q.words[2] /\ 1 + 1 = 2
        BY <2>5, <2>6
      <3>2. QED
        BY <3>1 DEF Value
    <2>8. AddressFound(info'.address)
      BY <2>2, <2>5, <2>7 DEF AddressFound
    <2>9. QED
      BY <1>1, <1>2, <2>1, <2>2, <2>8, FoundKept DEF TInv
  <1>4. CASE DriveEnd
    <2>1. /\ reader' = "done" /\ info' = info
          /\ dt_struct[p] \notin {BEGIN_NODE, PROP, END_NODE, NOP}
      BY <1>4 DEF DriveEnd, Return, At, BEGIN_NODE, PROP, END_NODE, NOP, END
    <2>2. AddressFound(info'.address)
      BY <1>2, <2>1, EndMet DEF AddressFound
    <2>3. QED
      BY <1>1, <1>2, <2>1, <2>2, FoundKept DEF TInv
  <1>5. CASE ~DriveReg /\ ~DriveEnd
    <2>1. /\ reader' = reader
          /\ \/ /\ dt_struct[p] = BEGIN_NODE /\ p' = p + 2
                /\ inside' = (dt_struct[p + 1] = Virtio)
             \/ /\ dt_struct[p] = PROP /\ ~(inside /\ PropName = Reg /\ PropLen >= 1)
                /\ p' = p + 3 + (PropLen + 3) \div 4 /\ inside' = inside
             \/ dt_struct[p] = END_NODE /\ p' = p + 1 /\ inside' = FALSE
             \/ dt_struct[p] = NOP /\ p' = p + 1 /\ inside' = inside
      <3>1. CASE DriveSkip
        <4>1. /\ reader' = reader /\ inside' = inside
              /\ dt_struct[p] \notin {BEGIN_NODE, PROP, END_NODE, END}
              /\ dt_struct[p] = NOP => p' = p + 1
          BY <3>1 DEF DriveSkip
        <4>2. dt_struct[p] \in {BEGIN_NODE, PROP, END_NODE, NOP, END}
          BY <1>2, TokenRead
        <4>3. QED
          BY <4>1, <4>2
      <3>2. CASE DriveProp
        <4>1. /\ reader' = reader /\ inside' = inside /\ dt_struct[p] = PROP
              /\ p' = p + 3 + (PropLen + 3) \div 4
              /\ ~(inside /\ PropName = Reg /\ PropLen > 0)
          BY <3>2 DEF DriveProp, SkipProp, At
        <4>2. inside => PropLen \in Nat
          BY <1>2, <4>1, LengthRead
        <4>3. ~(inside /\ PropName = Reg /\ PropLen >= 1)
          BY <4>1, <4>2
        <4>4. QED
          BY <4>1, <4>3
      <3>3. QED
        BY <1>5, <3>1, <3>2 DEF GetDriveInfo, At, Begin, EndNode
    <2>2. Place(Virtio, 1)'
      BY <1>1, <1>2, <2>1, Moves
    <2>3. /\ info' = [address |-> info'.address, size |-> info'.size, irq |-> info'.irq]
          /\ info'.address = Before
      <3>1. info' = info \/ \E x : info' = [info EXCEPT !.irq = x]
        BY <1>5 DEF GetDriveInfo, Begin, EndNode, DriveSkip, DriveProp
      <3>2. QED
        BY <1>2, <3>1
    <2>4. QED
      BY <1>1, <1>2, <2>1, <2>2, <2>3, FoundKept DEF TInv
  <1>6. QED
    BY <1>3, <1>4, <1>5

\* A reg of a node that is not a memory node holds the address of a transport.
LEMMA RegsHoldAddresses ==
  ASSUME NEW n \in NodeSet, n.name = Virtio, NEW j \in DOMAIN n.props,
         n.props[j].name = Reg, n.props[j].len >= 1
  PROVE  n.props[j].words[1] * Cell + n.props[j].words[2] \in Addresses
  <1> DEFINE q == n.props[j]
  <1>1. n.props \in PropLists(Regs)
    BY DEF NodeSet, Virtio, Memory
  <1>2. \/ n.props \in {<< >>, <<Text>>, <<NoReg, Text>>}
        \/ \E r \in Regs : n.props \in {<<r>>, <<Irq, r, Text>>, <<Text, r>>, <<r, Irq>>}
    BY <1>1, Zenon DEF PropLists
  <1>3. q \in {Text, NoReg, Irq} \cup Regs
    <2>1. ASSUME NEW l, NEW i \in DOMAIN l, l \in {<< >>, <<Text>>, <<NoReg, Text>>}
          PROVE  l[i] \in {Text, NoReg}
      BY <2>1
    <2>2. ASSUME NEW l, NEW i \in DOMAIN l, NEW r \in Regs,
                 l \in {<<r>>, <<Irq, r, Text>>, <<Text, r>>, <<r, Irq>>}
          PROVE  l[i] \in {r, Irq, Text}
      BY <2>2
    <2>3. QED
      BY <1>2, <2>1, <2>2
  <1>4. q \notin {Text, NoReg, Irq}
    BY DEF Text, NoReg, Irq, Property, Reg, Interrupts, Compatible
  <1>5. PICK a \in Addresses : q = Property(Reg, 16, <<a \div Cell, a % Cell, 0, 2>>)
    BY <1>3, <1>4 DEF Regs
  <1>6. q.words[1] = a \div Cell /\ q.words[2] = a % Cell
    BY <1>5 DEF Property
  <1>7. (a \div Cell) * Cell + (a % Cell) = a
    <2>1. a \in Nat /\ Cell \in Nat \ {0}
      BY DeviceTreeAssumption
    <2>2. QED
      BY <2>1
  <1>8. QED
    BY <1>6, <1>7

\* What get_drive_info returns is the address of a transport, or what was in memory.
AddressListed == info.address \in Addresses \cup {Before}

\* It is one when the tree has a virtio node with registers.
LEMMA FoundListed ==
  ASSUME TreeGiven, NEW a, AddressFound(a)
  PROVE  a \in Addresses \cup {Before}
  <1>1. CASE a = Before
    BY <1>1
  <1>2. CASE \E k \in DOMAIN tree : \E j \in DOMAIN tree[k].props :
                /\ IsFirst(Virtio, 1, k, j)
                /\ LET reg == tree[k].props[j]
                   IN  a = reg.words[1] * Cell + reg.words[2]
    <2>1. PICK k \in DOMAIN tree : \E j \in DOMAIN tree[k].props :
                /\ IsFirst(Virtio, 1, k, j)
                /\ LET reg == tree[k].props[j]
                   IN  a = reg.words[1] * Cell + reg.words[2]
      BY <1>2
    <2>2. PICK j \in DOMAIN tree[k].props :
                /\ IsFirst(Virtio, 1, k, j)
                /\ LET reg == tree[k].props[j]
                   IN  a = reg.words[1] * Cell + reg.words[2]
      BY <2>1
    <2>3. tree[k] \in NodeSet
      BY DEF TreeGiven
    <2>4. /\ tree[k].name = Virtio /\ tree[k].props[j].name = Reg
          /\ tree[k].props[j].len >= 1
      BY <2>2 DEF IsFirst, IsReg
    <2>5. tree[k].props[j].words[1] * Cell + tree[k].props[j].words[2] \in Addresses
      BY <2>3, <2>4, RegsHoldAddresses
    <2>6. QED
      BY <2>2, <2>5
  <1>3. QED
    BY <1>1, <1>2 DEF AddressFound

\* No tree looks like the one that is no longer read.
LEMMA UnreadIsNone == TreeGiven => tree # Unread
  <1> SUFFICES ASSUME TreeGiven, tree = Unread PROVE FALSE
    OBVIOUS
  <1>1. << >> \in NodeSet
    BY DEF TreeGiven, Unread
  <1>2. \A n \in NodeSet : "name" \in DOMAIN n
    BY DEF NodeSet
  <1>3. DOMAIN << >> = {}
    OBVIOUS
  <1>4. QED
    BY <1>1, <1>2, <1>3

-----------------------------------------------------------------------------
(* The theorems about the tree. *)

\* The readers are where they should be throughout boot: nothing else writes what
\* they keep, and the probe starts when both have returned.
LEMMA TreeInvariance == BootSpec => []TInv
  <1>1. BootInit => TInv
    <2> SUFFICES ASSUME BootInit PROVE TInv
      OBVIOUS
    <2>1. TreeGiven
      BY DEF BootInit, TreeInit, TreeGiven
    <2>2. reader = "ram" /\ AtRoot
      BY DEF BootInit, TreeInit, AtRoot
    <2>3. info = [address |-> Before, size |-> Before,
                    irq |-> <<Before, Before, Before>>]
      BY DEF BootInit, TreeInit
    <2>4. /\ info = [address |-> info.address, size |-> info.size, irq |-> info.irq]
          /\ info.address = Before
      BY <2>3
    <2>5. QED
      BY <2>1, <2>2, <2>4 DEF TInv, Place
  <1>2. TInv /\ [BootNext]_bvars => TInv'
    <2> SUFFICES ASSUME TInv, [BootNext]_bvars PROVE TInv'
      OBVIOUS
    <2>1. CASE TreeNext
      BY <2>1, RamKeeps, DriveKeeps DEF TreeNext
    <2>2. CASE StartProbe
      BY <2>2 DEF StartProbe, TInv
    <2>3. CASE UNCHANGED tvars
      <3>1. UNCHANGED <<tree, reader, p, inside, total_ram, info>>
        BY <2>3 DEF tvars
      <3>2. \A name, least : Place(name, least) => Place(name, least)'
        <4>1. ASSUME NEW name, NEW least, Place(name, least)
              PROVE  Place(name, least)'
          BY <3>1, <4>1, Arrives DEF Place, AtRoot, AtNode, AtProp, AtEnd
        <4>2. QED
          BY <4>1
      <3>3. QED
        BY <3>1, <3>2, FoundKept DEF TInv
    <2>4. QED
      BY <2>1, <2>2, <2>3 DEF BootNext, bvars, KeepMachine, Probe, Reset, Acknowledge,
         Negotiate, FeaturesOk, InitQueue, QueueNum, InitVirtioRegisters, QueueReady,
         DriverOk, FirstTransfer
  <1>3. QED
    BY <1>1, <1>2, PTL DEF BootSpec

\* get_total_ram returns the memory of the first reg of a memory node, all its
\* banks, or 0 when there is none: for every tree.
THEOREM RamIsRight == BootSpec => []RamIsMemory
  BY TreeInvariance, TInvMeans, PTL

\* get_drive_info returns the address of the first virtio node that has registers,
\* or leaves the result as it was when there is none: for every tree.
THEOREM DriveIsRight == BootSpec => []DriveIsFirstTransport
  BY TreeInvariance, TInvMeans, PTL

\* Both readers read within the structure block and at its tokens, never at the
\* words of a property, whatever tokens those look like.
ReaderAtToken ==
  reader # "done" =>
     /\ p \in DOMAIN dt_struct
     /\ dt_struct[p] \in {BEGIN_NODE, PROP, END_NODE, NOP, END}

\* The loops of get_total_ram and get_drive_info never lose the token stream.
THEOREM ReadersStayAtTokens == BootSpec => []ReaderAtToken
  <1>1. TInv => ReaderAtToken
    <2> SUFFICES ASSUME TInv, reader # "done" PROVE ReaderAtToken
      BY DEF ReaderAtToken
    <2>1. TreeGiven
      BY DEF TInv
    <2>2. PICK name, least : Place(name, least)
      BY DEF TInv
    <2>3. /\ p \in Nat \ {0} /\ p <= Len(dt_struct)
          /\ dt_struct[p] \in {BEGIN_NODE, PROP, END_NODE, NOP, END}
      BY <2>1, <2>2, TokenRead
    <2>4. dt_struct \in Seq(Nat)
      BY <2>1, TreeLaid DEF TreePlace
    <2>5. p \in DOMAIN dt_struct
      BY <2>3, <2>4
    <2>6. QED
      BY <2>3, <2>5 DEF ReaderAtToken
  <1>2. QED
    BY <1>1, TreeInvariance, PTL

\* init_virtio_backend maps the window around a transport of the machine, or around
\* whatever the page of drive_info held.
THEOREM AddressIsListed == BootSpec => []AddressListed
  <1> DEFINE K == TInv /\ AddressListed
  <1>1. TInv /\ tree # Unread => AddressListed
    <2> SUFFICES ASSUME TInv, tree # Unread PROVE AddressListed
      OBVIOUS
    <2>1. reader # "done" => info.address = Before
      BY DEF TInv
    <2>2. reader = "done" => TreeGiven /\ AddressFound(info.address)
      BY DEF TInv
    <2>3. QED
      BY <2>1, <2>2, FoundListed DEF AddressListed
  <1>2. BootInit => AddressListed
    BY DEF BootInit, TreeInit, AddressListed
  <1>3. TInv /\ AddressListed /\ TInv' /\ [BootNext]_bvars => AddressListed'
    <2> SUFFICES ASSUME TInv, AddressListed, TInv', [BootNext]_bvars PROVE AddressListed'
      OBVIOUS
    <2>1. CASE tree' # Unread
      <3>1. (TInv /\ tree # Unread => AddressListed)'
        BY <1>1, PTL
      <3>2. QED
        BY <2>1, <3>1
    <2>2. CASE UNCHANGED info
      BY <2>2 DEF AddressListed
    <2>3. CASE TreeNext
      <3>1. TreeGiven /\ tree' = tree
        <4>1. GetTotalRam => tree' = tree
          BY DEF GetTotalRam, RamReg, RamEnd, Begin, SkipProp, EndNode, Nop
        <4>2. GetDriveInfo => tree' = tree
          BY DEF GetDriveInfo, DriveReg, DriveProp, DriveSkip, DriveEnd, Begin, SkipProp,
             EndNode
        <4>3. QED
          BY <2>3, <4>1, <4>2, ReadersDone DEF TInv, TreeNext
      <3>2. tree' # Unread
        BY <3>1, UnreadIsNone
      <3>3. QED
        BY <2>1, <3>2
    <2>4. QED
      BY <2>2, <2>3 DEF BootNext, bvars, tvars, KeepMachine, StartProbe, Probe, Reset,
         Acknowledge, Negotiate, FeaturesOk, InitQueue, QueueNum, InitVirtioRegisters,
         QueueReady, DriverOk, FirstTransfer
  <1>4. QED
    BY <1>2, <1>3, TreeInvariance, PTL DEF BootSpec

\* With the transports of the machine in the block Boot.tla places them in, the safety
\* half of FirstTransferServed holds whichever of them the tree lists: a usable disk is
\* never passed over, nor another device taken for it, nor waited for in vain.
THEOREM UsableDiskServed ==
  ASSUME \A a \in Addresses : a \div Block = 1
  PROVE  BootSpec => [](Usable => /\ pc # "no device"
                                  /\ pc = "io" => Live /\ Behind(index) = "blk")
  <1>1. UsableNeverStuck => (Usable => /\ pc # "no device"
                                       /\ pc = "io" => Live /\ Behind(index) = "blk")
    <2>1. Usable => info.address \div Block = 1
      BY DEF Usable
    <2>2. QED
      BY <2>1, Zenon DEF UsableNeverStuck
  <1>2. QED
    BY <1>1, UsableDiskComesUp, PTL
=============================================================================
