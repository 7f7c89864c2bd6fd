------------------------- MODULE BlockDriver_proofs -------------------------
(***************************************************************************)
(* Proofs about BlockDriver.tla for calls that do not overlap, as in the   *)
(* kernel: any number of callers, requests, slots and queue entries.       *)
(***************************************************************************)
EXTENDS BlockDriver, FiniteSetTheorems, TLAPS

\* Where a call has not yet counted its request in avail.idx, and where it holds
\* its slot.
Unpublished == {"lock", "find", "ring", "idx"}
Holding == {"ring", "idx", "snapshot", "notify", "poll", "release"}

\* Only the first slot, descriptor 0 and ring entries of 0 are ever used.
FirstSlotOnly ==
  /\ free_index = [c \in Callers |-> 0]
  /\ avail \in [idx : 0..MaxRequests, ring : [RingIndices -> {0}]]
  /\ ~broken
  /\ used_slot \in [Slots -> BOOLEAN]
  /\ \A i \in Slots : used_slot[i] => i = 0
  /\ used_slot[0] <=> \E c \in Callers : pc[c] \in Holding

\* One call at a time, and its request is the last one prepared.
OneCall ==
  /\ \A c, d \in Active : c = d
  /\ \A c \in Callers : request[c] <= prepared
  /\ \A c \in Active :
       /\ request[c] = prepared /\ prepared > 0
       /\ \A d \in Callers \ {c} : request[d] < prepared

\* The driver and the device have dealt with everything up to request n.
DealtWith(n) == avail.idx = n /\ announced = n /\ taken = n /\ used.idx = n

\* How far the queue is at each step of the call.
QueueInStep ==
  /\ Active = {} => DealtWith(prepared)
  /\ \A c \in Active :
       /\ pc[c] \in Unpublished => DealtWith(prepared - 1)
       /\ pc[c] \in {"snapshot", "notify", "poll"} => avail.idx = prepared
       /\ pc[c] \in {"snapshot", "notify"} => announced = prepared - 1
       /\ pc[c] = "poll" => announced = prepared
       /\ pc[c] \in {"notify", "poll"} => last_seen[c] \in {prepared - 1, used.idx}
       /\ pc[c] \in {"release", "return"} => DealtWith(prepared)
       /\ pc[c] \notin {"lock", "find"} => desc[0] = prepared

\* The device carries the requests out in order, one at a time.
DeviceInStep ==
  /\ used.idx <= taken /\ taken <= avail.idx /\ avail.idx <= used.idx + 1
  /\ inflight = IF taken = used.idx THEN {} ELSE {taken}
  /\ performed = [r \in Requests |-> IF r <= used.idx THEN 1 ELSE 0]

BInv == TypeOK /\ FirstSlotOnly /\ OneCall /\ QueueInStep /\ DeviceInStep

-----------------------------------------------------------------------------
(* What the invariant says of a call that is active. *)

\* The call at hand is the only one.
LEMMA OnlyCall ==
  ASSUME BInv, NEW c \in Callers, pc[c] # "idle"
  PROVE  /\ Active = {c} /\ c \in Active
         /\ \A d \in Callers \ {c} : pc[d] = "idle"
         /\ request[c] = prepared /\ prepared \in Requests /\ free_index[c] = 0
  BY DEF BInv, OneCall, FirstSlotOnly, Active, TypeOK, Requests

\* The numbers a queue position and a slot can be.
LEMMA Indices ==
  /\ 0 \in Slots /\ 0 \in RingIndices /\ 0 \in FreeIndices
  /\ \A n \in Nat : n % QueueNum \in RingIndices
  <1>1. 0 \in Slots /\ 0 \in RingIndices
    BY BlockDriverAssumption DEF Slots, RingIndices
  <1>2. 0 \in FreeIndices
    BY <1>1 DEF FreeIndices
  <1>3. ASSUME NEW n \in Nat PROVE n % QueueNum \in RingIndices
    <2>1. n % QueueNum \in 0 .. QueueNum - 1
      BY BlockDriverAssumption
    <2>2. QED
      BY <2>1, BlockDriverAssumption DEF RingIndices
  <1>4. QED
    BY <1>1, <1>2, <1>3

-----------------------------------------------------------------------------
(* The invariant, one lemma per action. *)

\* Before the first call the queue is empty and every slot free.
LEMMA InitInvariant == Init => BInv
  <1> SUFFICES ASSUME Init PROVE BInv
    OBVIOUS
  <1> USE BlockDriverAssumption
  <1>1. Active = {}
    BY DEF Init, Active
  <1>2. TypeOK
    <2>1. /\ pc \in [Callers -> Places] /\ request \in [Callers -> Requests \cup {NoRequest}]
          /\ last_seen \in [Callers -> 0..MaxRequests] /\ prepared \in 0..MaxRequests
          /\ answer \in [Requests -> Requests \cup {NoRequest}]
          /\ used_slot \in [Slots -> BOOLEAN] /\ performed \in [Requests -> Nat]
          /\ desc \in [RingIndices -> Requests \cup {NoRequest}]
      BY DEF Init, Places
    <2>2. free_index \in [Callers -> FreeIndices]
      BY Indices DEF Init
    <2>3. avail.idx \in 0..MaxRequests /\ avail.ring \in [RingIndices -> FreeIndices]
      BY Indices DEF Init
    <2>4. used.idx \in 0..MaxRequests /\ used.ring \in [RingIndices -> Requests \cup {NoRequest}]
      BY DEF Init
    <2>5. announced \in 0..MaxRequests /\ taken \in 0..MaxRequests
          /\ inflight \subseteq Requests /\ lock \in {0, 1}
      BY DEF Init
    <2>6. broken \in BOOLEAN
      BY DEF Init
    <2>7. QED
      BY <2>1, <2>2, <2>3, <2>4, <2>5, <2>6 DEF TypeOK
  <1>3. FirstSlotOnly /\ OneCall
    <2>1. avail \in [idx : 0..MaxRequests, ring : [RingIndices -> {0}]]
      BY DEF Init
    <2>2. used_slot \in [Slots -> BOOLEAN] /\ \A i \in Slots : ~used_slot[i]
      BY DEF Init
    <2>3. \A c \in Callers : pc[c] \notin Holding
      BY DEF Init, Holding
    <2>4. FirstSlotOnly
      BY <2>1, <2>2, <2>3, Indices DEF Init, FirstSlotOnly
    <2>5. OneCall
      BY <1>1 DEF Init, OneCall, NoRequest
    <2>6. QED
      BY <2>4, <2>5
  <1>4. QueueInStep /\ DeviceInStep
    BY <1>1 DEF Init, QueueInStep, DeviceInStep, DealtWith, Requests
  <1>5. QED
    BY <1>2, <1>3, <1>4 DEF BInv

\* A call begins when none is active; this is where calls would overlap.
LEMMA NoneActive ==
  ASSUME MaxParallel <= 1, BInv, NEW c \in Callers, Prepare(c)
  PROVE  Active = {}
  <1>1. ASSUME NEW d \in Active PROVE FALSE
    <2>1. Active = {d}
      BY <1>1 DEF BInv, OneCall
    <2>2. Cardinality(Active) = 1
      BY <2>1, FS_Singleton
    <2>3. QED
      BY <2>2, BlockDriverAssumption DEF Prepare
  <1>2. QED
    BY <1>1

\* The new request is the last one, and the queue has dealt with all before it.
LEMMA PrepareInvariant ==
  ASSUME MaxParallel <= 1, BInv, NEW c \in Callers, Prepare(c)
  PROVE  BInv'
  <1> USE BlockDriverAssumption
  <1>1. Active = {}
    BY NoneActive
  <1>2. /\ pc[c] = "idle" /\ pc' = [pc EXCEPT ![c] = "lock"]
        /\ prepared < MaxRequests /\ prepared' = prepared + 1
        /\ request' = [request EXCEPT ![c] = prepared + 1]
        /\ UNCHANGED <<free_index, last_seen, answer, shared, device>>
    BY DEF Prepare, Goto
  <1>3. /\ \A d \in Callers : pc[d] = "idle"
        /\ Active' = {c}
    BY <1>1, <1>2 DEF Active, BInv, TypeOK
  <1>4. TypeOK'
    BY <1>2 DEF BInv, TypeOK, shared, device, Requests, Places
  <1>5. FirstSlotOnly'
    BY <1>2, <1>3 DEF BInv, TypeOK, FirstSlotOnly, shared, device, Holding
  <1>6. OneCall'
    <2>1. prepared \in Nat /\ \A d \in Callers : request[d] \in Nat /\ request[d] <= prepared
      BY DEF BInv, TypeOK, OneCall, Requests, NoRequest
    <2>2. \A d \in Callers : request'[d] = IF d = c THEN prepared + 1 ELSE request[d]
      BY <1>2 DEF BInv, TypeOK
    <2>3. QED
      BY <1>2, <1>3, <2>1, <2>2 DEF OneCall
  <1>7. QueueInStep' /\ DeviceInStep'
    BY <1>1, <1>2, <1>3 DEF BInv, TypeOK, QueueInStep, DeviceInStep, DealtWith, shared, device
  <1>8. QED
    BY <1>4, <1>5, <1>6, <1>7 DEF BInv

\* The lock is taken.
LEMMA SpinLockWithMaskInvariant ==
  ASSUME BInv, NEW c \in Callers, SpinLockWithMask(c)
  PROVE  BInv'
  <1> USE BlockDriverAssumption
  <1>1. /\ pc[c] = "lock" /\ pc' = [pc EXCEPT ![c] = "find"]
        /\ lock' = 1
        /\ UNCHANGED <<request, free_index, last_seen, prepared, answer,
                     used_slot, desc, avail, used, announced, device>>
    BY DEF SpinLockWithMask, Goto
  <1>2. /\ Active = {c} /\ \A d \in Callers \ {c} : pc[d] = "idle"
        /\ request[c] = prepared /\ prepared \in Requests /\ free_index[c] = 0
    BY <1>1, OnlyCall
  <1>3. pc'[c] = "find" /\ Active' = {c}
    BY <1>1, <1>2 DEF Active, BInv, TypeOK
  <1>4. DealtWith(prepared - 1)
    BY <1>1, <1>2 DEF BInv, QueueInStep, DeviceInStep, Unpublished, DealtWith, Requests
  <1>5. TypeOK'
    BY <1>1, <1>2, <1>4, Indices
    DEF BInv, TypeOK, FirstSlotOnly, DealtWith, driver, shared, device, Requests, Places
  <1>6. FirstSlotOnly'
    BY <1>1, <1>2, <1>4, Indices
    DEF BInv, TypeOK, FirstSlotOnly, driver, shared, device, Holding, RingIndices, Requests,
        DealtWith
  <1>7. OneCall'
    BY <1>1, <1>2, <1>3 DEF BInv, OneCall, driver, shared, device
  <1>8. DealtWith(prepared - 1)'
    BY <1>1, <1>2, <1>4 DEF DealtWith, BInv, TypeOK, FirstSlotOnly, driver, shared, device
  <1>9. QueueInStep'
    BY <1>3, <1>8 DEF QueueInStep, Unpublished
  <1>10. DeviceInStep'
    BY <1>1, <1>2, <1>4, <1>8
    DEF BInv, TypeOK, DeviceInStep, DealtWith, driver, shared, device, Requests
  <1>11. QED
    BY <1>5, <1>6, <1>7, <1>9, <1>10 DEF BInv

\* The ring entry of descriptor 0 is 0, as it was.
LEMMA WriteRingInvariant ==
  ASSUME BInv, NEW c \in Callers, WriteRing(c)
  PROVE  BInv'
  <1> USE BlockDriverAssumption
  <1>1. /\ pc[c] = "ring" /\ pc' = [pc EXCEPT ![c] = "idx"]
        /\ avail' = [avail EXCEPT !.ring[free_index[c]] = free_index[c]]
        /\ UNCHANGED <<request, free_index, last_seen, prepared, answer,
                     lock, used_slot, desc, used, announced, device>>
    BY DEF WriteRing, Goto
  <1>2. /\ Active = {c} /\ \A d \in Callers \ {c} : pc[d] = "idle"
        /\ request[c] = prepared /\ prepared \in Requests /\ free_index[c] = 0
    BY <1>1, OnlyCall
  <1>3. pc'[c] = "idx" /\ Active' = {c}
    BY <1>1, <1>2 DEF Active, BInv, TypeOK
  <1>4. DealtWith(prepared - 1) /\ desc[0] = prepared
    BY <1>1, <1>2 DEF BInv, QueueInStep, DeviceInStep, Unpublished, DealtWith, Requests
  <1>5. TypeOK'
    BY <1>1, <1>2, <1>4, Indices
    DEF BInv, TypeOK, FirstSlotOnly, DealtWith, driver, shared, device, Requests, Places
  <1>6. FirstSlotOnly'
    BY <1>1, <1>2, <1>4, Indices
    DEF BInv, TypeOK, FirstSlotOnly, driver, shared, device, Holding, RingIndices, Requests,
        DealtWith
  <1>7. OneCall'
    BY <1>1, <1>2, <1>3 DEF BInv, OneCall, driver, shared, device
  <1>8. (DealtWith(prepared - 1) /\ desc[0] = prepared)'
    BY <1>1, <1>2, <1>4 DEF DealtWith, BInv, TypeOK, FirstSlotOnly, driver, shared, device
  <1>9. QueueInStep'
    BY <1>3, <1>8 DEF QueueInStep, Unpublished
  <1>10. DeviceInStep'
    BY <1>1, <1>2, <1>4, <1>8
    DEF BInv, TypeOK, DeviceInStep, DealtWith, driver, shared, device, Requests
  <1>11. QED
    BY <1>5, <1>6, <1>7, <1>9, <1>10 DEF BInv

\* The request is published.
LEMMA IncrementIdxInvariant ==
  ASSUME BInv, NEW c \in Callers, IncrementIdx(c)
  PROVE  BInv'
  <1> USE BlockDriverAssumption
  <1>1. /\ pc[c] = "idx" /\ pc' = [pc EXCEPT ![c] = "snapshot"]
        /\ avail' = [avail EXCEPT !.idx = @ + 1]
        /\ UNCHANGED <<request, free_index, last_seen, prepared, answer,
                     lock, used_slot, desc, used, announced, device>>
    BY DEF IncrementIdx, Goto
  <1>2. /\ Active = {c} /\ \A d \in Callers \ {c} : pc[d] = "idle"
        /\ request[c] = prepared /\ prepared \in Requests /\ free_index[c] = 0
    BY <1>1, OnlyCall
  <1>3. pc'[c] = "snapshot" /\ Active' = {c}
    BY <1>1, <1>2 DEF Active, BInv, TypeOK
  <1>4. DealtWith(prepared - 1) /\ desc[0] = prepared
    BY <1>1, <1>2 DEF BInv, QueueInStep, DeviceInStep, Unpublished, DealtWith, Requests
  <1> DEFINE next == [idx |-> prepared, ring |-> avail.ring]
  <1>5. /\ avail' = next /\ avail.idx + 1 = prepared
        /\ next \in [idx : 0..MaxRequests, ring : [RingIndices -> {0}]]
    BY <1>1, <1>2, <1>4 DEF BInv, FirstSlotOnly, DealtWith, Requests
  <1>6. TypeOK'
    BY <1>1, <1>2, <1>4, <1>5, Indices
    DEF BInv, TypeOK, FirstSlotOnly, DealtWith, driver, shared, device, Requests, Places
  <1>7. FirstSlotOnly'
    BY <1>1, <1>2, <1>4, <1>5, Indices
    DEF BInv, TypeOK, FirstSlotOnly, driver, shared, device, Holding, RingIndices, Requests,
        DealtWith
  <1>8. OneCall'
    BY <1>1, <1>2, <1>3 DEF BInv, OneCall, driver, shared, device
  <1>9. (avail.idx = prepared /\ announced = prepared - 1 /\ desc[0] = prepared)'
    BY <1>1, <1>2, <1>4 DEF DealtWith, BInv, TypeOK, FirstSlotOnly, driver, shared, device
  <1>10. QueueInStep'
    BY <1>3, <1>9 DEF QueueInStep, Unpublished
  <1>11. DeviceInStep'
    BY <1>1, <1>2, <1>4, <1>9
    DEF BInv, TypeOK, DeviceInStep, DealtWith, driver, shared, device, Requests
  <1>12. QED
    BY <1>6, <1>7, <1>8, <1>10, <1>11 DEF BInv

\* The snapshot is one below the request's number, or the device was quick.
LEMMA SnapshotUsedInvariant ==
  ASSUME BInv, NEW c \in Callers, SnapshotUsed(c)
  PROVE  BInv'
  <1> USE BlockDriverAssumption
  <1>1. /\ pc[c] = "snapshot" /\ pc' = [pc EXCEPT ![c] = "notify"]
        /\ last_seen' = [last_seen EXCEPT ![c] = used.idx]
        /\ UNCHANGED <<request, free_index, prepared, answer, shared, device>>
    BY DEF SnapshotUsed, Goto
  <1>2. /\ Active = {c} /\ \A d \in Callers \ {c} : pc[d] = "idle"
        /\ request[c] = prepared /\ prepared \in Requests /\ free_index[c] = 0
    BY <1>1, OnlyCall
  <1>3. pc'[c] = "notify" /\ Active' = {c}
    BY <1>1, <1>2 DEF Active, BInv, TypeOK
  <1>4. /\ avail.idx = prepared /\ announced = prepared - 1 /\ desc[0] = prepared
    BY <1>1, <1>2 DEF BInv, QueueInStep, DeviceInStep, Unpublished, DealtWith, Requests
  <1>5. TypeOK'
    BY <1>1, <1>2, <1>4, Indices
    DEF BInv, TypeOK, FirstSlotOnly, DealtWith, driver, shared, device, Requests, Places
  <1>6. FirstSlotOnly'
    BY <1>1, <1>2, <1>4, Indices
    DEF BInv, TypeOK, FirstSlotOnly, driver, shared, device, Holding, RingIndices, Requests,
        DealtWith
  <1>7. OneCall'
    BY <1>1, <1>2, <1>3 DEF BInv, OneCall, driver, shared, device
  <1>8. /\ (avail.idx = prepared /\ announced = prepared - 1 /\ desc[0] = prepared)'
        /\ last_seen'[c] = used'.idx
    BY <1>1, <1>2, <1>4 DEF DealtWith, BInv, TypeOK, FirstSlotOnly, driver, shared, device
  <1>9. QueueInStep'
    BY <1>3, <1>8 DEF QueueInStep, Unpublished
  <1>10. DeviceInStep'
    BY <1>1, <1>2, <1>4, <1>8
    DEF BInv, TypeOK, DeviceInStep, DealtWith, driver, shared, device, Requests
  <1>11. QED
    BY <1>5, <1>6, <1>7, <1>9, <1>10 DEF BInv

\* The device is told, and the lock given back.
LEMMA NotifyInvariant ==
  ASSUME BInv, NEW c \in Callers, Notify(c)
  PROVE  BInv'
  <1> USE BlockDriverAssumption
  <1>1. /\ pc[c] = "notify" /\ pc' = [pc EXCEPT ![c] = "poll"]
        /\ announced' = avail.idx /\ lock' = 0
        /\ UNCHANGED <<request, free_index, last_seen, prepared, answer,
                     used_slot, desc, avail, used, device>>
    BY DEF Notify, Goto
  <1>2. /\ Active = {c} /\ \A d \in Callers \ {c} : pc[d] = "idle"
        /\ request[c] = prepared /\ prepared \in Requests /\ free_index[c] = 0
    BY <1>1, OnlyCall
  <1>3. pc'[c] = "poll" /\ Active' = {c}
    BY <1>1, <1>2 DEF Active, BInv, TypeOK
  <1>4. /\ avail.idx = prepared /\ announced = prepared - 1 /\ desc[0] = prepared
        /\ last_seen[c] \in {prepared - 1, used.idx}
    BY <1>1, <1>2 DEF BInv, QueueInStep, DeviceInStep, Unpublished, DealtWith, Requests
  <1>5. TypeOK'
    BY <1>1, <1>2, <1>4, Indices
    DEF BInv, TypeOK, FirstSlotOnly, DealtWith, driver, shared, device, Requests, Places
  <1>6. FirstSlotOnly'
    BY <1>1, <1>2, <1>4, Indices
    DEF BInv, TypeOK, FirstSlotOnly, driver, shared, device, Holding, RingIndices, Requests,
        DealtWith
  <1>7. OneCall'
    BY <1>1, <1>2, <1>3 DEF BInv, OneCall, driver, shared, device
  <1>8. /\ (avail.idx = prepared /\ announced = prepared /\ desc[0] = prepared)'
        /\ last_seen'[c] \in {prepared' - 1, used'.idx}
    BY <1>1, <1>2, <1>4 DEF DealtWith, BInv, TypeOK, FirstSlotOnly, driver, shared, device
  <1>9. QueueInStep'
    BY <1>3, <1>8 DEF QueueInStep, Unpublished
  <1>10. DeviceInStep'
    BY <1>1, <1>2, <1>4, <1>8
    DEF BInv, TypeOK, DeviceInStep, DealtWith, driver, shared, device, Requests
  <1>11. QED
    BY <1>5, <1>6, <1>7, <1>9, <1>10 DEF BInv

\* A change of used.idx means that this request is done, as no other is under way.
LEMMA PollInvariant ==
  ASSUME BInv, NEW c \in Callers, Poll(c)
  PROVE  BInv'
  <1> USE BlockDriverAssumption
  <1>1. /\ pc[c] = "poll" /\ pc' = [pc EXCEPT ![c] = "release"]
        /\ used.idx # last_seen[c]
        /\ UNCHANGED <<request, free_index, last_seen, prepared, answer, shared, device>>
    BY DEF Poll, Goto
  <1>2. /\ Active = {c} /\ \A d \in Callers \ {c} : pc[d] = "idle"
        /\ request[c] = prepared /\ prepared \in Requests /\ free_index[c] = 0
    BY <1>1, OnlyCall
  <1>3. pc'[c] = "release" /\ Active' = {c}
    BY <1>1, <1>2 DEF Active, BInv, TypeOK
  <1>4. /\ avail.idx = prepared /\ announced = prepared /\ desc[0] = prepared
        /\ last_seen[c] = prepared - 1 /\ DealtWith(prepared)
    BY <1>1, <1>2 DEF BInv, TypeOK, QueueInStep, DeviceInStep, Unpublished, DealtWith, Requests
  <1>5. TypeOK'
    BY <1>1, <1>2, <1>4, Indices
    DEF BInv, TypeOK, FirstSlotOnly, DealtWith, driver, shared, device, Requests, Places
  <1>6. FirstSlotOnly'
    BY <1>1, <1>2, <1>4, Indices
    DEF BInv, TypeOK, FirstSlotOnly, driver, shared, device, Holding, RingIndices, Requests,
        DealtWith
  <1>7. OneCall'
    BY <1>1, <1>2, <1>3 DEF BInv, OneCall, driver, shared, device
  <1>8. (DealtWith(prepared) /\ desc[0] = prepared)'
    BY <1>1, <1>2, <1>4 DEF DealtWith, BInv, TypeOK, FirstSlotOnly, driver, shared, device
  <1>9. QueueInStep'
    BY <1>3, <1>8 DEF QueueInStep, Unpublished
  <1>10. DeviceInStep'
    BY <1>1, <1>2, <1>4, <1>8
    DEF BInv, TypeOK, DeviceInStep, DealtWith, driver, shared, device, Requests
  <1>11. QED
    BY <1>5, <1>6, <1>7, <1>9, <1>10 DEF BInv

\* The slot of descriptor 0 is slot 0: the store hits the right one.
LEMMA ReleaseIndexInvariant ==
  ASSUME BInv, NEW c \in Callers, ReleaseIndex(c)
  PROVE  BInv'
  <1> USE BlockDriverAssumption
  <1>1. /\ pc[c] = "release" /\ pc' = [pc EXCEPT ![c] = "return"]
        /\ used_slot' = [i \in Slots |-> used_slot[i] /\ i # free_index[c]]
        /\ UNCHANGED <<request, free_index, last_seen, prepared, answer,
                     lock, desc, avail, used, announced, device>>
    BY DEF ReleaseIndex, Goto
  <1>2. /\ Active = {c} /\ \A d \in Callers \ {c} : pc[d] = "idle"
        /\ request[c] = prepared /\ prepared \in Requests /\ free_index[c] = 0
    BY <1>1, OnlyCall
  <1>3. pc'[c] = "return" /\ Active' = {c}
    BY <1>1, <1>2 DEF Active, BInv, TypeOK
  <1>4. DealtWith(prepared) /\ desc[0] = prepared
    BY <1>1, <1>2 DEF BInv, QueueInStep, DeviceInStep, Unpublished, DealtWith, Requests
  <1>5. TypeOK'
    BY <1>1, <1>2, <1>4, Indices
    DEF BInv, TypeOK, FirstSlotOnly, DealtWith, driver, shared, device, Requests, Places
  <1>6. FirstSlotOnly'
    BY <1>1, <1>2, <1>4, Indices
    DEF BInv, TypeOK, FirstSlotOnly, driver, shared, device, Holding, RingIndices, Requests,
        DealtWith
  <1>7. OneCall'
    BY <1>1, <1>2, <1>3 DEF BInv, OneCall, driver, shared, device
  <1>8. (DealtWith(prepared) /\ desc[0] = prepared)'
    BY <1>1, <1>2, <1>4 DEF DealtWith, BInv, TypeOK, FirstSlotOnly, driver, shared, device
  <1>9. QueueInStep'
    BY <1>3, <1>8 DEF QueueInStep, Unpublished
  <1>10. DeviceInStep'
    BY <1>1, <1>2, <1>4, <1>8
    DEF BInv, TypeOK, DeviceInStep, DealtWith, driver, shared, device, Requests
  <1>11. QED
    BY <1>5, <1>6, <1>7, <1>9, <1>10 DEF BInv

\* The call is over.
LEMMA ReturnLenInvariant ==
  ASSUME BInv, NEW c \in Callers, ReturnLen(c)
  PROVE  BInv'
  <1> USE BlockDriverAssumption
  <1>1. /\ pc[c] = "return" /\ pc' = [pc EXCEPT ![c] = "idle"]
        /\ answer' = [answer EXCEPT ![request[c]] = used.ring[free_index[c]]]
        /\ UNCHANGED <<request, free_index, last_seen, prepared, shared, device>>
    BY DEF ReturnLen, Goto
  <1>2. /\ Active = {c} /\ \A d \in Callers \ {c} : pc[d] = "idle"
        /\ request[c] = prepared /\ prepared \in Requests /\ free_index[c] = 0
    BY <1>1, OnlyCall
  <1>3. pc'[c] = "idle" /\ Active' = {}
    BY <1>1, <1>2 DEF Active, BInv, TypeOK
  <1>4. DealtWith(prepared)
    BY <1>1, <1>2 DEF BInv, QueueInStep, DeviceInStep, Unpublished, DealtWith, Requests
  <1>5. TypeOK'
    BY <1>1, <1>2, <1>4, Indices
    DEF BInv, TypeOK, FirstSlotOnly, DealtWith, driver, shared, device, Requests, Places
  <1>6. FirstSlotOnly'
    BY <1>1, <1>2, <1>4, Indices
    DEF BInv, TypeOK, FirstSlotOnly, driver, shared, device, Holding, RingIndices, Requests,
        DealtWith
  <1>7. OneCall'
    BY <1>1, <1>2, <1>3 DEF BInv, OneCall, driver, shared, device
  <1>8. DealtWith(prepared)'
    BY <1>1, <1>2, <1>4 DEF DealtWith, BInv, TypeOK, FirstSlotOnly, driver, shared, device
  <1>9. QueueInStep'
    BY <1>3, <1>8 DEF QueueInStep, Unpublished
  <1>10. DeviceInStep'
    BY <1>1, <1>2, <1>4, <1>8
    DEF BInv, TypeOK, DeviceInStep, DealtWith, driver, shared, device, Requests
  <1>11. QED
    BY <1>5, <1>6, <1>7, <1>9, <1>10 DEF BInv

\* The first slot is free, so the search stops there.
LEMMA FindFreeIndexInvariant ==
  ASSUME BInv, NEW c \in Callers, FindFreeIndex(c)
  PROVE  BInv'
  <1> USE BlockDriverAssumption
  <1>1. pc[c] = "find" /\ pc' = [pc EXCEPT ![c] = "ring"]
    BY DEF FindFreeIndex, Goto
  <1>2. /\ Active = {c} /\ \A d \in Callers \ {c} : pc[d] = "idle"
        /\ request[c] = prepared /\ prepared \in Requests /\ free_index[c] = 0
    BY <1>1, OnlyCall
  <1>3. pc'[c] = "ring" /\ Active' = {c}
    BY <1>1, <1>2 DEF Active, BInv, TypeOK
  <1>4. ~used_slot[0]
    BY <1>1, <1>2 DEF BInv, FirstSlotOnly, Holding
  <1>5. /\ used_slot' = [used_slot EXCEPT ![0] = TRUE]
        /\ free_index' = [free_index EXCEPT ![c] = 0]
        /\ desc' = [desc EXCEPT ![0] = request[c]]
        /\ UNCHANGED <<request, last_seen, prepared, answer,
                       lock, avail, used, announced, device>>
    <2>1. PICK i \in Slots :
            /\ \A j \in Slots : j < i => used_slot[j]
            /\ used_slot' = [used_slot EXCEPT ![i] = TRUE]
            /\ free_index' = [free_index EXCEPT ![c] = 3 * i]
            /\ desc' = [desc EXCEPT ![3 * i] = request[c]]
            /\ UNCHANGED <<request, last_seen, prepared, answer,
                           lock, avail, used, announced, device>>
      BY DEF FindFreeIndex
    <2>2. i = 0
      BY <1>4, <2>1, Indices DEF Slots
    <2>3. QED
      BY <2>1, <2>2
  <1>6. DealtWith(prepared - 1)
    BY <1>1, <1>2 DEF BInv, QueueInStep, Unpublished
  <1>7. TypeOK'
    BY <1>1, <1>2, <1>5, Indices DEF BInv, TypeOK, device, Requests, Places
  <1>8. FirstSlotOnly'
    BY <1>1, <1>2, <1>3, <1>5, Indices DEF BInv, FirstSlotOnly, device, Holding
  <1>9. OneCall'
    BY <1>1, <1>2, <1>3, <1>5 DEF BInv, OneCall, device
  <1>10. (DealtWith(prepared - 1) /\ desc[0] = prepared)'
    BY <1>2, <1>5, <1>6, Indices DEF DealtWith, BInv, TypeOK, device
  <1>11. QueueInStep'
    BY <1>3, <1>10 DEF QueueInStep, Unpublished
  <1>12. DeviceInStep'
    BY <1>5 DEF BInv, DeviceInStep, device
  <1>13. QED
    BY <1>7, <1>8, <1>9, <1>11, <1>12 DEF BInv

-----------------------------------------------------------------------------
(* The device. *)

\* While the device is behind, there is a call that waits or will wait for it.
LEMMA DeviceBehind ==
  ASSUME BInv, used.idx # avail.idx
  PROVE  /\ prepared \in Requests /\ avail.idx = prepared /\ used.idx = prepared - 1
         /\ \E c \in Active : /\ Active = {c}
                              /\ pc[c] \in {"snapshot", "notify", "poll"}
                              /\ request[c] = prepared
         /\ desc[0] = prepared
  <1>1. PICK c \in Active : TRUE
    BY DEF BInv, QueueInStep, DealtWith
  <1>2. /\ c \in Callers /\ pc[c] # "idle" /\ Active = {c}
        /\ request[c] = prepared /\ prepared \in Requests
    BY <1>1, OnlyCall DEF Active
  <1>3. pc[c] \in {"snapshot", "notify", "poll"}
    BY <1>1, <1>2 DEF BInv, QueueInStep, DealtWith, TypeOK, Places, Unpublished
  <1>4. avail.idx = prepared /\ desc[0] = prepared
    BY <1>1, <1>3 DEF BInv, QueueInStep
  <1>5. used.idx = prepared - 1
    BY <1>4 DEF BInv, DeviceInStep, TypeOK
  <1>6. QED
    BY <1>2, <1>3, <1>4, <1>5

\* The ring entry leads to the chain of the request that was published.
LEMMA DeviceTakeInvariant == BInv /\ DeviceTake => BInv'
  <1> SUFFICES ASSUME BInv, DeviceTake PROVE BInv'
    OBVIOUS
  <1> USE BlockDriverAssumption
  <1>1. /\ taken # avail.idx /\ taken' = taken + 1
        /\ UNCHANGED <<driver, shared, performed>>
    BY DEF DeviceTake
  <1>2. avail.ring[taken % QueueNum] = 0
    <2>1. taken % QueueNum \in RingIndices
      <3>1. taken \in Nat
        BY DEF BInv, TypeOK
      <3>2. QED
        BY <3>1, Indices
    <2>2. avail.ring \in [RingIndices -> {0}]
      BY DEF BInv, FirstSlotOnly
    <2>3. QED
      BY <2>1, <2>2
  <1>3. inflight' = inflight \cup {desc[0]} /\ broken' = broken
    BY <1>2 DEF DeviceTake
  <1>4. taken = used.idx /\ used.idx # avail.idx /\ inflight = {}
    BY <1>1 DEF BInv, DeviceInStep, TypeOK
  <1>5. /\ prepared \in Requests /\ avail.idx = prepared /\ used.idx = prepared - 1
        /\ desc[0] = prepared
    BY <1>4, DeviceBehind
  <1>6. PICK c \in Active : /\ Active = {c} /\ pc[c] \in {"snapshot", "notify", "poll"}
                            /\ request[c] = prepared
    BY <1>4, DeviceBehind
  <1>7. TypeOK'
    BY <1>1, <1>3, <1>4, <1>5 DEF BInv, TypeOK, driver, shared, Requests
  <1>8. FirstSlotOnly' /\ OneCall'
    BY <1>1, <1>3 DEF BInv, FirstSlotOnly, OneCall, driver, shared, Active
  <1>9. QueueInStep'
    BY <1>1, <1>6 DEF BInv, QueueInStep, DealtWith, Unpublished, driver, shared, Active
  <1>10. DeviceInStep'
    BY <1>1, <1>3, <1>4, <1>5 DEF BInv, DeviceInStep, driver, shared, Requests
  <1>11. QED
    BY <1>7, <1>8, <1>9, <1>10 DEF BInv

\* The device completes the request of the call that waits.
LEMMA DeviceCompleteEffect ==
  ASSUME BInv, DeviceComplete
  PROVE  /\ used.idx # avail.idx /\ prepared \in Requests /\ used.idx = prepared - 1
         /\ taken = prepared /\ taken' = prepared
         /\ inflight' = {}
         /\ performed' = [performed EXCEPT ![prepared] = @ + 1]
         /\ used' = [idx |-> prepared, ring |-> [used.ring EXCEPT ![used.idx % QueueNum] = prepared]]
         /\ UNCHANGED <<driver, lock, used_slot, desc, avail, announced, taken, broken>>
  <1>1. PICK r \in inflight :
           /\ inflight' = inflight \ {r}
           /\ performed' = [performed EXCEPT ![r] = @ + 1]
           /\ used' = [idx |-> used.idx + 1,
                       ring |-> [used.ring EXCEPT ![used.idx % QueueNum] = r]]
           /\ UNCHANGED <<driver, lock, used_slot, desc, avail, announced, taken, broken>>
    BY DEF DeviceComplete
  <1>2. taken # used.idx /\ inflight = {taken} /\ r = taken
    BY DEF BInv, DeviceInStep
  <1>3. used.idx # avail.idx /\ taken = avail.idx
    BY <1>2 DEF BInv, DeviceInStep, TypeOK
  <1>4. prepared \in Requests /\ avail.idx = prepared /\ used.idx = prepared - 1
    BY <1>3, DeviceBehind
  <1>5. QED
    BY <1>1, <1>2, <1>3, <1>4 DEF Requests

\* After a completion the device has dealt with everything that was published.
LEMMA DeviceCompleteInvariant == BInv /\ DeviceComplete => BInv'
  <1> SUFFICES ASSUME BInv, DeviceComplete PROVE BInv'
    OBVIOUS
  <1> USE BlockDriverAssumption
  <1>1. /\ used.idx # avail.idx /\ prepared \in Requests /\ used.idx = prepared - 1
        /\ taken = prepared /\ taken' = prepared /\ inflight' = {}
        /\ performed' = [performed EXCEPT ![prepared] = @ + 1]
        /\ used'.idx = prepared /\ used'.ring = [used.ring EXCEPT ![used.idx % QueueNum] = prepared]
        /\ UNCHANGED <<driver, lock, used_slot, desc, avail, announced, taken, broken>>
    BY DeviceCompleteEffect
  <1>2. avail.idx = prepared
    BY <1>1, DeviceBehind
  <1>3. PICK c \in Active : /\ Active = {c} /\ pc[c] \in {"snapshot", "notify", "poll"}
    BY <1>1, DeviceBehind
  <1>4. TypeOK'
    <2>1. performed' \in [Requests -> Nat]
      BY <1>1 DEF BInv, TypeOK
    <2>2. used'.idx \in 0..MaxRequests /\ used'.ring \in [RingIndices -> Requests \cup {NoRequest}]
      BY <1>1 DEF BInv, TypeOK, Requests
    <2>3. QED
      BY <1>1, <2>1, <2>2 DEF BInv, TypeOK, driver, Requests
  <1>5. FirstSlotOnly' /\ OneCall'
    BY <1>1 DEF BInv, FirstSlotOnly, OneCall, driver, Active
  <1>6. QueueInStep'
    BY <1>1, <1>3 DEF BInv, QueueInStep, DealtWith, Unpublished, driver, Active
  <1>7. DeviceInStep'
    <2>1. \A r \in Requests : performed[r] = IF r <= used.idx THEN 1 ELSE 0
      BY DEF BInv, DeviceInStep
    <2>2. performed[prepared] = 0
      BY <1>1, <2>1 DEF Requests
    <2>3. \A r \in Requests : performed'[r] = IF r <= prepared THEN 1 ELSE 0
      BY <1>1, <2>1, <2>2 DEF BInv, TypeOK, Requests
    <2>4. performed' = [r \in Requests |-> IF r <= used'.idx THEN 1 ELSE 0]
      BY <1>1, <2>3 DEF BInv, TypeOK
    <2>5. avail'.idx = prepared /\ used'.idx = prepared /\ taken' = prepared /\ prepared \in Nat
      BY <1>1, <1>2 DEF Requests
    <2>6. inflight' = IF taken' = used'.idx THEN {} ELSE {taken'}
      BY <1>1, <2>5
    <2>7. QED
      BY <2>4, <2>5, <2>6 DEF DeviceInStep
  <1>8. QED
    BY <1>4, <1>5, <1>6, <1>7 DEF BInv

-----------------------------------------------------------------------------
(* The invariant holds; what follows from it. *)

\* Every step keeps the invariant as long as calls do not overlap.
LEMMA InductiveStep ==
  ASSUME MaxParallel <= 1
  PROVE  BInv /\ [Next]_vars => BInv'
  <1> SUFFICES ASSUME BInv, [Next]_vars PROVE BInv'
    OBVIOUS
  <1>1. CASE Device
    BY <1>1, DeviceTakeInvariant, DeviceCompleteInvariant DEF Device
  <1>2. CASE \E c \in Callers : Prepare(c)
    BY <1>2, PrepareInvariant
  <1>3. CASE \E c \in Callers : Call(c)
    BY <1>3, SpinLockWithMaskInvariant, FindFreeIndexInvariant, WriteRingInvariant,
       IncrementIdxInvariant, SnapshotUsedInvariant, NotifyInvariant, PollInvariant,
       ReleaseIndexInvariant, ReturnLenInvariant DEF Call
  <1>4. CASE UNCHANGED vars
    BY <1>4
    DEF BInv, TypeOK, FirstSlotOnly, OneCall, QueueInStep, DeviceInStep, DealtWith, Active,
       vars, driver, shared, device
  <1>5. QED
    BY <1>1, <1>2, <1>3, <1>4 DEF Next

\* The invariant always holds.
LEMMA Invariance ==
  ASSUME MaxParallel <= 1
  PROVE  Spec => []BInv
  BY InitInvariant, InductiveStep, PTL DEF Spec

\* The variables of the driver keep their ranges: the counters of the rings stay
\* together, and no index leaves its array.
THEOREM TypeCorrect ==
  ASSUME MaxParallel <= 1
  PROVE  Spec => []TypeOK
  <1>1. BInv => TypeOK
    BY DEF BInv
  <1>2. QED
    BY <1>1, Invariance, PTL

\* used_request_index is exact: however many calls are made, no slot leaks, and
\* none is given back while the device may still read its descriptors.
THEOREM SlotsComeBack ==
  ASSUME MaxParallel <= 1
  PROVE  Spec => []SlotsAccounted
  <1>1. BInv => SlotsAccounted
    <2> SUFFICES ASSUME BInv, NEW i \in Slots
                 PROVE  used_slot[i] <=> \E c \in Callers :
                          /\ pc[c] \in Places \ {"idle", "lock", "find", "return"}
                          /\ free_index[c] = 3 * i
      BY DEF SlotsAccounted
    <2>1. Places \ {"idle", "lock", "find", "return"} = Holding
      BY DEF Places, Holding
    <2>2. \A c \in Callers : free_index[c] = 3 * i <=> i = 0
      BY DEF BInv, FirstSlotOnly, Slots
    <2>3. QED
      BY <2>1, <2>2 DEF BInv, FirstSlotOnly
  <1>2. QED
    BY <1>1, Invariance, PTL

\* The entry the device reads next leads to the chain of the request that was
\* published, whatever the size of the queue and however often it has wrapped.
THEOREM DeviceReadsWhatWasPublished ==
  ASSUME MaxParallel <= 1
  PROVE  Spec => []PublishedIsRead
  <1>1. BInv => PublishedIsRead
    <2> SUFFICES ASSUME BInv, NEW c \in Callers, pc[c] \in {"snapshot", "notify"}
                 PROVE  desc[avail.ring[(avail.idx - 1) % QueueNum]] = request[c]
      BY DEF PublishedIsRead
    <2>1. c \in Active /\ request[c] = prepared /\ prepared \in Requests
      BY OnlyCall
    <2>2. avail.idx = prepared /\ desc[0] = prepared
      BY <2>1 DEF BInv, QueueInStep
    <2>3. avail.idx - 1 \in Nat
      BY <2>1, <2>2 DEF Requests
    <2>4. (avail.idx - 1) % QueueNum \in RingIndices
      BY <2>3, Indices
    <2>5. QED
      BY <2>1, <2>2, <2>4 DEF BInv, FirstSlotOnly
  <1>2. QED
    BY <1>1, Invariance, PTL

-----------------------------------------------------------------------------
(* Refinement: every step is a step of BlockService or a stutter. *)

\* The requests handed over are those the queue has counted.
LEMMA SubmittedIsCounted == BInv => Submitted = {r \in Requests : r <= avail.idx}
  <1> SUFFICES ASSUME BInv, NEW r \in Requests
               PROVE  r <= avail.idx <=>
                        /\ r <= prepared
                        /\ \A c \in Callers : request[c] = r => pc[c] \notin Unpublished
    BY DEF Submitted, Unpublished
  <1>1. CASE Active = {}
    BY <1>1 DEF BInv, QueueInStep, DealtWith, Active, Unpublished
  <1>2. ASSUME NEW c \in Active PROVE r <= avail.idx <=>
                        /\ r <= prepared
                        /\ \A d \in Callers : request[d] = r => pc[d] \notin Unpublished
    <2>1. /\ c \in Callers /\ \A d \in Callers \ {c} : pc[d] \notin Unpublished
          /\ request[c] = prepared /\ prepared \in Requests
      BY OnlyCall DEF Active, Unpublished
    <2>2. CASE pc[c] \in Unpublished
      BY <2>1, <2>2 DEF BInv, QueueInStep, DealtWith, Requests
    <2>3. CASE pc[c] \notin Unpublished
      <3>1. avail.idx = prepared
        BY <2>1, <2>3 DEF BInv, TypeOK, QueueInStep, DealtWith, Places, Unpublished, Active
      <3>2. QED
        BY <2>1, <2>3, <3>1
    <2>4. QED
      BY <2>2, <2>3
  <1>3. QED
    BY <1>1, <1>2

\* All but the last request have returned, and it has too when no call is active.
LEMMA ReturnedIsPast ==
  BInv => Returned = {r \in Requests : r < prepared \/ (r = prepared /\ Active = {})}
  <1> SUFFICES ASSUME BInv, NEW r \in Requests
               PROVE  (r < prepared \/ (r = prepared /\ Active = {})) <=>
                        /\ r <= prepared
                        /\ \A c \in Callers : request[c] = r => pc[c] = "idle"
    BY DEF Returned
  <1>1. prepared \in Nat /\ r \in Nat
    BY DEF BInv, TypeOK, Requests
  <1>2. CASE Active = {}
    BY <1>1, <1>2 DEF Active
  <1>3. ASSUME NEW c \in Active
        PROVE  (r < prepared \/ (r = prepared /\ Active = {})) <=>
                        /\ r <= prepared
                        /\ \A d \in Callers : request[d] = r => pc[d] = "idle"
    <2>1. /\ c \in Callers /\ \A d \in Callers \ {c} : pc[d] = "idle"
          /\ request[c] = prepared /\ pc[c] # "idle"
      BY OnlyCall DEF Active
    <2>2. QED
      BY <1>1, <2>1
  <1>4. QED
    BY <1>2, <1>3

\* A call that has returned had its request carried out.  For calls that overlap, as
\* the comment "in parallel we can only support 4 requests at time" has them, this fails.
THEOREM ReturnedIsDone ==
  ASSUME MaxParallel <= 1
  PROVE  Spec => []ReturnsWhenDone
  <1>1. BInv => ReturnsWhenDone
    <2> SUFFICES ASSUME BInv, NEW r \in Requests, r < prepared \/ (r = prepared /\ Active = {})
                 PROVE  performed[r] > 0
      BY ReturnedIsPast DEF ReturnsWhenDone
    <2>1. r <= used.idx
      <3>1. prepared \in Nat /\ used.idx \in Nat /\ avail.idx \in Nat /\ r \in Nat
        BY DEF BInv, TypeOK, Requests
      <3>2. CASE Active = {}
        BY <3>1, <3>2 DEF BInv, QueueInStep, DealtWith
      <3>3. ASSUME NEW c \in Active PROVE r <= used.idx
        <4>1. avail.idx = prepared \/ DealtWith(prepared - 1)
          BY OnlyCall DEF BInv, TypeOK, QueueInStep, DealtWith, Places, Unpublished, Active
        <4>2. used.idx >= prepared - 1
          BY <3>1, <4>1 DEF BInv, DeviceInStep, DealtWith
        <4>3. QED
          BY <3>1, <3>3, <4>2
      <3>4. QED
        BY <3>2, <3>3
    <2>2. QED
      BY <2>1 DEF BInv, DeviceInStep
  <1>2. QED
    BY <1>1, Invariance, PTL

\* No request has been handed over at the start.
LEMMA InitRefines == Init => Service!Init
  <1> SUFFICES ASSUME Init PROVE Service!Init
    OBVIOUS
  <1>1. Submitted = {} /\ Returned = {}
    BY DEF Init, Submitted, Returned, Requests
  <1>2. QED
    BY <1>1 DEF Init, Service!Init

\* Publishing is Submit, a completion is Perform, the return is Return.
LEMMA StepRefines ==
  ASSUME MaxParallel <= 1
  PROVE  BInv /\ BInv' /\ [Next]_vars => [Service!Next]_Service!vars
  <1>1. (BInv => Submitted = {r \in Requests : r <= avail.idx})'
    BY SubmittedIsCounted, PTL
  <1>2. (BInv => Returned = {r \in Requests : r < prepared \/ (r = prepared /\ Active = {})})'
    BY ReturnedIsPast, PTL
  <1> SUFFICES ASSUME BInv, BInv', [Next]_vars PROVE [Service!Next]_Service!vars
    OBVIOUS
  <1>3. /\ Submitted = {r \in Requests : r <= avail.idx}
        /\ Submitted' = {r \in Requests : r <= avail'.idx}
        /\ Returned = {r \in Requests : r < prepared \/ (r = prepared /\ Active = {})}
        /\ Returned' = {r \in Requests : r < prepared' \/ (r = prepared' /\ Active' = {})}
    BY <1>1, <1>2, SubmittedIsCounted, ReturnedIsPast
  <1>4. ASSUME avail'.idx = avail.idx, prepared' = prepared, (Active' = {}) = (Active = {}),
               performed' = performed
        PROVE  UNCHANGED Service!vars
    BY <1>3, <1>4 DEF Service!vars
  <1>5. ASSUME NEW c \in Callers, Prepare(c) PROVE UNCHANGED Service!vars
    <2>1. Active = {} /\ Active' # {}
      BY <1>5, NoneActive DEF Prepare, Goto, Active, BInv, TypeOK
    <2>2. prepared' = prepared + 1 /\ prepared \in Nat /\ UNCHANGED <<avail, performed>>
      BY <1>5 DEF Prepare, BInv, TypeOK, shared, device
    <2>3. Returned' = Returned
      BY <1>3, <2>1, <2>2 DEF Requests
    <2>4. QED
      BY <1>3, <2>2, <2>3 DEF Service!vars
  <1>6. ASSUME NEW c \in Callers, Call(c) PROVE [Service!Next]_Service!vars
    <2>1. CASE IncrementIdx(c)
      <3>1. /\ pc[c] = "idx" /\ pc' = [pc EXCEPT ![c] = "snapshot"]
            /\ avail' = [avail EXCEPT !.idx = @ + 1]
            /\ prepared' = prepared /\ performed' = performed
        BY <2>1 DEF IncrementIdx, Goto, device
      <3>2. Active = {c} /\ prepared \in Requests /\ Active' # {}
        BY <3>1, OnlyCall DEF Active, BInv, TypeOK
      <3>3. avail.idx = prepared - 1
        BY <3>1, <3>2 DEF BInv, QueueInStep, DealtWith, Unpublished
      <3>4. avail'.idx = prepared
        BY <3>1, <3>2, <3>3 DEF BInv, FirstSlotOnly, Requests
      <3>5. Returned' = Returned
        BY <1>3, <3>1, <3>2
      <3>6. prepared \notin Submitted /\ Submitted' = Submitted \cup {prepared}
        BY <1>3, <3>2, <3>3, <3>4 DEF Requests
      <3>7. QED
        BY <3>1, <3>2, <3>5, <3>6 DEF Service!Next, Service!Submit
    <2>2. CASE ReturnLen(c)
      <3>1. /\ pc[c] = "return" /\ pc' = [pc EXCEPT ![c] = "idle"]
            /\ avail' = avail /\ prepared' = prepared /\ performed' = performed
        BY <2>2 DEF ReturnLen, Goto, shared, device
      <3>2. Active = {c} /\ prepared \in Requests
        BY <3>1, OnlyCall
      <3>3. Active' = {}
        BY <3>1, <3>2 DEF Active, BInv, TypeOK
      <3>4. performed[prepared] = 1
        BY <3>1, <3>2 DEF BInv, QueueInStep, DeviceInStep, DealtWith, Requests
      <3>5. prepared \notin Returned /\ Returned' = Returned \cup {prepared}
        BY <1>3, <3>1, <3>2, <3>3 DEF Requests
      <3>6. Submitted' = Submitted
        BY <1>3, <3>1
      <3>7. QED
        BY <3>1, <3>2, <3>4, <3>5, <3>6 DEF Service!Next, Service!Return
    <2>3. CASE SpinLockWithMask(c) \/ FindFreeIndex(c) \/ WriteRing(c) \/ SnapshotUsed(c)
               \/ Notify(c) \/ Poll(c) \/ ReleaseIndex(c)
      <3>1. /\ avail'.idx = avail.idx /\ prepared' = prepared /\ performed' = performed
            /\ pc[c] # "idle"
            /\ \E place \in Places \ {"idle"} : pc' = [pc EXCEPT ![c] = place]
        BY <2>3 DEF SpinLockWithMask, FindFreeIndex, WriteRing, SnapshotUsed, Notify, Poll,
           ReleaseIndex, Goto, Places, shared, device, BInv, FirstSlotOnly
      <3>2. Active # {} /\ Active' # {}
        BY <3>1 DEF Active, BInv, TypeOK
      <3>3. QED
        BY <1>4, <3>1, <3>2
    <2>4. QED
      BY <1>6, <2>1, <2>2, <2>3 DEF Call
  <1>7. CASE DeviceTake
    BY <1>4, <1>7 DEF DeviceTake, driver, shared, Active
  <1>8. CASE DeviceComplete
    <2>1. /\ used.idx # avail.idx /\ prepared \in Requests /\ used.idx = prepared - 1
          /\ performed' = [performed EXCEPT ![prepared] = @ + 1]
          /\ UNCHANGED <<driver, avail>>
      BY <1>8, DeviceCompleteEffect
    <2>2. avail.idx = prepared
      BY <2>1, DeviceBehind
    <2>3. prepared \in Submitted
      BY <1>3, <2>1, <2>2 DEF Requests
    <2>4. performed[prepared] = 0
      BY <2>1 DEF BInv, DeviceInStep, Requests
    <2>5. performed' = [performed EXCEPT ![prepared] = 1]
      BY <2>1, <2>4
    <2>6. UNCHANGED <<Submitted, Returned>>
      BY <1>3, <2>1 DEF driver, Active
    <2>7. QED
      BY <2>1, <2>3, <2>4, <2>5, <2>6 DEF Service!Next, Service!Perform
  <1>9. CASE UNCHANGED vars
    BY <1>4, <1>9 DEF vars, driver, shared, device, Active
  <1>10. QED
    BY <1>5, <1>6, <1>7, <1>8, <1>9 DEF Next, Device

\* Each request is carried out once, and its call returns only after that: seen by
\* its callers, the driver with its rings is BlockService.
THEOREM RefinesBlockService ==
  ASSUME MaxParallel <= 1
  PROVE  Spec => ImplementsBlockService
  BY InitRefines, StepRefines, Invariance, PTL DEF Spec, ImplementsBlockService, Service!Spec
=============================================================================
