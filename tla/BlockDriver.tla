---------------------------- MODULE BlockDriver -----------------------------
(***************************************************************************)
(* block_read and block_write of src/kernel/drivers/block/block_driver.c   *)
(* and the virtio device at the other end of the queue.  The two functions *)
(* differ only in the direction of the transfer, so there is one caller    *)
(* program; requests are numbered in the order in which they are prepared. *)
(*                                                                         *)
(* A request takes a slot i of used_request_index and the descriptors      *)
(* 3*i, 3*i+1, 3*i+2; free_index is 3*i.  desc[h] is the request whose     *)
(* chain starts at descriptor h.  The rings live in memory that is zero    *)
(* before first use (kmalloc does not clear, but pages are never reused    *)
(* and the machine's memory starts cleared).                               *)
(*                                                                         *)
(* The kernel never preempts a system call (Kernel.tla), so in it one call *)
(* is active at a time: MaxParallel = 1.  The driver has a lock and slots  *)
(* for more, which is what MaxParallel > 1 examines.                       *)
(***************************************************************************)
EXTENDS Naturals, FiniteSets

CONSTANTS
  Callers,       \* processes that call the driver
  MaxParallel,   \* how many calls are active at a time
  MaxRequests,   \* bound on the requests made
  NSlots,        \* length of used_request_index (12)
  QueueNum       \* the queue size told to the device (12)

ASSUME BlockDriverAssumption ==
  /\ MaxParallel \in Nat /\ MaxRequests \in Nat
  /\ NSlots \in Nat \ {0}
  /\ QueueNum \in 1 .. 3 * NSlots   \* what the device reads lies within the ring

Requests == 1..MaxRequests
NoRequest == 0
Slots == 0..(NSlots - 1)
FreeIndices == {3 * i : i \in Slots}
RingIndices == 0..(3 * NSlots)

VARIABLES
  pc,         \* per caller, where it is in block_read/block_write
  request,    \* per caller, its request
  free_index, \* per caller, its local variable
  last_seen,  \* per caller, last_seen_idx
  prepared,   \* how many requests have been prepared so far
  answer,     \* per request, the request whose used element the call read
  lock,       \* GlobalBlockLock
  used_slot,  \* used_request_index
  desc,       \* the descriptor chains
  avail,      \* [idx, ring]
  used,       \* [idx, ring]; an element is the request it reports
  announced,  \* avail.idx at the last write of QueueNotify
  taken,      \* how far the device has read the avail ring
  inflight,   \* requests the device works on
  broken,     \* the device has rejected a descriptor index
  performed   \* per request, how often the device has carried it out

driver == <<pc, request, free_index, last_seen, prepared, answer>>
shared == <<lock, used_slot, desc, avail, used, announced>>
device == <<taken, inflight, broken, performed>>
vars == <<driver, shared, device>>

\* init_virtio_backend, the part that sets up the driver's own data.
Init ==
  /\ pc = [c \in Callers |-> "idle"]
  /\ request = [c \in Callers |-> NoRequest]
  /\ free_index = [c \in Callers |-> 0]
  /\ last_seen = [c \in Callers |-> 0]
  /\ prepared = 0
  /\ answer = [r \in Requests |-> NoRequest]
  /\ lock = 0
  /\ used_slot = [i \in Slots |-> FALSE]
  /\ desc = [h \in RingIndices |-> NoRequest]
  /\ avail = [idx |-> 0, ring |-> [k \in RingIndices |-> 0]]
  /\ used = [idx |-> 0, ring |-> [k \in RingIndices |-> NoRequest]]
  /\ announced = 0
  /\ taken = 0
  /\ inflight = {}
  /\ broken = FALSE
  /\ performed = [r \in Requests |-> 0]

Goto(c, from, to) == pc[c] = from /\ pc' = [pc EXCEPT ![c] = to]

Active == {c \in Callers : pc[c] # "idle"}

-----------------------------------------------------------------------------
(* The caller. *)

\* The request header is filled in.
Prepare(c) ==
  /\ Cardinality(Active) < MaxParallel
  /\ prepared < MaxRequests
  /\ Goto(c, "idle", "lock")
  /\ prepared' = prepared + 1
  /\ request' = [request EXCEPT ![c] = prepared + 1]
  /\ UNCHANGED <<free_index, last_seen, answer, shared, device>>

SpinLockWithMask(c) ==
  /\ lock = 0
  /\ lock' = 1
  /\ Goto(c, "lock", "find")
  /\ UNCHANGED <<request, free_index, last_seen, prepared, answer,
                 used_slot, desc, avail, used, announced, device>>

\* find_free_index, called until it finds a slot, and the three descriptors.
FindFreeIndex_NextSlot(c) ==
  \E i \in Slots :
    /\ ~used_slot[i]
    /\ \A j \in Slots : j < i => used_slot[j]
    /\ used_slot' = [used_slot EXCEPT ![i] = TRUE]
    /\ free_index' = [free_index EXCEPT ![c] = 3 * i + 3]
    /\ desc' = [desc EXCEPT ![3 * i + 3] = request[c]]
    /\ Goto(c, "find", "ring")
    /\ UNCHANGED <<request, last_seen, prepared, answer,
                   lock, avail, used, announced, device>>

FindFreeIndex(c) ==
  \E i \in Slots :
    /\ ~used_slot[i]
    /\ \A j \in Slots : j < i => used_slot[j]
    /\ used_slot' = [used_slot EXCEPT ![i] = TRUE]
    /\ free_index' = [free_index EXCEPT ![c] = 3 * i]
    /\ desc' = [desc EXCEPT ![3 * i] = request[c]]
    /\ Goto(c, "find", "ring")
    /\ UNCHANGED <<request, last_seen, prepared, answer,
                   lock, avail, used, announced, device>>

\* virtq_avail_obj->ring[free_index] = free_index
WriteRing(c) ==
  /\ Goto(c, "ring", "idx")
  /\ avail' = [avail EXCEPT !.ring[free_index[c]] = free_index[c]]
  /\ UNCHANGED <<request, free_index, last_seen, prepared, answer,
                 lock, used_slot, desc, used, announced, device>>

\* virtq_avail_obj->idx += 1
IncrementIdx(c) ==
  /\ Goto(c, "idx", "snapshot")
  /\ avail' = [avail EXCEPT !.idx = @ + 1]
  /\ UNCHANGED <<request, free_index, last_seen, prepared, answer,
                 lock, used_slot, desc, used, announced, device>>

\* last_seen_idx = virtq_used_obj->idx
SnapshotUsed_Previous(c) ==
  /\ Goto(c, "snapshot", "notify")
  /\ last_seen' = [last_seen EXCEPT ![c] = IF used.idx = 0 THEN 0 ELSE used.idx - 1]
  /\ UNCHANGED <<request, free_index, prepared, answer, shared, device>>

SnapshotUsed(c) ==
  /\ Goto(c, "snapshot", "notify")
  /\ last_seen' = [last_seen EXCEPT ![c] = used.idx]
  /\ UNCHANGED <<request, free_index, prepared, answer, shared, device>>

\* write_u32(QueueNotify), then spin_unlock_with_mask
Notify_Forgotten(c) ==
  /\ Goto(c, "notify", "poll")
  /\ lock' = 0
  /\ UNCHANGED <<request, free_index, last_seen, prepared, answer,
                 used_slot, desc, avail, used, announced, device>>

Notify(c) ==
  /\ Goto(c, "notify", "poll")
  /\ announced' = avail.idx
  /\ lock' = 0
  /\ UNCHANGED <<request, free_index, last_seen, prepared, answer,
                 used_slot, desc, avail, used, device>>

\* while (virtq_used_obj->idx == last_seen_idx)
Poll(c) ==
  /\ used.idx # last_seen[c]
  /\ Goto(c, "poll", "release")
  /\ UNCHANGED <<request, free_index, last_seen, prepared, answer, shared, device>>

\* used_request_index[free_index] = 0.  The array is indexed by the descriptor,
\* not by the slot; past its end the store hits nothing the driver reads.
ReleaseIndex_Forgotten(c) ==
  /\ Goto(c, "release", "return")
  /\ UNCHANGED <<request, free_index, last_seen, prepared, answer, shared, device>>

ReleaseIndex(c) ==
  /\ Goto(c, "release", "return")
  /\ used_slot' = [i \in Slots |-> used_slot[i] /\ i # free_index[c]]
  /\ UNCHANGED <<request, free_index, last_seen, prepared, answer,
                 lock, desc, avail, used, announced, device>>

\* return virtq_used_obj->ring[free_index].len
ReturnLen(c) ==
  /\ Goto(c, "return", "idle")
  /\ answer' = [answer EXCEPT ![request[c]] = used.ring[free_index[c]]]
  /\ UNCHANGED <<request, free_index, last_seen, prepared, shared, device>>

Call(c) ==
  \/ SpinLockWithMask(c) \/ FindFreeIndex(c) \/ WriteRing(c) \/ IncrementIdx(c)
  \/ SnapshotUsed(c) \/ Notify(c) \/ Poll(c) \/ ReleaseIndex(c) \/ ReturnLen(c)

-----------------------------------------------------------------------------
(* The device: the part of QEMU that serves the queue. *)

\* Takes the next entry of the avail ring.  A device that an earlier notification
\* has set to work may take an entry as soon as idx counts it, before the
\* driver announces it.  A head outside the queue it was told about makes the
\* device refuse all further service.
DeviceTake_Twice ==
  LET head == avail.ring[taken % QueueNum]
  IN  /\ announced > 0 /\ ~broken
      /\ taken # avail.idx
      /\ inflight' = inflight \cup {desc[head]}
      /\ UNCHANGED <<driver, shared, performed, taken, broken>>

DeviceTake ==
  LET head == avail.ring[taken % QueueNum]
  IN  /\ announced > 0 /\ ~broken
      /\ taken # avail.idx
      /\ taken' = taken + 1
      /\ IF head < QueueNum
           THEN inflight' = inflight \cup {desc[head]} /\ UNCHANGED broken
           ELSE broken' = TRUE /\ UNCHANGED inflight
      /\ UNCHANGED <<driver, shared, performed>>

\* Carries out a request and reports it, in any order.
DeviceComplete ==
  \E r \in inflight :
    /\ ~broken
    /\ inflight' = inflight \ {r}
    /\ performed' = [performed EXCEPT ![r] = @ + 1]
    /\ used' = [idx |-> used.idx + 1,
                ring |-> [used.ring EXCEPT ![used.idx % QueueNum] = r]]
    /\ UNCHANGED <<driver, lock, used_slot, desc, avail, announced, taken, broken>>

Device == DeviceTake \/ DeviceComplete

Next == Device \/ \E c \in Callers : Prepare(c) \/ Call(c)

\* The CPU runs the active calls, and the device serves what was announced to it
\* (what it takes before that is up to it).
Spec ==
  /\ Init /\ [][Next]_vars
  /\ \A c \in Callers : WF_vars(Call(c))
  /\ WF_vars(taken < announced /\ DeviceTake) /\ WF_vars(DeviceComplete)

-----------------------------------------------------------------------------
(* Properties. *)

Places == {"idle", "lock", "find", "ring", "idx", "snapshot", "notify", "poll",
           "release", "return"}

TypeOK ==
  /\ pc \in [Callers -> Places]
  /\ request \in [Callers -> Requests \cup {NoRequest}]
  /\ free_index \in [Callers -> FreeIndices]
  /\ last_seen \in [Callers -> 0..MaxRequests]
  /\ prepared \in 0..MaxRequests
  /\ answer \in [Requests -> Requests \cup {NoRequest}]
  /\ lock \in {0, 1}
  /\ used_slot \in [Slots -> BOOLEAN]
  /\ desc \in [RingIndices -> Requests \cup {NoRequest}]
  /\ avail.idx \in 0..MaxRequests /\ avail.ring \in [RingIndices -> FreeIndices]
  /\ used.idx \in 0..MaxRequests
  /\ used.ring \in [RingIndices -> Requests \cup {NoRequest}]
  /\ announced \in 0..MaxRequests /\ broken \in BOOLEAN
  /\ taken \in 0..MaxRequests
  /\ inflight \subseteq Requests
  /\ performed \in [Requests -> Nat]

\* used_request_index marks exactly the slots of the calls that are between
\* find_free_index and their return: no slot leaks, however many calls are made,
\* and no call loses its slot while the device may still read its descriptors.
SlotsAccounted ==
  \A i \in Slots :
    used_slot[i] <=> \E c \in Callers :
      /\ pc[c] \in Places \ {"idle", "lock", "find", "return"}
      /\ free_index[c] = 3 * i

\* The ring positions the device reads next hold the chain of the request that was
\* published there, although the driver writes ring[free_index] where the queue
\* is read at ring[idx % QueueNum].
PublishedIsRead ==
  \A c \in Callers :
    pc[c] \in {"snapshot", "notify"} /\ taken # avail.idx =>
      desc[avail.ring[(avail.idx - 1) % QueueNum]] = request[c]

\* A call that has begun returns, if the device waits to be announced an entry
\* before it takes it (DoneIsNoticed shows why the driver needs that).
DeviceWaits == taken <= announced
EveryCallReturns ==
  []DeviceWaits => \A c \in Callers : (pc[c] # "idle") ~> (pc[c] = "idle")

Submitted == {r \in Requests :
                r <= prepared /\ \A c \in Callers :
                  request[c] = r => pc[c] \notin {"lock", "find", "ring", "idx"}}
Returned == {r \in Requests :
               r <= prepared /\ \A c \in Callers : request[c] = r => pc[c] = "idle"}

\* Each request is carried out exactly once, and before its call returns.
Service == INSTANCE BlockService
             WITH submitted <- Submitted, returned <- Returned
ImplementsBlockService == Service!Spec

\* What block_driver.c's comment "in parallel we can only support 4 requests at
\* time" promises of calls that overlap: none returns before its own request has
\* been carried out.
ReturnsWhenDone == \A r \in Returned : performed[r] > 0

\* docs.md: "After notifying, I spin-wait by polling the status byte": a caller
\* whose request is done finds out.
DoneIsNoticed ==
  \A c \in Callers, r \in Requests :
    (request[c] = r /\ performed[r] > 0) ~> (r \in Returned)

\* virtio_blk.h, "Notify & Completion": the used element to look at is
\* "used.ring[used.idx % N]": a call returns the length of its own transfer.
AnswerIsOwn == \A r \in Returned : answer[r] = r
=============================================================================
