------------------------------ MODULE SpinLock ------------------------------
(***************************************************************************)
(* spin_lock and spin_unlock of src/kernel/core/spinlock.c, one action per *)
(* instruction, on any number of CPUs, with the exclusive monitors that    *)
(* spinlock.h describes: LDAXR tags the lock word for a CPU, a store to it *)
(* clears every tag, STLXR stores only if the tag is still there.  A tag   *)
(* can also be lost for no visible reason (an exception return, another    *)
(* access to the same granule).                                            *)
(*                                                                         *)
(* The CPUs run the test kept in spinlock.c's comment: a number of rounds  *)
(* of lock; counter += 1; unlock, the increment being a load and a store.  *)
(* Memory is sequentially consistent: LDAXR acquires and STLXR releases.   *)
(***************************************************************************)
EXTENDS Integers

CONSTANTS CPUs,      \* the CPUs (threads of the test)
          Rounds     \* rounds each makes (2500 in the test)

ASSUME SpinLockAssumption == Rounds \in Nat

VARIABLES
  pc,        \* per CPU, the instruction it is at
  w0,        \* per CPU, register w0 of the asm blocks
  tmp,       \* per CPU, the register the increment uses
  rounds,    \* per CPU, the rounds still to make
  lock,      \* SpinLock.lock
  monitor,   \* the CPUs whose exclusive monitor tags the lock word
  counter,   \* the test's counter
  finished   \* how many increments have been made, by anyone

vars == <<pc, w0, tmp, rounds, lock, monitor, counter, finished>>

Outside == {"start", "load", "test", "store"}
Inside == {"read", "write", "unload", "unstore"}

Init ==
  /\ pc = [p \in CPUs |-> "start"]
  /\ w0 = [p \in CPUs |-> 0]
  /\ tmp = [p \in CPUs |-> 0]
  /\ rounds = [p \in CPUs |-> Rounds]
  /\ lock = 0
  /\ monitor = {}
  /\ counter = 0
  /\ finished = 0

Goto(p, from, to) == pc[p] = from /\ pc' = [pc EXCEPT ![p] = to]

Start_OneRoundMore(p) ==
  /\ rounds[p] >= 0
  /\ Goto(p, "start", "load")
  /\ rounds' = [rounds EXCEPT ![p] = rounds[p] - 1]
  /\ UNCHANGED <<w0, tmp, lock, monitor, counter, finished>>

\* The test calls spin_lock.
Start(p) ==
  /\ rounds[p] > 0
  /\ Goto(p, "start", "load")
  /\ rounds' = [rounds EXCEPT ![p] = rounds[p] - 1]
  /\ UNCHANGED <<w0, tmp, lock, monitor, counter, finished>>

-----------------------------------------------------------------------------
(* spin_lock *)

\* LDAXR w0, [lock]
LoadExclusive(p) ==
  /\ Goto(p, "load", "test")
  /\ w0' = [w0 EXCEPT ![p] = lock]
  /\ monitor' = monitor \cup {p}
  /\ UNCHANGED <<tmp, rounds, lock, counter, finished>>

\* CBNZ w0, 1b
Test_Dropped(p) ==
  /\ Goto(p, "test", "store")
  /\ UNCHANGED <<w0, tmp, rounds, lock, monitor, counter, finished>>

Test(p) ==
  /\ Goto(p, "test", IF w0[p] # 0 THEN "load" ELSE "store")
  /\ UNCHANGED <<w0, tmp, rounds, lock, monitor, counter, finished>>

\* MOV w0, #1; STLXR w1, w0, [lock]; CBNZ w1, 1b
StoreExclusive_PlainStore(p) ==
  /\ Goto(p, "store", "read")
  /\ w0' = [w0 EXCEPT ![p] = 1]
  /\ lock' = 1
  /\ monitor' = {}
  /\ UNCHANGED <<tmp, rounds, counter, finished>>

StoreExclusive(p) ==
  /\ w0' = [w0 EXCEPT ![p] = 1]
  /\ \/ /\ p \in monitor
        /\ Goto(p, "store", "read")
        /\ lock' = 1
        /\ monitor' = {}
     \/ /\ p \notin monitor
        /\ Goto(p, "store", "load")
        /\ UNCHANGED <<lock, monitor>>
  /\ UNCHANGED <<tmp, rounds, counter, finished>>

-----------------------------------------------------------------------------
(* The critical section: counter += 1 *)

ReadCounter(p) ==
  /\ Goto(p, "read", "write")
  /\ tmp' = [tmp EXCEPT ![p] = counter]
  /\ UNCHANGED <<w0, rounds, lock, monitor, counter, finished>>

WriteCounter(p) ==
  /\ Goto(p, "write", "unload")
  /\ counter' = tmp[p] + 1
  /\ finished' = finished + 1
  /\ UNCHANGED <<w0, tmp, rounds, lock, monitor>>

-----------------------------------------------------------------------------
(* spin_unlock: the word is not tested, but the store is still exclusive. *)

UnlockLoad(p) ==
  /\ Goto(p, "unload", "unstore")
  /\ w0' = [w0 EXCEPT ![p] = lock]
  /\ monitor' = monitor \cup {p}
  /\ UNCHANGED <<tmp, rounds, lock, counter, finished>>

UnlockStore_NoRetry(p) ==
  /\ w0' = [w0 EXCEPT ![p] = 0]
  /\ Goto(p, "unstore", "start")
  /\ IF p \in monitor THEN lock' = 0 /\ monitor' = {} ELSE UNCHANGED <<lock, monitor>>
  /\ UNCHANGED <<tmp, rounds, counter, finished>>

UnlockStore(p) ==
  /\ w0' = [w0 EXCEPT ![p] = 0]
  /\ \/ /\ p \in monitor
        /\ Goto(p, "unstore", "start")
        /\ lock' = 0
        /\ monitor' = {}
     \/ /\ p \notin monitor
        /\ Goto(p, "unstore", "unload")
        /\ UNCHANGED <<lock, monitor>>
  /\ UNCHANGED <<tmp, rounds, counter, finished>>

\* The monitor of p loses its tag.
LoseTag(p) ==
  /\ p \in monitor
  /\ monitor' = monitor \ {p}
  /\ UNCHANGED <<pc, w0, tmp, rounds, lock, counter, finished>>

Step(p) ==
  \/ Start(p) \/ LoadExclusive(p) \/ Test(p) \/ StoreExclusive(p)
  \/ ReadCounter(p) \/ WriteCounter(p) \/ UnlockLoad(p) \/ UnlockStore(p)

Next == \E p \in CPUs : Step(p) \/ LoseTag(p)

SafeSpec == Init /\ [][Next]_vars

\* Every CPU executes.
Spec == SafeSpec /\ \A p \in CPUs : WF_vars(Step(p))

-----------------------------------------------------------------------------
(* Properties. *)

Holders == {p \in CPUs : pc[p] \in Inside}

TypeOK ==
  /\ pc \in [CPUs -> Outside \cup Inside]
  /\ w0 \in [CPUs -> {0, 1}]
  /\ tmp \in [CPUs -> Nat]
  /\ rounds \in [CPUs -> 0..Rounds]
  /\ lock \in {0, 1}
  /\ monitor \subseteq CPUs
  /\ counter \in Nat /\ finished \in Nat

\* spinlock.h: "making it impossible for two cores to successfully perform a
\* STXR on the same location simultaneously": at most one CPU is between
\* spin_lock and the store of spin_unlock, and the word says whether one is.
MutualExclusion ==
  /\ \A p, q \in Holders : p = q
  /\ lock = IF Holders = {} THEN 0 ELSE 1

\* The test of spinlock.c: no increment of the counter is lost, however the
\* loads and stores of the CPUs interleave.
CounterExact == counter = finished

\* The asm blocks implement a mutex: a lock is acquired only when free and
\* released only by the CPU that holds it.
M == INSTANCE Mutex WITH holders <- Holders
ImplementsMutex == M!Spec

\* The architecture's promise for LDAXR/STLXR loops: from some point on no tag
\* is lost but to another CPU's store.
TagsSettle == <>[][\A p \in CPUs : ~LoseTag(p)]_vars

\* The test of spinlock.c ends: no CPU spins for ever on a lock that nobody holds
\* or whose release got lost in a failed exclusive store.
TestEnds == TagsSettle => <>(\A p \in CPUs : rounds[p] = 0 /\ pc[p] = "start")
=============================================================================
