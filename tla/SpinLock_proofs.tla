-------------------------- MODULE SpinLock_proofs ---------------------------
(***************************************************************************)
(* Proofs about SpinLock.tla, for every set of CPUs and number of rounds.  *)
(***************************************************************************)
EXTENDS SpinLock, TLAPS

\* A tag that survives vouches for the value LDAXR read: the word has not been
\* stored to since.  This is what makes the test and the store one.
TagVouches ==
  \A p \in CPUs : /\ p \in monitor /\ pc[p] \in {"test", "store"} => w0[p] = lock
                  /\ pc[p] = "store" => w0[p] = 0

\* Inside the critical section nobody else has moved the counter.
ReadIsFresh == \A p \in CPUs : pc[p] = "write" => tmp[p] = counter

IInv == TypeOK /\ MutualExclusion /\ TagVouches /\ ReadIsFresh /\ CounterExact

-----------------------------------------------------------------------------

LEMMA InitInvariant == Init => IInv
  BY SpinLockAssumption
  DEF Init, IInv, TypeOK, MutualExclusion, TagVouches, ReadIsFresh, CounterExact,
      Holders, Outside, Inside

\* A step that leaves the lock word, the monitors and the set of holders alone
\* leaves mutual exclusion alone.
LEMMA HoldersUnchanged ==
  ASSUME MutualExclusion, Holders' = Holders, lock' = lock
  PROVE  MutualExclusion'
  BY DEF MutualExclusion

\* Acquiring: the exclusive store succeeds only on a free word.
LEMMA StoreExclusiveInvariant ==
  ASSUME IInv, NEW p \in CPUs, StoreExclusive(p)
  PROVE  IInv'
  <1> USE DEF IInv, StoreExclusive, Goto
  <1>1. TypeOK'
    BY DEF TypeOK, Outside, Inside
  <1>2. CASE p \in monitor
    <2>1. /\ pc[p] = "store" /\ pc' = [pc EXCEPT ![p] = "read"]
          /\ lock' = 1 /\ monitor' = {}
      BY <1>2
    <2>2. lock = 0 /\ Holders = {}
      BY <1>2, <2>1 DEF TagVouches, MutualExclusion, TypeOK
    <2>3. Holders' = {p}
      BY <2>1, <2>2 DEF Holders, Inside, TypeOK
    <2>4. MutualExclusion'
      BY <2>1, <2>3 DEF MutualExclusion
    <2>5. TagVouches' /\ ReadIsFresh' /\ CounterExact'
      BY <2>1 DEF TagVouches, ReadIsFresh, CounterExact, TypeOK
    <2>6. QED
      BY <1>1, <2>4, <2>5
  <1>3. CASE p \notin monitor
    <2>1. /\ pc[p] = "store" /\ pc' = [pc EXCEPT ![p] = "load"]
          /\ lock' = lock /\ monitor' = monitor
      BY <1>3
    <2>2. Holders' = Holders
      BY <2>1 DEF Holders, Inside, TypeOK
    <2>3. TagVouches' /\ ReadIsFresh' /\ CounterExact'
      BY <2>1 DEF TagVouches, ReadIsFresh, CounterExact, TypeOK
    <2>4. QED
      BY <1>1, <2>1, <2>2, <2>3, HoldersUnchanged
  <1>4. QED
    BY <1>2, <1>3

\* Releasing: the only holder leaves and the word becomes 0.
LEMMA UnlockStoreInvariant ==
  ASSUME IInv, NEW p \in CPUs, UnlockStore(p)
  PROVE  IInv'
  <1> USE DEF IInv, UnlockStore, Goto
  <1>1. TypeOK'
    BY DEF TypeOK, Outside, Inside
  <1>2. pc[p] = "unstore" /\ Holders = {p}
    BY DEF MutualExclusion, Holders, Inside, TypeOK
  <1>3. CASE p \in monitor
    <2>1. pc' = [pc EXCEPT ![p] = "start"] /\ lock' = 0 /\ monitor' = {}
      BY <1>3
    <2>2. Holders' = {}
      BY <1>2, <2>1 DEF Holders, Inside, TypeOK
    <2>3. MutualExclusion'
      BY <2>1, <2>2 DEF MutualExclusion
    <2>4. TagVouches' /\ ReadIsFresh' /\ CounterExact'
      BY <1>2, <2>1 DEF TagVouches, ReadIsFresh, CounterExact, TypeOK
    <2>5. QED
      BY <1>1, <2>3, <2>4
  <1>4. CASE p \notin monitor
    <2>1. /\ pc' = [pc EXCEPT ![p] = "unload"]
          /\ lock' = lock /\ monitor' = monitor
      BY <1>4
    <2>2. Holders' = Holders
      BY <1>2, <2>1 DEF Holders, Inside, TypeOK
    <2>3. TagVouches' /\ ReadIsFresh' /\ CounterExact'
      BY <1>2, <2>1 DEF TagVouches, ReadIsFresh, CounterExact, TypeOK
    <2>4. QED
      BY <1>1, <2>1, <2>2, <2>3, HoldersUnchanged
  <1>5. QED
    BY <1>3, <1>4

\* The store half of counter += 1: the value read is still the counter's.
LEMMA WriteCounterInvariant ==
  ASSUME IInv, NEW p \in CPUs, WriteCounter(p)
  PROVE  IInv'
  <1> USE DEF IInv, WriteCounter, Goto
  <1>1. TypeOK'
    BY DEF TypeOK, Outside, Inside
  <1>2. pc[p] = "write" /\ Holders = {p}
    BY DEF MutualExclusion, Holders, Inside
  <1>3. Holders' = Holders /\ TagVouches'
    BY <1>2 DEF TagVouches, Holders, Inside, TypeOK
  <1>4. \A q \in CPUs : pc'[q] # "write"
    BY <1>2 DEF Holders, Inside, TypeOK
  <1>5. CounterExact'
    BY <1>2 DEF ReadIsFresh, CounterExact
  <1>6. QED
    BY <1>1, <1>3, <1>4, <1>5, HoldersUnchanged DEF ReadIsFresh

\* The steps that touch neither the lock word nor the counter.
LEMMA OtherStepsInvariant ==
  ASSUME IInv, NEW p \in CPUs,
         \/ Start(p) \/ LoadExclusive(p) \/ Test(p)
         \/ ReadCounter(p) \/ UnlockLoad(p) \/ LoseTag(p)
  PROVE  IInv'
  <1> USE DEF IInv
  <1> DEFINE Kept == TypeOK' /\ Holders' = Holders /\ TagVouches' /\ ReadIsFresh'
  <1>1. CASE Start(p)
    <2>1. Kept
      BY <1>1, SpinLockAssumption
      DEF Start, Goto, TypeOK, TagVouches, ReadIsFresh, Holders, Outside, Inside
    <2>2. QED
      BY <1>1, <2>1, HoldersUnchanged DEF Start, CounterExact
  <1>2. CASE LoadExclusive(p)
    <2>1. Kept
      BY <1>2
      DEF LoadExclusive, Goto, TypeOK, TagVouches, ReadIsFresh, Holders, Outside, Inside
    <2>2. QED
      BY <1>2, <2>1, HoldersUnchanged DEF LoadExclusive, CounterExact
  <1>3. CASE Test(p)
    <2>1. Kept
      BY <1>3 DEF Test, Goto, TypeOK, TagVouches, ReadIsFresh, Holders, Outside, Inside
    <2>2. QED
      BY <1>3, <2>1, HoldersUnchanged DEF Test, CounterExact
  <1>4. CASE ReadCounter(p)
    <2>1. Kept
      BY <1>4
      DEF ReadCounter, Goto, TypeOK, TagVouches, ReadIsFresh, Holders, Outside, Inside
    <2>2. QED
      BY <1>4, <2>1, HoldersUnchanged DEF ReadCounter, CounterExact
  <1>5. CASE UnlockLoad(p)
    <2>1. Kept
      BY <1>5
      DEF UnlockLoad, Goto, TypeOK, TagVouches, ReadIsFresh, Holders, Outside, Inside
    <2>2. QED
      BY <1>5, <2>1, HoldersUnchanged DEF UnlockLoad, CounterExact
  <1>6. CASE LoseTag(p)
    <2>1. Kept
      BY <1>6 DEF LoseTag, TypeOK, TagVouches, ReadIsFresh, Holders
    <2>2. QED
      BY <1>6, <2>1, HoldersUnchanged DEF LoseTag, CounterExact
  <1>7. QED
    BY <1>1, <1>2, <1>3, <1>4, <1>5, <1>6

LEMMA InductiveStep == IInv /\ [Next]_vars => IInv'
  <1> SUFFICES ASSUME IInv, [Next]_vars PROVE IInv'
    OBVIOUS
  <1>1. ASSUME NEW p \in CPUs, Step(p) \/ LoseTag(p) PROVE IInv'
    BY <1>1, StoreExclusiveInvariant, UnlockStoreInvariant, WriteCounterInvariant,
       OtherStepsInvariant DEF Step
  <1>2. CASE UNCHANGED vars
    BY <1>2 DEF vars, IInv, TypeOK, MutualExclusion, TagVouches, ReadIsFresh,
                CounterExact, Holders
  <1>3. QED
    BY <1>1, <1>2 DEF Next

LEMMA Invariance == Spec => []IInv
  BY InitInvariant, InductiveStep, PTL DEF Spec, SafeSpec

-----------------------------------------------------------------------------
(* The theorems. *)

\* Every instruction of the asm blocks leaves registers, word and monitors in
\* their ranges.
THEOREM TypeCorrect == Spec => []TypeOK
  <1>1. IInv => TypeOK
    BY DEF IInv
  <1>2. QED
    BY <1>1, Invariance, PTL

\* spin_lock admits one CPU at a time, for any number of CPUs and whatever tags
\* are lost.
THEOREM LockExcludes == Spec => []MutualExclusion
  <1>1. IInv => MutualExclusion
    BY DEF IInv
  <1>2. QED
    BY <1>1, Invariance, PTL

\* The test of spinlock.c never loses an increment, for any number of threads
\* and rounds.
THEOREM NoIncrementLost == Spec => []CounterExact
  <1>1. IInv => CounterExact
    BY DEF IInv
  <1>2. QED
    BY <1>1, Invariance, PTL

-----------------------------------------------------------------------------
(* Refinement: the asm blocks implement the abstract mutex. *)

LEMMA StepRefines == IInv /\ [Next]_vars => [M!Next]_Holders
  <1> SUFFICES ASSUME IInv, [Next]_vars PROVE [M!Next]_Holders
    OBVIOUS
  <1> USE DEF IInv, Holders, Inside, TypeOK
  <1>1. ASSUME NEW p \in CPUs, StoreExclusive(p), p \in monitor
        PROVE  M!Acquire(p)
    <2>1. pc[p] = "store" /\ pc' = [pc EXCEPT ![p] = "read"]
      BY <1>1 DEF StoreExclusive, Goto
    <2>2. Holders = {}
      BY <1>1, <2>1 DEF TagVouches, MutualExclusion
    <2>3. Holders' = {p}
      BY <2>1, <2>2
    <2>4. QED
      BY <2>2, <2>3 DEF M!Acquire
  <1>2. ASSUME NEW p \in CPUs, UnlockStore(p), p \in monitor
        PROVE  M!Release(p)
    <2>1. pc[p] = "unstore" /\ pc' = [pc EXCEPT ![p] = "start"]
      BY <1>2 DEF UnlockStore, Goto
    <2>2. Holders = {p}
      BY <2>1 DEF MutualExclusion
    <2>3. Holders' = {}
      BY <2>1, <2>2
    <2>4. QED
      BY <2>2, <2>3 DEF M!Release
  <1>3. ASSUME NEW p \in CPUs, Step(p) \/ LoseTag(p),
               ~(StoreExclusive(p) /\ p \in monitor), ~(UnlockStore(p) /\ p \in monitor)
        PROVE  Holders' = Holders
    <2>1. PICK from \in Outside \cup Inside, to \in Outside \cup Inside :
             /\ pc[p] = from /\ pc' = [pc EXCEPT ![p] = to]
             /\ from \in Inside <=> to \in Inside
      BY <1>3 DEF Step, Start, LoadExclusive, Test, StoreExclusive, ReadCounter,
                  WriteCounter, UnlockLoad, UnlockStore, LoseTag, Goto, Outside
    <2>2. QED
      BY <2>1
  <1>4. CASE UNCHANGED vars
    BY <1>4 DEF vars
  <1>5. QED
    BY <1>1, <1>2, <1>3, <1>4 DEF Next, M!Next

\* Every step of spin_lock and spin_unlock is a step of the mutex or a stutter.
THEOREM RefinesMutex == Spec => ImplementsMutex
  <1>1. Init => M!Init
    BY DEF Init, M!Init, Holders, Inside
  <1>2. QED
    BY <1>1, StepRefines, Invariance, PTL
    DEF Spec, SafeSpec, ImplementsMutex, M!Spec
=============================================================================
