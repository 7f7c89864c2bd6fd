---------------------------- MODULE Kernel_proofs ----------------------------
(***************************************************************************)
(* Proofs about Kernel.tla: for every number of tasks, slice and size of   *)
(* the kernel stacks, wherever the timer interrupt hits and however often  *)
(* programs fault.  KInv is the inductive invariant; it contains that of   *)
(* the scheduler, which the kernel uses.                                   *)
(***************************************************************************)
EXTENDS Kernel, Scheduler_proofs

\* The CPU has entered the first program and not left the path since.
Entered == {"svc"} \cup Returning \cup EL0
\* A frame of the program lies just below the stack pointer.
FrameBelow == at \in {"svc"} \cup Unpopped \/ (at \in Io /\ executing # NoContext)

\* The frame f returns to the program of t, in the state t has reached.
ReturnsTo(f, t) ==
  f.spsr = "EL0" /\ f.elr = "user" /\ f.ttbr0 = t /\ f.sp_el0 = t /\ OwnRegisters(f, t)

GprRange == [x0 : X0, x10 : X10, regs : Registers]
SysRange == [ttbr0 : Stacks, sp_el0 : Stacks, elr : Places, spsr : {"EL0", "EL1"}]

\* The ranges KTypeOK states, and the shape of the kernel stacks.
KTyped ==
  /\ at \in Places
  /\ masked \in BOOLEAN /\ pending \in BOOLEAN
  /\ gpr \in GprRange /\ sys \in SysRange
  /\ sp \in 0 .. MaxDepth + 1
  /\ frame \in [Stacks -> [0..MaxDepth -> Frames]]
  /\ lock \in {0, 1} /\ sysno \in Syscalls \cup {NoSyscall} /\ io \in 0..2
  /\ user \in [Tasks -> UserStates] /\ called \subseteq Tasks
  /\ faults \in [Tasks -> 0 .. MaxDepth + 1]
  /\ x0_lost \subseteq Tasks /\ elr_lost \subseteq Tasks

\* Block operations are counted up to the two of a write; interrupts are masked
\* before the lock is taken and until it has been released.
IoProgress ==
  /\ at \in {"kmain_start", "svc"} => io = 0
  /\ at \in {"io_masked", "io_locked"} => io < 2 /\ masked

\* kmain runs on its own stack, everything else on the stack of a task.
StackInUse ==
  /\ at \in Kmain => executing = NoContext
  /\ at \in Entered => executing # NoContext
  /\ executing = NoContext => /\ sp = 0 /\ elr_lost = {}
                              /\ \A t \in Tasks : faults[t] = 0

\* A syscall adds one frame to what the faults of the task left on its stack.
FramesCounted ==
  /\ FrameBelow => sp = faults[current] + 1
  /\ at = "ret_regs" => sp = faults[current]
  /\ StackGrowsOnlyByFaults

\* From the exception to the eret the program's registers are in its frame; the
\* loads of RESTORE_AND_ERET move them to the CPU.
ProgramKept ==
  /\ FrameBelow => ReturnsTo(frame[current][sp - 1], current)
  /\ at \in {"ret_sp_el0", "ret_elr", "ret_spsr", "ret_regs"} \cup EL0 =>
        sys.ttbr0 = current /\ sys.sp_el0 = current
  /\ at \in {"ret_regs", "user"} => OwnRegisters(gpr, current)

\* ELR_EL1 has been lost to an interrupt, and SPSR_EL1 has not, in the tasks of
\* elr_lost and no other.
ReturnKept ==
  /\ at \in {"svc", "ret0", "ret_sp_el0", "user"} \cup Io => current \notin elr_lost
  /\ at = "ret_elr" => (sys.elr = "user" <=> current \notin elr_lost)
  /\ at \in {"ret_spsr", "ret_regs"} /\ sys.spsr = "EL0" =>
        (sys.elr = "user" <=> current \notin elr_lost)
  /\ at = "lost" => current \in elr_lost

KInv ==
  /\ IInv /\ KTyped /\ IoProgress /\ StackInUse /\ FramesCounted /\ ProgramKept
  /\ ReturnKept /\ WaitingContextsIntact /\ LockHolderUndisturbed

-----------------------------------------------------------------------------
(* What the scheduler's invariant means to the CPU. *)

\* Steps that leave the scheduler alone keep its invariant.
LEMMA SchedulerUntouched == IInv /\ UNCHANGED vars => IInv'
  BY DEF vars, IInv, TypeOK, QueueSpellsRotation, OneRuns, FramesOwned, BootOrder

\* Once a program was entered, the stack in use is that of the current task, and
\* every task has been set up.
LEMMA CurrentOnItsStack ==
  ASSUME IInv, executing # NoContext
  PROVE  /\ executing \in Contexts /\ executing.task = current
         /\ current \in Tasks /\ current # NULL /\ inited = NTasks
  BY SchedulerAssumption DEF IInv, TypeOK, OneRuns, BootOrder, Contexts, NoContext, Tasks, NULL

\* The places in groups that have nothing in common.
LEMMA PlacesApart ==
  /\ Kmain \cap (Io \cup Entered \cup Stuck) = {}
  /\ Io \cap (Entered \cup Stuck) = {}
  /\ Entered \cap Stuck = {}
  /\ {"svc"} \cap (Returning \cup EL0) = {} /\ Returning \cap EL0 = {}
  /\ "ret_regs" \notin Unpopped
  BY DEF Kmain, Io, Entered, Stuck, Returning, Unpopped, EL0

\* A record of the registers, or a frame, whose registers are those of another.
LEMMA SameRegisters ==
  ASSUME NEW t \in Tasks, NEW r, NEW q, OwnRegisters(r, t),
         q.regs = r.regs, q.x10 = r.x10, q.x0 = r.x0 \/ t \in x0_lost
  PROVE  OwnRegisters(q, t)
  BY DEF OwnRegisters

\* What a program may lose, it stays without.
LEMMA RegistersStay ==
  ASSUME NEW t \in Tasks, NEW r, OwnRegisters(r, t),
         user'[t] = user[t], faults'[t] = faults[t], t \in x0_lost => t \in x0_lost'
  PROVE  /\ r.regs = user'[t]
         /\ r.x0 = "user" \/ t \in x0_lost' \/ faults'[t] > 0
         /\ r.x10 = "user" \/ faults'[t] > 0
  BY DEF OwnRegisters

-----------------------------------------------------------------------------
(* The invariant, one lemma per action. *)

\* At reset the CPU is in kmain and no frame has been saved.
LEMMA KInitInvariant == KInit => KInv
  <1> SUFFICES ASSUME KInit PROVE KInv
    OBVIOUS
  <1> USE SchedulerAssumption
  <1>1. IInv
    BY InitInvariant DEF KInit
  <1>2. "kmain_start" \in Places /\ NULL \in Stacks /\ "user" \in X0 /\ "user" \in X10
    BY DEF Places, Kmain, Stacks, BootStack, X0, X10
  <1>3. KernelRegs \in Registers
    BY DEF Registers
  <1>4. KTyped
    <2>1. NoFrame \in Frames
      BY <1>2, <1>3 DEF Frames, NoFrame
    <2>2. frame \in [Stacks -> [0..MaxDepth -> Frames]]
      BY <2>1 DEF KInit
    <2>3. \A t \in Tasks : [task |-> t, step |-> 0] \in UserStates
      BY DEF UserStates, Steps
    <2>4. user \in [Tasks -> UserStates]
      BY <2>3 DEF KInit
    <2>5. gpr \in GprRange
      BY <1>2, <1>3 DEF KInit, GprRange
    <2>6. sys \in SysRange
      BY <1>2 DEF KInit, SysRange
    <2>7. at \in Places /\ sp \in 0 .. MaxDepth + 1
      BY <1>2 DEF KInit
    <2>10. masked \in BOOLEAN /\ pending \in BOOLEAN
      BY DEF KInit
    <2>8. lock \in {0, 1} /\ sysno \in Syscalls \cup {NoSyscall} /\ io \in 0..2
      BY DEF KInit
    <2>9. /\ faults \in [Tasks -> 0 .. MaxDepth + 1]
          /\ called \subseteq Tasks /\ x0_lost \subseteq Tasks /\ elr_lost \subseteq Tasks
      BY DEF KInit
    <2>12. QED
      BY <2>2, <2>4, <2>5, <2>6, <2>7, <2>8, <2>9, <2>10 DEF KTyped
  <1>5. inited = 0 /\ executing = NoContext /\ at = "kmain_start" /\ lock = 0 /\ io = 0 /\ sp = 0
        /\ elr_lost = {} /\ \A t \in Tasks : faults[t] = 0
    BY DEF KInit, Init
  <1>6. at \in Kmain
    BY <1>5 DEF Kmain
  <1>7. at \notin Entered /\ at \notin Io /\ at \notin EL0 /\ ~FrameBelow
    BY <1>6, PlacesApart DEF Entered, FrameBelow, Returning
  <1>8. WaitingTasks = {}
    BY <1>5 DEF WaitingTasks
  <1>9. WaitingContextsIntact /\ FramesCounted
    BY <1>5, <1>7, <1>8 DEF WaitingContextsIntact, FramesCounted, StackGrowsOnlyByFaults
  <1>10. IoProgress /\ StackInUse /\ LockHolderUndisturbed
    BY <1>5, <1>7 DEF IoProgress, StackInUse, LockHolderUndisturbed
  <1>11. ProgramKept /\ ReturnKept
    BY <1>5, <1>7 DEF ProgramKept, ReturnKept, EL0, Io
  <1>12. QED
    BY <1>1, <1>4, <1>9, <1>10, <1>11 DEF KInv

\* Nothing KInv speaks of has changed but the CPU's place, its mask and the timer,
\* and the place is one that KInv says nothing more of.
LEMMA StuckInvariant ==
  ASSUME KInv, lock = 0, at' \in Stuck, masked' \in BOOLEAN, pending' \in BOOLEAN,
         UNCHANGED <<vars, gpr, sys, sp, frame, kernel, programs, history>>
  PROVE  KInv'
  <1>1. IInv'
    BY SchedulerUntouched DEF KInv
  <1>2. KTyped'
    <2>1. at' \in Places
      BY DEF Places
    <2>2. QED
      BY <2>1 DEF KInv, KTyped, kernel, programs, history
  <1>3. at' \notin Kmain \cup Io \cup Entered \cup Returning \cup EL0 /\ at' # "svc"
    BY PlacesApart DEF Entered
  <1>4. ~FrameBelow' /\ at' \notin {"kmain_start", "io_masked", "io_locked"}
    BY <1>3 DEF FrameBelow, Returning, Kmain, Io
  <1>5. WaitingTasks' = WaitingTasks
    BY DEF WaitingTasks, vars
  <1>6. IoProgress' /\ StackInUse' /\ LockHolderUndisturbed'
    BY <1>3, <1>4 DEF KInv, IoProgress, StackInUse, LockHolderUndisturbed, vars, kernel, history
  <1>7. FramesCounted'
    BY <1>3, <1>4, <1>5
    DEF KInv, FramesCounted, StackGrowsOnlyByFaults, Returning, vars, history
  <1>8. ProgramKept' /\ ReturnKept'
    BY <1>3, <1>4 DEF ProgramKept, ReturnKept, Returning, Unpopped, EL0
  <1>9. WaitingContextsIntact'
    BY <1>5 DEF KInv, WaitingContextsIntact, IntactFrame, OwnRegisters, vars, programs, history
  <1>10. QED
    BY <1>1, <1>2, <1>6, <1>7, <1>8, <1>9 DEF KInv

\* The kernel stack overflows: where it hits, the lock is free.
LEMMA OverflowInvariant == KInv /\ Overflow /\ (~masked \/ at \in EL0) => KInv'
  <1> SUFFICES ASSUME KInv, Overflow, ~masked \/ at \in EL0 PROVE KInv'
    OBVIOUS
  <1>1. lock = 0
    BY DEF KInv, KTyped, LockHolderUndisturbed, EL0
  <1>2. at' \in Stuck /\ masked' \in BOOLEAN /\ pending' \in BOOLEAN
    BY DEF KInv, KTyped, Overflow, Stuck
  <1>3. QED
    BY <1>1, <1>2, StuckInvariant DEF Overflow

\* kmain's steps that move on and set the mask, and no more.
LEMMA KmainMovesInvariant ==
  ASSUME KInv, executing = NoContext, at \in Kmain \cup {"io_wait"}, at' \in Kmain,
         at' # "kmain_start", masked' \in BOOLEAN,
         UNCHANGED <<vars, pending, gpr, sys, sp, frame, kernel, programs, history>>
  PROVE  KInv'
  <1>1. IInv'
    BY SchedulerUntouched DEF KInv
  <1>2. KTyped'
    <2>1. at' \in Places
      BY DEF Places
    <2>2. QED
      BY <2>1 DEF KInv, KTyped, kernel, programs, history
  <1>3. at' \notin Io \cup Entered \cup Returning \cup EL0 /\ at' # "svc"
    BY PlacesApart DEF Entered
  <1>4. ~FrameBelow' /\ at' \notin {"io_masked", "io_locked"}
    BY <1>3 DEF FrameBelow, Returning, Io
  <1>5. WaitingTasks' = WaitingTasks
    BY DEF WaitingTasks, vars
  <1>6. lock = 0
    BY DEF KInv, KTyped, LockHolderUndisturbed, Kmain
  <1>7. IoProgress' /\ StackInUse' /\ LockHolderUndisturbed'
    BY <1>3, <1>4, <1>6
    DEF KInv, IoProgress, StackInUse, LockHolderUndisturbed, vars, kernel, history
  <1>8. FramesCounted'
    BY <1>3, <1>4, <1>5
    DEF KInv, FramesCounted, StackGrowsOnlyByFaults, Returning, vars, history
  <1>9. ProgramKept' /\ ReturnKept'
    BY <1>3, <1>4 DEF ProgramKept, ReturnKept, Returning, Unpopped, EL0
  <1>10. WaitingContextsIntact'
    BY <1>5 DEF KInv, WaitingContextsIntact, IntactFrame, OwnRegisters, vars, programs, history
  <1>11. QED
    BY <1>1, <1>2, <1>7, <1>8, <1>9, <1>10 DEF KInv

\* init_task, as kmain calls it: the new frame is complete, and no other changes.
LEMMA KmainInitTaskInvariant == KInv /\ KmainInitTask => KInv'
  <1> SUFFICES ASSUME KInv, KmainInitTask PROVE KInv'
    OBVIOUS
  <1> USE SchedulerAssumption
  <1> DEFINE n == inited + 1
  <1>1. IInv /\ IInv'
    BY InitTaskInvariant DEF KInv, KmainInitTask
  <1>2. /\ n \in Tasks /\ n \in Stacks /\ 0 \in 0..MaxDepth /\ inited' = n
        /\ context' = [context EXCEPT ![n] = InitialContext(n)]
        /\ UNCHANGED <<current, executing>>
        /\ frame' = [frame EXCEPT ![n][0] = InitialFrame(n)]
        /\ at = "kmain_tasks"
        /\ UNCHANGED <<at, masked, pending, gpr, sys, sp, kernel, programs, history>>
    BY <1>1 DEF KmainInitTask, InitTask, IInv, TypeOK, Tasks, Stacks
  <1>3. at \in Kmain
    BY <1>2 DEF Kmain
  <1>4. executing = NoContext /\ elr_lost = {} /\ faults[n] = 0
    BY <1>2, <1>3 DEF KInv, StackInUse
  <1>5. InitialFrame(n) \in Frames
    BY <1>2 DEF KInv, KTyped, InitialFrame, Frames, X0, X10, Stacks, Places, EL0, Registers
  <1>6. KTyped'
    <2>1. frame' \in [Stacks -> [0..MaxDepth -> Frames]]
      BY <1>2, <1>5 DEF KInv, KTyped
    <2>2. QED
      BY <1>2, <2>1 DEF KInv, KTyped, kernel, programs, history
  <1>7. at \notin Entered \cup Io \cup Unpopped \cup EL0 \cup {"svc", "ret_regs"}
    BY <1>3, PlacesApart DEF Entered, Returning
  <1>8. ~FrameBelow'
    BY <1>2, <1>7 DEF FrameBelow
  <1>9. IoProgress' /\ StackInUse' /\ LockHolderUndisturbed'
    BY <1>2 DEF KInv, IoProgress, StackInUse, LockHolderUndisturbed, kernel, history
  <1>10. ProgramKept' /\ ReturnKept'
    BY <1>2, <1>7, <1>8 DEF ProgramKept, ReturnKept, Unpopped, EL0
  <1>11. InitialContext(n) = [task |-> n, depth |-> 0]
    BY DEF InitialContext
  <1>12. ASSUME NEW t \in WaitingTasks'
         PROVE  /\ t \in Tasks
                /\ \/ /\ t = n /\ context'[t].depth = 0
                      /\ frame'[t][context'[t].depth] = InitialFrame(n)
                   \/ /\ t \in WaitingTasks /\ context'[t] = context[t]
                      /\ frame'[t] = frame[t]
    <2>1. t \in 1..n /\ t \in Tasks
      BY <1>2 DEF WaitingTasks, Tasks
    <2>2. CASE t = n
      <3>1. context'[t].depth = 0
        BY <1>1, <1>2, <1>11, <2>2 DEF IInv, TypeOK
      <3>2. frame'[t][0] = InitialFrame(n)
        BY <1>2, <2>2 DEF KInv, KTyped
      <3>3. QED
        BY <2>1, <2>2, <3>1, <3>2
    <2>3. CASE t # n
      <3>1. t \in 1..inited
        BY <1>1, <2>1, <2>3 DEF IInv, TypeOK
      <3>2. t \in WaitingTasks
        BY <1>4, <3>1 DEF WaitingTasks
      <3>3. context'[t] = context[t] /\ frame'[t] = frame[t]
        BY <1>1, <1>2, <2>1, <2>3 DEF KInv, KTyped, IInv, TypeOK, Stacks
      <3>4. QED
        BY <2>1, <3>2, <3>3
    <2>4. QED
      BY <2>2, <2>3
  <1>13. FramesCounted'
    <2>1. ASSUME NEW t \in WaitingTasks' PROVE context'[t].depth = faults'[t]
      <3>1. faults' = faults
        BY <1>2 DEF history
      <3>2. t \in WaitingTasks => context[t].depth = faults[t]
        BY DEF KInv, FramesCounted, StackGrowsOnlyByFaults
      <3>3. QED
        BY <1>4, <1>12, <2>1, <3>1, <3>2
    <2>2. QED
      BY <1>2, <1>7, <1>8, <2>1 DEF FramesCounted, StackGrowsOnlyByFaults
  <1>14. WaitingContextsIntact'
    <2>1. ASSUME NEW t \in WaitingTasks' PROVE IntactFrame(frame[t][context[t].depth], t)'
      <3>1. UNCHANGED <<user, faults, x0_lost, elr_lost>>
        BY <1>2 DEF history, programs
      <3>2. t \in Tasks
        BY <1>12, <2>1
      <3>3. CASE t = n
        <4>1. IntactFrame(InitialFrame(n), n)
          BY <1>4 DEF IntactFrame, OwnRegisters, InitialFrame
        <4>2. frame'[t][context'[t].depth] = InitialFrame(n)
          <5>1. context'[t].depth = 0
            BY <1>1, <1>2, <1>11, <3>3 DEF IInv, TypeOK
          <5>2. QED
            BY <1>2, <3>3, <5>1 DEF KInv, KTyped
        <4>3. QED
          BY <3>1, <3>3, <4>1, <4>2 DEF IntactFrame, OwnRegisters
      <3>4. CASE t # n
        <4>1. t \in WaitingTasks /\ frame'[t][context'[t].depth] = frame[t][context[t].depth]
          BY <1>12, <2>1, <3>4
        <4>2. IntactFrame(frame[t][context[t].depth], t)
          BY <4>1 DEF KInv, WaitingContextsIntact
        <4>3. QED
          BY <3>1, <4>1, <4>2 DEF IntactFrame, OwnRegisters
      <3>5. QED
        BY <3>3, <3>4
    <2>2. QED
      BY <2>1 DEF WaitingContextsIntact
  <1>15. QED
    BY <1>1, <1>6, <1>9, <1>10, <1>13, <1>14 DEF KInv

\* sched_set_current: the first task becomes current but does not execute yet.
LEMMA KmainSetCurrentInvariant == KInv /\ KmainSetCurrent => KInv'
  <1> SUFFICES ASSUME KInv, KmainSetCurrent PROVE KInv'
    OBVIOUS
  <1>1. IInv /\ IInv'
    BY SchedSetCurrentInvariant DEF KInv, KmainSetCurrent
  <1>2. /\ at = "kmain_tasks" /\ at' = "kmain_current"
        /\ UNCHANGED <<masked, pending, gpr, sys, sp, frame, kernel, programs, history>>
        /\ UNCHANGED <<context, inited, executing>>
    BY DEF KmainSetCurrent, SchedSetCurrent
  <1>3. at \in Kmain /\ at' \in Kmain
    BY <1>2 DEF Kmain
  <1>4. executing = NoContext
    BY <1>3 DEF KInv, StackInUse
  <1>5. KTyped'
    <2>1. at' \in Places
      BY <1>3 DEF Places
    <2>2. QED
      BY <1>2, <2>1 DEF KInv, KTyped, kernel, programs, history
  <1>6. at' \notin Io \cup Entered \cup Returning \cup EL0 /\ at' # "svc"
    BY <1>3, PlacesApart DEF Entered
  <1>7. ~FrameBelow'
    BY <1>6 DEF FrameBelow, Returning
  <1>8. WaitingTasks' = WaitingTasks
    BY <1>2, <1>4 DEF WaitingTasks
  <1>9. IoProgress' /\ StackInUse' /\ LockHolderUndisturbed'
    BY <1>2, <1>4, <1>6 DEF KInv, IoProgress, StackInUse, LockHolderUndisturbed, kernel, history
  <1>10. FramesCounted'
    BY <1>2, <1>6, <1>7, <1>8
    DEF KInv, FramesCounted, StackGrowsOnlyByFaults, Returning, history
  <1>11. ProgramKept' /\ ReturnKept'
    BY <1>6, <1>7 DEF ProgramKept, ReturnKept, Returning, Unpopped, EL0
  <1>12. WaitingContextsIntact'
    BY <1>2, <1>8 DEF KInv, WaitingContextsIntact, IntactFrame, OwnRegisters, programs, history
  <1>13. QED
    BY <1>1, <1>5, <1>9, <1>10, <1>11, <1>12 DEF KInv

\* first_user_enter turns the stack pointer to the frame init_task built.
LEMMA KmainFirstUserEnterInvariant == KInv /\ KmainFirstUserEnter => KInv'
  <1> SUFFICES ASSUME KInv, KmainFirstUserEnter PROVE KInv'
    OBVIOUS
  <1> USE SchedulerAssumption
  <1>1. IInv /\ IInv'
    BY FirstUserEnterInvariant DEF KInv, KmainFirstUserEnter
  <1>2. /\ at = "kmain_enter" /\ at' = "ret0"
        /\ current # NULL /\ executing = NoContext /\ executing' = context[current]
        /\ sp' = executing'.depth + 1
        /\ UNCHANGED <<current, context, inited>>
        /\ UNCHANGED <<masked, pending, gpr, sys, frame, kernel, programs, history>>
    BY DEF KmainFirstUserEnter, FirstUserEnter
  <1>3. current \in Tasks /\ inited = NTasks /\ context[current] \in Contexts
    BY <1>1, <1>2 DEF IInv, TypeOK, BootOrder, FramesOwned, NULL, NoContext, Tasks
  <1>4. executing' # NoContext /\ executing'.depth \in 0..MaxDepth
    BY <1>2, <1>3 DEF Contexts, NoContext, Tasks, NULL
  <1>5. current \in WaitingTasks
    BY <1>2, <1>3 DEF WaitingTasks, Tasks
  <1>6. executing'.depth = faults[current] /\ elr_lost = {}
    BY <1>2, <1>5 DEF KInv, FramesCounted, StackGrowsOnlyByFaults, StackInUse
  <1>7. at' \in Unpopped /\ at' \in Entered /\ at' \in Places
    BY <1>2 DEF Unpopped, Entered, Returning, Places
  <1>8. at' \notin Io \cup Kmain \cup EL0 /\ at' # "ret_regs"
    BY <1>2 DEF Io, Kmain, EL0
  <1>9. KTyped'
    BY <1>2, <1>4, <1>7 DEF KInv, KTyped, kernel, programs, history
  <1>10. IoProgress' /\ StackInUse'
    BY <1>2, <1>4, <1>8 DEF IoProgress, StackInUse
  <1>11. LockHolderUndisturbed'
    BY <1>2 DEF KInv, KTyped, LockHolderUndisturbed, kernel
  <1>12. \A t \in WaitingTasks' : t \in WaitingTasks
    BY <1>2 DEF WaitingTasks
  <1>13. FramesCounted'
    BY <1>2, <1>6, <1>8, <1>12
    DEF KInv, FramesCounted, StackGrowsOnlyByFaults, history
  <1>14. ProgramKept'
    <2>1. IntactFrame(frame[current][context[current].depth], current)
      BY <1>5 DEF KInv, WaitingContextsIntact
    <2>2. ReturnsTo(frame[current][context[current].depth], current)
      BY <1>6, <2>1 DEF IntactFrame, ReturnsTo
    <2>3. sp' - 1 = context[current].depth
      BY <1>2, <1>4
    <2>4. QED
      BY <1>2, <1>8, <2>2, <2>3 DEF ProgramKept, ReturnsTo, OwnRegisters, programs, history
  <1>15. ReturnKept'
    BY <1>2, <1>6, <1>8 DEF ReturnKept, history
  <1>16. WaitingContextsIntact'
    BY <1>2, <1>12
    DEF KInv, WaitingContextsIntact, IntactFrame, OwnRegisters, programs, history
  <1>17. QED
    BY <1>1, <1>9, <1>10, <1>11, <1>13, <1>14, <1>15, <1>16 DEF KInv

\* The waiting tasks notice nothing of what the current one does on its stack.
LEMMA WaitingUntouched ==
  ASSUME KInv, executing # NoContext, UNCHANGED vars,
         \A t \in Tasks \ {current} :
            /\ frame'[t] = frame[t] /\ user'[t] = user[t] /\ faults'[t] = faults[t]
            /\ t \in x0_lost => t \in x0_lost'
            /\ t \in elr_lost <=> t \in elr_lost'
  PROVE  /\ WaitingContextsIntact'
         /\ \A t \in WaitingTasks' : context'[t].depth = faults'[t]
  <1>1. inited = NTasks
    BY CurrentOnItsStack DEF KInv
  <1>2. \A t \in WaitingTasks' : t \in WaitingTasks /\ t \in Tasks \ {current}
    BY <1>1 DEF WaitingTasks, vars, Tasks
  <1>3. ASSUME NEW t \in WaitingTasks'
        PROVE  IntactFrame(frame[t][context[t].depth], t)'
    <2>1. /\ frame'[t] = frame[t] /\ user'[t] = user[t] /\ faults'[t] = faults[t]
          /\ t \in x0_lost => t \in x0_lost'
          /\ t \in elr_lost <=> t \in elr_lost'
      BY <1>2
    <2>2. frame'[t][context'[t].depth] = frame[t][context[t].depth]
      BY <2>1 DEF vars
    <2>3. IntactFrame(frame[t][context[t].depth], t)
      BY <1>2 DEF KInv, WaitingContextsIntact
    <2>4. QED
      BY <2>1, <2>2, <2>3 DEF IntactFrame, OwnRegisters
  <1>4. \A t \in WaitingTasks' : context'[t].depth = faults'[t]
    BY <1>2 DEF KInv, FramesCounted, StackGrowsOnlyByFaults, vars
  <1>5. QED
    BY <1>3, <1>4 DEF WaitingContextsIntact

\* A new value of the timer's condition.
LEMMA TimerFiresInvariant == KInv /\ TimerFires => KInv'
  <1> SUFFICES ASSUME KInv, TimerFires PROVE KInv'
    OBVIOUS
  <1> USE DEF KInv, TimerFires
  <1>1. IInv'
    BY SchedulerUntouched
  <1>2. KTyped'
    BY DEF KTyped, kernel, programs, history
  <1>3. WaitingTasks' = WaitingTasks /\ (FrameBelow' <=> FrameBelow)
    BY DEF WaitingTasks, FrameBelow, vars
  <1>4. FramesCounted' /\ IoProgress' /\ StackInUse' /\ LockHolderUndisturbed'
    BY <1>3 DEF FramesCounted, StackGrowsOnlyByFaults, IoProgress, StackInUse,
       LockHolderUndisturbed, vars, kernel, history
  <1>5. ProgramKept' /\ ReturnKept'
    BY <1>3 DEF ProgramKept, ReturnsTo, OwnRegisters, ReturnKept, vars, programs, history
  <1>6. WaitingContextsIntact'
    BY <1>3 DEF WaitingContextsIntact, IntactFrame, OwnRegisters, vars, programs, history
  <1>7. QED
    BY <1>1, <1>2, <1>4, <1>5, <1>6

-----------------------------------------------------------------------------
(* The program and its exceptions. *)

\* The situation between the first entry of a program and an eret that strays.
LEMMA EnteredSituation ==
  ASSUME KInv, executing # NoContext
  PROVE  /\ Stack = current /\ current \in Tasks /\ current \in Stacks /\ inited = NTasks
         /\ faults[current] \in 0 .. MaxDepth + 1
  BY CurrentOnItsStack DEF KInv, KTyped, Stack, Stacks

\* The situation at EL0.
LEMMA UserSituation ==
  ASSUME KInv, at \in EL0
  PROVE  /\ executing # NoContext /\ Stack = current
         /\ current \in Tasks /\ current \in Stacks /\ inited = NTasks
         /\ sp = faults[current] /\ sp \in 0 .. MaxDepth + 1
         /\ sys.ttbr0 = current /\ sys.sp_el0 = current
         /\ lock = 0
  <1>1. executing # NoContext
    BY DEF KInv, StackInUse, Entered
  <1>2. sp = faults[current] /\ sp \in 0 .. MaxDepth + 1
    BY DEF KInv, KTyped, FramesCounted, StackGrowsOnlyByFaults
  <1>3. sys.ttbr0 = current /\ sys.sp_el0 = current
    BY DEF KInv, ProgramKept
  <1>4. lock = 0
    BY DEF KInv, KTyped, LockHolderUndisturbed, EL0
  <1>5. QED
    BY <1>1, <1>2, <1>3, <1>4, EnteredSituation

\* A place of EL0 is not one of the others.
LEMMA AtEL0 ==
  ASSUME at' \in EL0
  PROVE  /\ at' \notin Kmain \cup Io \cup Returning \cup {"svc"}
         /\ ~FrameBelow' /\ at' \in Entered /\ at' \in Places
         /\ at' \notin {"kmain_start", "svc", "io_masked", "io_locked", "ret_regs"}
  BY PlacesApart DEF Kmain, Io, EL0, Returning, Unpopped, FrameBelow, Entered, Places

\* An instruction of a program changes that program's registers only.
LEMMA UserStepInvariant == KInv /\ UserStep => KInv'
  <1> SUFFICES ASSUME KInv, UserStep PROVE KInv'
    OBVIOUS
  <1> DEFINE s == [task |-> current, step |-> 1 - gpr.regs.step]
  <1>1. at = "user" /\ at \in EL0
    BY DEF UserStep, EL0
  <1>2. /\ executing # NoContext /\ Stack = current /\ current \in Tasks
        /\ sp = faults[current] /\ sys.ttbr0 = current /\ sys.sp_el0 = current
    BY <1>1, UserSituation
  <1>3. OwnRegisters(gpr, current) /\ user[current] \in UserStates
    BY <1>1, <1>2 DEF KInv, KTyped, ProgramKept
  <1>4. /\ gpr' = [gpr EXCEPT !.regs = s]
        /\ user' = [user EXCEPT ![current] = s]
        /\ UNCHANGED <<vars, at, masked, pending, sys, sp, frame, kernel, called, history>>
    BY <1>2 DEF UserStep
  <1>5. at' \in EL0 /\ at' = "user"
    BY <1>1, <1>4
  <1>6. s \in UserStates /\ s \in Registers
    BY <1>2, <1>3 DEF OwnRegisters, UserStates, Steps, Registers
  <1>7. IInv'
    BY <1>4, SchedulerUntouched DEF KInv
  <1>8. KTyped'
    <2>1. gpr' \in GprRange
      BY <1>4, <1>6 DEF KInv, KTyped, GprRange
    <2>2. user' \in [Tasks -> UserStates]
      BY <1>4, <1>6 DEF KInv, KTyped
    <2>3. QED
      BY <1>4, <2>1, <2>2 DEF KInv, KTyped, kernel, history
  <1>9. user'[current] = s /\ \A t \in Tasks \ {current} : user'[t] = user[t]
    BY <1>2, <1>4 DEF KInv, KTyped
  <1>10. WaitingContextsIntact' /\ \A t \in WaitingTasks' : context'[t].depth = faults'[t]
    BY <1>2, <1>4, <1>9, WaitingUntouched DEF history
  <1>11. FramesCounted'
    BY <1>2, <1>4, <1>5, <1>10, AtEL0
    DEF FramesCounted, StackGrowsOnlyByFaults, vars, history
  <1>12. IoProgress' /\ StackInUse' /\ LockHolderUndisturbed'
    BY <1>4 DEF KInv, IoProgress, StackInUse, LockHolderUndisturbed, kernel, vars, history
  <1>13. ProgramKept'
    <2>1. gpr'.regs = s /\ gpr'.x0 = gpr.x0 /\ gpr'.x10 = gpr.x10
      BY <1>4 DEF KInv, KTyped, GprRange
    <2>2. OwnRegisters(gpr, current)'
      BY <1>3, <1>4, <1>9, <2>1 DEF OwnRegisters, vars, history
    <2>3. QED
      BY <1>2, <1>4, <1>5, <2>2, AtEL0 DEF ProgramKept, vars
  <1>14. ReturnKept'
    BY <1>4 DEF KInv, ReturnKept, vars, history
  <1>15. QED
    BY <1>7, <1>8, <1>10, <1>11, <1>12, <1>13, <1>14 DEF KInv

\* The frame SAVE_CONTEXT writes is one, whatever interrupted.
LEMMA SavedFrameTyped ==
  ASSUME KTyped, NEW elr \in Places, NEW spsr \in {"EL0", "EL1"}
  PROVE  SaveContext(elr, spsr) \in Frames
  BY DEF KTyped, GprRange, SysRange, SaveContext, Frames

\* An svc: the frame it leaves is complete, and lies where the stack ended.
LEMMA SvcInvariant == KInv /\ Svc => KInv'
  <1> SUFFICES ASSUME KInv, Svc PROVE KInv'
    OBVIOUS
  <1> USE SchedulerAssumption
  <1> DEFINE f == [SaveContext("user", "EL0") EXCEPT !.x0 = "user"]
  <1>1. at = "user" /\ at \in EL0 /\ sp <= MaxDepth
    BY DEF Svc, EL0
  <1>2. /\ executing # NoContext /\ Stack = current /\ current \in Tasks /\ current \in Stacks
        /\ sp = faults[current] /\ sp \in 0..MaxDepth
        /\ sys.ttbr0 = current /\ sys.sp_el0 = current /\ lock = 0
    BY <1>1, UserSituation
  <1>3. OwnRegisters(gpr, current) /\ current \notin elr_lost
    BY <1>1 DEF KInv, ProgramKept, ReturnKept
  <1>4. /\ at' = "svc" /\ masked' = TRUE /\ sp' = sp + 1
        /\ called' = called \cup {current}
        /\ frame' = [frame EXCEPT ![current][sp] = f]
        /\ sys' = [sys EXCEPT !.elr = "user", !.spsr = "EL0"]
        /\ gpr' = [x0 |-> "ttbr0", x10 |-> "esr", regs |-> KernelRegs]
        /\ sysno' \in Syscalls /\ io' = 0
        /\ UNCHANGED <<vars, pending, lock, user, history>>
    BY <1>2 DEF Svc
  <1>5. f \in Frames /\ f.x0 = "user"
    <2>1. SaveContext("user", "EL0") \in Frames
      BY SavedFrameTyped DEF KInv, Places, EL0
    <2>2. QED
      BY <2>1 DEF Frames, X0
  <1>6. ReturnsTo(f, current)
    BY <1>2, <1>3 DEF SaveContext, ReturnsTo, OwnRegisters
  <1>7. IInv'
    BY <1>4, SchedulerUntouched DEF KInv
  <1>8. /\ frame' \in [Stacks -> [0..MaxDepth -> Frames]] /\ frame'[current][sp] = f
        /\ \A t \in Tasks \ {current} : frame'[t] = frame[t]
    BY <1>2, <1>4, <1>5 DEF KInv, KTyped, Stacks
  <1>9. KTyped'
    <2>1. sys' \in SysRange
      BY <1>4 DEF KInv, KTyped, SysRange, Places, EL0
    <2>2. gpr' \in GprRange
      BY <1>4 DEF GprRange, X0, X10, Registers
    <2>3. at' \in Places /\ sp' \in 0 .. MaxDepth + 1 /\ called' \subseteq Tasks
      BY <1>2, <1>4 DEF KInv, KTyped, Places
    <2>4. sysno' \in Syscalls \cup {NoSyscall} /\ io' \in 0..2 /\ lock' \in {0, 1}
      BY <1>2, <1>4
    <2>5. masked' \in BOOLEAN /\ pending' \in BOOLEAN
      BY <1>4 DEF KInv, KTyped
    <2>6. QED
      BY <1>4, <1>8, <2>1, <2>2, <2>3, <2>4, <2>5 DEF KInv, KTyped, history
  <1>10. /\ at' \in Entered /\ FrameBelow'
         /\ at' \notin Kmain \cup Io \cup EL0 \cup Returning
         /\ at' \notin {"kmain_start", "io_masked", "io_locked", "ret_regs"}
    BY <1>4, PlacesApart DEF Entered, FrameBelow, Kmain, Io, EL0, Returning, Unpopped
  <1>11. IoProgress' /\ StackInUse' /\ LockHolderUndisturbed'
    BY <1>2, <1>4, <1>10 DEF IoProgress, StackInUse, LockHolderUndisturbed, vars
  <1>12. WaitingContextsIntact' /\ \A t \in WaitingTasks' : context'[t].depth = faults'[t]
    BY <1>2, <1>4, <1>8, WaitingUntouched DEF history
  <1>13. FramesCounted'
    BY <1>2, <1>4, <1>10, <1>12 DEF FramesCounted, StackGrowsOnlyByFaults, vars, history
  <1>14. ProgramKept'
    <2>1. sp' - 1 = sp /\ current' = current
      BY <1>2, <1>4 DEF vars
    <2>2. ReturnsTo(frame[current][sp - 1], current)'
      BY <1>4, <1>6, <1>8, <2>1 DEF ReturnsTo, OwnRegisters, history
    <2>3. QED
      BY <1>4, <1>10, <2>2 DEF ProgramKept, Returning, Unpopped
  <1>15. ReturnKept'
    BY <1>3, <1>4 DEF ReturnKept, vars, history
  <1>16. QED
    BY <1>7, <1>9, <1>11, <1>12, <1>13, <1>14, <1>15 DEF KInv

\* A fault leaves a frame behind and returns to the program at once.
LEMMA UserFaultInvariant == KInv /\ UserFault => KInv'
  <1> SUFFICES ASSUME KInv, UserFault PROVE KInv'
    OBVIOUS
  <1> USE SchedulerAssumption
  <1>1. at \in EL0 /\ sp <= MaxDepth
    BY DEF UserFault
  <1>2. /\ executing # NoContext /\ Stack = current /\ current \in Tasks /\ current \in Stacks
        /\ sp = faults[current] /\ sp \in 0..MaxDepth
        /\ sys.ttbr0 = current /\ sys.sp_el0 = current /\ lock = 0
    BY <1>1, UserSituation
  <1>3. PICK regs \in {gpr.regs} \cup (IF at = "lost" THEN {KernelRegs} ELSE {}) :
           gpr' = [x0 |-> "ttbr0", x10 |-> "esr", regs |-> regs]
    BY <1>2 DEF UserFault
  <1>4. /\ sp' = sp + 1
        /\ frame' = [frame EXCEPT ![current][sp] = SaveContext(at, "EL0")]
        /\ sys' = [sys EXCEPT !.elr = at, !.spsr = "EL0"]
        /\ faults' = [faults EXCEPT ![current] = @ + 1]
        /\ UNCHANGED <<vars, at, masked, pending, kernel, programs, x0_lost, elr_lost>>
    BY <1>2 DEF UserFault
  <1>5. at' \in EL0 /\ at \in Places
    BY <1>1, <1>4 DEF Places
  <1>6. SaveContext(at, "EL0") \in Frames
    BY <1>5, SavedFrameTyped DEF KInv
  <1>7. IInv'
    BY <1>4, SchedulerUntouched DEF KInv
  <1>8. /\ frame' \in [Stacks -> [0..MaxDepth -> Frames]]
        /\ \A t \in Tasks \ {current} : frame'[t] = frame[t]
    BY <1>2, <1>4, <1>6 DEF KInv, KTyped, Stacks
  <1>9. /\ faults' \in [Tasks -> 0 .. MaxDepth + 1] /\ faults'[current] = sp + 1
        /\ \A t \in Tasks \ {current} : faults'[t] = faults[t]
    BY <1>2, <1>4 DEF KInv, KTyped
  <1>10. KTyped'
    <2>1. sys' \in SysRange
      BY <1>4, <1>5 DEF KInv, KTyped, SysRange
    <2>2. gpr' \in GprRange
      BY <1>3 DEF KInv, KTyped, GprRange, X0, X10, Registers
    <2>3. sp' \in 0 .. MaxDepth + 1
      BY <1>2, <1>4
    <2>4. QED
      BY <1>4, <1>8, <1>9, <2>1, <2>2, <2>3 DEF KInv, KTyped, kernel, programs
  <1>11. IoProgress' /\ StackInUse' /\ LockHolderUndisturbed'
    BY <1>2, <1>4, <1>5, AtEL0
    DEF KInv, IoProgress, StackInUse, LockHolderUndisturbed, vars, kernel
  <1>12. WaitingContextsIntact' /\ \A t \in WaitingTasks' : context'[t].depth = faults'[t]
    BY <1>2, <1>4, <1>8, <1>9, WaitingUntouched DEF programs
  <1>13. FramesCounted'
    BY <1>4, <1>5, <1>9, <1>12, AtEL0 DEF FramesCounted, StackGrowsOnlyByFaults, vars
  <1>14. ProgramKept'
    <2>1. sys'.ttbr0 = current /\ sys'.sp_el0 = current
      BY <1>2, <1>4 DEF KInv, KTyped, SysRange
    <2>2. ASSUME at' = "user" PROVE OwnRegisters(gpr, current)'
      <3>1. at = "user" /\ regs = gpr.regs
        BY <1>3, <1>4, <2>2
      <3>2. gpr.regs = user[current]
        BY <3>1 DEF KInv, ProgramKept, OwnRegisters
      <3>3. faults'[current] > 0
        BY <1>2, <1>9
      <3>4. QED
        BY <1>3, <1>4, <3>1, <3>2, <3>3 DEF OwnRegisters, vars, programs
    <2>3. QED
      BY <1>4, <1>5, <2>1, <2>2, AtEL0 DEF ProgramKept, vars
  <1>15. ReturnKept'
    BY <1>4, <1>5, AtEL0 DEF KInv, ReturnKept, vars, Returning, Unpopped
  <1>16. QED
    BY <1>7, <1>10, <1>11, <1>12, <1>13, <1>14, <1>15 DEF KInv

-----------------------------------------------------------------------------
(* Block operations, the syscall and the way back. *)

\* Steps that move the CPU and change none of what a frame is restored from.
LEMMA PlaceInvariant ==
  ASSUME KInv, at' \in Io \cup Returning, KTyped', IoProgress', LockHolderUndisturbed',
         executing = NoContext => at' \in Io,
         executing = NoContext => sp' = 0,
         executing # NoContext =>
            sp' = IF at' = "ret_regs" THEN faults[current] ELSE faults[current] + 1,
         ProgramKept', ReturnKept',
         UNCHANGED <<vars, frame, programs, history>>
  PROVE  KInv'
  <1>1. IInv'
    BY SchedulerUntouched DEF KInv
  <1>2. at' \notin Kmain \cup EL0 \cup {"svc"}
    BY PlacesApart DEF Entered
  <1>3. StackInUse'
    BY <1>2, PlacesApart DEF KInv, StackInUse, Entered, vars, history
  <1>4. WaitingTasks' = WaitingTasks
    BY DEF WaitingTasks, vars
  <1>5. FramesCounted'
    <2>1. ASSUME FrameBelow' PROVE sp' = faults'[current'] + 1
      <3>1. executing # NoContext
        BY <1>2, <2>1, PlacesApart DEF FrameBelow, vars, Entered, Returning
      <3>2. at' # "ret_regs"
        BY <2>1, PlacesApart DEF FrameBelow, Io
      <3>3. QED
        BY <3>1, <3>2 DEF vars, history
    <2>2. ASSUME at' = "ret_regs" PROVE sp' = faults'[current']
      BY <2>2 DEF vars, history, Io
    <2>3. StackGrowsOnlyByFaults'
      BY <1>2, <1>4 DEF KInv, FramesCounted, StackGrowsOnlyByFaults, vars, history
    <2>4. QED
      BY <2>1, <2>2, <2>3 DEF FramesCounted
  <1>6. WaitingContextsIntact'
    BY <1>4 DEF KInv, WaitingContextsIntact, IntactFrame, OwnRegisters, vars, programs, history
  <1>7. QED
    BY <1>1, <1>3, <1>5, <1>6 DEF KInv

\* Block operations change the lock, the mask and the counters, and neither stack
\* nor system registers; the end of a syscall changes x0 as well.
LEMMA BlockInvariant ==
  ASSUME KInv, at \in {"kmain_start", "svc"} \cup Io,
         at' \in Io \/ (at' = "ret0" /\ executing # NoContext),
         KTyped', IoProgress', LockHolderUndisturbed',
         UNCHANGED <<vars, sys, sp, frame, programs, history>>
  PROVE  KInv'
  <1>1. executing # NoContext => FrameBelow
    BY DEF KInv, StackInUse, FrameBelow, Kmain
  <1>2. executing # NoContext => sp = faults[current] + 1 /\ sp # faults[current]
    BY <1>1, EnteredSituation DEF KInv, FramesCounted
  <1>3. /\ at' \in Io \cup Returning
        /\ at' \notin {"ret_sp_el0", "ret_elr", "ret_spsr", "ret_regs"} \cup EL0
    BY DEF Io, Returning, Unpopped, EL0
  <1>4. FrameBelow' => FrameBelow
    BY <1>1, <1>3, PlacesApart DEF FrameBelow, vars, Io, Unpopped
  <1>5. ProgramKept'
    <2>1. FrameBelow' => ReturnsTo(frame[current][sp - 1], current)'
      BY <1>4 DEF KInv, ProgramKept, ReturnsTo, OwnRegisters, vars, programs, history
    <2>2. QED
      BY <1>3, <2>1 DEF ProgramKept, EL0
  <1>6. ReturnKept'
    <2>1. current \notin elr_lost
      BY DEF KInv, ReturnKept, StackInUse, Kmain
    <2>2. QED
      BY <1>3, <2>1 DEF ReturnKept, EL0, vars, history
  <1>7. executing = NoContext => sp = 0
    BY DEF KInv, StackInUse
  <1>8. QED
    BY <1>2, <1>3, <1>5, <1>6, <1>7, PlaceInvariant, PlacesApart

\* spin_lock_with_mask, its first half: from here no interrupt is taken.
LEMMA IoMaskInvariant == KInv /\ IoMask => KInv'
  <1> SUFFICES ASSUME KInv, IoMask PROVE KInv'
    OBVIOUS
  <1>1. /\ at \in {"kmain_start", "svc"} \cup Io /\ at' \in Io
        /\ at \notin {"io_masked", "io_locked"} /\ io < 2
    BY DEF KInv, IoProgress, IoMask, CallsBlock, Io
  <1>2. /\ at' = "io_masked" /\ masked' = TRUE
        /\ UNCHANGED <<vars, pending, gpr, sys, sp, frame, kernel, programs, history>>
    BY DEF IoMask
  <1>3. at' \in Places
    BY <1>1 DEF Places
  <1>4. KTyped'
    BY <1>2, <1>3 DEF KInv, KTyped, kernel, programs, history
  <1>5. lock = 0
    BY <1>1 DEF KInv, KTyped, LockHolderUndisturbed
  <1>6. IoProgress' /\ LockHolderUndisturbed'
    BY <1>1, <1>2, <1>5 DEF IoProgress, LockHolderUndisturbed, kernel
  <1>7. QED
    BY <1>1, <1>2, <1>4, <1>6, BlockInvariant

\* Its second half.
LEMMA IoLockInvariant == KInv /\ IoLock => KInv'
  <1> SUFFICES ASSUME KInv, IoLock PROVE KInv'
    OBVIOUS
  <1>1. at \in Io /\ at' \in Io /\ at' \in Places
    BY DEF IoLock, Io, Places
  <1>2. /\ at = "io_masked" /\ at' = "io_locked" /\ lock' = 1
        /\ UNCHANGED <<vars, masked, pending, gpr, sys, sp, frame, sysno, io, programs, history>>
    BY DEF IoLock
  <1>3. KTyped'
    BY <1>1, <1>2 DEF KInv, KTyped, programs, history
  <1>4. IoProgress' /\ LockHolderUndisturbed'
    BY <1>2 DEF KInv, IoProgress, LockHolderUndisturbed
  <1>5. QED
    BY <1>1, <1>2, <1>3, <1>4, BlockInvariant

\* spin_unlock_with_mask, its first half.
LEMMA IoUnlockInvariant == KInv /\ IoUnlock => KInv'
  <1> SUFFICES ASSUME KInv, IoUnlock PROVE KInv'
    OBVIOUS
  <1>1. at \in Io /\ at' \in Io /\ at' \in Places
    BY DEF IoUnlock, Io, Places
  <1>2. /\ at = "io_locked" /\ at' = "io_unlocked" /\ lock' = 0 /\ io' = io + 1
        /\ UNCHANGED <<vars, masked, pending, gpr, sys, sp, frame, sysno, programs, history>>
    BY DEF IoUnlock
  <1>3. io' \in 0..2
    BY <1>2 DEF KInv, KTyped, IoProgress
  <1>4. KTyped'
    BY <1>1, <1>2, <1>3 DEF KInv, KTyped, programs, history
  <1>5. IoProgress' /\ LockHolderUndisturbed'
    BY <1>2 DEF IoProgress, LockHolderUndisturbed
  <1>6. QED
    BY <1>1, <1>2, <1>4, <1>5, BlockInvariant

\* Its second half.
LEMMA IoUnmaskInvariant == KInv /\ IoUnmask => KInv'
  <1> SUFFICES ASSUME KInv, IoUnmask PROVE KInv'
    OBVIOUS
  <1>1. at \in Io /\ at' \in Io /\ at' \in Places
    BY DEF IoUnmask, Io, Places
  <1>2. /\ at = "io_unlocked" /\ at' = "io_wait" /\ masked' = FALSE
        /\ UNCHANGED <<vars, pending, gpr, sys, sp, frame, kernel, programs, history>>
    BY DEF IoUnmask
  <1>3. KTyped'
    BY <1>1, <1>2 DEF KInv, KTyped, kernel, programs, history
  <1>4. IoProgress' /\ LockHolderUndisturbed'
    BY <1>2 DEF KInv, KTyped, IoProgress, LockHolderUndisturbed, kernel
  <1>5. QED
    BY <1>1, <1>2, <1>3, <1>4, BlockInvariant

\* The dispatcher returns; the result is in x0 and nowhere else.
LEMMA SyscallDoneInvariant == KInv /\ SyscallDone => KInv'
  <1> SUFFICES ASSUME KInv, SyscallDone PROVE KInv'
    OBVIOUS
  <1>1. at \in {"svc", "io_wait"} /\ executing # NoContext
    BY DEF KInv, StackInUse, SyscallDone, Entered
  <1>2. at \in {"kmain_start", "svc"} \cup Io /\ at' \in Places
    BY <1>1 DEF SyscallDone, Io, Places, Returning, Unpopped
  <1>3. /\ at' = "ret0" /\ gpr' = [gpr EXCEPT !.x0 = "result"]
        /\ UNCHANGED <<vars, masked, pending, sys, sp, frame, kernel, programs, history>>
    BY DEF SyscallDone
  <1>4. gpr' \in GprRange
    BY <1>3 DEF KInv, KTyped, GprRange, X0
  <1>5. KTyped'
    BY <1>2, <1>3, <1>4 DEF KInv, KTyped, kernel, programs, history
  <1>6. IoProgress' /\ LockHolderUndisturbed'
    BY <1>1, <1>3 DEF KInv, KTyped, IoProgress, LockHolderUndisturbed, kernel
  <1>7. QED
    BY <1>1, <1>2, <1>3, <1>5, <1>6, BlockInvariant

\* The situation while a frame is restored.
LEMMA RestoreSituation ==
  ASSUME KInv, at \in Unpopped
  PROVE  /\ executing # NoContext /\ Stack = current /\ current \in Tasks
         /\ sp = faults[current] + 1 /\ sp - 1 \in 0..MaxDepth
         /\ Saved \in Frames /\ ReturnsTo(Saved, current)
         /\ Saved = frame[current][sp - 1] /\ lock = 0
  <1> USE SchedulerAssumption
  <1>1. executing # NoContext /\ FrameBelow
    BY DEF KInv, StackInUse, Entered, Returning, FrameBelow
  <1>2. Stack = current /\ current \in Tasks /\ current \in Stacks
        /\ faults[current] \in 0 .. MaxDepth + 1
    BY <1>1, EnteredSituation
  <1>3. sp = faults[current] + 1 /\ sp - 1 \in 0..MaxDepth
    BY <1>1, <1>2 DEF KInv, KTyped, FramesCounted
  <1>4. frame[current][sp - 1] \in Frames
    BY <1>2, <1>3 DEF KInv, KTyped
  <1>5. ReturnsTo(frame[current][sp - 1], current)
    BY <1>1 DEF KInv, ProgramKept
  <1>6. lock = 0
    BY DEF KInv, KTyped, LockHolderUndisturbed, Unpopped
  <1>7. QED
    BY <1>1, <1>2, <1>3, <1>4, <1>5, <1>6 DEF Saved

\* A load of system registers changes the system registers and the place.
LEMMA LoadInvariant ==
  ASSUME KInv, at \in Unpopped, at' \in Unpopped, sys' \in SysRange,
         at' # "ret0" => sys'.ttbr0 = current /\ sys'.sp_el0 = current, ReturnKept',
         UNCHANGED <<vars, masked, pending, gpr, sp, frame, kernel, programs, history>>
  PROVE  KInv'
  <1>1. /\ executing # NoContext /\ sp = faults[current] + 1 /\ lock = 0
        /\ ReturnsTo(frame[current][sp - 1], current)
    BY RestoreSituation
  <1>2. at' \in Returning /\ at' \in Places
    BY DEF Returning, Places
  <1>3. at' \notin EL0 \cup Kmain \cup Io \cup {"svc", "ret_regs"}
    BY <1>2, PlacesApart DEF Entered
  <1>4. KTyped'
    BY <1>2 DEF KInv, KTyped, kernel, programs, history
  <1>5. IoProgress' /\ LockHolderUndisturbed'
    BY <1>1, <1>3 DEF IoProgress, LockHolderUndisturbed, kernel, Kmain, Io
  <1>6. ReturnsTo(frame[current][sp - 1], current)'
    BY <1>1 DEF ReturnsTo, OwnRegisters, vars, programs, history
  <1>7. ProgramKept'
    BY <1>3, <1>6 DEF ProgramKept, vars, Unpopped, EL0
  <1>8. QED
    BY <1>1, <1>2, <1>3, <1>4, <1>5, <1>7, PlaceInvariant

\* RESTORE_AND_ERET, register by register.
LEMMA LoadTtbr0AndSpEl0Invariant == KInv /\ LoadTtbr0AndSpEl0 => KInv'
  <1> SUFFICES ASSUME KInv, LoadTtbr0AndSpEl0 PROVE KInv'
    OBVIOUS
  <1>1. at = "ret0" /\ at' = "ret_sp_el0" /\ at \in Unpopped /\ at' \in Unpopped
    BY DEF LoadTtbr0AndSpEl0, Unpopped
  <1>2. /\ sys' = [sys EXCEPT !.ttbr0 = Saved.ttbr0, !.sp_el0 = Saved.sp_el0]
        /\ UNCHANGED <<vars, masked, pending, gpr, sp, frame, kernel, programs, history>>
    BY DEF LoadTtbr0AndSpEl0
  <1>3. Saved.ttbr0 = current /\ Saved.sp_el0 = current /\ current \in Stacks
    BY <1>1, RestoreSituation DEF ReturnsTo, Stacks
  <1>4. sys' \in SysRange /\ sys'.ttbr0 = current /\ sys'.sp_el0 = current
    BY <1>2, <1>3 DEF KInv, KTyped, SysRange
  <1>5. ReturnKept'
    BY <1>1, <1>2 DEF KInv, ReturnKept, vars, history, Io
  <1>6. QED
    BY <1>1, <1>2, <1>4, <1>5, LoadInvariant

LEMMA LoadElrInvariant == KInv /\ LoadElr => KInv'
  <1> SUFFICES ASSUME KInv, LoadElr PROVE KInv'
    OBVIOUS
  <1>1. at = "ret_sp_el0" /\ at' = "ret_elr" /\ at \in Unpopped /\ at' \in Unpopped
    BY DEF LoadElr, Unpopped
  <1>2. /\ sys' = [sys EXCEPT !.elr = Saved.elr]
        /\ UNCHANGED <<vars, masked, pending, gpr, sp, frame, kernel, programs, history>>
    BY DEF LoadElr
  <1>3. Saved.elr = "user" /\ "user" \in Places
    BY <1>1, RestoreSituation DEF ReturnsTo, Places, EL0
  <1>4. sys.ttbr0 = current /\ sys.sp_el0 = current /\ sys \in SysRange
    BY <1>1 DEF KInv, ProgramKept, KTyped
  <1>5. sys' \in SysRange /\ sys'.ttbr0 = current /\ sys'.sp_el0 = current /\ sys'.elr = "user"
    BY <1>2, <1>3, <1>4 DEF SysRange
  <1>6. ReturnKept'
    BY <1>1, <1>2, <1>5 DEF KInv, ReturnKept, vars, history, Io
  <1>7. QED
    BY <1>1, <1>2, <1>5, <1>6, LoadInvariant

LEMMA LoadSpsrInvariant == KInv /\ LoadSpsr => KInv'
  <1> SUFFICES ASSUME KInv, LoadSpsr PROVE KInv'
    OBVIOUS
  <1>1. at = "ret_elr" /\ at' = "ret_spsr" /\ at \in Unpopped /\ at' \in Unpopped
    BY DEF LoadSpsr, Unpopped
  <1>2. /\ sys' = [sys EXCEPT !.spsr = Saved.spsr]
        /\ UNCHANGED <<vars, masked, pending, gpr, sp, frame, kernel, programs, history>>
    BY DEF LoadSpsr
  <1>3. Saved.spsr = "EL0"
    BY <1>1, RestoreSituation DEF ReturnsTo
  <1>4. sys.ttbr0 = current /\ sys.sp_el0 = current /\ sys \in SysRange
    BY <1>1 DEF KInv, ProgramKept, KTyped
  <1>5. sys' \in SysRange /\ sys'.ttbr0 = current /\ sys'.sp_el0 = current /\ sys'.elr = sys.elr
    BY <1>2, <1>3, <1>4 DEF SysRange
  <1>6. ReturnKept'
    BY <1>1, <1>2, <1>5 DEF KInv, ReturnKept, vars, history, Io
  <1>7. QED
    BY <1>1, <1>2, <1>5, <1>6, LoadInvariant

\* The general registers come from the frame, and the frame is popped.
LEMMA LoadGeneralRegistersInvariant == KInv /\ LoadGeneralRegisters => KInv'
  <1> SUFFICES ASSUME KInv, LoadGeneralRegisters PROVE KInv'
    OBVIOUS
  <1>1. at = "ret_spsr" /\ at' = "ret_regs" /\ at \in Unpopped
    BY DEF LoadGeneralRegisters, Unpopped
  <1>2. /\ gpr' = [x0 |-> Saved.x0, x10 |-> Saved.x10, regs |-> Saved.regs]
        /\ sp' = sp - 1
        /\ UNCHANGED <<vars, masked, pending, sys, frame, kernel, programs, history>>
    BY DEF LoadGeneralRegisters
  <1>3. /\ executing # NoContext /\ current \in Tasks
        /\ sp = faults[current] + 1 /\ sp - 1 \in 0..MaxDepth /\ lock = 0
        /\ Saved \in Frames /\ ReturnsTo(Saved, current)
    BY <1>1, RestoreSituation
  <1>4. faults[current] \in Nat /\ sp' = faults[current]
    BY <1>2, <1>3 DEF KInv, KTyped
  <1>5. at' \in Returning /\ at' \in Places /\ at' \notin Kmain \cup Io \cup EL0 \cup Unpopped
    BY <1>1 DEF Returning, Places, Kmain, Io, EL0, Unpopped
  <1>6. gpr' \in GprRange
    BY <1>2, <1>3 DEF Frames, GprRange
  <1>7. KTyped'
    <2>1. sp' \in 0 .. MaxDepth + 1
      BY <1>2, <1>3, SchedulerAssumption
    <2>2. QED
      BY <1>2, <1>5, <1>6, <2>1 DEF KInv, KTyped, kernel, programs, history
  <1>8. IoProgress' /\ LockHolderUndisturbed'
    BY <1>1, <1>2, <1>3 DEF IoProgress, LockHolderUndisturbed, kernel
  <1>9. ~FrameBelow'
    BY <1>1, <1>5 DEF FrameBelow
  <1>10. OwnRegisters(gpr, current)'
    BY <1>2, <1>3 DEF ReturnsTo, OwnRegisters, vars, programs, history
  <1>11. sys'.ttbr0 = current' /\ sys'.sp_el0 = current'
    BY <1>1, <1>2 DEF KInv, ProgramKept, vars
  <1>12. ProgramKept'
    BY <1>9, <1>10, <1>11 DEF ProgramKept
  <1>13. ReturnKept'
    BY <1>1, <1>2 DEF KInv, ReturnKept, vars, history, Io
  <1>14. QED
    BY <1>1, <1>2, <1>3, <1>4, <1>5, <1>7, <1>8, <1>12, <1>13, PlaceInvariant

\* The eret reaches the program with its registers, or goes astray.
LEMMA EretInvariant == KInv /\ Eret => KInv'
  <1> SUFFICES ASSUME KInv, Eret PROVE KInv'
    OBVIOUS
  <1>1. at = "ret_regs"
    BY DEF Eret
  <1>2. /\ at' = EretTarget /\ masked' = FALSE /\ sysno' = NoSyscall
        /\ UNCHANGED <<vars, pending, gpr, sys, sp, frame, lock, io, programs, history>>
    BY DEF Eret
  <1>3. /\ executing # NoContext /\ lock = 0 /\ sp = faults[current]
        /\ OwnRegisters(gpr, current) /\ sys.ttbr0 = current /\ sys.sp_el0 = current
    BY <1>1
    DEF KInv, KTyped, StackInUse, Entered, Returning, LockHolderUndisturbed, FramesCounted,
       ProgramKept
  <1>4. /\ at' \in EL0 \cup {"strayed"} /\ at' \in Places
        /\ at' = "user" => current \notin elr_lost
        /\ at' = "lost" => current \in elr_lost
    <2>1. CASE sys.spsr = "EL1"
      <3>1. at' = "strayed"
        BY <1>2, <2>1 DEF EretTarget
      <3>2. QED
        BY <3>1 DEF Places, Stuck
    <2>2. CASE sys.spsr = "EL0"
      <3>1. sys.elr = "user" <=> current \notin elr_lost
        BY <1>1, <2>2 DEF KInv, ReturnKept
      <3>2. at' = IF sys.elr = "user" THEN "user" ELSE "lost"
        BY <1>2, <2>2 DEF EretTarget
      <3>3. QED
        BY <3>1, <3>2 DEF EL0, Places
    <2>3. QED
      BY <2>1, <2>2 DEF KInv, KTyped, SysRange
  <1>5. at' \notin Kmain \cup Io \cup Returning \cup {"svc"} /\ ~FrameBelow'
    BY <1>4 DEF Kmain, Io, Returning, Unpopped, EL0, FrameBelow
  <1>6. IInv'
    BY <1>2, SchedulerUntouched DEF KInv
  <1>7. KTyped'
    <2>1. masked' \in BOOLEAN
      BY <1>2
    <2>2. QED
      BY <1>2, <1>4, <2>1 DEF KInv, KTyped, programs, history
  <1>8. IoProgress' /\ LockHolderUndisturbed'
    BY <1>2, <1>3, <1>5 DEF IoProgress, LockHolderUndisturbed, Kmain, Io
  <1>9. StackInUse'
    BY <1>2, <1>3, <1>5 DEF StackInUse, vars
  <1>10. WaitingContextsIntact' /\ \A t \in WaitingTasks' : context'[t].depth = faults'[t]
    BY <1>2, <1>3, WaitingUntouched DEF programs, history
  <1>11. FramesCounted'
    BY <1>2, <1>3, <1>5, <1>10
    DEF FramesCounted, StackGrowsOnlyByFaults, Returning, vars, history
  <1>12. ProgramKept'
    BY <1>2, <1>3, <1>5 DEF ProgramKept, OwnRegisters, vars, programs, history
  <1>13. ReturnKept'
    BY <1>2, <1>4, <1>5 DEF ReturnKept, Returning, Unpopped, vars, history
  <1>14. QED
    BY <1>6, <1>7, <1>8, <1>9, <1>10, <1>11, <1>12, <1>13 DEF KInv

-----------------------------------------------------------------------------
(* The timer interrupt. *)

\* The frame is saved at the end of the stack; below, at most a saved x0 is lost.
LEMMA FrameSaved ==
  ASSUME KInv, Stack \in Stacks, sp <= MaxDepth, NEW new \in Frames
  PROVE  LET f == [Overwritten(frame) EXCEPT ![Stack][sp] = new]
         IN  /\ f \in [Stacks -> [0..MaxDepth -> Frames]]
             /\ f[Stack][sp] = new
             /\ \A s \in Stacks \ {Stack} : f[s] = frame[s]
             /\ \A d \in 0..MaxDepth \ {sp} :
                   \/ f[Stack][d] = frame[Stack][d]
                   \/ at \in Unpopped /\ f[Stack][d] = [frame[Stack][d] EXCEPT !.x0 = "ttbr0"]
  <1> DEFINE o == Overwritten(frame)
             f == [o EXCEPT ![Stack][sp] = new]
  <1>1. sp \in 0..MaxDepth /\ frame \in [Stacks -> [0..MaxDepth -> Frames]]
    BY SchedulerAssumption DEF KInv, KTyped
  <1>2. /\ o \in [Stacks -> [0..MaxDepth -> Frames]]
        /\ \A s \in Stacks \ {Stack} : o[s] = frame[s]
        /\ \A d \in 0..MaxDepth :
              \/ o[Stack][d] = frame[Stack][d]
              \/ at \in Unpopped /\ o[Stack][d] = [frame[Stack][d] EXCEPT !.x0 = "ttbr0"]
    <2>1. CASE at \in Unpopped
      <3>1. sp - 1 \in 0..MaxDepth
        BY <2>1, RestoreSituation
      <3> DEFINE x == [frame[Stack][sp - 1] EXCEPT !.x0 = "ttbr0"]
      <3>2. x \in Frames
        <4>1. frame[Stack][sp - 1] \in Frames /\ "ttbr0" \in X0
          BY <1>1, <3>1 DEF X0
        <4>2. QED
          BY <4>1 DEF Frames
      <3>3. o = [frame EXCEPT ![Stack][sp - 1].x0 = "ttbr0"]
        BY <2>1 DEF Overwritten
      <3>4. o = [frame EXCEPT ![Stack] = [frame[Stack] EXCEPT ![sp - 1] = x]]
        BY <3>3
      <3>5. QED
        BY <1>1, <2>1, <3>1, <3>2, <3>4
    <2>2. CASE at \notin Unpopped
      BY <1>1, <2>2 DEF Overwritten
    <2>3. QED
      BY <2>1, <2>2
  <1> HIDE DEF o
  <1>3. /\ f \in [Stacks -> [0..MaxDepth -> Frames]]
        /\ f[Stack][sp] = new
        /\ \A s \in Stacks \ {Stack} : f[s] = o[s]
        /\ \A d \in 0..MaxDepth \ {sp} : f[Stack][d] = o[Stack][d]
    BY <1>1, <1>2
  <1>4. QED
    BY <1>2, <1>3 DEF o

\* Interrupted kernel code goes on where it was, its registers intact, except
\* ELR_EL1 and SPSR_EL1, and except if it needed the word that was overwritten.
LEMMA IrqFromKernelEffect ==
  ASSUME KInv, IrqTaken, ~masked, at \notin EL0 \cup Stuck
  PROVE  /\ UNCHANGED <<vars, kernel, programs, faults>> /\ pending' = FALSE
         /\ gpr' = gpr /\ sp' = sp /\ masked' = FALSE
         /\ sys' = [ttbr0 |-> sys.ttbr0, sp_el0 |-> sys.sp_el0, elr |-> at, spsr |-> "EL1"]
         /\ at' = at \/ (at \in Kmain \cup {"svc"} \cup Io /\ at' = "crashed")
         /\ x0_lost' = IF at \in Unpopped THEN x0_lost \cup {current} ELSE x0_lost
         /\ elr_lost' = IF at = "ret_elr" THEN elr_lost \cup {current} ELSE elr_lost
         /\ frame' \in [Stacks -> [0..MaxDepth -> Frames]]
         /\ \A s \in Stacks \ {Stack} : frame'[s] = frame[s]
         /\ \A d \in 0..MaxDepth \ {sp} :
               \/ frame'[Stack][d] = frame[Stack][d]
               \/ at \in Unpopped /\ frame'[Stack][d] = [frame[Stack][d] EXCEPT !.x0 = "ttbr0"]
  <1> DEFINE new == SaveContext(at, "EL1")
             f == [Overwritten(frame) EXCEPT ![Stack][sp] = new]
             saved == [task |-> Stack, depth |-> sp]
  <1>1. CheckCurrentEl /\ at \in Places /\ gpr \in GprRange /\ sys \in SysRange
    BY DEF KInv, KTyped, CheckCurrentEl
  <1>2. /\ UNCHANGED vars /\ pending' = FALSE /\ sp <= MaxDepth
        /\ frame' = f
        /\ RestoreContext(saved, f)
        /\ at' = f[Stack][sp].elr \/ (at \in Kmain \cup {"svc"} \cup Io /\ at' = "crashed")
        /\ UNCHANGED <<kernel, programs, faults>>
        /\ x0_lost' = IF at \in Unpopped THEN x0_lost \cup {current} ELSE x0_lost
        /\ elr_lost' = IF at = "ret_elr" THEN elr_lost \cup {current} ELSE elr_lost
    BY <1>1 DEF IrqTaken, IrqDispatcher
  <1>3. Stack \in Stacks
    BY DEF KInv, IInv, TypeOK, Stack, Stacks, Contexts, NoContext, BootStack
  <1>4. new \in Frames
    BY <1>1, SavedFrameTyped DEF KInv
  <1>5. /\ f \in [Stacks -> [0..MaxDepth -> Frames]]
        /\ f[Stack][sp] = new
        /\ \A s \in Stacks \ {Stack} : f[s] = frame[s]
        /\ \A d \in 0..MaxDepth \ {sp} :
              \/ f[Stack][d] = frame[Stack][d]
              \/ at \in Unpopped /\ f[Stack][d] = [frame[Stack][d] EXCEPT !.x0 = "ttbr0"]
    BY <1>2, <1>3, <1>4, FrameSaved
  <1>6. new = [x0 |-> gpr.x0, x10 |-> gpr.x10, regs |-> gpr.regs, ttbr0 |-> sys.ttbr0,
               sp_el0 |-> sys.sp_el0, elr |-> at, spsr |-> "EL1"]
    BY DEF SaveContext
  <1> HIDE DEF f, new
  <1>7. /\ gpr' = [x0 |-> new.x0, x10 |-> new.x10, regs |-> new.regs]
        /\ sys' = [ttbr0 |-> new.ttbr0, sp_el0 |-> new.sp_el0, elr |-> new.elr,
                   spsr |-> new.spsr]
        /\ masked' = FALSE /\ sp' = sp
    BY <1>2, <1>5 DEF RestoreContext
  <1>8. gpr' = gpr
    BY <1>1, <1>6, <1>7 DEF GprRange
  <1>9. sys' = [ttbr0 |-> sys.ttbr0, sp_el0 |-> sys.sp_el0, elr |-> at, spsr |-> "EL1"]
    BY <1>6, <1>7
  <1>10. at' = at \/ (at \in Kmain \cup {"svc"} \cup Io /\ at' = "crashed")
    BY <1>2, <1>5, <1>6
  <1>11. QED
    BY <1>2, <1>5, <1>7, <1>8, <1>9, <1>10

LEMMA IrqFromKernelInvariant ==
  ASSUME KInv, IrqTaken, ~masked, at \notin EL0 \cup Stuck
  PROVE  KInv' /\ UNCHANGED vars
  <1> USE SchedulerAssumption
  <1>1. /\ UNCHANGED <<vars, kernel, programs, faults>> /\ pending' = FALSE
        /\ gpr' = gpr /\ sp' = sp /\ masked' = FALSE
        /\ sys' = [ttbr0 |-> sys.ttbr0, sp_el0 |-> sys.sp_el0, elr |-> at, spsr |-> "EL1"]
        /\ at' = at \/ (at \in Kmain \cup {"svc"} \cup Io /\ at' = "crashed")
        /\ x0_lost' = IF at \in Unpopped THEN x0_lost \cup {current} ELSE x0_lost
        /\ elr_lost' = IF at = "ret_elr" THEN elr_lost \cup {current} ELSE elr_lost
        /\ frame' \in [Stacks -> [0..MaxDepth -> Frames]]
    BY IrqFromKernelEffect
  <1>2. /\ \A s \in Stacks \ {Stack} : frame'[s] = frame[s]
        /\ \A d \in 0..MaxDepth \ {sp} :
              \/ frame'[Stack][d] = frame[Stack][d]
              \/ at \in Unpopped /\ frame'[Stack][d] = [frame[Stack][d] EXCEPT !.x0 = "ttbr0"]
    BY IrqFromKernelEffect
  <1>3. at \in Unpopped => executing # NoContext /\ current \in Tasks
    BY RestoreSituation
  <1>4. "ret_elr" \in Unpopped /\ "crashed" \in Stuck /\ "crashed" \in Places
    BY DEF Unpopped, Stuck, Places
  <1>5. IInv'
    BY <1>1, SchedulerUntouched DEF KInv
  <1>6. KTyped'
    <2>1. sys' \in SysRange
      BY <1>1 DEF KInv, KTyped, SysRange
    <2>2. x0_lost' \subseteq Tasks /\ elr_lost' \subseteq Tasks
      BY <1>1, <1>3, <1>4 DEF KInv, KTyped
    <2>3. at' \in Places
      BY <1>1, <1>4 DEF KInv, KTyped
    <2>4. masked' \in BOOLEAN /\ pending' \in BOOLEAN
      BY <1>1
    <2>5. QED
      BY <1>1, <2>1, <2>2, <2>3, <2>4 DEF KInv, KTyped, kernel, programs
  <1>7. IoProgress' /\ LockHolderUndisturbed'
    BY <1>1 DEF KInv, KTyped, IoProgress, LockHolderUndisturbed, kernel
  <1>8. at' = at \/ at' = "crashed"
    BY <1>1
  <1>9. "crashed" \notin Kmain \cup Entered \cup Io \cup EL0 \cup Returning \cup Unpopped \cup {"svc"}
    BY <1>4, PlacesApart DEF Entered, Returning
  <1>10. StackInUse'
    <2>1. executing = NoContext => elr_lost' = elr_lost
      BY <1>1, <1>3, <1>4
    <2>2. QED
      BY <1>1, <1>8, <1>9, <2>1 DEF KInv, StackInUse, vars
  <1>11. FrameBelow' => FrameBelow /\ at' = at
    BY <1>1, <1>8, <1>9 DEF FrameBelow, vars
  <1>12. executing # NoContext =>
            WaitingContextsIntact' /\ \A t \in WaitingTasks' : context'[t].depth = faults'[t]
    <2>1. ASSUME executing # NoContext
          PROVE  \A t \in Tasks \ {current} :
                    /\ frame'[t] = frame[t] /\ user'[t] = user[t] /\ faults'[t] = faults[t]
                    /\ t \in x0_lost => t \in x0_lost'
                    /\ t \in elr_lost <=> t \in elr_lost'
      <3>1. Stack = current
        BY <2>1, EnteredSituation
      <3>2. \A t \in Tasks \ {current} : frame'[t] = frame[t]
        BY <1>2, <3>1 DEF Stacks
      <3>3. QED
        BY <1>1, <3>2 DEF programs
    <2>2. QED
      BY <1>1, <2>1, WaitingUntouched
  <1>13. executing = NoContext =>
            WaitingContextsIntact' /\ \A t \in WaitingTasks' : context'[t].depth = faults'[t]
    <2>1. SUFFICES ASSUME executing = NoContext
                   PROVE  /\ WaitingContextsIntact'
                          /\ \A t \in WaitingTasks' : context'[t].depth = faults'[t]
      OBVIOUS
    <2>2. WaitingTasks' = WaitingTasks /\ WaitingTasks \subseteq Tasks
      BY <1>1 DEF KInv, IInv, TypeOK, WaitingTasks, vars, Tasks
    <2>3. x0_lost' = x0_lost /\ elr_lost' = elr_lost
      BY <1>1, <1>3, <1>4, <2>1
    <2>4. \A t \in Tasks : frame'[t] = frame[t]
      <3>1. Stack = NULL
        BY <2>1 DEF Stack, NoContext
      <3>2. QED
        BY <1>2, <3>1 DEF Stacks, Tasks, NULL
    <2>5. \A t \in WaitingTasks' :
             /\ frame'[t][context'[t].depth] = frame[t][context[t].depth]
             /\ context'[t].depth = faults'[t]
      BY <1>1, <2>2, <2>4 DEF KInv, FramesCounted, StackGrowsOnlyByFaults, vars
    <2>6. WaitingContextsIntact'
      BY <1>1, <2>2, <2>3, <2>5
      DEF KInv, WaitingContextsIntact, IntactFrame, OwnRegisters, programs
    <2>7. QED
      BY <2>5, <2>6
  <1>14. FramesCounted'
    BY <1>1, <1>8, <1>9, <1>11, <1>12, <1>13
    DEF KInv, FramesCounted, StackGrowsOnlyByFaults, Returning, vars
  <1>15. FrameBelow' => ReturnsTo(frame[current][sp - 1], current)'
    <2>1. SUFFICES ASSUME FrameBelow'
                   PROVE  ReturnsTo(frame[current][sp - 1], current)'
      OBVIOUS
    <2>2. FrameBelow /\ executing # NoContext
      BY <1>11, <2>1 DEF KInv, StackInUse, Entered, Returning, FrameBelow
    <2>3. /\ Stack = current /\ current \in Tasks /\ current \in Stacks
          /\ sp = faults[current] + 1 /\ faults[current] \in 0 .. MaxDepth + 1
      BY <2>2, EnteredSituation DEF KInv, FramesCounted
    <2>4. sp - 1 \in 0..MaxDepth \ {sp}
      BY <2>3 DEF KInv, KTyped
    <2> DEFINE g == frame[current][sp - 1]
               h == frame'[current][sp - 1]
    <2>5. g \in Frames /\ ReturnsTo(g, current)
      BY <2>2, <2>3, <2>4 DEF KInv, KTyped, ProgramKept
    <2>6. h = g \/ (at \in Unpopped /\ h = [g EXCEPT !.x0 = "ttbr0"])
      BY <1>2, <2>3, <2>4
    <2> HIDE DEF g, h
    <2>7. /\ h.spsr = g.spsr /\ h.elr = g.elr /\ h.ttbr0 = g.ttbr0 /\ h.sp_el0 = g.sp_el0
          /\ h.regs = g.regs /\ h.x10 = g.x10
          /\ h.x0 = g.x0 \/ at \in Unpopped
      BY <2>5, <2>6 DEF Frames
    <2>8. UNCHANGED <<current, sp, user, faults>>
      BY <1>1 DEF vars, programs
    <2>9. at \in Unpopped => current \in x0_lost'
      BY <1>1
    <2>10. current \in x0_lost => current \in x0_lost'
      BY <1>1
    <2>11. /\ h.spsr = "EL0" /\ h.elr = "user" /\ h.ttbr0 = current /\ h.sp_el0 = current
           /\ h.regs = user'[current]
           /\ h.x0 = "user" \/ current \in x0_lost' \/ faults'[current] > 0
           /\ h.x10 = "user" \/ faults'[current] > 0
      BY <2>5, <2>7, <2>8, <2>9, <2>10 DEF ReturnsTo, OwnRegisters
    <2>12. QED
      BY <2>8, <2>11 DEF h, ReturnsTo, OwnRegisters
  <1>16. ProgramKept'
    <2>1. at' \in {"ret_regs", "user"} => OwnRegisters(gpr, current)'
      <3>1. at' \in {"ret_regs", "user"} => at' = at
        BY <1>8
      <3>2. at' \in {"ret_regs", "user"} => OwnRegisters(gpr, current)
        BY <3>1 DEF KInv, ProgramKept
      <3>3. QED
        BY <1>1, <3>2 DEF OwnRegisters, vars, programs
    <2>2. at' \in {"ret_sp_el0", "ret_elr", "ret_spsr", "ret_regs"} \cup EL0 =>
             sys'.ttbr0 = current' /\ sys'.sp_el0 = current'
      BY <1>1, <1>8, <1>9 DEF KInv, ProgramKept, vars
    <2>3. QED
      BY <1>15, <2>1, <2>2 DEF ProgramKept
  <1>17. ReturnKept'
    <2>1. current' = current /\ sys'.elr = at /\ sys'.spsr = "EL1"
      BY <1>1 DEF vars
    <2>2. at' \in {"svc", "ret0", "ret_sp_el0", "user"} \cup Io => current' \notin elr_lost'
      BY <1>1, <1>8, <1>9, <2>1 DEF KInv, ReturnKept, Io
    <2>3. at' # "lost"
      BY <1>8 DEF EL0
    <2>4. at' = "ret_elr" => sys'.elr # "user" /\ current' \in elr_lost'
      BY <1>1, <1>8, <2>1
    <2>5. QED
      BY <2>1, <2>2, <2>3, <2>4 DEF ReturnKept
  <1>18. QED
    BY <1>1, <1>5, <1>6, <1>7, <1>10, <1>12, <1>13, <1>14, <1>16, <1>17 DEF KInv

\* schedule_on_tick resumes what it, or an earlier tick, recorded for the task it
\* makes current.
LEMMA ScheduleOnTickEffect ==
  ASSUME IInv, executing # NoContext, NEW tf \in Contexts, tf.task = executing.task,
         ScheduleOnTick(tf)
  PROVE  /\ IInv'
         /\ context' = [context EXCEPT ![current] = tf]
         /\ current' \in Tasks /\ executing' = context'[current']
         /\ inited' = inited
  <1>1. CASE KeepCurrent(tf)
    <2>1. current \in Tasks /\ context \in [Tasks -> Contexts \cup {NoContext}]
      BY CurrentOnItsStack DEF IInv, TypeOK
    <2>2. QED
      BY <1>1, <2>1, KeepCurrentInvariant DEF ScheduleOnTick, KeepCurrent
  <1>2. CASE SwitchTask(tf)
    BY <1>2, SwitchTaskInvariant, SwitchTaskEffect, SchedulerAssumption
    DEF ScheduleOnTick, Succ, Tasks
  <1>3. QED
    BY <1>1, <1>2 DEF ScheduleOnTick

\* A program interrupted by the timer is saved whole.
LEMMA SavedAtEL0 ==
  ASSUME KInv, at \in EL0
  PROVE  IntactFrame(SaveContext(at, "EL0"), current)
  <1>1. sys.ttbr0 = current /\ sys.sp_el0 = current
    BY UserSituation
  <1>2. CASE at = "user"
    <2>1. OwnRegisters(gpr, current) /\ current \notin elr_lost
      BY <1>2 DEF KInv, ProgramKept, ReturnKept
    <2>2. QED
      BY <1>1, <1>2, <2>1 DEF IntactFrame, SaveContext, OwnRegisters
  <1>3. CASE at = "lost"
    BY <1>1, <1>3 DEF KInv, ReturnKept, IntactFrame, SaveContext
  <1>4. QED
    BY <1>2, <1>3 DEF EL0

\* The task resumed, the interrupted one or another, gets back all it had.
LEMMA IrqFromUserInvariant ==
  ASSUME KInv, IrqTaken, at \in EL0
  PROVE  KInv' /\ Tick
  <1> USE SchedulerAssumption
  <1> DEFINE new == SaveContext(at, "EL0")
             f == [Overwritten(frame) EXCEPT ![Stack][sp] = new]
             saved == [task |-> Stack, depth |-> sp]
             from == frame'[current'][context'[current'].depth]
  <1>1. /\ executing # NoContext /\ executing \in Contexts /\ Stack = current
        /\ current \in Tasks /\ current \in Stacks /\ inited = NTasks
        /\ sp = faults[current] /\ sp \in 0 .. MaxDepth + 1 /\ lock = 0
    BY UserSituation, CurrentOnItsStack DEF KInv
  <1>2. /\ ScheduleOnTick(saved) /\ pending' = FALSE /\ sp \in 0..MaxDepth
        /\ frame' = f
        /\ RestoreContext(executing', f)
        /\ at' = f[executing'.task][executing'.depth].elr
        /\ UNCHANGED <<kernel, programs, faults>>
        /\ x0_lost' = x0_lost /\ elr_lost' = elr_lost
    <2>1. ~CheckCurrentEl
      BY DEF CheckCurrentEl
    <2>2. at \notin Kmain \cup {"svc"} \cup Io \cup Unpopped /\ at # "ret_elr"
      BY DEF Kmain, Io, Unpopped, EL0
    <2>3. sp <= MaxDepth
      BY DEF IrqTaken
    <2>4. QED
      BY <1>1, <2>1, <2>2, <2>3 DEF IrqTaken, IrqDispatcher
  <1>3. saved \in Contexts /\ saved.task = executing.task
    BY <1>1, <1>2 DEF Contexts, Stack
  <1>4. Tick
    BY <1>1, <1>2, <1>3 DEF Tick
  <1>5. /\ IInv /\ IInv' /\ inited' = NTasks
        /\ context' = [context EXCEPT ![current] = saved]
        /\ current' \in Tasks /\ executing' = context'[current']
    BY <1>1, <1>2, <1>3, ScheduleOnTickEffect DEF KInv
  <1>6. executing' # NoContext
    BY <1>5 DEF IInv, FramesOwned, NoContext, NULL, Tasks
  <1>7. /\ executing'.task = current' /\ current' \in Tasks /\ current' \in Stacks
        /\ executing'.depth \in 0..MaxDepth
    BY <1>5, <1>6, CurrentOnItsStack
    DEF IInv, TypeOK, OneRuns, Contexts, NoContext, Stacks, Tasks, NULL
  <1>8. at \in Places
    BY DEF Places
  <1>9. new \in Frames /\ IntactFrame(new, current)
    BY <1>8, SavedFrameTyped, SavedAtEL0 DEF KInv
  <1>10. /\ frame' \in [Stacks -> [0..MaxDepth -> Frames]]
         /\ frame'[current][sp] = new
         /\ \A s \in Stacks \ {current} : frame'[s] = frame[s]
    <2> HIDE DEF new
    <2>1. QED
      BY <1>1, <1>2, <1>9, FrameSaved
  <1> HIDE DEF f, new
  <1>11. \A t \in Tasks : /\ context'[t].depth = faults[t]
                          /\ IntactFrame(frame'[t][context'[t].depth], t)
    <2>1. SUFFICES ASSUME NEW t \in Tasks
                   PROVE  /\ context'[t].depth = faults[t]
                          /\ IntactFrame(frame'[t][context'[t].depth], t)
      OBVIOUS
    <2>2. CASE t = current
      <3>1. context'[t] = saved
        BY <1>1, <1>5, <2>2 DEF IInv, TypeOK
      <3>2. context'[t].depth = sp
        BY <3>1
      <3>3. QED
        BY <1>1, <1>9, <1>10, <2>2, <3>2
    <2>3. CASE t # current
      <3>1. t \in WaitingTasks
        BY <1>1, <2>3 DEF WaitingTasks, Tasks
      <3>2. IntactFrame(frame[t][context[t].depth], t) /\ context[t].depth = faults[t]
        BY <3>1 DEF KInv, WaitingContextsIntact, FramesCounted, StackGrowsOnlyByFaults
      <3>3. context'[t] = context[t] /\ frame'[t] = frame[t]
        BY <1>5, <1>10, <2>3 DEF IInv, TypeOK, Stacks
      <3>4. QED
        BY <3>2, <3>3
    <2>4. QED
      BY <2>2, <2>3
  <1>12. from \in Frames /\ IntactFrame(from, current')
    BY <1>5, <1>7, <1>10, <1>11
  <1>13. /\ at' = from.elr /\ masked' = FALSE /\ sp' = faults[current']
         /\ gpr' = [x0 |-> from.x0, x10 |-> from.x10, regs |-> from.regs]
         /\ sys' = [ttbr0 |-> from.ttbr0, sp_el0 |-> from.sp_el0,
                    elr |-> from.elr, spsr |-> from.spsr]
    <2>1. f[executing'.task][executing'.depth] = from
      BY <1>2, <1>5, <1>7
    <2>2. executing'.depth = faults[current']
      BY <1>5, <1>11
    <2>3. QED
      BY <1>2, <2>1, <2>2 DEF RestoreContext
  <1>14. IntactFrame(from, current')
    BY <1>12
  <1> HIDE DEF from
  <1>15. /\ current' \in elr_lost => at' = "lost"
         /\ current' \notin elr_lost => at' = "user" /\ OwnRegisters(from, current')
         /\ sys'.ttbr0 = current' /\ sys'.sp_el0 = current'
    BY <1>13, <1>14 DEF IntactFrame
  <1>16. at' \in EL0
    BY <1>15 DEF EL0
  <1>17. KTyped'
    <2>1. gpr' \in GprRange
      BY <1>12, <1>13 DEF Frames, GprRange
    <2>2. sys' \in SysRange
      BY <1>12, <1>13 DEF Frames, SysRange
    <2>3. at' \in Places /\ sp' \in 0 .. MaxDepth + 1
      BY <1>7, <1>13, <1>16, AtEL0 DEF KInv, KTyped
    <2>4. masked' \in BOOLEAN /\ pending' \in BOOLEAN
      BY <1>2, <1>13
    <2>5. QED
      BY <1>2, <1>10, <2>1, <2>2, <2>3, <2>4 DEF KInv, KTyped, kernel, programs
  <1>18. IoProgress' /\ StackInUse' /\ LockHolderUndisturbed'
    BY <1>1, <1>2, <1>6, <1>16, AtEL0
    DEF IoProgress, StackInUse, LockHolderUndisturbed, kernel
  <1>19. WaitingTasks' \subseteq Tasks
    BY <1>5 DEF WaitingTasks, Tasks
  <1>20. FramesCounted'
    <2>1. \A t \in WaitingTasks' : context'[t].depth = faults'[t]
      BY <1>2, <1>11, <1>19
    <2>2. QED
      BY <1>2, <1>13, <1>16, <2>1, AtEL0 DEF FramesCounted, StackGrowsOnlyByFaults
  <1>21. ProgramKept'
    <2>1. ASSUME at' = "user" PROVE OwnRegisters(gpr, current)'
      <3>1. OwnRegisters(from, current')
        BY <1>15, <2>1
      <3>2. gpr'.regs = from.regs /\ gpr'.x0 = from.x0 /\ gpr'.x10 = from.x10
        BY <1>13
      <3>3. QED
        BY <1>2, <3>1, <3>2 DEF OwnRegisters, programs
    <2>2. QED
      BY <1>15, <1>16, <2>1, AtEL0 DEF ProgramKept
  <1>22. ReturnKept'
    BY <1>2, <1>15, <1>16, AtEL0 DEF ReturnKept, Returning, Unpopped
  <1>23. WaitingContextsIntact'
    <2>1. \A t \in WaitingTasks' : IntactFrame(frame'[t][context'[t].depth], t)
      BY <1>11, <1>19
    <2>2. UNCHANGED <<user, faults, x0_lost, elr_lost>>
      BY <1>2 DEF programs
    <2>3. QED
      BY <2>1, <2>2 DEF WaitingContextsIntact, IntactFrame, OwnRegisters
  <1>24. QED
    BY <1>4, <1>5, <1>17, <1>18, <1>20, <1>21, <1>22, <1>23 DEF KInv

-----------------------------------------------------------------------------
(* The invariant holds; what follows from it. *)

\* A step of the kernel is a step of the scheduler or leaves it alone.
LEMMA KernelStep == KInv /\ [KNext]_kvars => KInv' /\ [Next]_vars
  <1> SUFFICES ASSUME KInv, [KNext]_kvars PROVE KInv' /\ [Next]_vars
    OBVIOUS
  <1>1. CASE KmainStep
    <2>1. CASE KmainMask \/ KmainUnmask
      <3>1. /\ at \in Kmain \cup {"io_wait"} /\ at' \in Kmain /\ at' # "kmain_start"
            /\ masked' \in BOOLEAN
            /\ UNCHANGED <<vars, pending, gpr, sys, sp, frame, kernel, programs, history>>
        BY <2>1 DEF KmainMask, KmainUnmask, Kmain
      <3>2. executing = NoContext
        BY <2>1 DEF KInv, StackInUse, KmainMask, KmainUnmask, Kmain
      <3>3. QED
        BY <3>1, <3>2, KmainMovesInvariant
    <2>2. CASE KmainInitTask
      BY <2>2, KmainInitTaskInvariant DEF KmainInitTask, Next
    <2>3. CASE KmainSetCurrent
      BY <2>3, KmainSetCurrentInvariant DEF KmainSetCurrent, Next
    <2>4. CASE KmainFirstUserEnter
      BY <2>4, KmainFirstUserEnterInvariant DEF KmainFirstUserEnter, Next
    <2>5. QED
      BY <1>1, <2>1, <2>2, <2>3, <2>4 DEF KmainStep
  <1>2. CASE TimerFires
    BY <1>2, TimerFiresInvariant DEF TimerFires
  <1>3. CASE Irq
    <2>1. CASE Overflow
      BY <1>3, <2>1, OverflowInvariant DEF Irq, Overflow
    <2>2. CASE IrqTaken
      BY <1>3, <2>2, IrqFromUserInvariant, IrqFromKernelInvariant DEF Irq, Next
    <2>3. QED
      BY <1>3, <2>1, <2>2 DEF Irq
  <1>4. CASE UserStep \/ Svc \/ UserFault
    BY <1>4, UserStepInvariant, SvcInvariant, UserFaultInvariant DEF UserStep, Svc, UserFault
  <1>5. CASE UserOverflow
    BY <1>5, OverflowInvariant DEF UserOverflow, Overflow
  <1>6. CASE IoStep
    BY <1>6, IoMaskInvariant, IoLockInvariant, IoUnlockInvariant, IoUnmaskInvariant
    DEF IoStep, IoMask, IoLock, IoUnlock, IoUnmask
  <1>7. CASE ReturnStep
    <2>1. CASE SyscallDone \/ LoadTtbr0AndSpEl0 \/ LoadElr
      BY <2>1, SyscallDoneInvariant, LoadTtbr0AndSpEl0Invariant, LoadElrInvariant
      DEF SyscallDone, LoadTtbr0AndSpEl0, LoadElr
    <2>2. CASE LoadSpsr \/ LoadGeneralRegisters \/ Eret
      BY <2>2, LoadSpsrInvariant, LoadGeneralRegistersInvariant, EretInvariant
      DEF LoadSpsr, LoadGeneralRegisters, Eret
    <2>3. QED
      BY <1>7, <2>1, <2>2 DEF ReturnStep
  <1>8. CASE Astray \/ UNCHANGED kvars
    <2>1. UNCHANGED kvars
      BY <1>8 DEF Astray
    <2>2. UNCHANGED vars /\ IInv'
      BY <2>1, SchedulerUntouched DEF kvars, KInv
    <2>3. KTyped'
      BY <2>1 DEF KInv, KTyped, kvars, cpu, kernel, programs, history
    <2>4. WaitingTasks' = WaitingTasks /\ (FrameBelow' <=> FrameBelow)
      BY <2>1 DEF WaitingTasks, FrameBelow, kvars, cpu, vars
    <2>5. IoProgress' /\ StackInUse' /\ FramesCounted' /\ LockHolderUndisturbed'
      BY <2>1, <2>4 DEF KInv, IoProgress, StackInUse, FramesCounted, StackGrowsOnlyByFaults,
         LockHolderUndisturbed, kvars, vars, cpu, kernel, history
    <2>6. ProgramKept' /\ ReturnKept'
      BY <2>1, <2>4
      DEF KInv, ProgramKept, ReturnKept, ReturnsTo, OwnRegisters, kvars, vars, cpu, programs,
         history
    <2>7. WaitingContextsIntact'
      BY <2>1, <2>4
      DEF KInv, WaitingContextsIntact, IntactFrame, OwnRegisters, kvars, vars, cpu, programs,
         history
    <2>8. QED
      BY <2>2, <2>3, <2>5, <2>6, <2>7 DEF KInv
  <1>9. QED
    BY <1>1, <1>2, <1>3, <1>4, <1>5, <1>6, <1>7, <1>8 DEF KNext

\* The invariant always holds.
LEMMA KernelInvariance == KSpec => []KInv
  BY KInitInvariant, KernelStep, PTL DEF KSpec

\* Every variable of the trap path keeps its range; no word of a frame is anything
\* SAVE_CONTEXT or init_task did not store.
THEOREM KTypeCorrect == KSpec => []KTypeOK
  <1>1. KInv => KTypeOK
    BY DEF KInv, KTyped, GprRange, SysRange, IInv, KTypeOK
  <1>2. QED
    BY <1>1, KernelInvariance, PTL

\* Context switches are transparent to the programs, but for what a fault, and an
\* interrupt of the return from a syscall, cost the program that took it.
THEOREM ProgramsUndisturbed == KSpec => []UserSeesItsOwnState
  <1>1. KInv => UserSeesItsOwnState
    BY DEF KInv, ProgramKept, UserSeesItsOwnState, EL0
  <1>2. QED
    BY <1>1, KernelInvariance, PTL

\* The context recorded for a waiting task is a complete EL0 frame, unharmed,
\* whichever two instructions of the kernel an interrupt falls between.
THEOREM ContextsIntact == KSpec => []WaitingContextsIntact
  <1>1. KInv => WaitingContextsIntact
    BY DEF KInv
  <1>2. QED
    BY <1>1, KernelInvariance, PTL

\* GlobalBlockLock is never held where an interrupt can arrive, nor found held.
THEOREM LockHolderSafe == KSpec => []LockHolderUndisturbed
  <1>1. KInv => LockHolderUndisturbed
    BY DEF KInv
  <1>2. QED
    BY <1>1, KernelInvariance, PTL

\* Of all that enters and leaves the kernel, only a fault leaves a frame behind.
THEOREM StacksGrowByFaultsOnly == KSpec => []StackGrowsOnlyByFaults
  <1>1. KInv => StackGrowsOnlyByFaults
    BY DEF KInv, FramesCounted
  <1>2. QED
    BY <1>1, KernelInvariance, PTL

\* The scheduler's own invariants survive in the whole kernel.
THEOREM QueueCorrectInKernel == KSpec => [](QueueSpellsRotation /\ OneRuns /\ FramesOwned)
  <1>1. KInv => QueueSpellsRotation /\ OneRuns /\ FramesOwned
    BY DEF KInv, IInv
  <1>2. QED
    BY <1>1, KernelInvariance, PTL

\* The kernel, wherever interrupts hit it, is an implementation of Scheduler.
THEOREM RefinesScheduler == KSpec => ImplementsScheduler
  <1>1. KInit => Init
    BY DEF KInit
  <1>2. QED
    BY <1>1, KernelStep, KernelInvariance, PTL DEF KSpec, ImplementsScheduler, SafeSpec

\* Hence the programs of the whole kernel take turns as RoundRobin says, with the
\* quantum of RR_SLICE_TICKS, through every boot, interrupt, syscall and fault.
THEOREM KernelIsRoundRobin == KSpec => RR!SafeSpec
  <1>1. KInit => RR!Init
    BY InitRefines DEF KInit
  <1>2. KInv /\ KInv' /\ [KNext]_kvars => [RR!Next]_RR!vars
    BY KernelStep, StepRefines DEF KInv
  <1>3. QED
    BY <1>1, <1>2, KernelInvariance, PTL DEF KSpec, RR!SafeSpec

\* Hence also the waits of Scheduler: wherever the interrupts hit the kernel, a
\* program waits at most one slice of each of the others, and every step of the
\* kernel that reaches the scheduler, which after boot only a tick does, brings
\* each waiting program one tick nearer to its turn.
THEOREM KernelWaitsAreBounded == KSpec => []WaitBounded /\ [][WaitStep]_vars
  <1>1. KInv => WaitBounded
    BY WaitsAreBounded DEF KInv
  <1>2. KInv /\ KInv' /\ [KNext]_kvars => [WaitStep]_vars
    BY KernelStep, TickCountsDown DEF KInv
  <1>3. QED
    BY <1>1, <1>2, KernelInvariance, PTL DEF KSpec
=============================================================================
