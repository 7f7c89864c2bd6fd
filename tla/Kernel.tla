------------------------------- MODULE Kernel -------------------------------
(***************************************************************************)
(* The trap path: how kmain, the exception vectors (vectors.s), the        *)
(* interrupt and syscall dispatchers (handlers.c) and the scheduler share  *)
(* one CPU.  It composes Scheduler with the CPU's mode, its interrupt      *)
(* mask, its system registers and the frames on the kernel stacks.         *)
(*                                                                         *)
(* An exception masks interrupts, so SAVE_CONTEXT, irq_dispatcher and the  *)
(* RESTORE_AND_ERET that follows are one step.  The syscall path and       *)
(* first_user_enter are not: spin_unlock_with_mask and kmain unmask        *)
(* interrupts, and from there to the eret a timer interrupt can arrive     *)
(* between any two instructions.  Their steps are separate actions.        *)
(*                                                                         *)
(* Data.  A user program is a state [task, step] that its own instructions *)
(* change; it stands for the pc and all registers but x0, x10 and x11.     *)
(* Those are kept apart, as x0 and x10: SAVE_CONTEXT uses x0 as scratch,   *)
(* syscalls return in it, and el0_sync_entry looks at the exception's      *)
(* class in x10 and x11.  The page table and the user stack of task t are  *)
(* both called t.  A kernel stack has room for MaxDepth + 1 frames, what   *)
(* C functions put on it counted as frames.                                *)
(***************************************************************************)
EXTENDS Scheduler

CONSTANT Syscalls      \* syscall numbers the user programs issue

BootStack == NULL              \* kmain's stack, beside the tasks' kernel stacks
Stacks == Tasks \cup {BootStack}

Steps == 0..1
UserStates == [task : Tasks, step : Steps]
KernelRegs == [task |-> NULL, step |-> 0]     \* kernel values, or a mixture

\* Where the CPU is: in kmain; in syscall_dispatcher; in a block operation of
\* either; or in RESTORE_AND_ERET, named for what it has loaded last.
Kmain == {"kmain_start", "kmain_tasks", "kmain_current", "kmain_enter"}
Io == {"io_masked", "io_locked", "io_unlocked", "io_wait"}
Unpopped == {"ret0", "ret_sp_el0", "ret_elr", "ret_spsr"}
Returning == Unpopped \cup {"ret_regs"}
\* At EL0: in the program, or "lost" at an address of the kernel's text.
EL0 == {"user", "lost"}
\* "strayed": an eret has returned into RESTORE_AND_ERET, at EL1; "crashed": the
\* kernel's C code has used a clobbered word of its own stack; "overflow": a
\* frame was written below the end of a kernel stack.
Stuck == {"strayed", "crashed", "overflow"}
Places == Kmain \cup {"svc"} \cup Io \cup Returning \cup EL0 \cup Stuck

\* x0 holds the program's own value, a page table address, or a syscall's result;
\* x10 (and x11) the program's own value or that of ESR_EL1.
X0 == {"user", "ttbr0", "result"}
X10 == {"user", "esr"}
Registers == UserStates \cup {KernelRegs}
Frames == [x0 : X0, x10 : X10, regs : Registers, ttbr0 : Stacks,
           sp_el0 : Stacks, elr : Places, spsr : {"EL0", "EL1"}]
NoFrame == [x0 |-> "user", x10 |-> "user", regs |-> KernelRegs, ttbr0 |-> NULL,
            sp_el0 |-> NULL, elr |-> "kmain_start", spsr |-> "EL1"]

NoSyscall == 0

VARIABLES
  at,        \* where the CPU is
  masked,    \* PSTATE.I
  pending,   \* the virtual timer's condition is met
  gpr,       \* the general registers: [x0, x10, regs]
  sys,       \* TTBR0_EL1, SP_EL0, ELR_EL1, SPSR_EL1
  sp,        \* how many frames lie on the stack in use
  frame,     \* the frames, per stack and depth
  lock,      \* GlobalBlockLock
  sysno,     \* the syscall being served
  io,        \* block operations it has done
  user,      \* per task, the state its program has reached
  called,    \* the tasks that have issued their syscall
  \* What has happened to a task, for the properties; no action reads it.
  faults,    \* per task, how many exceptions other than syscalls it has taken
  x0_lost,   \* tasks whose saved x0 an interrupt of the kernel has overwritten
  elr_lost   \* tasks whose return was interrupted between ELR_EL1 and SPSR_EL1

cpu == <<at, masked, pending, gpr, sys, sp, frame>>
kernel == <<lock, sysno, io>>
programs == <<user, called>>
history == <<faults, x0_lost, elr_lost>>
kvars == <<vars, cpu, kernel, programs, history>>

KInit ==
  /\ Init
  /\ at = "kmain_start"
  /\ masked = TRUE                      \* start.s: msr daifset, #0xf
  /\ pending = FALSE
  /\ gpr = [x0 |-> "user", x10 |-> "user", regs |-> KernelRegs]
  /\ sys = [ttbr0 |-> NULL, sp_el0 |-> NULL, elr |-> "kmain_start", spsr |-> "EL1"]
  /\ sp = 0
  /\ frame = [s \in Stacks |-> [d \in 0..MaxDepth |-> NoFrame]]
  /\ lock = 0 /\ sysno = NoSyscall /\ io = 0
  /\ user = [t \in Tasks |-> [task |-> t, step |-> 0]]
  /\ called = {}
  /\ faults = [t \in Tasks |-> 0]
  /\ x0_lost = {} /\ elr_lost = {}

\* The stack in use is the one that holds the context resumed last.
Stack == executing.task

-----------------------------------------------------------------------------
(* SAVE_CONTEXT and RESTORE_AND_ERET. *)

\* The frame SAVE_CONTEXT writes for an exception that returns to `elr'.
SaveContext(elr, spsr) ==
  [x0 |-> gpr.x0, x10 |-> gpr.x10, regs |-> gpr.regs, ttbr0 |-> sys.ttbr0,
   sp_el0 |-> sys.sp_el0, elr |-> elr, spsr |-> spsr]

\* CTX_SIZE is 34 words but TTBR0_EL1 is stored as the 35th: the word at the
\* interrupted stack pointer.  Below a frame being restored that is its x0.
Overwritten(f) ==
  IF at \in Unpopped THEN [f EXCEPT ![Stack][sp - 1].x0 = "ttbr0"] ELSE f

\* The whole of RESTORE_AND_ERET from the frame at c, interrupts masked.
RestoreContext_KeepTtbr0(c, f) ==
  LET from == f[c.task][c.depth]
  IN  /\ gpr' = [x0 |-> from.x0, x10 |-> from.x10, regs |-> from.regs]
      /\ sys' = [ttbr0 |-> sys.ttbr0, sp_el0 |-> from.sp_el0,
                 elr |-> from.elr, spsr |-> from.spsr]
      /\ masked' = FALSE
      /\ sp' = c.depth

RestoreContext_PoppedTwice(c, f) ==
  LET from == f[c.task][c.depth]
  IN  /\ gpr' = [x0 |-> from.x0, x10 |-> from.x10, regs |-> from.regs]
      /\ sys' = [ttbr0 |-> from.ttbr0, sp_el0 |-> from.sp_el0,
                 elr |-> from.elr, spsr |-> from.spsr]
      /\ masked' = FALSE
      /\ sp' = c.depth - 1

RestoreContext_FrameNotPopped(c, f) ==
  LET from == f[c.task][c.depth]
  IN  /\ gpr' = [x0 |-> from.x0, x10 |-> from.x10, regs |-> from.regs]
      /\ sys' = [ttbr0 |-> from.ttbr0, sp_el0 |-> from.sp_el0,
                 elr |-> from.elr, spsr |-> from.spsr]
      /\ masked' = FALSE
      /\ sp' = c.depth + 1

RestoreContext(c, f) ==
  LET from == f[c.task][c.depth]
  IN  /\ gpr' = [x0 |-> from.x0, x10 |-> from.x10, regs |-> from.regs]
      /\ sys' = [ttbr0 |-> from.ttbr0, sp_el0 |-> from.sp_el0,
                 elr |-> from.elr, spsr |-> from.spsr]
      /\ masked' = FALSE      \* the interrupted code ran unmasked
      /\ sp' = c.depth

\* SAVE_CONTEXT on a stack that is used up.  It checks nothing: the frame lands on
\* whatever lies below, and what follows is no longer described here.
Overflow ==
  /\ sp > MaxDepth
  /\ at' = "overflow"
  /\ UNCHANGED <<vars, masked, pending, gpr, sys, sp, frame, kernel, programs, history>>

-----------------------------------------------------------------------------
(* Boot.  kmain first tries the disk, see the block operations below. *)

KmainMask ==
  /\ at = "io_wait" /\ io = 2 /\ executing = NoContext
  /\ at' = "kmain_tasks"
  /\ masked' = TRUE
  /\ UNCHANGED <<vars, pending, gpr, sys, sp, frame, kernel, programs, history>>

\* build_initial_context and the assignment of ttbr0_el1 in init_task.
InitialFrame(t) ==
  [x0 |-> "user", x10 |-> "user", regs |-> user[t], ttbr0 |-> t, sp_el0 |-> t,
   elr |-> "user", spsr |-> "EL0"]

KmainInitTask ==
  LET t == inited + 1
  IN  /\ at = "kmain_tasks"
      /\ InitTask
      /\ frame' = [frame EXCEPT ![t][0] = InitialFrame(t)]
      /\ UNCHANGED <<at, masked, pending, gpr, sys, sp, kernel, programs, history>>

KmainSetCurrent ==
  /\ at = "kmain_tasks"
  /\ SchedSetCurrent
  /\ at' = "kmain_current"
  /\ UNCHANGED <<masked, pending, gpr, sys, sp, frame, kernel, programs, history>>

KmainUnmask ==
  /\ at = "kmain_current"
  /\ at' = "kmain_enter"
  /\ masked' = FALSE
  /\ UNCHANGED <<vars, pending, gpr, sys, sp, frame, kernel, programs, history>>

\* first_user_enter: mov sp, x0, then RESTORE_AND_ERET.
KmainFirstUserEnter ==
  /\ at = "kmain_enter"
  /\ FirstUserEnter
  /\ at' = "ret0"
  /\ sp' = executing'.depth + 1
  /\ UNCHANGED <<masked, pending, gpr, sys, frame, kernel, programs, history>>

KmainStep ==
  \/ KmainMask \/ KmainInitTask \/ KmainSetCurrent
  \/ KmainUnmask \/ KmainFirstUserEnter

-----------------------------------------------------------------------------
(* The timer interrupt. *)

TimerFires ==
  /\ ~pending
  /\ at \notin Stuck
  /\ pending' = TRUE
  /\ UNCHANGED <<vars, at, masked, gpr, sys, sp, frame, kernel, programs, history>>

\* check_current_el: did the interrupt come from EL1?
CheckCurrentEl_Dropped == FALSE

CheckCurrentEl == at \notin EL0

\* irq_dispatcher for interrupt 27, given the context just saved: set_cntv
\* clears the timer's condition, and only an interrupt from EL0 reschedules.
IrqDispatcher(saved) ==
  /\ pending' = FALSE
  /\ IF CheckCurrentEl THEN UNCHANGED vars ELSE ScheduleOnTick(saved)

IrqTaken ==
  LET saved == [task |-> Stack, depth |-> sp]
      spsr  == IF at \in EL0 THEN "EL0" ELSE "EL1"
      f     == [Overwritten(frame) EXCEPT ![Stack][sp] = SaveContext(at, spsr)]
      c     == IF CheckCurrentEl THEN saved ELSE executing'
  IN  /\ sp <= MaxDepth
      /\ IrqDispatcher(saved)
      /\ frame' = f
      /\ RestoreContext(c, f)
         \* In C code the overwritten word may be a local the code still needs.
      /\ \/ at' = f[c.task][c.depth].elr
         \/ at \in Kmain \cup {"svc"} \cup Io /\ at' = "crashed"
      /\ x0_lost' = IF at \in Unpopped THEN x0_lost \cup {current} ELSE x0_lost
      /\ elr_lost' = IF at = "ret_elr" THEN elr_lost \cup {current} ELSE elr_lost
      /\ UNCHANGED <<kernel, programs, faults>>

Irq == pending /\ ~masked /\ at \notin Stuck /\ (IrqTaken \/ Overflow)

-----------------------------------------------------------------------------
(* User programs and their exceptions. *)

\* An instruction of the program, one that relies on x0, x10 and x11: a program
\* that sets them anew has less to lose.
UserStep ==
  LET t == Stack
      s == [task |-> t, step |-> 1 - gpr.regs.step]
  IN  /\ at = "user"
      /\ gpr' = [gpr EXCEPT !.regs = s]
      /\ user' = [user EXCEPT ![t] = s]
      /\ UNCHANGED <<vars, at, masked, pending, sys, sp, frame, kernel, called, history>>

\* svc: sys_write loads the arguments and traps; el0_sync_entry saves.  Each
\* program of kmain.c issues one syscall and then loops.
Svc ==
  /\ at = "user" /\ sp <= MaxDepth
  /\ Stack \notin called
  /\ called' = called \cup {Stack}
  /\ at' = "svc"
  /\ masked' = TRUE
  /\ frame' = [frame EXCEPT ![Stack][sp] =
                 [SaveContext("user", "EL0") EXCEPT !.x0 = "user"]]
  /\ sp' = sp + 1
  /\ sys' = [sys EXCEPT !.elr = "user", !.spsr = "EL0"]
  /\ gpr' = [x0 |-> "ttbr0", x10 |-> "esr", regs |-> KernelRegs]
  /\ sysno' \in Syscalls
  /\ io' = 0
  /\ UNCHANGED <<vars, pending, lock, user, history>>

\* An exception that is not a syscall (a page that is not mapped): the frame is
\* saved and not_syscall erets at once.  The frame is not popped, and the program
\* is back at the same instruction, but with x0, x10 and x11 overwritten.  Whether
\* it faults again depends on them.  A lost program has no other way to go on: the
\* next instruction of RESTORE_AND_ERET but one is privileged, after a load of x1.
UserFault ==
  LET t == Stack
  IN  /\ at \in EL0 /\ sp <= MaxDepth
      /\ frame' = [frame EXCEPT ![t][sp] = SaveContext(at, "EL0")]
      /\ sp' = sp + 1
      /\ sys' = [sys EXCEPT !.elr = at, !.spsr = "EL0"]
      /\ \E regs \in {gpr.regs} \cup (IF at = "lost" THEN {KernelRegs} ELSE {}) :
            gpr' = [x0 |-> "ttbr0", x10 |-> "esr", regs |-> regs]
      /\ faults' = [faults EXCEPT ![t] = @ + 1]
      /\ UNCHANGED <<vars, at, masked, pending, kernel, programs, x0_lost, elr_lost>>

\* The same two exceptions where the kernel stack is used up.
UserOverflow == at \in EL0 /\ Overflow

-----------------------------------------------------------------------------
(* Block operations.  kmain and syscall_dispatcher for number 64 do a      *)
(* block_write and then a block_read; other syscalls change nothing        *)
(* modelled here.                                                          *)

WriteSyscall == 64

CallsBlock ==
  \/ at = "kmain_start"
  \/ at = "svc" /\ sysno = WriteSyscall
  \/ at = "io_wait" /\ io = 1

IoMask_Forgotten ==
  /\ CallsBlock
  /\ at' = "io_masked"
  /\ UNCHANGED <<vars, masked, pending, gpr, sys, sp, frame, kernel, programs, history>>

\* spin_lock_with_mask: mask_interrupts, then spin_lock.
IoMask ==
  /\ CallsBlock
  /\ masked' = TRUE
  /\ at' = "io_masked"
  /\ UNCHANGED <<vars, pending, gpr, sys, sp, frame, kernel, programs, history>>

IoLock ==
  /\ at = "io_masked"
  /\ lock = 0
  /\ lock' = 1
  /\ at' = "io_locked"
  /\ UNCHANGED <<vars, masked, pending, gpr, sys, sp, frame, sysno, io, programs, history>>

\* The request is published and the device notified; spin_unlock_with_mask:
\* spin_unlock, then unmask_interrupts.
IoUnlock ==
  /\ at = "io_locked"
  /\ lock' = 0
  /\ io' = io + 1
  /\ at' = "io_unlocked"
  /\ UNCHANGED <<vars, masked, pending, gpr, sys, sp, frame, sysno, programs, history>>

IoUnmask ==
  /\ at = "io_unlocked"
  /\ masked' = FALSE
  /\ at' = "io_wait"
  /\ UNCHANGED <<vars, pending, gpr, sys, sp, frame, kernel, programs, history>>

IoStep == IoMask \/ IoLock \/ IoUnlock \/ IoUnmask

\* The dispatcher returns to el0_sync_entry, its result in x0.
SyscallDone ==
  /\ \/ at = "svc" /\ sysno # WriteSyscall
     \/ at = "io_wait" /\ io = 2 /\ executing # NoContext
  /\ at' = "ret0"
  /\ gpr' = [gpr EXCEPT !.x0 = "result"]
  /\ UNCHANGED <<vars, masked, pending, sys, sp, frame, kernel, programs, history>>

-----------------------------------------------------------------------------
(* RESTORE_AND_ERET, step by step, where interrupts may be unmasked.  The  *)
(* registers SAVE_CONTEXT preserves are loaded together; ELR_EL1 and       *)
(* SPSR_EL1, which an interrupt overwrites, are not.                       *)

Saved == frame[Stack][sp - 1]

LoadTtbr0AndSpEl0 ==
  /\ at = "ret0"
  /\ at' = "ret_sp_el0"
  /\ sys' = [sys EXCEPT !.ttbr0 = Saved.ttbr0, !.sp_el0 = Saved.sp_el0]
  /\ UNCHANGED <<vars, masked, pending, gpr, sp, frame, kernel, programs, history>>

LoadElr ==
  /\ at = "ret_sp_el0"
  /\ at' = "ret_elr"
  /\ sys' = [sys EXCEPT !.elr = Saved.elr]
  /\ UNCHANGED <<vars, masked, pending, gpr, sp, frame, kernel, programs, history>>

LoadSpsr ==
  /\ at = "ret_elr"
  /\ at' = "ret_spsr"
  /\ sys' = [sys EXCEPT !.spsr = Saved.spsr]
  /\ UNCHANGED <<vars, masked, pending, gpr, sp, frame, kernel, programs, history>>

LoadGeneralRegisters ==
  /\ at = "ret_spsr"
  /\ at' = "ret_regs"
  /\ gpr' = [x0 |-> Saved.x0, x10 |-> Saved.x10, regs |-> Saved.regs]
  /\ sp' = sp - 1
  /\ UNCHANGED <<vars, masked, pending, sys, frame, kernel, programs, history>>

\* Where ELR_EL1 and SPSR_EL1 lead: to the program; if an interrupt has overwritten
\* both, back into RESTORE_AND_ERET; if only ELR_EL1, there too, but at EL0.
EretTarget ==
  CASE sys.spsr = "EL1" -> "strayed"
    [] sys.spsr = "EL0" /\ sys.elr = "user" -> "user"
    [] sys.spsr = "EL0" /\ sys.elr # "user" -> "lost"

Eret_KeepsMask ==
  /\ at = "ret_regs"
  /\ at' = EretTarget
  /\ sysno' = NoSyscall
  /\ UNCHANGED <<vars, masked, pending, gpr, sys, sp, frame, lock, io, programs, history>>

Eret ==
  /\ at = "ret_regs"
  /\ at' = EretTarget
  /\ masked' = FALSE
  /\ sysno' = NoSyscall
  /\ UNCHANGED <<vars, pending, gpr, sys, sp, frame, lock, io, programs, history>>

ReturnStep ==
  \/ SyscallDone
  \/ LoadTtbr0AndSpEl0 \/ LoadElr \/ LoadSpsr \/ LoadGeneralRegisters \/ Eret

\* Once it is stuck, the kernel runs code it was never meant to run.
Astray == at \in Stuck /\ UNCHANGED kvars

KNext ==
  \/ KmainStep \/ IoStep \/ ReturnStep \/ TimerFires \/ Irq
  \/ UserStep \/ Svc \/ UserFault \/ UserOverflow \/ Astray

\* The CPU executes kernel code without pause; the timer, re-armed by every
\* set_cntv, fires again; an unmasked pending interrupt is taken.  Nothing is
\* assumed of the user programs.
KSpec ==
  /\ KInit /\ [][KNext]_kvars
  /\ WF_kvars(KmainStep) /\ WF_kvars(IoStep) /\ WF_kvars(ReturnStep)
  /\ WF_kvars(TimerFires) /\ WF_kvars(Irq)

-----------------------------------------------------------------------------
(* Properties. *)

KTypeOK ==
  /\ TypeOK
  /\ at \in Places
  /\ masked \in BOOLEAN /\ pending \in BOOLEAN
  /\ gpr \in [x0 : X0, x10 : X10, regs : Registers]
  /\ sys \in [ttbr0 : Stacks, sp_el0 : Stacks, elr : Places, spsr : {"EL0", "EL1"}]
  /\ sp \in 0 .. MaxDepth + 1
  /\ \A s \in Stacks, d \in 0..MaxDepth : frame[s][d] \in Frames
  /\ lock \in {0, 1} /\ sysno \in Syscalls \cup {NoSyscall} /\ io \in 0..2
  /\ user \in [Tasks -> UserStates] /\ called \subseteq Tasks
  /\ faults \in [Tasks -> 0 .. MaxDepth + 1]
  /\ x0_lost \subseteq Tasks /\ elr_lost \subseteq Tasks

\* The registers r are those the program of t had, with two exceptions: x0 may be
\* lost to an interrupt of the return from a syscall (SavedX0Intact), and a fault
\* costs the program x0, x10 and x11.
OwnRegisters(r, t) ==
  /\ r.regs = user[t]
  /\ r.x0 = "user" \/ t \in x0_lost \/ faults[t] > 0
  /\ r.x10 = "user" \/ faults[t] > 0

\* Context switching is transparent to a program: whatever sequence of ticks and
\* syscalls, and of other programs' faults, came between, when it runs it finds the
\* registers it had, its own page table in TTBR0_EL1 and its own stack in SP_EL0.
\* A program that has itself faulted is promised all but x0, x10 and x11.
UserSeesItsOwnState ==
  at = "user" => /\ OwnRegisters(gpr, current)
                 /\ sys.ttbr0 = current /\ sys.sp_el0 = current

\* The tasks whose state is in Task.context and nowhere else.
WaitingTasks == {t \in 1..inited : t # current \/ executing = NoContext}

\* A frame that resumes the program of t where it was, or where it was lost.
IntactFrame(f, t) ==
  /\ f.spsr = "EL0" /\ f.ttbr0 = t /\ f.sp_el0 = t
  /\ IF t \in elr_lost THEN f.elr = "lost"
                       ELSE f.elr = "user" /\ OwnRegisters(f, t)

\* Task.context of a task that waits is always a complete EL0 frame of that task:
\* no interrupt, wherever it hits, makes the scheduler record a frame of kernel code
\* or let a later frame overwrite a recorded one.  One instruction boundary is the
\* exception: a task whose return was interrupted between ELR_EL1 and SPSR_EL1 has
\* run at a kernel address since, and is recorded there.
WaitingContextsIntact ==
  \A t \in WaitingTasks : IntactFrame(frame[t][context[t].depth], t)

\* The order of spin_lock_with_mask and spin_unlock_with_mask keeps GlobalBlockLock
\* away from interrupts: while it is held none can be taken and nothing returns to
\* EL0, so the cases of spinlock.h where a holder is scheduled off, or a handler
\* needs the lock the interrupted code holds, cannot occur; and spin_lock, which
\* spins with interrupts masked on the only CPU, always finds the lock free.
LockHolderUndisturbed ==
  /\ lock = 1 => masked /\ at = "io_locked"
  /\ at = "io_masked" => lock = 0

\* The kernel stack of a task holds one frame for each fault its program has taken
\* and nothing else when the program runs or waits: ticks, nested interrupts and
\* syscalls leak no frame, in any order.  A fault does (not_syscall does not pop),
\* so this is also what a program needs to reach "overflow": MaxDepth + 1 faults.
StackGrowsOnlyByFaults ==
  /\ at \in EL0 => sp = faults[current]
  /\ \A t \in WaitingTasks : context[t].depth = faults[t]

\* Seen through its scheduler, the whole kernel behaves as Scheduler says: the
\* frames handed to schedule_on_tick are always those of the current task.
ImplementsScheduler == SafeSpec

\* No program keeps the others from running, whether it loops, faults or sits in its
\* syscall, as long as the kernel itself is not lost.  It is lost when an interrupt
\* of the syscall exit sends it astray, and when a program has faulted so often that
\* its kernel stack overflows: one that faults for ever gets that far.
EveryProgramRuns ==
  <>(at \in Stuck) \/ \A t \in Tasks : []<>(at \in EL0 /\ current = t)

-----------------------------------------------------------------------------
(* What the repository says of the trap path and the code does not do. *)

\* handlers.c lets a timer interrupt hit EL1 code and just returns to it, and
\* docs.md calls the return the same path "regardless of whether we actually
\* switched": an eret then still reaches the program.
EretReachesUser == at \notin {"strayed", "lost"}

\* vectors.s reserves CTX_SIZE bytes as "the total number of 8 bytes values store
\* in stack": saving a frame leaves the one below as it was.
SavedX0Intact ==
  sysno # NoSyscall /\ at \in {"svc"} \cup Io \cup Unpopped => Saved.x0 = "user"
=============================================================================
