----------------------------- MODULE RoundRobin -----------------------------
(***************************************************************************)
(* What the scheduler of src/kernel/core/scheduler promises: tasks run in  *)
(* a fixed cyclic order, each for exactly Quantum timer ticks.  docs.md    *)
(* puts it as "each task gets N timer ticks".  There is no queue here, no  *)
(* Task structure and no saved context: Scheduler.tla shows that the       *)
(* linked list of sched.c implements this.                                 *)
(***************************************************************************)
EXTENDS Naturals

CONSTANTS NTasks,   \* tasks are numbered 1..NTasks, in the order of creation
          Quantum   \* timer ticks in one turn

VARIABLES turn,     \* the task on the CPU; 0 while the kernel boots
          used      \* ticks the task on the CPU has consumed in this turn

vars == <<turn, used>>

Succ(t) == IF t = NTasks THEN 1 ELSE t + 1

Init == turn = 0 /\ used = 0

\* The first task created enters user mode.
Start ==
  /\ turn = 0
  /\ turn' = 1
  /\ UNCHANGED used

\* A tick within the turn.
Stay ==
  /\ turn # 0
  /\ used + 1 < Quantum
  /\ used' = used + 1
  /\ UNCHANGED turn

\* The tick that ends the turn: the next task in the cycle starts a full one.
Rotate ==
  /\ turn # 0
  /\ used + 1 = Quantum
  /\ turn' = Succ(turn)
  /\ used' = 0

Next == Start \/ Stay \/ Rotate

SafeSpec == Init /\ [][Next]_vars

Spec == SafeSpec /\ WF_vars(Next)
=============================================================================
