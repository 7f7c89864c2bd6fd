----------------------------- MODULE Scheduler ------------------------------
(***************************************************************************)
(* The round-robin scheduler of src/kernel/core/scheduler/sched.c and the  *)
(* part of kmain.c that sets it up.                                        *)
(*                                                                         *)
(* The run queue is the code's singly linked list: rq.head and rq.tail are *)
(* the static variables rq_head and rq_tail, rq.next the field `next' of   *)
(* each Task.  The task that runs stays ON the list, at its head, and      *)
(* rq_pop returns not the task it removes but the new head, so the order   *)
(* push-then-pop of schedule_on_tick is what keeps the list whole: for a   *)
(* moment it is a cycle.  Task fields live in memory that kmalloc does not *)
(* clear, hence the arbitrary initial values of rq.next.                   *)
(*                                                                         *)
(* A Context is a pointer to a register frame.  Here it is the task whose  *)
(* kernel stack holds the frame and the depth at which it lies.            *)
(***************************************************************************)
EXTENDS Naturals

CONSTANTS NTasks,           \* tasks kmain creates (two in the repository)
          RR_SLICE_TICKS,   \* ticks in a time slice (10 in the repository)
          MaxDepth          \* bound on the depth of a frame on a kernel stack

ASSUME SchedulerAssumption ==
  /\ NTasks \in Nat \ {0}
  /\ RR_SLICE_TICKS \in Nat \ {0}
  /\ MaxDepth \in Nat

Tasks == 1..NTasks
NULL == 0
Contexts == [task : Tasks, depth : 0..MaxDepth]
\* Stands for "no context": the kernel has not entered user mode yet.
NoContext == [task |-> NULL, depth |-> 0]

TaskState == {"UNSET", "READY", "RUNNING"}

VARIABLES
  rq,           \* the run queue: [head, tail, next]
  current,      \* the static variable `current'
  state,        \* Task.state, per task
  slice_left,   \* Task.slice_left, per task
  context,      \* Task.context, per task
  inited,       \* how many calls of init_task kmain has made
  executing     \* the context the CPU was last told to resume at EL0

vars == <<rq, current, state, slice_left, context, inited, executing>>

-----------------------------------------------------------------------------
(* The list operations, on the queue as a value. *)

\* Definitions called ..._<slip> are the definition below them with one slip a
\* change to the code could make; README.md says which property notices it.
RqPush_TailNotMoved(q, t) ==
  IF q.tail = NULL
    THEN [head |-> t, tail |-> t, next |-> q.next]
    ELSE [q EXCEPT !.next = [@ EXCEPT ![q.tail] = t]]

RqPush(q, t) ==
  IF q.tail = NULL
    THEN [head |-> t, tail |-> t, next |-> q.next]
    ELSE [head |-> q.head, tail |-> t, next |-> [q.next EXCEPT ![q.tail] = t]]

\* rq_pop unlinks the head; the task it returns is RqPop(q).head, the new head.
RqPop(q) ==
  IF q.head = NULL
    THEN q
    ELSE LET head == q.next[q.head]
         IN  [head |-> head,
              tail |-> IF head = NULL THEN NULL ELSE q.tail,
              next |-> [q.next EXCEPT ![q.head] = NULL]]

InitialContext(t) == [task |-> t, depth |-> 0]

Init ==
  /\ rq \in [head : {NULL}, tail : {NULL}, next : [Tasks -> Tasks \cup {NULL}]]
  /\ current = NULL
  /\ state = [t \in Tasks |-> "UNSET"]
  /\ slice_left = [t \in Tasks |-> 0]
  /\ context = [t \in Tasks |-> NoContext]
  /\ inited = 0
  /\ executing = NoContext

-----------------------------------------------------------------------------
(* Boot: kmain creates the tasks in the order of their ids, makes the      *)
(* first one current and enters user mode with its context.                *)

SchedReadyEnqueue_ShortSlice(t) ==
  /\ state' = [state EXCEPT ![t] = "READY"]
  /\ slice_left' = [slice_left EXCEPT ![t] = RR_SLICE_TICKS - 1]
  /\ rq' = RqPush(rq, t)

SchedReadyEnqueue(t) ==
  /\ state' = [state EXCEPT ![t] = "READY"]
  /\ slice_left' = [slice_left EXCEPT ![t] = RR_SLICE_TICKS]
  /\ rq' = RqPush(rq, t)

InitTask ==
  /\ inited < NTasks
  /\ inited' = inited + 1
  /\ context' = [context EXCEPT ![inited + 1] = InitialContext(inited + 1)]
  /\ SchedReadyEnqueue(inited + 1)
  /\ UNCHANGED <<current, executing>>

SchedSetCurrent ==
  /\ inited = NTasks
  /\ current = NULL
  /\ current' = 1
  /\ state' = [state EXCEPT ![1] = "RUNNING"]
  /\ UNCHANGED <<rq, slice_left, context, inited, executing>>

FirstUserEnter ==
  /\ current # NULL
  /\ executing = NoContext
  /\ executing' = context[current]
  /\ UNCHANGED <<rq, current, state, slice_left, context, inited>>

-----------------------------------------------------------------------------
(* The timer tick.  tf is the frame the vector code saved. *)

CurrentRuns == current # NULL /\ state[current] = "RUNNING"

KeepCurrent_NoDecrement(tf) ==
  /\ CurrentRuns
  /\ slice_left[current] - 1 > 0
  /\ context' = [context EXCEPT ![current] = tf]
  /\ executing' = tf
  /\ UNCHANGED <<rq, current, state, slice_left>>

KeepCurrent_NeverExpires(tf) ==
  /\ CurrentRuns
  /\ context' = [context EXCEPT ![current] = tf]
  /\ slice_left' = [slice_left EXCEPT ![current] = slice_left[current] - 1]
  /\ executing' = tf
  /\ UNCHANGED <<rq, current, state>>

KeepCurrent(tf) ==
  /\ CurrentRuns
  /\ slice_left[current] - 1 > 0
  /\ context' = [context EXCEPT ![current] = tf]
  /\ slice_left' = [slice_left EXCEPT ![current] = slice_left[current] - 1]
  /\ executing' = tf
  /\ UNCHANGED <<rq, current, state>>

\* The fields of `current' once its slice is used up; untouched otherwise.
Demoted(f, v) == IF CurrentRuns THEN [f EXCEPT ![current] = v] ELSE f

SwitchTask_SavedTooLate(tf) ==
  LET popped == RqPop(RqPush(rq, current))
  IN  /\ slice_left[current] = 1
      /\ context' = [context EXCEPT ![popped.head] = tf]
      /\ slice_left' = [slice_left EXCEPT ![current] = RR_SLICE_TICKS]
      /\ rq' = popped
      /\ state' = [state EXCEPT ![current] = "READY", ![popped.head] = "RUNNING"]
      /\ current' = popped.head
      /\ executing' = context'[popped.head]

SwitchTask_NotDemoted(tf) ==
  LET popped == RqPop(RqPush(rq, current))
  IN  /\ slice_left[current] = 1
      /\ context' = [context EXCEPT ![current] = tf]
      /\ slice_left' = [slice_left EXCEPT ![current] = RR_SLICE_TICKS]
      /\ rq' = popped
      /\ state' = [state EXCEPT ![popped.head] = "RUNNING"]
      /\ current' = popped.head
      /\ executing' = context'[popped.head]

SwitchTask(tf) ==
  LET saved  == Demoted(context, tf)
      ready  == Demoted(state, "READY")
      popped == RqPop(IF CurrentRuns THEN RqPush(rq, current) ELSE rq)
      next   == popped.head
  IN  /\ ~(CurrentRuns /\ slice_left[current] - 1 > 0)
      /\ context' = saved
      /\ slice_left' = Demoted(slice_left, RR_SLICE_TICKS)
      /\ rq' = popped
      /\ IF next = NULL
           THEN /\ state' = ready
                /\ executing' = IF current = NULL THEN tf ELSE saved[current]
                /\ UNCHANGED current
           ELSE /\ state' = [ready EXCEPT ![next] = "RUNNING"]
                /\ current' = next
                /\ executing' = saved[next]

ScheduleOnTick(tf) ==
  /\ KeepCurrent(tf) \/ SwitchTask(tf)
  /\ UNCHANGED inited

\* A timer interrupt taken at EL0 saves its frame on the kernel stack of the
\* task whose context the CPU resumed last.
Tick ==
  /\ executing # NoContext
  /\ \E tf \in Contexts : tf.task = executing.task /\ ScheduleOnTick(tf)

Next == InitTask \/ SchedSetCurrent \/ FirstUserEnter \/ Tick

SafeSpec == Init /\ [][Next]_vars

\* kmain runs to first_user_enter, and set_cntv re-arms the timer on every
\* tick, so neither boot nor the ticks ever stop.
Spec == SafeSpec /\ WF_vars(Next)

-----------------------------------------------------------------------------
(* Properties. *)

Succ(t) == IF t = NTasks THEN 1 ELSE t + 1
Pred(t) == IF t = 1 THEN NTasks ELSE t - 1

TypeOK ==
  /\ rq \in [head : Tasks \cup {NULL}, tail : Tasks \cup {NULL},
             next : [Tasks -> Tasks \cup {NULL}]]
  /\ current \in Tasks \cup {NULL}
  /\ state \in [Tasks -> TaskState]
  /\ slice_left \in [Tasks -> 0..RR_SLICE_TICKS]
  /\ context \in [Tasks -> Contexts \cup {NoContext}]
  /\ inited \in 0..NTasks
  /\ executing \in Contexts \cup {NoContext}

\* sched.c's list holds every created task exactly once, whatever garbage the
\* `next' fields started with and however often schedule_on_tick pushed and
\* popped: from the head the links visit the tasks in creation order, cyclically,
\* and end at the tail.  A lost task would never run again and a repeated one
\* would run twice as often.
QueueSpellsRotation ==
  /\ current = NULL =>
       /\ rq.head = IF inited = 0 THEN NULL ELSE 1
       /\ rq.tail = inited
       /\ \A t \in Tasks : t < inited => rq.next[t] = t + 1
  /\ current # NULL =>
       /\ rq.head = current
       /\ rq.tail = Pred(current)
       /\ \A t \in Tasks : t # rq.tail => rq.next[t] = Succ(t)

\* schedule_on_tick has exactly one RUNNING task, the one whose frame the CPU
\* resumed: the scheduler's idea of who runs never parts from the CPU's, and a
\* task that waits keeps a full slice.
OneRuns ==
  /\ \A t \in Tasks : (state[t] = "RUNNING") <=> (t = current)
  /\ executing # NoContext => executing.task = current
  /\ \A t \in Tasks : state[t] = "READY" => slice_left[t] = RR_SLICE_TICKS

\* schedule_on_tick stores the interrupted frame in current->context: a task is
\* never handed a frame that lies on another task's kernel stack.
FramesOwned ==
  \A t \in Tasks : context[t].task = IF t <= inited THEN t ELSE NULL

\* Every task runs again and again: no order of ticks starves a task.
EveryTaskRuns == \A t \in Tasks : []<>(executing.task = t)

\* sched.c implements strict round robin with a quantum of RR_SLICE_TICKS.
RR == INSTANCE RoundRobin
        WITH Quantum <- RR_SLICE_TICKS,
             turn <- executing.task,
             used <- IF executing = NoContext
                       THEN 0 ELSE RR_SLICE_TICKS - slice_left[executing.task]
ImplementsRoundRobin == RR!Spec
=============================================================================
