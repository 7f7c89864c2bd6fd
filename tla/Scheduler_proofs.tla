-------------------------- MODULE Scheduler_proofs --------------------------
(***************************************************************************)
(* Proofs about Scheduler.tla, for every number of tasks and every slice.  *)
(* IInv is the inductive invariant: the properties of Scheduler.tla and    *)
(* the facts about the boot that make them inductive.                      *)
(***************************************************************************)
EXTENDS Scheduler, TLAPS

\* What kmain's order of calls guarantees: a task is set up exactly when
\* init_task was called for it, nothing is current before all are, nothing
\* executes before one is current, and a slice is consumed by ticks only.
BootOrder ==
  /\ \A t \in Tasks : (state[t] = "UNSET") <=> (t > inited)
  /\ current # NULL => inited = NTasks
  /\ current = NULL => executing = NoContext
  /\ executing = NoContext => current \in {NULL, 1}
  /\ \A t \in Tasks : t <= inited => slice_left[t] > 0
  /\ executing = NoContext =>
       \A t \in Tasks : t <= inited => slice_left[t] = RR_SLICE_TICKS

IInv == TypeOK /\ QueueSpellsRotation /\ OneRuns /\ FramesOwned /\ BootOrder

-----------------------------------------------------------------------------
(* The list. *)

\* rq_push followed by rq_pop on a list in rotation order rotates it by one:
\* the cycle that exists between the two calls is cut at the right place.
LEMMA PushPopRotates ==
  ASSUME NEW q \in [head : Tasks, tail : Tasks, next : [Tasks -> Tasks \cup {NULL}]],
         q.tail = Pred(q.head),
         \A t \in Tasks : t # q.tail => q.next[t] = Succ(t)
  PROVE  LET p == RqPop(RqPush(q, q.head))
         IN  /\ p.head = Succ(q.head)
             /\ p.tail = q.head
             /\ p.next \in [Tasks -> Tasks \cup {NULL}]
             /\ p \in [head : Tasks, tail : Tasks, next : [Tasks -> Tasks \cup {NULL}]]
             /\ \A t \in Tasks : t # p.tail => p.next[t] = Succ(t)
  <1> USE SchedulerAssumption DEF Tasks, NULL, Pred, Succ
  <1> DEFINE h == q.head
             c == RqPush(q, h)
             p == RqPop(c)
  <1>1. h \in Tasks /\ q.tail \in Tasks /\ Succ(h) \in Tasks
    OBVIOUS
  <1>2. c = [head |-> h, tail |-> h, next |-> [q.next EXCEPT ![q.tail] = h]]
    BY <1>1 DEF RqPush
  <1>3. /\ c.head = h /\ c.tail = h
        /\ c.next \in [Tasks -> Tasks \cup {NULL}]
        /\ \A t \in Tasks : c.next[t] = Succ(t)
    BY <1>1, <1>2
  <1> HIDE DEF c
  <1>4. p = [head |-> Succ(h), tail |-> h, next |-> [c.next EXCEPT ![h] = NULL]]
    <2>1. c.head # NULL /\ c.next[c.head] = Succ(h) /\ Succ(h) # NULL
      BY <1>1, <1>3
    <2>2. QED
      BY <1>3, <2>1 DEF RqPop
  <1> HIDE DEF p
  <1>5. /\ p.head = Succ(h) /\ p.tail = h
        /\ p.next \in [Tasks -> Tasks \cup {NULL}]
        /\ p \in [head : Tasks, tail : Tasks, next : [Tasks -> Tasks \cup {NULL}]]
        /\ \A t \in Tasks : t # p.tail => p.next[t] = Succ(t)
    BY <1>1, <1>3, <1>4
  <1>6. QED
    BY <1>5 DEF p, c

-----------------------------------------------------------------------------
(* The invariant, one lemma per operation. *)

LEMMA InitInvariant == Init => IInv
  BY SchedulerAssumption
  DEF Init, IInv, TypeOK, QueueSpellsRotation, OneRuns, FramesOwned, BootOrder,
      Tasks, NULL, NoContext, TaskState

\* init_task appends the task to the list and gives it a full slice.
LEMMA InitTaskInvariant == IInv /\ InitTask => IInv'
  <1> SUFFICES ASSUME IInv, InitTask PROVE IInv'
    OBVIOUS
  <1> USE SchedulerAssumption DEF Tasks, NULL
  <1> DEFINE n == inited + 1
  <1>1. n \in Tasks /\ current = NULL /\ executing = NoContext
    BY DEF IInv, InitTask, BootOrder, TypeOK
  <1>2. rq' = [head |-> 1, tail |-> n,
               next |-> IF inited = 0 THEN rq.next
                                      ELSE [rq.next EXCEPT ![inited] = n]]
    <2>1. rq = [head |-> rq.head, tail |-> rq.tail, next |-> rq.next]
      BY DEF IInv, TypeOK
    <2>2. rq' = RqPush(rq, n)
      BY DEF InitTask, SchedReadyEnqueue
    <2>3. /\ rq.head = IF inited = 0 THEN NULL ELSE 1
          /\ rq.tail = inited
      BY <1>1 DEF IInv, QueueSpellsRotation
    <2>4. CASE inited = 0
      BY <2>1, <2>2, <2>3, <2>4 DEF RqPush
    <2>5. CASE inited # 0
      BY <2>1, <2>2, <2>3, <2>5 DEF RqPush
    <2>6. QED
      BY <2>4, <2>5
  <1>3. /\ state' = [state EXCEPT ![n] = "READY"]
        /\ slice_left' = [slice_left EXCEPT ![n] = RR_SLICE_TICKS]
        /\ context' = [context EXCEPT ![n] = [task |-> n, depth |-> 0]]
        /\ inited' = n /\ current' = NULL /\ executing' = NoContext
    BY <1>1 DEF InitTask, SchedReadyEnqueue, InitialContext
  <1>4. TypeOK'
    <2>1. rq' \in [head : Tasks \cup {NULL}, tail : Tasks \cup {NULL},
                   next : [Tasks -> Tasks \cup {NULL}]]
      BY <1>1, <1>2 DEF IInv, TypeOK
    <2>2. state' \in [Tasks -> TaskState] /\ slice_left' \in [Tasks -> 0..RR_SLICE_TICKS]
      BY <1>1, <1>3 DEF IInv, TypeOK, TaskState
    <2>3. context' \in [Tasks -> Contexts \cup {NoContext}]
      BY <1>1, <1>3 DEF IInv, TypeOK, Contexts
    <2>4. QED
      BY <1>1, <1>3, <2>1, <2>2, <2>3 DEF TypeOK
  <1>5. QueueSpellsRotation'
    <2>1. rq'.head = 1 /\ rq'.tail = n
      BY <1>2
    <2>2. CASE inited = 0
      BY <1>1, <1>3, <2>1, <2>2 DEF QueueSpellsRotation
    <2>3. CASE inited # 0
      <3>1. rq'.next = [rq.next EXCEPT ![inited] = n] /\ inited \in Tasks
        BY <1>1, <1>2, <2>3 DEF IInv, TypeOK
      <3>2. \A t \in Tasks : t < inited => rq.next[t] = t + 1
        BY <1>1 DEF IInv, QueueSpellsRotation
      <3>3. rq.next \in [Tasks -> Tasks \cup {NULL}]
        BY DEF IInv, TypeOK
      <3>4. \A t \in Tasks : t < n => rq'.next[t] = t + 1
        BY <1>1, <3>1, <3>2, <3>3
      <3>5. QED
        BY <1>1, <1>3, <2>1, <3>4 DEF QueueSpellsRotation
    <2>4. QED
      BY <2>2, <2>3
  <1>6. OneRuns'
    BY <1>1, <1>3 DEF IInv, TypeOK, OneRuns, NoContext
  <1>7. FramesOwned'
    BY <1>1, <1>3 DEF IInv, TypeOK, FramesOwned
  <1>8. BootOrder'
    BY <1>1, <1>3 DEF IInv, TypeOK, BootOrder
  <1>9. QED
    BY <1>4, <1>5, <1>6, <1>7, <1>8 DEF IInv

LEMMA SchedSetCurrentInvariant == IInv /\ SchedSetCurrent => IInv'
  <1> SUFFICES ASSUME IInv, SchedSetCurrent PROVE IInv'
    OBVIOUS
  <1> USE SchedulerAssumption DEF Tasks, NULL, IInv, SchedSetCurrent
  <1>1. TypeOK'
    BY DEF TypeOK, TaskState
  <1>2. QueueSpellsRotation'
    BY DEF TypeOK, QueueSpellsRotation, Pred, Succ
  <1>3. OneRuns'
    BY DEF TypeOK, OneRuns, BootOrder, NoContext
  <1>4. FramesOwned'
    BY DEF FramesOwned
  <1>5. BootOrder'
    BY DEF TypeOK, BootOrder
  <1>6. QED
    BY <1>1, <1>2, <1>3, <1>4, <1>5

LEMMA FirstUserEnterInvariant == IInv /\ FirstUserEnter => IInv'
  <1> SUFFICES ASSUME IInv, FirstUserEnter PROVE IInv'
    OBVIOUS
  <1> USE SchedulerAssumption DEF Tasks, NULL, IInv, FirstUserEnter
  <1>1. context[current].task = current /\ current \in Tasks
    BY DEF TypeOK, FramesOwned, BootOrder
  <1>2. TypeOK'
    BY <1>1 DEF TypeOK
  <1>3. QueueSpellsRotation' /\ FramesOwned'
    BY DEF QueueSpellsRotation, FramesOwned
  <1>4. OneRuns'
    BY <1>1 DEF TypeOK, OneRuns, NoContext
  <1>5. BootOrder'
    BY <1>1 DEF TypeOK, BootOrder, NoContext
  <1>6. QED
    BY <1>2, <1>3, <1>4, <1>5

\* A tick inside the slice.
LEMMA KeepCurrentInvariant ==
  ASSUME IInv, executing # NoContext, NEW tf \in Contexts, tf.task = executing.task,
         KeepCurrent(tf), UNCHANGED inited
  PROVE  IInv'
  <1> USE SchedulerAssumption DEF Tasks, NULL, IInv, KeepCurrent, CurrentRuns
  <1>1. current \in Tasks /\ tf.task = current /\ tf # NoContext
    BY DEF TypeOK, OneRuns, NoContext
  <1>2. slice_left[current] - 1 \in 1..RR_SLICE_TICKS
    BY <1>1 DEF TypeOK
  <1>3. TypeOK'
    BY <1>1, <1>2 DEF TypeOK
  <1>4. QueueSpellsRotation'
    BY DEF QueueSpellsRotation
  <1>5. OneRuns'
    BY <1>1 DEF TypeOK, OneRuns
  <1>6. FramesOwned'
    BY <1>1 DEF TypeOK, FramesOwned, BootOrder
  <1>7. BootOrder'
    BY <1>1, <1>2 DEF TypeOK, BootOrder
  <1>8. QED
    BY <1>3, <1>4, <1>5, <1>6, <1>7

\* What the tick that ends a slice does, once the queue is known to be whole.
LEMMA SwitchTaskEffect ==
  ASSUME IInv, executing # NoContext, NEW tf \in Contexts, tf.task = executing.task,
         SwitchTask(tf)
  PROVE  /\ current \in Tasks /\ tf.task = current
         /\ slice_left[current] = 1
         /\ context' = [context EXCEPT ![current] = tf]
         /\ slice_left' = [slice_left EXCEPT ![current] = RR_SLICE_TICKS]
         /\ state' = [[state EXCEPT ![current] = "READY"]
                         EXCEPT ![Succ(current)] = "RUNNING"]
         /\ current' = Succ(current)
         /\ executing' = context'[Succ(current)]
         /\ rq' = RqPop(RqPush(rq, current))
         /\ rq'.head = Succ(current)
  <1> USE SchedulerAssumption DEF Tasks, NULL
  <1>1. current \in Tasks /\ tf.task = current /\ CurrentRuns
    BY DEF IInv, TypeOK, OneRuns, BootOrder, NoContext, CurrentRuns
  <1>2. slice_left[current] = 1
    BY <1>1 DEF IInv, TypeOK, BootOrder, SwitchTask, CurrentRuns
  <1>3. RqPop(RqPush(rq, current)).head = Succ(current)
    <2>1. /\ rq.head = current /\ rq.tail = Pred(current)
          /\ \A t \in Tasks : t # rq.tail => rq.next[t] = Succ(t)
      BY <1>1 DEF IInv, QueueSpellsRotation
    <2>2. rq \in [head : Tasks, tail : Tasks, next : [Tasks -> Tasks \cup {NULL}]]
      BY <1>1, <2>1 DEF IInv, TypeOK, Pred
    <2>3. QED
      BY <2>1, <2>2, PushPopRotates
  <1>4. Succ(current) # NULL
    BY <1>1 DEF Succ
  <1>5. QED
    BY <1>1, <1>2, <1>3, <1>4 DEF SwitchTask, Demoted

LEMMA SwitchTaskInvariant ==
  ASSUME IInv, executing # NoContext, NEW tf \in Contexts, tf.task = executing.task,
         SwitchTask(tf), UNCHANGED inited
  PROVE  IInv'
  <1> USE SchedulerAssumption DEF Tasks, NULL
  <1> DEFINE c == current
             n == Succ(current)
  <1>1. /\ c \in Tasks /\ tf.task = c
        /\ context' = [context EXCEPT ![c] = tf]
        /\ slice_left' = [slice_left EXCEPT ![c] = RR_SLICE_TICKS]
        /\ state' = [[state EXCEPT ![c] = "READY"] EXCEPT ![n] = "RUNNING"]
        /\ current' = n
        /\ executing' = context'[n]
        /\ rq' = RqPop(RqPush(rq, c))
        /\ rq'.head = n
    BY SwitchTaskEffect
  <1>2. n \in Tasks /\ Pred(n) = c /\ inited = NTasks
    BY <1>1 DEF Succ, Pred, IInv, BootOrder
  <1>3. /\ rq' \in [head : Tasks, tail : Tasks, next : [Tasks -> Tasks \cup {NULL}]]
        /\ rq'.tail = c
        /\ \A t \in Tasks : t # rq'.tail => rq'.next[t] = Succ(t)
    <2>1. /\ rq.head = c /\ rq.tail = Pred(c)
          /\ \A t \in Tasks : t # rq.tail => rq.next[t] = Succ(t)
      BY <1>1 DEF IInv, QueueSpellsRotation
    <2>2. rq \in [head : Tasks, tail : Tasks, next : [Tasks -> Tasks \cup {NULL}]]
      BY <1>1, <2>1 DEF IInv, TypeOK, Pred
    <2>3. QED
      BY <1>1, <2>1, <2>2, PushPopRotates
  <1>4. /\ context \in [Tasks -> Contexts \cup {NoContext}]
        /\ context'[n].task = n
    BY <1>1, <1>2 DEF IInv, TypeOK, FramesOwned
  <1>5. executing' \in Contexts
    BY <1>1, <1>2, <1>4 DEF NoContext
  <1>6. TypeOK'
    BY <1>1, <1>2, <1>3, <1>5 DEF IInv, TypeOK, TaskState
  <1>7. QueueSpellsRotation'
    BY <1>1, <1>2, <1>3 DEF QueueSpellsRotation
  <1>8. OneRuns'
    BY <1>1, <1>2, <1>4 DEF IInv, TypeOK, OneRuns
  <1>9. FramesOwned'
    BY <1>1, <1>2 DEF IInv, TypeOK, FramesOwned
  <1>10. BootOrder'
    <2>1. executing' # NoContext
      BY <1>5 DEF Contexts, NoContext
    <2>2. \A t \in Tasks : state'[t] # "UNSET" /\ slice_left'[t] > 0
      BY <1>1, <1>2 DEF IInv, TypeOK, BootOrder
    <2>3. current' # NULL /\ inited' = NTasks
      BY <1>1, <1>2
    <2>4. QED
      BY <2>1, <2>2, <2>3 DEF BootOrder
  <1>11. QED
    BY <1>6, <1>7, <1>8, <1>9, <1>10 DEF IInv

LEMMA InductiveStep == IInv /\ [Next]_vars => IInv'
  <1> SUFFICES ASSUME IInv, [Next]_vars PROVE IInv'
    OBVIOUS
  <1>1. CASE InitTask
    BY <1>1, InitTaskInvariant
  <1>2. CASE SchedSetCurrent
    BY <1>2, SchedSetCurrentInvariant
  <1>3. CASE FirstUserEnter
    BY <1>3, FirstUserEnterInvariant
  <1>4. CASE Tick
    <2>1. PICK tf \in Contexts : tf.task = executing.task /\ ScheduleOnTick(tf)
      BY <1>4 DEF Tick
    <2>2. executing # NoContext
      BY <1>4 DEF Tick
    <2>3. QED
      BY <2>1, <2>2, KeepCurrentInvariant, SwitchTaskInvariant DEF ScheduleOnTick
  <1>5. CASE UNCHANGED vars
    BY <1>5 DEF vars, IInv, TypeOK, QueueSpellsRotation, OneRuns, FramesOwned,
                BootOrder
  <1>6. QED
    BY <1>1, <1>2, <1>3, <1>4, <1>5 DEF Next

LEMMA Invariance == SafeSpec => []IInv
  BY InitInvariant, InductiveStep, PTL DEF SafeSpec

-----------------------------------------------------------------------------
(* The theorems. *)

\* The variables of sched.c keep their types: in particular slice_left never
\* goes below zero and no link leaves the set of tasks.
THEOREM TypeCorrect == Spec => []TypeOK
  <1>1. IInv => TypeOK
    BY DEF IInv
  <1>2. QED
    BY <1>1, Invariance, PTL DEF Spec

\* The run queue never loses or repeats a task, for any number of tasks and
\* whatever the uninitialised `next' fields held.
THEOREM QueueCorrect == Spec => []QueueSpellsRotation
  <1>1. IInv => QueueSpellsRotation
    BY DEF IInv
  <1>2. QED
    BY <1>1, Invariance, PTL DEF Spec

\* Exactly the task the CPU executes is RUNNING.
THEOREM ExactlyOneRuns == Spec => []OneRuns
  <1>1. IInv => OneRuns
    BY DEF IInv
  <1>2. QED
    BY <1>1, Invariance, PTL DEF Spec

\* A task is only ever resumed with a frame on its own kernel stack.
THEOREM FramesStayHome == Spec => []FramesOwned
  <1>1. IInv => FramesOwned
    BY DEF IInv
  <1>2. QED
    BY <1>1, Invariance, PTL DEF Spec

-----------------------------------------------------------------------------
(* Refinement: every step of sched.c is a step of RoundRobin or a stutter. *)

LEMMA InitRefines == Init => RR!Init
  BY DEF Init, RR!Init, NoContext, NULL

LEMMA StepRefines == IInv /\ IInv' /\ [Next]_vars => [RR!Next]_RR!vars
  <1> SUFFICES ASSUME IInv, IInv', [Next]_vars PROVE [RR!Next]_RR!vars
    OBVIOUS
  <1> USE SchedulerAssumption DEF Tasks, NULL, RR!vars
  <1>1. CASE InitTask
    <2>1. executing = NoContext /\ executing' = NoContext
      BY <1>1 DEF IInv, BootOrder, InitTask
    <2>2. QED
      BY <2>1
  <1>2. CASE SchedSetCurrent
    <2>1. executing = NoContext /\ executing' = NoContext
      BY <1>2 DEF IInv, BootOrder, SchedSetCurrent
    <2>2. QED
      BY <2>1
  <1>3. CASE FirstUserEnter
    <2>1. executing = NoContext /\ current = 1 /\ executing' = context[1]
      BY <1>3 DEF IInv, BootOrder, FirstUserEnter
    <2>2. executing'.task = 1 /\ executing' # NoContext
      BY <2>1 DEF IInv, TypeOK, FramesOwned, BootOrder, NoContext
    <2>3. slice_left'[1] = RR_SLICE_TICKS
      BY <1>3, <2>1 DEF IInv, BootOrder, FirstUserEnter
    <2>4. RR!Start
      BY <2>1, <2>2, <2>3 DEF RR!Start, NoContext
    <2>5. QED
      BY <2>4 DEF RR!Next
  <1>4. CASE Tick
    <2>1. executing # NoContext
      BY <1>4 DEF Tick
    <2>2. PICK tf \in Contexts : tf.task = executing.task /\ ScheduleOnTick(tf)
      BY <1>4 DEF Tick
    <2>3. current \in Tasks /\ executing.task = current /\ tf.task = current
      BY <2>1, <2>2 DEF IInv, TypeOK, OneRuns, NoContext, BootOrder
    <2>4. CASE KeepCurrent(tf)
      <3>1. executing' = tf /\ tf # NoContext
        BY <2>3, <2>4 DEF KeepCurrent, NoContext
      <3>2. /\ slice_left[current] \in 2..RR_SLICE_TICKS
            /\ slice_left'[current] = slice_left[current] - 1
        BY <2>3, <2>4 DEF IInv, TypeOK, KeepCurrent
      <3>3. RR!Stay
        BY <2>1, <2>3, <3>1, <3>2 DEF RR!Stay
      <3>4. QED
        BY <3>3 DEF RR!Next
    <2>5. CASE SwitchTask(tf)
      <3> DEFINE n == Succ(current)
      <3>1. /\ slice_left[current] = 1
            /\ slice_left' = [slice_left EXCEPT ![current] = RR_SLICE_TICKS]
            /\ state' = [[state EXCEPT ![current] = "READY"] EXCEPT ![n] = "RUNNING"]
            /\ current' = n
            /\ executing' = context'[n]
        BY <2>1, <2>2, <2>5, SwitchTaskEffect
      <3>2. n \in Tasks /\ n = RR!Succ(current) /\ inited' = NTasks
        <4>1. inited = NTasks /\ inited' = inited
          BY <2>2, <2>3 DEF IInv, BootOrder, ScheduleOnTick
        <4>2. QED
          BY <2>3, <4>1 DEF Succ, RR!Succ
      <3>3. executing'.task = n /\ executing' # NoContext
        BY <3>1, <3>2 DEF IInv, FramesOwned, NoContext
      <3>4. slice_left'[n] = RR_SLICE_TICKS
        <4>1. CASE n = current
          BY <3>1, <3>2, <4>1, <2>3 DEF IInv, TypeOK
        <4>2. CASE n # current
          <5>1. state[n] = "READY"
            BY <2>3, <3>2, <4>2 DEF IInv, TypeOK, TaskState, OneRuns, BootOrder
          <5>2. QED
            BY <3>1, <3>2, <4>2, <5>1 DEF IInv, TypeOK, OneRuns
        <4>3. QED
          BY <4>1, <4>2
      <3>5. RR!Rotate
        BY <2>1, <2>3, <3>1, <3>2, <3>3, <3>4 DEF RR!Rotate
      <3>6. QED
        BY <3>5 DEF RR!Next
    <2>6. QED
      BY <2>2, <2>4, <2>5 DEF ScheduleOnTick
  <1>5. CASE UNCHANGED vars
    BY <1>5 DEF vars
  <1>6. QED
    BY <1>1, <1>2, <1>3, <1>4, <1>5 DEF Next

\* sched.c implements strict round robin: the cyclic order of the tasks and the
\* length of every turn are those of RoundRobin (its safety part; that the
\* ticks go on is an assumption about the timer).
THEOREM RefinesRoundRobin == Spec => RR!SafeSpec
  BY InitRefines, StepRefines, Invariance, PTL DEF Spec, SafeSpec, RR!SafeSpec

-----------------------------------------------------------------------------
(* Bounded waiting: how many ticks a ready task still has to wait, which   *)
(* says without fairness what EveryTaskRuns says with it.                  *)

\* How far the cyclic order of the tasks has to advance from `current' to t.
Distance(t) == IF current <= t THEN t - current ELSE t + NTasks - current

\* The rest of the running slice, then a full slice for every task in between.
TicksToTurn(t) ==
  IF t = current
    THEN 0
    ELSE slice_left[current] + (Distance(t) - 1) * RR_SLICE_TICKS

LongestWait == (NTasks - 1) * RR_SLICE_TICKS

WaitBounded ==
  executing # NoContext =>
    \A t \in Tasks : /\ TicksToTurn(t) \in 0..LongestWait
                     /\ TicksToTurn(t) = 0 <=> executing.task = t

WaitStep ==
  executing # NoContext =>
    \A t \in Tasks :
      /\ t # current => TicksToTurn(t)' = TicksToTurn(t) - 1
      /\ t = current /\ t # current' => TicksToTurn(t)' = LongestWait

\* Whole slices, one at a time: what the provers need of the product.
LEMMA Slices ==
  ASSUME NEW d \in Nat \ {0}
  PROVE  /\ (d - 1) * RR_SLICE_TICKS \in Nat
         /\ RR_SLICE_TICKS + (d - 1) * RR_SLICE_TICKS = d * RR_SLICE_TICKS
         /\ d <= NTasks - 1 => d * RR_SLICE_TICKS <= LongestWait
  <1> DEFINE R == RR_SLICE_TICKS
  <1>1. R \in Nat /\ NTasks \in Nat
    BY SchedulerAssumption
  <1>2. (d - 1) * R \in Nat
    BY <1>1
  <1>3. R + (d - 1) * R = d * R
    BY <1>1
  <1>4. ASSUME d <= NTasks - 1 PROVE d * R <= (NTasks - 1) * R
    <2> DEFINE e == (NTasks - 1) - d
    <2>1. e \in Nat /\ NTasks - 1 = d + e
      BY <1>1, <1>4
    <2>2. e * R \in Nat
      BY <1>1, <2>1
    <2>3. (d + e) * R = d * R + e * R
      BY <1>1, <2>1
    <2>4. QED
      BY <1>1, <2>1, <2>2, <2>3
  <1>5. QED
    BY <1>2, <1>3, <1>4 DEF LongestWait

\* Once user mode has been entered, the state the waits are computed from.
LEMMA Waiting ==
  ASSUME IInv, executing # NoContext
  PROVE  /\ current \in Tasks /\ executing.task = current
         /\ slice_left \in [Tasks -> 1..RR_SLICE_TICKS]
         /\ \A t \in Tasks \ {current} : /\ Distance(t) \in 1..(NTasks - 1)
                                         /\ slice_left[t] = RR_SLICE_TICKS
  <1> USE SchedulerAssumption DEF Tasks, NULL
  <1>1. current \in Tasks /\ executing.task = current /\ inited = NTasks
    BY DEF IInv, TypeOK, OneRuns, BootOrder
  <1>2. slice_left \in [Tasks -> 1..RR_SLICE_TICKS]
    BY <1>1 DEF IInv, TypeOK, BootOrder
  <1>3. ASSUME NEW t \in Tasks \ {current}
        PROVE  Distance(t) \in 1..(NTasks - 1) /\ slice_left[t] = RR_SLICE_TICKS
    <2>1. Distance(t) \in 1..(NTasks - 1)
      BY <1>1, <1>3 DEF Distance
    <2>2. state[t] = "READY"
      BY <1>1, <1>3 DEF IInv, TypeOK, TaskState, OneRuns, BootOrder
    <2>3. QED
      BY <2>1, <2>2 DEF IInv, OneRuns
  <1>4. QED
    BY <1>1, <1>2, <1>3

LEMMA WaitsAreBounded == IInv => WaitBounded
  <1> SUFFICES ASSUME IInv, executing # NoContext, NEW t \in Tasks
               PROVE  /\ TicksToTurn(t) \in 0..LongestWait
                      /\ TicksToTurn(t) = 0 <=> executing.task = t
    BY DEF WaitBounded
  <1> DEFINE R == RR_SLICE_TICKS
             d == Distance(t)
  <1>1. current \in Tasks /\ executing.task = current /\ slice_left[current] \in 1..R
    BY Waiting
  <1>2. LongestWait \in Nat
    BY SchedulerAssumption, Slices DEF LongestWait
  <1>3. CASE t = current
    BY <1>1, <1>2, <1>3 DEF TicksToTurn
  <1>4. CASE t # current
    <2>1. d \in Nat \ {0} /\ d <= NTasks - 1
      BY <1>4, Waiting, SchedulerAssumption
    <2> HIDE DEF d
    <2>2. /\ (d - 1) * R \in Nat
          /\ R + (d - 1) * R <= LongestWait
      BY <2>1, Slices
    <2>3. TicksToTurn(t) = slice_left[current] + (d - 1) * R
      BY <1>4 DEF TicksToTurn, d
    <2>4. QED
      BY <1>1, <1>2, <1>4, <2>2, <2>3, SchedulerAssumption
  <1>5. QED
    BY <1>3, <1>4

\* Every tick brings every waiting task one tick nearer, and the task it takes
\* off the CPU waits for exactly one slice of each of the others.
LEMMA TickCountsDown == IInv /\ IInv' /\ [Next]_vars => [WaitStep]_vars
  <1> SUFFICES ASSUME IInv, IInv', [Next]_vars, vars' # vars, executing # NoContext
               PROVE  \A t \in Tasks :
                        /\ t # current => TicksToTurn(t)' = TicksToTurn(t) - 1
                        /\ t = current /\ t # current'
                             => TicksToTurn(t)' = LongestWait
    BY DEF WaitStep
  <1> USE DEF Tasks, NULL
  <1> DEFINE R == RR_SLICE_TICKS
  <1>1. /\ current \in Tasks /\ executing.task = current /\ inited = NTasks
        /\ slice_left \in [Tasks -> 1..R]
        /\ \A t \in Tasks \ {current} : /\ Distance(t) \in 1..(NTasks - 1)
                                        /\ slice_left[t] = R
    BY Waiting, SchedulerAssumption DEF IInv, BootOrder
  <1>2. Tick
    BY <1>1, SchedulerAssumption
    DEF Next, InitTask, SchedSetCurrent, FirstUserEnter
  <1>3. PICK tf \in Contexts : tf.task = executing.task /\ ScheduleOnTick(tf)
    BY <1>2 DEF Tick
  <1>4. CASE KeepCurrent(tf)
    <2>1. /\ current' = current
          /\ slice_left'[current] = slice_left[current] - 1
      BY <1>1, <1>4 DEF KeepCurrent
    <2>2. ASSUME NEW t \in Tasks \ {current}
          PROVE  TicksToTurn(t)' = TicksToTurn(t) - 1
      <3> DEFINE between == (Distance(t) - 1) * R
      <3>1. between \in Nat
        <4>1. Distance(t) \in Nat \ {0}
          BY <1>1
        <4>2. QED
          BY <4>1, Slices
      <3>2. Distance(t)' = Distance(t)
        BY <2>1 DEF Distance
      <3>3. /\ TicksToTurn(t) = slice_left[current] + between
            /\ TicksToTurn(t)' = slice_left'[current] + between
        BY <2>1, <2>2, <3>2 DEF TicksToTurn
      <3> HIDE DEF between
      <3>4. slice_left[current] \in Nat
        BY <1>1, SchedulerAssumption
      <3>5. QED
        BY <2>1, <3>1, <3>3, <3>4
    <2>3. QED
      BY <2>1, <2>2
  <1>5. CASE SwitchTask(tf)
    <2> DEFINE n == Succ(current)
    <2>1. /\ slice_left[current] = 1
          /\ slice_left' = [slice_left EXCEPT ![current] = R]
          /\ current' = n
      BY <1>2, <1>3, <1>5, SwitchTaskEffect DEF Tick
    <2>2. n \in Tasks /\ slice_left'[n] = R
      BY <1>1, <2>1, SchedulerAssumption DEF Succ
    <2>3. ASSUME NEW t \in Tasks \ {current}
          PROVE  TicksToTurn(t)' = TicksToTurn(t) - 1
      <3> DEFINE d == Distance(t)
      <3>1. d \in 1..(NTasks - 1)
        BY <1>1
      <3>2. TicksToTurn(t) = 1 + (d - 1) * R
        BY <2>1 DEF TicksToTurn
      <3>3. CASE t = n
        <4>1. d = 1
          BY <1>1, <3>3, SchedulerAssumption DEF Distance, Succ
        <4>2. TicksToTurn(t)' = 0
          BY <2>1, <3>3 DEF TicksToTurn
        <4> HIDE DEF d
        <4>3. (d - 1) * R = 0
          BY <4>1, SchedulerAssumption
        <4>4. QED
          BY <3>2, <4>2, <4>3
      <3>4. CASE t # n
        <4>1. Distance(t)' = d - 1 /\ d - 1 \in Nat \ {0}
          BY <1>1, <2>1, <3>4, SchedulerAssumption DEF Distance, Succ
        <4>2. TicksToTurn(t)' = R + ((d - 1) - 1) * R
          BY <2>1, <2>2, <3>4, <4>1 DEF TicksToTurn
        <4> HIDE DEF d
        <4>3. TicksToTurn(t)' = (d - 1) * R /\ (d - 1) * R \in Nat
          BY <3>1, <4>1, <4>2, Slices, SchedulerAssumption
        <4>4. QED
          BY <3>2, <4>3
      <3>5. QED
        BY <3>3, <3>4
    <2>4. ASSUME NEW t \in Tasks, t = current, t # current'
          PROVE  TicksToTurn(t)' = LongestWait
      <3> DEFINE d == NTasks - 1
      <3>1. Distance(t)' = d /\ d \in Nat \ {0}
        BY <1>1, <2>1, <2>4, SchedulerAssumption DEF Distance, Succ
      <3>2. TicksToTurn(t)' = R + (d - 1) * R
        BY <2>1, <2>2, <2>4, <3>1 DEF TicksToTurn
      <3>3. LongestWait = d * R
        BY DEF LongestWait
      <3> HIDE DEF d
      <3>4. QED
        BY <3>1, <3>2, <3>3, Slices
    <2>5. QED
      BY <2>3, <2>4
  <1>6. QED
    BY <1>3, <1>4, <1>5 DEF ScheduleOnTick

\* No task waits longer than one slice of each of the others, and a task whose
\* wait is over is the one the CPU executes.
THEOREM WaitIsBounded == Spec => []WaitBounded
  BY WaitsAreBounded, Invariance, PTL DEF Spec

\* The wait of every task that waits falls by one at every tick, so the bound is
\* met tick by tick and not only in the long run: with ticks, no task starves.
THEOREM WaitCountsDown == Spec => [][WaitStep]_vars
  BY TickCountsDown, Invariance, PTL DEF Spec, SafeSpec
=============================================================================
