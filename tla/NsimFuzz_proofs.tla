-------------------------- MODULE NsimFuzz_proofs --------------------------
(***************************************************************************)
(* Proofs about NsimFuzz.tla: for inputs of any length, any left-over      *)
(* devices and any interleaving of the two threads.                        *)
(***************************************************************************)
EXTENDS NsimFuzz, WellFoundedInduction, TLAPS

Deletes == {"DEL", "DOUBLE_DEL"}
LinkStates == {"absent", "down", "up"}
Slices == [at : Nat, step : {"op", "act", "new", "look again", "again", "ended"},
           ifn : Ids \cup {None}]
Ended(t) == thread[t].step = "ended"

\* The ranges of the variables.
NTyped ==
    /\ pc \in {"idle", "build", "join", "free", "returned"}
    /\ pc # "idle" => data \in [first : Data0, ops : Seq(Ops)]
    /\ seq \in Seq(Ops) /\ slots \in Nat
    /\ thread \in [Threads -> Slices]
    /\ link \in [Ids -> LinkStates]

\* How much of the list there is, and that there is room for its ending.
ListBuilt ==
    /\ pc \in {"idle", "returned"} => seq = << >>
    /\ pc = "build" => Len(seq) \in 1 .. Count /\ slots = Count + 3
    /\ pc \in {"join", "free"} =>
          Len(seq) \in 1 .. slots /\ seq[Len(seq)] \in Deletes

\* A thread that has not ended is within the list, at a step of its operation.
ThreadsInList ==
    /\ pc # "join" => \A t \in Threads : Ended(t)
    /\ \A t \in Threads : ~Ended(t) =>
          /\ thread[t].at \in 1 .. Len(seq)
          /\ thread[t].step = "act" => Op(t) \notin Deletes

\* Whoever ends last has just deleted the device.
LastDeletes ==
    pc \in {"join", "free", "returned"} /\ (\A t \in Threads : Ended(t)) => link[Id] = "absent"

NInv == NTyped /\ ListBuilt /\ ThreadsInList /\ LastDeletes

-----------------------------------------------------------------------------
(* The builder of the list. *)

\* The first byte of an input, and what the fuzzer reads off it, are numbers in
\* the ranges the arrays have.
LEMMA FirstByte ==
  ASSUME NEW d \in Data0
  PROVE  d \in Nat /\ d % 24 \in 0 .. 23
  <1>1. Data0 \subseteq 0 .. 255
    BY NsimFuzzAssumption
  <1>2. d \in 0 .. 255
    BY <1>1
  <1>3. d \in Nat
    BY <1>2
  <1>4. d % 24 \in 0 .. 23
    BY <1>3
  <1>5. QED
    BY <1>3, <1>4

\* Between one and twenty-four operations, on a device that can be left over.
LEMMA CountBounds ==
  ASSUME data \in [first : Data0, ops : Seq(Ops)]
  PROVE  Count \in 1 .. 24 /\ Count \in Nat /\ Id \in Ids
  <1>1. data.first \in Data0
    OBVIOUS
  <1>2. Count \in 1 .. 24
    <2>1. data.first % 24 \in 0 .. 23
      BY <1>1, FirstByte
    <2>2. \A n \in 0 .. 23 : 1 + n \in 1 .. 24
      OBVIOUS
    <2>3. QED
      BY <2>1, <2>2 DEF Count
  <1>3. Count \in Nat
    BY <1>2
  <1>4. QED
    BY <1>1, <1>2, <1>3 DEF Ids, Id

\* Before the first input there is no list, and both threads have ended.
LEMMA InitInvariant == Init => NInv
  <1> SUFFICES ASSUME Init PROVE NInv
    OBVIOUS
  <1>1. NTyped
    <2>1. thread \in [Threads -> Slices]
      BY DEF Init, Slices
    <2>2. link \in [Ids -> LinkStates]
      BY DEF Init, LinkStates
    <2>3. QED
      BY <2>1, <2>2 DEF Init, NTyped
  <1>2. ThreadsInList
    BY DEF Init, ThreadsInList, Ended
  <1>3. QED
    BY <1>1, <1>2 DEF Init, NInv, ListBuilt, LastDeletes

\* CREATE is in the list, in which there is room for what is to come.
LEMMA BeginInvariant == NInv /\ Begin => NInv'
  <1> SUFFICES ASSUME NInv, Begin PROVE NInv'
    OBVIOUS
  <1>1. /\ data' \in [first : Data0, ops : UNION {[1 .. n -> Ops] : n \in 0 .. MaxOps}]
        /\ slots' = 1 + (data'.first % 24) + 3 /\ seq' = <<"CREATE">> /\ pc' = "build"
        /\ UNCHANGED <<thread, link>> /\ pc = "idle"
    BY DEF Begin
  <1>2. data' \in [first : Data0, ops : Seq(Ops)]
    <2>1. data'.ops \in Seq(Ops)
      BY <1>1, NsimFuzzAssumption
    <2>2. QED
      BY <1>1, <2>1
  <1>3. Count' \in 1 .. 24 /\ slots' = Count' + 3
    <2>1. data'.first \in Data0
      BY <1>2
    <2>2. data'.first % 24 \in 0 .. 23
      BY <2>1, FirstByte
    <2>3. \A n \in 0 .. 23 : 1 + n \in 1 .. 24
      OBVIOUS
    <2>4. QED
      BY <1>1, <2>2, <2>3 DEF Count
  <1>4. NTyped'
    BY <1>1, <1>2, <1>3 DEF NInv, NTyped, Ops
  <1>5. ListBuilt' /\ ThreadsInList' /\ LastDeletes'
    BY <1>1, <1>3 DEF NInv, ListBuilt, ThreadsInList, LastDeletes, Ended
  <1>6. QED
    BY <1>4, <1>5 DEF NInv

\* There are at most Count operations before the ending.
LEMMA BuildOpInvariant == NInv /\ BuildOp => NInv'
  <1> SUFFICES ASSUME NInv, BuildOp PROVE NInv'
    OBVIOUS
  <1> DEFINE op == data.ops[Len(seq)]
  <1>1. /\ pc = "build" /\ Len(seq) <= Len(data.ops) /\ Len(seq) < Count
        /\ seq' = Append(seq, op)
        /\ UNCHANGED <<pc, data, slots, thread, link>>
    BY DEF BuildOp
  <1>2. /\ data \in [first : Data0, ops : Seq(Ops)] /\ seq \in Seq(Ops)
        /\ Len(seq) \in 1 .. Count /\ slots = Count + 3
    BY <1>1 DEF NInv, NTyped, ListBuilt
  <1>3. op \in Ops
    BY <1>1, <1>2
  <1>4. Count \in Nat
    BY <1>2, CountBounds
  <1>5. seq' \in Seq(Ops) /\ Len(seq') \in 1 .. Count
    <2> HIDE DEF op
    <2> QED
      BY <1>1, <1>2, <1>3, <1>4
  <1>6. NTyped'
    BY <1>1, <1>5 DEF NInv, NTyped
  <1>7. ListBuilt' /\ ThreadsInList' /\ LastDeletes'
    BY <1>1, <1>2, <1>5 DEF NInv, ListBuilt, ThreadsInList, LastDeletes, Ended, Count
  <1>8. QED
    BY <1>6, <1>7 DEF NInv

\* A concatenation ends as its second part does.
LEMMA ConcatEnd ==
  ASSUME NEW S, NEW a \in Seq(S), NEW b \in Seq(S), Len(b) > 0
  PROVE  (a \o b)[Len(a \o b)] = b[Len(b)]
  <1>1. Len(a \o b) = Len(a) + Len(b) /\ Len(a) \in Nat /\ Len(b) \in Nat
    OBVIOUS
  <1>2. Len(a) + Len(b) \in 1 .. Len(a) + Len(b) /\ ~(Len(a) + Len(b) <= Len(a))
    BY <1>1
  <1>3. (a \o b)[Len(a) + Len(b)] = b[(Len(a) + Len(b)) - Len(a)]
    BY <1>1, <1>2
  <1>4. QED
    BY <1>1, <1>3

\* The list ends with a deletion, within its slices, and both threads are at its
\* start.
LEMMA StartThreadsInvariant == NInv /\ StartThreads => NInv'
  <1> SUFFICES ASSUME NInv, StartThreads PROVE NInv'
    OBVIOUS
  <1>1. /\ pc = "build" /\ pc' = "join" /\ seq' = seq \o Ending
        /\ thread' = [t \in Threads |-> [at |-> 1, step |-> "op", ifn |-> None]]
        /\ UNCHANGED <<data, slots, link>>
    BY DEF StartThreads
  <1>2. /\ data \in [first : Data0, ops : Seq(Ops)] /\ seq \in Seq(Ops)
        /\ Len(seq) \in 1 .. Count /\ slots = Count + 3
    BY <1>1 DEF NInv, NTyped, ListBuilt
  <1>3. Count \in Nat
    BY <1>2, CountBounds
  <1>4. Ending \in Seq(Ops) /\ Len(Ending) \in 1 .. 2 /\ Ending[Len(Ending)] \in Deletes
    <2>1. CASE data.first % 2 = 1
      <3>1. Ending = <<"DEL">> \o <<"DOUBLE_DEL">>
        BY <2>1 DEF Ending
      <3>2. QED
        BY <3>1 DEF Ops, Deletes
    <2>2. CASE data.first % 2 # 1
      <3>1. Ending = <<"DEL">> \o << >>
        BY <2>2 DEF Ending
      <3>2. QED
        BY <3>1 DEF Ops, Deletes
    <2>3. QED
      BY <2>1, <2>2
  <1>5. /\ seq' \in Seq(Ops) /\ Len(seq') \in 1 .. slots
        /\ seq'[Len(seq')] \in Deletes
    <2>1. seq' \in Seq(Ops) /\ Len(seq') = Len(seq) + Len(Ending)
      BY <1>1, <1>2, <1>4
    <2>2. Len(seq') \in 1 .. slots
      BY <1>1, <1>2, <1>3, <1>4, <2>1
    <2>3. seq'[Len(seq')] = Ending[Len(Ending)]
      <3>1. Len(Ending) > 0
        <4>1. \A n \in 1 .. 2 : n > 0
          OBVIOUS
        <4>2. QED
          BY <1>4, <4>1
      <3>2. (seq \o Ending)[Len(seq \o Ending)] = Ending[Len(Ending)]
        BY <1>2, <1>4, <3>1, ConcatEnd
      <3>3. QED
        BY <1>1, <3>2
    <2>4. QED
      BY <1>4, <2>1, <2>2, <2>3
  <1>6. NTyped'
    <2>1. thread' \in [Threads -> Slices]
      BY <1>1 DEF Slices
    <2>2. QED
      BY <1>1, <1>2, <1>5, <2>1 DEF NInv, NTyped
  <1>7. ListBuilt'
    BY <1>1, <1>5 DEF ListBuilt
  <1>8. ThreadsInList' /\ LastDeletes'
    <2>1. \A t \in Threads : thread'[t].at = 1 /\ thread'[t].step = "op"
      BY <1>1
    <2>2. 1 \in Threads
      BY DEF Threads
    <2>3. QED
      BY <1>1, <1>5, <2>1, <2>2 DEF ThreadsInList, LastDeletes, Ended
  <1>9. QED
    BY <1>6, <1>7, <1>8 DEF NInv

\* After both threads have ended, nothing touches the device until the next input.
LEMMA EndInvariant == NInv /\ (Join \/ FreeAll \/ NextInput) => NInv'
  <1> SUFFICES ASSUME NInv, Join \/ FreeAll \/ NextInput PROVE NInv'
    OBVIOUS
  <1>1. CASE Join
    BY <1>1 DEF Join, NInv, NTyped, ListBuilt, ThreadsInList, LastDeletes, Ended, Op, Id
  <1>2. CASE FreeAll
    BY <1>2 DEF FreeAll, NInv, NTyped, ListBuilt, ThreadsInList, LastDeletes, Ended, Id
  <1>3. CASE NextInput
    BY <1>3 DEF NextInput, NInv, NTyped, ListBuilt, ThreadsInList, LastDeletes, Ended
  <1>4. QED
    BY <1>1, <1>2, <1>3

-----------------------------------------------------------------------------
(* The threads. *)

\* A slice record with another step and interface.
LEMMA SliceChanged ==
  ASSUME NEW r \in Slices, NEW x, NEW y
  PROVE  [[r EXCEPT !.step = x] EXCEPT !.ifn = y] = [at |-> r.at, step |-> x, ifn |-> y]
  <1>1. r = [at |-> r.at, step |-> r.step, ifn |-> r.ifn]
    BY DEF Slices
  <1>2. [r EXCEPT !.step = x] = [at |-> r.at, step |-> x, ifn |-> r.ifn]
    BY <1>1
  <1>3. ASSUME NEW q, q = [at |-> r.at, step |-> x, ifn |-> r.ifn]
        PROVE  [q EXCEPT !.ifn = y] = [at |-> r.at, step |-> x, ifn |-> y]
    BY <1>3
  <1>4. QED
    BY <1>2, <1>3

\* A set of numbers that is not empty has a least one.
LEMMA LeastOf ==
  ASSUME NEW S, S \subseteq Nat, S # {}
  PROVE  \E v \in S : \A w \in S : v <= w
  <1>1. PICK v \in S : \A w \in S : ~(<<w, v>> \in OpToRel(<, Nat))
    BY NatLessThanWellFounded, WFMin
  <1>2. \A w \in S : ~(w < v)
    BY <1>1 DEF OpToRel
  <1>3. \A w \in S : v <= w
    BY <1>2
  <1>4. QED
    BY <1>3

\* glob finds a device that is there, or nothing.
LEMMA FirstFound == first_nsim_if \in Ids \cup {None}
  <1> DEFINE First(i) == i \in Present /\ \A j \in Present : i <= j
  <1>1. Ids \subseteq Nat
    <2>1. \A d \in Data0 : d % 32 \in Nat
      <3>1. \A d \in Data0 : d \in Nat
        BY FirstByte
      <3>2. QED
        BY <3>1
    <2>2. UNION Leftovers \subseteq Nat
      BY NsimFuzzAssumption
    <2>3. QED
      BY <2>1, <2>2 DEF Ids
  <1>2. Present \subseteq Ids
    BY DEF Present
  <1>3. CASE Present = {}
    BY <1>3 DEF first_nsim_if
  <1>4. CASE Present # {}
    <2>1. \E i : First(i)
      BY <1>1, <1>2, <1>4, LeastOf
    <2>2. First(CHOOSE i : First(i))
      <3> HIDE DEF First
      <3> QED
        BY <2>1
    <2>3. first_nsim_if = CHOOSE i : First(i)
      BY <1>4, Zenon DEF first_nsim_if
    <2>4. first_nsim_if \in Present
      BY <2>2, <2>3
    <2>5. QED
      BY <1>2, <2>4
  <1>5. QED
    BY <1>3, <1>4

\* A thread takes one step: within its operation, or to the next slice, and out of
\* the list only from its last slice, which deletes.
LEMMA DoOpEffect ==
  ASSUME NInv, NEW t \in Threads, DoOp(t)
  PROVE  /\ pc = "join" /\ ~Ended(t) /\ UNCHANGED <<pc, data, seq, slots>>
         /\ link' \in [Ids -> LinkStates]
         /\ \E s \in Slices :
               /\ thread' = [thread EXCEPT ![t] = s]
               /\ \/ /\ s.step # "ended" /\ s.at = thread[t].at
                     /\ s.step = "act" => Op(t) \notin Deletes
                  \/ s.step = "op" /\ s.at = thread[t].at + 1 /\ s.at <= Len(seq)
                  \/ /\ s.step = "ended" /\ thread[t].at = Len(seq)
                     /\ Op(t) \in Deletes => link'[Id] = "absent"
  <1> DEFINE at == thread[t].at
             Moved(s) ==
                 \/ /\ s.step # "ended" /\ s.at = at
                    /\ s.step = "act" => Op(t) \notin Deletes
                 \/ s.step = "op" /\ s.at = at + 1 /\ s.at <= Len(seq)
                 \/ /\ s.step = "ended" /\ at = Len(seq)
                    /\ Op(t) \in Deletes => link'[Id] = "absent"
             Goal == link' \in [Ids -> LinkStates]
                     /\ \E s \in Slices : thread' = [thread EXCEPT ![t] = s] /\ Moved(s)
  <1>1. UNCHANGED <<pc, data, seq, slots>>
    BY DEF DoOp
  <1>2. ~Ended(t)
    BY DEF DoOp, DoCreate, DoDel, DoDoubleDel, DoUnknown, FindInterface, AddDevice, LookAgain,
           Act, AtOp, Ended
  <1>3. /\ pc = "join" /\ at \in 1 .. Len(seq) /\ Len(seq) \in Nat
        /\ thread[t].step = "act" => Op(t) \notin Deletes
    BY <1>2 DEF NInv, NTyped, ThreadsInList
  <1>4. /\ data \in [first : Data0, ops : Seq(Ops)] /\ Id \in Ids
        /\ thread \in [Threads -> Slices] /\ thread[t] \in Slices
        /\ link \in [Ids -> LinkStates]
    BY <1>3, CountBounds DEF NInv, NTyped
  <1>5. nsim_new(Id) => link' \in [Ids -> LinkStates]
    BY <1>4 DEF nsim_new, LinkStates
  <1>6. nsim_del(Id) => link' \in [Ids -> LinkStates] /\ link'[Id] = "absent"
    BY <1>4 DEF nsim_del, LinkStates
  <1>7. ASSUME NextSlice(t), link' \in [Ids -> LinkStates],
               Op(t) \in Deletes => link'[Id] = "absent"
        PROVE  Goal
    <2> DEFINE s == IF at = Len(seq) THEN [at |-> 0, step |-> "ended", ifn |-> None]
                    ELSE [at |-> at + 1, step |-> "op", ifn |-> None]
    <2>1. s \in Slices
      <3>1. at \in Nat /\ at + 1 \in Nat
        BY <1>3
      <3>2. QED
        BY <3>1 DEF Slices
    <2>2. thread' = [thread EXCEPT ![t] = s]
      BY <1>4, <1>7 DEF NextSlice
    <2>3. Moved(s)
      BY <1>3, <1>7
    <2>4. QED
      BY <1>7, <2>1, <2>2, <2>3
  <1>8. ASSUME NEW st \in {"act", "new", "look again", "again"}, NEW name \in Ids \cup {None},
               Step(t, st, name), link' \in [Ids -> LinkStates],
               st = "act" => Op(t) \notin Deletes
        PROVE  Goal
    <2> DEFINE s == [at |-> at, step |-> st, ifn |-> name]
    <2>1. s \in Slices
      <3>1. at \in Nat
        BY <1>4 DEF Slices
      <3>2. QED
        BY <3>1 DEF Slices
    <2>2. thread' = [thread EXCEPT ![t] = s]
      <3>1. thread' = [thread EXCEPT ![t] = [[@ EXCEPT !.step = st] EXCEPT !.ifn = name]]
        BY <1>4, <1>8 DEF Step
      <3>2. [[thread[t] EXCEPT !.step = st] EXCEPT !.ifn = name] = s
        BY <1>4, SliceChanged
      <3>3. QED
        BY <3>1, <3>2, <1>4
    <2>3. Moved(s)
      BY <1>8
    <2>4. QED
      BY <1>8, <2>1, <2>2, <2>3
  <1>9. first_nsim_if \in Ids \cup {None}
    BY FirstFound
  <1>10. Goal
    <2> HIDE DEF Goal
    <2>1. CASE DoCreate(t)
      BY <2>1, <1>5, <1>7 DEF DoCreate, AtOp, Deletes
    <2>2. CASE DoDel(t)
      BY <2>2, <1>6, <1>7 DEF DoDel
    <2>3. CASE DoDoubleDel(t)
      BY <2>3, <1>6, <1>7, <1>8 DEF DoDoubleDel
    <2>4. CASE DoUnknown(t)
      BY <2>4, <1>4, <1>7 DEF DoUnknown, AtOp, Deletes
    <2>5. CASE FindInterface(t)
      BY <2>5, <1>4, <1>7, <1>8, <1>9 DEF FindInterface, AtOp, Deletes
    <2>6. CASE AddDevice(t)
      BY <2>6, <1>5, <1>8 DEF AddDevice
    <2>7. CASE LookAgain(t)
      BY <2>7, <1>4, <1>7, <1>8, <1>9 DEF LookAgain, AtOp, Deletes
    <2>8. CASE Act(t)
      <3>1. link' \in [Ids -> LinkStates]
        BY <2>8, <1>4 DEF Act, LinkStates
      <3>2. Op(t) \notin Deletes
        BY <2>8, <1>3 DEF Act
      <3>3. QED
        BY <2>8, <1>7, <3>1, <3>2 DEF Act
    <2>9. QED
      BY <2>1, <2>2, <2>3, <2>4, <2>5, <2>6, <2>7, <2>8 DEF DoOp
  <1>11. QED
    BY <1>1, <1>2, <1>3, <1>10

\* A thread's step leaves the invariant: when it is the last to end, it has just
\* deleted the device, as the list ends with a deletion.
LEMMA DoOpInvariant ==
  ASSUME NInv, NEW t \in Threads, DoOp(t)
  PROVE  NInv'
  <1>1. PICK s \in Slices :
            /\ thread' = [thread EXCEPT ![t] = s]
            /\ \/ /\ s.step # "ended" /\ s.at = thread[t].at
                  /\ s.step = "act" => Op(t) \notin Deletes
               \/ s.step = "op" /\ s.at = thread[t].at + 1 /\ s.at <= Len(seq)
               \/ /\ s.step = "ended" /\ thread[t].at = Len(seq)
                  /\ Op(t) \in Deletes => link'[Id] = "absent"
    BY DoOpEffect
  <1>2. /\ pc = "join" /\ ~Ended(t) /\ UNCHANGED <<pc, data, seq, slots>>
        /\ link' \in [Ids -> LinkStates]
    BY DoOpEffect
  <1>3. /\ thread \in [Threads -> Slices] /\ thread[t] \in Slices
        /\ thread[t].at \in 1 .. Len(seq) /\ Len(seq) \in Nat
        /\ seq[Len(seq)] \in Deletes
    BY <1>2 DEF NInv, NTyped, ListBuilt, ThreadsInList
  <1>4. thread' \in [Threads -> Slices] /\ thread'[t] = s
    BY <1>1, <1>3
  <1>5. \A u \in Threads \ {t} : thread'[u] = thread[u]
    BY <1>1, <1>3
  <1>6. NTyped'
    BY <1>2, <1>4 DEF NInv, NTyped
  <1>7. ListBuilt'
    BY <1>2 DEF NInv, ListBuilt, Count
  <1>8. ThreadsInList'
    <2>1. ASSUME NEW u \in Threads, ~Ended(u)'
          PROVE  /\ thread'[u].at \in 1 .. Len(seq)
                 /\ thread'[u].step = "act" => Op(u)' \notin Deletes
      <3>1. CASE u = t
        BY <1>1, <1>2, <1>3, <1>4, <2>1, <3>1 DEF Ended, Op
      <3>2. CASE u # t
        BY <1>2, <1>5, <2>1, <3>2 DEF NInv, ThreadsInList, Ended, Op
      <3>3. QED
        BY <3>1, <3>2
    <2>2. QED
      BY <1>2, <2>1 DEF ThreadsInList
  <1>9. LastDeletes'
    <2> SUFFICES ASSUME \A u \in Threads : Ended(u)'
                 PROVE  link'[Id] = "absent"
      BY <1>2 DEF LastDeletes, Id
    <2>1. s.step = "ended"
      BY <1>4 DEF Ended
    <2>2. thread[t].at = Len(seq) /\ Op(t) \in Deletes
      BY <1>1, <1>3, <2>1 DEF Op
    <2>3. QED
      BY <1>1, <2>1, <2>2
  <1>10. QED
    BY <1>6, <1>7, <1>8, <1>9 DEF NInv

-----------------------------------------------------------------------------
(* The theorems. *)

\* Every step of the fuzzer keeps the invariant.
LEMMA InductiveStep == NInv /\ [Next]_vars => NInv'
  <1> SUFFICES ASSUME NInv, [Next]_vars PROVE NInv'
    OBVIOUS
  <1>1. CASE Begin
    BY <1>1, BeginInvariant
  <1>2. CASE BuildOp
    BY <1>2, BuildOpInvariant
  <1>3. CASE StartThreads
    BY <1>3, StartThreadsInvariant
  <1>4. CASE Join \/ FreeAll \/ NextInput
    BY <1>4, EndInvariant
  <1>5. CASE \E t \in Threads : DoOp(t)
    BY <1>5, DoOpInvariant
  <1>6. CASE UNCHANGED vars
    BY <1>6 DEF vars, NInv, NTyped, ListBuilt, ThreadsInList, LastDeletes, Ended, Op, Count, Id
  <1>7. QED
    BY <1>1, <1>2, <1>3, <1>4, <1>5, <1>6 DEF Next

\* The invariant holds throughout.
LEMMA Invariance == Spec => []NInv
  <1> QED
    BY InitInvariant, InductiveStep, PTL DEF Spec

\* LLVMFuzzerTestOneInput returns with the device of its input deleted, however the
\* two threads interleave and whatever earlier runs left behind.
THEOREM EndsCleanAlways == Spec => []EndsClean
  <1>1. NInv => EndsClean
    BY DEF NInv, ThreadsInList, LastDeletes, EndsClean
  <1> QED
    BY <1>1, Invariance, PTL

\* The operations never outgrow what calloc made, and the list is freed only once
\* neither thread is at a slice of it.
THEOREM ListOutlivesThreads == Spec => []SlicesAlive
  <1>1. NInv => SlicesAlive
    <2> SUFFICES ASSUME NInv PROVE SlicesAlive
      OBVIOUS
    <2>1. Len(seq) <= slots
      <3>1. CASE pc \in {"idle", "returned"}
        BY <3>1 DEF NInv, NTyped, ListBuilt
      <3>2. CASE pc = "build"
        <4>1. Len(seq) \in 1 .. Count /\ slots = Count + 3 /\ Count \in 1 .. 24
          BY <3>2, CountBounds DEF NInv, NTyped, ListBuilt
        <4>2. QED
          BY <4>1
      <3>3. CASE pc \in {"join", "free"}
        BY <3>3 DEF NInv, NTyped, ListBuilt
      <3>4. QED
        BY <3>1, <3>2, <3>3 DEF NInv, NTyped
    <2>2. QED
      BY <2>1 DEF NInv, ThreadsInList, SlicesAlive, Ended
  <1> QED
    BY <1>1, Invariance, PTL

=============================================================================
