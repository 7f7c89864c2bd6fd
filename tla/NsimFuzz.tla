----------------------------- MODULE NsimFuzz -----------------------------
(***************************************************************************)
(* fuzzing/fuzz_nsim.c: LLVMFuzzerTestOneInput turns an input into a list  *)
(* of operations on one netdevsim device, and two threads carry out the    *)
(* whole list each, at their own speed.  Looking an interface up and using *)
(* it are two steps; the other thread comes between.  Addresses, MTU and   *)
(* MAC are left out: they change an interface that is there and nothing    *)
(* else reads them.                                                        *)
(***************************************************************************)
EXTENDS Naturals, Sequences, FiniteSets

CONSTANTS Data0,    \* first bytes of the inputs
          MaxOps,   \* most operations behind it
          Leftovers \* sets of devices that stopped runs may have left

ASSUME NsimFuzzAssumption ==
    /\ Data0 \subseteq 0 .. 255 /\ MaxOps \in Nat
    /\ Leftovers \subseteq SUBSET (0 .. 31)

VARIABLES pc,     \* of LLVMFuzzerTestOneInput
          data,   \* the input: its first byte and the operations behind it
          seq,    \* the slices filled so far; idx is their number
          slots,  \* slices allocated; 0 once freed
          thread, \* per thread the slice it is at, its step there and its ifn
          link    \* netdevsim: "absent", or the link state of the interface

vars == <<pc, data, seq, slots, thread, link>>

Threads == {1, 2}
Ids == {d % 32 : d \in Data0} \cup UNION Leftovers
None == 99           \* an empty interface name

\* Operations by what they do: OP_CHG_MTU and OP_CHG_MAC are as OP_ADDR_DEL,
\* and a code that is no operation is "unknown".
Ops == {"CREATE", "ADDR_ADD", "ADDR_DEL", "LINK_UP", "LINK_DOWN", "DEL",
        "DOUBLE_DEL", "unknown"}

Id    == data.first % 32
Count == 1 + (data.first % 24)

Init ==
    /\ pc = "idle"
    /\ data = [first |-> 0, ops |-> << >>]
    /\ seq = << >>
    /\ slots = 0
    /\ thread = [t \in Threads |-> [at |-> 0, step |-> "ended", ifn |-> None]]
    /\ \E S \in Leftovers :
          link = [i \in Ids |-> IF i \in S THEN "down" ELSE "absent"]

-----------------------------------------------------------------------------
(* LLVMFuzzerTestOneInput.                                                 *)

\* CREATE is the first operation. Without memory for the list, or an input
\* without a byte, it returns at once.
Begin ==
    /\ pc = "idle"
    /\ data' \in [first : Data0, ops : UNION {[1 .. n -> Ops] : n \in 0 .. MaxOps}]
    /\ slots' = 1 + (data'.first % 24) + 3
    /\ seq' = <<"CREATE">>
    /\ pc' = "build"
    /\ UNCHANGED <<thread, link>>

\* One more operation of the input, while there is one and fewer than Count.
BuildOp ==
    /\ pc = "build"
    /\ Len(seq) <= Len(data.ops) /\ Len(seq) < Count
    /\ seq' = Append(seq, data.ops[Len(seq)])
    /\ UNCHANGED <<pc, data, slots, thread, link>>

\* Only an odd input deletes its device.
Ending_OddOnly == IF data.first % 2 = 1 THEN <<"DOUBLE_DEL">> ELSE << >>

\* DEL, and for an odd input DOUBLE_DEL.
Ending == <<"DEL">> \o (IF data.first % 2 = 1 THEN <<"DOUBLE_DEL">> ELSE << >>)

\* The loop ends there, or where malloc fails.
StartThreads ==
    /\ pc = "build"
    /\ seq' = seq \o Ending
    /\ thread' = [t \in Threads |-> [at |-> 1, step |-> "op", ifn |-> None]]
    /\ pc' = "join"
    /\ UNCHANGED <<data, slots, link>>

Join_FirstOnly ==
    /\ pc = "join"
    /\ thread[1].step = "ended"
    /\ pc' = "free"
    /\ UNCHANGED <<data, seq, slots, thread, link>>

Join ==
    /\ pc = "join"
    /\ \A t \in Threads : thread[t].step = "ended"
    /\ pc' = "free"
    /\ UNCHANGED <<data, seq, slots, thread, link>>

FreeAll ==
    /\ pc = "free"
    /\ slots' = 0
    /\ seq' = << >>
    /\ pc' = "returned"
    /\ UNCHANGED <<data, thread, link>>

NextInput ==
    /\ pc = "returned"
    /\ pc' = "idle"
    /\ UNCHANGED <<data, seq, slots, thread, link>>

-----------------------------------------------------------------------------
(* do_op, called by runner for each slice.                                 *)
Op(t) == seq[thread[t].at]
AtOp(t, step, ops) == thread[t].step = step /\ Op(t) \in ops

\* netdevsim: a second device of an id is refused, and so is deleting none.
nsim_new(id) == link' = [link EXCEPT ![id] = IF @ = "absent" THEN "down" ELSE @]
nsim_del(id) == link' = [link EXCEPT ![id] = "absent"]
Present == {i \in Ids : link[i] # "absent"}

\* The first path glob finds, whichever device it belongs to.
first_nsim_if ==
    IF Present = {} THEN None ELSE CHOOSE i \in Present : \A j \in Present : i <= j

Step(t, step, ifn) ==
    thread' = [thread EXCEPT ![t].step = step, ![t].ifn = ifn]

\* Back in runner: the next slice or the end.
NextSlice(t) ==
    thread' = [thread EXCEPT ![t] =
        IF @.at = Len(seq) THEN [at |-> 0, step |-> "ended", ifn |-> None]
        ELSE [at |-> @.at + 1, step |-> "op", ifn |-> None]]

DoCreate(t) ==
    /\ AtOp(t, "op", {"CREATE"})
    /\ nsim_new(Id)
    /\ NextSlice(t)

DoDel(t) ==
    /\ AtOp(t, "op", {"DEL"})
    /\ nsim_del(Id)
    /\ NextSlice(t)

\* nsim_del twice: the other thread may create the device in between.
DoDoubleDel(t) ==
    \/ /\ AtOp(t, "op", {"DOUBLE_DEL"})
       /\ nsim_del(Id)
       /\ Step(t, "again", None)
    \/ /\ AtOp(t, "again", {"DOUBLE_DEL"})
       /\ nsim_del(Id)
       /\ NextSlice(t)

DoUnknown(t) ==
    /\ AtOp(t, "op", {"unknown"})
    /\ NextSlice(t)
    /\ UNCHANGED link

\* The other operations look for an interface first. ADDR_ADD makes one when
\* there is none, and looks again.
FindInterface(t) ==
    /\ AtOp(t, "op", {"ADDR_ADD", "ADDR_DEL", "LINK_UP", "LINK_DOWN"})
    /\ IF first_nsim_if # None THEN Step(t, "act", first_nsim_if)
       ELSE IF Op(t) = "ADDR_ADD" THEN Step(t, "new", None)
       ELSE NextSlice(t)
    /\ UNCHANGED link

AddDevice(t) ==
    /\ AtOp(t, "new", {"ADDR_ADD"})
    /\ nsim_new(Id)
    /\ Step(t, "look again", None)

LookAgain(t) ==
    /\ AtOp(t, "look again", {"ADDR_ADD"})
    /\ IF first_nsim_if # None THEN Step(t, "act", first_nsim_if) ELSE NextSlice(t)
    /\ UNCHANGED link

\* The command finds the interface of that name, which may be a new one by
\* now, or fails.
Act(t) ==
    /\ thread[t].step = "act"
    /\ link' = [link EXCEPT ![thread[t].ifn] =
                   IF @ = "absent" THEN @
                   ELSE CASE Op(t) = "LINK_UP" -> "up"
                          [] Op(t) = "LINK_DOWN" -> "down"
                          [] OTHER -> @]
    /\ NextSlice(t)

DoOp(t) ==
    /\ \/ DoCreate(t) \/ DoDel(t) \/ DoDoubleDel(t) \/ DoUnknown(t)
       \/ FindInterface(t) \/ AddDevice(t) \/ LookAgain(t) \/ Act(t)
    /\ UNCHANGED <<pc, data, seq, slots>>

Next ==
    \/ Begin \/ BuildOp \/ StartThreads \/ Join \/ FreeAll \/ NextInput
    \/ \E t \in Threads : DoOp(t)

Spec == Init /\ [][Next]_vars

-----------------------------------------------------------------------------
\* An input leaves no device of its id behind: whatever the threads did to each
\* other, and whether it or a stopped run before it made the device.
EndsClean == pc = "returned" => link[Id] = "absent"

\* The list fits into the slices calloc made, and no thread reads a slice when
\* they are freed.
SlicesAlive ==
    /\ Len(seq) <= slots
    /\ \A t \in Threads : thread[t].step # "ended" => thread[t].at \in 1 .. Len(seq)
=============================================================================
