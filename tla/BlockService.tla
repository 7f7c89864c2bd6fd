---------------------------- MODULE BlockService ----------------------------
(***************************************************************************)
(* What block_read and block_write promise their callers: a request that   *)
(* is handed to the disk is carried out once, and the call returns only    *)
(* after that.  No rings, no descriptors, no lock.                         *)
(***************************************************************************)
EXTENDS Naturals

CONSTANT Requests

VARIABLES submitted,    \* requests handed to the disk
          performed,    \* how often the disk has carried out each request
          returned      \* requests whose call has returned

vars == <<submitted, performed, returned>>

Init ==
  /\ submitted = {}
  /\ performed = [r \in Requests |-> 0]
  /\ returned = {}

Submit(r) ==
  /\ r \notin submitted
  /\ submitted' = submitted \cup {r}
  /\ UNCHANGED <<performed, returned>>

Perform(r) ==
  /\ r \in submitted
  /\ performed[r] = 0
  /\ performed' = [performed EXCEPT ![r] = 1]
  /\ UNCHANGED <<submitted, returned>>

Return(r) ==
  /\ performed[r] = 1
  /\ r \notin returned
  /\ returned' = returned \cup {r}
  /\ UNCHANGED <<submitted, performed>>

Next == \E r \in Requests : Submit(r) \/ Perform(r) \/ Return(r)

Spec == Init /\ [][Next]_vars
=============================================================================
