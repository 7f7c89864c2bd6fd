------------------------------- MODULE Mutex --------------------------------
(***************************************************************************)
(* What a lock promises, with no word in memory and no instruction: at     *)
(* most one CPU holds it, and it is handed over only by its holder.        *)
(***************************************************************************)
CONSTANT CPUs

VARIABLE holders      \* the CPUs that hold the lock

Init == holders = {}

Acquire(p) == holders = {} /\ holders' = {p}

Release(p) == holders = {p} /\ holders' = {}

Next == \E p \in CPUs : Acquire(p) \/ Release(p)

Spec == Init /\ [][Next]_holders
=============================================================================
