---------------------------- MODULE AbstractLock ----------------------------
(***************************************************************************)
(* What a futex promises when it is used as a lock: it has at most one     *)
(* owner, a free lock can be taken by anyone and only its owner frees it.  *)
(***************************************************************************)
CONSTANTS Threads, Futexes, NoOwner

VARIABLE owner     \* owner[f]: the thread that holds f, or NoOwner

Init == owner = [f \in Futexes |-> NoOwner]

Acquire(t, f) == /\ owner[f] = NoOwner
                 /\ owner' = [owner EXCEPT ![f] = t]

Release(t, f) == /\ owner[f] = t
                 /\ owner' = [owner EXCEPT ![f] = NoOwner]

Next == \E t \in Threads, f \in Futexes : Acquire(t, f) \/ Release(t, f)

Spec == Init /\ [][Next]_owner
=============================================================================
