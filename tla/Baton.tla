------------------------------- MODULE Baton --------------------------------
(***************************************************************************)
(* What the hand-over of the processor promises: user code is run by the   *)
(* holder of the baton only, and the baton is passed by its holder.  The   *)
(* modules that treat a library call as one step rest on it.               *)
(***************************************************************************)
CONSTANTS Threads, Main

VARIABLES holder,    \* the thread that may run user code
          inUser     \* the threads that do

Init == holder = Main /\ inUser = {Main}

Call == /\ inUser = {holder}
        /\ inUser' = {}
        /\ UNCHANGED holder

Return == /\ inUser = {}
          /\ inUser' = {holder}
          /\ UNCHANGED holder

Pass(t) == /\ inUser = {}
           /\ holder' = t
           /\ UNCHANGED inUser

Next == Call \/ Return \/ \E t \in Threads : Pass(t)

Spec == Init /\ [][Next]_<<holder, inUser>>
=============================================================================
