------------------------------ MODULE TaskPool ------------------------------
(* What a pool promises: a bounded queue of tasks that run in order, each  *)
(* once, and that is closed only when it is empty.                         *)
EXTENDS Naturals, Sequences

CONSTANTS Tasks, QueueSize

VARIABLES pending, running, done, closed

vars == <<pending, running, done, closed>>

Init == pending = <<>> /\ running = {} /\ done = {} /\ closed = FALSE

Submit(k) ==
  /\ ~closed /\ Len(pending) < QueueSize
  /\ k \notin running \cup done \cup {pending[i] : i \in DOMAIN pending}
  /\ pending' = Append(pending, k)
  /\ UNCHANGED <<running, done, closed>>

Start ==
  /\ pending # <<>>
  /\ pending' = Tail(pending)
  /\ running' = running \cup {Head(pending)}
  /\ UNCHANGED <<done, closed>>

Finish(k) ==
  /\ k \in running
  /\ running' = running \ {k}
  /\ done' = done \cup {k}
  /\ UNCHANGED <<pending, closed>>

Close ==
  /\ pending = <<>>
  /\ closed' = TRUE
  /\ UNCHANGED <<pending, running, done>>

Next == (\E k \in Tasks : Submit(k) \/ Finish(k)) \/ Start \/ Close

Spec == Init /\ [][Next]_vars
=============================================================================
