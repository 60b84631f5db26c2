------------------------------- MODULE MCSync -------------------------------
(* Programs for Sync.                                                      *)
EXTENDS Sync

CONSTANTS main, idle, a, b, m, n, c, bar

Arg(op, S) == [op : {op}, arg : S]
Wait == [op : {"cond_wait"}, cond : {c}, mutex : {m}]
Const(S, v) == [t \in S |-> v]

(* Main creates two threads of different priorities.  They lock, wait for  *)
(* each other's signals and meet at a barrier; main broadcasts, destroys   *)
(* and initialises.  One worker may hold two mutexes, the other waits      *)
(* without one.                                                            *)
MCSyncProgram ==
  [t \in Threads |->
     CASE t = main -> Arg("create", {a, b}) \cup Arg("broadcast", {c})
                        \cup [op : {"mutex_destroy", "mutex_init"}, arg : {m}]
                        \cup [op : {"barrier_destroy", "barrier_init"}, arg : {bar}]
       [] t = a -> Arg("lock", {m, n}) \cup Wait \cup Arg("barrier_wait", {bar}) \cup Arg("sleep", {1})
       [] t = b -> Arg("lock", {m}) \cup Wait \cup Arg("barrier_wait", {bar}) \cup Arg("signal", {c})
                     \cup Arg("cond_wait_non", {c}) \cup [op : {"yield"}]
       [] OTHER -> {}]
MCSyncBudget == [t \in Threads |-> CASE t = main -> 4 [] t = a -> 2 [] t = b -> 3 [] OTHER -> 0]
MCSyncPriority == [t \in Threads |-> IF t = a THEN 1 ELSE 2]

(* demo/_demo_barrier.c with two threads: main creates and joins them.     *)
MCBarrierProgram ==
  [t \in Threads |->
     CASE t = main -> Arg("create", {a, b}) \cup Arg("join", {a, b})
       [] t \in {a, b} -> Arg("barrier_wait", {bar})
       [] OTHER -> {}]
MCBarrierBudget == [t \in Threads |-> CASE t = main -> 4 [] t \in {a, b} -> 1 [] OTHER -> 0]
MCBarrierPriority == Const(Threads, 1)

(* Worker a joins b after the first round of the barrier; main and b meet  *)
(* in a second round.                                                      *)
MCRoundsProgram ==
  [t \in Threads |->
     CASE t = main -> Arg("create", {a, b}) \cup Arg("barrier_wait", {bar})
       [] t = a -> Arg("barrier_wait", {bar}) \cup Arg("join", {b})
       [] t = b -> Arg("barrier_wait", {bar})
       [] OTHER -> {}]
MCRoundsBudget == [t \in Threads |-> CASE t = main -> 3 [] t \in {a, b} -> 2 [] OTHER -> 0]

MCNoAging == Const(Threads, 0)
MCOne == Const(Threads, 1)
MCParties == Const(Barriers, 2)
=============================================================================
