---------------------------- MODULE MCScheduler -----------------------------
(* Programs for Scheduler: main, idle and two further threads.             *)
EXTENDS Scheduler

CONSTANTS main, idle, a, b

Arg(op, S) == [op : {op}, arg : S]
Plain(ops) == [op : ops]

Const(S, v) == [t \in S |-> v]

MCPriority2 == [t \in Threads |-> IF t = a THEN -1 ELSE 9]
MCNoAging == Const(Threads, 0)
MCOne == Const(Threads, 1)
MCTwoMs == Const(Threads, 2)

(* Every call of the interface, two workers; b ages.                       *)
MCAllCalls ==
  [t \in Threads |->
     CASE t = main -> Arg("create", {a, b}) \cup Arg("join", {a, b}) \cup Arg("detach", {a, b})
                        \cup Arg("sleep", {1}) \cup Plain({"exit"})
       [] t = a -> Arg("create", {b}) \cup Arg("join", {b, main}) \cup Arg("detach", {a, b})
                     \cup Arg("sleep", {0, 1}) \cup Arg("set_prio", {2}) \cup Plain({"yield"})
       [] t = b -> Arg("join", {a}) \cup Arg("detach", {b}) \cup Arg("sleep", {1})
       [] OTHER -> {}]
MCBudget321 == [t \in Threads |-> CASE t = main -> 3 [] t = a -> 2 [] t = b -> 1 [] OTHER -> 0]

(* Every call but set_prio; no two threads join each other.  With MCTwoMs  *)
(* b, which ages, rises by one level while the clock runs and does not meet*)
(* a: no two threads ever share a priority.                                *)
MCApart ==
  [t \in Threads |->
     CASE t = main -> Arg("create", {a, b}) \cup Arg("join", {a, b}) \cup Arg("detach", {a})
       [] t = a -> Arg("create", {b}) \cup Arg("join", {b}) \cup Arg("detach", {a, b})
                     \cup Arg("sleep", {0, 1}) \cup Plain({"yield"})
       [] t = b -> Arg("detach", {b}) \cup Arg("sleep", {2})
       [] OTHER -> {}]

MCOnlyBAges == [t \in Threads |-> IF t = b THEN 1 ELSE 0]

(* Main creates a, which does not age, and b, which does, and yields.      *)
MCPriorityEqual == Const(Threads, 1)
MCTwo == [t \in Threads |-> IF t = main THEN Arg("create", {a, b}) ELSE {}]
MCBudgetTwo == [t \in Threads |-> IF t = main THEN 2 ELSE 0]
=============================================================================
