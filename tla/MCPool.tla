------------------------------- MODULE MCPool -------------------------------
(* A pool of three workers with a queue of three, and five tasks: of       *)
(* ordinary priorities, of 0 and of IDLE_PRIORITY.                         *)
EXTENDS Pool

CONSTANTS main, idle, a, b, c, notify

MCWorkers == <<a, b, c>>
MCTaskPrio == <<2, 0, 5, 2, 3>>

MCProgram ==
  [t \in Threads |->
     CASE t = main -> [op : {"create", "join"}, arg : {a, b, c}]
       [] t \in {a, b, c} -> [op : {"yield"}]
       [] OTHER -> {}]
MCBudget == [t \in Threads |-> CASE t = main -> 6 [] t \in {a, b, c} -> 2 [] OTHER -> 0]

MCHighest == [t \in Threads |-> Highest]
MCZero == [t \in Threads |-> 0]
MCOne == [t \in Threads |-> 1]
MCNone == [x \in {} |-> 0]
=============================================================================
