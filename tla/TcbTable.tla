------------------------------ MODULE TcbTable ------------------------------
(* What the AVL tree is for: the set of the control blocks of all threads. *)
CONSTANT Nodes

VARIABLE members

Init == members = {}

Register(n) == n \notin members /\ members' = members \cup {n}

Remove(n) == n \in members /\ members' = members \ {n}

Next == \E n \in Nodes : Register(n) \/ Remove(n)

Spec == Init /\ [][Next]_members
=============================================================================
