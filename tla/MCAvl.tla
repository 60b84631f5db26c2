------------------------------- MODULE MCAvl --------------------------------
(* Numbered TCBs, each with a tid of its own.                              *)
EXTENDS Avl

MCOwnTid == [n \in Nodes |-> n]
=============================================================================
