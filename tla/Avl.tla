-------------------------------- MODULE Avl ---------------------------------
(***************************************************************************)
(* pthipth_avl.c: the balanced tree in which every API call looks up a     *)
(* control block by tid.  Insertion and deletion are a step that changes   *)
(* the tree and one step per node of the way back to the root, all under   *)
(* global_futex.  Implements TcbTable.                                     *)
(***************************************************************************)
EXTENDS Integers

CONSTANTS Nodes,    \* the TCBs that are ever allocated
          Tid,      \* Tid[n]: the tid that clone returns for n
          NoNode    \* NULL

(* Distinct tids are an assumption on the program: the kernel may give the *)
(* tid of a thread that has exited, but is not joined yet, to a new one.   *)
ASSUME AvlAssumption ==
  /\ NoNode \notin Nodes
  /\ Tid \in [Nodes -> Nat]
  /\ \A m, n \in Nodes : Tid[m] = Tid[n] => m = n

VARIABLES
  tree,   \* [root; child: left and right, per TCB; parent, height: per TCB]
  live,   \* the TCBs that pthipth_create has allocated and nobody has freed
  up      \* the local variable `parent` of the operation in progress

vars == <<tree, live, up>>

Sides == {"left", "right"}
Other(s) == IF s = "left" THEN "right" ELSE "left"
Pointers == Nodes \cup {NoNode}

-----------------------------------------------------------------------------
(* The local functions of the file on the structure t.                     *)

Set(f, n, v) == IF n = NoNode THEN f ELSE [f EXCEPT ![n] = v]

Height(t, n) == IF n = NoNode THEN 0 ELSE t.height[n]

(* getBalance seen from side s: how much deeper that side is.              *)
Lean(t, n, s) == Height(t, t.child[s][n]) - Height(t, t.child[Other(s)][n])

UpdateHeight(t, n) ==
  [t EXCEPT !.height[n] =
     1 + (IF Lean(t, n, "left") > 0 THEN Height(t, t.child["left"][n])
                                    ELSE Height(t, t.child["right"][n]))]

(* Makes new the child of p that old was.                                  *)
Replace(t, p, old, new) ==
  IF p = NoNode THEN t
  ELSE [t EXCEPT !.child[IF t.child["left"][p] = old THEN "left" ELSE "right"][p] = new]

(* Mutant of Rotate: the inner grandchild keeps its parent.                *)
RotateKeepsParent(t, y, s) ==
  LET x  == t.child[s][y]
      t1 == [t EXCEPT !.child[Other(s)][x] = y, !.child[s][y] = t.child[Other(s)][x]]
      t2 == [Replace(t1, t.parent[y], y, x) EXCEPT !.parent = [@ EXCEPT ![x] = t.parent[y], ![y] = x]]
  IN  UpdateHeight(UpdateHeight(t2, y), x)

(* rightRotate(y) for s = "left", leftRotate(y) for s = "right": the child *)
(* on side s takes the place of y.                                         *)
Rotate(t, y, s) ==
  LET x     == t.child[s][y]
      inner == t.child[Other(s)][x]
      t1 == [t EXCEPT !.child[Other(s)][x] = y, !.child[s][y] = inner,
                      !.parent = Set(@, inner, y)]
      t2 == [Replace(t1, t.parent[y], y, x) EXCEPT !.parent = [@ EXCEPT ![x] = t.parent[y], ![y] = x]]
  IN  UpdateHeight(UpdateHeight(t2, y), x)

(* balance(node) for a node that is too deep on side s: the tree and the   *)
(* node it returns.                                                        *)
Rebalance(t, n, s) ==
  LET below == t.child[s][n]
      t1    == IF Lean(t, below, s) < 0 THEN Rotate(t, below, Other(s)) ELSE t
  IN  [tree |-> Rotate(t1, n, s), top |-> t1.child[s][n]]

Balance(t, n) ==
  LET t1 == UpdateHeight(t, n)
  IN  CASE Lean(t1, n, "left") > 1  -> Rebalance(t1, n, "left")
        [] Lean(t1, n, "right") > 1 -> Rebalance(t1, n, "right")
        [] OTHER                    -> [tree |-> t1, top |-> n]

(* The side of n on which the search for a tid goes on.                    *)
Toward(n, tid) == IF tid < Tid[n] THEN "left" ELSE "right"

(* pthipth_avl_search, and the loop of pthipth_avl_insert: the node with   *)
(* the tid, or else the last one on the way to it.                         *)
Reached(t, tid) ==
  LET from[n \in Nodes] ==
        LET next == t.child[Toward(n, tid)][n]
        IN  IF Tid[n] = tid \/ next = NoNode THEN n ELSE from[next]
  IN  IF t.root = NoNode THEN NoNode ELSE from[t.root]

Search(t, tid) ==
  LET n == Reached(t, tid) IN IF n # NoNode /\ Tid[n] = tid THEN n ELSE NoNode

-----------------------------------------------------------------------------
Init ==
  /\ tree = [root |-> NoNode, child |-> [s \in Sides |-> [n \in Nodes |-> NoNode]],
             parent |-> [n \in Nodes |-> NoNode], height |-> [n \in Nodes |-> 0]]
  /\ live = {}
  /\ up = NoNode

(* pthipth_avl_insert on a zeroed TCB, up to the way back.  A tid that is  *)
(* found already ends it.                                                  *)
Insert(n) ==
  LET at == Reached(tree, Tid[n]) IN
  /\ up = NoNode /\ n \notin live
  /\ live' = live \cup {n}
  /\ IF at = NoNode THEN tree' = [tree EXCEPT !.root = n, !.height[n] = 1] /\ UNCHANGED up
     ELSE IF Tid[at] = Tid[n] THEN UNCHANGED <<tree, up>>
     ELSE /\ tree' = [tree EXCEPT !.child[Toward(at, Tid[n])][at] = n, !.parent[n] = at,
                                  !.height[n] = 1]
          /\ up' = at

(* Mutant of Leftmost: the successor is not looked for.                    *)
LeftmostStays(t, n) == n

Leftmost(t, n) ==
  LET down[m \in Nodes] == IF t.child["left"][m] = NoNode THEN m ELSE down[t.child["left"][m]]
  IN  down[n]

(* Puts m in the place of n under n's parent or at the root.               *)
PutInPlace(t, n, m) ==
  LET p == t.parent[n]
      t1 == [t EXCEPT !.parent = Set(@, m, p)]
  IN  IF p = NoNode THEN [t1 EXCEPT !.root = m] ELSE Replace(t1, p, n, m)

(* Mutant of UnlinkInner: the way back starts at the place of n.           *)
UnlinkInnerHigh(t, n) ==
  LET succ == Leftmost(t, t.child["right"][n])
      q    == t.parent[succ]
      rest == t.child["right"][succ]
      t1   == [Replace(t, q, succ, rest) EXCEPT !.parent = Set(@, rest, q)]
      t2   == [t1 EXCEPT !.child["left"][succ] = t1.child["left"][n],
                         !.child["right"][succ] = t1.child["right"][n],
                         !.parent = Set(Set(@, t1.child["left"][n], succ),
                                        t1.child["right"][n], succ)]
  IN  [tree |-> PutInPlace(t2, n, succ), from |-> succ]

(* pthipth_avl_delete of a node with two children, whose successor takes   *)
(* its place, and of one with at most one child: the tree, and where the   *)
(* way back starts.                                                        *)
UnlinkInner(t, n) ==
  LET succ == Leftmost(t, t.child["right"][n])
      q    == t.parent[succ]
      rest == t.child["right"][succ]
      t1   == [Replace(t, q, succ, rest) EXCEPT !.parent = Set(@, rest, q)]
      t2   == [t1 EXCEPT !.child["left"][succ] = t1.child["left"][n],
                         !.child["right"][succ] = t1.child["right"][n],
                         !.parent = Set(Set(@, t1.child["left"][n], succ),
                                        t1.child["right"][n], succ)]
  IN  [tree |-> PutInPlace(t2, n, succ), from |-> IF q = n THEN succ ELSE q]

UnlinkOuter(t, n) ==
  LET only == IF t.child["left"][n] # NoNode THEN t.child["left"][n] ELSE t.child["right"][n]
  IN  [tree |-> PutInPlace(t, n, only), from |-> t.parent[n]]

(* __pthipth_free: pthipth_avl_delete up to the way back, and free.        *)
Delete(n) ==
  LET cut == IF \E s \in Sides : tree.child[s][n] = NoNode THEN UnlinkOuter(tree, n)
                                                           ELSE UnlinkInner(tree, n)
  IN
  /\ up = NoNode /\ n \in live
  /\ live' = live \ {n}
  /\ IF tree.root = NoNode THEN UNCHANGED <<tree, up>>
     ELSE /\ tree' = [cut.tree EXCEPT !.parent[n] = NoNode, !.height[n] = 0,
                                      !.child = [s \in Sides |-> [@[s] EXCEPT ![n] = NoNode]]]
          /\ up' = cut.from

(* One round of `while (parent)`.                                          *)
Climb ==
  LET r == Balance(tree, up) IN
  /\ up # NoNode
  /\ tree' = IF r.tree.parent[r.top] = NoNode THEN [r.tree EXCEPT !.root = r.top] ELSE r.tree
  /\ up' = r.tree.parent[r.top]
  /\ UNCHANGED live

Next == (\E n \in Nodes : Insert(n) \/ Delete(n)) \/ Climb

Spec == Init /\ [][Next]_vars

-----------------------------------------------------------------------------
(* The nodes of the tree.                                                  *)
InTree ==
  LET below[m \in Pointers] ==
        IF m = NoNode THEN {} ELSE {m} \cup UNION {below[tree.child[s][m]] : s \in Sides}
  IN  below[tree.root]

(* Between operations every node's height and parent are right, and no     *)
(* node is deeper on one side by more than one: "the tree rebalances if    *)
(* necessary to preserve avl properties" (documentation.md:194).           *)
Balanced ==
  up = NoNode =>
    /\ tree.root # NoNode => tree.parent[tree.root] = NoNode
    /\ \A n \in InTree :
         /\ tree = UpdateHeight(tree, n)
         /\ Lean(tree, n, "left") \in -1 .. 1
         /\ \A s \in Sides : tree.child[s][n] # NoNode => tree.parent[tree.child[s][n]] = n

(* A thread is found by its tid from its creation until it is freed: "each *)
(* node stores a Thread Control Block" (documentation.md:159), "returns a  *)
(* pointer to the node if found" (documentation.md:197), and nothing is    *)
(* found under the tid of no thread.                                       *)
EveryThreadFound ==
  up = NoNode =>
    \A n \in Nodes : Search(tree, Tid[n]) = IF n \in live THEN n ELSE NoNode

(* The tree holds the TCBs of a set: a rotation loses or adds none.        *)
Table == INSTANCE TcbTable WITH members <- InTree

ImplementsTable == Table!Spec
=============================================================================
