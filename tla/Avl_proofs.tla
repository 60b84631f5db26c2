----------------------------- MODULE Avl_proofs -----------------------------
(***************************************************************************)
(* The tree of pthipth_avl.c for any set of TCBs and any distinct tids: it *)
(* is in search order, holds the live TCBs and is balanced, at every step  *)
(* of an insertion or deletion but for the node that the way back has come *)
(* to.  Hence a thread is found from its creation until it is freed, and   *)
(* the tree implements a set.                                              *)
(*                                                                         *)
(* In this order: the shape of the tree and the rotations; the heights and *)
(* balance; the way back; insertion; deletion; the loops that walk down    *)
(* the tree; the theorems.                                                 *)
(***************************************************************************)
EXTENDS Avl, FiniteSetTheorems, WellFoundedInduction, TLAPS

(* The type of the variable tree.                                          *)
Trees == [root : Pointers, child : [Sides -> [Nodes -> Pointers]],
          parent : [Nodes -> Pointers], height : [Nodes -> Int]]

(* m lies on side s of n.                                                  *)
Before(s, m, n) == IF s = "left" THEN Tid[m] < Tid[n] ELSE Tid[n] < Tid[m]

(* The nodes at and below the pointer m, when D[n] are those at and below  *)
(* n.                                                                      *)
Below(D, m) == IF m = NoNode THEN {} ELSE D[m]

(* D says what child says: a node, and what its two subtrees hold.         *)
Split(t, D) ==
  \A n \in Nodes, s \in Sides :
    D[n] = {n} \cup Below(D, t.child[s][n]) \cup Below(D, t.child[Other(s)][n])

(* The search order: a whole subtree lies on its side of the node above    *)
(* it.                                                                     *)
Ordered(t, D) ==
  \A n \in Nodes, s \in Sides : \A m \in Below(D, t.child[s][n]) : Before(s, m, n)

(* child and parent agree in both directions.                              *)
Linked(t) ==
  /\ \A n \in Nodes, s \in Sides : t.child[s][n] # NoNode => t.parent[t.child[s][n]] = n
  /\ \A n \in Nodes : t.parent[n] # NoNode => \E s \in Sides : t.child[s][t.parent[n]] = n

(* What lies below a node lies below all that are above it, and the way up *)
(* from it stays there.                                                    *)
Nested(t, D) ==
  \A a \in Nodes : \A n \in D[a] : D[n] \subseteq D[a] /\ (n # a => t.parent[n] \in D[a])

(* The shape of the tree, also in the middle of an operation, and of the   *)
(* single TCBs outside it. D is a ghost of the proof: it says which nodes  *)
(* hang below each one and rules out cycles.                               *)
Forest(t, D) ==
  /\ t \in Trees /\ D \in [Nodes -> SUBSET Nodes]
  /\ Split(t, D) /\ Ordered(t, D) /\ Linked(t) /\ Nested(t, D)
  /\ \A n \in Nodes : IsFiniteSet(D[n])

-----------------------------------------------------------------------------
(* The two sides.                                                          *)
LEMMA SideFacts ==
  ASSUME NEW s \in Sides
  PROVE  /\ Other(s) \in Sides /\ Other(s) # s /\ Other(Other(s)) = s
         /\ \A q \in Sides : q = s \/ q = Other(s)
BY DEF Sides, Other

(* Tids are different, so TCBs are in a strict total order.                *)
LEMMA BeforeFacts ==
  ASSUME NEW s \in Sides, NEW m \in Nodes, NEW n \in Nodes
  PROVE  /\ ~Before(s, m, m)
         /\ Before(s, m, n) <=> Before(Other(s), n, m)
         /\ ~(Before(s, m, n) /\ Before(s, n, m))
         /\ m # n => Before(s, m, n) \/ Before(s, n, m)
         /\ \A k \in Nodes : Before(s, m, n) /\ Before(s, n, k) => Before(s, m, k)
<1>1. Tid \in [Nodes -> Nat] /\ \A a, b \in Nodes : Tid[a] = Tid[b] => a = b
  BY AvlAssumption
<1>2. CASE s = "left"
  BY <1>1, <1>2 DEF Before, Other
<1>3. CASE s = "right"
  BY <1>1, <1>3 DEF Before, Other
<1> QED BY <1>2, <1>3 DEF Sides

(* What the type of a tree says of its fields.                             *)
LEMMA TreeTypes ==
  ASSUME NEW t \in Trees
  PROVE  /\ \A s \in Sides, n \in Nodes : t.child[s][n] \in Nodes \cup {NoNode}
         /\ \A n \in Nodes : t.parent[n] \in Nodes \cup {NoNode} /\ t.height[n] \in Int
         /\ t.root \in Nodes \cup {NoNode}
         /\ NoNode \notin Nodes
BY AvlAssumption DEF Trees, Pointers

(* A child is another node, deeper, on its side, and below that side only. *)
LEMMA ForestFacts ==
  ASSUME NEW t, NEW D, Forest(t, D)
  PROVE  /\ \A n \in Nodes : \A m : m \in D[n] <=> m = n \/ \E s \in Sides : m \in Below(D, t.child[s][n])
         /\ \A n \in Nodes : n \in D[n]
         /\ \A n \in Nodes, s \in Sides :
              t.child[s][n] # NoNode =>
                /\ t.child[s][n] \in Nodes
                /\ t.child[s][n] # n /\ t.child[s][n] \in D[n] /\ t.child[s][n] # t.child[Other(s)][n]
                /\ D[t.child[s][n]] \subseteq D[n]
                /\ n \notin D[t.child[s][n]]
                /\ Before(s, t.child[s][n], n)
         /\ \A a, n \in Nodes : n \in D[a] /\ a \in D[n] => a = n
<1>1. t \in Trees /\ D \in [Nodes -> SUBSET Nodes]
  BY DEF Forest
<1>2. \A n \in Nodes : \A m : m \in D[n] <=> m = n \/ \E s \in Sides : m \in Below(D, t.child[s][n])
  <2> SUFFICES ASSUME NEW n \in Nodes, NEW m
               PROVE m \in D[n] <=> m = n \/ \E s \in Sides : m \in Below(D, t.child[s][n])
    OBVIOUS
  <2>1. "left" \in Sides /\ Other("left") = "right"
    BY DEF Sides, Other
  <2>2. D[n] = {n} \cup Below(D, t.child["left"][n]) \cup Below(D, t.child["right"][n])
    BY <2>1 DEF Forest, Split
  <2> QED BY <2>2 DEF Sides
<1>3. \A n \in Nodes : n \in D[n]
  BY <1>2
<1>4. ASSUME NEW n \in Nodes, NEW s \in Sides, t.child[s][n] # NoNode
      PROVE  /\ t.child[s][n] \in Nodes
             /\ t.child[s][n] # n /\ t.child[s][n] \in D[n] /\ t.child[s][n] # t.child[Other(s)][n]
             /\ D[t.child[s][n]] \subseteq D[n]
             /\ n \notin D[t.child[s][n]]
             /\ Before(s, t.child[s][n], n)
  <2>1. t.child[s][n] \in Nodes
    BY <1>1, <1>4, TreeTypes
  <2> DEFINE c == t.child[s][n]
  <2>2. c \in D[c] /\ Below(D, c) = D[c]
    BY <1>3, <1>4, <2>1 DEF Below
  <2>3. c \in D[n] /\ D[c] \subseteq D[n]
    BY <1>2, <2>2
  <2>4. \A m \in D[c] : Before(s, m, n)
    BY <2>2 DEF Forest, Ordered
  <2>5. n \notin D[c] /\ c # n
    BY <2>1, <2>2, <2>4, BeforeFacts
  <2>6. c # t.child[Other(s)][n]
    <3> SUFFICES ASSUME c = t.child[Other(s)][n] PROVE FALSE
      OBVIOUS
    <3>1. Before(Other(s), c, n)
      BY <2>2, SideFacts DEF Forest, Ordered
    <3> QED BY <2>1, <2>2, <2>4, <3>1, SideFacts, BeforeFacts
  <2> QED BY <2>1, <2>2, <2>3, <2>4, <2>5, <2>6
<1>5. ASSUME NEW a \in Nodes, NEW n \in Nodes, n \in D[a], a \in D[n], a # n
      PROVE  FALSE
  <2>1. PICK s \in Sides : n \in Below(D, t.child[s][a])
    BY <1>2, <1>5
  <2>2. t.child[s][a] \in Nodes /\ n \in D[t.child[s][a]]
    BY <1>1, <2>1, TreeTypes DEF Below
  <2>3. D[n] \subseteq D[t.child[s][a]]
    BY <2>2 DEF Forest, Nested
  <2>4. a \notin D[t.child[s][a]]
    BY <1>4, <2>2, AvlAssumption
  <2> QED BY <1>5, <2>3, <2>4
<1> QED BY <1>2, <1>3, <1>4, <1>5

-----------------------------------------------------------------------------
(* The number that updateHeight gives n.                                   *)
NewHeight(t, n) ==
  1 + (IF Lean(t, n, "left") > 0 THEN Height(t, t.child["left"][n])
                                 ELSE Height(t, t.child["right"][n]))

(* Heights are integers.                                                   *)
LEMMA HeightTypes ==
  ASSUME NEW t \in Trees
  PROVE  /\ \A m \in Pointers : Height(t, m) \in Int
         /\ \A n \in Nodes : NewHeight(t, n) \in Int
<1>1. \A m \in Pointers : Height(t, m) \in Int
  BY TreeTypes DEF Height, Pointers
<1>2. ASSUME NEW n \in Nodes PROVE NewHeight(t, n) \in Int
  <2>1. t.child["left"][n] \in Pointers /\ t.child["right"][n] \in Pointers
    BY TreeTypes DEF Pointers, Sides
  <2> QED BY <1>1, <2>1 DEF NewHeight
<1> QED BY <1>1, <1>2

(* updateHeight(n) changes the height of n and nothing else.               *)
LEMMA UpdateHeightIs ==
  ASSUME NEW t \in Trees, NEW n \in Nodes
  PROVE  /\ UpdateHeight(t, n) \in Trees
         /\ UpdateHeight(t, n).root = t.root
         /\ UpdateHeight(t, n).child = t.child
         /\ UpdateHeight(t, n).parent = t.parent
         /\ UpdateHeight(t, n).height = [t.height EXCEPT ![n] = NewHeight(t, n)]
<1>1. UpdateHeight(t, n) = [t EXCEPT !.height[n] = NewHeight(t, n)]
  BY DEF UpdateHeight, NewHeight
<1>2. NewHeight(t, n) \in Int
  BY HeightTypes
<1> QED BY <1>1, <1>2 DEF Trees

(* Replace, when old hangs on one side of p at most.                       *)
LEMMA ReplaceIs ==
  ASSUME NEW t \in Trees, NEW p \in Pointers, NEW old \in Nodes, NEW new \in Pointers,
         p # NoNode => \E s \in Sides : t.child[s][p] = old /\ t.child[Other(s)][p] # old
  PROVE  /\ Replace(t, p, old, new) \in Trees
         /\ Replace(t, p, old, new).root = t.root
         /\ Replace(t, p, old, new).parent = t.parent
         /\ Replace(t, p, old, new).height = t.height
         /\ \A s \in Sides, a \in Nodes :
              Replace(t, p, old, new).child[s][a] =
                IF a = p /\ t.child[s][a] = old THEN new ELSE t.child[s][a]
<1>1. CASE p = NoNode
  BY <1>1, AvlAssumption DEF Replace
<1>2. CASE p # NoNode
  <2> DEFINE q == IF t.child["left"][p] = old THEN "left" ELSE "right"
  <2>1. PICK s \in Sides : t.child[s][p] = old /\ t.child[Other(s)][p] # old
    BY <1>2
  <2>2. q = s
    BY <2>1 DEF Sides, Other
  <2>3. Replace(t, p, old, new) = [t EXCEPT !.child[s][p] = new]
    BY <1>2, <2>2 DEF Replace
  <2>4. p \in Nodes
    BY <1>2 DEF Pointers
  <2>5. /\ [t EXCEPT !.child[s][p] = new] \in Trees
        /\ [t EXCEPT !.child[s][p] = new].root = t.root
        /\ [t EXCEPT !.child[s][p] = new].parent = t.parent
        /\ [t EXCEPT !.child[s][p] = new].height = t.height
        /\ \A z \in Sides, a \in Nodes :
              [t EXCEPT !.child[s][p] = new].child[z][a] =
                IF a = p /\ z = s THEN new ELSE t.child[z][a]
    BY <2>4 DEF Trees
  <2>6. \A z \in Sides : z # s => z = Other(s)
    BY SideFacts
  <2> QED BY <2>1, <2>3, <2>5, <2>6
<1> QED BY <1>1, <1>2

(* The tree r is t after the rotation that puts x, the child of y on side  *)
(* s, above y.                                                             *)
Turned(t, r, y, s, x) ==
  LET u == t.child[Other(s)][x] IN
  /\ r \in Trees /\ r.root = t.root
  /\ \A q \in Sides, a \in Nodes :
       r.child[q][a] = IF a = x /\ q = Other(s) THEN y
                       ELSE IF a = y /\ q = s THEN u
                       ELSE IF t.child[q][a] = y THEN x ELSE t.child[q][a]
  /\ \A a \in Nodes :
       r.parent[a] = IF a = x THEN t.parent[y] ELSE IF a = y THEN x
                     ELSE IF a = u THEN y ELSE t.parent[a]
  /\ \A a \in Nodes : a # x /\ a # y => r.height[a] = t.height[a]

(* One more than the greater of two heights.                               *)
Taller(a, b) == 1 + (IF a > b THEN a ELSE b)

(* updateHeight takes the greater height, whichever side one asks from.    *)
LEMMA NewHeightIs ==
  ASSUME NEW t \in Trees, NEW n \in Nodes, NEW s \in Sides
  PROVE  NewHeight(t, n) = Taller(Height(t, t.child[s][n]), Height(t, t.child[Other(s)][n]))
<1> DEFINE l == Height(t, t.child["left"][n])
           r == Height(t, t.child["right"][n])
<1>1. l \in Int /\ r \in Int
  BY TreeTypes, HeightTypes DEF Pointers, Sides
<1>2. NewHeight(t, n) = 1 + (IF l - r > 0 THEN l ELSE r)
  BY DEF NewHeight, Lean, Other
<1> HIDE DEF l, r
<1>3. NewHeight(t, n) = Taller(l, r) /\ Taller(l, r) = Taller(r, l)
  BY <1>1, <1>2 DEF Taller
<1>4. CASE s = "left"
  BY <1>3, <1>4 DEF Other, l, r
<1>5. CASE s = "right"
  BY <1>3, <1>5 DEF Other, l, r
<1> QED BY <1>4, <1>5 DEF Sides

(* A node hangs on one side of its parent.                                 *)
LEMMA ParentFacts ==
  ASSUME NEW t, NEW D, Forest(t, D), NEW y \in Nodes
  PROVE  /\ \A a \in Nodes, q \in Sides : t.child[q][a] = y => a = t.parent[y]
         /\ t.parent[y] # NoNode =>
              /\ t.parent[y] \in Nodes /\ t.parent[y] # y
              /\ y \in D[t.parent[y]] /\ D[y] \subseteq D[t.parent[y]]
              /\ t.parent[y] \notin D[y]
              /\ \E q \in Sides : t.child[q][t.parent[y]] = y /\ t.child[Other(q)][t.parent[y]] # y
<1>1. t \in Trees
  BY DEF Forest
<1>2. \A a \in Nodes, q \in Sides : t.child[q][a] = y => a = t.parent[y]
  BY AvlAssumption DEF Forest, Linked
<1>3. ASSUME t.parent[y] # NoNode
      PROVE  /\ t.parent[y] \in Nodes /\ t.parent[y] # y
             /\ y \in D[t.parent[y]] /\ D[y] \subseteq D[t.parent[y]]
             /\ t.parent[y] \notin D[y]
             /\ \E q \in Sides : t.child[q][t.parent[y]] = y /\ t.child[Other(q)][t.parent[y]] # y
  <2>1. t.parent[y] \in Nodes
    BY <1>1, <1>3, TreeTypes
  <2>2. PICK q \in Sides : t.child[q][t.parent[y]] = y
    BY <1>3 DEF Forest, Linked
  <2>3. y # NoNode
    BY AvlAssumption
  <2> QED BY <2>1, <2>2, <2>3, ForestFacts
<1> QED BY <1>2, <1>3

(* The rotations do what Turned says, and leave the two turned nodes with  *)
(* heights computed from the heights below them.                           *)
LEMMA RotateIs ==
  ASSUME NEW t, NEW D, Forest(t, D), NEW y \in Nodes, NEW s \in Sides,
         t.child[s][y] # NoNode
  PROVE  LET x == t.child[s][y]
             r == Rotate(t, y, s)
             h == Taller(Height(t, t.child[Other(s)][x]), Height(t, t.child[Other(s)][y]))
         IN  /\ Turned(t, r, y, s, x)
             /\ r.height[y] = h
             /\ r.height[x] = Taller(Height(t, t.child[s][x]), h)
<1> DEFINE x == t.child[s][y]
           o == Other(s)
           u == t.child[o][x]
           p == t.parent[y]
           h == Taller(Height(t, u), Height(t, t.child[o][y]))
           t1 == [t EXCEPT !.child[o][x] = y, !.child[s][y] = u, !.parent = Set(@, u, y)]
           t2a == Replace(t1, p, y, x)
           t2 == [t2a EXCEPT !.parent = [@ EXCEPT ![x] = p, ![y] = x]]
           t3 == UpdateHeight(t2, y)
           t4 == UpdateHeight(t3, x)
<1>1. t \in Trees /\ o \in Sides /\ o # s /\ \A q \in Sides : q = s \/ q = o
  BY SideFacts DEF Forest
<1>2. x \in Nodes /\ x # y /\ x \in D[y] /\ y \notin D[x] /\ x # t.child[o][y]
  BY ForestFacts
<1>3. u \in Pointers /\ p \in Pointers /\ t.child[o][y] \in Pointers
  BY <1>1, <1>2, TreeTypes DEF Pointers
<1>4. u # NoNode => u \in Nodes /\ u # x /\ u # y /\ u \in D[x] /\ x \notin D[u] /\ u # t.child[s][x]
  BY <1>1, <1>2, ForestFacts
<1>5. p # x /\ p # y
  <2>1. p # NoNode => y \in D[p]
    BY ParentFacts
  <2> QED BY <1>2, <2>1, AvlAssumption, ParentFacts
<1>6. /\ t1 \in Trees /\ t1.root = t.root /\ t1.height = t.height
      /\ \A q \in Sides, a \in Nodes :
           t1.child[q][a] = IF a = x /\ q = o THEN y ELSE IF a = y /\ q = s THEN u
                            ELSE t.child[q][a]
      /\ \A a \in Nodes : t1.parent[a] = IF a = u THEN y ELSE t.parent[a]
  <2>1. /\ Set(t.parent, u, y) \in [Nodes -> Pointers]
        /\ \A a \in Nodes : Set(t.parent, u, y)[a] = IF a = u THEN y ELSE t.parent[a]
    BY <1>1, <1>3, AvlAssumption DEF Set, Trees, Pointers
  <2>2. t1 = [t EXCEPT !.child[o][x] = y, !.child[s][y] = u, !.parent = Set(t.parent, u, y)]
    BY <1>1 DEF Trees
  <2>3. y \in Pointers /\ o # s
    BY <1>1 DEF Pointers
  <2> DEFINE c1 == [t.child EXCEPT ![o][x] = y, ![s][y] = u]
             p1 == Set(t.parent, u, y)
  <2>4. t1 = [t EXCEPT !.child = c1, !.parent = p1]
    BY <1>1, <2>2 DEF Trees
  <2> HIDE DEF x, u, p, t1, o
  <2>5. /\ c1 \in [Sides -> [Nodes -> Pointers]]
        /\ \A q \in Sides, a \in Nodes :
             c1[q][a] = IF a = x /\ q = o THEN y ELSE IF a = y /\ q = s THEN u
                        ELSE t.child[q][a]
    BY <1>1, <1>2, <1>3, <2>3 DEF Trees
  <2> HIDE DEF c1, p1
  <2>6. /\ t1 \in Trees /\ t1.root = t.root /\ t1.height = t.height
        /\ t1.child = c1 /\ t1.parent = p1
    BY <1>1, <2>1, <2>4, <2>5 DEF Trees, p1
  <2> QED BY <2>1, <2>5, <2>6 DEF p1
<1>7. /\ t2a \in Trees /\ t2a.root = t.root /\ t2a.height = t.height /\ t2a.parent = t1.parent
      /\ \A q \in Sides, a \in Nodes :
           t2a.child[q][a] = IF a = p /\ t1.child[q][a] = y THEN x ELSE t1.child[q][a]
  <2>1. p # NoNode => \E q \in Sides : t1.child[q][p] = y /\ t1.child[Other(q)][p] # y
    <3> SUFFICES ASSUME p # NoNode PROVE \E q \in Sides : t1.child[q][p] = y /\ t1.child[Other(q)][p] # y
      OBVIOUS
    <3>1. PICK q \in Sides : t.child[q][p] = y /\ t.child[Other(q)][p] # y
      BY ParentFacts
    <3>2. p \in Nodes
      BY ParentFacts
    <3>3. t1.child[q][p] = t.child[q][p] /\ t1.child[Other(q)][p] = t.child[Other(q)][p]
      BY <1>5, <1>6, <3>2, SideFacts
    <3> QED BY <3>1, <3>3
  <2>2. x \in Pointers
    BY <1>2 DEF Pointers
  <2> HIDE DEF t1, x, p, u, o
  <2>3. t1 \in Trees /\ p \in Pointers
    BY <1>3, <1>6
  <2> QED BY <1>6, <2>1, <2>2, <2>3, ReplaceIs
<1>8. /\ t2 \in Trees /\ t2.root = t.root /\ t2.height = t.height /\ t2.child = t2a.child
      /\ \A a \in Nodes : t2.parent[a] = IF a = x THEN p ELSE IF a = y THEN x ELSE t1.parent[a]
  <2>1. x \in Pointers
    BY <1>2 DEF Pointers
  <2> HIDE DEF t1, t2a
  <2> QED BY <1>2, <1>3, <1>7, <2>1 DEF Trees
<1>9. /\ t3 \in Trees /\ t3.root = t.root /\ t3.child = t2.child /\ t3.parent = t2.parent
      /\ t3.height = [t.height EXCEPT ![y] = NewHeight(t2, y)]
  <2> HIDE DEF t2
  <2> QED BY <1>8, UpdateHeightIs
<1>10. /\ t4 \in Trees /\ t4.root = t.root /\ t4.child = t2.child /\ t4.parent = t2.parent
       /\ t4.height = [t3.height EXCEPT ![x] = NewHeight(t3, x)]
  <2> HIDE DEF t3, t2
  <2> QED BY <1>2, <1>9, UpdateHeightIs
<1>11. Rotate(t, y, s) = t4
  BY DEF Rotate
<1> HIDE DEF t1, t2a, t2, t3, t4
<1>12. \A q \in Sides, a \in Nodes :
         t4.child[q][a] = IF a = x /\ q = o THEN y
                          ELSE IF a = y /\ q = s THEN u
                          ELSE IF t.child[q][a] = y THEN x ELSE t.child[q][a]
  <2> SUFFICES ASSUME NEW q \in Sides, NEW a \in Nodes
               PROVE t4.child[q][a] = IF a = x /\ q = o THEN y
                          ELSE IF a = y /\ q = s THEN u
                          ELSE IF t.child[q][a] = y THEN x ELSE t.child[q][a]
    OBVIOUS
  <2>1. t.child[q][a] = y => a = p
    BY ParentFacts
  <2>2. t4.child[q][a] = IF a = p /\ t1.child[q][a] = y THEN x ELSE t1.child[q][a]
    BY <1>7, <1>8, <1>10
  <2>3. t1.child[q][a] = IF a = x /\ q = o THEN y ELSE IF a = y /\ q = s THEN u
                            ELSE t.child[q][a]
    BY <1>6
  <2> HIDE DEF x, p, u, o
  <2> QED BY <1>5, <2>1, <2>2, <2>3
<1>13. \A a \in Nodes : t4.parent[a] = IF a = x THEN p ELSE IF a = y THEN x
                                      ELSE IF a = u THEN y ELSE t.parent[a]
  BY <1>6, <1>8, <1>10
<1>14. t4.height[y] = h
  <2>1. t4.height[y] = NewHeight(t2, y)
    BY <1>1, <1>2, <1>9, <1>10 DEF Trees
  <2>2. NewHeight(t2, y) = Taller(Height(t2, t2.child[s][y]), Height(t2, t2.child[o][y]))
    BY <1>8, NewHeightIs
  <2>3. t2.child[s][y] = u /\ t2.child[o][y] = t.child[o][y]
    <3>1. t4.child[s][y] = u
      BY <1>2, <1>12
    <3>2. t.child[o][y] # y
      BY <1>1, AvlAssumption, ForestFacts
    <3>3. t4.child[o][y] = t.child[o][y]
      BY <1>1, <1>2, <1>12, <3>2
    <3> QED BY <1>10, <3>1, <3>3
  <2>4. \A m : Height(t2, m) = Height(t, m)
    BY <1>8 DEF Height
  <2> QED BY <2>1, <2>2, <2>3, <2>4
<1>15. t4.height[x] = Taller(Height(t, t.child[s][x]), h)
  <2>1. t4.height[x] = NewHeight(t3, x)
    BY <1>1, <1>2, <1>9, <1>10 DEF Trees
  <2>2. NewHeight(t3, x) = Taller(Height(t3, t3.child[s][x]), Height(t3, t3.child[o][x]))
    BY <1>2, <1>9, NewHeightIs
  <2>3. t.child[s][x] # y /\ t.child[s][x] \in Pointers
    <3>1. t.child[s][x] # y
      BY <1>2, AvlAssumption, ParentFacts, ForestFacts
    <3> QED BY <1>1, <1>2, <3>1, TreeTypes DEF Pointers
  <2>4. t3.child[s][x] = t.child[s][x] /\ t3.child[o][x] = y
    BY <1>1, <1>2, <1>9, <1>10, <1>12, <2>3
  <2>5. \A m \in Nodes : t3.height[m] = IF m = y THEN h ELSE t.height[m]
    <3>1. t4.height[y] = t3.height[y]
      BY <1>1, <1>2, <1>9, <1>10 DEF Trees
    <3> QED BY <1>1, <1>9, <1>14, <3>1 DEF Trees
  <2>6. Height(t3, t.child[s][x]) = Height(t, t.child[s][x])
    BY <2>3, <2>5 DEF Height, Pointers
  <2>7. Height(t3, y) = h
    BY <2>5, AvlAssumption DEF Height
  <2> QED BY <2>1, <2>2, <2>4, <2>6, <2>7
<1>16. \A a \in Nodes : a # x /\ a # y => t4.height[a] = t.height[a]
  BY <1>1, <1>2, <1>9, <1>10 DEF Trees
<1>17. Turned(t, t4, y, s, x)
  BY <1>10, <1>12, <1>13, <1>16 DEF Turned
<1> QED BY <1>11, <1>14, <1>15, <1>17

-----------------------------------------------------------------------------
(* D after the rotation: x holds what y held, y what was left to it.       *)
Lifted(t, D, y, s) ==
  LET x == t.child[s][y]
  IN  [D EXCEPT ![x] = D[y],
                ![y] = {y} \cup Below(D, t.child[Other(s)][x]) \cup Below(D, t.child[Other(s)][y])]

(* A rotation keeps the search order, the pointers to parents and the      *)
(* nodes below every node but the two it turns.                            *)
LEMMA RotateForest ==
  ASSUME NEW t, NEW D, Forest(t, D), NEW y \in Nodes, NEW s \in Sides,
         t.child[s][y] # NoNode, NEW r, Turned(t, r, y, s, t.child[s][y])
  PROVE  Forest(r, Lifted(t, D, y, s))
<1> DEFINE x == t.child[s][y]
           o == Other(s)
           u == t.child[o][x]
           w == t.child[s][x]
           b == t.child[o][y]
           p == t.parent[y]
           E == Lifted(t, D, y, s)
<1>1. t \in Trees /\ o \in Sides /\ o # s /\ Other(o) = s /\ \A q \in Sides : q = s \/ q = o
  BY SideFacts DEF Forest
<1>2. D \in [Nodes -> SUBSET Nodes] /\ NoNode \notin Nodes
  BY AvlAssumption DEF Forest
<1>3. x \in Nodes /\ x # y /\ x \in D[y] /\ y \notin D[x] /\ x # b /\ D[x] \subseteq D[y]
  BY ForestFacts
<1>4. \A m \in {u, w, b} : m \in Pointers
  BY <1>1, <1>3, TreeTypes DEF Pointers
<1>5. /\ u # NoNode => u \in Nodes /\ u # x /\ u # y /\ u \in D[x] /\ x \notin D[u] /\ u # w
      /\ w # NoNode => w \in Nodes /\ w # x /\ w # y /\ x \notin D[w]
      /\ b # NoNode => b \in Nodes /\ b # x /\ b # y /\ y \notin D[b] /\ b \in D[y]
  BY <1>1, <1>3, ForestFacts
<1>6. /\ r \in Trees
      /\ \A q \in Sides, a \in Nodes :
           r.child[q][a] = IF a = x /\ q = o THEN y ELSE IF a = y /\ q = s THEN u
                           ELSE IF t.child[q][a] = y THEN x ELSE t.child[q][a]
      /\ \A a \in Nodes : r.parent[a] = IF a = x THEN p ELSE IF a = y THEN x
                                        ELSE IF a = u THEN y ELSE t.parent[a]
  BY DEF Turned
<1>7. /\ E \in [Nodes -> SUBSET Nodes]
      /\ E[x] = D[y]
      /\ E[y] = {y} \cup Below(D, u) \cup Below(D, b)
      /\ \A a \in Nodes : a # x /\ a # y => E[a] = D[a]
  <2>1. Below(D, u) \subseteq Nodes /\ Below(D, b) \subseteq Nodes
    BY <1>2, <1>4 DEF Below, Pointers
  <2> QED BY <1>2, <1>3, <2>1 DEF Lifted
<1>8. /\ D[y] = {y} \cup D[x] \cup Below(D, b)
      /\ D[x] = {x} \cup Below(D, w) \cup Below(D, u)
  <2>1. D[y] = {y} \cup Below(D, x) \cup Below(D, b)
    BY DEF Forest, Split
  <2>2. D[x] = {x} \cup Below(D, w) \cup Below(D, u)
    BY <1>3 DEF Forest, Split
  <2> QED BY <1>2, <1>3, <2>1, <2>2 DEF Below
<1>9. \A q \in Sides, a \in Nodes : t.child[q][a] = y => a = p /\ a # x /\ a # y /\ a \notin D[y]
  <2>1. \A q \in Sides, a \in Nodes : t.child[q][a] = y => a = p
    BY ParentFacts
  <2> QED BY <1>2, <1>3, <2>1, ParentFacts
<1>10. \A q \in Sides, a \in Nodes : t.child[q][a] = x => a = y
  BY <1>1, <1>2, <1>3 DEF Forest, Linked
<1>11. r.child[o][x] = y /\ r.child[s][x] = w /\ r.child[s][y] = u /\ r.child[o][y] = b
  <2>1. w # y /\ b # y
    BY <1>2, <1>5
  <2> HIDE DEF x, o, u, w, b
  <2>2. r.child[o][x] = y /\ r.child[s][y] = u
    BY <1>1, <1>3, <1>6
  <2>3. r.child[s][x] = t.child[s][x] /\ r.child[o][y] = t.child[o][y]
    BY <1>1, <1>3, <1>6, <2>1 DEF w, b
  <2> QED BY <2>2, <2>3 DEF w, b
<1>12. ASSUME NEW q \in Sides, NEW a \in Nodes, a # x, a # y
       PROVE  /\ r.child[q][a] = IF t.child[q][a] = y THEN x ELSE t.child[q][a]
              /\ Below(E, r.child[q][a]) = Below(D, t.child[q][a])
  <2>1. r.child[q][a] = IF t.child[q][a] = y THEN x ELSE t.child[q][a]
    BY <1>6, <1>12
  <2>2. t.child[q][a] # x /\ t.child[q][a] \in Pointers
    BY <1>1, <1>10, <1>12, TreeTypes DEF Pointers
  <2> HIDE DEF x, E
  <2> QED BY <1>2, <1>3, <1>7, <2>1, <2>2 DEF Below, Pointers
<1>13. /\ Below(E, r.child[o][x]) = E[y] /\ Below(E, r.child[s][x]) = Below(D, w)
       /\ Below(E, r.child[s][y]) = Below(D, u) /\ Below(E, r.child[o][y]) = Below(D, b)
  <2> HIDE DEF E, x, u, w, b
  <2> QED BY <1>2, <1>3, <1>4, <1>5, <1>7, <1>11 DEF Below, Pointers
<1> HIDE DEF E, x, u, w, b, p, o
<1>14. Split(r, E)
  <2> SUFFICES ASSUME NEW n \in Nodes, NEW q \in Sides
               PROVE E[n] = {n} \cup Below(E, r.child[q][n]) \cup Below(E, r.child[Other(q)][n])
    BY DEF Split
  <2>1. CASE n = x
    <3>1. E[x] = {x} \cup Below(E, r.child[s][x]) \cup Below(E, r.child[o][x])
      BY <1>7, <1>8, <1>13
    <3> QED BY <1>1, <2>1, <3>1 DEF o
  <2>2. CASE n = y
    <3>1. E[y] = {y} \cup Below(E, r.child[s][y]) \cup Below(E, r.child[o][y])
      BY <1>7, <1>13
    <3> QED BY <1>1, <2>2, <3>1 DEF o
  <2>3. CASE n # x /\ n # y
    <3>1. E[n] = D[n]
      BY <1>7, <2>3
    <3>2. /\ Below(E, r.child[q][n]) = Below(D, t.child[q][n])
          /\ Below(E, r.child[Other(q)][n]) = Below(D, t.child[Other(q)][n])
      BY <1>12, <2>3, SideFacts
    <3> QED BY <3>1, <3>2 DEF Forest, Split
  <2> QED BY <2>1, <2>2, <2>3
<1>15. Ordered(r, E)
  <2> SUFFICES ASSUME NEW n \in Nodes, NEW q \in Sides, NEW m \in Below(E, r.child[q][n])
               PROVE Before(q, m, n)
    BY DEF Ordered
  <2>0. \A a \in Nodes, z \in Sides : \A k \in Below(D, t.child[z][a]) : Before(z, k, a)
    BY DEF Forest, Ordered
  <2>1. CASE n = x /\ q = s
    <3>1. m \in Below(D, t.child[s][x])
      BY <1>13, <2>1 DEF w
    <3> QED BY <1>3, <2>0, <2>1, <3>1
  <2>2. CASE n = x /\ q = o
    <3>1. m = y \/ m \in Below(D, u) \/ m \in Below(D, b)
      BY <1>7, <1>13, <2>2
    <3>2. Before(s, x, y) /\ Before(o, y, x)
      <4>1. Before(s, x, y)
        BY <1>2, <1>3, ForestFacts DEF x
      <4> QED BY <1>3, <4>1, BeforeFacts DEF o
    <3>3. ASSUME m \in Below(D, u) PROVE Before(o, m, x)
      BY <1>1, <1>3, <2>0, <3>3 DEF u
    <3>4. ASSUME m \in Below(D, b) PROVE Before(o, m, x)
      <4>1. Before(o, m, y) /\ m \in Nodes
        BY <1>1, <1>2, <1>4, <2>0, <3>4 DEF b, Below, Pointers
      <4> QED BY <1>1, <1>3, <3>2, <4>1, BeforeFacts
    <3> QED BY <2>2, <3>1, <3>2, <3>3, <3>4
  <2>3. CASE n = y /\ q = s
    <3>1. m \in Below(D, u) /\ m \in D[x]
      BY <1>8, <1>13, <2>3
    <3>2. m \in Below(D, t.child[s][y])
      BY <1>2, <1>3, <3>1 DEF Below, x
    <3> QED BY <2>0, <2>3, <3>2
  <2>4. CASE n = y /\ q = o
    <3>1. m \in Below(D, t.child[o][y])
      BY <1>13, <2>4 DEF b
    <3> QED BY <1>1, <2>0, <2>4, <3>1
  <2>5. CASE n # x /\ n # y
    <3>1. m \in Below(D, t.child[q][n])
      BY <1>12, <2>5
    <3> QED BY <2>0, <3>1
  <2> QED BY <1>1, <2>1, <2>2, <2>3, <2>4, <2>5
<1>16. Linked(r)
  <2>1. ASSUME NEW n \in Nodes, NEW q \in Sides, r.child[q][n] # NoNode
        PROVE  r.parent[r.child[q][n]] = n
    <3>1. CASE n = x /\ q = o
      BY <1>3, <1>6, <1>11, <3>1
    <3>2. CASE n = x /\ q = s
      <4>1. t.parent[w] = x /\ w \in Nodes /\ w # u
        BY <1>3, <1>5, <1>11, <2>1, <3>2 DEF Forest, Linked, w
      <4> QED BY <1>5, <1>6, <1>11, <2>1, <3>2, <4>1
    <3>3. CASE n = y /\ q = s
      BY <1>5, <1>6, <1>11, <2>1, <3>3
    <3>4. CASE n = y /\ q = o
      <4>1. t.parent[b] = y /\ b \in Nodes
        BY <1>1, <1>5, <1>11, <2>1, <3>4 DEF Forest, Linked, b
      <4> QED BY <1>5, <1>6, <1>11, <2>1, <3>4, <4>1
    <3>5. CASE n # x /\ n # y
      <4>1. r.child[q][n] = IF t.child[q][n] = y THEN x ELSE t.child[q][n]
        BY <1>12, <3>5
      <4>2. CASE t.child[q][n] = y
        BY <1>3, <1>6, <1>9, <4>1, <4>2
      <4>3. CASE t.child[q][n] # y
        <5> DEFINE c == t.child[q][n]
        <5>1. c \in Nodes /\ t.parent[c] = n /\ c # x
          BY <1>1, <1>3, <1>10, <2>1, <3>5, <4>1, <4>3, TreeTypes DEF Forest, Linked
        <5>2. u # NoNode => t.parent[u] = x
          BY <1>1, <1>3 DEF Forest, Linked, u
        <5>3. c # u
          BY <1>2, <3>5, <5>1, <5>2
        <5> HIDE DEF c
        <5>4. r.parent[c] = n
          BY <1>6, <4>3, <5>1, <5>3 DEF c
        <5> QED BY <4>1, <4>3, <5>4 DEF c
      <4> QED BY <4>2, <4>3
    <3> QED BY <1>1, <3>1, <3>2, <3>3, <3>4, <3>5
  <2>2. ASSUME NEW n \in Nodes, r.parent[n] # NoNode
        PROVE  \E q \in Sides : r.child[q][r.parent[n]] = n
    <3>1. CASE n = x
      <4>1. r.parent[n] = p /\ p \in Nodes
        BY <1>6, <2>2, <3>1, ParentFacts DEF p
      <4>2. PICK q \in Sides : t.child[q][p] = y
        BY <2>2, <4>1, ParentFacts DEF p
      <4>3. p # x /\ p # y
        BY <1>9, <4>1, <4>2
      <4> QED BY <1>12, <3>1, <4>1, <4>2, <4>3
    <3>2. CASE n = y
      BY <1>1, <1>3, <1>6, <1>11, <3>2
    <3>3. CASE n = u
      BY <1>2, <1>5, <1>6, <1>11, <3>3
    <3>4. CASE n # x /\ n # y /\ n # u
      <4>1. r.parent[n] = t.parent[n]
        BY <1>6, <3>4
      <4>2. PICK q \in Sides : t.child[q][t.parent[n]] = n
        BY <2>2, <4>1 DEF Forest, Linked
      <4>3. t.parent[n] \in Nodes
        BY <1>1, <2>2, <4>1, TreeTypes
      <4>4. r.child[q][t.parent[n]] = n
        BY <1>1, <1>6, <3>4, <4>2, <4>3 DEF u, x
      <4> QED BY <4>1, <4>4
    <3> QED BY <3>1, <3>2, <3>3, <3>4
  <2> QED BY <2>1, <2>2 DEF Linked
<1>17. E[y] \subseteq D[y] /\ x \notin E[y] /\ E[x] = D[y]
  <2>1. x \notin Below(D, u)
    BY <1>5 DEF Below
  <2>2. x \notin Below(D, b)
    <3>1. ASSUME x \in Below(D, b) PROVE FALSE
      <4>1. Before(o, x, y) /\ Before(s, x, y)
        BY <1>1, <1>2, <1>3, <3>1, ForestFacts DEF Forest, Ordered, x, b
      <4> QED BY <1>3, <4>1, BeforeFacts DEF o
    <3> QED BY <3>1
  <2> QED BY <1>3, <1>7, <1>8, <2>1, <2>2
<1>18. Nested(r, E)
  <2>0. \A a \in Nodes : \A n \in D[a] : D[n] \subseteq D[a] /\ (n # a => t.parent[n] \in D[a])
    BY DEF Forest, Nested
  <2> SUFFICES ASSUME NEW a \in Nodes, NEW n \in E[a], n # a
               PROVE  E[n] \subseteq E[a] /\ r.parent[n] \in E[a]
    BY DEF Nested
  <2>1. n \in Nodes
    BY <1>7
  <2>2. E[n] \subseteq D[n] \/ n = x
    BY <1>7, <1>17, <2>1
  <2>3. CASE a = x
    <3>1. n \in D[y] /\ E[a] = D[y]
      BY <1>17, <2>3
    <3>2. E[n] \subseteq D[y]
      BY <1>17, <2>0, <2>2, <3>1
    <3>3. CASE n = y
      BY <1>3, <1>6, <3>1, <3>2, <3>3
    <3>4. CASE n = u
      BY <1>2, <1>5, <1>6, <2>1, <2>3, <3>1, <3>2, <3>4, ForestFacts
    <3>5. CASE n # y /\ n # u
      <4>1. r.parent[n] = t.parent[n]
        BY <1>6, <2>1, <2>3, <3>5
      <4> QED BY <2>0, <3>1, <3>2, <3>5, <4>1
    <3> QED BY <3>3, <3>4, <3>5
  <2>4. CASE a = y
    <3>1. n \in Below(D, u) \/ n \in Below(D, b)
      BY <1>7, <2>4
    <3>2. n # x
      BY <1>17, <2>4
    <3>3. E[n] = D[n]
      BY <1>7, <2>1, <2>4, <3>2
    <3>4. ASSUME NEW c \in {u, b}, n \in Below(D, c) PROVE E[n] \subseteq E[a] /\ r.parent[n] \in E[a]
      <4>1. c \in Nodes /\ n \in D[c] /\ D[c] \subseteq E[y]
        BY <1>4, <1>7, <3>4 DEF Below, Pointers
      <4>2. E[n] \subseteq E[a]
        BY <2>0, <2>4, <3>3, <4>1
      <4>3. CASE n = c
        <5>1. c = u => r.parent[n] = y
          BY <1>3, <1>5, <1>6, <2>1, <2>4, <3>2, <4>3
        <5>2. c = b => r.parent[n] = y
          <6>1. ASSUME c = b PROVE r.parent[n] = y
            <7>1. t.parent[b] = y /\ b \in Nodes
              BY <1>1, <1>2, <4>1, <6>1 DEF Forest, Linked, b
            <7> QED BY <1>6, <2>1, <2>4, <3>2, <4>3, <6>1, <7>1
          <6> QED BY <6>1
        <5>3. y \in E[y]
          BY <1>7
        <5> QED BY <2>4, <4>2, <5>1, <5>2, <5>3
      <4>4. CASE n # c
        <5>1. t.parent[n] \in D[c]
          BY <2>0, <4>1, <4>4
        <5>2. n # u
          <6>1. ASSUME n = u PROVE FALSE
            <7>1. t.parent[u] = x /\ c = b
              BY <1>1, <1>2, <1>3, <2>1, <3>4, <4>4, <6>1 DEF Forest, Linked, u
            <7>2. x \in E[y]
              BY <4>1, <5>1, <6>1, <7>1
            <7> QED BY <1>17, <7>2
          <6> QED BY <6>1
        <5>3. r.parent[n] = t.parent[n]
          BY <1>6, <2>1, <2>4, <3>2, <5>2
        <5> QED BY <2>4, <4>1, <4>2, <5>1, <5>3
      <4> QED BY <4>3, <4>4
    <3> QED BY <3>1, <3>4
  <2>5. CASE a # x /\ a # y
    <3>1. E[a] = D[a] /\ n \in D[a] /\ t.parent[n] \in D[a] /\ D[n] \subseteq D[a]
      BY <1>7, <2>0, <2>5
    <3>2. x \in D[a] => y \in D[a] /\ D[y] \subseteq D[a]
      <4>1. t.parent[x] = y
        BY <1>2, <1>3 DEF Forest, Linked, x
      <4> QED BY <1>3, <2>0, <2>5, <4>1
    <3>3. E[n] \subseteq D[a]
      BY <1>17, <2>2, <3>1, <3>2
    <3>4. CASE n = x
      <4>1. r.parent[n] = p /\ y \in D[a]
        BY <1>6, <3>1, <3>2, <3>4, <2>1
      <4>2. p \in D[a]
        BY <2>0, <2>5, <4>1 DEF p
      <4> QED BY <3>1, <3>3, <4>1, <4>2
    <3>5. CASE n = y
      <4>1. r.parent[n] = x
        BY <1>3, <1>6, <3>5
      <4> QED BY <1>3, <3>1, <3>3, <3>5, <4>1
    <3>6. CASE n = u /\ n # x /\ n # y
      <4>1. r.parent[n] = y /\ t.parent[n] = x
        BY <1>1, <1>2, <1>3, <1>6, <2>1, <3>6 DEF Forest, Linked, u
      <4> QED BY <3>1, <3>2, <3>3, <4>1
    <3>7. CASE n # u /\ n # x /\ n # y
      <4>1. r.parent[n] = t.parent[n]
        BY <1>6, <2>1, <3>7
      <4> QED BY <3>1, <3>3, <4>1
    <3> QED BY <3>4, <3>5, <3>6, <3>7
  <2> QED BY <2>3, <2>4, <2>5
<1>19. \A n \in Nodes : IsFiniteSet(E[n])
  <2>1. \A n \in Nodes : IsFiniteSet(D[n])
    BY DEF Forest
  <2>2. IsFiniteSet(E[y])
    BY <1>17, <2>1, FS_Subset
  <2> QED BY <1>7, <2>1, <2>2
<1> QED BY <1>6, <1>7, <1>14, <1>15, <1>16, <1>18, <1>19 DEF Forest, E

-----------------------------------------------------------------------------
(* The height H of a subtree, 0 of an empty one.                           *)
HeightOf(H, n) == IF n = NoNode THEN 0 ELSE H[n]

(* A node of height h over subtrees of heights l and r, balanced.          *)
Level(h, l, r) == l - r \in -1 .. 1 /\ h = Taller(l, r)

(* The node a is balanced, and H[a] is its height.                         *)
LevelAt(t, H, a) ==
  \A s \in Sides :
    Level(H[a], HeightOf(H, t.child[s][a]), HeightOf(H, t.child[Other(s)][a]))

(* Level but for what one subtree has gained or lost.                      *)
Off(h, l, r) == \E d \in -1 .. 1 : Level(h, l + d, r) \/ Level(h, l, r + d)

(* The same of a node, from either side.                                   *)
OffAt(t, H, a) ==
  \A s \in Sides :
    Off(H[a], HeightOf(H, t.child[s][a]), HeightOf(H, t.child[Other(s)][a]))

(* The tree below rt holds the TCBs of L; every other TCB is by itself.    *)
Planted(t, D, L, rt) ==
  /\ rt \in Pointers /\ L = Below(D, rt)
  /\ rt # NoNode => t.parent[rt] = NoNode
  /\ \A n \in Nodes \ L : D[n] = {n} /\ t.parent[n] = NoNode

(* H, the second ghost, is the height every node had before the operation  *)
(* or has after its step of the way back: with it the tree is balanced,    *)
(* but for u, where the way back has come to and which is off by one level *)
(* on one side. Below u, and away from the way up, the field height is     *)
(* right.                                                                  *)
Leveled(t, D, H, L, u) ==
  /\ H \in [Nodes -> Int] /\ u \in L \cup {NoNode}
  /\ \A n \in L : H[n] >= 1 /\ (u \notin D[n] => t.height[n] = H[n])
  /\ \A n \in L \ {u} : LevelAt(t, H, n)
  /\ u # NoNode => OffAt(t, H, u)

(* What balance(u) must do: the nodes below u stay the same, with top in   *)
(* the place of u, all of them balanced and with the right height, and the *)
(* whole subtree at most one level off what it was. Nothing else changes.  *)
Settled(t, D, H, u, r, top, E, G) ==
  /\ Forest(r, E) /\ G \in [Nodes -> Int] /\ r.root = t.root
  /\ top \in D[u] /\ E[top] = D[u] /\ r.parent[top] = t.parent[u]
  /\ \A a \in Nodes \ D[u] :
       /\ E[a] = D[a] /\ G[a] = H[a]
       /\ r.height[a] = t.height[a] /\ r.parent[a] = t.parent[a]
       /\ \A q \in Sides : r.child[q][a] = IF t.child[q][a] = u THEN top ELSE t.child[q][a]
  /\ \A a \in D[u] : G[a] >= 1 /\ r.height[a] = G[a] /\ LevelAt(r, G, a)
  /\ G[top] - H[u] \in -1 .. 1

(* Arithmetic of heights: a subtree that gains or loses one level leaves   *)
(* the node above off by one, and what being off can be.                   *)
LEMMA LevelNumbers ==
  ASSUME NEW h \in Int, NEW l \in Int, NEW r \in Int
  PROVE  /\ Level(h, l, r) <=> Level(h, r, l)
         /\ Off(h, l, r) <=> Off(h, r, l)
         /\ Level(h, l, r) => Off(h, l, r)
         /\ Off(h, l, r) => l - r \in -2 .. 2 /\ h - Taller(l, r) \in -1 .. 1
         /\ \A k \in Int : k - l \in -1 .. 1 /\ Level(h, l, r) => Off(h, k, r)
         /\ \A k \in Int : k - r \in -1 .. 1 /\ Level(h, l, r) => Off(h, l, k)
<1>1. Level(h, l, r) <=> Level(h, r, l)
  BY DEF Level, Taller
<1>2. Off(h, l, r) <=> \/ Level(h, l, r) \/ Level(h, l - 1, r) \/ Level(h, l + 1, r)
                       \/ Level(h, l, r - 1) \/ Level(h, l, r + 1)
  BY DEF Off, Level, Taller
<1>3. Off(h, r, l) <=> \/ Level(h, r, l) \/ Level(h, r - 1, l) \/ Level(h, r + 1, l)
                       \/ Level(h, r, l - 1) \/ Level(h, r, l + 1)
  BY DEF Off, Level, Taller
<1>4. Off(h, l, r) <=> Off(h, r, l)
  BY <1>2, <1>3 DEF Level, Taller
<1>5. Off(h, l, r) => l - r \in -2 .. 2 /\ h - Taller(l, r) \in -1 .. 1
  BY <1>2 DEF Level, Taller
<1>6. ASSUME NEW k \in Int, k - l \in -1 .. 1, Level(h, l, r) PROVE Off(h, k, r)
  <2>1. l - k \in -1 .. 1 /\ k + (l - k) = l
    BY <1>6
  <2> QED BY <1>6, <2>1 DEF Off
<1>7. ASSUME NEW k \in Int, k - r \in -1 .. 1, Level(h, l, r) PROVE Off(h, l, k)
  <2>1. r - k \in -1 .. 1 /\ k + (r - k) = r
    BY <1>7
  <2> QED BY <1>7, <2>1 DEF Off
<1> QED BY <1>1, <1>2, <1>4, <1>5, <1>6, <1>7

(* Arithmetic of the single rotation: hs is two levels above ho, and the   *)
(* outer grandchild w is not below the inner v.                            *)
LEMMA SingleNumbers ==
  ASSUME NEW h \in Int, NEW hs \in Int, NEW ho \in Int, NEW w \in Int, NEW v \in Int,
         Off(h, hs, ho), hs - ho > 1, Level(hs, w, v), ~(w - v < 0)
  PROVE  /\ Level(Taller(v, ho), v, ho)
         /\ Level(Taller(w, Taller(v, ho)), w, Taller(v, ho))
         /\ Taller(w, Taller(v, ho)) - h \in -1 .. 1
<1>1. \/ Level(h, hs, ho) \/ Level(h, hs - 1, ho) \/ Level(h, hs + 1, ho)
      \/ Level(h, hs, ho - 1) \/ Level(h, hs, ho + 1)
  BY DEF Off, Level, Taller
<1> QED BY <1>1 DEF Level, Taller

(* Arithmetic of the double rotation: the inner grandchild v, over z1 and  *)
(* z2, is the deeper one.                                                  *)
LEMMA DoubleNumbers ==
  ASSUME NEW h \in Int, NEW hs \in Int, NEW ho \in Int, NEW w \in Int, NEW v \in Int,
         NEW z1 \in Int, NEW z2 \in Int,
         Off(h, hs, ho), hs - ho > 1, Level(hs, w, v), w - v < 0, Level(v, z1, z2)
  PROVE  /\ Level(Taller(z1, w), z1, w)
         /\ Level(Taller(z2, ho), z2, ho)
         /\ Level(Taller(Taller(z1, w), Taller(z2, ho)), Taller(z1, w), Taller(z2, ho))
         /\ Taller(Taller(z1, w), Taller(z2, ho)) - h \in -1 .. 1
<1>1. \/ Level(h, hs, ho) \/ Level(h, hs - 1, ho) \/ Level(h, hs + 1, ho)
      \/ Level(h, hs, ho - 1) \/ Level(h, hs, ho + 1)
  BY DEF Off, Level, Taller
<1> QED BY <1>1 DEF Level, Taller

(* Heights of subtrees are integers.                                       *)
LEMMA HeightOfType ==
  ASSUME NEW H \in [Nodes -> Int]
  PROVE  \A m \in Pointers : HeightOf(H, m) \in Int
BY DEF HeightOf, Pointers

(* Below a node there are only nodes of the tree, and every node but the   *)
(* top one has its parent there.                                           *)
LEMMA PlantedFacts ==
  ASSUME NEW t, NEW D, Forest(t, D), NEW L, NEW rt, Planted(t, D, L, rt)
  PROVE  /\ L \subseteq Nodes
         /\ \A n \in L : D[n] \subseteq L
         /\ \A n \in L : t.parent[n] # NoNode => t.parent[n] \in L
         /\ \A n \in L : t.parent[n] = NoNode <=> n = rt
         /\ \A n \in L, s \in Sides : t.child[s][n] # NoNode => t.child[s][n] \in L
<1>1. D \in [Nodes -> SUBSET Nodes] /\ NoNode \notin Nodes
  BY AvlAssumption DEF Forest
<1>2. CASE rt = NoNode
  BY <1>2 DEF Planted, Below
<1>3. CASE rt # NoNode
  <2>1. rt \in Nodes /\ L = D[rt] /\ t.parent[rt] = NoNode
    BY <1>3 DEF Planted, Below, Pointers
  <2>2. L \subseteq Nodes
    BY <1>1, <2>1
  <2>3. \A n \in L : D[n] \subseteq L /\ (n # rt => t.parent[n] \in L)
    BY <2>1 DEF Forest, Nested
  <2>4. \A n \in L, s \in Sides : t.child[s][n] # NoNode => t.child[s][n] \in L
    BY <2>2, <2>3, ForestFacts
  <2> QED BY <1>1, <2>1, <2>2, <2>3, <2>4
<1> QED BY <1>2, <1>3

(* When balance has settled u, the tree is planted and leveled with its    *)
(* parent as the place of the way back.                                    *)
LEMMA SettledUp ==
  ASSUME NEW t, NEW D, Forest(t, D), NEW L, NEW rt, Planted(t, D, L, rt),
         NEW u \in L, NEW H, Leveled(t, D, H, L, u),
         NEW r, NEW top, NEW E, NEW G, Settled(t, D, H, u, r, top, E, G)
  PROVE  /\ Planted(r, E, L, IF u = rt THEN top ELSE rt)
         /\ Leveled(r, E, G, L, t.parent[u])
<1> DEFINE p == t.parent[u]
<1>1. /\ t \in Trees /\ r \in Trees /\ NoNode \notin Nodes
      /\ D \in [Nodes -> SUBSET Nodes] /\ E \in [Nodes -> SUBSET Nodes]
      /\ H \in [Nodes -> Int] /\ G \in [Nodes -> Int]
  BY AvlAssumption DEF Forest, Settled, Leveled
<1>2. L \subseteq Nodes /\ u \in Nodes /\ D[u] \subseteq L /\ u \in D[u]
  BY PlantedFacts, ForestFacts
<1>3. /\ top \in D[u] /\ E[top] = D[u] /\ r.parent[top] = p
      /\ \A a \in Nodes \ D[u] :
           /\ E[a] = D[a] /\ G[a] = H[a]
           /\ r.height[a] = t.height[a] /\ r.parent[a] = t.parent[a]
           /\ \A q \in Sides : r.child[q][a] = IF t.child[q][a] = u THEN top ELSE t.child[q][a]
      /\ \A a \in D[u] : G[a] >= 1 /\ r.height[a] = G[a] /\ LevelAt(r, G, a)
      /\ G[top] - H[u] \in -1 .. 1
  BY DEF Settled
<1>4. \A a \in Nodes : u \in D[a] /\ u # a => p \in D[a]
  BY DEF Forest, Nested
<1>5. Planted(r, E, L, IF u = rt THEN top ELSE rt)
  <2>1. CASE u = rt
    <3>1. L = D[u] /\ p = NoNode
      BY <1>1, <1>2, <2>1 DEF Planted, Below
    <3>2. top \in Nodes /\ top \in Pointers
      BY <1>1, <1>2, <1>3 DEF Pointers
    <3>3. \A n \in Nodes \ L : E[n] = {n} /\ r.parent[n] = NoNode
      BY <1>3, <3>1 DEF Planted
    <3> QED BY <1>1, <1>3, <2>1, <3>1, <3>2, <3>3 DEF Planted, Below
  <2>2. CASE u # rt
    <3>1. rt \in Nodes /\ L = D[rt] /\ t.parent[rt] = NoNode
      BY <1>2 DEF Planted, Below, Pointers
    <3>2. rt \notin D[u]
      BY <1>2, <2>2, <3>1, ForestFacts
    <3>3. E[rt] = L /\ r.parent[rt] = NoNode
      BY <1>3, <3>1, <3>2
    <3>4. \A n \in Nodes \ L : E[n] = {n} /\ r.parent[n] = NoNode
      BY <1>2, <1>3 DEF Planted
    <3> QED BY <1>1, <2>2, <3>1, <3>3, <3>4 DEF Planted, Below, Pointers
  <2> QED BY <2>1, <2>2
<1>6. p \in L \cup {NoNode} /\ p \notin D[u]
  <2>1. p # NoNode => p \notin D[u]
    BY <1>2, ParentFacts
  <2> QED BY <1>1, <1>2, <2>1, PlantedFacts
<1>7. ASSUME NEW n \in L PROVE G[n] >= 1 /\ (p \notin E[n] => r.height[n] = G[n])
  <2>1. CASE n \in D[u]
    BY <1>3, <2>1
  <2>2. CASE n \notin D[u]
    <3>1. n \in Nodes /\ E[n] = D[n] /\ G[n] = H[n] /\ r.height[n] = t.height[n]
      BY <1>2, <1>3, <2>2
    <3>2. p \notin D[n] => u \notin D[n]
      BY <1>2, <1>4, <2>2, <3>1
    <3> QED BY <3>1, <3>2 DEF Leveled
  <2> QED BY <2>1, <2>2
<1>8. ASSUME NEW n \in L \ D[u], NEW q \in Sides
      PROVE  /\ HeightOf(G, r.child[q][n]) \in Int /\ HeightOf(H, t.child[q][n]) \in Int
             /\ IF t.child[q][n] = u THEN HeightOf(G, r.child[q][n]) - HeightOf(H, t.child[q][n]) \in -1 .. 1
                                     ELSE HeightOf(G, r.child[q][n]) = HeightOf(H, t.child[q][n])
  <2>1. n \in Nodes \ D[u] /\ r.child[q][n] \in Pointers /\ t.child[q][n] \in Pointers
    BY <1>1, <1>2, <1>8, TreeTypes DEF Pointers
  <2>2. HeightOf(G, r.child[q][n]) \in Int /\ HeightOf(H, t.child[q][n]) \in Int
    BY <1>1, <2>1, HeightOfType
  <2>3. r.child[q][n] = IF t.child[q][n] = u THEN top ELSE t.child[q][n]
    BY <1>3, <2>1
  <2>4. CASE t.child[q][n] = u
    <3>1. HeightOf(G, r.child[q][n]) = G[top] /\ HeightOf(H, t.child[q][n]) = H[u]
      BY <1>1, <1>2, <1>3, <2>3, <2>4 DEF HeightOf
    <3> QED BY <1>3, <2>2, <2>4, <3>1
  <2>5. CASE t.child[q][n] # u
    <3>1. t.child[q][n] \notin D[u]
      <4>1. ASSUME t.child[q][n] \in D[u] PROVE FALSE
        <5>1. t.child[q][n] \in Nodes /\ t.parent[t.child[q][n]] = n
          BY <1>1, <1>2, <2>1, <4>1 DEF Forest, Linked
        <5>2. n \in D[u]
          BY <1>2, <2>5, <4>1, <5>1 DEF Forest, Nested
        <5> QED BY <1>8, <5>2
      <4> QED BY <4>1
    <3>2. HeightOf(G, t.child[q][n]) = HeightOf(H, t.child[q][n])
      BY <1>3, <2>1, <3>1 DEF HeightOf, Pointers
    <3> QED BY <2>2, <2>3, <2>5, <3>2
  <2> QED BY <2>2, <2>4, <2>5
<1>9. ASSUME NEW n \in L, n # p PROVE LevelAt(r, G, n)
  <2>1. CASE n \in D[u]
    BY <1>3, <2>1
  <2>2. CASE n \notin D[u]
    <3>1. n \in Nodes /\ G[n] = H[n] /\ n # u
      BY <1>2, <1>3, <2>2
    <3>2. LevelAt(t, H, n)
      BY <3>1 DEF Leveled
    <3>3. \A q \in Sides : t.child[q][n] # u
      BY <1>2, <1>9, <3>1, ParentFacts
    <3>4. \A q \in Sides : HeightOf(G, r.child[q][n]) = HeightOf(H, t.child[q][n])
      BY <1>8, <2>2, <3>3
    <3> QED BY <3>1, <3>2, <3>4, SideFacts DEF LevelAt
  <2> QED BY <2>1, <2>2
<1>10. ASSUME p # NoNode PROVE OffAt(r, G, p)
  <2>1. p \in L /\ p \in Nodes /\ p # u /\ p \notin D[u]
    BY <1>2, <1>6, <1>10
  <2>2. LevelAt(t, H, p) /\ G[p] = H[p] /\ H[p] \in Int
    BY <1>1, <1>3, <2>1 DEF Leveled
  <2>3. PICK z \in Sides : t.child[z][p] = u /\ t.child[Other(z)][p] # u
    BY <1>2, <1>10, ParentFacts
  <2>4. /\ Other(z) \in Sides /\ Other(Other(z)) = z
        /\ \A q \in Sides : q = z \/ q = Other(z)
    BY SideFacts
  <2> DEFINE a == HeightOf(H, t.child[z][p])
             b == HeightOf(H, t.child[Other(z)][p])
             c == HeightOf(G, r.child[z][p])
             d == HeightOf(G, r.child[Other(z)][p])
  <2>5. a \in Int /\ c \in Int /\ c - a \in -1 .. 1
    BY <1>8, <2>1, <2>3
  <2>6. b \in Int /\ d = b
    BY <1>8, <2>1, <2>3, <2>4
  <2>7. Level(H[p], a, b)
    BY <2>2 DEF LevelAt
  <2> HIDE DEF a, b, c, d, p
  <2>8. Off(G[p], c, d)
    BY <2>2, <2>5, <2>6, <2>7, LevelNumbers
  <2>9. Off(G[p], d, c)
    BY <2>2, <2>5, <2>6, <2>8, LevelNumbers
  <2>10. ASSUME NEW q \in Sides
         PROVE  Off(G[p], HeightOf(G, r.child[q][p]), HeightOf(G, r.child[Other(q)][p]))
    <3>1. CASE q = z
      BY <2>8, <3>1 DEF c, d
    <3>2. CASE q = Other(z)
      BY <2>4, <2>9, <3>2 DEF c, d
    <3> QED BY <2>4, <3>1, <3>2
  <2> QED BY <2>10 DEF OffAt
<1> HIDE DEF p
<1>11. Leveled(r, E, G, L, p)
  BY <1>1, <1>6, <1>7, <1>9, <1>10 DEF Leveled
<1> QED BY <1>5, <1>11 DEF p

-----------------------------------------------------------------------------
(* Everything below u is level and u may be off.                           *)
Loose(t, D, H, u) ==
  /\ Forest(t, D) /\ H \in [Nodes -> Int] /\ u \in Nodes /\ OffAt(t, H, u)
  /\ \A a \in D[u] \ {u} : H[a] >= 1 /\ t.height[a] = H[a] /\ LevelAt(t, H, a)

(* It is enough to look from one side.                                     *)
LEMMA LevelTwo ==
  ASSUME NEW r, NEW G, NEW a, NEW s \in Sides, G[a] \in Int,
         HeightOf(G, r.child[s][a]) \in Int, HeightOf(G, r.child[Other(s)][a]) \in Int,
         Level(G[a], HeightOf(G, r.child[s][a]), HeightOf(G, r.child[Other(s)][a]))
  PROVE  LevelAt(r, G, a)
<1> SUFFICES ASSUME NEW q \in Sides
             PROVE  Level(G[a], HeightOf(G, r.child[q][a]), HeightOf(G, r.child[Other(q)][a]))
  BY DEF LevelAt
<1>1. CASE q = s
  BY <1>1
<1>2. CASE q = Other(s)
  <2>1. Level(G[a], HeightOf(G, r.child[Other(s)][a]), HeightOf(G, r.child[s][a]))
    BY LevelNumbers
  <2> QED BY <1>2, <2>1, SideFacts
<1> QED BY <1>1, <1>2, SideFacts

(* What a loose tree says of the nodes below u and their children.         *)
LEMMA LooseFacts ==
  ASSUME NEW t, NEW D, NEW H, NEW u, Loose(t, D, H, u)
  PROVE  /\ t \in Trees /\ D \in [Nodes -> SUBSET Nodes] /\ H \in [Nodes -> Int]
         /\ u \in Nodes /\ u \in D[u] /\ D[u] \subseteq Nodes /\ NoNode \notin Nodes
         /\ \A a \in D[u], q \in Sides :
              LET m == t.child[q][a]
              IN  /\ m \in Pointers /\ m # u /\ HeightOf(H, m) \in Int
                  /\ Height(t, m) = HeightOf(H, m) /\ HeightOf(H, m) >= 0
                  /\ m # NoNode => m \in D[u] /\ m \in Nodes /\ H[m] >= 1 /\ LevelAt(t, H, m)
<1>1. /\ t \in Trees /\ D \in [Nodes -> SUBSET Nodes] /\ H \in [Nodes -> Int]
      /\ u \in Nodes /\ u \in D[u] /\ D[u] \subseteq Nodes /\ NoNode \notin Nodes
  <2>1. Forest(t, D) /\ u \in Nodes
    BY DEF Loose
  <2> QED BY <2>1, ForestFacts, AvlAssumption DEF Loose, Forest
<1>2. ASSUME NEW a \in D[u], NEW q \in Sides
      PROVE  LET m == t.child[q][a]
             IN  /\ m \in Pointers /\ m # u /\ HeightOf(H, m) \in Int
                 /\ Height(t, m) = HeightOf(H, m) /\ HeightOf(H, m) >= 0
                 /\ m # NoNode => m \in D[u] /\ m \in Nodes /\ H[m] >= 1 /\ LevelAt(t, H, m)
  <2> DEFINE m == t.child[q][a]
  <2>1. a \in Nodes /\ m \in Pointers /\ Forest(t, D)
    BY <1>1, TreeTypes DEF Pointers, Loose
  <2>2. m # NoNode => m \in D[u] \ {u}
    <3> SUFFICES ASSUME m # NoNode PROVE m \in D[u] \ {u}
      OBVIOUS
    <3>1. m \in D[a] /\ a \notin D[m] /\ m # a
      BY <2>1, ForestFacts
    <3>2. m \in D[u]
      BY <1>1, <2>1, <3>1 DEF Forest, Nested
    <3>3. m # u
      BY <3>1
    <3> QED BY <3>2, <3>3
  <2>3. m # NoNode => H[m] >= 1 /\ t.height[m] = H[m] /\ LevelAt(t, H, m) /\ H[m] \in Int
    BY <1>1, <2>2 DEF Loose
  <2> HIDE DEF m
  <2>4. Height(t, m) = HeightOf(H, m) /\ HeightOf(H, m) >= 0 /\ HeightOf(H, m) \in Int
    BY <2>3 DEF Height, HeightOf
  <2> QED BY <1>1, <2>1, <2>2, <2>3, <2>4 DEF m, Pointers
<1> QED BY <1>1, <1>2

(* balance does not rotate, and updateHeight was enough.                   *)
LEMMA BalanceNone ==
  ASSUME NEW t, NEW D, NEW H, NEW u, Loose(t, D, H, u), NEW s \in Sides,
         t.height[u] = Taller(Height(t, t.child[s][u]), Height(t, t.child[Other(s)][u])),
         Height(t, t.child[s][u]) - Height(t, t.child[Other(s)][u]) \in -1 .. 1
  PROVE  Settled(t, D, H, u, t, u, D, [H EXCEPT ![u] = t.height[u]])
<1> DEFINE G == [H EXCEPT ![u] = t.height[u]]
           l == HeightOf(H, t.child[s][u])
           k == HeightOf(H, t.child[Other(s)][u])
<1>1. /\ t \in Trees /\ D \in [Nodes -> SUBSET Nodes] /\ H \in [Nodes -> Int]
      /\ u \in Nodes /\ u \in D[u] /\ D[u] \subseteq Nodes /\ NoNode \notin Nodes
  BY LooseFacts
<1>2. Other(s) \in Sides
  BY SideFacts
<1>3. l \in Int /\ k \in Int /\ l >= 0 /\ k >= 0
  BY <1>1, <1>2, LooseFacts
<1>4. t.height[u] = Taller(l, k) /\ l - k \in -1 .. 1
  BY <1>1, <1>2, LooseFacts
<1>5. Off(H[u], l, k) /\ H[u] \in Int
  BY <1>1 DEF Loose, OffAt
<1>6. t.height[u] - H[u] \in -1 .. 1 /\ t.height[u] >= 1 /\ t.height[u] \in Int
  <2> HIDE DEF l, k
  <2>1. H[u] - Taller(l, k) \in -1 .. 1
    BY <1>3, <1>5, LevelNumbers
  <2> QED BY <1>3, <1>4, <1>5, <2>1 DEF Taller
<1>7. G \in [Nodes -> Int] /\ G[u] = t.height[u] /\ \A a \in Nodes \ {u} : G[a] = H[a]
  BY <1>1, <1>6
<1> HIDE DEF G
<1>8. \A a \in D[u], q \in Sides : HeightOf(G, t.child[q][a]) = HeightOf(H, t.child[q][a])
  <2> SUFFICES ASSUME NEW a \in D[u], NEW q \in Sides
               PROVE HeightOf(G, t.child[q][a]) = HeightOf(H, t.child[q][a])
    OBVIOUS
  <2>1. t.child[q][a] \in Pointers /\ t.child[q][a] # u
    BY LooseFacts
  <2> QED BY <1>7, <2>1 DEF HeightOf, Pointers
<1>9. LevelAt(t, G, u)
  <2>1. HeightOf(G, t.child[s][u]) = l /\ HeightOf(G, t.child[Other(s)][u]) = k
    BY <1>1, <1>2, <1>8
  <2>2. Level(G[u], l, k)
    BY <1>4, <1>7 DEF Level
  <2> HIDE DEF l, k
  <2> QED BY <1>3, <1>6, <1>7, <2>1, <2>2, LevelTwo
<1>10. \A a \in D[u] \ {u} : G[a] >= 1 /\ t.height[a] = G[a] /\ LevelAt(t, G, a)
  <2> SUFFICES ASSUME NEW a \in D[u] \ {u}
               PROVE G[a] >= 1 /\ t.height[a] = G[a] /\ LevelAt(t, G, a)
    OBVIOUS
  <2>1. H[a] >= 1 /\ t.height[a] = H[a] /\ LevelAt(t, H, a) /\ G[a] = H[a]
    BY <1>1, <1>7 DEF Loose
  <2>2. \A q \in Sides : Other(q) \in Sides
    BY SideFacts
  <2> QED BY <1>8, <2>1, <2>2 DEF LevelAt
<1>11. \A a \in Nodes \ D[u] : G[a] = H[a]
  BY <1>1, <1>7
<1>12. Forest(t, D)
  BY DEF Loose
<1>13. \A a \in D[u] : G[a] >= 1 /\ t.height[a] = G[a] /\ LevelAt(t, G, a)
  BY <1>6, <1>7, <1>9, <1>10
<1>14. Settled(t, D, H, u, t, u, D, G)
  BY <1>1, <1>6, <1>7, <1>11, <1>12, <1>13 DEF Settled
<1> QED BY <1>14 DEF G

(* The fields after a rotation, one by one.                                *)
LEMMA TurnFacts ==
  ASSUME NEW t, NEW D, Forest(t, D), NEW y \in Nodes, NEW s \in Sides,
         t.child[s][y] # NoNode, NEW r, Turned(t, r, y, s, t.child[s][y])
  PROVE  LET x == t.child[s][y] IN
         /\ r.child[Other(s)][x] = y /\ r.child[s][x] = t.child[s][x]
         /\ r.child[s][y] = t.child[Other(s)][x] /\ r.child[Other(s)][y] = t.child[Other(s)][y]
         /\ \A a \in Nodes, q \in Sides : a # x /\ a # y =>
              r.child[q][a] = IF t.child[q][a] = y THEN x ELSE t.child[q][a]
         /\ r.parent[x] = t.parent[y]
         /\ \A a \in Nodes \ D[y] : r.parent[a] = t.parent[a]
         /\ Lifted(t, D, y, s)[x] = D[y]
         /\ \A a \in Nodes : a # x /\ a # y => Lifted(t, D, y, s)[a] = D[a]
<1> DEFINE x == t.child[s][y]
           o == Other(s)
           u == t.child[o][x]
           E == Lifted(t, D, y, s)
<1>1. t \in Trees /\ o \in Sides /\ o # s /\ \A q \in Sides : q = s \/ q = o
  BY SideFacts DEF Forest
<1>2. D \in [Nodes -> SUBSET Nodes] /\ NoNode \notin Nodes
  BY AvlAssumption DEF Forest
<1>3. x \in Nodes /\ x # y /\ x \in D[y] /\ D[x] \subseteq D[y] /\ y \notin D[x]
  BY ForestFacts
<1>4. u # NoNode => u \in D[y]
  BY <1>1, <1>3, ForestFacts
<1>5. /\ \A q \in Sides, a \in Nodes :
           r.child[q][a] = IF a = x /\ q = o THEN y ELSE IF a = y /\ q = s THEN u
                           ELSE IF t.child[q][a] = y THEN x ELSE t.child[q][a]
      /\ \A a \in Nodes : r.parent[a] = IF a = x THEN t.parent[y] ELSE IF a = y THEN x
                                        ELSE IF a = u THEN y ELSE t.parent[a]
  BY DEF Turned
<1>6. t.child[s][x] # y /\ t.child[o][y] # y
  <2>1. t.child[s][x] # NoNode => t.child[s][x] \in D[x]
    BY <1>3, ForestFacts
  <2>2. t.child[o][y] # y
    BY <1>1, <1>2, ForestFacts
  <2> QED BY <1>2, <1>3, <2>1, <2>2
<1>7. r.child[s][x] = t.child[s][x] /\ r.child[o][y] = t.child[o][y]
  BY <1>1, <1>3, <1>5, <1>6
<1>8. r.child[o][x] = y /\ r.child[s][y] = u
  BY <1>1, <1>3, <1>5
<1>9. y \in D[y]
  BY ForestFacts
<1>10. \A a \in Nodes \ D[y] : r.parent[a] = t.parent[a]
  <2> SUFFICES ASSUME NEW a \in Nodes \ D[y] PROVE r.parent[a] = t.parent[a]
    OBVIOUS
  <2>1. a # x /\ a # y /\ a # u
    BY <1>2, <1>3, <1>4, <1>9
  <2> HIDE DEF u
  <2> QED BY <1>5, <2>1
<1>11. E[x] = D[y] /\ \A a \in Nodes : a # x /\ a # y => E[a] = D[a]
  BY <1>2, <1>3 DEF Lifted
<1>12. r.parent[x] = t.parent[y]
  BY <1>3, <1>5
<1>13. \A a \in Nodes, q \in Sides : a # x /\ a # y =>
              r.child[q][a] = IF t.child[q][a] = y THEN x ELSE t.child[q][a]
  BY <1>5
<1> QED BY <1>7, <1>8, <1>10, <1>11, <1>12, <1>13

(* balance rotates once.                                                   *)
LEMMA BalanceSingle ==
  ASSUME NEW t, NEW D, NEW H, NEW y, Loose(t, D, H, y), NEW s \in Sides,
         NEW x, x = t.child[s][y],
         Height(t, x) - Height(t, t.child[Other(s)][y]) > 1,
         ~(Height(t, t.child[s][x]) - Height(t, t.child[Other(s)][x]) < 0)
  PROVE  \E E, G : Settled(t, D, H, y, Rotate(t, y, s), x, E, G)
<1> DEFINE o == Other(s)
           u == t.child[o][x]
           w == t.child[s][x]
           b == t.child[o][y]
           r == Rotate(t, y, s)
           E == Lifted(t, D, y, s)
           G == [H EXCEPT ![y] = r.height[y], ![x] = r.height[x]]
<1>1. /\ t \in Trees /\ D \in [Nodes -> SUBSET Nodes] /\ H \in [Nodes -> Int]
      /\ y \in Nodes /\ y \in D[y] /\ D[y] \subseteq Nodes /\ NoNode \notin Nodes
      /\ Forest(t, D)
  BY LooseFacts DEF Loose
<1>2. o \in Sides /\ o # s /\ Other(o) = s /\ \A q \in Sides : q = s \/ q = o
  BY SideFacts
<1>3. /\ HeightOf(H, b) \in Int /\ HeightOf(H, b) >= 0 /\ Height(t, b) = HeightOf(H, b)
      /\ HeightOf(H, x) \in Int /\ Height(t, x) = HeightOf(H, x)
      /\ x # NoNode => x \in D[y] /\ x \in Nodes /\ H[x] >= 1 /\ LevelAt(t, H, x)
  BY <1>1, <1>2, LooseFacts
<1>4. x # NoNode
  BY <1>3 DEF HeightOf
<1>5. x \in D[y] /\ x \in Nodes /\ x # y /\ HeightOf(H, x) = H[x]
  BY <1>1, <1>3, <1>4, LooseFacts DEF HeightOf
<1>6. /\ HeightOf(H, u) \in Int /\ HeightOf(H, u) >= 0 /\ Height(t, u) = HeightOf(H, u) /\ u # y
      /\ HeightOf(H, w) \in Int /\ HeightOf(H, w) >= 0 /\ Height(t, w) = HeightOf(H, w) /\ w # y
  BY <1>2, <1>5, LooseFacts
<1>7. /\ Level(H[x], HeightOf(H, w), HeightOf(H, u))
      /\ Off(H[y], H[x], HeightOf(H, b)) /\ H[y] \in Int /\ H[x] \in Int
  <2>1. Level(H[x], HeightOf(H, w), HeightOf(H, u))
    BY <1>3, <1>4 DEF LevelAt
  <2>2. OffAt(t, H, y)
    BY DEF Loose
  <2>3. Off(H[y], H[x], HeightOf(H, b))
    BY <1>5, <2>2 DEF OffAt
  <2> QED BY <1>1, <1>5, <2>1, <2>3
<1>8. Turned(t, r, y, s, x)
  BY <1>1, <1>4, RotateIs
<1>9. /\ r.height[y] = Taller(HeightOf(H, u), HeightOf(H, b))
      /\ r.height[x] = Taller(HeightOf(H, w), Taller(HeightOf(H, u), HeightOf(H, b)))
  <2>1. /\ r.height[y] = Taller(Height(t, u), Height(t, b))
        /\ r.height[x] = Taller(Height(t, w), Taller(Height(t, u), Height(t, b)))
    BY <1>1, <1>4, RotateIs
  <2> QED BY <1>3, <1>6, <2>1
<1>10. /\ Level(r.height[y], HeightOf(H, u), HeightOf(H, b))
       /\ Level(r.height[x], HeightOf(H, w), r.height[y])
       /\ r.height[x] - H[y] \in -1 .. 1
       /\ r.height[y] \in Int /\ r.height[x] \in Int /\ r.height[y] >= 1 /\ r.height[x] >= 1
  <2> DEFINE vv == HeightOf(H, u)
             ww == HeightOf(H, w)
             bb == HeightOf(H, b)
  <2>1. vv \in Int /\ ww \in Int /\ bb \in Int /\ vv >= 0 /\ ww >= 0 /\ bb >= 0
    BY <1>3, <1>6
  <2>2. H[x] - bb > 1 /\ ~(ww - vv < 0)
    BY <1>3, <1>5, <1>6
  <2>3. Level(H[x], ww, vv) /\ Off(H[y], H[x], bb) /\ H[y] \in Int /\ H[x] \in Int
    BY <1>7
  <2>4. r.height[y] = Taller(vv, bb) /\ r.height[x] = Taller(ww, Taller(vv, bb))
    BY <1>9
  <2> HIDE DEF vv, ww, bb, r
  <2>5. /\ Level(Taller(vv, bb), vv, bb)
        /\ Level(Taller(ww, Taller(vv, bb)), ww, Taller(vv, bb))
        /\ Taller(ww, Taller(vv, bb)) - H[y] \in -1 .. 1
    BY <2>1, <2>2, <2>3, SingleNumbers
  <2>6. Taller(vv, bb) \in Int /\ Taller(vv, bb) >= 1
    BY <2>1 DEF Taller
  <2>7. Taller(ww, Taller(vv, bb)) \in Int /\ Taller(ww, Taller(vv, bb)) >= 1
    BY <2>1, <2>6 DEF Taller
  <2> QED BY <2>4, <2>5, <2>6, <2>7 DEF vv, ww, bb
<1> HIDE DEF r
<1>11. Forest(r, E)
  BY <1>1, <1>4, <1>8, RotateForest
<1>12. /\ r.child[o][x] = y /\ r.child[s][x] = w /\ r.child[s][y] = u /\ r.child[o][y] = b
       /\ \A a \in Nodes, q \in Sides : a # x /\ a # y =>
            r.child[q][a] = IF t.child[q][a] = y THEN x ELSE t.child[q][a]
       /\ r.parent[x] = t.parent[y]
       /\ \A a \in Nodes \ D[y] : r.parent[a] = t.parent[a]
       /\ E[x] = D[y]
       /\ \A a \in Nodes : a # x /\ a # y => E[a] = D[a]
  BY <1>1, <1>4, <1>8, TurnFacts
<1>13. /\ G \in [Nodes -> Int] /\ G[y] = r.height[y] /\ G[x] = r.height[x]
       /\ \A a \in Nodes : a # x /\ a # y => G[a] = H[a] /\ r.height[a] = t.height[a]
  BY <1>1, <1>5, <1>8, <1>10 DEF Turned
<1> HIDE DEF E, G
<1>14. u # x /\ w # x /\ b # x
  <2>1. b # x
    BY <1>1, <1>4, ForestFacts
  <2> QED BY <1>1, <1>2, <1>5, <2>1, ForestFacts
<1>15. \A m \in Pointers : m # x /\ m # y => HeightOf(G, m) = HeightOf(H, m)
  BY <1>13 DEF HeightOf, Pointers
<1>16. u \in Pointers /\ w \in Pointers /\ b \in Pointers /\ b # y
  BY <1>1, <1>2, <1>5, LooseFacts
<1>17. LevelAt(r, G, y)
  <2>1. HeightOf(G, u) = HeightOf(H, u) /\ HeightOf(G, b) = HeightOf(H, b)
    BY <1>6, <1>14, <1>15, <1>16
  <2>2. Level(G[y], HeightOf(G, r.child[s][y]), HeightOf(G, r.child[Other(s)][y]))
    BY <1>10, <1>12, <1>13, <2>1
  <2>3. /\ G[y] \in Int /\ HeightOf(G, r.child[s][y]) \in Int
        /\ HeightOf(G, r.child[Other(s)][y]) \in Int
    BY <1>3, <1>6, <1>10, <1>12, <1>13, <2>1
  <2> QED BY <2>2, <2>3, LevelTwo, Zenon
<1>18. LevelAt(r, G, x)
  <2>1. HeightOf(G, w) = HeightOf(H, w) /\ HeightOf(G, y) = r.height[y]
    BY <1>1, <1>6, <1>13, <1>14, <1>15, <1>16 DEF HeightOf
  <2>2. Level(G[x], HeightOf(G, r.child[s][x]), HeightOf(G, r.child[Other(s)][x]))
    BY <1>10, <1>12, <1>13, <2>1
  <2>3. /\ G[x] \in Int /\ HeightOf(G, r.child[s][x]) \in Int
        /\ HeightOf(G, r.child[Other(s)][x]) \in Int
    BY <1>6, <1>10, <1>12, <1>13, <2>1
  <2> QED BY <2>2, <2>3, LevelTwo, Zenon
<1>19. ASSUME NEW a \in D[y], a # x, a # y
       PROVE  G[a] >= 1 /\ r.height[a] = G[a] /\ LevelAt(r, G, a)
  <2>1. a \in Nodes /\ H[a] >= 1 /\ t.height[a] = H[a] /\ LevelAt(t, H, a)
    BY <1>1, <1>19 DEF Loose
  <2>2. ASSUME NEW q \in Sides PROVE HeightOf(G, r.child[q][a]) = HeightOf(H, t.child[q][a])
    <3>1. t.child[q][a] \in Pointers /\ t.child[q][a] # y
      BY LooseFacts
    <3>2. t.child[q][a] # x
      BY <1>1, <1>4, <1>19, <2>1 DEF Forest, Linked
    <3> QED BY <1>12, <1>15, <1>19, <2>1, <3>1, <3>2
  <2>3. \A q \in Sides : Other(q) \in Sides
    BY SideFacts
  <2> QED BY <1>13, <1>19, <2>1, <2>2, <2>3 DEF LevelAt
<1>20. \A a \in D[y] : G[a] >= 1 /\ r.height[a] = G[a] /\ LevelAt(r, G, a)
  BY <1>10, <1>13, <1>17, <1>18, <1>19
<1>21. \A a \in Nodes \ D[y] :
         /\ E[a] = D[a] /\ G[a] = H[a]
         /\ r.height[a] = t.height[a] /\ r.parent[a] = t.parent[a]
         /\ \A q \in Sides : r.child[q][a] = IF t.child[q][a] = y THEN x ELSE t.child[q][a]
  BY <1>1, <1>5, <1>12, <1>13
<1>22. Settled(t, D, H, y, r, x, E, G)
  <2>1. r.root = t.root
    BY <1>8 DEF Turned
  <2> QED BY <2>1, <1>5, <1>10, <1>11, <1>12, <1>13, <1>20, <1>21 DEF Settled
<1> QED BY <1>22 DEF r

(* balance rotates twice, the child first.                                 *)
LEMMA BalanceDouble ==
  ASSUME NEW t, NEW D, NEW H, NEW y, Loose(t, D, H, y), NEW s \in Sides,
         Lean(t, y, s) > 1, Lean(t, t.child[s][y], s) < 0
  PROVE  LET m == Rotate(t, t.child[s][y], Other(s))
             z == t.child[Other(s)][t.child[s][y]]
         IN  /\ m.child[s][y] = z
             /\ \E E, G : Settled(t, D, H, y, Rotate(m, y, s), z, E, G)
<1> DEFINE o == Other(s)
           x == t.child[s][y]
           z == t.child[o][x]
           w == t.child[s][x]
           z1 == t.child[s][z]
           z2 == t.child[o][z]
           b == t.child[o][y]
           m == Rotate(t, x, o)
           r == Rotate(m, y, s)
           D1 == Lifted(t, D, x, o)
           E == Lifted(m, D1, y, s)
           G == [H EXCEPT ![y] = r.height[y], ![x] = m.height[x], ![z] = r.height[z]]
<1>0. Height(t, x) - Height(t, b) > 1 /\ Height(t, w) - Height(t, z) < 0
  BY DEF Lean
<1> HIDE DEF o, x, z, w, z1, z2, b, m, r, D1, E, G
<1>k. /\ o = Other(s) /\ x = t.child[s][y] /\ z = t.child[o][x] /\ w = t.child[s][x]
      /\ z1 = t.child[s][z] /\ z2 = t.child[o][z] /\ b = t.child[o][y]
  BY DEF o, x, z, w, z1, z2, b
<1>1. /\ t \in Trees /\ D \in [Nodes -> SUBSET Nodes] /\ H \in [Nodes -> Int]
      /\ y \in Nodes /\ y \in D[y] /\ D[y] \subseteq Nodes /\ NoNode \notin Nodes
      /\ Forest(t, D)
  BY <1>k, LooseFacts DEF Loose
<1>2. o \in Sides /\ o # s /\ Other(o) = s /\ \A q \in Sides : q = s \/ q = o
  BY <1>k, SideFacts
<1>3. /\ HeightOf(H, b) \in Int /\ HeightOf(H, b) >= 0 /\ Height(t, b) = HeightOf(H, b)
      /\ HeightOf(H, x) \in Int /\ Height(t, x) = HeightOf(H, x)
      /\ x # NoNode => x \in D[y] /\ x \in Nodes /\ H[x] >= 1 /\ LevelAt(t, H, x)
      /\ b \in Pointers /\ b # y
  BY <1>k, <1>1, <1>2, LooseFacts
<1>4. x # NoNode
  BY <1>0, <1>3 DEF HeightOf
<1>5. x \in D[y] /\ x \in Nodes /\ x # y /\ HeightOf(H, x) = H[x] /\ b # x
  <2>1. b # x
    BY <1>k, <1>1, <1>4, ForestFacts
  <2> QED BY <1>k, <1>1, <1>3, <1>4, <2>1, LooseFacts DEF HeightOf
<1>6. /\ HeightOf(H, z) \in Int /\ Height(t, z) = HeightOf(H, z) /\ z # y
      /\ z # NoNode => z \in D[y] /\ z \in Nodes /\ H[z] >= 1 /\ LevelAt(t, H, z)
      /\ HeightOf(H, w) \in Int /\ HeightOf(H, w) >= 0 /\ Height(t, w) = HeightOf(H, w)
      /\ w \in Pointers /\ w # y
  BY <1>k, <1>2, <1>5, LooseFacts
<1>7. z # NoNode
  BY <1>0, <1>6 DEF HeightOf
<1>8. z \in D[y] /\ z \in Nodes /\ HeightOf(H, z) = H[z] /\ z # x /\ w # z /\ w # x /\ z \in D[x] /\ x \notin D[z]
  <2>1. z # x /\ w # z /\ z \in D[x] /\ x \notin D[z]
    BY <1>k, <1>1, <1>2, <1>5, <1>7, ForestFacts
  <2>2. w # x
    BY <1>k, <1>1, <1>5, ForestFacts
  <2> QED BY <1>k, <1>6, <1>7, <2>1, <2>2 DEF HeightOf
<1>9. /\ HeightOf(H, z1) \in Int /\ HeightOf(H, z1) >= 0 /\ Height(t, z1) = HeightOf(H, z1)
      /\ z1 \in Pointers /\ z1 # y
      /\ HeightOf(H, z2) \in Int /\ HeightOf(H, z2) >= 0 /\ Height(t, z2) = HeightOf(H, z2)
      /\ z2 \in Pointers /\ z2 # y
  BY <1>2, <1>8, LooseFacts DEF z1, z2
<1>10. z1 # x /\ z1 # z /\ z2 # x /\ z2 # z
  <2>1. \A q \in Sides : t.child[q][z] # NoNode => t.child[q][z] \in D[z] /\ t.child[q][z] # z
    BY <1>1, <1>8, ForestFacts
  <2> QED BY <1>k, <1>1, <1>2, <1>5, <1>8, <2>1
<1>11. /\ Level(H[x], HeightOf(H, w), H[z]) /\ Level(H[z], HeightOf(H, z1), HeightOf(H, z2))
       /\ Off(H[y], H[x], HeightOf(H, b)) /\ H[y] \in Int /\ H[x] \in Int /\ H[z] \in Int
  <2>1. Level(H[x], HeightOf(H, w), H[z])
    BY <1>k, <1>3, <1>4, <1>8 DEF LevelAt
  <2>2. OffAt(t, H, y)
    BY <1>k DEF Loose
  <2>3. Off(H[y], H[x], HeightOf(H, b))
    BY <1>k, <1>5, <2>2 DEF OffAt
  <2>4. Level(H[z], HeightOf(H, z1), HeightOf(H, z2))
    BY <1>k, <1>6, <1>7 DEF LevelAt
  <2> QED BY <1>k, <1>1, <1>5, <1>8, <2>1, <2>3, <2>4
<1>12. Turned(t, m, x, o, z)
  BY <1>k, <1>1, <1>2, <1>5, <1>7, RotateIs DEF m
<1>13. m.height[x] = Taller(HeightOf(H, z1), HeightOf(H, w))
  <2>1. m.height[x] = Taller(Height(t, t.child[Other(o)][z]), Height(t, t.child[Other(o)][x]))
    BY <1>k, <1>1, <1>2, <1>5, <1>7, RotateIs DEF m
  <2> QED BY <1>k, <1>2, <1>6, <1>9, <2>1
<1>14. Forest(m, D1)
  BY <1>k, <1>1, <1>2, <1>5, <1>7, <1>12, RotateForest DEF D1
<1>15. /\ m.child[s][z] = x /\ m.child[o][z] = z2 /\ m.child[o][x] = z1 /\ m.child[s][x] = w
       /\ \A a \in Nodes, q \in Sides : a # z /\ a # x =>
            m.child[q][a] = IF t.child[q][a] = x THEN z ELSE t.child[q][a]
       /\ \A a \in Nodes \ D[x] : m.parent[a] = t.parent[a]
       /\ D1[z] = D[x]
       /\ \A a \in Nodes : a # z /\ a # x => D1[a] = D[a]
  <2>1. /\ m.child[Other(o)][z] = x /\ m.child[o][z] = t.child[o][z]
        /\ m.child[o][x] = t.child[Other(o)][z] /\ m.child[Other(o)][x] = t.child[Other(o)][x]
        /\ \A a \in Nodes, q \in Sides : a # z /\ a # x =>
            m.child[q][a] = IF t.child[q][a] = x THEN z ELSE t.child[q][a]
        /\ \A a \in Nodes \ D[x] : m.parent[a] = t.parent[a]
        /\ D1[z] = D[x]
        /\ \A a \in Nodes : a # z /\ a # x => D1[a] = D[a]
    BY <1>1, <1>2, <1>5, <1>7, <1>12, TurnFacts DEF D1, z
  <2> QED BY <1>k, <1>2, <2>1
<1>16. y \notin D[x] /\ D[x] \subseteq D[y]
  BY <1>k, <1>1, <1>4, ForestFacts
<1>17. /\ m.child[s][y] = z /\ m.child[o][y] = b /\ m.parent[y] = t.parent[y] /\ D1[y] = D[y]
       /\ m.height[y] = t.height[y]
       /\ \A a \in Nodes : a # x /\ a # z => m.height[a] = t.height[a]
  <2>1. m.child[s][y] = z /\ m.child[o][y] = b
    BY <1>k, <1>1, <1>2, <1>5, <1>6, <1>15
  <2>2. m.parent[y] = t.parent[y] /\ D1[y] = D[y]
    BY <1>k, <1>1, <1>5, <1>6, <1>15, <1>16
  <2>3. \A a \in Nodes : a # x /\ a # z => m.height[a] = t.height[a]
    BY <1>k, <1>12 DEF Turned
  <2> QED BY <1>k, <1>1, <1>5, <1>6, <2>1, <2>2, <2>3
<1>18. Turned(m, r, y, s, z)
  BY <1>k, <1>1, <1>7, <1>14, <1>17, RotateIs DEF r
<1>19. /\ r.height[y] = Taller(HeightOf(H, z2), HeightOf(H, b))
       /\ r.height[z] = Taller(m.height[x], Taller(HeightOf(H, z2), HeightOf(H, b)))
  <2>1. LET h == Taller(Height(m, m.child[Other(s)][z]), Height(m, m.child[Other(s)][y]))
        IN  r.height[y] = h /\ r.height[z] = Taller(Height(m, m.child[s][z]), h)
    BY <1>k, <1>1, <1>7, <1>14, <1>17, RotateIs DEF r
  <2>2. Height(m, z2) = HeightOf(H, z2) /\ Height(m, b) = HeightOf(H, b)
    <3>1. \A k \in Pointers : k # x /\ k # z => Height(m, k) = Height(t, k)
      BY <1>k, <1>17 DEF Height, Pointers
    <3>2. b # z
      <4>1. t.parent[z] = x
        BY <1>k, <1>1, <1>2, <1>5, <1>7 DEF Forest, Linked
      <4>2. b # NoNode => t.parent[b] = y
        BY <1>k, <1>1, <1>2 DEF Forest, Linked
      <4> QED BY <1>k, <1>5, <1>7, <4>1, <4>2
    <3> QED BY <1>k, <1>3, <1>5, <1>9, <1>10, <3>1, <3>2
  <2>3. Height(m, x) = m.height[x]
    BY <1>k, <1>4 DEF Height
  <2> QED BY <1>k, <1>15, <1>17, <2>1, <2>2, <2>3
<1>20. /\ Level(m.height[x], HeightOf(H, z1), HeightOf(H, w))
       /\ Level(r.height[y], HeightOf(H, z2), HeightOf(H, b))
       /\ Level(r.height[z], m.height[x], r.height[y])
       /\ r.height[z] - H[y] \in -1 .. 1
       /\ r.height[y] \in Int /\ r.height[z] \in Int /\ m.height[x] \in Int
       /\ r.height[y] >= 1 /\ r.height[z] >= 1 /\ m.height[x] >= 1
  <2> DEFINE ww == HeightOf(H, w)
             bb == HeightOf(H, b)
             zz1 == HeightOf(H, z1)
             zz2 == HeightOf(H, z2)
  <2>1. /\ zz1 \in Int /\ zz2 \in Int /\ ww \in Int /\ bb \in Int
        /\ zz1 >= 0 /\ zz2 >= 0 /\ ww >= 0 /\ bb >= 0
    BY <1>k, <1>3, <1>6, <1>9
  <2>2. H[x] - bb > 1 /\ ww - H[z] < 0
    BY <1>0, <1>3, <1>5, <1>6, <1>8
  <2>3. /\ Level(H[x], ww, H[z]) /\ Level(H[z], zz1, zz2) /\ Off(H[y], H[x], bb)
        /\ H[y] \in Int /\ H[x] \in Int /\ H[z] \in Int
    BY <1>k, <1>11
  <2>4. m.height[x] = Taller(zz1, ww) /\ r.height[y] = Taller(zz2, bb)
        /\ r.height[z] = Taller(m.height[x], Taller(zz2, bb))
    BY <1>k, <1>13, <1>19
  <2> HIDE DEF ww, bb, zz1, zz2
  <2>5. /\ Level(Taller(zz1, ww), zz1, ww)
        /\ Level(Taller(zz2, bb), zz2, bb)
        /\ Level(Taller(Taller(zz1, ww), Taller(zz2, bb)), Taller(zz1, ww), Taller(zz2, bb))
        /\ Taller(Taller(zz1, ww), Taller(zz2, bb)) - H[y] \in -1 .. 1
    BY <1>k, <2>1, <2>2, <2>3, DoubleNumbers
  <2>6. Taller(zz1, ww) \in Int /\ Taller(zz1, ww) >= 1 /\ Taller(zz2, bb) \in Int /\ Taller(zz2, bb) >= 1
    BY <1>k, <2>1 DEF Taller
  <2>7. Taller(Taller(zz1, ww), Taller(zz2, bb)) \in Int /\ Taller(Taller(zz1, ww), Taller(zz2, bb)) >= 1
    BY <1>k, <2>6 DEF Taller
  <2> QED BY <1>k, <2>4, <2>5, <2>6, <2>7 DEF ww, bb, zz1, zz2
<1>21. Forest(r, E)
  BY <1>k, <1>1, <1>7, <1>14, <1>17, <1>18, RotateForest DEF E
<1>22. /\ r.child[o][z] = y /\ r.child[s][z] = x /\ r.child[s][y] = z2 /\ r.child[o][y] = b
       /\ \A a \in Nodes, q \in Sides : a # z /\ a # y =>
            r.child[q][a] = IF m.child[q][a] = y THEN z ELSE m.child[q][a]
       /\ r.parent[z] = t.parent[y]
       /\ \A a \in Nodes \ D[y] : r.parent[a] = m.parent[a]
       /\ E[z] = D[y]
       /\ \A a \in Nodes : a # z /\ a # y => E[a] = D1[a]
  <2>1. /\ r.child[Other(s)][z] = y /\ r.child[s][z] = m.child[s][z]
        /\ r.child[s][y] = m.child[Other(s)][z] /\ r.child[Other(s)][y] = m.child[Other(s)][y]
        /\ \A a \in Nodes, q \in Sides : a # z /\ a # y =>
            r.child[q][a] = IF m.child[q][a] = y THEN z ELSE m.child[q][a]
        /\ r.parent[z] = m.parent[y]
        /\ \A a \in Nodes \ D1[y] : r.parent[a] = m.parent[a]
        /\ E[z] = D1[y]
        /\ \A a \in Nodes : a # z /\ a # y => E[a] = D1[a]
    BY <1>1, <1>7, <1>14, <1>17, <1>18, TurnFacts DEF E
  <2> QED BY <1>k, <1>15, <1>17, <2>1
<1>23. r.child[s][x] = w /\ r.child[o][x] = z1
  BY <1>k, <1>2, <1>5, <1>6, <1>8, <1>9, <1>15, <1>22
<1>24. /\ G \in [Nodes -> Int] /\ G[y] = r.height[y] /\ G[z] = r.height[z] /\ G[x] = m.height[x]
       /\ r.height[x] = m.height[x]
       /\ \A a \in Nodes : a # x /\ a # y /\ a # z => G[a] = H[a] /\ r.height[a] = t.height[a]
  <2>1. \A a \in Nodes : a # z /\ a # y => r.height[a] = m.height[a]
    BY <1>k, <1>18 DEF Turned
  <2> QED BY <1>k, <1>1, <1>5, <1>6, <1>8, <1>17, <1>20, <2>1 DEF G
<1>25. \A k \in Pointers : k # x /\ k # y /\ k # z => HeightOf(G, k) = HeightOf(H, k)
  BY <1>k, <1>24 DEF HeightOf, Pointers
<1>26. b # z /\ HeightOf(G, b) = HeightOf(H, b)
  <2>1. t.parent[z] = x
    BY <1>k, <1>1, <1>2, <1>5, <1>7 DEF Forest, Linked
  <2>2. b # NoNode => t.parent[b] = y
    BY <1>k, <1>1, <1>2 DEF Forest, Linked
  <2>3. b # z
    BY <1>k, <1>5, <1>7, <2>1, <2>2
  <2> QED BY <1>k, <1>3, <1>5, <1>25, <2>3
<1>27. LevelAt(r, G, y)
  <2>1. HeightOf(G, z2) = HeightOf(H, z2)
    BY <1>k, <1>9, <1>10, <1>25
  <2>2. Level(G[y], HeightOf(G, r.child[s][y]), HeightOf(G, r.child[Other(s)][y]))
    BY <1>k, <1>20, <1>22, <1>24, <1>26, <2>1
  <2>3. /\ G[y] \in Int /\ HeightOf(G, r.child[s][y]) \in Int
        /\ HeightOf(G, r.child[Other(s)][y]) \in Int
    BY <1>k, <1>3, <1>9, <1>20, <1>22, <1>24, <1>26, <2>1
  <2> QED BY <1>k, <2>2, <2>3, LevelTwo, Zenon
<1>28. LevelAt(r, G, x)
  <2>1. HeightOf(G, w) = HeightOf(H, w) /\ HeightOf(G, z1) = HeightOf(H, z1)
    BY <1>k, <1>6, <1>8, <1>9, <1>10, <1>25
  <2>2. Level(G[x], HeightOf(G, r.child[o][x]), HeightOf(G, r.child[Other(o)][x]))
    BY <1>k, <1>2, <1>20, <1>23, <1>24, <2>1
  <2>3. /\ G[x] \in Int /\ HeightOf(G, r.child[o][x]) \in Int
        /\ HeightOf(G, r.child[Other(o)][x]) \in Int
    BY <1>k, <1>2, <1>6, <1>9, <1>20, <1>23, <1>24, <2>1
  <2> QED BY <1>k, <1>2, <2>2, <2>3, LevelTwo, Zenon
<1>29. LevelAt(r, G, z)
  <2>1. HeightOf(G, x) = m.height[x] /\ HeightOf(G, y) = r.height[y]
    BY <1>k, <1>1, <1>4, <1>24 DEF HeightOf
  <2>2. Level(G[z], HeightOf(G, r.child[s][z]), HeightOf(G, r.child[Other(s)][z]))
    BY <1>k, <1>20, <1>22, <1>24, <2>1
  <2>3. /\ G[z] \in Int /\ HeightOf(G, r.child[s][z]) \in Int
        /\ HeightOf(G, r.child[Other(s)][z]) \in Int
    BY <1>20, <1>22, <1>24, <2>1 DEF o
  <2> QED BY <1>k, <2>2, <2>3, LevelTwo, Zenon
<1>30. ASSUME NEW a \in D[y], a # x, a # y, a # z
       PROVE  G[a] >= 1 /\ r.height[a] = G[a] /\ LevelAt(r, G, a)
  <2>1. a \in Nodes /\ H[a] >= 1 /\ t.height[a] = H[a] /\ LevelAt(t, H, a)
    BY <1>k, <1>1, <1>30 DEF Loose
  <2>2. ASSUME NEW q \in Sides PROVE HeightOf(G, r.child[q][a]) = HeightOf(H, t.child[q][a])
    <3>1. t.child[q][a] \in Pointers /\ t.child[q][a] # y
      BY <1>k, LooseFacts
    <3>2. t.child[q][a] # x /\ t.child[q][a] # z
      <4>1. t.parent[x] = y /\ t.parent[z] = x
        BY <1>k, <1>1, <1>2, <1>4, <1>5, <1>7 DEF Forest, Linked
      <4>2. t.child[q][a] # NoNode => t.parent[t.child[q][a]] = a
        BY <1>k, <1>1, <2>1 DEF Forest, Linked
      <4> QED BY <1>k, <1>4, <1>7, <1>30, <4>1, <4>2
    <3>3. r.child[q][a] = t.child[q][a]
      BY <1>15, <1>22, <1>30, <2>1, <3>1, <3>2
    <3> QED BY <1>k, <1>25, <3>1, <3>2, <3>3
  <2>3. \A q \in Sides : Other(q) \in Sides
    BY <1>k, SideFacts
  <2> QED BY <1>k, <1>24, <1>30, <2>1, <2>2, <2>3 DEF LevelAt
<1>31. \A a \in D[y] : G[a] >= 1 /\ r.height[a] = G[a] /\ LevelAt(r, G, a)
  BY <1>k, <1>20, <1>24, <1>27, <1>28, <1>29, <1>30
<1>32. ASSUME NEW a \in Nodes \ D[y]
       PROVE  /\ E[a] = D[a] /\ G[a] = H[a]
              /\ r.height[a] = t.height[a] /\ r.parent[a] = t.parent[a]
              /\ \A q \in Sides : r.child[q][a] = IF t.child[q][a] = y THEN z ELSE t.child[q][a]
  <2>1. a # x /\ a # y /\ a # z /\ a \notin D[x]
    BY <1>k, <1>1, <1>5, <1>8, <1>16
  <2>2. ASSUME NEW q \in Sides PROVE r.child[q][a] = IF t.child[q][a] = y THEN z ELSE t.child[q][a]
    <3>1. t.child[q][a] # x
      BY <1>k, <1>1, <1>4, <2>1 DEF Forest, Linked
    <3> QED BY <1>15, <1>22, <2>1, <3>1
  <2> QED BY <1>15, <1>22, <1>24, <2>1, <2>2
<1>33. Settled(t, D, H, y, r, z, E, G)
  <2>1. \A a \in Nodes \ D[y] :
          /\ E[a] = D[a] /\ G[a] = H[a]
          /\ r.height[a] = t.height[a] /\ r.parent[a] = t.parent[a]
          /\ \A q \in Sides : r.child[q][a] = IF t.child[q][a] = y THEN z ELSE t.child[q][a]
    BY <1>k, <1>32
  <2>2. r.root = t.root
    BY <1>12, <1>18 DEF Turned
  <2> QED BY <1>8, <1>20, <1>21, <1>22, <1>24, <1>31, <2>1, <2>2 DEF Settled
<1> QED BY <1>k, <1>17, <1>33 DEF r, m

(* Only child and parent make a forest.                                    *)
LEMMA SameForest ==
  ASSUME NEW t, NEW D, Forest(t, D), NEW r \in Trees, r.child = t.child, r.parent = t.parent
  PROVE  Forest(r, D)
BY DEF Forest, Split, Ordered, Linked, Nested

(* balance settles the node the way back has come to.                      *)
LEMMA BalanceSettled ==
  ASSUME NEW t, NEW D, Forest(t, D), NEW L, NEW rt, Planted(t, D, L, rt),
         NEW u \in L, NEW H, Leveled(t, D, H, L, u)
  PROVE  \E E, G : Settled(t, D, H, u, Balance(t, u).tree, Balance(t, u).top, E, G)
<1> DEFINE t1 == UpdateHeight(t, u)
           r == Balance(t, u)
<1>1. t \in Trees /\ u \in Nodes /\ u \in D[u] /\ NoNode \notin Nodes /\ D[u] \subseteq L /\ L \subseteq Nodes
  BY AvlAssumption, PlantedFacts, ForestFacts DEF Forest
<1>2. /\ t1 \in Trees /\ t1.root = t.root /\ t1.child = t.child /\ t1.parent = t.parent
      /\ t1.height = [t.height EXCEPT ![u] = NewHeight(t, u)]
  BY <1>1, UpdateHeightIs
<1> HIDE DEF t1
<1>3. /\ \A a \in Nodes : a # u => t1.height[a] = t.height[a]
      /\ t1.height[u] = NewHeight(t, u)
  BY <1>1, <1>2 DEF Trees
<1>4. Forest(t1, D)
  BY <1>2, SameForest
<1>5. Loose(t1, D, H, u)
  <2>1. OffAt(t1, H, u) /\ H \in [Nodes -> Int]
    BY <1>1, <1>2 DEF Leveled, OffAt
  <2>2. ASSUME NEW a \in D[u] \ {u}
        PROVE H[a] >= 1 /\ t1.height[a] = H[a] /\ LevelAt(t1, H, a)
    <3>1. a \in L /\ a \in Nodes /\ u \notin D[a]
      BY <1>1, ForestFacts
    <3>2. H[a] >= 1 /\ t.height[a] = H[a] /\ LevelAt(t, H, a)
      BY <3>1 DEF Leveled
    <3> QED BY <1>2, <1>3, <3>1, <3>2 DEF LevelAt
  <2> QED BY <1>1, <1>4, <2>1, <2>2 DEF Loose
<1>6. ASSUME NEW x, NEW top, NEW E, NEW G, Settled(t1, D, H, u, x, top, E, G)
      PROVE  Settled(t, D, H, u, x, top, E, G)
  BY <1>1, <1>2, <1>3, <1>6 DEF Settled
<1>7. ASSUME NEW s \in Sides, Lean(t1, u, s) > 1
      PROVE  \E E, G : Settled(t, D, H, u, Rebalance(t1, u, s).tree, Rebalance(t1, u, s).top, E, G)
  <2> DEFINE x == t1.child[s][u]
  <2>1. CASE Lean(t1, x, s) < 0
    <3> DEFINE m == Rotate(t1, x, Other(s))
    <3>1. /\ Rebalance(t1, u, s).tree = Rotate(m, u, s)
          /\ Rebalance(t1, u, s).top = m.child[s][u]
      BY <2>1 DEF Rebalance
    <3>2. /\ m.child[s][u] = t1.child[Other(s)][x]
          /\ \E E, G : Settled(t1, D, H, u, Rotate(m, u, s), t1.child[Other(s)][x], E, G)
      BY <1>5, <1>7, <2>1, BalanceDouble
    <3> HIDE DEF m, x
    <3> QED BY <1>6, <3>1, <3>2
  <2>2. CASE ~(Lean(t1, x, s) < 0)
    <3>1. /\ Rebalance(t1, u, s).tree = Rotate(t1, u, s)
          /\ Rebalance(t1, u, s).top = x
      BY <2>2 DEF Rebalance
    <3>2. /\ Height(t1, x) - Height(t1, t1.child[Other(s)][u]) > 1
          /\ ~(Height(t1, t1.child[s][x]) - Height(t1, t1.child[Other(s)][x]) < 0)
      BY <1>7, <2>2 DEF Lean
    <3>3. \E E, G : Settled(t1, D, H, u, Rotate(t1, u, s), x, E, G)
      BY <1>5, <3>2, BalanceSingle
    <3> HIDE DEF x
    <3> QED BY <1>6, <3>1, <3>3
  <2> QED BY <2>1, <2>2
<1>8. "left" \in Sides /\ "right" \in Sides /\ Other("left") = "right" /\ Other("right") = "left"
  BY DEF Sides, Other
<1>9. ~(Lean(t1, u, "left") > 1 /\ Lean(t1, u, "right") > 1)
  <2>1. /\ Lean(t1, u, "right") = Height(t1, t1.child["right"][u]) - Height(t1, t1.child["left"][u])
        /\ Lean(t1, u, "left") = Height(t1, t1.child["left"][u]) - Height(t1, t1.child["right"][u])
    BY <1>8 DEF Lean
  <2>2. Height(t1, t1.child["right"][u]) \in Int /\ Height(t1, t1.child["left"][u]) \in Int
    BY <1>1, <1>2, <1>8, TreeTypes, HeightTypes DEF Pointers
  <2> QED BY <2>1, <2>2
<1>10. ASSUME NEW s \in Sides, Lean(t1, u, s) > 1
       PROVE  \E E, G : Settled(t, D, H, u, r.tree, r.top, E, G)
  <2>1. CASE s = "left"
    <3>1. r = Rebalance(t1, u, "left")
      BY <1>9, <1>10, <2>1 DEF Balance, t1
    <3> HIDE DEF r
    <3> QED BY <1>7, <1>10, <2>1, <3>1
  <2>2. CASE s = "right"
    <3>1. r = Rebalance(t1, u, "right")
      BY <1>9, <1>10, <2>2 DEF Balance, t1
    <3> HIDE DEF r
    <3> QED BY <1>7, <1>10, <2>2, <3>1
  <2> QED BY <2>1, <2>2 DEF Sides
<1>11. CASE ~(Lean(t1, u, "left") > 1) /\ ~(Lean(t1, u, "right") > 1)
  <2> DEFINE l == Height(t1, t1.child["left"][u])
             k == Height(t1, t1.child["right"][u])
  <2>1. r = [tree |-> t1, top |-> u]
    BY <1>11 DEF Balance, t1
  <2>2. l \in Int /\ k \in Int
    BY <1>1, <1>2, <1>8, TreeTypes, HeightTypes DEF Pointers
  <2>3. l - k \in -1 .. 1
    <3>1. ~(l - k > 1) /\ ~(k - l > 1)
      BY <1>8, <1>11 DEF Lean
    <3> QED BY <2>2, <3>1
  <2>4. t1.height[u] = Taller(l, k)
    <3>1. NewHeight(t, u) = Taller(Height(t, t.child["left"][u]), Height(t, t.child["right"][u]))
      BY <1>1, <1>8, NewHeightIs
    <3>2. ASSUME NEW q \in Sides PROVE Height(t1, t1.child[q][u]) = Height(t, t.child[q][u])
      <4>1. t.child[q][u] # u /\ t.child[q][u] \in Pointers
        BY <1>1, ForestFacts, TreeTypes DEF Pointers
      <4> QED BY <1>2, <1>3, <4>1 DEF Height, Pointers
    <3> QED BY <1>3, <1>8, <3>1, <3>2
  <2>5. Settled(t1, D, H, u, t1, u, D, [H EXCEPT ![u] = t1.height[u]])
    BY <1>5, <1>8, <2>3, <2>4, BalanceNone
  <2>6. Settled(t, D, H, u, t1, u, D, [H EXCEPT ![u] = t1.height[u]])
    BY <1>6, <2>5
  <2> QED BY <2>1, <2>6
<1> QED BY <1>8, <1>10, <1>11

-----------------------------------------------------------------------------
(* The inductive invariant, of a tree t that holds the TCBs of L while the *)
(* way back is at u: there are ghosts D and H that fit.                    *)
Sound(t, L, u) ==
  \E D, H : Forest(t, D) /\ Planted(t, D, L, t.root) /\ Leveled(t, D, H, L, u)

(* One round of `while (parent)` keeps the invariant, with the way back    *)
(* one node higher.                                                        *)
LEMMA ClimbKeeps ==
  ASSUME NEW t, NEW L, NEW u \in L, Sound(t, L, u)
  PROVE  LET b == Balance(t, u)
         IN  /\ b.tree.parent[b.top] \in L \cup {NoNode}
             /\ Sound(IF b.tree.parent[b.top] = NoNode THEN [b.tree EXCEPT !.root = b.top] ELSE b.tree,
                      L, b.tree.parent[b.top])
<1>1. PICK D, H : Forest(t, D) /\ Planted(t, D, L, t.root) /\ Leveled(t, D, H, L, u)
  BY DEF Sound
<1> DEFINE r == Balance(t, u).tree
           top == Balance(t, u).top
           p == t.parent[u]
           nt == IF r.parent[top] = NoNode THEN [r EXCEPT !.root = top] ELSE r
<1>2. PICK E, G : Settled(t, D, H, u, r, top, E, G)
  BY <1>1, BalanceSettled
<1> HIDE DEF r, top
<1>3. Planted(r, E, L, IF u = t.root THEN top ELSE t.root) /\ Leveled(r, E, G, L, p)
  BY <1>1, <1>2, SettledUp
<1>4. /\ Forest(r, E) /\ r \in Trees /\ r.parent[top] = p /\ top \in D[u] /\ r.root = t.root
      /\ p \in L \cup {NoNode}
  BY <1>2, <1>3 DEF Settled, Forest, Leveled
<1>5. p = NoNode <=> u = t.root
  BY <1>1, PlantedFacts
<1>6. u \in Nodes /\ top \in Nodes
  BY <1>1, <1>4, PlantedFacts DEF Forest
<1>7. /\ nt \in Trees /\ nt.child = r.child /\ nt.parent = r.parent /\ nt.height = r.height
      /\ nt.root = IF u = t.root THEN top ELSE t.root
  BY <1>4, <1>5, <1>6 DEF Trees, Pointers
<1> HIDE DEF nt, p
<1>8. Forest(nt, E)
  BY <1>4, <1>7, SameForest
<1>9. Planted(nt, E, L, nt.root)
  BY <1>3, <1>7 DEF Planted
<1>10. Leveled(nt, E, G, L, p)
  BY <1>3, <1>7 DEF Leveled, LevelAt, OffAt
<1>11. Sound(nt, L, p)
  BY <1>8, <1>9, <1>10 DEF Sound
<1> QED BY <1>4, <1>11 DEF nt, p, r, top

(* A TCB outside the tree points to none and no TCB points to it.          *)
LEMMA DeadFacts ==
  ASSUME NEW t, NEW D, Forest(t, D), NEW L, NEW rt, Planted(t, D, L, rt), NEW n \in Nodes \ L
  PROVE  /\ D[n] = {n} /\ t.parent[n] = NoNode
         /\ \A s \in Sides : t.child[s][n] = NoNode
         /\ \A a \in Nodes : n \in D[a] => a = n
         /\ \A a \in Nodes, s \in Sides : t.child[s][a] # n
<1>1. D[n] = {n} /\ t.parent[n] = NoNode /\ NoNode \notin Nodes /\ D \in [Nodes -> SUBSET Nodes]
  BY AvlAssumption DEF Planted, Forest
<1>2. \A s \in Sides : t.child[s][n] = NoNode
  BY <1>1, ForestFacts
<1>3. \A a \in Nodes : n \in D[a] => a = n
  BY <1>1 DEF Forest, Nested
<1>4. \A a \in Nodes, s \in Sides : t.child[s][a] # n
  BY <1>1 DEF Forest, Linked
<1> QED BY <1>1, <1>2, <1>3, <1>4

(* The first TCB.                                                          *)
LEMMA InsertFirst ==
  ASSUME NEW t, NEW L, Sound(t, L, NoNode), NEW n \in Nodes \ L, t.root = NoNode
  PROVE  Sound([t EXCEPT !.root = n, !.height[n] = 1], L \cup {n}, NoNode)
<1>1. PICK D, H : Forest(t, D) /\ Planted(t, D, L, t.root) /\ Leveled(t, D, H, L, NoNode)
  BY DEF Sound
<1> DEFINE r == [t EXCEPT !.root = n, !.height[n] = 1]
           G == [H EXCEPT ![n] = 1]
<1>2. /\ t \in Trees /\ H \in [Nodes -> Int] /\ NoNode \notin Nodes /\ L = {}
      /\ D \in [Nodes -> SUBSET Nodes]
  BY <1>1, AvlAssumption DEF Forest, Leveled, Planted, Below
<1>3. /\ r \in Trees /\ r.child = t.child /\ r.parent = t.parent /\ r.root = n /\ r.height[n] = 1
  <2> DEFINE h == [t.height EXCEPT ![n] = 1]
  <2>1. h \in [Nodes -> Int] /\ h[n] = 1
    BY <1>2 DEF Trees
  <2>2. r = [t EXCEPT !.root = n, !.height = h]
    BY <1>2 DEF Trees
  <2> HIDE DEF h, r
  <2> QED BY <1>2, <2>1, <2>2 DEF Trees, Pointers
<1>4. G \in [Nodes -> Int] /\ G[n] = 1
  BY <1>2
<1> HIDE DEF r, G
<1>5. Forest(r, D)
  BY <1>1, <1>3, SameForest
<1>6. D[n] = {n} /\ t.parent[n] = NoNode /\ \A s \in Sides : t.child[s][n] = NoNode
  BY <1>1, DeadFacts
<1>7. Planted(r, D, L \cup {n}, n)
  BY <1>1, <1>2, <1>3, <1>6 DEF Planted, Below, Pointers
<1>8. LevelAt(r, G, n)
  BY <1>3, <1>4, <1>6, SideFacts DEF LevelAt, HeightOf, Level, Taller
<1>9. Leveled(r, D, G, L \cup {n}, NoNode)
  BY <1>2, <1>3, <1>4, <1>8 DEF Leveled
<1>10. Sound(r, L \cup {n}, NoNode)
  BY <1>3, <1>5, <1>7, <1>9 DEF Sound
<1> QED BY <1>10 DEF r

(* A new leaf n on the empty side s of at.                                 *)
LEMMA InsertLeaf ==
  ASSUME NEW t, NEW D, Forest(t, D), NEW L, Planted(t, D, L, t.root),
         NEW H, Leveled(t, D, H, L, NoNode),
         NEW n \in Nodes \ L, NEW at \in L, NEW s \in Sides,
         t.child[s][at] = NoNode, Before(s, n, at),
         \A a \in Nodes, q \in Sides : at \in Below(D, t.child[q][a]) => Before(q, n, a)
  PROVE  Sound([t EXCEPT !.child[s][at] = n, !.parent[n] = at, !.height[n] = 1], L \cup {n}, at)
<1> DEFINE r == [t EXCEPT !.child[s][at] = n, !.parent[n] = at, !.height[n] = 1]
           E == [a \in Nodes |-> IF at \in D[a] THEN D[a] \cup {n} ELSE D[a]]
           G == [H EXCEPT ![n] = 1]
<1>1. /\ t \in Trees /\ H \in [Nodes -> Int] /\ NoNode \notin Nodes
      /\ D \in [Nodes -> SUBSET Nodes] /\ at \in Nodes /\ at # n /\ L \subseteq Nodes
      /\ at \in D[at]
  BY AvlAssumption, PlantedFacts, ForestFacts DEF Forest, Leveled
<1>2. /\ D[n] = {n} /\ t.parent[n] = NoNode /\ at \notin D[n]
      /\ \A q \in Sides : t.child[q][n] = NoNode
      /\ \A a \in Nodes : n \in D[a] => a = n
      /\ \A a \in Nodes, q \in Sides : t.child[q][a] # n
  BY <1>1, DeadFacts
<1>3. /\ r \in Trees /\ r.root = t.root
      /\ \A q \in Sides, a \in Nodes : r.child[q][a] = IF q = s /\ a = at THEN n ELSE t.child[q][a]
      /\ \A a \in Nodes : r.parent[a] = IF a = n THEN at ELSE t.parent[a]
      /\ \A a \in Nodes : r.height[a] = IF a = n THEN 1 ELSE t.height[a]
  <2> DEFINE c == [t.child EXCEPT ![s][at] = n]
             p == [t.parent EXCEPT ![n] = at]
             h == [t.height EXCEPT ![n] = 1]
  <2>1. /\ c \in [Sides -> [Nodes -> Pointers]]
        /\ \A q \in Sides, a \in Nodes : c[q][a] = IF q = s /\ a = at THEN n ELSE t.child[q][a]
    BY <1>1 DEF Trees, Pointers
  <2>2. /\ p \in [Nodes -> Pointers]
        /\ \A a \in Nodes : p[a] = IF a = n THEN at ELSE t.parent[a]
    BY <1>1 DEF Trees, Pointers
  <2>3. /\ h \in [Nodes -> Int]
        /\ \A a \in Nodes : h[a] = IF a = n THEN 1 ELSE t.height[a]
    BY <1>1 DEF Trees
  <2>4. r = [t EXCEPT !.child = c, !.parent = p, !.height = h]
    BY <1>1 DEF Trees
  <2> HIDE DEF r, c, p, h
  <2>5. r \in Trees /\ r.root = t.root /\ r.child = c /\ r.parent = p /\ r.height = h
    BY <1>1, <2>1, <2>2, <2>3, <2>4 DEF Trees
  <2> QED BY <2>1, <2>2, <2>3, <2>5
<1>4. /\ E \in [Nodes -> SUBSET Nodes] /\ E[n] = {n}
      /\ \A a \in Nodes : E[a] = IF at \in D[a] THEN D[a] \cup {n} ELSE D[a]
  BY <1>1, <1>2
<1>5. G \in [Nodes -> Int] /\ G[n] = 1 /\ \A a \in Nodes : a # n => G[a] = H[a]
  BY <1>1
<1> HIDE DEF r, E, G
<1>6. Other(s) \in Sides /\ Other(s) # s /\ \A q \in Sides : q = s \/ q = Other(s)
  BY SideFacts
<1>7. ASSUME NEW q \in Sides, NEW a \in Nodes
      PROVE  Below(E, r.child[q][a]) =
               IF at \in Below(D, t.child[q][a]) \/ (q = s /\ a = at)
               THEN Below(D, t.child[q][a]) \cup {n} ELSE Below(D, t.child[q][a])
  <2>1. t.child[q][a] \in Pointers
    BY <1>1, TreeTypes DEF Pointers
  <2>2. CASE q = s /\ a = at
    <3>1. r.child[q][a] = n /\ t.child[q][a] = NoNode
      BY <1>3, <2>2
    <3> QED BY <1>1, <1>4, <2>2, <3>1 DEF Below
  <2>3. CASE ~(q = s /\ a = at)
    <3>1. r.child[q][a] = t.child[q][a]
      BY <1>3, <2>3
    <3> QED BY <1>1, <1>4, <2>1, <2>3, <3>1 DEF Below, Pointers
  <2> QED BY <2>2, <2>3
<1>8. Split(r, E)
  <2> SUFFICES ASSUME NEW a \in Nodes, NEW q \in Sides
               PROVE  E[a] = {a} \cup Below(E, r.child[q][a]) \cup Below(E, r.child[Other(q)][a])
    BY DEF Split
  <2>1. D[a] = {a} \cup Below(D, t.child[q][a]) \cup Below(D, t.child[Other(q)][a])
    BY DEF Forest, Split
  <2>2. Other(q) \in Sides /\ (s = q \/ s = Other(q))
    BY SideFacts
  <2>3. CASE a = at
    <3>1. \A z \in Sides : at \notin Below(D, t.child[z][at])
      BY <1>1, ForestFacts DEF Below
    <3> QED BY <1>1, <1>4, <1>7, <2>1, <2>2, <2>3, <3>1
  <2>4. CASE a # at
    <3> QED BY <1>4, <1>7, <2>1, <2>2, <2>4
  <2> QED BY <2>3, <2>4
<1>9. Ordered(r, E)
  <2> SUFFICES ASSUME NEW a \in Nodes, NEW q \in Sides, NEW k \in Below(E, r.child[q][a])
               PROVE  Before(q, k, a)
    BY DEF Ordered
  <2>1. CASE k \in Below(D, t.child[q][a])
    BY <2>1 DEF Forest, Ordered
  <2>2. CASE k \notin Below(D, t.child[q][a])
    <3>1. k = n /\ (at \in Below(D, t.child[q][a]) \/ (q = s /\ a = at))
      BY <1>7, <2>2
    <3> QED BY <3>1
  <2> QED BY <2>1, <2>2
<1>10. Linked(r)
  <2>1. ASSUME NEW a \in Nodes, NEW q \in Sides, r.child[q][a] # NoNode
        PROVE  r.parent[r.child[q][a]] = a
    <3>1. CASE q = s /\ a = at
      BY <1>3, <3>1
    <3>2. CASE ~(q = s /\ a = at)
      <4>1. r.child[q][a] = t.child[q][a] /\ t.child[q][a] \in Nodes
        BY <1>1, <1>3, <2>1, <3>2, TreeTypes
      <4>2. t.parent[t.child[q][a]] = a
        BY <2>1, <4>1 DEF Forest, Linked
      <4> QED BY <1>2, <1>3, <4>1, <4>2
    <3> QED BY <3>1, <3>2
  <2>2. ASSUME NEW a \in Nodes, r.parent[a] # NoNode
        PROVE  \E q \in Sides : r.child[q][r.parent[a]] = a
    <3>1. CASE a = n
      BY <1>1, <1>3, <3>1
    <3>2. CASE a # n
      <4>1. r.parent[a] = t.parent[a] /\ t.parent[a] \in Nodes
        BY <1>1, <1>3, <2>2, <3>2, TreeTypes
      <4>2. PICK q \in Sides : t.child[q][t.parent[a]] = a
        BY <2>2, <4>1 DEF Forest, Linked
      <4>3. ~(q = s /\ t.parent[a] = at)
        BY <1>1, <4>2
      <4> QED BY <1>3, <4>1, <4>2, <4>3
    <3> QED BY <3>1, <3>2
  <2> QED BY <2>1, <2>2 DEF Linked
<1>11. Nested(r, E)
  <2> SUFFICES ASSUME NEW a \in Nodes, NEW k \in E[a]
               PROVE  E[k] \subseteq E[a] /\ (k # a => r.parent[k] \in E[a])
    BY DEF Nested
  <2>1. CASE k = n
    <3>1. k # a => at \in D[a]
      BY <1>2, <1>4, <2>1
    <3> QED BY <1>3, <1>4, <2>1, <3>1
  <2>2. CASE k # n
    <3>1. k \in D[a] /\ k \in Nodes
      BY <1>1, <1>4, <2>2
    <3>2. D[k] \subseteq D[a] /\ (k # a => t.parent[k] \in D[a])
      BY <3>1 DEF Forest, Nested
    <3> QED BY <1>3, <1>4, <2>2, <3>1, <3>2
  <2> QED BY <2>1, <2>2
<1>12. \A a \in Nodes : IsFiniteSet(E[a])
  <2>1. \A a \in Nodes : IsFiniteSet(D[a])
    BY DEF Forest
  <2>2. ASSUME NEW a \in Nodes PROVE IsFiniteSet(D[a] \cup {n})
    BY <2>1, FS_AddElement
  <2> QED BY <1>4, <2>1, <2>2
<1>13. Forest(r, E)
  BY <1>3, <1>4, <1>8, <1>9, <1>10, <1>11, <1>12 DEF Forest
<1>14. Planted(r, E, L \cup {n}, r.root)
  <2>1. t.root \in Nodes /\ L = D[t.root] /\ t.parent[t.root] = NoNode /\ t.root # n
    BY <1>2 DEF Planted, Below, Pointers
  <2>2. E[t.root] = L \cup {n}
    BY <1>4, <2>1
  <2>3. ASSUME NEW a \in Nodes \ (L \cup {n}) PROVE E[a] = {a} /\ r.parent[a] = NoNode
    <3>1. D[a] = {a} /\ t.parent[a] = NoNode /\ at # a
      BY DEF Planted
    <3> QED BY <1>3, <1>4, <3>1
  <2> QED BY <1>1, <1>3, <2>1, <2>2, <2>3 DEF Planted, Below, Pointers
<1>15. \A q \in Sides, a \in Nodes : ~(q = s /\ a = at) /\ a # n =>
         HeightOf(G, r.child[q][a]) = HeightOf(H, t.child[q][a])
  <2> SUFFICES ASSUME NEW q \in Sides, NEW a \in Nodes, ~(q = s /\ a = at), a # n
               PROVE  HeightOf(G, r.child[q][a]) = HeightOf(H, t.child[q][a])
    OBVIOUS
  <2>1. t.child[q][a] \in Pointers /\ t.child[q][a] # n /\ r.child[q][a] = t.child[q][a]
    BY <1>1, <1>2, <1>3, TreeTypes DEF Pointers
  <2> QED BY <1>5, <2>1 DEF HeightOf, Pointers
<1>16. LevelAt(r, G, n)
  <2>1. \A q \in Sides : r.child[q][n] = NoNode
    BY <1>1, <1>2, <1>3
  <2> QED BY <1>5, <2>1, SideFacts DEF LevelAt, HeightOf, Level, Taller
<1>17. \A a \in L : a \in Nodes /\ a # n /\ LevelAt(t, H, a) /\ H[a] >= 1 /\ t.height[a] = H[a]
  BY <1>1 DEF Leveled, Forest
<1>18. ASSUME NEW a \in L, a # at PROVE LevelAt(r, G, a)
  <2>1. a \in Nodes /\ a # n /\ LevelAt(t, H, a) /\ G[a] = H[a]
    BY <1>5, <1>17
  <2> QED BY <1>15, <1>18, <2>1, SideFacts DEF LevelAt
<1>19. OffAt(r, G, at)
  <2> DEFINE k == HeightOf(H, t.child[Other(s)][at])
  <2>1. HeightOf(G, r.child[s][at]) = 1 /\ HeightOf(G, r.child[Other(s)][at]) = k
    BY <1>1, <1>3, <1>5, <1>6, <1>15 DEF HeightOf
  <2>2. Level(H[at], 0, k) /\ H[at] \in Int /\ G[at] = H[at]
    <3>1. LevelAt(t, H, at)
      BY <1>17
    <3> QED BY <1>1, <1>5, <3>1 DEF LevelAt, HeightOf
  <2>3. k \in Int
    BY <1>1, <1>6, TreeTypes DEF HeightOf, Pointers
  <2> HIDE DEF k
  <2>4. Off(G[at], 1, k)
    BY <2>2, <2>3, LevelNumbers
  <2>5. Off(G[at], k, 1)
    BY <2>2, <2>3, <2>4, LevelNumbers
  <2>6. ASSUME NEW q \in Sides
        PROVE  Off(G[at], HeightOf(G, r.child[q][at]), HeightOf(G, r.child[Other(q)][at]))
    <3>1. CASE q = s
      BY <2>1, <2>4, <3>1
    <3>2. CASE q = Other(s)
      BY <2>1, <2>5, <3>2, SideFacts
    <3> QED BY <1>6, <3>1, <3>2
  <2> QED BY <2>6 DEF OffAt
<1>20. Leveled(r, E, G, L \cup {n}, at)
  <2>1. \A a \in L \cup {n} : G[a] >= 1 /\ (at \notin E[a] => r.height[a] = G[a])
    <3> SUFFICES ASSUME NEW a \in L \cup {n} PROVE G[a] >= 1 /\ r.height[a] = G[a]
      OBVIOUS
    <3>1. CASE a = n
      BY <1>3, <1>5, <3>1
    <3>2. CASE a # n
      BY <1>3, <1>5, <1>17, <3>2
    <3> QED BY <3>1, <3>2
  <2> QED BY <1>5, <1>16, <1>18, <1>19, <2>1 DEF Leveled
<1>21. Sound(r, L \cup {n}, at)
  BY <1>13, <1>14, <1>20 DEF Sound
<1> QED BY <1>21 DEF r

-----------------------------------------------------------------------------
(* The tree r is t without n, which has no child on the side Other(s).     *)
CutOut(t, r, n, s) ==
  /\ t.child[Other(s)][n] = NoNode
  /\ r \in Trees /\ r.root = IF t.root = n THEN t.child[s][n] ELSE t.root
  /\ \A q \in Sides, a \in Nodes :
       r.child[q][a] = IF a = n THEN NoNode
                       ELSE IF t.child[q][a] = n THEN t.child[s][n] ELSE t.child[q][a]
  /\ \A a \in Nodes :
       r.parent[a] = IF a = n THEN NoNode
                     ELSE IF a = t.child[s][n] THEN t.parent[n] ELSE t.parent[a]
  /\ \A a \in Nodes \ {n} : r.height[a] = t.height[a]

(* D without n.                                                            *)
Without(D, n) == [a \in Nodes |-> IF a = n THEN {n} ELSE D[a] \ {n}]

(* The subtrees of r are those of t without n.                             *)
Thinned(t, D, r, E, n) ==
  \A s \in Sides, a \in Nodes :
    Below(E, r.child[s][a]) \subseteq Below(D, t.child[s][a]) \ {n}

(* What is left after a node with at most one child is unlinked is in      *)
(* order.                                                                  *)
LEMMA CutForest ==
  ASSUME NEW t, NEW D, Forest(t, D), NEW n \in Nodes, NEW s \in Sides, NEW r, CutOut(t, r, n, s)
  PROVE  Forest(r, Without(D, n)) /\ Thinned(t, D, r, Without(D, n), n)
<1> DEFINE E == Without(D, n)
           m == t.child[s][n]
<1>1. /\ t \in Trees /\ NoNode \notin Nodes /\ D \in [Nodes -> SUBSET Nodes]
      /\ t.child[Other(s)][n] = NoNode /\ r \in Trees /\ m \in Pointers
      /\ \A q \in Sides : q = s \/ q = Other(s)
  BY AvlAssumption, TreeTypes, SideFacts DEF Forest, CutOut, Pointers
<1>2. m # NoNode => m \in Nodes /\ m # n /\ n \notin D[m] /\ t.parent[m] = n
  BY <1>1, ForestFacts DEF Forest, Linked
<1>3. D[n] = {n} \cup Below(D, m)
  <2>1. D[n] = {n} \cup Below(D, t.child[s][n]) \cup Below(D, t.child[Other(s)][n])
    BY DEF Forest, Split
  <2> QED BY <1>1, <2>1 DEF Below
<1>4. /\ E \in [Nodes -> SUBSET Nodes] /\ E[n] = {n}
      /\ \A a \in Nodes : a # n => E[a] = D[a] \ {n}
  BY <1>1 DEF Without
<1>5. /\ \A q \in Sides, a \in Nodes :
           r.child[q][a] = IF a = n THEN NoNode ELSE IF t.child[q][a] = n THEN m ELSE t.child[q][a]
      /\ \A a \in Nodes :
           r.parent[a] = IF a = n THEN NoNode ELSE IF a = m THEN t.parent[n] ELSE t.parent[a]
  BY DEF CutOut
<1>6. \A a \in Nodes : n \in D[a] /\ a \in D[n] => a = n
  BY ForestFacts
<1>7. \A a \in Nodes : t.parent[a] = n => a = m
  BY <1>1 DEF Forest, Linked
<1> HIDE DEF E, m
<1>8. ASSUME NEW q \in Sides, NEW a \in Nodes
      PROVE  Below(E, r.child[q][a]) = IF a = n THEN {} ELSE Below(D, t.child[q][a]) \ {n}
  <2>1. t.child[q][a] \in Pointers
    BY <1>1, TreeTypes DEF Pointers
  <2>2. CASE a = n
    BY <1>5, <2>2 DEF Below
  <2>3. CASE a # n /\ t.child[q][a] = n
    <3>1. r.child[q][a] = m /\ Below(D, t.child[q][a]) = D[n]
      BY <1>1, <1>5, <2>3 DEF Below
    <3>2. Below(E, m) = Below(D, m) \ {n}
      BY <1>1, <1>2, <1>4 DEF Below, Pointers
    <3> QED BY <1>3, <2>3, <3>1, <3>2
  <2>4. CASE a # n /\ t.child[q][a] # n
    <3>1. r.child[q][a] = t.child[q][a]
      BY <1>5, <2>4
    <3> QED BY <1>1, <1>4, <2>1, <2>4, <3>1 DEF Below, Pointers
  <2> QED BY <2>2, <2>3, <2>4
<1>9. Split(r, E)
  <2> SUFFICES ASSUME NEW a \in Nodes, NEW q \in Sides
               PROVE  E[a] = {a} \cup Below(E, r.child[q][a]) \cup Below(E, r.child[Other(q)][a])
    BY DEF Split
  <2>1. D[a] = {a} \cup Below(D, t.child[q][a]) \cup Below(D, t.child[Other(q)][a])
    BY DEF Forest, Split
  <2>2. Other(q) \in Sides
    BY SideFacts
  <2>3. CASE a = n
    <3>1. Below(E, r.child[q][a]) = {} /\ Below(E, r.child[Other(q)][a]) = {}
      BY <1>8, <2>2, <2>3
    <3> QED BY <1>4, <2>3, <3>1
  <2>4. CASE a # n
    <3>1. /\ Below(E, r.child[q][a]) = Below(D, t.child[q][a]) \ {n}
          /\ Below(E, r.child[Other(q)][a]) = Below(D, t.child[Other(q)][a]) \ {n}
      BY <1>8, <2>2, <2>4
    <3>2. E[a] = D[a] \ {n}
      BY <1>4, <2>4
    <3> QED BY <2>1, <2>4, <3>1, <3>2
  <2> QED BY <2>3, <2>4
<1>10. Ordered(r, E)
  <2> SUFFICES ASSUME NEW a \in Nodes, NEW q \in Sides, NEW k \in Below(E, r.child[q][a])
               PROVE  Before(q, k, a)
    BY DEF Ordered
  <2>1. k \in Below(D, t.child[q][a])
    BY <1>8
  <2> QED BY <2>1 DEF Forest, Ordered
<1>11. Linked(r)
  <2>1. ASSUME NEW a \in Nodes, NEW q \in Sides, r.child[q][a] # NoNode
        PROVE  r.parent[r.child[q][a]] = a
    <3>1. a # n
      BY <1>5, <2>1
    <3>2. CASE t.child[q][a] = n
      <4>1. r.child[q][a] = m /\ t.parent[n] = a
        BY <1>1, <1>5, <3>1, <3>2 DEF Forest, Linked
      <4> QED BY <1>2, <1>5, <2>1, <4>1
    <3>3. CASE t.child[q][a] # n
      <4>1. r.child[q][a] = t.child[q][a] /\ t.child[q][a] \in Nodes
        BY <1>1, <1>5, <2>1, <3>1, <3>3, TreeTypes
      <4>2. t.parent[t.child[q][a]] = a
        BY <2>1, <4>1 DEF Forest, Linked
      <4> QED BY <1>1, <1>2, <1>5, <3>1, <3>3, <4>1, <4>2
    <3> QED BY <3>2, <3>3
  <2>2. ASSUME NEW a \in Nodes, r.parent[a] # NoNode
        PROVE  \E q \in Sides : r.child[q][r.parent[a]] = a
    <3>1. a # n
      BY <1>5, <2>2
    <3>2. CASE a = m
      <4>1. r.parent[a] = t.parent[n] /\ t.parent[n] \in Nodes /\ t.parent[n] # n
        BY <1>1, <1>5, <2>2, <3>1, <3>2, ParentFacts
      <4>2. PICK q \in Sides : t.child[q][t.parent[n]] = n
        BY <2>2, <4>1 DEF Forest, Linked
      <4> QED BY <1>5, <3>2, <4>1, <4>2
    <3>3. CASE a # m
      <4>1. r.parent[a] = t.parent[a] /\ t.parent[a] \in Nodes /\ t.parent[a] # n
        BY <1>1, <1>5, <1>7, <2>2, <3>1, <3>3, TreeTypes
      <4>2. PICK q \in Sides : t.child[q][t.parent[a]] = a
        BY <2>2, <4>1 DEF Forest, Linked
      <4> QED BY <1>5, <3>1, <4>1, <4>2
    <3> QED BY <3>2, <3>3
  <2> QED BY <2>1, <2>2 DEF Linked
<1>12. Nested(r, E)
  <2>0. \A a \in Nodes : \A k \in D[a] : D[k] \subseteq D[a] /\ (k # a => t.parent[k] \in D[a])
    BY DEF Forest, Nested
  <2> SUFFICES ASSUME NEW a \in Nodes, NEW k \in E[a], k # a
               PROVE  E[k] \subseteq E[a] /\ r.parent[k] \in E[a]
    BY DEF Nested
  <2>1. a # n /\ k # n /\ k \in D[a] /\ k \in Nodes /\ E[a] = D[a] \ {n} /\ E[k] = D[k] \ {n}
    BY <1>1, <1>4
  <2>2. r.parent[k] \in D[a] /\ r.parent[k] # n
    <3>1. CASE k = m
      <4>1. t.parent[m] = n /\ r.parent[k] = t.parent[n] /\ n \in D[a]
        BY <1>1, <1>2, <1>5, <2>0, <2>1, <3>1
      <4>2. t.parent[n] \in D[a] /\ t.parent[n] \in Nodes
        BY <1>1, <2>0, <2>1, <4>1
      <4> QED BY <1>1, <4>1, <4>2, ParentFacts
    <3>2. CASE k # m
      BY <1>5, <1>7, <2>0, <2>1, <3>2
    <3> QED BY <3>1, <3>2
  <2> QED BY <2>0, <2>1, <2>2
<1>13. \A a \in Nodes : IsFiniteSet(E[a])
  <2> SUFFICES ASSUME NEW a \in Nodes PROVE IsFiniteSet(E[a])
    OBVIOUS
  <2>1. IsFiniteSet(D[a]) /\ E[a] \subseteq D[a]
    <3>1. n \in D[n]
      BY <1>3
    <3> QED BY <1>4, <3>1 DEF Forest
  <2> QED BY <2>1, FS_Subset
<1>14. Forest(r, E)
  BY <1>1, <1>4, <1>9, <1>10, <1>11, <1>12, <1>13 DEF Forest
<1>15. Thinned(t, D, r, E, n)
  BY <1>8 DEF Thinned
<1> QED BY <1>14, <1>15 DEF E

(* Only the parent of n notices, and by one level.                         *)
LEMMA CutSound ==
  ASSUME NEW t, NEW D, Forest(t, D), NEW L, Planted(t, D, L, t.root),
         NEW H, Leveled(t, D, H, L, NoNode),
         NEW n \in L, NEW s \in Sides, NEW r, CutOut(t, r, n, s)
  PROVE  /\ Planted(r, Without(D, n), L \ {n}, r.root)
         /\ Leveled(r, Without(D, n), H, L \ {n}, t.parent[n])
<1> DEFINE E == Without(D, n)
           m == t.child[s][n]
           o == Other(s)
<1>1. /\ t \in Trees /\ NoNode \notin Nodes /\ D \in [Nodes -> SUBSET Nodes]
      /\ t.child[o][n] = NoNode /\ n \in Nodes /\ m \in Pointers
      /\ o \in Sides /\ \A q \in Sides : q = s \/ q = o
      /\ H \in [Nodes -> Int] /\ L \subseteq Nodes
  BY AvlAssumption, TreeTypes, SideFacts, PlantedFacts DEF Forest, CutOut, Pointers, Leveled
<1>2. m # NoNode => m \in Nodes /\ m # n /\ n \notin D[m] /\ t.parent[m] = n /\ m \in L
  BY <1>1, ForestFacts, PlantedFacts DEF Forest, Linked
<1>3. D[n] = {n} \cup Below(D, m)
  <2>1. D[n] = {n} \cup Below(D, t.child[s][n]) \cup Below(D, t.child[o][n])
    BY <1>1 DEF Forest, Split
  <2> QED BY <1>1, <2>1 DEF Below
<1>4. /\ E \in [Nodes -> SUBSET Nodes] /\ E[n] = {n}
      /\ \A a \in Nodes : a # n => E[a] = D[a] \ {n}
  BY <1>1 DEF Without
<1>5. /\ \A q \in Sides, a \in Nodes :
           r.child[q][a] = IF a = n THEN NoNode ELSE IF t.child[q][a] = n THEN m ELSE t.child[q][a]
      /\ \A a \in Nodes :
           r.parent[a] = IF a = n THEN NoNode ELSE IF a = m THEN t.parent[n] ELSE t.parent[a]
      /\ \A a \in Nodes \ {n} : r.height[a] = t.height[a]
      /\ r.root = IF t.root = n THEN m ELSE t.root
  BY DEF CutOut
<1>6. /\ t.root \in Nodes /\ L = D[t.root] /\ t.parent[t.root] = NoNode
      /\ \A a \in Nodes \ L : D[a] = {a} /\ t.parent[a] = NoNode
      /\ (t.parent[n] = NoNode <=> n = t.root)
      /\ (t.parent[n] # NoNode => t.parent[n] \in L)
  <2>1. \A a \in L : (t.parent[a] # NoNode => t.parent[a] \in L) /\ (t.parent[a] = NoNode <=> a = t.root)
    BY <1>1, PlantedFacts
  <2>2. n \in Below(D, t.root) /\ L = Below(D, t.root) /\ t.root \in Pointers
    BY DEF Planted
  <2> QED BY <2>1, <2>2 DEF Planted, Below, Pointers
<1> HIDE DEF E, m, o
<1>7. Planted(r, E, L \ {n}, r.root)
  <2>1. CASE t.root = n
    <3>1. r.root = m /\ L \ {n} = Below(E, m)
      BY <1>1, <1>2, <1>3, <1>4, <1>5, <1>6, <2>1 DEF Below, Pointers
    <3>2. m # NoNode => r.parent[m] = NoNode
      BY <1>2, <1>5, <1>6, <2>1
    <3> QED BY <1>1, <1>2, <1>4, <1>5, <1>6, <3>1, <3>2 DEF Planted
  <2>2. CASE t.root # n
    <3>1. r.root = t.root /\ L \ {n} = Below(E, t.root) /\ t.root # m
      BY <1>1, <1>2, <1>4, <1>5, <1>6, <2>2 DEF Below
    <3>2. r.parent[t.root] = NoNode
      BY <1>5, <1>6, <2>2, <3>1
    <3>3. t.root \in Pointers
      BY <1>6 DEF Pointers
    <3> QED BY <1>1, <1>2, <1>4, <1>5, <1>6, <3>1, <3>2, <3>3 DEF Planted
  <2> QED BY <2>1, <2>2
<1>8. \A a \in L : H[a] \in Int /\ H[a] >= 1 /\ t.height[a] = H[a] /\ LevelAt(t, H, a)
  BY <1>1 DEF Leveled, Forest
<1>9. t.parent[n] # n /\ \A a \in Nodes, q \in Sides : t.child[q][a] = n => a = t.parent[n]
  BY <1>1, ParentFacts
<1>10. ASSUME NEW a \in L \ {n}, a # t.parent[n] PROVE LevelAt(r, H, a)
  <2>1. \A q \in Sides : r.child[q][a] = t.child[q][a]
    BY <1>1, <1>5, <1>9, <1>10
  <2>2. LevelAt(t, H, a)
    BY <1>8
  <2> QED BY <2>1, <2>2, SideFacts DEF LevelAt
<1>11. ASSUME t.parent[n] # NoNode PROVE OffAt(r, H, t.parent[n])
  <2> DEFINE u == t.parent[n]
  <2>1. u \in L /\ u \in Nodes /\ u # n
    BY <1>1, <1>6, <1>9, <1>11
  <2>2. PICK q \in Sides : t.child[q][u] = n /\ t.child[Other(q)][u] # n
    BY <1>1, <1>11, ParentFacts
  <2> DEFINE k == HeightOf(H, t.child[Other(q)][u])
             l == HeightOf(H, m)
  <2>3. Other(q) \in Sides /\ \A z \in Sides : z = q \/ z = Other(q)
    BY SideFacts
  <2>4. k \in Int /\ l \in Int /\ l >= 0
    <3>1. k \in Int /\ l \in Int
      BY <1>1, <2>1, <2>3, TreeTypes, HeightOfType DEF Pointers
    <3>2. m # NoNode => H[m] >= 1
      BY <1>2, <1>8
    <3> QED BY <3>1, <3>2 DEF HeightOf
  <2>5. HeightOf(H, r.child[q][u]) = l /\ HeightOf(H, r.child[Other(q)][u]) = k
    BY <1>5, <2>1, <2>2, <2>3
  <2>6. Level(H[n], l, 0)
    <3>1. LevelAt(t, H, n)
      BY <1>8
    <3>2. Level(H[n], HeightOf(H, t.child[s][n]), HeightOf(H, t.child[o][n]))
      BY <1>1, <3>1 DEF LevelAt, o
    <3> QED BY <1>1, <3>2 DEF HeightOf, m
  <2>7. Level(H[u], H[n], k)
    <3>1. LevelAt(t, H, u)
      BY <1>8, <2>1
    <3>2. Level(H[u], HeightOf(H, t.child[q][u]), HeightOf(H, t.child[Other(q)][u]))
      BY <2>1, <3>1 DEF LevelAt
    <3> QED BY <1>1, <2>2, <3>2 DEF HeightOf
  <2>8. H[n] \in Int /\ H[u] \in Int
    BY <1>8, <2>1
  <2> HIDE DEF k, l, u
  <2>9. l - H[n] \in -1 .. 1
    BY <2>4, <2>6, <2>8 DEF Level, Taller
  <2>10. Off(H[u], l, k)
    BY <2>4, <2>7, <2>8, <2>9, LevelNumbers
  <2>11. Off(H[u], k, l)
    BY <2>4, <2>8, <2>10, LevelNumbers
  <2>12. ASSUME NEW z \in Sides
         PROVE  Off(H[u], HeightOf(H, r.child[z][u]), HeightOf(H, r.child[Other(z)][u]))
    <3>1. CASE z = q
      BY <2>5, <2>10, <3>1
    <3>2. CASE z = Other(q)
      BY <2>5, <2>11, <3>2, SideFacts
    <3> QED BY <2>3, <3>1, <3>2
  <2> QED BY <2>12 DEF OffAt, u
<1>12. Leveled(r, E, H, L \ {n}, t.parent[n])
  BY <1>1, <1>5, <1>6, <1>8, <1>9, <1>10, <1>11 DEF Leveled
<1> QED BY <1>7, <1>12 DEF E

-----------------------------------------------------------------------------
(* m for n and n for m.                                                    *)
Swap(n, m, a) == IF a = n THEN m ELSE IF a = m THEN n ELSE a

(* The heights H, with m and n exchanged.                                  *)
Carried(H, n, m) == [a \in Nodes |-> H[Swap(n, m, a)]]

(* The nodes below each one, with m and n exchanged.                       *)
Swapped(D, n, m) == [a \in Nodes |-> {k \in Nodes : Swap(n, m, k) \in D[Swap(n, m, a)]}]

(* The tree r is t with m, which is not in t, in the place of n.           *)
PutFor(t, r, n, m) ==
  /\ r \in Trees /\ r.root = Swap(n, m, t.root)
  /\ \A q \in Sides, a \in Nodes : r.child[q][a] = Swap(n, m, t.child[q][Swap(n, m, a)])
  /\ \A a \in Nodes : r.parent[a] = Swap(n, m, t.parent[Swap(n, m, a)])
  /\ \A a \in Nodes \ {n, m} : r.height[a] = t.height[a]

(* The exchange is its own inverse.                                        *)
LEMMA SwapFacts ==
  ASSUME NEW n \in Nodes, NEW m \in Nodes
  PROVE  /\ \A a : Swap(n, m, Swap(n, m, a)) = a
         /\ \A a \in Nodes : Swap(n, m, a) \in Nodes
         /\ \A a \in Pointers : Swap(n, m, a) \in Pointers
         /\ \A a : Swap(n, m, a) = NoNode <=> a = NoNode
         /\ Swap(n, m, n) = m /\ Swap(n, m, m) = n
         /\ \A a : a # n /\ a # m => Swap(n, m, a) = a
BY AvlAssumption DEF Swap, Pointers

(* What lies below a child after the exchange.                             *)
LEMMA SwapBelow ==
  ASSUME NEW t, NEW D, Forest(t, D), NEW n \in Nodes, NEW m \in Nodes, NEW r, PutFor(t, r, n, m),
         NEW a \in Nodes, NEW q \in Sides, NEW k
  PROVE  k \in Below(Swapped(D, n, m), r.child[q][a]) <=>
           k \in Nodes /\ Swap(n, m, k) \in Below(D, t.child[q][Swap(n, m, a)])
<1> DEFINE c == t.child[q][Swap(n, m, a)]
<1>1. Swap(n, m, a) \in Nodes
  BY SwapFacts
<1>2. c \in Pointers /\ r.child[q][a] = Swap(n, m, c)
  BY <1>1, TreeTypes DEF Forest, PutFor, Pointers
<1> HIDE DEF c
<1>3. CASE c = NoNode
  <2>1. Swap(n, m, c) = NoNode
    BY <1>3, SwapFacts
  <2> QED BY <1>2, <1>3, <2>1 DEF Below, c
<1>4. CASE c \in Nodes
  <2>1. Swap(n, m, c) \in Nodes /\ Swap(n, m, c) # NoNode /\ c # NoNode
    BY <1>4, SwapFacts, AvlAssumption
  <2>2. Swap(n, m, Swap(n, m, c)) = c
    BY SwapFacts
  <2>3. Swapped(D, n, m)[Swap(n, m, c)] = {z \in Nodes : Swap(n, m, z) \in D[c]}
    BY <2>1, <2>2 DEF Swapped
  <2> QED BY <1>2, <2>1, <2>3 DEF Below, c
<1> QED BY <1>2, <1>3, <1>4 DEF Pointers

(* m may take the place of n if it lies between n's subtrees, and on the   *)
(* side of n of everything above.                                          *)
LEMMA SwapForest ==
  ASSUME NEW t, NEW D, Forest(t, D), NEW L, NEW rt, Planted(t, D, L, rt),
         NEW n \in L, NEW m \in Nodes \ L, NEW r, PutFor(t, r, n, m),
         \A q \in Sides : \A k \in Below(D, t.child[q][n]) : Before(q, k, m),
         \A q \in Sides, a \in Nodes : n \in Below(D, t.child[q][a]) => Before(q, m, a)
  PROVE  Forest(r, Swapped(D, n, m))
<1> DEFINE E == Swapped(D, n, m)
           S(a) == Swap(n, m, a)
<1>1. /\ t \in Trees /\ NoNode \notin Nodes /\ D \in [Nodes -> SUBSET Nodes]
      /\ n \in Nodes /\ m \in Nodes /\ n # m /\ r \in Trees /\ L \subseteq Nodes
  BY AvlAssumption, PlantedFacts DEF Forest, PutFor
<1>2. /\ \A a : S(S(a)) = a
      /\ \A a \in Nodes : S(a) \in Nodes
      /\ \A a : S(a) = NoNode <=> a = NoNode
      /\ S(n) = m /\ S(m) = n
      /\ \A a : a # n /\ a # m => S(a) = a
  BY <1>1, SwapFacts
<1>3. /\ \A q \in Sides : t.child[q][m] = NoNode
      /\ \A a \in Nodes, q \in Sides : m \notin Below(D, t.child[q][a])
  <2>1. /\ \A q \in Sides : t.child[q][m] = NoNode
        /\ \A a \in Nodes : m \in D[a] => a = m
        /\ \A a \in Nodes, q \in Sides : t.child[q][a] # m
    BY <1>1, DeadFacts
  <2>2. \A a \in Nodes, q \in Sides : t.child[q][a] \in Pointers
    BY <1>1, TreeTypes DEF Pointers
  <2> QED BY <2>1, <2>2 DEF Below, Pointers
<1>4. E \in [Nodes -> SUBSET Nodes] /\ \A a \in Nodes : E[a] = {k \in Nodes : S(k) \in D[S(a)]}
  BY DEF Swapped
<1>5. \A a \in Nodes, q \in Sides : \A k :
        k \in Below(E, r.child[q][a]) <=> k \in Nodes /\ S(k) \in Below(D, t.child[q][S(a)])
  BY <1>1, SwapBelow
<1>6. /\ \A q \in Sides, a \in Nodes : r.child[q][a] = S(t.child[q][S(a)])
      /\ \A a \in Nodes : r.parent[a] = S(t.parent[S(a)])
  BY DEF PutFor
<1> HIDE DEF E, S
<1>7. Split(r, E)
  <2> SUFFICES ASSUME NEW a \in Nodes, NEW q \in Sides, NEW k
               PROVE  k \in E[a] <=> k = a \/ k \in Below(E, r.child[q][a])
                                           \/ k \in Below(E, r.child[Other(q)][a])
    BY DEF Split
  <2>1. D[S(a)] = {S(a)} \cup Below(D, t.child[q][S(a)]) \cup Below(D, t.child[Other(q)][S(a)])
    BY <1>2 DEF Forest, Split
  <2>2. Other(q) \in Sides
    BY SideFacts
  <2>3. k \in E[a] <=> k \in Nodes /\ S(k) \in D[S(a)]
    BY <1>4
  <2>4. S(k) = S(a) <=> k = a
    BY <1>2
  <2> QED BY <1>5, <2>1, <2>2, <2>3, <2>4
<1>8. Ordered(r, E)
  <2> SUFFICES ASSUME NEW a \in Nodes, NEW q \in Sides, NEW k \in Below(E, r.child[q][a])
               PROVE  Before(q, k, a)
    BY DEF Ordered
  <2>1. k \in Nodes /\ S(k) \in Below(D, t.child[q][S(a)]) /\ k # n
    BY <1>2, <1>3, <1>5
  <2>2. Before(q, S(k), S(a))
    BY <1>2, <2>1 DEF Forest, Ordered
  <2>3. CASE a = m
    <3>1. S(k) \in Below(D, t.child[q][n])
      BY <1>2, <2>1, <2>3
    <3>2. k # m
      BY <1>1, <1>2, <2>2, <2>3, BeforeFacts
    <3>3. S(k) = k
      BY <1>2, <2>1, <3>2
    <3> QED BY <2>3, <3>1, <3>3
  <2>4. CASE a = n
    BY <1>2, <1>3, <2>1, <2>4 DEF Below
  <2>5. CASE a # m /\ a # n
    <3>1. S(a) = a
      BY <1>2, <2>5
    <3>2. CASE k = m
      BY <1>2, <2>1, <3>1, <3>2
    <3>3. CASE k # m
      BY <1>2, <2>1, <2>2, <3>1, <3>3
    <3> QED BY <3>2, <3>3
  <2> QED BY <2>3, <2>4, <2>5
<1>9. Linked(r)
  <2>1. ASSUME NEW a \in Nodes, NEW q \in Sides, r.child[q][a] # NoNode
        PROVE  r.parent[r.child[q][a]] = a
    <3> DEFINE c == t.child[q][S(a)]
    <3>1. r.child[q][a] = S(c) /\ c # NoNode /\ c \in Nodes
      BY <1>1, <1>2, <1>6, <2>1, TreeTypes
    <3>2. t.parent[c] = S(a)
      BY <1>2, <3>1 DEF Forest, Linked
    <3> HIDE DEF c
    <3>3. r.parent[S(c)] = S(S(a))
      BY <1>2, <1>6, <3>1, <3>2
    <3> QED BY <1>2, <3>1, <3>3
  <2>2. ASSUME NEW a \in Nodes, r.parent[a] # NoNode
        PROVE  \E q \in Sides : r.child[q][r.parent[a]] = a
    <3> DEFINE p == t.parent[S(a)]
    <3>1. r.parent[a] = S(p) /\ p # NoNode /\ p \in Nodes
      BY <1>1, <1>2, <1>6, <2>2, TreeTypes
    <3>2. PICK q \in Sides : t.child[q][p] = S(a)
      BY <1>2, <3>1 DEF Forest, Linked
    <3> HIDE DEF p
    <3>3. r.child[q][S(p)] = S(S(a))
      BY <1>2, <1>6, <3>1, <3>2
    <3> QED BY <1>2, <3>1, <3>3
  <2> QED BY <2>1, <2>2 DEF Linked
<1>10. Nested(r, E)
  <2>0. \A a \in Nodes : \A k \in D[a] : D[k] \subseteq D[a] /\ (k # a => t.parent[k] \in D[a])
    BY DEF Forest, Nested
  <2> SUFFICES ASSUME NEW a \in Nodes, NEW k \in E[a]
               PROVE  E[k] \subseteq E[a] /\ (k # a => r.parent[k] \in E[a])
    BY DEF Nested
  <2>1. k \in Nodes /\ S(k) \in D[S(a)] /\ S(a) \in Nodes
    BY <1>2, <1>4
  <2>2. D[S(k)] \subseteq D[S(a)]
    BY <2>0, <2>1
  <2>3. E[k] \subseteq E[a]
    BY <1>4, <2>1, <2>2
  <2>4. ASSUME k # a PROVE r.parent[k] \in E[a]
    <3>1. S(k) # S(a)
      BY <1>2, <2>4
    <3>2. t.parent[S(k)] \in D[S(a)]
      BY <2>0, <2>1, <3>1
    <3>3. S(r.parent[k]) = t.parent[S(k)]
      BY <1>2, <1>6, <2>1
    <3>4. r.parent[k] \in Nodes
      BY <1>1, <1>2, <1>6, <2>1, <3>2
    <3> QED BY <1>4, <3>2, <3>3, <3>4
  <2> QED BY <2>3, <2>4
<1>11. \A a \in Nodes : IsFiniteSet(E[a])
  <2> SUFFICES ASSUME NEW a \in Nodes PROVE IsFiniteSet(E[a])
    OBVIOUS
  <2>1. IsFiniteSet(D[S(a)])
    BY <1>2 DEF Forest
  <2>2. IsFiniteSet(D[S(a)] \cup {n})
    BY <2>1, FS_AddElement
  <2>3. IsFiniteSet((D[S(a)] \cup {n}) \cup {m})
    BY <2>2, FS_AddElement
  <2>4. E[a] \subseteq (D[S(a)] \cup {n}) \cup {m}
    BY <1>2, <1>4
  <2> QED BY <2>3, <2>4, FS_Subset
<1>12. Forest(r, E)
  BY <1>1, <1>4, <1>7, <1>8, <1>9, <1>10, <1>11 DEF Forest
<1> QED BY <1>12 DEF E

(* m takes over the height of n as well; the way back starts below or at   *)
(* the place of n, so nobody reads the height of m before it is set.       *)
LEMMA SwapSound ==
  ASSUME NEW t, NEW D, Forest(t, D), NEW L, Planted(t, D, L, t.root),
         NEW n \in L, NEW m \in Nodes \ L, NEW H, NEW u \in D[n], Leveled(t, D, H, L, u),
         NEW r, PutFor(t, r, n, m)
  PROVE  /\ Planted(r, Swapped(D, n, m), (L \ {n}) \cup {m}, r.root)
         /\ Leveled(r, Swapped(D, n, m), Carried(H, n, m),
                    (L \ {n}) \cup {m}, Swap(n, m, u))
<1> DEFINE E == Swapped(D, n, m)
           G == Carried(H, n, m)
           S(a) == Swap(n, m, a)
           N == (L \ {n}) \cup {m}
<1>1. /\ t \in Trees /\ NoNode \notin Nodes /\ D \in [Nodes -> SUBSET Nodes]
      /\ n \in Nodes /\ m \in Nodes /\ n # m /\ r \in Trees /\ L \subseteq Nodes
      /\ H \in [Nodes -> Int] /\ u \in L /\ u \in Nodes /\ u # m
  BY AvlAssumption, PlantedFacts DEF Forest, PutFor, Leveled
<1>2. /\ \A a : S(S(a)) = a
      /\ \A a \in Nodes : S(a) \in Nodes
      /\ \A a : S(a) = NoNode <=> a = NoNode
      /\ S(n) = m /\ S(m) = n
      /\ \A a : a # n /\ a # m => S(a) = a
  BY <1>1, SwapFacts
<1>4. E \in [Nodes -> SUBSET Nodes] /\ \A a \in Nodes : E[a] = {k \in Nodes : S(k) \in D[S(a)]}
  BY DEF Swapped
<1>5. G \in [Nodes -> Int] /\ \A a \in Nodes : G[a] = H[S(a)]
  BY <1>1, <1>2 DEF Carried
<1>6. /\ \A q \in Sides, a \in Nodes : r.child[q][a] = S(t.child[q][S(a)])
      /\ \A a \in Nodes : r.parent[a] = S(t.parent[S(a)])
      /\ \A a \in Nodes \ {n, m} : r.height[a] = t.height[a]
      /\ r.root = S(t.root)
  BY DEF PutFor
<1> HIDE DEF E, S, G
<1>7. \A a : a \in N <=> a \in Nodes /\ S(a) \in L
  <2> SUFFICES ASSUME NEW a PROVE a \in N <=> a \in Nodes /\ S(a) \in L
    OBVIOUS
  <2>1. CASE a = n
    BY <1>1, <1>2, <2>1
  <2>2. CASE a = m
    BY <1>1, <1>2, <2>2
  <2>3. CASE a # n /\ a # m
    BY <1>1, <1>2, <2>3
  <2> QED BY <2>1, <2>2, <2>3
<1> HIDE DEF N
<1>8. Planted(r, E, N, r.root)
  <2>1. t.root \in Nodes /\ L = D[t.root] /\ t.parent[t.root] = NoNode
    BY <1>1 DEF Planted, Below, Pointers
  <2>2. r.root \in Nodes /\ S(r.root) = t.root
    BY <1>2, <1>6, <2>1
  <2>3. N = E[r.root]
    BY <1>4, <1>7, <2>1, <2>2
  <2>4. r.parent[r.root] = NoNode
    BY <1>2, <1>6, <2>1, <2>2
  <2>5. ASSUME NEW a \in Nodes \ N PROVE E[a] = {a} /\ r.parent[a] = NoNode
    <3>1. S(a) \in Nodes \ L
      BY <1>2, <1>7
    <3>2. D[S(a)] = {S(a)} /\ t.parent[S(a)] = NoNode
      BY <3>1 DEF Planted
    <3>3. \A k : k \in E[a] <=> k = a
      BY <1>2, <1>4, <3>2
    <3> QED BY <1>2, <1>4, <1>6, <3>2, <3>3
  <2> QED BY <1>1, <2>2, <2>3, <2>4, <2>5 DEF Planted, Below, Pointers
<1>9. \A a \in Nodes, q \in Sides : HeightOf(G, r.child[q][a]) = HeightOf(H, t.child[q][S(a)])
  <2> SUFFICES ASSUME NEW a \in Nodes, NEW q \in Sides
               PROVE  HeightOf(G, r.child[q][a]) = HeightOf(H, t.child[q][S(a)])
    OBVIOUS
  <2> DEFINE c == t.child[q][S(a)]
  <2>1. c \in Nodes \cup {NoNode} /\ r.child[q][a] = S(c)
    BY <1>1, <1>2, <1>6, TreeTypes
  <2> HIDE DEF c
  <2>2. S(c) = NoNode <=> c = NoNode
    BY <1>2
  <2>3. c # NoNode => G[S(c)] = H[c]
    BY <1>2, <1>5, <2>1
  <2> QED BY <2>1, <2>2, <2>3 DEF HeightOf, c
<1>10. ASSUME NEW a \in N, a # S(u) PROVE LevelAt(r, G, a)
  <2>1. a \in Nodes /\ S(a) \in L /\ S(a) # u
    BY <1>2, <1>7, <1>10
  <2>2. LevelAt(t, H, S(a))
    BY <2>1 DEF Leveled
  <2> QED BY <1>5, <1>9, <2>1, <2>2, SideFacts DEF LevelAt
<1>11. OffAt(r, G, S(u))
  <2>1. OffAt(t, H, u) /\ S(u) \in Nodes /\ S(S(u)) = u
    BY <1>1, <1>2 DEF Leveled
  <2> QED BY <1>5, <1>9, <2>1, SideFacts DEF OffAt
<1>12. ASSUME NEW a \in N PROVE G[a] >= 1 /\ (S(u) \notin E[a] => r.height[a] = G[a])
  <2>1. a \in Nodes /\ S(a) \in L /\ a # n
    BY <1>1, <1>2, <1>7
  <2>2. H[S(a)] >= 1 /\ (u \notin D[S(a)] => t.height[S(a)] = H[S(a)])
    BY <2>1 DEF Leveled
  <2>3. S(u) \in E[a] <=> u \in D[S(a)]
    BY <1>1, <1>2, <1>4, <2>1
  <2>4. a = m => u \in D[S(a)]
    BY <1>2
  <2>5. a # m => r.height[a] = t.height[a] /\ S(a) = a
    BY <1>2, <1>6, <2>1
  <2> QED BY <1>5, <2>1, <2>2, <2>3, <2>4, <2>5
<1>13. Leveled(r, E, G, N, S(u))
  <2>1. S(u) \in N
    BY <1>1, <1>2, <1>7
  <2> QED BY <1>5, <1>10, <1>11, <1>12, <2>1 DEF Leveled
<1> QED BY <1>8, <1>13 DEF E, G, S, N

-----------------------------------------------------------------------------
(* PutInPlace hangs m where n hangs, and nothing else changes.             *)
LEMMA PutIs ==
  ASSUME NEW t \in Trees, NEW n \in Nodes, NEW m \in Pointers,
         t.parent[n] # NoNode =>
           \E s \in Sides : t.child[s][t.parent[n]] = n /\ t.child[Other(s)][t.parent[n]] # n
  PROVE  LET r == PutInPlace(t, n, m)
         IN  /\ r \in Trees /\ r.height = t.height
             /\ r.root = IF t.parent[n] = NoNode THEN m ELSE t.root
             /\ \A s \in Sides, a \in Nodes :
                  r.child[s][a] = IF a = t.parent[n] /\ t.child[s][a] = n THEN m ELSE t.child[s][a]
             /\ \A a \in Nodes : r.parent[a] = IF a = m THEN t.parent[n] ELSE t.parent[a]
<1> DEFINE p == t.parent[n]
           f == Set(t.parent, m, p)
           t1 == [t EXCEPT !.parent = Set(@, m, p)]
           r == PutInPlace(t, n, m)
<1>1. p \in Pointers /\ NoNode \notin Nodes
  BY TreeTypes DEF Pointers
<1>2. f \in [Nodes -> Pointers] /\ \A a \in Nodes : f[a] = IF a = m THEN p ELSE t.parent[a]
  BY <1>1 DEF Trees, Set, Pointers
<1>3. t1 = [t EXCEPT !.parent = f]
  BY DEF Trees
<1>4. r = IF p = NoNode THEN [t1 EXCEPT !.root = m] ELSE Replace(t1, p, n, m)
  BY DEF PutInPlace
<1> HIDE DEF f, t1, r
<1>5. t1 \in Trees /\ t1.root = t.root /\ t1.child = t.child /\ t1.parent = f /\ t1.height = t.height
  BY <1>2, <1>3 DEF Trees
<1>6. CASE p = NoNode
  <2>1. r = [t1 EXCEPT !.root = m]
    BY <1>4, <1>6
  <2>2. r \in Trees /\ r.root = m /\ r.child = t.child /\ r.parent = f /\ r.height = t.height
    BY <1>5, <2>1 DEF Trees
  <2>3. \A s \in Sides, a \in Nodes : ~(a = p /\ t.child[s][a] = n)
    BY <1>1, <1>6
  <2> QED BY <1>2, <1>6, <2>2, <2>3 DEF r
<1>7. CASE p # NoNode
  <2>1. \E s \in Sides : t1.child[s][p] = n /\ t1.child[Other(s)][p] # n
    BY <1>5, <1>7
  <2>2. r = Replace(t1, p, n, m)
    BY <1>4, <1>7
  <2> HIDE DEF p
  <2>3. /\ r \in Trees /\ r.root = t1.root /\ r.parent = t1.parent /\ r.height = t1.height
        /\ \A s \in Sides, a \in Nodes :
             r.child[s][a] = IF a = p /\ t1.child[s][a] = n THEN m ELSE t1.child[s][a]
    BY <1>1, <1>5, <2>1, <2>2, ReplaceIs
  <2> QED BY <1>2, <1>5, <1>7, <2>3 DEF r, p
<1> QED BY <1>6, <1>7

(* Delete frees n: a zeroed TCB outside the tree.                          *)
Cleared(t, n) ==
  [t EXCEPT !.parent[n] = NoNode, !.height[n] = 0,
            !.child = [s \in Sides |-> [@[s] EXCEPT ![n] = NoNode]]]

(* The fields of a cleared TCB.                                            *)
LEMMA ClearedIs ==
  ASSUME NEW t \in Trees, NEW n \in Nodes
  PROVE  /\ Cleared(t, n) \in Trees /\ Cleared(t, n).root = t.root
         /\ \A s \in Sides, a \in Nodes :
              Cleared(t, n).child[s][a] = IF a = n THEN NoNode ELSE t.child[s][a]
         /\ \A a \in Nodes : Cleared(t, n).parent[a] = IF a = n THEN NoNode ELSE t.parent[a]
         /\ \A a \in Nodes \ {n} : Cleared(t, n).height[a] = t.height[a]
<1> DEFINE c == [s \in Sides |-> [t.child[s] EXCEPT ![n] = NoNode]]
           p == [t.parent EXCEPT ![n] = NoNode]
           h == [t.height EXCEPT ![n] = 0]
           r == Cleared(t, n)
<1>1. /\ c \in [Sides -> [Nodes -> Pointers]]
      /\ \A s \in Sides, a \in Nodes : c[s][a] = IF a = n THEN NoNode ELSE t.child[s][a]
  BY DEF Trees, Pointers
<1>2. /\ p \in [Nodes -> Pointers]
      /\ \A a \in Nodes : p[a] = IF a = n THEN NoNode ELSE t.parent[a]
  BY DEF Trees, Pointers
<1>3. h \in [Nodes -> Int] /\ \A a \in Nodes \ {n} : h[a] = t.height[a]
  BY DEF Trees
<1>4. r = [t EXCEPT !.parent = p, !.height = h, !.child = c]
  BY DEF Trees, Cleared
<1> HIDE DEF c, p, h, r
<1>5. r \in Trees /\ r.root = t.root /\ r.child = c /\ r.parent = p /\ r.height = h
  BY <1>1, <1>2, <1>3, <1>4 DEF Trees
<1> QED BY <1>1, <1>2, <1>3, <1>5 DEF r

(* A node with at most one child.                                          *)
LEMMA DeleteOuter ==
  ASSUME NEW t, NEW L, Sound(t, L, NoNode), NEW n \in L,
         \E s \in Sides : t.child[s][n] = NoNode
  PROVE  Sound(Cleared(UnlinkOuter(t, n).tree, n), L \ {n}, UnlinkOuter(t, n).from)
<1>1. PICK D, H : Forest(t, D) /\ Planted(t, D, L, t.root) /\ Leveled(t, D, H, L, NoNode)
  BY DEF Sound
<1> DEFINE only == IF t.child["left"][n] # NoNode THEN t.child["left"][n] ELSE t.child["right"][n]
           p == t.parent[n]
           v == PutInPlace(t, n, only)
           r == Cleared(v, n)
<1>2. /\ t \in Trees /\ n \in Nodes /\ NoNode \notin Nodes
      /\ (p = NoNode <=> t.root = n)
  BY <1>1, PlantedFacts, AvlAssumption DEF Forest
<1>3. PICK s \in Sides : only = t.child[s][n] /\ t.child[Other(s)][n] = NoNode
  <2>1. CASE t.child["left"][n] # NoNode
    <3>1. t.child["right"][n] = NoNode /\ "left" \in Sides /\ Other("left") = "right"
      BY <2>1 DEF Sides, Other
    <3> QED BY <2>1, <3>1
  <2>2. CASE t.child["left"][n] = NoNode
    <3>1. "right" \in Sides /\ Other("right") = "left"
      BY DEF Sides, Other
    <3> QED BY <2>2, <3>1
  <2> QED BY <2>1, <2>2
<1>4. only \in Pointers
  BY <1>2, <1>3, TreeTypes DEF Pointers
<1> HIDE DEF only
<1>5. /\ \A a \in Nodes, q \in Sides : t.child[q][a] = n => a = p
      /\ p # n
      /\ p # NoNode => \E q \in Sides : t.child[q][p] = n /\ t.child[Other(q)][p] # n
  BY <1>1, <1>2, ParentFacts
<1>6. /\ v \in Trees /\ v.height = t.height
      /\ v.root = IF p = NoNode THEN only ELSE t.root
      /\ \A q \in Sides, a \in Nodes :
           v.child[q][a] = IF a = p /\ t.child[q][a] = n THEN only ELSE t.child[q][a]
      /\ \A a \in Nodes : v.parent[a] = IF a = only THEN p ELSE t.parent[a]
  BY <1>2, <1>4, <1>5, PutIs
<1> HIDE DEF v
<1>7. /\ r \in Trees /\ r.root = v.root
      /\ \A q \in Sides, a \in Nodes : r.child[q][a] = IF a = n THEN NoNode ELSE v.child[q][a]
      /\ \A a \in Nodes : r.parent[a] = IF a = n THEN NoNode ELSE v.parent[a]
      /\ \A a \in Nodes \ {n} : r.height[a] = v.height[a]
  BY <1>2, <1>6, ClearedIs
<1> HIDE DEF r, p
<1>8. CutOut(t, r, n, s)
  <2>1. r.root = IF t.root = n THEN t.child[s][n] ELSE t.root
    BY <1>2, <1>3, <1>6, <1>7
  <2>2. \A q \in Sides, a \in Nodes :
          r.child[q][a] = IF a = n THEN NoNode
                          ELSE IF t.child[q][a] = n THEN t.child[s][n] ELSE t.child[q][a]
    <3> SUFFICES ASSUME NEW q \in Sides, NEW a \in Nodes
                 PROVE  r.child[q][a] = IF a = n THEN NoNode
                          ELSE IF t.child[q][a] = n THEN t.child[s][n] ELSE t.child[q][a]
      OBVIOUS
    <3>1. r.child[q][a] = IF a = n THEN NoNode ELSE v.child[q][a]
      BY <1>7
    <3>2. v.child[q][a] = IF t.child[q][a] = n THEN only ELSE t.child[q][a]
      BY <1>5, <1>6
    <3> QED BY <1>3, <3>1, <3>2
  <2>3. \A a \in Nodes :
          r.parent[a] = IF a = n THEN NoNode
                        ELSE IF a = t.child[s][n] THEN t.parent[n] ELSE t.parent[a]
    BY <1>3, <1>6, <1>7 DEF p
  <2>4. \A a \in Nodes \ {n} : r.height[a] = t.height[a]
    BY <1>6, <1>7
  <2> QED BY <1>3, <1>7, <2>1, <2>2, <2>3, <2>4 DEF CutOut
<1>9. Sound(r, L \ {n}, p)
  <2>1. Forest(r, Without(D, n))
    BY <1>1, <1>2, <1>8, CutForest
  <2>2. /\ Planted(r, Without(D, n), L \ {n}, r.root)
        /\ Leveled(r, Without(D, n), H, L \ {n}, t.parent[n])
    BY <1>1, <1>8, CutSound
  <2> QED BY <2>1, <2>2 DEF Sound, p
<1>10. UnlinkOuter(t, n).tree = v /\ UnlinkOuter(t, n).from = p
  BY DEF UnlinkOuter, v, p, only
<1> QED BY <1>9, <1>10 DEF r

(* What the middle of UnlinkInner makes of t: n's successor m, cut out of  *)
(* the tree, has taken over the children of n.                             *)
Adopted(t, r, n, m) ==
  LET f(s, a) == IF t.child[s][a] = m THEN t.child["right"][m] ELSE t.child[s][a]
  IN  /\ r \in Trees /\ r.root = t.root /\ r.height = t.height
      /\ \A s \in Sides, a \in Nodes : r.child[s][a] = IF a = m THEN f(s, n) ELSE f(s, a)
      /\ \A a \in Nodes :
           r.parent[a] = IF \E s \in Sides : f(s, n) = a THEN m
                         ELSE IF a = t.child["right"][m] THEN t.parent[m] ELSE t.parent[a]

(* The middle of UnlinkInner does that.                                    *)
LEMMA AdoptedIs ==
  ASSUME NEW t, NEW D, Forest(t, D), NEW n \in Nodes, NEW m \in Nodes, m # n,
         t.parent[m] # NoNode
  PROVE  LET q    == t.parent[m]
             rest == t.child["right"][m]
             t1   == [Replace(t, q, m, rest) EXCEPT !.parent = Set(@, rest, q)]
         IN  Adopted(t, [t1 EXCEPT !.child["left"][m] = t1.child["left"][n],
                           !.child["right"][m] = t1.child["right"][n],
                           !.parent = Set(Set(@, t1.child["left"][n], m), t1.child["right"][n], m)],
                     n, m)
<1> DEFINE q    == t.parent[m]
           rest == t.child["right"][m]
           t0   == Replace(t, q, m, rest)
           g    == Set(t0.parent, rest, q)
           t1   == [t0 EXCEPT !.parent = Set(@, rest, q)]
           lc   == t1.child["left"][n]
           rc   == t1.child["right"][n]
           c    == [t1.child EXCEPT !["left"][m] = lc, !["right"][m] = rc]
           p    == Set(Set(t1.parent, lc, m), rc, m)
           t2   == [t1 EXCEPT !.child["left"][m] = t1.child["left"][n],
                              !.child["right"][m] = t1.child["right"][n],
                              !.parent = Set(Set(@, t1.child["left"][n], m), t1.child["right"][n], m)]
           f(s, a) == IF t.child[s][a] = m THEN rest ELSE t.child[s][a]
<1>1. /\ t \in Trees /\ NoNode \notin Nodes /\ q \in Nodes /\ rest \in Pointers /\ q \in Pointers
      /\ "left" \in Sides /\ "right" \in Sides
      /\ \A s \in Sides : s = "left" \/ s = "right"
  BY AvlAssumption, TreeTypes DEF Forest, Pointers, Sides
<1>2. /\ \A a \in Nodes, s \in Sides : t.child[s][a] = m => a = q
      /\ \E s \in Sides : t.child[s][q] = m /\ t.child[Other(s)][q] # m
  BY ParentFacts
<1> HIDE DEF q, rest
<1>3. /\ t0 \in Trees /\ t0.root = t.root /\ t0.parent = t.parent /\ t0.height = t.height
      /\ \A s \in Sides, a \in Nodes :
           t0.child[s][a] = IF a = q /\ t.child[s][a] = m THEN rest ELSE t.child[s][a]
  BY <1>1, <1>2, ReplaceIs
<1> HIDE DEF t0
<1>4. \A s \in Sides, a \in Nodes : t0.child[s][a] = f(s, a)
  BY <1>2, <1>3
<1>5. /\ g \in [Nodes -> Pointers]
      /\ \A a \in Nodes : g[a] = IF a = rest THEN q ELSE t.parent[a]
  BY <1>1, <1>3 DEF Trees, Set, Pointers
<1>6. t1 = [t0 EXCEPT !.parent = g]
  BY <1>3 DEF Trees
<1> HIDE DEF g, t1, f
<1>7. t1 \in Trees /\ t1.root = t.root /\ t1.child = t0.child /\ t1.parent = g /\ t1.height = t.height
  BY <1>3, <1>5, <1>6 DEF Trees
<1>8. lc = f("left", n) /\ rc = f("right", n) /\ lc \in Pointers /\ rc \in Pointers
  BY <1>1, <1>4, <1>7 DEF Trees
<1> HIDE DEF lc, rc
<1>9. /\ c \in [Sides -> [Nodes -> Pointers]]
      /\ \A s \in Sides, a \in Nodes : c[s][a] = IF a = m THEN f(s, n) ELSE f(s, a)
  <2>1. c \in [Sides -> [Nodes -> Pointers]]
    BY <1>7, <1>8 DEF Trees
  <2>2. \A a \in Nodes :
          /\ c["left"][a] = IF a = m THEN lc ELSE t1.child["left"][a]
          /\ c["right"][a] = IF a = m THEN rc ELSE t1.child["right"][a]
    BY <1>1, <1>7, <1>8 DEF Trees
  <2> HIDE DEF c
  <2>3. \A s \in Sides, a \in Nodes : t1.child[s][a] = f(s, a)
    BY <1>4, <1>7
  <2> QED BY <1>1, <1>8, <2>1, <2>2, <2>3
<1>10. /\ p \in [Nodes -> Pointers]
       /\ \A a \in Nodes : p[a] = IF a = lc \/ a = rc THEN m
                                  ELSE IF a = rest THEN q ELSE t.parent[a]
  <2> DEFINE z == Set(t1.parent, lc, m)
  <2>1. m \in Pointers /\ t1.parent \in [Nodes -> Pointers]
    BY <1>7 DEF Trees, Pointers
  <2>2. /\ z \in [Nodes -> Pointers]
        /\ \A a \in Nodes : z[a] = IF a = lc THEN m ELSE t1.parent[a]
    BY <1>1, <1>8, <2>1 DEF Set, Pointers
  <2> HIDE DEF z
  <2>3. /\ Set(z, rc, m) \in [Nodes -> Pointers]
        /\ \A a \in Nodes : Set(z, rc, m)[a] = IF a = rc THEN m ELSE z[a]
    BY <1>1, <1>8, <2>1, <2>2 DEF Set, Pointers
  <2>4. p = Set(z, rc, m)
    BY DEF z
  <2> HIDE DEF p
  <2> QED BY <1>5, <1>7, <2>2, <2>3, <2>4
<1>11. t2 = [t1 EXCEPT !.child = c, !.parent = p]
  <2> DEFINE i == "left"
             j == "right"
  <2>1. t2 = [t1 EXCEPT !.child[i][m] = lc, !.child[j][m] = rc, !.parent = p]
    BY <1>7 DEF Trees, lc, rc
  <2>2. c = [t1.child EXCEPT ![i][m] = lc, ![j][m] = rc]
    OBVIOUS
  <2>3. i \in Sides /\ j \in Sides
    BY <1>1
  <2> HIDE DEF t2, p, c, i, j
  <2> QED BY <1>7, <2>1, <2>2, <2>3 DEF Trees
<1> HIDE DEF c, p, t2
<1>12. t2 \in Trees /\ t2.root = t.root /\ t2.child = c /\ t2.parent = p /\ t2.height = t.height
  BY <1>7, <1>9, <1>10, <1>11 DEF Trees
<1>13. \A a \in Nodes : (a = lc \/ a = rc) <=> \E s \in Sides : f(s, n) = a
  BY <1>1, <1>8
<1>14. Adopted(t, t2, n, m)
  <2>1. \A a \in Nodes : t2.parent[a] = IF \E s \in Sides : f(s, n) = a THEN m
                         ELSE IF a = rest THEN q ELSE t.parent[a]
    BY <1>10, <1>12, <1>13
  <2>2. \A s \in Sides, a \in Nodes : t2.child[s][a] = IF a = m THEN f(s, n) ELSE f(s, a)
    BY <1>9, <1>12
  <2> QED BY <1>12, <2>1, <2>2 DEF Adopted, f, q, rest
<1> QED BY <1>14 DEF t2, t1, t0, q, rest

(* A node with two children, when Leftmost finds its successor.            *)
LEMMA DeleteInner ==
  ASSUME NEW t, NEW D, Forest(t, D), NEW L, Planted(t, D, L, t.root),
         NEW H, Leveled(t, D, H, L, NoNode),
         NEW n \in L, \A s \in Sides : t.child[s][n] # NoNode,
         Leftmost(t, t.child["right"][n]) \in D[t.child["right"][n]],
         t.child["left"][Leftmost(t, t.child["right"][n])] = NoNode,
         \A k \in D[t.child["right"][n]] :
           k # Leftmost(t, t.child["right"][n]) => Before("left", Leftmost(t, t.child["right"][n]), k)
  PROVE  Sound(Cleared(UnlinkInner(t, n).tree, n), L \ {n}, UnlinkInner(t, n).from)
<1> DEFINE m == Leftmost(t, t.child["right"][n])
           rc == t.child["right"][n]
           q == t.parent[m]
           p == t.parent[n]
           rest == t.child["right"][m]
           t1 == [Replace(t, q, m, rest) EXCEPT !.parent = Set(@, rest, q)]
           t2 == [t1 EXCEPT !.child["left"][m] = t1.child["left"][n],
                            !.child["right"][m] = t1.child["right"][n],
                            !.parent = Set(Set(@, t1.child["left"][n], m), t1.child["right"][n], m)]
           v == PutInPlace(t2, n, m)
           r == Cleared(v, n)
           c == [root |-> t.root,
                 child |-> [s \in Sides |-> [a \in Nodes |->
                              IF a = m THEN NoNode
                              ELSE IF t.child[s][a] = m THEN rest ELSE t.child[s][a]]],
                 parent |-> [a \in Nodes |-> IF a = m THEN NoNode
                                            ELSE IF a = rest THEN q ELSE t.parent[a]],
                 height |-> t.height]
           E == Without(D, m)
<1>1. UnlinkInner(t, n).tree = v /\ UnlinkInner(t, n).from = IF q = n THEN m ELSE q
  BY DEF UnlinkInner
<1>2. m \in D[rc] /\ t.child["left"][m] = NoNode /\ \A k \in D[rc] : k # m => Before("left", m, k)
  OBVIOUS
<1> HIDE DEF m
<1>3. /\ t \in Trees /\ NoNode \notin Nodes /\ D \in [Nodes -> SUBSET Nodes]
      /\ n \in Nodes /\ L \subseteq Nodes /\ D[n] \subseteq L
      /\ "left" \in Sides /\ "right" \in Sides /\ Other("right") = "left" /\ Other("left") = "right"
      /\ \A s \in Sides : s = "left" \/ s = "right"
  BY AvlAssumption, PlantedFacts DEF Forest, Sides, Other
<1>4. rc \in Nodes /\ rc # NoNode /\ D[rc] \subseteq D[n] /\ n \notin D[rc]
  BY <1>3, ForestFacts
<1> HIDE DEF rc
<1>5. m \in Nodes /\ m # n /\ m \in D[n] /\ m \in L /\ n \notin D[m] /\ n \in L
  BY <1>2, <1>3, <1>4, ForestFacts
<1>6. q \in D[n] /\ q \in Nodes /\ q # NoNode /\ q # m
  <2>1. q \in D[n]
    BY <1>3, <1>5 DEF Forest, Nested
  <2> QED BY <1>3, <1>5, <2>1, ParentFacts
<1>7. rest \in Pointers /\ rest # n /\ rest # m
  <2>1. rest \in Pointers
    BY <1>3, <1>5, TreeTypes DEF Pointers
  <2>2. rest # NoNode => rest \in D[m] /\ rest # m
    BY <1>3, <1>5, ForestFacts
  <2> QED BY <1>3, <1>5, <2>1, <2>2
<1>8. p \in Pointers /\ p # n /\ p # m /\ (p = NoNode <=> t.root = n) /\ t.root # m
  <2>1. p \in Pointers /\ (p = NoNode <=> t.root = n) /\ t.root # m
    BY <1>3, <1>5, <1>6, TreeTypes, PlantedFacts DEF Pointers
  <2>2. p # NoNode => n \in D[p] /\ p # n
    BY <1>3, ParentFacts
  <2> QED BY <1>3, <1>5, <2>1, <2>2
<1> HIDE DEF q, rest, p, c, E
<1>9. /\ c \in Trees /\ c.root = t.root /\ c.height = t.height
      /\ \A s \in Sides, a \in Nodes :
           c.child[s][a] = IF a = m THEN NoNode ELSE IF t.child[s][a] = m THEN rest ELSE t.child[s][a]
      /\ \A a \in Nodes :
           c.parent[a] = IF a = m THEN NoNode ELSE IF a = rest THEN q ELSE t.parent[a]
  BY <1>3, <1>6, <1>7 DEF c, Trees, Pointers
<1>10. CutOut(t, c, m, "right")
  <2>1. c.root = IF t.root = m THEN t.child["right"][m] ELSE t.root
    BY <1>8, <1>9
  <2> QED BY <1>2, <1>3, <1>9, <2>1 DEF CutOut, q, rest
<1>11. Forest(c, E) /\ Thinned(t, D, c, E, m)
  <2>1. m \in Nodes /\ "right" \in Sides
    BY <1>3, <1>5
  <2> QED BY <1>10, <2>1, CutForest DEF E
<1>12. Planted(c, E, L \ {m}, c.root) /\ Leveled(c, E, H, L \ {m}, q)
  BY <1>3, <1>5, <1>10, CutSound DEF E, q
<1>13. /\ \A s \in Sides : c.child[s][m] = NoNode
       /\ \A a \in Nodes, s \in Sides : c.child[s][a] # m /\ c.child[s][n] # n
       /\ \A a \in Nodes : c.parent[a] # m
       /\ c.parent[n] = p
  <2>1. /\ \A s \in Sides : c.child[s][m] = NoNode
        /\ \A a \in Nodes, s \in Sides : c.child[s][a] # m
    BY <1>5, <1>11, <1>12, DeadFacts
  <2>2. \A s \in Sides : c.child[s][n] # n
    BY <1>3, <1>11, ForestFacts
  <2>3. ASSUME NEW a \in Nodes, c.parent[a] = m PROVE FALSE
    <3>1. PICK s \in Sides : c.child[s][m] = a
      BY <1>3, <1>5, <1>11, <2>3 DEF Forest, Linked
    <3> QED BY <1>3, <2>1, <3>1
  <2>4. c.parent[n] = p
    BY <1>3, <1>5, <1>7, <1>9 DEF p
  <2> QED BY <2>1, <2>2, <2>3, <2>4
<1>14. /\ t2 \in Trees /\ t2.root = t.root /\ t2.height = t.height
       /\ \A s \in Sides, a \in Nodes : t2.child[s][a] = IF a = m THEN c.child[s][n] ELSE c.child[s][a]
       /\ \A a \in Nodes \ {m} : t2.parent[a] = IF c.parent[a] = n THEN m ELSE c.parent[a]
  <2>1. Adopted(t, t2, n, m)
    BY <1>3, <1>5, <1>6, AdoptedIs DEF q, rest
  <2> DEFINE f(s, a) == IF t.child[s][a] = m THEN rest ELSE t.child[s][a]
  <2>2. /\ t2 \in Trees /\ t2.root = t.root /\ t2.height = t.height
        /\ \A s \in Sides, a \in Nodes : t2.child[s][a] = IF a = m THEN f(s, n) ELSE f(s, a)
        /\ \A a \in Nodes : t2.parent[a] = IF \E s \in Sides : f(s, n) = a THEN m
                                           ELSE IF a = rest THEN q ELSE t.parent[a]
    BY <2>1 DEF Adopted, q, rest
  <2> HIDE DEF t2, f
  <2>3. \A s \in Sides, a \in Nodes \ {m} : c.child[s][a] = f(s, a)
    BY <1>9 DEF f
  <2>4. \A a \in Nodes \ {m} : (\E s \in Sides : f(s, n) = a) <=> c.parent[a] = n
    <3>1. ASSUME NEW a \in Nodes, NEW s \in Sides, c.child[s][n] = a PROVE c.parent[a] = n
      BY <1>3, <1>11, <3>1 DEF Forest, Linked
    <3>2. ASSUME NEW a \in Nodes, c.parent[a] = n PROVE \E s \in Sides : c.child[s][n] = a
      BY <1>3, <1>11, <3>2 DEF Forest, Linked
    <3>3. \A s \in Sides : c.child[s][n] = f(s, n)
      BY <1>3, <1>5, <2>3
    <3>4. ASSUME NEW a \in Nodes \ {m}
          PROVE  (\E s \in Sides : f(s, n) = a) <=> c.parent[a] = n
      <4>1. ASSUME NEW s \in Sides, f(s, n) = a PROVE c.parent[a] = n
        BY <3>1, <3>3, <4>1
      <4>2. ASSUME c.parent[a] = n PROVE \E s \in Sides : f(s, n) = a
        BY <3>2, <3>3, <4>2
      <4> QED BY <4>1, <4>2
    <3> QED BY <3>4
  <2>5. \A a \in Nodes \ {m} : c.parent[a] = IF a = rest THEN q ELSE t.parent[a]
    BY <1>9
  <2>6. \A s \in Sides, a \in Nodes : t2.child[s][a] = IF a = m THEN c.child[s][n] ELSE c.child[s][a]
    <3> SUFFICES ASSUME NEW s \in Sides, NEW a \in Nodes
                 PROVE  t2.child[s][a] = IF a = m THEN c.child[s][n] ELSE c.child[s][a]
      OBVIOUS
    <3>1. c.child[s][n] = f(s, n)
      BY <1>3, <1>5, <2>3
    <3>2. a # m => c.child[s][a] = f(s, a)
      BY <2>3
    <3>3. t2.child[s][a] = IF a = m THEN f(s, n) ELSE f(s, a)
      BY <2>2
    <3> QED BY <3>1, <3>2, <3>3
  <2>7. \A a \in Nodes \ {m} : t2.parent[a] = IF c.parent[a] = n THEN m ELSE c.parent[a]
    BY <2>2, <2>4, <2>5
  <2> QED BY <2>2, <2>6, <2>7
<1> HIDE DEF t2
<1>15. t2.parent[n] = p
  BY <1>3, <1>5, <1>8, <1>13, <1>14
<1>16. /\ v \in Trees /\ v.height = t.height /\ v.root = IF p = NoNode THEN m ELSE t.root
       /\ \A s \in Sides, a \in Nodes :
            v.child[s][a] = IF a = p /\ t2.child[s][a] = n THEN m ELSE t2.child[s][a]
       /\ \A a \in Nodes : v.parent[a] = IF a = m THEN p ELSE t2.parent[a]
  <2>1. p # NoNode => \E s \in Sides : t2.child[s][p] = n /\ t2.child[Other(s)][p] # n
    <3> SUFFICES ASSUME p # NoNode PROVE \E s \in Sides : t2.child[s][p] = n /\ t2.child[Other(s)][p] # n
      OBVIOUS
    <3>1. PICK s \in Sides : c.child[s][p] = n /\ c.child[Other(s)][p] # n
      BY <1>3, <1>11, <1>13, ParentFacts
    <3>2. Other(s) \in Sides /\ p \in Nodes
      BY <1>8, SideFacts DEF Pointers
    <3> QED BY <1>8, <1>14, <3>1, <3>2
  <2>2. m \in Pointers
    BY <1>5 DEF Pointers
  <2>3. /\ v \in Trees /\ v.height = t2.height
        /\ v.root = IF t2.parent[n] = NoNode THEN m ELSE t2.root
        /\ \A s \in Sides, a \in Nodes :
             v.child[s][a] = IF a = t2.parent[n] /\ t2.child[s][a] = n THEN m ELSE t2.child[s][a]
        /\ \A a \in Nodes : v.parent[a] = IF a = m THEN t2.parent[n] ELSE t2.parent[a]
    BY <1>3, <1>14, <1>15, <2>1, <2>2, PutIs
  <2> HIDE DEF v
  <2> QED BY <1>14, <1>15, <2>3
<1> HIDE DEF v
<1>17. /\ r \in Trees /\ r.root = v.root
       /\ \A s \in Sides, a \in Nodes : r.child[s][a] = IF a = n THEN NoNode ELSE v.child[s][a]
       /\ \A a \in Nodes : r.parent[a] = IF a = n THEN NoNode ELSE v.parent[a]
       /\ \A a \in Nodes \ {n} : r.height[a] = v.height[a]
  BY <1>3, <1>16, ClearedIs
<1> HIDE DEF r
<1>18. PutFor(c, r, n, m)
  <2> DEFINE S(a) == Swap(n, m, a)
  <2>1. /\ S(n) = m /\ S(m) = n /\ \A a : a # n /\ a # m => S(a) = a
    BY <1>5 DEF Swap
  <2>2. r.root = S(c.root)
    BY <1>8, <1>9, <1>16, <1>17, <2>1
  <2> HIDE DEF S
  <2>3. ASSUME NEW s \in Sides, NEW a \in Nodes PROVE r.child[s][a] = S(c.child[s][S(a)])
    <3>1. CASE a = n
      BY <1>3, <1>5, <1>13, <1>17, <2>1, <3>1
    <3>2. CASE a = m
      <4>1. r.child[s][m] = c.child[s][n]
        BY <1>5, <1>8, <1>14, <1>16, <1>17
      <4>2. S(c.child[s][n]) = c.child[s][n]
        BY <1>3, <1>13, <2>1
      <4> QED BY <2>1, <3>2, <4>1, <4>2
    <3>3. CASE a # n /\ a # m
      <4>1. r.child[s][a] = IF a = p /\ c.child[s][a] = n THEN m ELSE c.child[s][a]
        BY <1>14, <1>16, <1>17, <3>3
      <4>2. c.child[s][a] = n => a = p
        BY <1>3, <1>11, <1>13, ParentFacts
      <4>3. c.child[s][a] # m /\ S(a) = a
        BY <1>13, <2>1, <3>3
      <4> QED BY <2>1, <4>1, <4>2, <4>3
    <3> QED BY <3>1, <3>2, <3>3
  <2>4. ASSUME NEW a \in Nodes PROVE r.parent[a] = S(c.parent[S(a)])
    <3>1. CASE a = n
      BY <1>3, <1>5, <1>9, <1>17, <2>1, <3>1
    <3>2. CASE a = m
      <4>1. r.parent[m] = p
        BY <1>5, <1>16, <1>17
      <4>2. S(p) = p
        BY <1>8, <2>1
      <4> QED BY <1>13, <2>1, <3>2, <4>1, <4>2
    <3>3. CASE a # n /\ a # m
      <4>1. r.parent[a] = IF c.parent[a] = n THEN m ELSE c.parent[a]
        BY <1>14, <1>16, <1>17, <3>3
      <4>2. c.parent[a] # m /\ S(a) = a
        BY <1>13, <2>1, <3>3
      <4> QED BY <2>1, <4>1, <4>2
    <3> QED BY <3>1, <3>2, <3>3
  <2>5. ASSUME NEW a \in Nodes \ {n, m} PROVE r.height[a] = t.height[a]
    <3>1. r.height[a] = v.height[a]
      BY <1>17
    <3> QED BY <1>16, <3>1
  <2> QED BY <1>9, <1>17, <2>2, <2>3, <2>4, <2>5 DEF PutFor, S
<1>19. \A s \in Sides : \A k \in Below(E, c.child[s][n]) : Before(s, k, m)
  <2> SUFFICES ASSUME NEW s \in Sides, NEW k \in Below(E, c.child[s][n]) PROVE Before(s, k, m)
    OBVIOUS
  <2>1. k \in Below(D, t.child[s][n]) /\ k # m
    <3>1. Below(E, c.child[s][n]) \subseteq Below(D, t.child[s][n]) \ {m}
      BY <1>3, <1>5, <1>11 DEF Thinned
    <3> QED BY <3>1
  <2>2. t.child[s][n] \in Nodes /\ k \in D[t.child[s][n]] /\ k \in Nodes
    BY <1>3, <2>1, TreeTypes DEF Below
  <2>3. CASE s = "right"
    <3>1. k \in D[rc]
      BY <2>2, <2>3 DEF rc
    <3>2. Before("left", m, k)
      BY <1>2, <2>1, <3>1
    <3> QED BY <1>3, <1>5, <2>2, <2>3, <3>2, BeforeFacts
  <2>4. CASE s = "left"
    <3>1. Before("left", k, n)
      BY <1>3, <2>1, <2>4 DEF Forest, Ordered
    <3>2. m \in Below(D, t.child["right"][n])
      BY <1>2, <1>4 DEF Below, rc
    <3>3. Before("right", m, n)
      BY <1>3, <3>2 DEF Forest, Ordered
    <3>4. Before("left", n, m)
      BY <1>3, <1>5, <3>3, BeforeFacts
    <3> QED BY <1>3, <1>5, <2>2, <2>4, <3>1, <3>4, BeforeFacts
  <2> QED BY <1>3, <2>3, <2>4
<1>20. \A s \in Sides, a \in Nodes : n \in Below(E, c.child[s][a]) => Before(s, m, a)
  <2> SUFFICES ASSUME NEW s \in Sides, NEW a \in Nodes, n \in Below(E, c.child[s][a])
               PROVE  Before(s, m, a)
    OBVIOUS
  <2>1. n \in Below(D, t.child[s][a])
    BY <1>11 DEF Thinned
  <2>2. t.child[s][a] \in Nodes /\ n \in D[t.child[s][a]]
    BY <1>3, <2>1, TreeTypes DEF Below
  <2>3. m \in D[t.child[s][a]]
    BY <1>5, <2>2 DEF Forest, Nested
  <2>4. m \in Below(D, t.child[s][a])
    BY <1>3, <2>2, <2>3 DEF Below
  <2> QED BY <2>4 DEF Forest, Ordered
<1>21. n \in L \ {m} /\ m \in Nodes \ (L \ {m}) /\ q \in E[n]
  BY <1>3, <1>5, <1>6 DEF E, Without
<1>22. Forest(r, Swapped(E, n, m))
  BY <1>11, <1>12, <1>18, <1>19, <1>20, <1>21, SwapForest
<1>23. /\ Planted(r, Swapped(E, n, m), ((L \ {m}) \ {n}) \cup {m}, r.root)
       /\ Leveled(r, Swapped(E, n, m), Carried(H, n, m),
                  ((L \ {m}) \ {n}) \cup {m}, Swap(n, m, q))
  BY <1>11, <1>12, <1>18, <1>21, SwapSound
<1>24. ((L \ {m}) \ {n}) \cup {m} = L \ {n} /\ Swap(n, m, q) = IF q = n THEN m ELSE q
  BY <1>5, <1>6 DEF Swap
<1>25. Sound(r, L \ {n}, IF q = n THEN m ELSE q)
  BY <1>22, <1>23, <1>24 DEF Sound
<1> QED BY <1>1, <1>25 DEF r

-----------------------------------------------------------------------------
(* A set of TCBs has a lowest one: no other one of them lies below it.     *)
LEMMA LowestNode ==
  ASSUME NEW t, NEW D, Forest(t, D), NEW X \in SUBSET Nodes, X # {}
  PROVE  \E m \in X : \A k \in D[m] : k \in X => k = m
<1> DEFINE R == {ss \in Nat \X Nat : ss[1] < ss[2]}
           C == {Cardinality(D[m]) : m \in X}
<1>1. D \in [Nodes -> SUBSET Nodes] /\ \A m \in Nodes : IsFiniteSet(D[m])
  BY DEF Forest
<1>2. C \in SUBSET Nat /\ C # {}
  BY <1>1, FS_CardinalityType
<1>3. IsWellFoundedOn(R, Nat)
  BY NatLessThanWellFounded DEF OpToRel
<1> HIDE DEF C
<1>4. PICK x \in C : \A y \in C : ~(<<y, x>> \in R)
  BY <1>2, <1>3, WFMin, Zenon
<1>5. \A y \in C : x <= y
  <2> SUFFICES ASSUME NEW y \in C PROVE x <= y
    OBVIOUS
  <2>1. x \in Nat /\ y \in Nat
    BY <1>2
  <2>2. ~(y < x)
    BY <1>4, <2>1
  <2> QED BY <2>1, <2>2
<1>6. PICK m \in X : Cardinality(D[m]) = x
  BY DEF C
<1>7. ASSUME NEW k \in D[m], k \in X, k # m PROVE FALSE
  <2>1. k \in Nodes /\ m \in Nodes /\ Cardinality(D[k]) \in C /\ Cardinality(D[m]) \in C
    BY <1>1, <1>7 DEF C
  <2>2. D[k] \subseteq D[m] /\ D[k] # D[m]
    <3>1. D[k] \subseteq D[m]
      BY <2>1 DEF Forest, Nested
    <3>2. m \in D[m] /\ m \notin D[k]
      BY <1>7, <2>1, ForestFacts
    <3> QED BY <3>1, <3>2
  <2>3. Cardinality(D[k]) <= Cardinality(D[m]) /\ Cardinality(D[k]) # Cardinality(D[m])
    BY <1>1, <2>1, <2>2, FS_Subset
  <2>4. x <= Cardinality(D[k]) /\ Cardinality(D[k]) \in Nat /\ Cardinality(D[m]) \in Nat
    BY <1>2, <1>5, <2>1
  <2> QED BY <1>6, <2>3, <2>4
<1> QED BY <1>7

(* A loop that goes from a node to one below it until next is NoNode: it   *)
(* ends in a node of Q[n], when every round keeps Q.                       *)
Walks(w, next) == w = [n \in Nodes |-> IF next[n] = NoNode THEN n ELSE w[next[n]]]

(* Such a loop is well defined, and ends in Q, because a lowest node that  *)
(* were an exception would not be one.                                     *)
LEMMA WalkEnds ==
  ASSUME NEW t, NEW D, Forest(t, D), NEW next, NEW Q,
         \A n \in Nodes : next[n] = NoNode => Q[n] = {n},
         \A n \in Nodes : next[n] # NoNode =>
           next[n] \in D[n] /\ next[n] # n /\ Q[next[n]] = Q[n]
  PROVE  /\ \E w : Walks(w, next)
         /\ \A w : Walks(w, next) => \A n \in Nodes : w[n] \in Q[n]
<1>1. D \in [Nodes -> SUBSET Nodes]
  BY DEF Forest
<1>2. \E w : Walks(w, next)
  <2> DEFINE w == [n \in Nodes |-> CHOOSE k : k \in Q[n]]
             v == [n \in Nodes |-> IF next[n] = NoNode THEN n ELSE w[next[n]]]
  <2>1. ASSUME NEW n \in Nodes PROVE w[n] = v[n]
    <3>1. CASE next[n] = NoNode
      <4>1. Q[n] = {n}
        BY <3>1
      <4>2. (CHOOSE k : k \in {n}) = n
        OBVIOUS
      <4> QED BY <3>1, <4>1, <4>2
    <3>2. CASE next[n] # NoNode
      <4>1. next[n] \in Nodes /\ Q[next[n]] = Q[n]
        BY <1>1, <3>2
      <4>2. w[n] = CHOOSE k : k \in Q[n]
        OBVIOUS
      <4>3. w[next[n]] = CHOOSE k : k \in Q[next[n]]
        BY <4>1
      <4>4. v[n] = w[next[n]]
        BY <3>2
      <4> HIDE DEF w, v
      <4> QED BY <4>1, <4>2, <4>3, <4>4
    <3> QED BY <3>1, <3>2
  <2>2. w = v
    <3>1. w = [n \in Nodes |-> w[n]] /\ v = [n \in Nodes |-> v[n]]
      OBVIOUS
    <3> HIDE DEF w, v
    <3> QED BY <2>1, <3>1
  <2>3. Walks(w, next)
    BY <2>2 DEF Walks
  <2> QED BY <2>3
<1>3. ASSUME NEW w, Walks(w, next) PROVE \A n \in Nodes : w[n] \in Q[n]
  <2> DEFINE X == {n \in Nodes : w[n] \notin Q[n]}
  <2>1. \A n \in Nodes : w[n] = IF next[n] = NoNode THEN n ELSE w[next[n]]
    BY <1>3 DEF Walks
  <2>2. ASSUME X # {} PROVE FALSE
    <3> HIDE DEF X
    <3>1. X \in SUBSET Nodes
      BY DEF X
    <3>2. PICK m \in X : \A k \in D[m] : k \in X => k = m
      BY <2>2, <3>1, LowestNode
    <3>3. m \in Nodes /\ w[m] \notin Q[m]
      BY DEF X
    <3>4. next[m] # NoNode
      BY <2>1, <3>3
    <3>5. next[m] \in Nodes /\ next[m] \notin X /\ Q[next[m]] = Q[m]
      BY <1>1, <3>2, <3>3, <3>4
    <3>6. w[next[m]] \in Q[next[m]]
      BY <3>5 DEF X
    <3>7. w[m] = w[next[m]]
      BY <2>1, <3>3, <3>4
    <3> QED BY <3>3, <3>5, <3>6, <3>7
  <2> QED BY <2>2
<1> QED BY <1>2, <1>3

(* Leftmost finds the first TCB of the subtree, which has no left child.   *)
LEMMA LeftmostIs ==
  ASSUME NEW t, NEW D, Forest(t, D), NEW n \in Nodes
  PROVE  /\ Leftmost(t, n) \in D[n]
         /\ t.child["left"][Leftmost(t, n)] = NoNode
         /\ \A k \in D[n] : k # Leftmost(t, n) => Before("left", Leftmost(t, n), k)
<1> DEFINE next == t.child["left"]
           Low(m, k) == /\ t.child["left"][k] = NoNode
                        /\ \A j \in D[m] : j # k => Before("left", k, j)
           Q == [m \in Nodes |-> {k \in D[m] : Low(m, k)}]
           down == CHOOSE w : w = [m \in Nodes |-> IF t.child["left"][m] = NoNode THEN m
                                                  ELSE w[t.child["left"][m]]]
<1>1. /\ t \in Trees /\ NoNode \notin Nodes /\ D \in [Nodes -> SUBSET Nodes]
      /\ "left" \in Sides /\ "right" \in Sides /\ Other("left") = "right" /\ Other("right") = "left"
  BY AvlAssumption DEF Forest, Sides, Other
<1>2. ASSUME NEW m \in Nodes, next[m] = NoNode PROVE Q[m] = {m}
  <2>1. \A j \in D[m] : j # m => Before("left", m, j)
    <3> SUFFICES ASSUME NEW j \in D[m], j # m PROVE Before("left", m, j)
      OBVIOUS
    <3>1. D[m] = {m} \cup Below(D, t.child["left"][m]) \cup Below(D, t.child["right"][m])
      BY <1>1 DEF Forest, Split
    <3>2. j \in Below(D, t.child["right"][m]) /\ j \in Nodes
      BY <1>1, <1>2, <3>1 DEF Below
    <3>3. Before("right", j, m)
      BY <1>1, <3>2 DEF Forest, Ordered
    <3> QED BY <1>1, <3>2, <3>3, BeforeFacts
  <2>2. m \in D[m] /\ Low(m, m)
    BY <1>2, <2>1, ForestFacts
  <2>3. \A k \in D[m] : Low(m, k) => k = m
    <3> SUFFICES ASSUME NEW k \in D[m], Low(m, k), k # m PROVE FALSE
      OBVIOUS
    <3>1. Before("left", k, m) /\ Before("left", m, k)
      BY <2>1, <2>2
    <3> QED BY <1>1, <3>1, BeforeFacts
  <2> HIDE DEF Low
  <2> QED BY <2>2, <2>3
<1>3. ASSUME NEW m \in Nodes, next[m] # NoNode
      PROVE  next[m] \in D[m] /\ next[m] # m /\ Q[next[m]] = Q[m]
  <2> DEFINE c == t.child["left"][m]
  <2>1. c \in Nodes /\ c \in D[m] /\ c # m /\ D[c] \subseteq D[m] /\ Before("left", c, m)
    BY <1>1, <1>3, ForestFacts
  <2>2. D[m] = {m} \cup D[c] \cup Below(D, t.child["right"][m])
    <3>1. D[m] = {m} \cup Below(D, t.child["left"][m]) \cup Below(D, t.child["right"][m])
      BY <1>1 DEF Forest, Split
    <3> QED BY <1>3, <3>1 DEF Below
  <2>3. \A k \in D[c] : k \in Nodes /\ Before("left", k, m)
    <3>1. Below(D, t.child["left"][m]) = D[c]
      BY <1>3 DEF Below
    <3> QED BY <1>1, <2>1, <3>1 DEF Forest, Ordered
  <2>4. \A k \in Below(D, t.child["right"][m]) : k \in Nodes /\ Before("left", m, k)
    <3> SUFFICES ASSUME NEW k \in Below(D, t.child["right"][m])
                 PROVE  k \in Nodes /\ Before("left", m, k)
      OBVIOUS
    <3>1. Before("right", k, m) /\ k \in Nodes
      BY <1>1, <2>2 DEF Forest, Ordered
    <3> QED BY <1>1, <3>1, BeforeFacts
  <2> HIDE DEF c
  <2>5. ASSUME NEW k PROVE (k \in D[m] /\ Low(m, k)) <=> (k \in D[c] /\ Low(c, k))
    <3>1. ASSUME k \in D[m], Low(m, k) PROVE k \in D[c]
      <4>1. k # m
        BY <1>3, <3>1
      <4>2. k \notin Below(D, t.child["right"][m])
        <5> SUFFICES ASSUME k \in Below(D, t.child["right"][m]) PROVE FALSE
          OBVIOUS
        <5>1. m \in D[m] /\ m # k
          BY <4>1, ForestFacts
        <5>2. Before("left", k, m) /\ Before("left", m, k) /\ k \in Nodes
          BY <2>4, <3>1, <5>1
        <5> QED BY <1>1, <5>2, BeforeFacts
      <4> QED BY <2>2, <3>1, <4>1, <4>2
    <3>2. ASSUME k \in D[c], Low(c, k), NEW j \in D[m], j # k PROVE Before("left", k, j)
      <4>1. k \in Nodes /\ Before("left", k, m)
        BY <2>3, <3>2
      <4>2. CASE j \in D[c]
        BY <3>2, <4>2
      <4>3. CASE j = m
        BY <4>1, <4>3
      <4>4. CASE j \in Below(D, t.child["right"][m])
        BY <1>1, <2>4, <4>1, <4>4, BeforeFacts
      <4> QED BY <2>2, <4>2, <4>3, <4>4
    <3> QED BY <2>1, <3>1, <3>2
  <2>6. Q[m] = {k \in D[m] : Low(m, k)} /\ Q[c] = {k \in D[c] : Low(c, k)}
    BY <2>1
  <2> HIDE DEF Low, Q
  <2>7. Q[c] = Q[m]
    BY <2>5, <2>6
  <2> QED BY <2>1, <2>7 DEF c
<1>4. Leftmost(t, n) = down[n]
  BY DEF Leftmost
<1>5. \A w : Walks(w, next) <=> w = [m \in Nodes |-> IF t.child["left"][m] = NoNode THEN m
                                                    ELSE w[t.child["left"][m]]]
  BY DEF Walks
<1> HIDE DEF Q, next, Low
<1>6. /\ \E w : Walks(w, next)
      /\ \A w : Walks(w, next) => \A m \in Nodes : w[m] \in Q[m]
  BY <1>2, <1>3, WalkEnds
<1>7. Walks(down, next)
  BY <1>5, <1>6
<1> HIDE DEF down
<1>8. down[n] \in Q[n]
  BY <1>6, <1>7
<1>9. down[n] \in D[n] /\ Low(n, down[n])
  BY <1>8 DEF Q
<1> QED BY <1>4, <1>9 DEF Low

-----------------------------------------------------------------------------
(* The side on which the search goes on is where a TCB with that tid would *)
(* be.                                                                     *)
LEMMA TowardFacts ==
  ASSUME NEW n \in Nodes, NEW tid \in Nat
  PROVE  /\ Toward(n, tid) \in Sides
         /\ \A k \in Nodes : Tid[k] = tid /\ k # n => Before(Toward(n, tid), k, n)
<1>1. /\ Tid \in [Nodes -> Nat] /\ \A m, k \in Nodes : Tid[m] = Tid[k] => m = k
  BY AvlAssumption
<1>2. CASE tid < Tid[n]
  BY <1>1, <1>2 DEF Toward, Before, Sides
<1>3. CASE ~(tid < Tid[n])
  <2>1. Toward(n, tid) = "right"
    BY <1>3 DEF Toward
  <2>2. ASSUME NEW k \in Nodes, Tid[k] = tid, k # n PROVE Tid[n] < Tid[k]
    <3>1. Tid[k] # Tid[n] /\ Tid[k] \in Nat /\ Tid[n] \in Nat
      BY <1>1, <2>2
    <3> QED BY <1>3, <2>2, <3>1
  <2> QED BY <2>1, <2>2 DEF Before, Sides
<1> QED BY <1>2, <1>3

(* The search passes a on its way to the node k below a.                   *)
OnWay(t, D, tid, a, k) == Tid[a] # tid /\ k \in Below(D, t.child[Toward(a, tid)][a])

(* Where a search that starts in n ends.                                   *)
EndOf(t, D, tid, n, k) ==
  /\ Tid[k] = tid \/ t.child[Toward(k, tid)][k] = NoNode
  /\ \A a \in D[n] : k \in D[a] /\ a # k => OnWay(t, D, tid, a, k)
  /\ \A j \in D[n] : Tid[j] = tid => j = k

(* A search that stops in n has the right end.                             *)
LEMMA EndHere ==
  ASSUME NEW t, NEW D, Forest(t, D), NEW tid \in Nat, NEW n \in Nodes,
         Tid[n] = tid \/ t.child[Toward(n, tid)][n] = NoNode, NEW k
  PROVE  k \in D[n] /\ EndOf(t, D, tid, n, k) <=> k = n
<1> DEFINE q == Toward(n, tid)
<1>1. /\ NoNode \notin Nodes /\ D \in [Nodes -> SUBSET Nodes] /\ n \in D[n]
      /\ \A m, j \in Nodes : Tid[m] = Tid[j] => m = j
      /\ \A a \in Nodes : n \in D[a] /\ a \in D[n] => a = n
  BY AvlAssumption, ForestFacts DEF Forest
<1>2. /\ q \in Sides /\ Other(q) \in Sides /\ Other(q) # q
      /\ \A j \in Nodes : Tid[j] = tid /\ j # n => Before(q, j, n)
  BY TowardFacts, SideFacts
<1>3. ASSUME k \in D[n], EndOf(t, D, tid, n, k), k # n PROVE FALSE
  <2>1. Tid[n] # tid /\ k \in Below(D, t.child[q][n])
    BY <1>1, <1>3 DEF EndOf, OnWay
  <2> QED BY <2>1 DEF Below
<1>4. ASSUME NEW j \in D[n], Tid[j] = tid, j # n PROVE FALSE
  <2>1. j \in Nodes /\ Before(q, j, n)
    BY <1>1, <1>2, <1>4
  <2>2. Tid[n] # tid
    BY <1>1, <1>4, <2>1
  <2>3. D[n] = {n} \cup Below(D, t.child[q][n]) \cup Below(D, t.child[Other(q)][n])
    BY <1>2 DEF Forest, Split
  <2>4. j \in Below(D, t.child[Other(q)][n])
    BY <1>4, <2>2, <2>3 DEF Below
  <2>5. Before(Other(q), j, n)
    BY <1>2, <2>4 DEF Forest, Ordered
  <2> QED BY <1>2, <2>1, <2>5, BeforeFacts
<1>5. EndOf(t, D, tid, n, n)
  BY <1>1, <1>4 DEF EndOf
<1> QED BY <1>1, <1>3, <1>5

(* A search that goes on below n has the same end there.                   *)
LEMMA EndBelow ==
  ASSUME NEW t, NEW D, Forest(t, D), NEW tid \in Nat, NEW n \in Nodes,
         Tid[n] # tid, t.child[Toward(n, tid)][n] # NoNode, NEW k
  PROVE  k \in D[n] /\ EndOf(t, D, tid, n, k) <=>
           k \in D[t.child[Toward(n, tid)][n]] /\ EndOf(t, D, tid, t.child[Toward(n, tid)][n], k)
<1> DEFINE q == Toward(n, tid)
           c == t.child[q][n]
           d == t.child[Other(q)][n]
<1>1. /\ NoNode \notin Nodes /\ D \in [Nodes -> SUBSET Nodes] /\ n \in D[n] /\ t \in Trees
      /\ \A a \in Nodes : n \in D[a] /\ a \in D[n] => a = n
  BY AvlAssumption, ForestFacts DEF Forest
<1>2. /\ q \in Sides /\ Other(q) \in Sides
      /\ \A j \in Nodes : Tid[j] = tid /\ j # n => Before(q, j, n)
  BY TowardFacts, SideFacts
<1>3. c \in Nodes /\ D[c] \subseteq D[n]
  BY <1>2, ForestFacts
<1>4. D[n] = {n} \cup D[c] \cup Below(D, d)
  <2>1. D[n] = {n} \cup Below(D, t.child[q][n]) \cup Below(D, t.child[Other(q)][n])
    BY <1>2 DEF Forest, Split
  <2>2. Below(D, t.child[q][n]) = D[c]
    BY DEF Below
  <2> HIDE DEF q, c
  <2> QED BY <2>1, <2>2
<1>5. \A j \in D[c] : j \in Nodes /\ Before(q, j, n)
  <2>1. Below(D, t.child[q][n]) = D[c]
    BY DEF Below
  <2> QED BY <1>1, <1>2, <1>3, <2>1 DEF Forest, Ordered
<1>6. \A j \in Below(D, d) : j \in Nodes /\ Before(Other(q), j, n) /\ D[j] \subseteq Below(D, d)
  <2> SUFFICES ASSUME NEW j \in Below(D, d)
               PROVE  j \in Nodes /\ Before(Other(q), j, n) /\ D[j] \subseteq Below(D, d)
    OBVIOUS
  <2>1. d \in Nodes /\ j \in D[d] /\ Below(D, d) = D[d]
    BY <1>1, <1>2, TreeTypes DEF Below
  <2>2. j \in Nodes /\ D[j] \subseteq D[d]
    BY <1>1, <2>1 DEF Forest, Nested
  <2>3. Before(Other(q), j, n)
    BY <1>2 DEF Forest, Ordered
  <2> QED BY <2>1, <2>2, <2>3
<1>7. \A j \in D[c] : j \notin Below(D, d)
  <2> SUFFICES ASSUME NEW j \in D[c], j \in Below(D, d) PROVE FALSE
    OBVIOUS
  <2>1. j \in Nodes /\ Before(q, j, n) /\ Before(Other(q), j, n)
    BY <1>5, <1>6
  <2> QED BY <1>2, <2>1, BeforeFacts
<1>8. Tid[n] # tid /\ t.child[q][n] # NoNode
  OBVIOUS
<1> HIDE DEF q, c, d
<1>9. ASSUME k \in D[n], EndOf(t, D, tid, n, k) PROVE k \in D[c] /\ EndOf(t, D, tid, c, k)
  <2>1. k # n
    BY <1>8, <1>9 DEF EndOf, q
  <2>2. OnWay(t, D, tid, n, k)
    BY <1>1, <1>9, <2>1 DEF EndOf
  <2>3. k \in D[c]
    BY <1>8, <2>2 DEF OnWay, Below, q, c
  <2> QED BY <1>3, <1>9, <2>3 DEF EndOf
<1>10. ASSUME k \in D[c], EndOf(t, D, tid, c, k) PROVE k \in D[n] /\ EndOf(t, D, tid, n, k)
  <2>1. ASSUME NEW a \in D[n], k \in D[a], a # k PROVE OnWay(t, D, tid, a, k)
    <3>1. CASE a = n
      BY <1>8, <1>10, <3>1 DEF OnWay, Below, c, q
    <3>2. CASE a \in D[c]
      BY <1>10, <2>1, <3>2 DEF EndOf
    <3>3. CASE a \in Below(D, d)
      BY <1>6, <1>7, <1>10, <2>1, <3>3
    <3> QED BY <1>4, <3>1, <3>2, <3>3
  <2>2. ASSUME NEW j \in D[n], Tid[j] = tid PROVE j = k
    <3>1. j # n /\ j \in Nodes
      BY <1>1, <1>8, <2>2
    <3>2. j \notin Below(D, d)
      BY <1>2, <1>6, <2>2, <3>1, BeforeFacts
    <3>3. j \in D[c]
      BY <1>4, <3>1, <3>2
    <3> QED BY <1>10, <2>2, <3>3 DEF EndOf
  <2> QED BY <1>3, <1>10, <2>1, <2>2 DEF EndOf
<1> QED BY <1>9, <1>10 DEF c, q

(* Where the search for tid ends, when the tree is not empty.              *)
LEMMA ReachedIs ==
  ASSUME NEW t, NEW D, Forest(t, D), t.root # NoNode, NEW tid \in Nat
  PROVE  Reached(t, tid) \in D[t.root] /\ EndOf(t, D, tid, t.root, Reached(t, tid))
<1> DEFINE next == [m \in Nodes |-> IF Tid[m] = tid THEN NoNode ELSE t.child[Toward(m, tid)][m]]
           Q == [m \in Nodes |-> {k \in D[m] : EndOf(t, D, tid, m, k)}]
           Round(w, m) == IF Tid[m] = tid \/ t.child[Toward(m, tid)][m] = NoNode THEN m
                          ELSE w[t.child[Toward(m, tid)][m]]
           from == CHOOSE w : w = [m \in Nodes |->
                     LET down == t.child[Toward(m, tid)][m]
                     IN  IF Tid[m] = tid \/ down = NoNode THEN m ELSE w[down]]
<1>1. /\ t \in Trees /\ NoNode \notin Nodes /\ D \in [Nodes -> SUBSET Nodes] /\ t.root \in Nodes
  BY AvlAssumption, TreeTypes DEF Forest
<1>2. ASSUME NEW m \in Nodes, next[m] = NoNode PROVE Q[m] = {m}
  <2>1. Tid[m] = tid \/ t.child[Toward(m, tid)][m] = NoNode
    BY <1>2
  <2>2. \A k : k \in D[m] /\ EndOf(t, D, tid, m, k) <=> k = m
    BY <2>1, EndHere
  <2> QED BY <2>2
<1>3. ASSUME NEW m \in Nodes, next[m] # NoNode
      PROVE  next[m] \in D[m] /\ next[m] # m /\ Q[next[m]] = Q[m]
  <2>1. Tid[m] # tid /\ next[m] = t.child[Toward(m, tid)][m]
    BY <1>3
  <2>2. t.child[Toward(m, tid)][m] # NoNode /\ Toward(m, tid) \in Sides
    BY <1>3, <2>1, TowardFacts
  <2>3. next[m] \in D[m] /\ next[m] # m /\ next[m] \in Nodes
    BY <1>1, <2>1, <2>2, ForestFacts
  <2>4. \A k : k \in D[m] /\ EndOf(t, D, tid, m, k) <=>
               k \in D[t.child[Toward(m, tid)][m]] /\ EndOf(t, D, tid, t.child[Toward(m, tid)][m], k)
    BY <2>1, <2>2, EndBelow
  <2> HIDE DEF next
  <2>5. \A k : k \in D[m] /\ EndOf(t, D, tid, m, k) <=> k \in D[next[m]] /\ EndOf(t, D, tid, next[m], k)
    BY <2>1, <2>4
  <2>6. Q[next[m]] = {k \in D[next[m]] : EndOf(t, D, tid, next[m], k)}
    BY <2>3
  <2>7. Q[m] = {k \in D[m] : EndOf(t, D, tid, m, k)}
    OBVIOUS
  <2> HIDE DEF Q
  <2> QED BY <2>3, <2>5, <2>6, <2>7
<1>4. Reached(t, tid) = from[t.root]
  BY DEF Reached
<1>5. \A w : Walks(w, next) <=> w = [m \in Nodes |->
                     LET down == t.child[Toward(m, tid)][m]
                     IN  IF Tid[m] = tid \/ down = NoNode THEN m ELSE w[down]]
  <2> SUFFICES ASSUME NEW w
               PROVE  [m \in Nodes |-> IF next[m] = NoNode THEN m ELSE w[next[m]]] =
                        [m \in Nodes |-> Round(w, m)]
    BY DEF Walks
  <2>1. ASSUME NEW m \in Nodes PROVE (IF next[m] = NoNode THEN m ELSE w[next[m]]) = Round(w, m)
    OBVIOUS
  <2> HIDE DEF next, Round
  <2> QED BY <2>1
<1> HIDE DEF Q, next
<1>6. /\ \E w : Walks(w, next)
      /\ \A w : Walks(w, next) => \A m \in Nodes : w[m] \in Q[m]
  BY <1>2, <1>3, WalkEnds
<1>7. Walks(from, next)
  BY <1>5, <1>6
<1> HIDE DEF from
<1>8. from[t.root] \in Q[t.root]
  BY <1>1, <1>6, <1>7
<1> QED BY <1>1, <1>4, <1>8 DEF Q

-----------------------------------------------------------------------------
(* InTree, of any tree.                                                    *)
NodesOf(t) ==
  LET below[m \in Pointers] ==
        IF m = NoNode THEN {} ELSE {m} \cup UNION {below[t.child[s][m]] : s \in Sides}
  IN  below[t.root]

(* InTree, computed along child, is what D says.                           *)
LEMMA NodesOfIs ==
  ASSUME NEW t, NEW D, Forest(t, D)
  PROVE  NodesOf(t) = Below(D, t.root)
<1> DEFINE Round(b, m) == IF m = NoNode THEN {} ELSE {m} \cup UNION {b[t.child[s][m]] : s \in Sides}
           g == [m \in Pointers |-> Below(D, m)]
           below == CHOOSE b : b = [m \in Pointers |-> Round(b, m)]
<1>1. /\ t \in Trees /\ NoNode \notin Nodes /\ D \in [Nodes -> SUBSET Nodes]
      /\ t.root \in Pointers
      /\ \A s \in Sides, m \in Nodes : t.child[s][m] \in Pointers
  BY AvlAssumption, TreeTypes DEF Forest, Pointers
<1>2. \A m \in Nodes : D[m] = {m} \cup UNION {Below(D, t.child[s][m]) : s \in Sides}
  <2> SUFFICES ASSUME NEW m \in Nodes, NEW k
               PROVE  k \in D[m] <=> k = m \/ \E s \in Sides : k \in Below(D, t.child[s][m])
    OBVIOUS
  <2> QED BY ForestFacts
<1>3. \A m \in Pointers : Below(D, m) = Round(g, m)
  <2> SUFFICES ASSUME NEW m \in Pointers PROVE Below(D, m) = Round(g, m)
    OBVIOUS
  <2>1. CASE m = NoNode
    BY <2>1 DEF Below
  <2>2. CASE m # NoNode
    <3>1. m \in Nodes /\ Below(D, m) = D[m]
      BY <2>2 DEF Below, Pointers
    <3>2. \A s \in Sides : g[t.child[s][m]] = Below(D, t.child[s][m])
      BY <1>1, <3>1
    <3>3. UNION {g[t.child[s][m]] : s \in Sides} = UNION {Below(D, t.child[s][m]) : s \in Sides}
      BY <3>2
    <3> QED BY <1>2, <2>2, <3>1, <3>3
  <2> QED BY <2>1, <2>2
<1>4. g = [m \in Pointers |-> Round(g, m)]
  <2> HIDE DEF Round
  <2> QED BY <1>3
<1>5. below = [m \in Pointers |-> Round(below, m)]
  <2> HIDE DEF Round, g
  <2> QED BY <1>4
<1>6. NodesOf(t) = below[t.root]
  BY DEF NodesOf
<1> HIDE DEF below, g
<1>7. \A m \in Pointers : below[m] = Round(below, m)
  <2> HIDE DEF Round
  <2> QED BY <1>5
<1> DEFINE X == {m \in Nodes : below[m] # D[m]}
<1>8. ASSUME X # {} PROVE FALSE
  <2> HIDE DEF X
  <2>1. X \in SUBSET Nodes
    BY DEF X
  <2>2. PICK m \in X : \A k \in D[m] : k \in X => k = m
    BY <1>8, <2>1, LowestNode
  <2>3. m \in Nodes /\ m \in Pointers /\ m # NoNode /\ below[m] # D[m]
    BY <1>1 DEF X, Pointers
  <2>4. ASSUME NEW s \in Sides PROVE below[t.child[s][m]] = Below(D, t.child[s][m])
    <3>1. CASE t.child[s][m] = NoNode
      <4>1. NoNode \in Pointers
        BY DEF Pointers
      <4> QED BY <1>7, <3>1, <4>1 DEF Below
    <3>2. CASE t.child[s][m] # NoNode
      <4>1. t.child[s][m] \in Nodes /\ t.child[s][m] \in D[m] /\ t.child[s][m] # m
        BY <2>3, <3>2, ForestFacts
      <4>2. t.child[s][m] \notin X
        BY <2>2, <4>1
      <4> QED BY <3>2, <4>1, <4>2 DEF X, Below
    <3> QED BY <3>1, <3>2
  <2>5. below[m] = {m} \cup UNION {below[t.child[s][m]] : s \in Sides}
    BY <1>7, <2>3
  <2>6. UNION {below[t.child[s][m]] : s \in Sides} = UNION {Below(D, t.child[s][m]) : s \in Sides}
    BY <2>4
  <2> QED BY <1>2, <2>3, <2>5, <2>6
<1>9. below[t.root] = Below(D, t.root)
  <2>1. CASE t.root = NoNode
    BY <1>1, <1>7, <2>1 DEF Below
  <2>2. CASE t.root # NoNode
    <3>1. t.root \in Nodes
      BY <1>1, <2>2 DEF Pointers
    <3> QED BY <1>8, <2>2, <3>1 DEF Below
  <2> QED BY <2>1, <2>2
<1> QED BY <1>6, <1>9

(* The tree holds the TCBs of L and no others.                             *)
LEMMA SoundNodes ==
  ASSUME NEW t, NEW L, NEW u, Sound(t, L, u)
  PROVE  NodesOf(t) = L
<1>1. PICK D, H : Forest(t, D) /\ Planted(t, D, L, t.root)
  BY DEF Sound
<1>2. NodesOf(t) = Below(D, t.root)
  BY <1>1, NodesOfIs
<1> QED BY <1>1, <1>2 DEF Planted

(* The search finds the TCB with the tid, if there is one.                 *)
LEMMA SearchIs ==
  ASSUME NEW t, NEW L, NEW u, Sound(t, L, u), NEW n \in Nodes
  PROVE  /\ Search(t, Tid[n]) = IF n \in L THEN n ELSE NoNode
         /\ t.root = NoNode <=> L = {}
         /\ t.root = NoNode => Reached(t, Tid[n]) = NoNode
         /\ t.root # NoNode => Reached(t, Tid[n]) \in L
<1>1. PICK D, H : Forest(t, D) /\ Planted(t, D, L, t.root)
  BY DEF Sound
<1>2. /\ Tid \in [Nodes -> Nat] /\ \A m, k \in Nodes : Tid[m] = Tid[k] => m = k
      /\ NoNode \notin Nodes /\ t \in Trees /\ L \subseteq Nodes /\ D \in [Nodes -> SUBSET Nodes]
  BY <1>1, AvlAssumption, PlantedFacts DEF Forest
<1>3. CASE t.root = NoNode
  <2>1. Reached(t, Tid[n]) = NoNode
    BY <1>3 DEF Reached
  <2>2. L = {}
    BY <1>1, <1>3 DEF Planted, Below
  <2>3. Search(t, Tid[n]) = NoNode
    BY <2>1 DEF Search
  <2> QED BY <1>3, <2>1, <2>2, <2>3
<1>4. CASE t.root # NoNode
  <2> DEFINE at == Reached(t, Tid[n])
  <2>1. L = D[t.root] /\ t.root \in Nodes
    BY <1>1, <1>4 DEF Planted, Below, Pointers
  <2>2. Tid[n] \in Nat
    BY <1>2
  <2>3. at \in L /\ EndOf(t, D, Tid[n], t.root, at)
    BY <1>1, <1>4, <2>1, <2>2, ReachedIs
  <2>4. L # {}
    BY <2>3
  <2>5. Search(t, Tid[n]) = IF at # NoNode /\ Tid[at] = Tid[n] THEN at ELSE NoNode
    BY DEF Search
  <2> HIDE DEF at
  <2>6. CASE n \in L
    <3>1. n = at
      BY <2>1, <2>3, <2>6 DEF EndOf
    <3> QED BY <1>2, <1>4, <2>3, <2>4, <2>5, <2>6, <3>1 DEF at
  <2>7. CASE n \notin L
    <3>1. Tid[at] # Tid[n]
      BY <1>2, <2>3, <2>7
    <3> QED BY <1>4, <2>3, <2>4, <2>5, <2>7, <3>1 DEF at
  <2> QED BY <2>6, <2>7
<1> QED BY <1>3, <1>4

(* A TCB that is not in a tree that is not empty.                          *)
LEMMA InsertKeeps ==
  ASSUME NEW t, NEW L, Sound(t, L, NoNode), NEW n \in Nodes \ L, t.root # NoNode
  PROVE  LET at == Reached(t, Tid[n])
         IN  /\ at \in L /\ Tid[at] # Tid[n]
             /\ Sound([t EXCEPT !.child[Toward(at, Tid[n])][at] = n, !.parent[n] = at, !.height[n] = 1],
                      L \cup {n}, at)
<1> DEFINE at == Reached(t, Tid[n])
           s == Toward(at, Tid[n])
<1>1. PICK D, H : Forest(t, D) /\ Planted(t, D, L, t.root) /\ Leveled(t, D, H, L, NoNode)
  BY DEF Sound
<1>2. /\ Tid \in [Nodes -> Nat] /\ \A m, k \in Nodes : Tid[m] = Tid[k] => m = k
      /\ NoNode \notin Nodes /\ t \in Trees /\ L \subseteq Nodes
      /\ L = D[t.root]
  BY <1>1, AvlAssumption, PlantedFacts DEF Forest, Planted, Below
<1>3. at \in L /\ EndOf(t, D, Tid[n], t.root, at)
  BY <1>1, <1>2, ReachedIs
<1> HIDE DEF at
<1>4. at \in Nodes /\ at # n /\ Tid[at] # Tid[n] /\ Tid[n] \in Nat
  BY <1>2, <1>3
<1>5. s \in Sides /\ Before(s, n, at)
  BY <1>4, TowardFacts
<1>6. t.child[s][at] = NoNode
  BY <1>3, <1>4 DEF EndOf
<1>7. ASSUME NEW a \in Nodes, NEW q \in Sides, at \in Below(D, t.child[q][a])
      PROVE  Before(q, n, a)
  <2>1. t.child[q][a] # NoNode /\ at \in D[t.child[q][a]]
    BY <1>7 DEF Below
  <2>2. a \in L
    BY <1>1, <2>1, DeadFacts
  <2>3. at \in D[a] /\ at # a
    BY <1>1, <2>1, ForestFacts
  <2>4. OnWay(t, D, Tid[n], a, at)
    BY <1>2, <1>3, <2>2, <2>3 DEF EndOf
  <2>5. Toward(a, Tid[n]) \in Sides /\ Before(Toward(a, Tid[n]), n, a)
    BY <1>4, <2>2, TowardFacts
  <2>6. Before(q, at, a) /\ Before(Toward(a, Tid[n]), at, a)
    BY <1>1, <1>7, <2>4, <2>5 DEF Forest, Ordered, OnWay
  <2>7. q = Toward(a, Tid[n])
    BY <1>4, <2>5, <2>6, SideFacts, BeforeFacts
  <2> QED BY <2>5, <2>7
<1> HIDE DEF s
<1>8. Sound([t EXCEPT !.child[s][at] = n, !.parent[n] = at, !.height[n] = 1], L \cup {n}, at)
  BY <1>1, <1>3, <1>5, <1>6, <1>7, InsertLeaf
<1> QED BY <1>3, <1>4, <1>8 DEF at, s

(* pthipth_avl_delete up to the way back.                                  *)
LEMMA DeleteKeeps ==
  ASSUME NEW t, NEW L, Sound(t, L, NoNode), NEW n \in L
  PROVE  LET cut == IF \E s \in Sides : t.child[s][n] = NoNode THEN UnlinkOuter(t, n)
                                                              ELSE UnlinkInner(t, n)
         IN  Sound(Cleared(cut.tree, n), L \ {n}, cut.from)
<1>1. CASE \E s \in Sides : t.child[s][n] = NoNode
  BY <1>1, DeleteOuter
<1>2. CASE ~\E s \in Sides : t.child[s][n] = NoNode
  <2>1. PICK D, H : Forest(t, D) /\ Planted(t, D, L, t.root) /\ Leveled(t, D, H, L, NoNode)
    BY DEF Sound
  <2> DEFINE rc == t.child["right"][n]
  <2>2. "right" \in Sides /\ rc # NoNode /\ n \in Nodes
    BY <1>2, <2>1, PlantedFacts DEF Sides
  <2>3. rc \in Nodes
    BY <2>1, <2>2, ForestFacts
  <2>4. /\ Leftmost(t, rc) \in D[rc]
        /\ t.child["left"][Leftmost(t, rc)] = NoNode
        /\ \A k \in D[rc] : k # Leftmost(t, rc) => Before("left", Leftmost(t, rc), k)
    BY <2>1, <2>3, LeftmostIs
  <2>5. \A s \in Sides : t.child[s][n] # NoNode
    BY <1>2
  <2>6. Sound(Cleared(UnlinkInner(t, n).tree, n), L \ {n}, UnlinkInner(t, n).from)
    BY <2>1, <2>4, <2>5, DeleteInner
  <2> QED BY <1>2, <2>6
<1> QED BY <1>1, <1>2

-----------------------------------------------------------------------------
(* The inductive invariant.                                                *)
AvlSound == Sound(tree, live, up)

(* The empty tree.                                                         *)
LEMMA InitSound == Init => AvlSound
<1> SUFFICES ASSUME Init PROVE AvlSound
  OBVIOUS
<1> DEFINE D == [n \in Nodes |-> {n}]
           H == [n \in Nodes |-> 0]
<1>1. /\ tree \in Trees /\ tree.root = NoNode /\ live = {} /\ up = NoNode
      /\ \A s \in Sides, n \in Nodes : tree.child[s][n] = NoNode
      /\ \A n \in Nodes : tree.parent[n] = NoNode
      /\ NoNode \notin Nodes /\ NoNode \in Pointers
  BY AvlAssumption DEF Init, Trees, Pointers
<1>2. D \in [Nodes -> SUBSET Nodes] /\ \A n \in Nodes : D[n] = {n}
  OBVIOUS
<1>3. H \in [Nodes -> Int]
  OBVIOUS
<1>4. \A n \in Nodes : IsFiniteSet(D[n])
  BY FS_Singleton
<1> HIDE DEF D, H
<1>5. Split(tree, D) /\ Ordered(tree, D)
  <2>1. \A s \in Sides, n \in Nodes : Below(D, tree.child[s][n]) = {}
    BY <1>1 DEF Below
  <2> QED BY <1>2, <2>1, SideFacts DEF Split, Ordered
<1>6. Linked(tree) /\ Nested(tree, D)
  BY <1>1, <1>2 DEF Linked, Nested
<1>7. Forest(tree, D)
  BY <1>1, <1>2, <1>4, <1>5, <1>6 DEF Forest
<1>8. Planted(tree, D, live, tree.root)
  BY <1>1, <1>2 DEF Planted, Below
<1>9. Leveled(tree, D, H, live, up)
  BY <1>1, <1>3 DEF Leveled
<1> QED BY <1>7, <1>8, <1>9 DEF AvlSound, Sound

(* pthipth_avl_insert keeps it: where the search ended there is a free     *)
(* place, on the right side of everything above it.                        *)
LEMMA InsertSound ==
  ASSUME AvlSound, NEW n \in Nodes, Insert(n)
  PROVE  AvlSound' /\ live' = live \cup {n}
<1> DEFINE at == Reached(tree, Tid[n])
<1>1. Sound(tree, live, NoNode) /\ up = NoNode /\ n \in Nodes \ live /\ live' = live \cup {n}
  BY DEF AvlSound, Insert
<1>2. CASE tree.root = NoNode
  <2>1. at = NoNode
    BY <1>1, <1>2, SearchIs
  <2>2. tree' = [tree EXCEPT !.root = n, !.height[n] = 1] /\ up' = NoNode
    BY <1>1, <2>1 DEF Insert
  <2>3. Sound([tree EXCEPT !.root = n, !.height[n] = 1], live \cup {n}, NoNode)
    BY <1>1, <1>2, InsertFirst
  <2> QED BY <1>1, <2>2, <2>3 DEF AvlSound
<1>3. CASE tree.root # NoNode
  <2>1. /\ at \in live /\ Tid[at] # Tid[n]
        /\ Sound([tree EXCEPT !.child[Toward(at, Tid[n])][at] = n, !.parent[n] = at, !.height[n] = 1],
                 live \cup {n}, at)
    BY <1>1, <1>3, InsertKeeps
  <2>2. at # NoNode
    <3>1. live \subseteq Nodes
      BY <1>1, PlantedFacts DEF Sound
    <3> QED BY <2>1, <3>1, AvlAssumption
  <2>3. /\ tree' = [tree EXCEPT !.child[Toward(at, Tid[n])][at] = n, !.parent[n] = at, !.height[n] = 1]
        /\ up' = at
    BY <2>1, <2>2 DEF Insert
  <2> HIDE DEF at
  <2> QED BY <1>1, <2>1, <2>3 DEF AvlSound
<1> QED BY <1>2, <1>3

(* pthipth_avl_delete keeps it: the successor fits in the place of n.      *)
LEMMA DeleteSound ==
  ASSUME AvlSound, NEW n \in Nodes, Delete(n)
  PROVE  AvlSound' /\ n \in live /\ live' = live \ {n}
<1> DEFINE cut == IF \E s \in Sides : tree.child[s][n] = NoNode THEN UnlinkOuter(tree, n)
                                                             ELSE UnlinkInner(tree, n)
<1>1. Sound(tree, live, NoNode) /\ up = NoNode /\ n \in live /\ live' = live \ {n}
  BY DEF AvlSound, Delete
<1>2. tree.root # NoNode
  BY <1>1, SearchIs
<1>3. tree' = Cleared(cut.tree, n) /\ up' = cut.from
  BY <1>2 DEF Delete, Cleared
<1>4. Sound(Cleared(cut.tree, n), live \ {n}, cut.from)
  BY <1>1, DeleteKeeps
<1> HIDE DEF cut
<1> QED BY <1>1, <1>3, <1>4 DEF AvlSound

(* A round of the way back keeps it.                                       *)
LEMMA ClimbSound ==
  ASSUME AvlSound, Climb
  PROVE  AvlSound' /\ live' = live
<1> DEFINE r == Balance(tree, up)
           z == IF r.tree.parent[r.top] = NoNode THEN [r.tree EXCEPT !.root = r.top] ELSE r.tree
<1>1. up \in live
  BY DEF AvlSound, Sound, Leveled, Climb
<1>2. Sound(z, live, r.tree.parent[r.top])
  BY <1>1, ClimbKeeps DEF AvlSound
<1>3. tree' = z /\ up' = r.tree.parent[r.top] /\ live' = live
  BY DEF Climb
<1> HIDE DEF r, z
<1> QED BY <1>2, <1>3 DEF AvlSound

(* What every step does: nothing, or a TCB more, or one less.              *)
LEMMA NextSound ==
  ASSUME AvlSound, [Next]_vars
  PROVE  /\ AvlSound'
         /\ \/ live' = live
            \/ \E n \in Nodes : n \notin live /\ live' = live \cup {n}
            \/ \E n \in Nodes : n \in live /\ live' = live \ {n}
<1>1. CASE UNCHANGED vars
  BY <1>1 DEF vars, AvlSound
<1>2. ASSUME NEW n \in Nodes, Insert(n)
      PROVE  AvlSound' /\ n \notin live /\ live' = live \cup {n}
  BY <1>2, InsertSound DEF Insert
<1>3. ASSUME NEW n \in Nodes, Delete(n)
      PROVE  AvlSound' /\ n \in live /\ live' = live \ {n}
  BY <1>3, DeleteSound
<1>4. CASE Climb
  BY <1>4, ClimbSound
<1> QED BY <1>1, <1>2, <1>3, <1>4 DEF Next

(* In every state, in the middle of an insertion or deletion too, the tree *)
(* is in search order, its pointers to parents agree with those to         *)
(* children, it holds the live TCBs, and it is balanced but for the node   *)
(* that the way back has come to, which is off by one level at most. For   *)
(* every set of TCBs and any distinct tids.                                *)
THEOREM AvlInvariance == Spec => []AvlSound
<1>1. AvlSound /\ [Next]_vars => AvlSound'
  BY NextSound
<1> QED BY InitSound, <1>1, PTL DEF Spec

(* Between two operations of pthipth_avl.c every height is right, every    *)
(* node balanced and every parent the right one, although a way back       *)
(* corrects one node at a time and rotates at most twice per node.         *)
THEOREM AvlBalanced == Spec => []Balanced
<1>1. AvlSound => Balanced
  <2> SUFFICES ASSUME AvlSound, up = NoNode
               PROVE  /\ tree.root # NoNode => tree.parent[tree.root] = NoNode
                      /\ \A n \in InTree :
                           /\ tree = UpdateHeight(tree, n)
                           /\ Lean(tree, n, "left") \in -1 .. 1
                           /\ \A s \in Sides : tree.child[s][n] # NoNode =>
                                tree.parent[tree.child[s][n]] = n
    BY DEF Balanced
  <2>1. PICK D, H : /\ Forest(tree, D) /\ Planted(tree, D, live, tree.root)
                    /\ Leveled(tree, D, H, live, NoNode)
    BY DEF AvlSound, Sound
  <2>2. InTree = live
    <3>1. NodesOf(tree) = live
      BY SoundNodes DEF AvlSound
    <3> QED BY <3>1 DEF InTree, NodesOf
  <2>3. tree.root # NoNode => tree.parent[tree.root] = NoNode
    BY <2>1 DEF Planted
  <2>4. ASSUME NEW n \in live
        PROVE  /\ tree = UpdateHeight(tree, n)
               /\ Lean(tree, n, "left") \in -1 .. 1
               /\ \A s \in Sides : tree.child[s][n] # NoNode => tree.parent[tree.child[s][n]] = n
    <3>1. /\ n \in Nodes /\ tree \in Trees /\ NoNode \notin Nodes /\ D \in [Nodes -> SUBSET Nodes]
          /\ "left" \in Sides /\ "right" \in Sides /\ Other("left") = "right"
      BY <2>1, PlantedFacts, AvlAssumption DEF Forest, Sides, Other
    <3>2. \A a \in live : tree.height[a] = H[a] /\ LevelAt(tree, H, a)
      BY <2>1, <3>1, PlantedFacts DEF Leveled, Forest
    <3>3. ASSUME NEW s \in Sides
          PROVE  Height(tree, tree.child[s][n]) = HeightOf(H, tree.child[s][n])
      <4>1. tree.child[s][n] # NoNode => tree.child[s][n] \in live
        BY <2>1, PlantedFacts
      <4> QED BY <3>2, <4>1 DEF Height, HeightOf
    <3> DEFINE l == Height(tree, tree.child["left"][n])
               r == Height(tree, tree.child["right"][n])
    <3>4. Level(tree.height[n], l, r)
      <4>1. LevelAt(tree, H, n) /\ tree.height[n] = H[n]
        BY <3>2
      <4>2. Level(H[n], HeightOf(H, tree.child["left"][n]), HeightOf(H, tree.child["right"][n]))
        BY <3>1, <4>1 DEF LevelAt
      <4>3. l = HeightOf(H, tree.child["left"][n]) /\ r = HeightOf(H, tree.child["right"][n])
        BY <3>1, <3>3
      <4> HIDE DEF l, r
      <4> QED BY <4>1, <4>2, <4>3
    <3>5. Lean(tree, n, "left") \in -1 .. 1
      BY <3>1, <3>4 DEF Lean, Level
    <3>6. NewHeight(tree, n) = Taller(l, r)
      BY <3>1, NewHeightIs
    <3>7. UpdateHeight(tree, n) = [tree EXCEPT !.height[n] = NewHeight(tree, n)]
      BY DEF UpdateHeight, NewHeight
    <3>8. NewHeight(tree, n) = tree.height[n]
      BY <3>4, <3>6 DEF Level
    <3>9. tree = [tree EXCEPT !.height[n] = tree.height[n]]
      BY <3>1 DEF Trees
    <3>10. tree = UpdateHeight(tree, n)
      BY <3>7, <3>8, <3>9
    <3> QED BY <2>1, <3>1, <3>5, <3>10 DEF Forest, Linked
  <2> QED BY <2>2, <2>3, <2>4
<1> QED BY <1>1, AvlInvariance, PTL

(* Between two operations pthipth_avl_search finds a thread by its tid     *)
(* from its creation until it is freed, and nothing under any other tid.   *)
THEOREM AvlSearch == Spec => []EveryThreadFound
<1>1. AvlSound => EveryThreadFound
  BY SearchIs DEF AvlSound, EveryThreadFound
<1> QED BY <1>1, AvlInvariance, PTL

(* The tree implements the set TcbTable: an insertion adds the new TCB, a  *)
(* deletion takes out the one it was called for, although it is the        *)
(* successor that is unlinked, and a rotation loses or adds none.          *)
THEOREM AvlTable == Spec => ImplementsTable
<1>1. Init => Table!Init
  <2> SUFFICES ASSUME Init PROVE InTree = {}
    BY DEF Table!Init
  <2>1. NodesOf(tree) = live
    BY InitSound, SoundNodes DEF AvlSound
  <2> QED BY <2>1 DEF Init, InTree, NodesOf
<1>2. AvlSound => InTree = live
  <2> SUFFICES ASSUME AvlSound PROVE InTree = live
    OBVIOUS
  <2>1. NodesOf(tree) = live
    BY SoundNodes DEF AvlSound
  <2> QED BY <2>1 DEF InTree, NodesOf
<1>3. AvlSound /\ InTree = live /\ (InTree = live)' /\ [Next]_vars => [Table!Next]_InTree
  <2> SUFFICES ASSUME AvlSound, InTree = live, (InTree = live)', [Next]_vars
               PROVE  [Table!Next]_InTree
    OBVIOUS
  <2> HIDE DEF InTree
  <2>1. \/ live' = live
        \/ \E n \in Nodes : n \notin live /\ live' = live \cup {n}
        \/ \E n \in Nodes : n \in live /\ live' = live \ {n}
    BY NextSound
  <2> QED BY <2>1 DEF Table!Next, Table!Register, Table!Remove
<1> QED BY <1>1, <1>2, <1>3, AvlInvariance, PTL DEF Spec, ImplementsTable, Table!Spec

=============================================================================
