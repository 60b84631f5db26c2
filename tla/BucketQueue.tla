---------------------------- MODULE BucketQueue -----------------------------
(***************************************************************************)
(* pthipth_bq.c with its pointers: a circular doubly linked list per       *)
(* priority, the tables of first and last nodes, the bitmap and            *)
(* pthipth_bq_head.  Every function of the file maps the whole structure b *)
(* to the next one, assignment by assignment.  Lists keeps one in its       *)
(* state and shows that it implements BucketSpec.                           *)
(***************************************************************************)
EXTENDS Sequences, FiniteSets, FiniteSetsExt, BucketConstants

CONSTANT NoNode              \* NULL

ASSUME PointerAssumption == NoNode \notin Threads

(* The structure: next, prev, priority and cur_priority of the TCBs, the   *)
(* tables of first and last nodes, the set bits and pthipth_bq_head.       *)
Zeroed ==
  [next |-> [n \in Threads |-> NoNode], prev |-> [n \in Threads |-> NoNode],
   prio |-> [n \in Threads |-> 0], curp |-> [n \in Threads |-> 0],
   table |-> [p \in Priorities |-> NoNode], tail |-> [p \in Priorities |-> NoNode],
   bitmap |-> {}, head |-> NoNode]

-----------------------------------------------------------------------------
(* pthipth_bq_insert                                                       *)

InsertFirst(r, n, p) ==
  [r EXCEPT !.curp[n] = p, !.next[n] = n, !.prev[n] = n,
            !.table[p] = n, !.tail[p] = n,
            !.head = IF r.head = NoNode \/ p < r.prio[r.head] THEN n ELSE @,
            !.bitmap = @ \cup {p}]

(* Mutant of InsertLast: the last node's next is not set.                  *)
InsertLastUnlinked(r, n, p) ==
  [r EXCEPT !.curp[n] = p, !.prev[r.table[p]] = n,
            !.next[n] = r.table[p], !.prev[n] = r.tail[p], !.tail[p] = n]

InsertLast(r, n, p) ==
  LET last == r.tail[p] IN
  [r EXCEPT !.curp[n] = p, !.prev[r.table[p]] = n,
            !.next = [@ EXCEPT ![n] = r.table[p], ![last] = n],
            !.prev[n] = last, !.tail[p] = n]

BqInsert(r, n) ==
  LET p == r.prio[n] IN
  IF r.table[p] = NoNode THEN InsertFirst(r, n, p) ELSE InsertLast(r, n, p)

-----------------------------------------------------------------------------
(* pthipth_bq_delete *)

(* __builtin_ctz of the bitmap; BucketSpec shows that it is never 0.       *)
Ctz(bits) == Min(bits)

Unlink(r, n) ==
  LET r1 == [r EXCEPT !.prev[r.next[n]] = r.prev[n]]
  IN  [r1 EXCEPT !.next[r1.prev[n]] = r1.next[n]]

(* Mutant of DropFirst: the head stays when the bit is cleared.            *)
DropFirstKeepsHead(r, n, p) ==
  LET first == IF n = r.next[n] THEN NoNode ELSE r.next[n] IN
  [r EXCEPT !.table[p] = first,
            !.tail[p] = IF first = NoNode THEN NoNode ELSE @,
            !.bitmap = @ \ {p}]

(* Mutant of DropFirst: the bit stays.                                     *)
DropFirstKeepsBit(r, n, p) ==
  LET first == IF n = r.next[n] THEN NoNode ELSE r.next[n]
      table == [r.table EXCEPT ![p] = first]
  IN  [r EXCEPT !.table = table,
                !.tail[p] = IF first = NoNode THEN NoNode ELSE @,
                !.head = table[Ctz(r.bitmap)]]

DropFirst(r, n, p) ==
  LET first == IF n = r.next[n] THEN NoNode ELSE r.next[n]
      table == [r.table EXCEPT ![p] = first]
      bits  == r.bitmap \ {p}
  IN  [r EXCEPT !.table = table,
                !.tail[p] = IF first = NoNode THEN NoNode ELSE @,
                !.bitmap = bits, !.head = table[Ctz(bits)]]

(* Mutant of DropOther: the bit is cleared.                                *)
DropOtherClearsBit(r, n, p) ==
  [r EXCEPT !.bitmap = @ \ {p},
            !.tail[p] = IF n = @ THEN r.prev[n] ELSE @]

DropOther(r, n, p) == IF n = r.tail[p] THEN [r EXCEPT !.tail[p] = r.prev[r.tail[p]]] ELSE r

BqDelete(r, n) ==
  LET p  == r.curp[n]
      r1 == Unlink(r, n)
      r2 == IF n = r1.table[p] THEN DropFirst(r1, n, p) ELSE DropOther(r1, n, p)
  IN  IF r.curp[n] = -1 \/ r.head = NoNode THEN r
      ELSE [r2 EXCEPT !.next[n] = NoNode, !.prev[n] = NoNode, !.curp[n] = -1]

BqReinsert(r, n) == BqInsert(BqDelete(r, n), n)

-----------------------------------------------------------------------------
BqRotate(r) ==
  LET cur == r.head
      p   == r.curp[cur]
  IN  IF cur = NoNode \/ cur = r.next[cur] \/ r.curp[cur] = -1 THEN r
      ELSE [r EXCEPT !.tail[p] = cur, !.table[p] = r.next[cur], !.head = r.next[cur]]

(* The nodes of one bucket in the order in which aging and search walk it. *)
Ring(r, p) ==
  LET size == Cardinality({n \in Threads : r.next[n] # NoNode /\ r.curp[n] = p})
      walk[k \in 1 .. size] == IF k = 1 THEN r.table[p] ELSE r.next[walk[k - 1]]
  IN  walk
=============================================================================
