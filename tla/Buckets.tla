------------------------------ MODULE Buckets -------------------------------
(***************************************************************************)
(* The bucket queue of pthipth_bq.c as a value: per priority the sequence  *)
(* of threads from pthipth_bq_table[p] to pthipth_bq_table_tail[p], and    *)
(* the set of priorities whose bit is set in __pthipth_bq_bitmap.  The     *)
(* module has operators only; BucketQueue shows that the pointers of the   *)
(* code behave like this value, Scheduler keeps one in its state.          *)
(***************************************************************************)
EXTENDS Integers, Sequences, SequencesExt, FiniteSetsExt

(* No thread queued: the zero-initialised globals.                         *)
EmptyBuckets(P) == [bucket |-> [p \in P |-> <<>>], bits |-> {}]

Queued(q, n) == \E p \in DOMAIN q.bucket : Contains(q.bucket[p], n)

(* node->cur_priority of a queued node.                                    *)
Level(q, n) == CHOOSE p \in DOMAIN q.bucket : Contains(q.bucket[p], n)

(* Mutant of Top: __builtin_clz for __builtin_ctz.                         *)
TopLowest(q) == Max(q.bits)

(* The priority of pthipth_bq_head: the smallest one in the bitmap.        *)
Top(q) == Min(q.bits)

BqPeek(q) == Head(q.bucket[Top(q)])

-----------------------------------------------------------------------------
(* A node goes to the tail of its bucket; the bit is set only when the     *)
(* bucket was empty.                                                       *)
BqInsert(q, n, p) ==
  [bucket |-> [q.bucket EXCEPT ![p] = Append(@, n)],
   bits   |-> IF q.bucket[p] = <<>> THEN q.bits \cup {p} ELSE q.bits]

(* Without(s, n) is s with n unlinked.                                     *)
Without(s, n) ==
  IF Contains(s, n) THEN RemoveAt(s, CHOOSE i \in DOMAIN s : s[i] = n) ELSE s

(* A node that is not queued is left alone.  Deleting the first node of a  *)
(* bucket clears the bit, also when other nodes remain in the bucket.      *)
BqDelete(q, n) ==
  IF ~Queued(q, n) THEN q
  ELSE LET p == Level(q, n) IN
       [bucket |-> [q.bucket EXCEPT ![p] = Without(@, n)],
        bits   |-> IF Head(q.bucket[p]) = n THEN q.bits \ {p} ELSE q.bits]

BqReinsert(q, n, p) == BqInsert(BqDelete(q, n), n, p)

(* The first node of the highest bucket becomes its last.                  *)
BqRotate(q) ==
  [q EXCEPT !.bucket[Top(q)] = Append(Tail(@), Head(@))]

-----------------------------------------------------------------------------
(* Every queued thread is in one bucket, once.                             *)
NoDuplicates(q) ==
  \A p1, p2 \in DOMAIN q.bucket :
    \A i \in DOMAIN q.bucket[p1], j \in DOMAIN q.bucket[p2] :
      q.bucket[p1][i] = q.bucket[p2][j] => p1 = p2 /\ i = j

(* A set bit always stands for a bucket with a node in it, so peek and     *)
(* rotate have one to work on.                                             *)
BitsSound(q) == \A p \in q.bits : q.bucket[p] # <<>>
=============================================================================
