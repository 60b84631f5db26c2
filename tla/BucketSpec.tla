----------------------------- MODULE BucketSpec -----------------------------
(***************************************************************************)
(* The bucket queue under the calls the library makes: threads are         *)
(* inserted and deleted by state changes, reinserted by priority changes,  *)
(* and the highest bucket is rotated by the scheduler.  The idle thread is *)
(* the only one of its priority and never leaves.                          *)
(***************************************************************************)
EXTENDS Buckets, BucketConstants

VARIABLE q               \* the queue, a value of Buckets

Init == q = BqInsert(EmptyBuckets(Priorities), IdleThread, IdlePriority)

Insert(n, p) == ~Queued(q, n) /\ q' = BqInsert(q, n, p)

Delete(n) == Queued(q, n) /\ q' = BqDelete(q, n)

Reinsert(n, p) == Queued(q, n) /\ q' = BqReinsert(q, n, p)

Rotate == q' = BqRotate(q)

Next ==
  \/ \E n \in Threads \ {IdleThread} :
       \/ Delete(n)
       \/ \E p \in Priorities \ {IdlePriority} : Insert(n, p) \/ Reinsert(n, p)
  \/ Rotate

Spec == Init /\ [][Next]_q

(* The client never takes the first node of a bucket away from the others. *)
AloneOrNotFirst(n) ==
  LET s == q.bucket[Level(q, n)] IN Len(s) = 1 \/ Head(s) # n

CarefulNext ==
  \/ \E n \in Threads \ {IdleThread} :
       \/ Delete(n) /\ AloneOrNotFirst(n)
       \/ \E p \in Priorities \ {IdlePriority} :
            Insert(n, p) \/ (Reinsert(n, p) /\ AloneOrNotFirst(n))
  \/ Rotate

CarefulSpec == Init /\ [][CarefulNext]_q

-----------------------------------------------------------------------------
TypeOK ==
  /\ q.bucket \in [Priorities -> Seq(Threads)]
  /\ q.bits \in SUBSET Priorities

(* The queue is never corrupted, whatever the calls: no thread is queued   *)
(* twice, the bitmap is sound and, by the idle thread's bit, never empty,  *)
(* so __builtin_ctz is never applied to 0.                                 *)
Sound ==
  /\ NoDuplicates(q)
  /\ BitsSound(q)
  /\ IdlePriority \in q.bits
  /\ q.bucket[IdlePriority] = <<IdleThread>>

(* "return the current head node with the highest priority"                *)
(* (documentation.md:177).                                                 *)
PeekIsHighest ==
  \A n \in Threads : Queued(q, n) => Level(q, n) >= Level(q, BqPeek(q))

(* Threads that peek cannot return: queued, but without a bit.             *)
Hidden == UNION {ToSet(q.bucket[p]) : p \in Priorities \ q.bits}

(* The one way in which peek begins to miss threads: a call takes the      *)
(* first of several threads out of its bucket, or puts it at the end, by   *)
(* a delete.  Inserts, rotations and all other deletes hide nobody.        *)
HiddenBehindFirstOnly ==
  [][Hidden = {} /\ Hidden' # {} =>
       \E p \in Priorities :
         /\ Len(q.bucket[p]) > 1 /\ Head(q'.bucket[p]) # Head(q.bucket[p])
         /\ p \in q.bits \ q'.bits]_q
=============================================================================
