------------------------- MODULE BucketSpec_proofs --------------------------
(***************************************************************************)
(* The bucket queue is never corrupted, and while its callers are careful  *)
(* peek returns a thread of the highest priority: for every set of threads *)
(* and every number of priorities.                                         *)
(***************************************************************************)
EXTENDS BucketSpec, ThreadLists_proofs

(* The queue that pthipth_init leaves holds the idle thread alone.         *)
LEMMA InitGood == Init => Good(q)
<1> SUFFICES ASSUME Init PROVE Good(q)
  OBVIOUS
<1>1. IdlePriority \in Priorities /\ IdleThread \in Threads
  BY BucketAssumption DEF Priorities
<1>2. /\ q.bucket = [p \in Priorities |-> IF p = IdlePriority THEN <<IdleThread>> ELSE <<>>]
      /\ q.bits = {IdlePriority}
      /\ q = [bucket |-> q.bucket, bits |-> q.bits]
  BY <1>1 DEF Init, BqInsert, EmptyBuckets
<1>3. q.bucket \in [Priorities -> Seq(Threads)]
  BY <1>1, <1>2
<1>4. NoDuplicates(q)
  BY <1>2 DEF NoDuplicates
<1>5. BitsSound(q)
  BY <1>1, <1>2 DEF BitsSound
<1> QED BY <1>1, <1>2, <1>3, <1>4, <1>5 DEF Good

(* The inductive invariant.                                                *)
IInv == Good(q)

(* Every call of the library keeps the queue good.                         *)
LEMMA NextGood == IInv /\ [Next]_q => IInv'
<1> SUFFICES ASSUME Good(q), [Next]_q PROVE Good(q')
  BY DEF IInv
<1>1. ASSUME NEW n \in Threads \ {IdleThread}, Delete(n) PROVE Good(q')
  BY <1>1, DeleteGood DEF Delete
<1>2. ASSUME NEW n \in Threads \ {IdleThread}, NEW p \in Priorities \ {IdlePriority}, Insert(n, p)
      PROVE  Good(q')
  BY <1>2, InsertGood DEF Insert
<1>3. ASSUME NEW n \in Threads \ {IdleThread}, NEW p \in Priorities \ {IdlePriority}, Reinsert(n, p)
      PROVE  Good(q')
  BY <1>3, ReinsertGood DEF Reinsert
<1>4. CASE Rotate
  BY <1>4, RotateGood DEF Rotate
<1>5. CASE UNCHANGED q
  BY <1>5
<1> QED BY <1>1, <1>2, <1>3, <1>4, <1>5 DEF Next

(* The queue stays good, whatever the library's calls and their order.     *)
THEOREM QueueGood == Spec => []IInv
<1>1. Init => IInv
  BY InitGood DEF IInv
<1> QED BY <1>1, NextGood, PTL DEF Spec

(* The buckets hold threads and the bitmap priorities.                     *)
THEOREM TypesOfBuckets == Spec => []TypeOK
<1>1. IInv => TypeOK
  BY DEF IInv, Good, TypeOK
<1> QED BY <1>1, QueueGood, PTL

(* No sequence of calls corrupts the queue: no thread is queued twice,     *)
(* every bit stands for a thread, and the bitmap is never 0.               *)
THEOREM QueueSound == Spec => []Sound
<1>1. IInv => Sound
  BY DEF IInv, Good, Sound
<1> QED BY <1>1, QueueGood, PTL

-----------------------------------------------------------------------------
(* Every call of a careful caller keeps the queue good and hides nobody.   *)
LEMMA CarefulNextComplete ==
  IInv /\ Complete(q) /\ [CarefulNext]_q => IInv' /\ Complete(q)'
<1> SUFFICES ASSUME Good(q), Complete(q), [CarefulNext]_q PROVE Good(q') /\ Complete(q')
  BY DEF IInv
<1>1. ASSUME NEW n \in Threads \ {IdleThread}, Delete(n), AloneOrNotFirst(n)
      PROVE  Good(q') /\ Complete(q')
  BY <1>1, DeleteGood, DeleteComplete DEF Delete, AloneOrNotFirst
<1>2. ASSUME NEW n \in Threads \ {IdleThread}, NEW p \in Priorities \ {IdlePriority}, Insert(n, p)
      PROVE  Good(q') /\ Complete(q')
  BY <1>2, InsertGood, InsertComplete DEF Insert
<1>3. ASSUME NEW n \in Threads \ {IdleThread}, NEW p \in Priorities \ {IdlePriority},
             Reinsert(n, p), AloneOrNotFirst(n)
      PROVE  Good(q') /\ Complete(q')
  <2>1. q' = BqInsert(BqDelete(q, n), n, p)
    BY <1>3 DEF Reinsert, BqReinsert
  <2>2. Good(BqDelete(q, n)) /\ ~Queued(BqDelete(q, n), n)
    BY DeleteGood
  <2>3. Complete(BqDelete(q, n))
    BY <1>3, DeleteComplete DEF Reinsert, AloneOrNotFirst
  <2> QED BY <2>1, <2>2, <2>3, InsertGood, InsertComplete
<1>4. CASE Rotate
  BY <1>4, RotateGood, RotateComplete DEF Rotate
<1>5. CASE UNCHANGED q
  BY <1>5
<1> QED BY <1>1, <1>2, <1>3, <1>4, <1>5 DEF CarefulNext

(* While its callers never take the first of several threads out of a      *)
(* bucket, peek returns a thread of the highest priority.                  *)
THEOREM CarefulPeek == CarefulSpec => []PeekIsHighest
<1>1. Init => IInv /\ Complete(q)
  <2> SUFFICES ASSUME Init PROVE Complete(q)
    BY InitGood DEF IInv
  <2>1. \A p \in Priorities : q.bucket[p] # <<>> => p = IdlePriority
    BY DEF Init, BqInsert, EmptyBuckets
  <2> QED BY <2>1, InitGood DEF Good, Complete
<1>2. IInv /\ Complete(q) => PeekIsHighest
  BY PeekOfComplete DEF IInv, PeekIsHighest
<1> QED BY <1>1, <1>2, CarefulNextComplete, PTL DEF CarefulSpec

-----------------------------------------------------------------------------
(* Hidden, for a queue that need not be the variable: nobody is hidden iff *)
(* every bucket in use has its bit.                                        *)
HiddenIn(r) == UNION {ToSet(r.bucket[p]) : p \in Priorities \ r.bits}

LEMMA NobodyHidden ==
  ASSUME NEW r, Good(r)
  PROVE  HiddenIn(r) = {} <=> Complete(r)
<1>1. \A p \in Priorities : r.bucket[p] \in Seq(Threads)
  BY DEF Good
<1>2. \A p \in Priorities : ToSet(r.bucket[p]) = {} <=> r.bucket[p] = <<>>
  <2> SUFFICES ASSUME NEW p \in Priorities PROVE ToSet(r.bucket[p]) = {} <=> r.bucket[p] = <<>>
    OBVIOUS
  <2> DEFINE s == r.bucket[p]
  <2>1. s \in Seq(Threads)
    BY <1>1
  <2> HIDE DEF s
  <2>2. \A x : x \in ToSet(s) <=> \E i \in 1 .. Len(s) : x = s[i]
    BY <2>1 DEF ToSet
  <2>3. s # <<>> <=> 1 \in 1 .. Len(s)
    BY <2>1
  <2>4. Len(s) \in Nat
    BY <2>1
  <2>5. s # <<>> <=> \E i \in 1 .. Len(s) : TRUE
    BY <2>3, <2>4
  <2> QED BY <2>2, <2>5 DEF s
<1>3. HiddenIn(r) = {} <=> \A p \in Priorities \ r.bits : ToSet(r.bucket[p]) = {}
  BY DEF HiddenIn
<1> QED BY <1>2, <1>3 DEF Complete

(* A delete that hides somebody takes away the first of several threads.   *)
LEMMA FirstTaken ==
  ASSUME NEW r, Good(r), Complete(r), NEW n \in Threads \ {IdleThread}, Queued(r, n),
         ~Complete(BqDelete(r, n))
  PROVE  /\ Level(r, n) \in Priorities
         /\ Len(r.bucket[Level(r, n)]) > 1 /\ Head(r.bucket[Level(r, n)]) = n
         /\ Level(r, n) \in r.bits /\ Level(r, n) \notin BqDelete(r, n).bits
         /\ BqDelete(r, n).bucket[Level(r, n)] # <<>>
         /\ Head(BqDelete(r, n).bucket[Level(r, n)]) # n
<1> DEFINE p == Level(r, n)
           s == r.bucket[p]
           t == Without(s, n)
<1>1. p \in Priorities /\ Contains(s, n)
  BY LevelIs
<1>2. s \in Seq(Threads) /\ (\A i, j \in 1 .. Len(s) : s[i] = s[j] => i = j)
  BY <1>1, OnceInBucket
<1>3. ~(Len(s) = 1 \/ Head(s) # n)
  BY DeleteComplete
<1>4. s # <<>> /\ Len(s) \in Nat /\ Len(s) > 1
  <2> HIDE DEF s
  <2>1. PICK i \in 1 .. Len(s) : s[i] = n
    BY <1>1 DEF Contains
  <2> QED BY <1>2, <1>3, <2>1
<1>5. /\ t \in Seq(Threads) /\ Len(t) = Len(s) - 1
      /\ \A i \in 1 .. Len(t) : t[i] # n
  BY <1>1, <1>2, Unlinked
<1>6. BqDelete(r, n).bucket[p] = t /\ BqDelete(r, n).bits = r.bits \ {p}
  BY <1>1, <1>3 DEF BqDelete, Good
<1>7. p \in r.bits
  BY <1>1, <1>4 DEF Complete
<1> HIDE DEF p, s, t
<1>8. t # <<>> /\ Head(t) # n
  <2>1. Len(t) \in Nat /\ Len(t) > 0
    BY <1>4, <1>5
  <2>2. t # <<>> /\ Head(t) = t[1] /\ 1 \in 1 .. Len(t)
    BY <1>5, <2>1
  <2> QED BY <1>5, <2>2
<1> QED BY <1>1, <1>3, <1>4, <1>6, <1>7, <1>8 DEF p, s, t

(* What HiddenBehindFirstOnly says of a step from r to r1.                 *)
FirstOfSeveralLeft(r, r1) ==
  \E p \in Priorities :
    /\ Len(r.bucket[p]) > 1 /\ Head(r1.bucket[p]) # Head(r.bucket[p])
    /\ p \in r.bits \ r1.bits

(* A step that begins to hide threads takes the first of several threads   *)
(* out of its bucket.                                                      *)
LEMMA HiddenStep ==
  ASSUME IInv, [Next]_q, HiddenIn(q) = {}, HiddenIn(q') # {}
  PROVE  FirstOfSeveralLeft(q, q')
<1>1. Good(q) /\ Good(q') /\ Complete(q) /\ ~Complete(q')
  <2>1. Good(q) /\ Good(q')
    BY NextGood DEF IInv
  <2> QED BY <2>1, NobodyHidden
<1>2. ASSUME NEW n \in Threads \ {IdleThread}, Delete(n) PROVE FirstOfSeveralLeft(q, q')
  <2>1. Queued(q, n) /\ q' = BqDelete(q, n)
    BY <1>2 DEF Delete
  <2> QED BY <1>1, <2>1, FirstTaken DEF FirstOfSeveralLeft
<1>3. ASSUME NEW n \in Threads \ {IdleThread}, NEW p \in Priorities \ {IdlePriority}, Insert(n, p)
      PROVE  FALSE
  BY <1>1, <1>3, InsertComplete DEF Insert
<1>4. ASSUME NEW n \in Threads \ {IdleThread}, NEW p \in Priorities \ {IdlePriority}, Reinsert(n, p)
      PROVE  FirstOfSeveralLeft(q, q')
  <2> DEFINE d == BqDelete(q, n)
             l == Level(q, n)
  <2>1. Queued(q, n) /\ q' = BqInsert(d, n, p)
    BY <1>4 DEF Reinsert, BqReinsert
  <2>2. Good(d)
    BY <1>1, DeleteGood
  <2>3. ~Complete(d)
    BY <1>1, <2>1, <2>2, InsertComplete
  <2>4. /\ l \in Priorities /\ Len(q.bucket[l]) > 1 /\ Head(q.bucket[l]) = n
        /\ l \in q.bits /\ l \notin d.bits /\ d.bucket[l] # <<>> /\ Head(d.bucket[l]) # n
    BY <1>1, <2>1, <2>3, FirstTaken
  <2> HIDE DEF d, l
  <2>5. d.bucket[l] \in Seq(Threads) /\ d.bucket \in [Priorities -> Seq(Threads)]
    BY <2>2, <2>4 DEF Good
  <2>6. q'.bucket[l] = IF l = p THEN Append(d.bucket[l], n) ELSE d.bucket[l]
    BY <2>1, <2>4, <2>5 DEF BqInsert
  <2>7. Head(q'.bucket[l]) = Head(d.bucket[l])
    BY <2>4, <2>5, <2>6
  <2>8. l \notin q'.bits
    BY <2>1, <2>4 DEF BqInsert
  <2> QED BY <2>4, <2>7, <2>8 DEF FirstOfSeveralLeft
<1>5. CASE Rotate
  BY <1>1, <1>5, RotateComplete DEF Rotate
<1>6. CASE UNCHANGED q
  BY <1>1, <1>6
<1> QED BY <1>2, <1>3, <1>4, <1>5, <1>6 DEF Next

(* Threads become hidden from peek in one way only: pthipth_bq_delete      *)
(* takes the first of several threads out of its bucket and clears the bit *)
(* under the others.                                                       *)
THEOREM HiddenOnly == Spec => HiddenBehindFirstOnly
<1>1. IInv /\ [Next]_q =>
        [Hidden = {} /\ Hidden' # {} =>
           \E p \in Priorities :
             /\ Len(q.bucket[p]) > 1 /\ Head(q'.bucket[p]) # Head(q.bucket[p])
             /\ p \in q.bits \ q'.bits]_q
  <2>1. Hidden = HiddenIn(q) /\ Hidden' = HiddenIn(q')
    BY DEF Hidden, HiddenIn
  <2> QED BY <2>1, HiddenStep DEF FirstOfSeveralLeft
<1> QED BY <1>1, QueueGood, PTL DEF Spec, HiddenBehindFirstOnly
=============================================================================
