---------------------------- MODULE Lists_proofs -----------------------------
(***************************************************************************)
(* The pointers of pthipth_bq.c and pthipth_queue.c hold sequences, for    *)
(* every set of threads and every number of priorities.  Rings first: what *)
(* is linked is a queue of Buckets (Rep), and each function of pthipth_bq.c *)
(* does to it what the operator of Buckets does; then the lists (LRep)     *)
(* with the functions of pthipth_queue.c; then the walks, which find what  *)
(* is linked; then the inductive invariant of Lists, and what follows.     *)
(***************************************************************************)
EXTENDS Lists, FiniteSetTheorems, SequenceTheorems, WellFoundedInduction, TLAPS

(* The queue as a value, and what its operations keep.                     *)
V == INSTANCE ThreadLists_proofs

Distinct(s) == \A i, j \in 1 .. Len(s) : s[i] = s[j] => i = j

On(s, n) == \E i \in 1 .. Len(s) : s[i] = n

-----------------------------------------------------------------------------
(* Rings: the nodes of s, each linked to the next and the last one to the  *)
(* first.                                                                  *)
RingOK(next, prev, first, last, s) ==
  /\ s = <<>> => first = NoNode /\ last = NoNode
  /\ s # <<>> => first = s[1] /\ last = s[Len(s)]
  /\ \A i \in 1 .. Len(s) :
       /\ next[s[i]] = IF i = Len(s) THEN s[1] ELSE s[i + 1]
       /\ prev[s[i]] = IF i = 1 THEN s[Len(s)] ELSE s[i - 1]

(* A ring does not depend on the links of other nodes.                     *)
LEMMA RingFrame ==
  ASSUME NEW s \in Seq(Threads), NEW next, NEW prev, NEW next1, NEW prev1, NEW first, NEW last,
         RingOK(next, prev, first, last, s),
         \A n \in Threads : On(s, n) => next1[n] = next[n] /\ prev1[n] = prev[n]
  PROVE  RingOK(next1, prev1, first, last, s)
<1>1. \A i \in 1 .. Len(s) : s[i] \in Threads /\ On(s, s[i])
  BY DEF On
<1> QED BY <1>1 DEF RingOK

(* pthipth_bq_insert into an empty bucket and at the end of another one.   *)
LEMMA RingOne ==
  ASSUME NEW n \in Threads, NEW next \in [Threads -> Pointers], NEW prev \in [Threads -> Pointers]
  PROVE  RingOK([next EXCEPT ![n] = n], [prev EXCEPT ![n] = n], n, n, <<n>>)
BY DEF RingOK

(* A node goes to the end of a ring that is not empty.                     *)
LEMMA RingAppend ==
  ASSUME NEW s \in Seq(Threads), s # <<>>, Distinct(s), NEW n \in Threads, ~On(s, n),
         NEW next \in [Threads -> Pointers], NEW prev \in [Threads -> Pointers],
         NEW first, NEW last, RingOK(next, prev, first, last, s),
         NEW next1, next1 = [next EXCEPT ![n] = first, ![last] = n],
         NEW prev1, prev1 = [[prev EXCEPT ![first] = n] EXCEPT ![n] = last]
  PROVE  RingOK(next1, prev1, first, n, Append(s, n))
<1>1. /\ Len(s) \in Nat \ {0} /\ first = s[1] /\ last = s[Len(s)] 
      /\ first \in Threads /\ last \in Threads
      /\ \A i \in 1 .. Len(s) : s[i] \in Threads /\ s[i] # n
  BY DEF RingOK, On
<1> DEFINE t == Append(s, n)
<1>2. /\ Len(t) = Len(s) + 1 /\ t # <<>>
      /\ \A i \in 1 .. Len(t) : t[i] = IF i = Len(s) + 1 THEN n ELSE s[i]
  BY <1>1
<1>3. \A m \in Threads : /\ next1[m] = IF m = last THEN n ELSE IF m = n THEN first ELSE next[m]
                         /\ prev1[m] = IF m = n THEN last ELSE IF m = first THEN n ELSE prev[m]
  BY <1>1
<1> HIDE DEF t
<1>4. ASSUME NEW i \in 1 .. Len(t) 
      PROVE  /\ next1[t[i]] = IF i = Len(t) THEN t[1] ELSE t[i + 1]
             /\ prev1[t[i]] = IF i = 1 THEN t[Len(t)] ELSE t[i - 1]
  <2>1. CASE i = Len(s) + 1
    BY <1>1, <1>2, <1>3, <2>1
  <2>2. CASE i \in 1 .. Len(s)
    <3>1. t[i] = s[i] /\ s[i] \in Threads
      BY <1>1, <1>2, <2>2
    <3>2. s[i] = last <=> i = Len(s)
      BY <1>1, <2>2 DEF Distinct
    <3>3. s[i] = first <=> i = 1
      BY <1>1, <2>2 DEF Distinct
    <3>4. /\ next[s[i]] = IF i = Len(s) THEN s[1] ELSE s[i + 1]
          /\ prev[s[i]] = IF i = 1 THEN s[Len(s)] ELSE s[i - 1]
      BY <2>2 DEF RingOK
    <3>5. next1[t[i]] = IF i = Len(t) THEN t[1] ELSE t[i + 1]
      <4>1. CASE i = Len(s)
        BY <1>1, <1>2, <1>3, <3>1, <3>2, <4>1
      <4>2. CASE i # Len(s)
        BY <1>1, <1>2, <1>3, <2>2, <3>1, <3>2, <3>4, <4>2
      <4> QED BY <4>1, <4>2
    <3>6. prev1[t[i]] = IF i = 1 THEN t[Len(t)] ELSE t[i - 1]
      <4>1. CASE i = 1
        BY <1>1, <1>2, <1>3, <3>1, <3>3, <4>1
      <4>2. CASE i # 1
        BY <1>1, <1>2, <1>3, <2>2, <3>1, <3>3, <3>4, <4>2
      <4> QED BY <4>1, <4>2
    <3> QED BY <3>5, <3>6
  <2> QED BY <1>1, <1>2, <2>1, <2>2
<1>5. first = t[1] /\ n = t[Len(t)]
  BY <1>1, <1>2
<1> QED BY <1>2, <1>4, <1>5 DEF RingOK, t

(* t is s without its k-th node n, next1 and prev1 lead past n, and first1  *)
(* and last1 are the ends without it.                                      *)
IsCut(s, k, n, t) ==
  /\ n = s[k] /\ t \in Seq(Threads) /\ Len(t) = Len(s) - 1
  /\ \A i \in 1 .. Len(s) - 1 : t[i] = IF i < k THEN s[i] ELSE s[i + 1]

EndsOfCut(s, k, after, before, first, last, first1, last1) ==
  /\ first1 = IF k = 1 THEN after ELSE first
  /\ last1 = IF k = Len(s) THEN before ELSE last

Bypassed(next, prev, next1, prev1, n) ==
  \A m \in Threads : m # n =>
    /\ next1[m] = IF m = prev[n] THEN next[n] ELSE next[m]
    /\ prev1[m] = IF m = next[n] THEN prev[n] ELSE prev[m]

(* pthipth_bq_delete of one of several nodes, the k-th.                    *)
LEMMA RingCut ==
  ASSUME NEW s \in Seq(Threads), Len(s) > 1, Distinct(s), NEW k \in 1 .. Len(s),
         NEW next, NEW prev, NEW first, NEW last, RingOK(next, prev, first, last, s),
         NEW t, NEW n, IsCut(s, k, n, t),
         NEW next1, NEW prev1, Bypassed(next, prev, next1, prev1, n),
         NEW first1, NEW last1, EndsOfCut(s, k, next[n], prev[n], first, last, first1, last1)
  PROVE  RingOK(next1, prev1, first1, last1, t)
<1> USE DEF IsCut, Bypassed, EndsOfCut
<1> DEFINE l == Len(s)
           after == IF k = l THEN 1 ELSE k + 1
           before == IF k = 1 THEN l ELSE k - 1
<1>1. /\ l \in Nat \ {0, 1} /\ first = s[1] /\ last = s[l]
      /\ next[n] = s[after] /\ prev[n] = s[before]
      /\ after \in 1 .. l /\ before \in 1 .. l /\ after # k /\ before # k
      /\ \A i \in 1 .. l : s[i] \in Threads
  BY DEF RingOK
<1>2. \A i, j \in 1 .. l : s[i] = s[j] => i = j
  BY DEF Distinct
<1>3. \A i \in 1 .. l : /\ next[s[i]] = IF i = l THEN s[1] ELSE s[i + 1]
                        /\ prev[s[i]] = IF i = 1 THEN s[l] ELSE s[i - 1]
  BY DEF RingOK
<1>4. \A i \in 1 .. l : i # k =>
        /\ next1[s[i]] = IF i = before THEN s[after] ELSE IF i = l THEN s[1] ELSE s[i + 1]
        /\ prev1[s[i]] = IF i = after THEN s[before] ELSE IF i = 1 THEN s[l] ELSE s[i - 1]
  <2> SUFFICES ASSUME NEW i \in 1 .. l, i # k
               PROVE  /\ next1[s[i]] = IF i = before THEN s[after] ELSE IF i = l THEN s[1] ELSE s[i + 1]
                      /\ prev1[s[i]] = IF i = after THEN s[before] ELSE IF i = 1 THEN s[l] ELSE s[i - 1]
    OBVIOUS
  <2>1. s[i] \in Threads /\ s[i] # n
    BY <1>1, <1>2
  <2>2. (s[i] = prev[n] <=> i = before) /\ (s[i] = next[n] <=> i = after)
    BY <1>1, <1>2
  <2> HIDE DEF after, before
  <2> QED BY SMTT(20), <1>1, <1>3, <2>1, <2>2
<1>8. t[1] = (IF k = 1 THEN s[2] ELSE s[1]) /\ t[l - 1] = (IF k = l THEN s[l - 1] ELSE s[l])
  <2>1. 1 \in 1 .. l - 1 /\ l - 1 \in 1 .. l - 1 /\ k \in 1 .. l
    BY <1>1
  <2>2. t[1] = IF 1 < k THEN s[1] ELSE s[1 + 1]
    BY <2>1
  <2>3. t[l - 1] = IF l - 1 < k THEN s[l - 1] ELSE s[(l - 1) + 1]
    BY <2>1
  <2>4. (k = l <=> l - 1 < k) /\ (k = 1 <=> ~(1 < k)) /\ 1 + 1 = 2 /\ (l - 1) + 1 = l
    BY <1>1
  <2> HIDE DEF l
  <2> QED BY <2>2, <2>3, <2>4
<1>5. ASSUME NEW i \in 1 .. l - 1
      PROVE  /\ next1[t[i]] = IF i = l - 1 THEN t[1] ELSE t[i + 1]
             /\ prev1[t[i]] = IF i = 1 THEN t[l - 1] ELSE t[i - 1]
  <2> DEFINE j == IF i < k THEN i ELSE i + 1
  <2>1. j \in 1 .. l /\ j # k /\ t[i] = s[j]
    BY <1>1
  <2>3. i # l - 1 => t[i + 1] = IF i + 1 < k THEN s[i + 1] ELSE s[i + 2]
    <3> SUFFICES ASSUME i # l - 1 PROVE t[i + 1] = IF i + 1 < k THEN s[i + 1] ELSE s[i + 2]
      OBVIOUS
    <3>1. i + 1 \in 1 .. l - 1 /\ (i + 1) + 1 = i + 2
      BY <1>1
    <3>2. t[i + 1] = IF i + 1 < k THEN s[i + 1] ELSE s[(i + 1) + 1]
      BY <3>1
    <3> QED BY <3>1, <3>2
  <2>4. i # 1 => t[i - 1] = IF i - 1 < k THEN s[i - 1] ELSE s[i]
    <3> SUFFICES ASSUME i # 1 PROVE t[i - 1] = IF i - 1 < k THEN s[i - 1] ELSE s[i]
      OBVIOUS
    <3>1. i - 1 \in 1 .. l - 1 /\ (i - 1) + 1 = i
      BY <1>1
    <3>2. t[i - 1] = IF i - 1 < k THEN s[i - 1] ELSE s[(i - 1) + 1]
      BY <3>1
    <3> QED BY <3>1, <3>2
  <2>5. next1[t[i]] = IF j = before THEN s[after] ELSE IF j = l THEN s[1] ELSE s[j + 1]
    BY <1>4, <2>1
  <2>6. prev1[t[i]] = IF j = after THEN s[before] ELSE IF j = 1 THEN s[l] ELSE s[j - 1]
    BY <1>4, <2>1
  <2>7. next1[t[i]] = IF i = l - 1 THEN t[1] ELSE t[i + 1]
    <3>1. CASE i = l - 1
      BY <1>1, <1>8, <2>5, <3>1
    <3>2. CASE i # l - 1
      BY <1>1, <2>3, <2>5, <3>2
    <3> QED BY <3>1, <3>2
  <2>8. prev1[t[i]] = IF i = 1 THEN t[l - 1] ELSE t[i - 1]
    <3>1. CASE i = 1
      BY <1>1, <1>8, <2>6, <3>1
    <3>2. CASE i # 1
      BY <1>1, <2>4, <2>6, <3>2
    <3> QED BY <3>1, <3>2
  <2> QED BY <2>7, <2>8
<1>6. t[1] = first1 /\ t[l - 1] = last1
  <2>1. k = 1 => after = 2
    BY <1>1
  <2>2. k = l => before = l - 1
    BY <1>1
  <2> HIDE DEF l, after, before
  <2> QED BY <1>1, <1>8, <2>1, <2>2 DEF l
<1>7. t # <<>> /\ Len(t) = l - 1
  BY <1>1
<1> HIDE DEF l
<1> QED BY <1>5, <1>6, <1>7 DEF RingOK, l

(* pthipth_bq_rotate                                                       *)
LEMMA RingTurn ==
  ASSUME NEW s \in Seq(Threads), s # <<>>,
         NEW next, NEW prev, NEW first, NEW last, RingOK(next, prev, first, last, s),
         NEW t \in Seq(Threads), Len(t) = Len(s),
         \A i \in 1 .. Len(s) : t[i] = IF i = Len(s) THEN s[1] ELSE s[i + 1]
  PROVE  RingOK(next, prev, next[first], first, t)
<1>1. Len(s) \in Nat \ {0} /\ t # <<>> /\ first = s[1]
  BY DEF RingOK
<1>2. next[first] = t[1] /\ first = t[Len(t)]
  <2>1. next[s[1]] = IF 1 = Len(s) THEN s[1] ELSE s[1 + 1]
    BY <1>1 DEF RingOK
  <2> QED BY <1>1, <2>1
<1>3. ASSUME NEW i \in 1 .. Len(t)
      PROVE  /\ next[t[i]] = IF i = Len(t) THEN t[1] ELSE t[i + 1]
             /\ prev[t[i]] = IF i = 1 THEN t[Len(t)] ELSE t[i - 1]
  <2> DEFINE j == IF i = Len(s) THEN 1 ELSE i + 1
  <2>1. j \in 1 .. Len(s) /\ t[i] = s[j]
    BY <1>1
  <2>2. /\ next[s[j]] = IF j = Len(s) THEN s[1] ELSE s[j + 1]
        /\ prev[s[j]] = IF j = 1 THEN s[Len(s)] ELSE s[j - 1]
    BY <2>1 DEF RingOK
  <2>3. next[t[i]] = IF i = Len(t) THEN t[1] ELSE t[i + 1]
    BY <1>1, <2>1, <2>2
  <2>4. prev[t[i]] = IF i = 1 THEN t[Len(t)] ELSE t[i - 1]
    BY <1>1, <2>1, <2>2
  <2> QED BY <2>3, <2>4
<1> QED BY <1>1, <1>2, <1>3 DEF RingOK


-----------------------------------------------------------------------------
(* What Good says of the buckets, node by node.                            *)
LEMMA GoodIs ==
  ASSUME NEW q, V!Good(q)
  PROVE  /\ q = [bucket |-> q.bucket, bits |-> q.bits]
         /\ q.bucket \in [Priorities -> Seq(Threads)] /\ q.bits \in SUBSET Priorities
         /\ \A p \in Priorities : Distinct(q.bucket[p])
         /\ \A p1, p2 \in Priorities : \A n : On(q.bucket[p1], n) /\ On(q.bucket[p2], n) => p1 = p2
         /\ \A n : V!Queued(q, n) <=> \E p \in Priorities : On(q.bucket[p], n)
         /\ \A n : \A p \in Priorities : On(q.bucket[p], n) => V!Level(q, n) = p
         /\ q.bucket[IdlePriority] = <<IdleThread>>
         /\ V!Top(q) \in q.bits /\ q.bucket[V!Top(q)] # <<>>
<1>1. /\ q = [bucket |-> q.bucket, bits |-> q.bits]
      /\ q.bucket \in [Priorities -> Seq(Threads)] /\ q.bits \in SUBSET Priorities
      /\ q.bucket[IdlePriority] = <<IdleThread>>
  BY DEF V!Good, V!Priorities, Priorities
<1>2. \A p \in Priorities : q.bucket[p] \in Seq(Threads) /\ DOMAIN q.bucket[p] = 1 .. Len(q.bucket[p])
  BY <1>1
<1>3. \A p1, p2 \in Priorities : \A i \in 1 .. Len(q.bucket[p1]), j \in 1 .. Len(q.bucket[p2]) :
        q.bucket[p1][i] = q.bucket[p2][j] => p1 = p2 /\ i = j
  BY <1>1, <1>2 DEF V!Good, V!NoDuplicates
<1>4. \A n : \A p \in Priorities : V!Contains(q.bucket[p], n) <=> On(q.bucket[p], n)
  BY <1>2 DEF V!Contains, On
<1>5. \A n : V!Queued(q, n) <=> \E p \in Priorities : On(q.bucket[p], n)
  BY <1>1, <1>4 DEF V!Queued
<1>6. \A p1, p2 \in Priorities : \A n : On(q.bucket[p1], n) /\ On(q.bucket[p2], n) => p1 = p2
  BY <1>3 DEF On
<1>7. \A n : \A p \in Priorities : On(q.bucket[p], n) => V!Level(q, n) = p
  BY <1>1, <1>4, <1>6 DEF V!Level
<1>8. V!Top(q) \in q.bits /\ q.bucket[V!Top(q)] # <<>>
  BY V!TopGood, BucketAssumption
<1> QED BY <1>1, <1>3, <1>5, <1>6, <1>7, <1>8 DEF Distinct

(* The structure r has the queue q in its pointers: every bucket is a      *)
(* ring, the bits are those of q, pthipth_bq_head is the first node of the *)
(* highest bucket, and a node that is not queued has next NULL.            *)
Rep(r, q) ==
  /\ V!Good(q)
  /\ r = [next |-> r.next, prev |-> r.prev, prio |-> r.prio, curp |-> r.curp,
          table |-> r.table, tail |-> r.tail, bitmap |-> r.bitmap, head |-> r.head]
  /\ r.next \in [Threads -> Pointers] /\ r.prev \in [Threads -> Pointers]
  /\ r.prio \in [Threads -> Priorities] /\ r.curp \in [Threads -> Priorities \cup {-1}]
  /\ r.table \in [Priorities -> Pointers] /\ r.tail \in [Priorities -> Pointers]
  /\ r.bitmap = q.bits
  /\ r.head = r.table[V!Top(q)]
  /\ \A p \in Priorities : RingOK(r.next, r.prev, r.table[p], r.tail[p], q.bucket[p])
  /\ \A p \in Priorities : \A n \in Threads : On(q.bucket[p], n) => r.curp[n] = p
  /\ \A n \in Threads : r.next[n] # NoNode => \E p \in Priorities : On(q.bucket[p], n)

(* The first and the last node of a bucket are on it.                      *)
LEMMA EndsAreOn ==
  ASSUME NEW s \in Seq(Threads), NEW next, NEW prev, NEW first, NEW last,
         RingOK(next, prev, first, last, s)
  PROVE  /\ s = <<>> <=> first = NoNode
         /\ s # <<>> => first \in Threads /\ last \in Threads /\ On(s, first) /\ On(s, last)
<1>1. CASE s = <<>>
  BY <1>1 DEF RingOK
<1>2. CASE s # <<>>
  <2>1. 1 \in 1 .. Len(s) /\ Len(s) \in 1 .. Len(s)
    BY <1>2
  <2>2. s[1] \in Threads /\ s[Len(s)] \in Threads
    BY <2>1
  <2>3. first = s[1] /\ last = s[Len(s)]
    BY <1>2 DEF RingOK
  <2> QED BY <1>2, <2>1, <2>2, <2>3, PointerAssumption DEF On
<1> QED BY <1>1, <1>2

(* The end of a list with a node appended.                                 *)
LEMMA OnAppend ==
  ASSUME NEW s \in Seq(Threads), NEW n \in Threads
  PROVE  \A m : On(Append(s, n), m) <=> On(s, m) \/ m = n
<1> DEFINE t == Append(s, n)
<1>1. /\ Len(s) \in Nat /\ Len(t) = Len(s) + 1
      /\ \A i \in 1 .. Len(t) : t[i] = IF i = Len(s) + 1 THEN n ELSE s[i]
  OBVIOUS
<1> HIDE DEF t
<1>2. \A m : On(t, m) => On(s, m) \/ m = n
  BY <1>1 DEF On
<1>3. \A m : On(s, m) => On(t, m)
  BY <1>1 DEF On
<1>4. On(t, n)
  BY <1>1 DEF On
<1> QED BY <1>2, <1>3, <1>4 DEF t

(* The structure r1 differs from r, which has the queue q, in bucket p and  *)
(* in nodes on no other bucket.                                            *)
Refiled(r, q, r1, q1, p) ==
  /\ Rep(r, q) /\ V!Good(q1) /\ p \in Priorities
  /\ r1 = [next |-> r1.next, prev |-> r1.prev, prio |-> r1.prio, curp |-> r1.curp,
           table |-> r1.table, tail |-> r1.tail, bitmap |-> r1.bitmap, head |-> r1.head]
  /\ r1.next \in [Threads -> Pointers] /\ r1.prev \in [Threads -> Pointers]
  /\ r1.prio \in [Threads -> Priorities] /\ r1.curp \in [Threads -> Priorities \cup {-1}]
  /\ \E first, last \in Pointers :
       /\ r1.table = [r.table EXCEPT ![p] = first] /\ r1.tail = [r.tail EXCEPT ![p] = last]
       /\ RingOK(r1.next, r1.prev, first, last, q1.bucket[p])
  /\ r1.bitmap = q1.bits /\ r1.head = r1.table[V!Top(q1)]
  /\ \A x \in Priorities : x # p =>
       /\ q1.bucket[x] = q.bucket[x]
       /\ \A m \in Threads : On(q.bucket[x], m) =>
            r1.next[m] = r.next[m] /\ r1.prev[m] = r.prev[m] /\ r1.curp[m] = r.curp[m]
  /\ \A m \in Threads : On(q1.bucket[p], m) => r1.curp[m] = p
  /\ \A m \in Threads : r1.next[m] # NoNode =>
       On(q1.bucket[p], m) \/ \E x \in Priorities : x # p /\ On(q.bucket[x], m)

(* Such a structure has the queue q1: nothing else changed.                *)
LEMMA OneBucket ==
  ASSUME NEW r, NEW q, NEW r1, NEW q1, NEW p, Refiled(r, q, r1, q1, p)
  PROVE  Rep(r1, q1)
<1>0. PICK first, last \in Pointers :
       /\ r1.table = [r.table EXCEPT ![p] = first] /\ r1.tail = [r.tail EXCEPT ![p] = last]
       /\ RingOK(r1.next, r1.prev, first, last, q1.bucket[p])
  BY DEF Refiled
<1>1. /\ r.table \in [Priorities -> Pointers] /\ r.tail \in [Priorities -> Pointers]
      /\ \A x \in Priorities : RingOK(r.next, r.prev, r.table[x], r.tail[x], q.bucket[x])
      /\ \A x \in Priorities : \A m \in Threads : On(q.bucket[x], m) => r.curp[m] = x
      /\ \A x \in Priorities : q.bucket[x] \in Seq(Threads)
  <2>1. V!Good(q)
    BY DEF Refiled, Rep
  <2>2. q.bucket \in [Priorities -> Seq(Threads)]
    BY <2>1, GoodIs
  <2> QED BY <2>2 DEF Refiled, Rep
<1>2. /\ r1.table \in [Priorities -> Pointers] /\ r1.tail \in [Priorities -> Pointers]
      /\ r1.table[p] = first /\ r1.tail[p] = last
      /\ \A x \in Priorities : x # p => r1.table[x] = r.table[x] /\ r1.tail[x] = r.tail[x]
  BY <1>0, <1>1 DEF Refiled
<1>3. ASSUME NEW x \in Priorities
      PROVE  RingOK(r1.next, r1.prev, r1.table[x], r1.tail[x], q1.bucket[x])
  <2>1. CASE x = p
    BY <1>0, <1>2, <2>1
  <2>2. CASE x # p
    <3>1. RingOK(r1.next, r1.prev, r.table[x], r.tail[x], q.bucket[x])
      BY <1>1, <2>2, RingFrame DEF Refiled
    <3> QED BY <1>2, <2>2, <3>1 DEF Refiled
  <2> QED BY <2>1, <2>2
<1>4. \A x \in Priorities : \A m \in Threads : On(q1.bucket[x], m) => r1.curp[m] = x
  BY <1>1 DEF Refiled
<1>5. \A m \in Threads : r1.next[m] # NoNode => \E x \in Priorities : On(q1.bucket[x], m)
  BY DEF Refiled
<1> QED BY <1>2, <1>3, <1>4, <1>5 DEF Refiled, Rep

(* pthipth_bq_insert                                                       *)
LEMMA InsertRep ==
  ASSUME NEW r, NEW q, Rep(r, q), NEW n \in Threads, ~V!Queued(q, n), r.prio[n] # IdlePriority,
         \A m \in Threads : V!Queued(q, m) => r.prio[m] = r.curp[m]
  PROVE  /\ Rep(BqInsert(r, n), V!BqInsert(q, n, r.prio[n]))
         /\ BqInsert(r, n).prio = r.prio
         /\ BqInsert(r, n).curp = [r.curp EXCEPT ![n] = r.prio[n]]
<1> DEFINE p  == r.prio[n]
           s  == q.bucket[p]
           q1 == V!BqInsert(q, n, p)
           r1 == BqInsert(r, n)
           curp == [r.curp EXCEPT ![n] = p]
<1>1. /\ r.next \in [Threads -> Pointers] /\ r.prev \in [Threads -> Pointers]
      /\ r.prio \in [Threads -> Priorities] /\ r.curp \in [Threads -> Priorities \cup {-1}]
      /\ r.table \in [Priorities -> Pointers] /\ r.tail \in [Priorities -> Pointers]
      /\ r.bitmap = q.bits /\ r.head = r.table[V!Top(q)] /\ p \in Priorities
      /\ r = [next |-> r.next, prev |-> r.prev, prio |-> r.prio, curp |-> r.curp,
              table |-> r.table, tail |-> r.tail, bitmap |-> r.bitmap, head |-> r.head]
      /\ V!Good(q)
  BY DEF Rep
<1>2. V!Good(q1)
  BY <1>1, V!InsertGood, BucketAssumption DEF V!Priorities, Priorities
<1>3. /\ s \in Seq(Threads) /\ Distinct(s) /\ ~On(s, n)
      /\ \A x \in Priorities : q.bucket[x] \in Seq(Threads) /\ ~On(q.bucket[x], n)
      /\ \A x \in Priorities : \A m : On(q.bucket[x], m) /\ On(s, m) => x = p
      /\ V!Top(q) \in Priorities /\ q.bucket[V!Top(q)] # <<>>
  BY <1>1, GoodIs
<1>4. /\ q1.bucket[p] = Append(s, n)
      /\ \A x \in Priorities : x # p => q1.bucket[x] = q.bucket[x]
      /\ q1.bits = IF s = <<>> THEN q.bits \cup {p} ELSE q.bits
  BY <1>1, GoodIs DEF V!BqInsert
<1>5. RingOK(r.next, r.prev, r.table[p], r.tail[p], s)
  BY <1>1 DEF Rep
<1>6. \A m \in Threads : r.next[m] # NoNode => \E x \in Priorities : On(q.bucket[x], m)
  BY DEF Rep
<1>7. \A x \in Priorities : \A m \in Threads : On(q.bucket[x], m) => r.curp[m] = x
  BY DEF Rep
<1>8. \A m \in Threads : curp[m] = IF m = n THEN p ELSE r.curp[m]
  BY <1>1
<1>9. \A m : On(Append(s, n), m) <=> On(s, m) \/ m = n
  BY <1>3, OnAppend
<1>10. curp \in [Threads -> Priorities \cup {-1}]
  BY <1>1
<1>11. CASE s = <<>>
  <2> DEFINE next == [r.next EXCEPT ![n] = n]
             prev == [r.prev EXCEPT ![n] = n]
             head == IF r.head = NoNode \/ p < r.prio[r.head] THEN n ELSE r.head
             bits == q.bits \cup {p}
             table == [r.table EXCEPT ![p] = n]
             tail == [r.tail EXCEPT ![p] = n]
  <2>1. r.table[p] = NoNode
    BY <1>5, <1>11 DEF RingOK
  <2>2. r1 = [next |-> next, prev |-> prev, prio |-> r.prio, curp |-> curp,
              table |-> table, tail |-> tail, bitmap |-> bits, head |-> head]
    BY <1>1, <2>1 DEF BqInsert, InsertFirst
  <2>3. head = table[V!Top(q1)]
    <3> DEFINE top == V!Top(q)
    <3>1. top \in q.bits /\ \A y \in q.bits : top <= y
      BY <1>1, V!TopGood, BucketAssumption
    <3>2. q.bits \in SUBSET Nat /\ p \in Nat /\ top \in Nat
      BY <1>1, <3>1, GoodIs, BucketAssumption DEF Priorities
    <3>3. V!Top(q1) \in bits /\ \A y \in bits : V!Top(q1) <= y
      BY <1>2, <1>4, <1>11, V!TopGood, BucketAssumption
    <3>4. V!Top(q1) = IF p < top THEN p ELSE top
      BY <3>1, <3>2, <3>3
    <3>5. r.head \in Threads /\ r.prio[r.head] = top
      <4>1. r.head \in Threads /\ On(q.bucket[top], r.head)
        BY <1>1, <1>3, EndsAreOn DEF Rep
      <4>2. V!Queued(q, r.head)
        BY <1>1, <1>3, <4>1, GoodIs
      <4> QED BY <1>3, <1>7, <4>1, <4>2
    <3>6. top # p
      BY <1>3, <1>11
    <3>7. table[p] = n /\ table[top] = r.table[top]
      BY <1>1, <1>3, <3>6
    <3> QED BY <1>1, <3>2, <3>4, <3>5, <3>7, PointerAssumption
  <2>4. RingOK(next, prev, n, n, Append(s, n))
    <3>1. Append(s, n) = <<n>>
      BY <1>11
    <3> QED BY <1>1, <3>1, RingOne
  <2>5. \A m \in Threads : m # n => next[m] = r.next[m] /\ prev[m] = r.prev[m]
    BY <1>1
  <2>6. next \in [Threads -> Pointers] /\ prev \in [Threads -> Pointers] /\ n \in Pointers
    BY <1>1 DEF Pointers
  <2> HIDE DEF next, prev, head, table, tail, q1, r1, s, p, curp
  <2>7. /\ r1.next = next /\ r1.prev = prev /\ r1.prio = r.prio /\ r1.curp = curp
        /\ r1.table = table /\ r1.tail = tail /\ r1.bitmap = bits /\ r1.head = head
    BY <2>2
  <2>8. \A m \in Threads : next[m] # NoNode =>
           On(q1.bucket[p], m) \/ \E x \in Priorities : x # p /\ On(q.bucket[x], m)
    BY <1>4, <1>6, <1>9, <2>5 DEF s
  <2>9. \A x \in Priorities : x # p =>
           /\ q1.bucket[x] = q.bucket[x]
           /\ \A m \in Threads : On(q.bucket[x], m) =>
                next[m] = r.next[m] /\ prev[m] = r.prev[m] /\ curp[m] = r.curp[m]
    BY <1>3, <1>4, <1>8, <2>5
  <2>10. \A m \in Threads : On(q1.bucket[p], m) => curp[m] = p
    BY <1>1, <1>4, <1>7, <1>8, <1>9 DEF s
  <2>11. Rep(r1, q1)
    <3>1. r1 = [next |-> r1.next, prev |-> r1.prev, prio |-> r1.prio, curp |-> r1.curp,
                table |-> r1.table, tail |-> r1.tail, bitmap |-> r1.bitmap, head |-> r1.head]
      BY <2>2
    <3>2. /\ r1.next \in [Threads -> Pointers] /\ r1.prev \in [Threads -> Pointers]
          /\ r1.prio \in [Threads -> Priorities] /\ r1.curp \in [Threads -> Priorities \cup {-1}]
          /\ p \in Priorities /\ n \in Pointers
      BY <1>1, <1>10, <2>6, <2>7 DEF p
    <3>3. /\ r1.table = [r.table EXCEPT ![p] = n] /\ r1.tail = [r.tail EXCEPT ![p] = n]
          /\ r1.bitmap = q1.bits /\ r1.head = r1.table[V!Top(q1)]
          /\ RingOK(r1.next, r1.prev, n, n, q1.bucket[p])
      BY <1>4, <1>11, <2>3, <2>4, <2>7 DEF table, tail
    <3>4. \A x \in Priorities : x # p =>
            /\ q1.bucket[x] = q.bucket[x]
            /\ \A m \in Threads : On(q.bucket[x], m) =>
                 r1.next[m] = r.next[m] /\ r1.prev[m] = r.prev[m] /\ r1.curp[m] = r.curp[m]
      BY <2>7, <2>9
    <3>5. /\ \A m \in Threads : On(q1.bucket[p], m) => r1.curp[m] = p
          /\ \A m \in Threads : r1.next[m] # NoNode =>
               On(q1.bucket[p], m) \/ \E x \in Priorities : x # p /\ On(q.bucket[x], m)
      BY <2>7, <2>8, <2>10
    <3>6. \E first1, last1 \in Pointers :
            /\ r1.table = [r.table EXCEPT ![p] = first1] /\ r1.tail = [r.tail EXCEPT ![p] = last1]
            /\ RingOK(r1.next, r1.prev, first1, last1, q1.bucket[p])
      BY <3>2, <3>3
    <3>7. Refiled(r, q, r1, q1, p)
      BY <1>2, <3>1, <3>2, <3>3, <3>4, <3>5, <3>6 DEF Refiled
    <3> QED BY <3>7, OneBucket
  <2> QED BY <2>7, <2>11 DEF r1, q1, p, curp
<1>12. CASE s # <<>>
  <2> DEFINE first == r.table[p]
             last == r.tail[p]
             next == [r.next EXCEPT ![n] = first, ![last] = n]
             prev == [[r.prev EXCEPT ![first] = n] EXCEPT ![n] = last]
             tail == [r.tail EXCEPT ![p] = n]
  <2>1. first # NoNode /\ first \in Threads /\ last \in Threads /\ On(s, first) /\ On(s, last)
    BY <1>3, <1>5, <1>12, EndsAreOn
  <2>2. r1 = [next |-> next, prev |-> prev, prio |-> r.prio, curp |-> curp,
              table |-> r.table, tail |-> tail, bitmap |-> q.bits, head |-> r.head]
    BY <1>1, <2>1 DEF BqInsert, InsertLast
  <2>3. q1.bits = q.bits /\ r.head = r.table[V!Top(q1)]
    BY <1>1, <1>4, <1>12 DEF V!Top
  <2>4. RingOK(next, prev, first, n, Append(s, n))
    BY <1>1, <1>3, <1>5, <1>12, RingAppend
  <2>5. \A m \in Threads : m # n /\ ~On(s, m) => next[m] = r.next[m] /\ prev[m] = r.prev[m]
    BY <1>1, <2>1
  <2>6. next \in [Threads -> Pointers] /\ prev \in [Threads -> Pointers] /\ n \in Pointers
    BY <1>1, <2>1 DEF Pointers
  <2>12. r.table = [r.table EXCEPT ![p] = first]
    BY <1>1
  <2> HIDE DEF next, prev, tail, q1, r1, s, p, curp
  <2>7. /\ r1.next = next /\ r1.prev = prev /\ r1.prio = r.prio /\ r1.curp = curp
        /\ r1.table = r.table /\ r1.tail = tail /\ r1.bitmap = q.bits /\ r1.head = r.head
    BY <2>2
  <2>8. \A m \in Threads : next[m] # NoNode =>
           On(q1.bucket[p], m) \/ \E x \in Priorities : x # p /\ On(q.bucket[x], m)
    BY <1>4, <1>6, <1>9, <2>5 DEF s
  <2>9. \A x \in Priorities : x # p =>
           /\ q1.bucket[x] = q.bucket[x]
           /\ \A m \in Threads : On(q.bucket[x], m) =>
                next[m] = r.next[m] /\ prev[m] = r.prev[m] /\ curp[m] = r.curp[m]
    BY <1>3, <1>4, <1>8, <2>5
  <2>10. \A m \in Threads : On(q1.bucket[p], m) => curp[m] = p
    BY <1>1, <1>4, <1>7, <1>8, <1>9 DEF s
  <2>13. first \in Pointers
    BY <2>1 DEF Pointers
  <2> HIDE DEF first
  <2>11. Rep(r1, q1)
    <3>1. r1 = [next |-> r1.next, prev |-> r1.prev, prio |-> r1.prio, curp |-> r1.curp,
                table |-> r1.table, tail |-> r1.tail, bitmap |-> r1.bitmap, head |-> r1.head]
      BY <2>2
    <3>2. /\ r1.next \in [Threads -> Pointers] /\ r1.prev \in [Threads -> Pointers]
          /\ r1.prio \in [Threads -> Priorities] /\ r1.curp \in [Threads -> Priorities \cup {-1}]
          /\ p \in Priorities /\ n \in Pointers /\ first \in Pointers
      BY <1>1, <1>10, <2>6, <2>7, <2>13 DEF p
    <3>3. /\ r1.table = [r.table EXCEPT ![p] = first] /\ r1.tail = [r.tail EXCEPT ![p] = n]
          /\ r1.bitmap = q1.bits /\ r1.head = r1.table[V!Top(q1)]
          /\ RingOK(r1.next, r1.prev, first, n, q1.bucket[p])
      BY <1>4, <2>3, <2>4, <2>7, <2>12 DEF tail
    <3>4. \A x \in Priorities : x # p =>
            /\ q1.bucket[x] = q.bucket[x]
            /\ \A m \in Threads : On(q.bucket[x], m) =>
                 r1.next[m] = r.next[m] /\ r1.prev[m] = r.prev[m] /\ r1.curp[m] = r.curp[m]
      BY <2>7, <2>9
    <3>5. /\ \A m \in Threads : On(q1.bucket[p], m) => r1.curp[m] = p
          /\ \A m \in Threads : r1.next[m] # NoNode =>
               On(q1.bucket[p], m) \/ \E x \in Priorities : x # p /\ On(q.bucket[x], m)
      BY <2>7, <2>8, <2>10
    <3>6. \E first1, last1 \in Pointers :
            /\ r1.table = [r.table EXCEPT ![p] = first1] /\ r1.tail = [r.tail EXCEPT ![p] = last1]
            /\ RingOK(r1.next, r1.prev, first1, last1, q1.bucket[p])
      BY <3>2, <3>3
    <3>7. Refiled(r, q, r1, q1, p)
      BY <1>2, <3>1, <3>2, <3>3, <3>4, <3>5, <3>6 DEF Refiled
    <3> QED BY <3>7, OneBucket
  <2> QED BY <2>7, <2>11 DEF r1, q1, p, curp
<1> QED BY <1>11, <1>12

-----------------------------------------------------------------------------
(* A list with a node taken out.                                           *)
LEMMA OnWithout ==
  ASSUME NEW s \in Seq(Threads), Distinct(s), NEW n \in Threads, On(s, n)
  PROVE  /\ V!Without(s, n) \in Seq(Threads) /\ Distinct(V!Without(s, n))
         /\ \A m : On(V!Without(s, n), m) <=> On(s, m) /\ m # n
         /\ \E k \in 1 .. Len(s) :
              /\ s[k] = n /\ Len(V!Without(s, n)) = Len(s) - 1
              /\ \A i \in 1 .. Len(s) - 1 :
                   V!Without(s, n)[i] = IF i < k THEN s[i] ELSE s[i + 1]
<1> DEFINE t == V!Without(s, n)
<1>1. V!Contains(s, n)
  BY DEF V!Contains, On
<1>2. t \in Seq(Threads)
      /\ \E k \in 1 .. Len(s) :
           /\ s[k] = n /\ Len(t) = Len(s) - 1
           /\ \A i \in 1 .. Len(s) - 1 : t[i] = IF i < k THEN s[i] ELSE s[i + 1]
  BY SMTT(20), <1>1, V!WithoutIs, BucketAssumption
<1>3. V!Once(s)
  BY DEF V!Once, Distinct
<1>4. V!Once(t) /\ \A m : V!Contains(t, m) <=> V!Contains(s, m) /\ m # n
  BY <1>3, V!TakenOff, BucketAssumption
<1> HIDE DEF t
<1>5. Distinct(t)
  BY <1>2, <1>4 DEF V!Once, Distinct
<1>6. \A m : (V!Contains(t, m) <=> On(t, m)) /\ (V!Contains(s, m) <=> On(s, m))
  BY <1>2 DEF V!Contains, On
<1> QED BY <1>2, <1>4, <1>5, <1>6 DEF t

(* The neighbours of a node in a ring are in it.                           *)
LEMMA Neighbours ==
  ASSUME NEW s \in Seq(Threads), Distinct(s), NEW n, On(s, n),
         NEW next, NEW prev, NEW first, NEW last, RingOK(next, prev, first, last, s)
  PROVE  /\ next[n] \in Threads /\ prev[n] \in Threads /\ On(s, next[n]) /\ On(s, prev[n])
         /\ next[n] = n <=> Len(s) = 1
<1>1. PICK k \in 1 .. Len(s) : s[k] = n
  BY DEF On
<1> DEFINE after == IF k = Len(s) THEN 1 ELSE k + 1
           before == IF k = 1 THEN Len(s) ELSE k - 1
<1>2. after \in 1 .. Len(s) /\ before \in 1 .. Len(s) /\ (after = k <=> Len(s) = 1)
  <2>1. Len(s) \in Nat /\ k \in Nat /\ 1 <= k /\ k <= Len(s)
    OBVIOUS
  <2> DEFINE l == Len(s)
  <2>2. l \in Nat /\ k \in Nat /\ 1 <= k /\ k <= l
    BY <2>1
  <2> HIDE DEF l
  <2>3. (IF k = l THEN 1 ELSE k + 1) \in 1 .. l /\ (IF k = 1 THEN l ELSE k - 1) \in 1 .. l
    BY <2>2
  <2>4. (IF k = l THEN 1 ELSE k + 1) = k <=> l = 1
    BY <2>2
  <2> QED BY <2>3, <2>4 DEF l
<1>3. next[n] = s[after] /\ prev[n] = s[before]
  BY <1>1 DEF RingOK
<1>4. s[after] \in Threads /\ s[before] \in Threads
  BY <1>2
<1>5. s[after] = s[k] <=> after = k
  BY <1>2 DEF Distinct
<1> QED BY <1>1, <1>2, <1>3, <1>4, <1>5 DEF On

(* pthipth_bq_delete                                                       *)
LEMMA DeleteRep ==
  ASSUME NEW r, NEW q, Rep(r, q), NEW n \in Threads \ {IdleThread}, V!Queued(q, n)
  PROVE  /\ Rep(BqDelete(r, n), V!BqDelete(q, n))
         /\ BqDelete(r, n).prio = r.prio
         /\ BqDelete(r, n).curp = [r.curp EXCEPT ![n] = -1]
<1> DEFINE p  == r.curp[n]
           s  == q.bucket[p]
           t  == V!Without(s, n)
           q1 == V!BqDelete(q, n)
           r1 == BqDelete(r, n)
           curp == [r.curp EXCEPT ![n] = -1]
<1>1. /\ r.next \in [Threads -> Pointers] /\ r.prev \in [Threads -> Pointers]
      /\ r.prio \in [Threads -> Priorities] /\ r.curp \in [Threads -> Priorities \cup {-1}]
      /\ r.table \in [Priorities -> Pointers] /\ r.tail \in [Priorities -> Pointers]
      /\ r.bitmap = q.bits /\ r.head = r.table[V!Top(q)]
      /\ r = [next |-> r.next, prev |-> r.prev, prio |-> r.prio, curp |-> r.curp,
              table |-> r.table, tail |-> r.tail, bitmap |-> r.bitmap, head |-> r.head]
      /\ V!Good(q)
      /\ \A x \in Priorities : RingOK(r.next, r.prev, r.table[x], r.tail[x], q.bucket[x])
      /\ \A x \in Priorities : \A m \in Threads : On(q.bucket[x], m) => r.curp[m] = x
      /\ \A m \in Threads : r.next[m] # NoNode => \E x \in Priorities : On(q.bucket[x], m)
  BY DEF Rep
<1>2. V!Good(q1)
  BY <1>1, V!DeleteGood, BucketAssumption
<1>3. /\ p \in Priorities /\ s \in Seq(Threads) /\ Distinct(s) /\ On(s, n) /\ V!Level(q, n) = p
      /\ \A x \in Priorities : q.bucket[x] \in Seq(Threads)
      /\ \A x \in Priorities : \A m : On(q.bucket[x], m) /\ On(s, m) => x = p
      /\ V!Top(q) \in Priorities /\ q.bucket[V!Top(q)] # <<>>
  <2>1. PICK x \in Priorities : On(q.bucket[x], n)
    BY <1>1, GoodIs
  <2>2. p = x
    BY <1>1, <2>1
  <2> HIDE DEF p
  <2> QED BY ZenonT(30), <1>1, <2>1, <2>2, GoodIs
<1>4. /\ q1.bucket[p] = t
      /\ \A x \in Priorities : x # p => q1.bucket[x] = q.bucket[x]
      /\ q1.bits = IF Head(s) = n THEN q.bits \ {p} ELSE q.bits
  BY <1>1, <1>3, GoodIs DEF V!BqDelete
<1>5. RingOK(r.next, r.prev, r.table[p], r.tail[p], s)
  BY <1>1, <1>3
<1>6. /\ t \in Seq(Threads) /\ (\A m : On(t, m) <=> On(s, m) /\ m # n)
      /\ \E k \in 1 .. Len(s) :
           /\ s[k] = n /\ Len(t) = Len(s) - 1
           /\ \A i \in 1 .. Len(s) - 1 : t[i] = IF i < k THEN s[i] ELSE s[i + 1]
  BY <1>3, OnWithout
<1>7. PICK k \in 1 .. Len(s) :
        /\ s[k] = n /\ Len(t) = Len(s) - 1
        /\ \A i \in 1 .. Len(s) - 1 : t[i] = IF i < k THEN s[i] ELSE s[i + 1]
  BY <1>6
<1>8. /\ r.next[n] \in Threads /\ r.prev[n] \in Threads
      /\ On(s, r.next[n]) /\ On(s, r.prev[n]) /\ (r.next[n] = n <=> Len(s) = 1)
  BY <1>3, <1>5, Neighbours
<1>9. /\ s # <<>> /\ Len(s) \in Nat \ {0} /\ r.table[p] = s[1] /\ r.tail[p] = s[Len(s)] /\ Head(s) = s[1]
      /\ (s[1] = n <=> k = 1) /\ (s[Len(s)] = n <=> k = Len(s))
  <2> HIDE DEF s, t, p
  <2>1. s # <<>> /\ Len(s) \in Nat \ {0} /\ Head(s) = s[1] /\ 1 \in 1 .. Len(s) /\ Len(s) \in 1 .. Len(s)
    BY <1>3, <1>7
  <2>2. r.table[p] = s[1] /\ r.tail[p] = s[Len(s)]
    BY <1>5, <2>1 DEF RingOK
  <2>3. (s[1] = n <=> k = 1) /\ (s[Len(s)] = n <=> k = Len(s))
    BY <1>3, <1>7, <2>1 DEF Distinct
  <2> QED BY <2>1, <2>2, <2>3
<1>10. \A m \in Threads : curp[m] = IF m = n THEN -1 ELSE r.curp[m]
  BY <1>1
<1> HIDE DEF s, t, q1
<1> DEFINE next == [[r.next EXCEPT ![r.prev[n]] = r.next[n]] EXCEPT ![n] = NoNode]
           prev == [[r.prev EXCEPT ![r.next[n]] = r.prev[n]] EXCEPT ![n] = NoNode]
           first == IF k = 1 THEN IF Len(s) = 1 THEN NoNode ELSE r.next[n] ELSE r.table[p]
           last == IF Len(s) = 1 THEN NoNode ELSE IF k = Len(s) THEN r.prev[n] ELSE r.tail[p]
           table == [r.table EXCEPT ![p] = first]
           tail == [r.tail EXCEPT ![p] = last]
           bits == IF k = 1 THEN q.bits \ {p} ELSE q.bits
           head == IF k = 1 THEN table[Ctz(bits)] ELSE r.head
<1>11. r1 = [next |-> next, prev |-> prev, prio |-> r.prio, curp |-> curp,
             table |-> table, tail |-> tail, bitmap |-> bits, head |-> head]
  <2> DEFINE u == Unlink(r, n)
             next2 == [r.next EXCEPT ![r.prev[n]] = r.next[n]]
             prev2 == [r.prev EXCEPT ![r.next[n]] = r.prev[n]]
  <2>1. u = [next |-> next2, prev |-> prev2, prio |-> r.prio, curp |-> r.curp,
             table |-> r.table, tail |-> r.tail, bitmap |-> r.bitmap, head |-> r.head]
    <3> DEFINE v == [r EXCEPT !.prev[r.next[n]] = r.prev[n]]
    <3>1. v = [next |-> r.next, prev |-> prev2, prio |-> r.prio, curp |-> r.curp,
               table |-> r.table, tail |-> r.tail, bitmap |-> r.bitmap, head |-> r.head]
      BY <1>1
    <3>2. prev2[n] = r.prev[n]
      BY <1>1, <1>8
    <3>3. u = [v EXCEPT !.next[v.prev[n]] = v.next[n]]
      BY DEF Unlink
    <3> HIDE DEF v, u, prev2
    <3> QED BY <3>1, <3>2, <3>3
  <2>2. next2[n] = r.next[n] /\ prev2[n] = r.prev[n]
    BY <1>1, <1>8
  <2>3. ~(r.curp[n] = -1 \/ r.head = NoNode)
    <3>1. p # -1
      BY <1>3, BucketAssumption DEF Priorities
    <3>2. r.head # NoNode
      BY <1>1, <1>3, EndsAreOn
    <3> QED BY <3>1, <3>2
  <2> DEFINE u2 == IF n = u.table[p] THEN DropFirst(u, n, p) ELSE DropOther(u, n, p)
  <2>4. r1 = [u2 EXCEPT !.next[n] = NoNode, !.prev[n] = NoNode, !.curp[n] = -1]
    BY <2>3 DEF BqDelete
  <2>5. u2 = [next |-> next2, prev |-> prev2, prio |-> r.prio, curp |-> r.curp,
              table |-> table, tail |-> tail, bitmap |-> bits, head |-> head]
    <3> HIDE DEF u, next2, prev2
    <3>1. CASE k = 1
      <4>1. n = u.table[p] /\ n \in Threads /\ n # NoNode /\ r.next[n] # NoNode
        BY <1>8, <1>9, <2>1, <3>1, PointerAssumption
      <4>2. (IF n = u.next[n] THEN NoNode ELSE u.next[n]) = first
        BY <1>8, <2>1, <2>2, <3>1
      <4>3. (IF first = NoNode THEN NoNode ELSE r.tail[p]) = last
        BY <1>8, <1>9, <3>1, <4>1
      <4>4. /\ u.table = r.table /\ u.tail = r.tail /\ u.bitmap = q.bits
        BY <1>1, <2>1
      <4>5. u2 = [u EXCEPT !.table = table, !.tail[p] = IF first = NoNode THEN NoNode ELSE @,
                           !.bitmap = bits, !.head = table[Ctz(bits)]]
        <5> HIDE DEF first
        <5> QED BY <3>1, <4>1, <4>2, <4>4 DEF DropFirst
      <4>6. [r.tail EXCEPT ![p] = IF first = NoNode THEN NoNode ELSE @] = tail
        BY <1>1, <4>3
      <4>7. head = table[Ctz(bits)]
        BY <3>1
      <4> HIDE DEF first, last, table, bits, head, tail, u2
      <4> QED BY <2>1, <4>4, <4>5, <4>6, <4>7
    <3>2. CASE k # 1
      <4>1. n # u.table[p] /\ Len(s) # 1
        BY <1>9, <2>1, <3>2
      <4>2. table = r.table /\ bits = q.bits /\ head = r.head
        BY <1>1, <3>2
      <4>3. CASE k = Len(s)
        <5>1. n = u.tail[p] /\ u.prev[u.tail[p]] = last
          BY <1>9, <2>1, <2>2, <4>1, <4>3
        <5> HIDE DEF last, table, bits, head
        <5> QED BY <1>1, <2>1, <4>1, <4>2, <5>1 DEF DropOther
      <4>4. CASE k # Len(s)
        <5>1. n # u.tail[p] /\ last = r.tail[p] /\ tail = r.tail
          BY <1>1, <1>9, <2>1, <4>1, <4>4
        <5> HIDE DEF last, table, bits, head, tail
        <5> QED BY <1>1, <2>1, <4>1, <4>2, <5>1 DEF DropOther
      <4> QED BY <4>3, <4>4
    <3> QED BY <3>1, <3>2
  <2> HIDE DEF u2, table, tail, bits, head, r1
  <2> QED BY <2>4, <2>5
<1>12. \A m \in Threads :
         /\ next[m] = IF m = n THEN NoNode ELSE IF m = r.prev[n] THEN r.next[n] ELSE r.next[m]
         /\ prev[m] = IF m = n THEN NoNode ELSE IF m = r.next[n] THEN r.prev[n] ELSE r.prev[m]
  BY <1>1, <1>8
<1>13. next \in [Threads -> Pointers] /\ prev \in [Threads -> Pointers]
       /\ curp \in [Threads -> Priorities \cup {-1}] /\ first \in Pointers /\ last \in Pointers
  BY <1>1, <1>3, <1>8 DEF Pointers
<1>14. RingOK(next, prev, first, last, t)
  <2>1. CASE Len(s) = 1
    <3>1. t = <<>> /\ k = 1
      BY <1>6, <1>7, <2>1
    <3> QED BY <2>1, <3>1 DEF RingOK
  <2>2. CASE Len(s) # 1
    <3>1. Len(s) > 1
      <4> DEFINE l == Len(s)
      <4>1. l \in Nat \ {0} /\ l # 1
        BY <1>9, <2>2
      <4> HIDE DEF l
      <4>2. l > 1
        BY <4>1
      <4> QED BY <4>2 DEF l
    <3>2. /\ first = IF k = 1 THEN r.next[n] ELSE r.table[p]
          /\ last = IF k = Len(s) THEN r.prev[n] ELSE r.tail[p]
      BY <2>2
    <3> HIDE DEF next, prev, first, last, s, t, p
    <3>3. RingOK(next, prev, first, last, t)
      <4>1. \A m \in Threads : m # n =>
              /\ next[m] = IF m = r.prev[n] THEN r.next[n] ELSE r.next[m]
              /\ prev[m] = IF m = r.next[n] THEN r.prev[n] ELSE r.prev[m]
        BY <1>12
      <4>2. t \in Seq(Threads) /\ n = s[k] /\ Len(t) = Len(s) - 1
            /\ \A i \in 1 .. Len(s) - 1 : t[i] = IF i < k THEN s[i] ELSE s[i + 1]
        BY <1>6, <1>7
      <4>3. s \in Seq(Threads) /\ Distinct(s) /\ k \in 1 .. Len(s)
        BY <1>3
      <4>4. Bypassed(r.next, r.prev, next, prev, n) /\ IsCut(s, k, n, t)
            /\ EndsOfCut(s, k, r.next[n], r.prev[n], r.table[p], r.tail[p], first, last)
        BY <3>2, <4>1, <4>2 DEF Bypassed, IsCut, EndsOfCut
      <4> QED BY <1>5, <3>1, <4>3, <4>4, RingCut
    <3> QED BY <3>3
  <2> QED BY <2>1, <2>2
<1>15. head = table[V!Top(q1)] /\ bits = q1.bits
  <2>1. bits = q1.bits
    BY <1>4, <1>9
  <2>2. Ctz(bits) = V!Top(q1)
    BY <2>1 DEF Ctz, Min, V!Top, V!Min
  <2>3. CASE k = 1
    BY <2>1, <2>2, <2>3
  <2>4. CASE k # 1
    <3>1. table = r.table /\ V!Top(q1) = V!Top(q)
      BY <1>1, <2>1, <2>4 DEF V!Top
    <3> QED BY <1>1, <2>1, <2>4, <3>1
  <2> QED BY <2>3, <2>4
<1>16. \A x \in Priorities : x # p =>
         /\ q1.bucket[x] = q.bucket[x]
         /\ \A m \in Threads : On(q.bucket[x], m) =>
              next[m] = r.next[m] /\ prev[m] = r.prev[m] /\ curp[m] = r.curp[m]
  <2> HIDE DEF next, prev, curp
  <2> SUFFICES ASSUME NEW x \in Priorities, x # p
               PROVE  /\ q1.bucket[x] = q.bucket[x]
                      /\ \A m \in Threads : On(q.bucket[x], m) =>
                           next[m] = r.next[m] /\ prev[m] = r.prev[m] /\ curp[m] = r.curp[m]
    OBVIOUS
  <2>1. q1.bucket[x] = q.bucket[x]
    BY <1>4
  <2>2. \A m : On(q.bucket[x], m) => m # n /\ m # r.prev[n] /\ m # r.next[n]
    BY <1>3, <1>8
  <2> QED BY <1>10, <1>12, <2>1, <2>2
<1>17. /\ \A m \in Threads : On(t, m) => curp[m] = p
       /\ \A m \in Threads : next[m] # NoNode =>
            On(t, m) \/ \E x \in Priorities : x # p /\ On(q.bucket[x], m)
  <2> HIDE DEF next, prev, curp, p
  <2>1. ASSUME NEW m \in Threads, On(t, m) PROVE curp[m] = p
    <3>1. On(s, m) /\ m # n
      BY <1>6, <2>1
    <3>2. r.curp[m] = p
      BY <1>1, <1>3, <3>1 DEF s
    <3> QED BY <1>10, <3>1, <3>2
  <2>2. ASSUME NEW m \in Threads, next[m] # NoNode
        PROVE  On(t, m) \/ \E x \in Priorities : x # p /\ On(q.bucket[x], m)
    <3>1. m # n
      BY <1>12, <2>2
    <3>2. \E x \in Priorities : On(q.bucket[x], m)
      <4>1. CASE m = r.prev[n]
        BY <1>3, <1>8, <4>1 DEF s
      <4>2. CASE m # r.prev[n]
        BY <1>1, <1>12, <2>2, <3>1, <4>2
      <4> QED BY <4>1, <4>2
    <3> QED BY <1>6, <3>1, <3>2 DEF s
  <2> QED BY <2>1, <2>2
<1> HIDE DEF next, prev, first, last, head, r1, q1, s, t, p, curp, bits
<1>18. /\ r1.next = next /\ r1.prev = prev /\ r1.prio = r.prio /\ r1.curp = curp
       /\ r1.table = table /\ r1.tail = tail /\ r1.bitmap = bits /\ r1.head = head
       /\ r1 = [next |-> r1.next, prev |-> r1.prev, prio |-> r1.prio, curp |-> r1.curp,
                table |-> r1.table, tail |-> r1.tail, bitmap |-> r1.bitmap, head |-> r1.head]
  BY <1>11
<1>19. \E first1, last1 \in Pointers :
         /\ r1.table = [r.table EXCEPT ![p] = first1] /\ r1.tail = [r.tail EXCEPT ![p] = last1]
         /\ RingOK(r1.next, r1.prev, first1, last1, q1.bucket[p])
  BY <1>4, <1>13, <1>14, <1>18
<1> HIDE DEF table, tail
<1>20. /\ r1.next \in [Threads -> Pointers] /\ r1.prev \in [Threads -> Pointers]
       /\ r1.prio \in [Threads -> Priorities] /\ r1.curp \in [Threads -> Priorities \cup {-1}]
       /\ r1.bitmap = q1.bits /\ r1.head = r1.table[V!Top(q1)]
  BY <1>1, <1>13, <1>15, <1>18
<1>21. \A x \in Priorities : x # p =>
         /\ q1.bucket[x] = q.bucket[x]
         /\ \A m \in Threads : On(q.bucket[x], m) =>
              r1.next[m] = r.next[m] /\ r1.prev[m] = r.prev[m] /\ r1.curp[m] = r.curp[m]
  BY <1>16, <1>18
<1>22. /\ \A m \in Threads : On(q1.bucket[p], m) => r1.curp[m] = p
       /\ \A m \in Threads : r1.next[m] # NoNode =>
            On(q1.bucket[p], m) \/ \E x \in Priorities : x # p /\ On(q.bucket[x], m)
  BY <1>4, <1>17, <1>18
<1>23. Refiled(r, q, r1, q1, p)
  BY <1>2, <1>3, <1>18, <1>19, <1>20, <1>21, <1>22 DEF Refiled
<1> QED BY <1>18, <1>23, OneBucket DEF r1, q1, curp

(* pthipth_bq_rotate                                                       *)
LEMMA RotateRep ==
  ASSUME NEW r, NEW q, Rep(r, q)
  PROVE  /\ Rep(BqRotate(r), V!BqRotate(q))
         /\ BqRotate(r).prio = r.prio /\ BqRotate(r).curp = r.curp
<1> DEFINE p  == V!Top(q)
           s  == q.bucket[p]
           t  == Append(Tail(s), Head(s))
           q1 == V!BqRotate(q)
           r1 == BqRotate(r)
           cur == r.head
<1>1. /\ r.next \in [Threads -> Pointers] /\ r.prev \in [Threads -> Pointers]
      /\ r.prio \in [Threads -> Priorities] /\ r.curp \in [Threads -> Priorities \cup {-1}]
      /\ r.table \in [Priorities -> Pointers] /\ r.tail \in [Priorities -> Pointers]
      /\ r.bitmap = q.bits /\ cur = r.table[p]
      /\ r = [next |-> r.next, prev |-> r.prev, prio |-> r.prio, curp |-> r.curp,
              table |-> r.table, tail |-> r.tail, bitmap |-> r.bitmap, head |-> r.head]
      /\ V!Good(q)
      /\ \A x \in Priorities : RingOK(r.next, r.prev, r.table[x], r.tail[x], q.bucket[x])
      /\ \A x \in Priorities : \A m \in Threads : On(q.bucket[x], m) => r.curp[m] = x
      /\ \A m \in Threads : r.next[m] # NoNode => \E x \in Priorities : On(q.bucket[x], m)
  BY DEF Rep
<1>2. V!Good(q1)
  BY <1>1, V!RotateGood, BucketAssumption
<1>3. /\ p \in Priorities /\ s \in Seq(Threads) /\ s # <<>> /\ Distinct(s)
      /\ q = [bucket |-> q.bucket, bits |-> q.bits]
      /\ q.bucket \in [Priorities -> Seq(Threads)]
  BY <1>1, GoodIs
<1>4. q1 = [bucket |-> [q.bucket EXCEPT ![p] = t], bits |-> q.bits]
  <2>1. q1 = [q EXCEPT !.bucket = [q.bucket EXCEPT ![p] = t]]
    BY <1>3 DEF V!BqRotate
  <2> HIDE DEF q1, p, t
  <2> QED BY <1>3, <2>1
<1>5. /\ q1.bucket[p] = t /\ q1.bits = q.bits
      /\ \A x \in Priorities : x # p => q1.bucket[x] = q.bucket[x]
  BY <1>3, <1>4
<1>6. /\ t \in Seq(Threads) /\ Len(t) = Len(s)
      /\ \A i \in 1 .. Len(s) : t[i] = IF i = Len(s) THEN s[1] ELSE s[i + 1]
  BY <1>3, V!RotatedIs, BucketAssumption
<1>7. RingOK(r.next, r.prev, cur, r.tail[p], s)
  BY <1>1, <1>3
<1> HIDE DEF p, s, t, q1
<1>8. /\ cur \in Threads /\ On(s, cur) /\ r.curp[cur] = p /\ cur = s[1]
      /\ r.next[cur] \in Threads /\ (r.next[cur] = cur <=> Len(s) = 1)
  <2>1. cur \in Threads /\ On(s, cur)
    BY <1>3, <1>7, EndsAreOn
  <2>2. r.next[cur] \in Threads /\ (r.next[cur] = cur <=> Len(s) = 1)
    BY <1>3, <1>7, <2>1, Neighbours
  <2>3. cur = s[1]
    BY <1>3, <1>7 DEF RingOK
  <2>4. r.curp[cur] = p
    BY <1>1, <1>3, <2>1 DEF s
  <2> QED BY <2>1, <2>2, <2>3, <2>4
<1>9. cur # NoNode /\ r.curp[cur] # -1
  BY <1>3, <1>8, PointerAssumption, BucketAssumption DEF Priorities
<1>10. CASE Len(s) = 1
  <2>1. r1 = r
    BY <1>8, <1>10 DEF BqRotate
  <2>2. t = s
    BY <1>3, <1>6, <1>10
  <2>3. [q.bucket EXCEPT ![p] = t] = q.bucket
    BY <1>3, <2>2 DEF s
  <2>4. q1 = q
    BY <1>3, <1>4, <2>3
  <2> HIDE DEF r1
  <2> QED BY <2>1, <2>4 DEF r1, q1
<1>11. CASE Len(s) # 1
  <2> DEFINE first == r.next[cur]
             table == [r.table EXCEPT ![p] = first]
             tail == [r.tail EXCEPT ![p] = cur]
  <2>1. r1 = [next |-> r.next, prev |-> r.prev, prio |-> r.prio, curp |-> r.curp,
              table |-> table, tail |-> tail, bitmap |-> r.bitmap, head |-> first]
    BY <1>1, <1>8, <1>9, <1>11 DEF BqRotate
  <2>2. RingOK(r.next, r.prev, first, cur, t)
    BY <1>3, <1>6, <1>7, RingTurn
  <2>3. \A m : On(t, m) => On(s, m)
    <3>1. Len(s) \in Nat \ {0}
      BY <1>3
    <3>2. \A i \in 1 .. Len(s) : \E j \in 1 .. Len(s) : t[i] = s[j]
      <4> SUFFICES ASSUME NEW i \in 1 .. Len(s) PROVE \E j \in 1 .. Len(s) : t[i] = s[j]
        OBVIOUS
      <4>1. (IF i = Len(s) THEN 1 ELSE i + 1) \in 1 .. Len(s)
        BY <3>1
      <4>2. t[i] = s[IF i = Len(s) THEN 1 ELSE i + 1]
        BY <1>6
      <4> QED BY <4>1, <4>2
    <3> QED BY <1>6, <3>2 DEF On
  <2>4. \A m : On(s, m) => On(t, m)
    <3>1. Len(s) \in Nat \ {0}
      BY <1>3
    <3>2. \A j \in 1 .. Len(s) : \E i \in 1 .. Len(s) : t[i] = s[j]
      <4> SUFFICES ASSUME NEW j \in 1 .. Len(s) PROVE \E i \in 1 .. Len(s) : t[i] = s[j]
        OBVIOUS
      <4>1. CASE j = 1
        BY <1>6, <3>1, <4>1
      <4>2. CASE j # 1
        <5>1. j - 1 \in 1 .. Len(s) /\ j - 1 # Len(s) /\ (j - 1) + 1 = j
          BY <3>1, <4>2
        <5> QED BY <1>6, <5>1
      <4> QED BY <4>1, <4>2
    <3> QED BY <1>6, <3>2 DEF On
  <2>5. first = table[V!Top(q1)]
    <3>1. V!Top(q1) = p
      BY <1>5 DEF V!Top, p
    <3> QED BY <1>1, <1>3, <3>1
  <2>6. first \in Pointers /\ cur \in Pointers
    BY <1>8 DEF Pointers
  <2> HIDE DEF r1, first, cur
  <2>7. /\ r1.next = r.next /\ r1.prev = r.prev /\ r1.prio = r.prio /\ r1.curp = r.curp
        /\ r1.table = table /\ r1.tail = tail /\ r1.bitmap = r.bitmap /\ r1.head = first
        /\ r1 = [next |-> r1.next, prev |-> r1.prev, prio |-> r1.prio, curp |-> r1.curp,
                 table |-> r1.table, tail |-> r1.tail, bitmap |-> r1.bitmap, head |-> r1.head]
    BY <2>1
  <2>8. \E first1, last1 \in Pointers :
          /\ r1.table = [r.table EXCEPT ![p] = first1] /\ r1.tail = [r.tail EXCEPT ![p] = last1]
          /\ RingOK(r1.next, r1.prev, first1, last1, q1.bucket[p])
    BY <1>5, <2>2, <2>6, <2>7
  <2> HIDE DEF table, tail
  <2>9. /\ r1.next \in [Threads -> Pointers] /\ r1.prev \in [Threads -> Pointers]
        /\ r1.prio \in [Threads -> Priorities] /\ r1.curp \in [Threads -> Priorities \cup {-1}]
        /\ r1.bitmap = q1.bits /\ r1.head = r1.table[V!Top(q1)]
    BY <1>1, <1>5, <2>5, <2>7
  <2>10. \A x \in Priorities : x # p =>
           /\ q1.bucket[x] = q.bucket[x]
           /\ \A m \in Threads : On(q.bucket[x], m) =>
                r1.next[m] = r.next[m] /\ r1.prev[m] = r.prev[m] /\ r1.curp[m] = r.curp[m]
    BY <1>5, <2>7
  <2>11. \A m \in Threads : On(q1.bucket[p], m) => r1.curp[m] = p
    BY <1>1, <1>3, <1>5, <2>3, <2>7 DEF s
  <2>12. \A m \in Threads : r1.next[m] # NoNode =>
            On(q1.bucket[p], m) \/ \E x \in Priorities : x # p /\ On(q.bucket[x], m)
    BY <1>1, <1>5, <2>4, <2>7 DEF s
  <2>13. Refiled(r, q, r1, q1, p)
    BY <1>2, <1>3, <2>7, <2>8, <2>9, <2>10, <2>11, <2>12 DEF Refiled
  <2> QED BY <2>7, <2>13, OneBucket DEF r1, q1
<1> QED BY <1>10, <1>11

-----------------------------------------------------------------------------
(* The walk from first along next through the L nodes of s.                *)
LEMMA WalkIs ==
  ASSUME NEW s \in Seq(Threads), NEW first, NEW next, NEW L \in Nat, L = Len(s),
         s # <<>> => first = s[1], \A k \in 2 .. Len(s) : s[k] = next[s[k - 1]]
  PROVE  (CHOOSE walk : walk = [k \in 1 .. L |-> IF k = 1 THEN first ELSE next[walk[k - 1]]]) = s
<1> DEFINE step(w, k) == IF k = 1 THEN first ELSE next[w[k - 1]]
<1>1. s = [k \in 1 .. L |-> step(s, k)]
  <2>1. s = [k \in 1 .. L |-> s[k]]
    OBVIOUS
  <2>2. \A k \in 1 .. L : s[k] = step(s, k)
    OBVIOUS
  <2> HIDE DEF step
  <2> QED BY <2>1, <2>2
<1>2. ASSUME NEW w, w = [k \in 1 .. L |-> step(w, k)] PROVE w = s
  <2> DEFINE wrong == {k \in 1 .. L : w[k] # s[k]}
  <2>1. \A k \in 1 .. L : w[k] = step(w, k)
    BY <1>2
  <2>2. wrong = {}
    <3> SUFFICES ASSUME wrong # {} PROVE FALSE
      OBVIOUS
    <3>1. PICK k \in wrong : \A y \in wrong : k <= y
      <4>1. wrong \in SUBSET Nat
        OBVIOUS
      <4> HIDE DEF wrong
      <4> QED BY <4>1, V!MinOf, BucketAssumption
    <3>2. k # 1
      BY <2>1, <3>1
    <3>3. k - 1 \in 1 .. L /\ k - 1 \notin wrong
      BY <3>1, <3>2
    <3>4. w[k - 1] = s[k - 1]
      BY <3>3
    <3> QED BY <2>1, <3>1, <3>2, <3>4
  <2>3. \A k \in 1 .. L : w[k] = s[k]
    BY <2>2
  <2>4. w = [k \in 1 .. L |-> w[k]]
    <3> HIDE DEF step
    <3> QED BY <1>2
  <2> QED BY <2>3, <2>4
<1> HIDE DEF step
<1>3. (CHOOSE walk : walk = [k \in 1 .. L |-> step(walk, k)]) = s
  BY <1>1, <1>2
<1> QED BY <1>3 DEF step

(* A list without repetition has as many nodes as the set of them.         *)
LEMMA SizeOf ==
  ASSUME NEW s \in Seq(Threads), Distinct(s)
  PROVE  IsFiniteSet({n \in Threads : On(s, n)}) /\ Cardinality({n \in Threads : On(s, n)}) = Len(s)
<1> DEFINE S == {n \in Threads : On(s, n)}
<1>1. Len(s) \in Nat /\ s = [k \in 1 .. Len(s) |-> s[k]]
  OBVIOUS
<1>2. s \in Bijection(1 .. Len(s), S)
  <2>1. s \in [1 .. Len(s) -> S]
    BY <1>1 DEF On
  <2>2. \A i, j \in 1 .. Len(s) : s[i] = s[j] => i = j
    BY DEF Distinct
  <2>3. \A x \in S : \E i \in 1 .. Len(s) : s[i] = x
    BY DEF On
  <2> QED BY <2>1, <2>2, <2>3 DEF Bijection, Injection, Surjection, IsInjective
<1>3. IsFiniteSet(1 .. Len(s)) /\ Cardinality(1 .. Len(s)) = Len(s)
  <2> DEFINE l == Len(s)
  <2>1. l \in Nat /\ l \in Int /\ 1 \in Int
    BY <1>1
  <2> HIDE DEF l
  <2>2. IsFiniteSet(1 .. l) /\ Cardinality(1 .. l) = IF 1 > l THEN 0 ELSE l - 1 + 1
    BY <2>1, FS_Interval
  <2>3. (IF 1 > l THEN 0 ELSE l - 1 + 1) = l
    BY <2>1
  <2> QED BY <2>2, <2>3 DEF l
<1> HIDE DEF S
<1>4. ExistsBijection(1 .. Len(s), S)
  BY <1>2 DEF ExistsBijection
<1>5. IsFiniteSet(S) /\ Cardinality(S) = Cardinality(1 .. Len(s))
  BY <1>3, <1>4, FS_Bijection
<1> QED BY <1>3, <1>5 DEF S

(* The nodes found by walking a bucket are the queue's.                    *)
LEMMA RingIs ==
  ASSUME NEW r, NEW q, Rep(r, q), NEW p \in Priorities
  PROVE  Ring(r, p) = q.bucket[p]
<1> DEFINE s == q.bucket[p]
           members == {n \in Threads : r.next[n] # NoNode /\ r.curp[n] = p}
<1>1. /\ V!Good(q)
      /\ RingOK(r.next, r.prev, r.table[p], r.tail[p], s)
      /\ \A x \in Priorities : \A m \in Threads : On(q.bucket[x], m) => r.curp[m] = x
      /\ \A m \in Threads : r.next[m] # NoNode => \E x \in Priorities : On(q.bucket[x], m)
  BY DEF Rep
<1>2. s \in Seq(Threads) /\ Distinct(s)
  BY <1>1, GoodIs
<1>3. members = {n \in Threads : On(s, n)}
  <2>1. ASSUME NEW n \in Threads, On(s, n) PROVE r.next[n] # NoNode /\ r.curp[n] = p
    <3>1. r.next[n] \in Threads
      BY <1>1, <1>2, <2>1, Neighbours
    <3> QED BY <1>1, <2>1, <3>1, PointerAssumption
  <2>2. ASSUME NEW n \in Threads, r.next[n] # NoNode, r.curp[n] = p PROVE On(s, n)
    BY <1>1, <2>2
  <2> QED BY <2>1, <2>2
<1>4. Cardinality(members) = Len(s)
  BY <1>2, <1>3, SizeOf
<1>5. \A k \in 2 .. Len(s) : s[k] = r.next[s[k - 1]]
  <2> SUFFICES ASSUME NEW k \in 2 .. Len(s) PROVE s[k] = r.next[s[k - 1]]
    OBVIOUS
  <2>1. k - 1 \in 1 .. Len(s) /\ k - 1 # Len(s) /\ (k - 1) + 1 = k
    BY <1>2
  <2> QED BY <1>1, <2>1 DEF RingOK
<1>6. s # <<>> => r.table[p] = s[1]
  BY <1>1 DEF RingOK
<1> DEFINE L == Cardinality(members)
<1>7. L \in Nat /\ L = Len(s)
  BY <1>2, <1>4
<1> HIDE DEF s, L
<1>8. (CHOOSE walk : walk = [k \in 1 .. L |-> IF k = 1 THEN r.table[p] ELSE r.next[walk[k - 1]]]) = s
  BY <1>2, <1>5, <1>6, <1>7, WalkIs
<1> QED BY <1>8 DEF Ring, L, s

(* The queue of a structure is the only one it has.                        *)
Value(r) == [bucket |-> [p \in Priorities |-> Ring(r, p)], bits |-> r.bitmap]

(* The queue found by walking a structure is the one it has.               *)
LEMMA ValueIs ==
  ASSUME NEW r, NEW q, Rep(r, q)
  PROVE  Value(r) = q
<1>1. /\ q = [bucket |-> q.bucket, bits |-> q.bits] /\ q.bucket \in [Priorities -> Seq(Threads)]
      /\ r.bitmap = q.bits
  BY GoodIs DEF Rep
<1>2. [p \in Priorities |-> Ring(r, p)] = q.bucket
  BY <1>1, RingIs
<1> QED BY <1>1, <1>2 DEF Value

-----------------------------------------------------------------------------
(* Chains: the nodes of c, each linked to the next and the last to NULL.   *)
ChainOK(next2, prev2, first, last, c) ==
  /\ c = <<>> => first = NoNode /\ last = NoNode
  /\ c # <<>> => first = c[1] /\ last = c[Len(c)]
  /\ \A i \in 1 .. Len(c) :
       /\ next2[c[i]] = IF i = Len(c) THEN NoNode ELSE c[i + 1]
       /\ prev2[c[i]] = IF i = 1 THEN NoNode ELSE c[i - 1]

(* A chain does not depend on the links of other nodes.                    *)
LEMMA ChainFrame ==
  ASSUME NEW c \in Seq(Threads), NEW next, NEW prev, NEW next1, NEW prev1, NEW first, NEW last,
         ChainOK(next, prev, first, last, c),
         \A n \in Threads : On(c, n) => next1[n] = next[n] /\ prev1[n] = prev[n]
  PROVE  ChainOK(next1, prev1, first, last, c)
<1>1. \A i \in 1 .. Len(c) : c[i] \in Threads /\ On(c, c[i])
  BY DEF On
<1> QED BY <1>1 DEF ChainOK

(* The ends of a chain are on it.                                          *)
LEMMA ChainEnds ==
  ASSUME NEW c \in Seq(Threads), NEW next, NEW prev, NEW first, NEW last,
         ChainOK(next, prev, first, last, c)
  PROVE  /\ c = <<>> <=> first = NoNode
         /\ c = <<>> <=> last = NoNode
         /\ c # <<>> => /\ first \in Threads /\ last \in Threads /\ On(c, first) /\ On(c, last)
                        /\ first = c[1] /\ last = c[Len(c)]
<1>1. CASE c = <<>>
  BY <1>1 DEF ChainOK
<1>2. CASE c # <<>>
  <2>1. 1 \in 1 .. Len(c) /\ Len(c) \in 1 .. Len(c)
    BY <1>2
  <2>2. c[1] \in Threads /\ c[Len(c)] \in Threads
    BY <2>1
  <2>3. first = c[1] /\ last = c[Len(c)]
    BY <1>2 DEF ChainOK
  <2> QED BY <1>2, <2>1, <2>2, <2>3, PointerAssumption DEF On
<1> QED BY <1>1, <1>2

(* pthipth_queue_add to a list that is not empty.                          *)
LEMMA ChainAppend ==
  ASSUME NEW c \in Seq(Threads), c # <<>>, Distinct(c), NEW n \in Threads, ~On(c, n),
         NEW next \in [Threads -> Pointers], NEW prev \in [Threads -> Pointers],
         NEW first, NEW last, ChainOK(next, prev, first, last, c),
         NEW next1, next1 = [next EXCEPT ![n] = NoNode, ![last] = n],
         NEW prev1, prev1 = [prev EXCEPT ![n] = last]
  PROVE  ChainOK(next1, prev1, first, n, Append(c, n))
<1>1. /\ Len(c) \in Nat \ {0} /\ first = c[1] /\ last = c[Len(c)] /\ last \in Threads
      /\ \A i \in 1 .. Len(c) : c[i] \in Threads /\ c[i] # n
  BY DEF ChainOK, On
<1> DEFINE t == Append(c, n)
<1>2. /\ Len(t) = Len(c) + 1 /\ t # <<>>
      /\ \A i \in 1 .. Len(t) : t[i] = IF i = Len(c) + 1 THEN n ELSE c[i]
  BY <1>1
<1>3. \A m \in Threads : /\ next1[m] = IF m = last THEN n ELSE IF m = n THEN NoNode ELSE next[m]
                         /\ prev1[m] = IF m = n THEN last ELSE prev[m]
  BY <1>1
<1> HIDE DEF t
<1>4. ASSUME NEW i \in 1 .. Len(t)
      PROVE  /\ next1[t[i]] = IF i = Len(t) THEN NoNode ELSE t[i + 1]
             /\ prev1[t[i]] = IF i = 1 THEN NoNode ELSE t[i - 1]
  <2>1. CASE i = Len(c) + 1
    <3>1. n # last
      BY <1>1
    <3> QED BY <1>1, <1>2, <1>3, <2>1, <3>1
  <2>2. CASE i \in 1 .. Len(c)
    <3>1. t[i] = c[i] /\ c[i] \in Threads /\ c[i] # n
      BY <1>1, <1>2, <2>2
    <3>2. c[i] = last <=> i = Len(c)
      BY <1>1, <2>2 DEF Distinct
    <3>3. /\ next[c[i]] = IF i = Len(c) THEN NoNode ELSE c[i + 1]
          /\ prev[c[i]] = IF i = 1 THEN NoNode ELSE c[i - 1]
      BY <2>2 DEF ChainOK
    <3>4. next1[t[i]] = IF i = Len(t) THEN NoNode ELSE t[i + 1]
      <4>1. CASE i = Len(c)
        BY <1>1, <1>2, <1>3, <3>1, <3>2, <4>1
      <4>2. CASE i # Len(c)
        BY <1>1, <1>2, <1>3, <2>2, <3>1, <3>2, <3>3, <4>2
      <4> QED BY <4>1, <4>2
    <3>5. prev1[t[i]] = IF i = 1 THEN NoNode ELSE t[i - 1]
      BY <1>1, <1>2, <1>3, <2>2, <3>1, <3>3
    <3> QED BY <3>4, <3>5
  <2> QED BY <1>1, <1>2, <2>1, <2>2
<1>5. first = t[1] /\ n = t[Len(t)]
  BY <1>1, <1>2
<1> QED BY <1>2, <1>4, <1>5 DEF ChainOK, t

(* pthipth_queue_delete of the k-th node.                                  *)
LEMMA ChainCut ==
  ASSUME NEW s \in Seq(Threads), Distinct(s), NEW k \in 1 .. Len(s),
         NEW next, NEW prev, NEW first, NEW last, ChainOK(next, prev, first, last, s),
         NEW t, NEW n, IsCut(s, k, n, t),
         NEW next1, NEW prev1, Bypassed(next, prev, next1, prev1, n),
         NEW first1, NEW last1, EndsOfCut(s, k, next[n], prev[n], first, last, first1, last1)
  PROVE  ChainOK(next1, prev1, first1, last1, t)
<1> USE DEF IsCut, Bypassed, EndsOfCut
<1> DEFINE l == Len(s)
<1>1. /\ l \in Nat \ {0} /\ k \in 1 .. l /\ first = s[1] /\ last = s[l]
      /\ next[n] = IF k = l THEN NoNode ELSE s[k + 1]
      /\ prev[n] = IF k = 1 THEN NoNode ELSE s[k - 1]
      /\ \A i \in 1 .. l : s[i] \in Threads
  BY DEF ChainOK
<1>2. \A i, j \in 1 .. l : s[i] = s[j] => i = j
  BY DEF Distinct
<1>3. \A i \in 1 .. l : /\ next[s[i]] = IF i = l THEN NoNode ELSE s[i + 1]
                        /\ prev[s[i]] = IF i = 1 THEN NoNode ELSE s[i - 1]
  BY DEF ChainOK
<1>4. Len(t) = l - 1 /\ n = s[k] /\ \A i \in 1 .. l - 1 : t[i] = IF i < k THEN s[i] ELSE s[i + 1]
  OBVIOUS
<1>5. first1 = (IF k = 1 THEN next[n] ELSE first) /\ last1 = (IF k = l THEN prev[n] ELSE last)
  OBVIOUS
<1>6. \A i \in 1 .. l : i # k =>
        /\ next1[s[i]] = IF i = k - 1 THEN next[n] ELSE next[s[i]]
        /\ prev1[s[i]] = IF i = k + 1 THEN prev[n] ELSE prev[s[i]]
  <2> SUFFICES ASSUME NEW i \in 1 .. l, i # k
               PROVE  /\ next1[s[i]] = IF i = k - 1 THEN next[n] ELSE next[s[i]]
                      /\ prev1[s[i]] = IF i = k + 1 THEN prev[n] ELSE prev[s[i]]
    OBVIOUS
  <2>1. s[i] \in Threads /\ s[i] # n
    BY <1>1, <1>2
  <2>2. (s[i] = prev[n] <=> i = k - 1) /\ (s[i] = next[n] <=> i = k + 1)
    <3>1. CASE k = 1
      <4>1. prev[n] = NoNode
        BY <1>1, <3>1
      <4>2. s[i] = next[n] <=> i = k + 1
        BY <1>1, <1>2, <2>1, PointerAssumption
      <4> QED BY <2>1, <3>1, <4>1, <4>2, PointerAssumption
    <3>2. CASE k # 1
      <4>1. k - 1 \in 1 .. l /\ prev[n] = s[k - 1]
        BY <1>1, <3>2
      <4>2. s[i] = prev[n] <=> i = k - 1
        BY <1>2, <4>1
      <4>3. s[i] = next[n] <=> i = k + 1
        BY <1>1, <1>2, <2>1, PointerAssumption
      <4> QED BY <4>2, <4>3
    <3> QED BY <3>1, <3>2
  <2> QED BY <2>1, <2>2
<1> HIDE DEF IsCut, Bypassed, EndsOfCut, l
<1>7. CASE l = 1
  <2>1. t = <<>> /\ first1 = NoNode /\ last1 = NoNode
    <3>1. k = 1 /\ l = k
      BY <1>1, <1>7
    <3>2. Len(t) = 0 /\ t \in Seq(Threads)
      BY <1>4, <1>7 DEF IsCut
    <3> QED BY <1>1, <1>5, <3>1, <3>2
  <2> QED BY <2>1 DEF ChainOK
<1>8. CASE l # 1
  <2>1. l > 1
    BY <1>1, <1>8
  <2>2. ASSUME NEW i \in 1 .. l - 1
        PROVE  /\ next1[t[i]] = IF i = l - 1 THEN NoNode ELSE t[i + 1]
               /\ prev1[t[i]] = IF i = 1 THEN NoNode ELSE t[i - 1]
    <3>1. CASE i < k
      <4>1. t[i] = s[i] /\ i \in 1 .. l /\ i # k /\ i # k + 1 /\ i # l
        BY <1>1, <1>4, <3>1
      <4>2. next1[t[i]] = IF i = l - 1 THEN NoNode ELSE t[i + 1]
        <5>1. next1[t[i]] = IF i = k - 1 THEN IF k = l THEN NoNode ELSE s[k + 1] ELSE s[i + 1]
          BY <1>1, <1>3, <1>6, <4>1
        <5>2. ASSUME i # l - 1 PROVE t[i + 1] = IF i + 1 < k THEN s[i + 1] ELSE s[(i + 1) + 1]
          <6>1. i + 1 \in 1 .. l - 1
            BY <1>1, <5>2
          <6> QED BY <1>4, <6>1
        <5> QED BY <1>1, <3>1, <5>1, <5>2
      <4>3. prev1[t[i]] = IF i = 1 THEN NoNode ELSE s[i - 1]
        BY <1>3, <1>6, <4>1
      <4>4. i # 1 => t[i - 1] = s[i - 1]
        BY <1>1, <1>4, <3>1
      <4> QED BY <4>2, <4>3, <4>4
    <3>2. CASE ~(i < k)
      <4>1. t[i] = s[i + 1] /\ i + 1 \in 1 .. l /\ i + 1 # k /\ i + 1 # k - 1 /\ i + 1 # 1
        BY <1>1, <1>4, <3>2
      <4>2. next1[t[i]] = IF i + 1 = l THEN NoNode ELSE s[(i + 1) + 1]
        BY <1>3, <1>6, <4>1
      <4>3. i # l - 1 => t[i + 1] = s[(i + 1) + 1]
        BY <1>1, <1>4, <3>2
      <4>4. prev1[t[i]] = IF i = k THEN IF k = 1 THEN NoNode ELSE s[k - 1] ELSE s[i]
        <5>1. i + 1 = k + 1 <=> i = k
          BY <1>1
        <5>2. prev[s[i + 1]] = s[(i + 1) - 1] /\ (i + 1) - 1 = i
          BY <1>3, <4>1
        <5> QED BY <1>1, <1>6, <4>1, <5>1, <5>2
      <4>5. i # 1 => t[i - 1] = IF i - 1 < k THEN s[i - 1] ELSE s[(i - 1) + 1]
        BY <1>1, <1>4
      <4>6. prev1[t[i]] = IF i = 1 THEN NoNode ELSE t[i - 1]
        BY <1>1, <3>2, <4>4, <4>5
      <4>7. i = l - 1 <=> i + 1 = l
        BY <1>1
      <4> QED BY <4>2, <4>3, <4>6, <4>7
    <3> QED BY <3>1, <3>2
  <2>3. t[1] = first1
    BY <1>1, <1>4, <1>5, <2>1
  <2>4. t[l - 1] = last1
    <3>1. t[l - 1] = IF l - 1 < k THEN s[l - 1] ELSE s[l]
      BY <1>1, <1>4, <2>1
    <3> QED BY <1>1, <1>5, <2>1, <3>1
  <2>5. t # <<>>
    <3>1. l - 1 # 0
      BY <1>1, <2>1
    <3> QED BY <1>4, <3>1
  <2> QED BY <1>4, <2>2, <2>3, <2>4, <2>5 DEF ChainOK
<1> QED BY <1>7, <1>8

(* The structure l has the lists cs in its links: every list is a chain,   *)
(* no node is on two of them, and one that is on none is linked to none.   *)
LRep(l, cs) ==
  /\ l = [next2 |-> l.next2, prev2 |-> l.prev2, head |-> l.head, tail |-> l.tail]
  /\ l.next2 \in [Threads -> Pointers] /\ l.prev2 \in [Threads -> Pointers]
  /\ l.head \in [Queues -> Pointers] /\ l.tail \in [Queues -> Pointers]
  /\ cs \in [Queues -> Seq(Threads)]
  /\ \A x \in Queues : Distinct(cs[x]) /\ ChainOK(l.next2, l.prev2, l.head[x], l.tail[x], cs[x])
  /\ \A x, y \in Queues : \A n \in Threads : On(cs[x], n) /\ On(cs[y], n) => x = y
  /\ \A n \in Threads :
       (\A x \in Queues : ~On(cs[x], n)) => l.next2[n] = NoNode /\ l.prev2[n] = NoNode

(* The structure l1 differs from l, which has the lists cs, in the list x  *)
(* and in nodes on no other list.                                          *)
Relinked(l, cs, l1, x, t) ==
  /\ LRep(l, cs) /\ x \in Queues /\ t \in Seq(Threads) /\ Distinct(t)
  /\ l1 = [next2 |-> l1.next2, prev2 |-> l1.prev2, head |-> l1.head, tail |-> l1.tail]
  /\ l1.next2 \in [Threads -> Pointers] /\ l1.prev2 \in [Threads -> Pointers]
  /\ \E first, last \in Pointers :
       /\ l1.head = [l.head EXCEPT ![x] = first] /\ l1.tail = [l.tail EXCEPT ![x] = last]
       /\ ChainOK(l1.next2, l1.prev2, first, last, t)
  /\ \A y \in Queues : y # x => \A m \in Threads : On(cs[y], m) =>
       ~On(t, m) /\ l1.next2[m] = l.next2[m] /\ l1.prev2[m] = l.prev2[m]
  /\ \A m \in Threads : (\A y \in Queues : y # x => ~On(cs[y], m)) /\ ~On(t, m) =>
       l1.next2[m] = NoNode /\ l1.prev2[m] = NoNode

(* Such a structure has the lists with t for x: nothing else changed.      *)
LEMMA OneList ==
  ASSUME NEW l, NEW cs, NEW l1, NEW x, NEW t, Relinked(l, cs, l1, x, t)
  PROVE  LRep(l1, [cs EXCEPT ![x] = t])
<1> DEFINE cs1 == [cs EXCEPT ![x] = t]
<1>1. PICK first, last \in Pointers :
        /\ l1.head = [l.head EXCEPT ![x] = first] /\ l1.tail = [l.tail EXCEPT ![x] = last]
        /\ ChainOK(l1.next2, l1.prev2, first, last, t)
  BY DEF Relinked
<1>2. /\ l.head \in [Queues -> Pointers] /\ l.tail \in [Queues -> Pointers]
      /\ cs \in [Queues -> Seq(Threads)] /\ x \in Queues /\ t \in Seq(Threads) /\ Distinct(t)
      /\ \A y \in Queues : Distinct(cs[y]) /\ ChainOK(l.next2, l.prev2, l.head[y], l.tail[y], cs[y])
      /\ \A y, z \in Queues : \A n \in Threads : On(cs[y], n) /\ On(cs[z], n) => y = z
  BY DEF Relinked, LRep
<1>3. /\ l1.head \in [Queues -> Pointers] /\ l1.tail \in [Queues -> Pointers]
      /\ cs1 \in [Queues -> Seq(Threads)] /\ cs1[x] = t
      /\ l1.head[x] = first /\ l1.tail[x] = last
      /\ \A y \in Queues : y # x => /\ cs1[y] = cs[y]
                                    /\ l1.head[y] = l.head[y] /\ l1.tail[y] = l.tail[y]
  BY <1>1, <1>2
<1> HIDE DEF cs1
<1>4. \A y \in Queues : y # x => \A m \in Threads : On(cs[y], m) =>
        ~On(t, m) /\ l1.next2[m] = l.next2[m] /\ l1.prev2[m] = l.prev2[m]
  BY DEF Relinked
<1>5. ASSUME NEW y \in Queues
      PROVE  Distinct(cs1[y]) /\ ChainOK(l1.next2, l1.prev2, l1.head[y], l1.tail[y], cs1[y])
  <2>1. CASE y = x
    BY <1>1, <1>2, <1>3, <2>1
  <2>2. CASE y # x
    <3>1. ChainOK(l1.next2, l1.prev2, l.head[y], l.tail[y], cs[y])
      <4>1. cs[y] \in Seq(Threads) /\ ChainOK(l.next2, l.prev2, l.head[y], l.tail[y], cs[y])
        BY <1>2
      <4> QED BY <1>4, <2>2, <4>1, ChainFrame
    <3> QED BY <1>2, <1>3, <2>2, <3>1
  <2> QED BY <2>1, <2>2
<1>6. \A y, z \in Queues : \A n \in Threads : On(cs1[y], n) /\ On(cs1[z], n) => y = z
  BY <1>2, <1>3, <1>4
<1>7. \A n \in Threads :
        (\A y \in Queues : ~On(cs1[y], n)) => l1.next2[n] = NoNode /\ l1.prev2[n] = NoNode
  <2> SUFFICES ASSUME NEW n \in Threads, \A y \in Queues : ~On(cs1[y], n)
               PROVE  l1.next2[n] = NoNode /\ l1.prev2[n] = NoNode
    OBVIOUS
  <2>1. (\A y \in Queues : y # x => ~On(cs[y], n)) /\ ~On(t, n)
    BY <1>2, <1>3
  <2> QED BY <2>1 DEF Relinked
<1>8. LRep(l1, cs1)
  BY <1>3, <1>5, <1>6, <1>7 DEF Relinked, LRep
<1> QED BY <1>8 DEF cs1

(* pthipth_queue_add                                                       *)
LEMMA AddRep ==
  ASSUME NEW l, NEW cs, LRep(l, cs), NEW x \in Queues, NEW n \in Threads,
         \A y \in Queues : ~On(cs[y], n)
  PROVE  LRep(QueueAdd(l, x, n), [cs EXCEPT ![x] = Append(cs[x], n)])
<1> DEFINE c == cs[x]
           t == Append(c, n)
           l1 == QueueAdd(l, x, n)
<1>1. /\ l.next2 \in [Threads -> Pointers] /\ l.prev2 \in [Threads -> Pointers]
      /\ l.head \in [Queues -> Pointers] /\ l.tail \in [Queues -> Pointers]
      /\ l = [next2 |-> l.next2, prev2 |-> l.prev2, head |-> l.head, tail |-> l.tail]
      /\ cs \in [Queues -> Seq(Threads)] /\ c \in Seq(Threads) /\ Distinct(c) /\ ~On(c, n)
      /\ \A y, z \in Queues : \A m \in Threads : On(cs[y], m) /\ On(cs[z], m) => y = z
      /\ \A m \in Threads :
           (\A y \in Queues : ~On(cs[y], m)) => l.next2[m] = NoNode /\ l.prev2[m] = NoNode
      /\ n \in Pointers /\ NoNode \in Pointers
  BY DEF LRep, Pointers
<1>2. ChainOK(l.next2, l.prev2, l.head[x], l.tail[x], c)
  BY DEF LRep
<1>3. \A m : On(t, m) <=> On(c, m) \/ m = n
  BY <1>1, OnAppend
<1>4. t \in Seq(Threads) /\ Distinct(t)
  <2>1. /\ Len(c) \in Nat /\ Len(t) = Len(c) + 1 /\ t \in Seq(Threads)
        /\ \A i \in 1 .. Len(t) : t[i] = IF i = Len(c) + 1 THEN n ELSE c[i]
    BY <1>1
  <2>2. \A i \in 1 .. Len(c) : c[i] # n
    BY <1>1 DEF On
  <2>3. \A i, j \in 1 .. Len(c) : c[i] = c[j] => i = j
    BY <1>1 DEF Distinct
  <2> HIDE DEF t, c
  <2>4. ASSUME NEW i \in 1 .. Len(t), NEW j \in 1 .. Len(t), t[i] = t[j] PROVE i = j
    <3>1. CASE i \in 1 .. Len(c) /\ j \in 1 .. Len(c)
      BY <2>1, <2>3, <2>4, <3>1
    <3>2. CASE i \in 1 .. Len(c) /\ j = Len(c) + 1
      BY <2>1, <2>2, <2>4, <3>2
    <3>3. CASE i = Len(c) + 1 /\ j \in 1 .. Len(c)
      BY <2>1, <2>2, <2>4, <3>3
    <3>4. CASE i = Len(c) + 1 /\ j = Len(c) + 1
      BY <3>4
    <3> QED BY <2>1, <3>1, <3>2, <3>3, <3>4
  <2> QED BY <2>1, <2>4 DEF Distinct
<1>5. (c = <<>> <=> l.head[x] = NoNode) /\ (c = <<>> <=> l.tail[x] = NoNode)
  BY <1>1, <1>2, ChainEnds
<1> HIDE DEF t, c
<1>6. ASSUME NEW first \in Pointers, NEW next \in [Threads -> Pointers], NEW prev \in [Threads -> Pointers],
             l1 = [next2 |-> next, prev2 |-> prev,
                   head |-> [l.head EXCEPT ![x] = first], tail |-> [l.tail EXCEPT ![x] = n]],
             ChainOK(next, prev, first, n, t),
             \A m \in Threads : m # n /\ ~On(c, m) => next[m] = l.next2[m] /\ prev[m] = l.prev2[m]
      PROVE  LRep(l1, [cs EXCEPT ![x] = t])
  <2> HIDE DEF l1
  <2>1. /\ l1.next2 = next /\ l1.prev2 = prev
        /\ l1.head = [l.head EXCEPT ![x] = first] /\ l1.tail = [l.tail EXCEPT ![x] = n]
        /\ l1 = [next2 |-> l1.next2, prev2 |-> l1.prev2, head |-> l1.head, tail |-> l1.tail]
    BY <1>6
  <2>2. \E first1, last1 \in Pointers :
          /\ l1.head = [l.head EXCEPT ![x] = first1] /\ l1.tail = [l.tail EXCEPT ![x] = last1]
          /\ ChainOK(l1.next2, l1.prev2, first1, last1, t)
    BY <1>1, <1>6, <2>1
  <2>3. \A y \in Queues : y # x => \A m \in Threads : On(cs[y], m) =>
          ~On(t, m) /\ l1.next2[m] = l.next2[m] /\ l1.prev2[m] = l.prev2[m]
    <3> SUFFICES ASSUME NEW y \in Queues, y # x, NEW m \in Threads, On(cs[y], m)
                 PROVE  ~On(t, m) /\ l1.next2[m] = l.next2[m] /\ l1.prev2[m] = l.prev2[m]
      OBVIOUS
    <3>1. m # n /\ ~On(c, m)
      BY <1>1 DEF c
    <3> QED BY <1>3, <1>6, <2>1, <3>1
  <2>4. \A m \in Threads : (\A y \in Queues : y # x => ~On(cs[y], m)) /\ ~On(t, m) =>
          l1.next2[m] = NoNode /\ l1.prev2[m] = NoNode
    <3> SUFFICES ASSUME NEW m \in Threads, \A y \in Queues : y # x => ~On(cs[y], m), ~On(t, m)
                 PROVE  l1.next2[m] = NoNode /\ l1.prev2[m] = NoNode
      OBVIOUS
    <3>1. m # n /\ ~On(c, m)
      BY <1>3
    <3>2. \A y \in Queues : ~On(cs[y], m)
      BY <3>1 DEF c
    <3> QED BY <1>1, <1>6, <2>1, <3>1, <3>2
  <2>5. Relinked(l, cs, l1, x, t)
    BY <1>4, <1>6, <2>1, <2>2, <2>3, <2>4 DEF Relinked
  <2> QED BY <2>5, OneList
<1>7. CASE c = <<>>
  <2> DEFINE next == [l.next2 EXCEPT ![n] = NoNode]
             prev == [l.prev2 EXCEPT ![n] = NoNode]
  <2>1. l1 = [next2 |-> next, prev2 |-> prev,
              head |-> [l.head EXCEPT ![x] = n], tail |-> [l.tail EXCEPT ![x] = n]]
    BY <1>1, <1>5, <1>7 DEF QueueAdd, QueueInit
  <2>2. t = <<n>>
    BY <1>7 DEF t
  <2>3. next \in [Threads -> Pointers] /\ prev \in [Threads -> Pointers]
    BY <1>1
  <2>4. ChainOK(next, prev, n, n, t)
    BY <1>1, <2>2 DEF ChainOK
  <2>5. \A m \in Threads : m # n /\ ~On(c, m) => next[m] = l.next2[m] /\ prev[m] = l.prev2[m]
    BY <1>1
  <2> DEFINE first == n
  <2>7. /\ first \in Pointers /\ ChainOK(next, prev, first, n, t)
        /\ l1 = [next2 |-> next, prev2 |-> prev,
                 head |-> [l.head EXCEPT ![x] = first], tail |-> [l.tail EXCEPT ![x] = n]]
    BY <1>1, <2>1, <2>4
  <2> HIDE DEF l1, next, prev, first
  <2>6. LRep(l1, [cs EXCEPT ![x] = t])
    BY <1>6, <2>3, <2>5, <2>7
  <2> QED BY <2>6 DEF l1, t, c
<1>8. CASE c # <<>>
  <2> DEFINE first == l.head[x]
             last == l.tail[x]
             next == [l.next2 EXCEPT ![n] = NoNode, ![last] = n]
             prev == [l.prev2 EXCEPT ![n] = last]
  <2>1. first \in Threads /\ last \in Threads /\ On(c, last)
    BY <1>1, <1>2, <1>8, ChainEnds
  <2>2. l1 = [next2 |-> next, prev2 |-> prev, head |-> l.head, tail |-> [l.tail EXCEPT ![x] = n]]
    BY <1>1, <1>5, <1>8 DEF QueueAdd
  <2>3. l.head = [l.head EXCEPT ![x] = first]
    BY <1>1
  <2>4. next \in [Threads -> Pointers] /\ prev \in [Threads -> Pointers] /\ first \in Pointers
    BY <1>1, <2>1 DEF Pointers
  <2>5. ChainOK(next, prev, first, n, t)
    BY <1>1, <1>2, <1>8, ChainAppend DEF t
  <2>6. \A m \in Threads : m # n /\ ~On(c, m) => next[m] = l.next2[m] /\ prev[m] = l.prev2[m]
    BY <1>1, <2>1
  <2>7. l1 = [next2 |-> next, prev2 |-> prev,
              head |-> [l.head EXCEPT ![x] = first], tail |-> [l.tail EXCEPT ![x] = n]]
    <3> HIDE DEF l1, next, prev, first
    <3> QED BY <2>2, <2>3
  <2> HIDE DEF l1, next, prev, first
  <2>8. LRep(l1, [cs EXCEPT ![x] = t])
    BY <1>6, <2>4, <2>5, <2>6, <2>7
  <2> QED BY <2>8 DEF l1, t, c
<1> QED BY <1>7, <1>8

(* pthipth_queue_delete                                                    *)
LEMMA TakeRep ==
  ASSUME NEW l, NEW cs, LRep(l, cs), NEW x \in Queues, NEW n \in Threads, On(cs[x], n)
  PROVE  LRep(QueueDelete(l, x, n), [cs EXCEPT ![x] = V!Without(cs[x], n)])
<1> DEFINE c == cs[x]
           t == V!Without(c, n)
           l1 == QueueDelete(l, x, n)
           after == l.next2[n]
           before == l.prev2[n]
<1>1. /\ l.next2 \in [Threads -> Pointers] /\ l.prev2 \in [Threads -> Pointers]
      /\ l.head \in [Queues -> Pointers] /\ l.tail \in [Queues -> Pointers]
      /\ l = [next2 |-> l.next2, prev2 |-> l.prev2, head |-> l.head, tail |-> l.tail]
      /\ cs \in [Queues -> Seq(Threads)] /\ c \in Seq(Threads) /\ Distinct(c) /\ On(c, n)
      /\ \A y, z \in Queues : \A m \in Threads : On(cs[y], m) /\ On(cs[z], m) => y = z
      /\ \A m \in Threads :
           (\A y \in Queues : ~On(cs[y], m)) => l.next2[m] = NoNode /\ l.prev2[m] = NoNode
      /\ n \in Pointers /\ NoNode \in Pointers
  BY DEF LRep, Pointers
<1>2. ChainOK(l.next2, l.prev2, l.head[x], l.tail[x], c)
  BY DEF LRep
<1>3. /\ t \in Seq(Threads) /\ Distinct(t) /\ (\A m : On(t, m) <=> On(c, m) /\ m # n)
      /\ \E k \in 1 .. Len(c) :
           /\ c[k] = n /\ Len(t) = Len(c) - 1
           /\ \A i \in 1 .. Len(c) - 1 : t[i] = IF i < k THEN c[i] ELSE c[i + 1]
  BY <1>1, OnWithout
<1> HIDE DEF t, c
<1>4. PICK k \in 1 .. Len(c) :
        /\ c[k] = n /\ Len(t) = Len(c) - 1
        /\ \A i \in 1 .. Len(c) - 1 : t[i] = IF i < k THEN c[i] ELSE c[i + 1]
  BY <1>3
<1>5. IsCut(c, k, n, t)
  BY <1>3, <1>4 DEF IsCut
<1>6. /\ c # <<>> /\ l.head[x] \in Threads /\ l.tail[x] \in Threads
      /\ (l.head[x] = n <=> k = 1) /\ (l.tail[x] = n <=> k = Len(c))
  <2>1. c # <<>> /\ 1 \in 1 .. Len(c) /\ Len(c) \in 1 .. Len(c)
    BY <1>1, <1>4
  <2>2. l.head[x] \in Threads /\ l.tail[x] \in Threads /\ l.head[x] = c[1] /\ l.tail[x] = c[Len(c)]
    BY <1>1, <1>2, <2>1, ChainEnds
  <2> QED BY <1>1, <1>4, <2>1, <2>2 DEF Distinct
<1>7. /\ after = IF k = Len(c) THEN NoNode ELSE c[k + 1]
      /\ before = IF k = 1 THEN NoNode ELSE c[k - 1]
  BY <1>2, <1>4 DEF ChainOK
<1>8. /\ k # Len(c) => after \in Threads /\ On(c, after) /\ after # n
      /\ k # 1 => before \in Threads /\ On(c, before) /\ before # n
  <2>1. ASSUME k # Len(c) PROVE after \in Threads /\ On(c, after) /\ after # n
    <3>1. k + 1 \in 1 .. Len(c) /\ k + 1 # k
      BY <1>1, <2>1
    <3> QED BY <1>1, <1>4, <1>7, <2>1, <3>1 DEF On, Distinct
  <2>2. ASSUME k # 1 PROVE before \in Threads /\ On(c, before) /\ before # n
    <3>1. k - 1 \in 1 .. Len(c) /\ k - 1 # k
      BY <1>1, <2>2
    <3> QED BY <1>1, <1>4, <1>7, <2>2, <3>1 DEF On, Distinct
  <2> QED BY <2>1, <2>2
<1> DEFINE next == [m \in Threads |-> IF m = n THEN NoNode
                                      ELSE IF m = before THEN after ELSE l.next2[m]]
           prev == [m \in Threads |-> IF m = n THEN NoNode
                                      ELSE IF m = after THEN before ELSE l.prev2[m]]
           first == IF k = 1 THEN after ELSE l.head[x]
           last == IF k = Len(c) THEN before ELSE l.tail[x]
           head == [l.head EXCEPT ![x] = first]
           tail == [l.tail EXCEPT ![x] = last]
<1>9. after \in Pointers /\ before \in Pointers /\ NoNode \notin Threads
  BY <1>1, PointerAssumption
<1>10. l1 = [next2 |-> next, prev2 |-> prev, head |-> head, tail |-> tail]
  <2> DEFINE u == QueueCut(l, x, n)
  <2>1. l1 = [u EXCEPT !.next2[n] = NoNode, !.prev2[n] = NoNode]
    BY <1>6, <1>9 DEF QueueDelete
  <2>2. ASSUME NEW un \in [Threads -> Pointers], NEW up \in [Threads -> Pointers],
               u = [next2 |-> un, prev2 |-> up, head |-> head, tail |-> tail],
               \A m \in Threads : m # n => un[m] = next[m] /\ up[m] = prev[m]
        PROVE  l1 = [next2 |-> next, prev2 |-> prev, head |-> head, tail |-> tail]
    <3>1. [un EXCEPT ![n] = NoNode] = next /\ [up EXCEPT ![n] = NoNode] = prev
      BY <2>2
    <3> HIDE DEF l1, u, next, prev, head, tail
    <3> QED BY <2>1, <2>2, <3>1
  <2>3. CASE k = 1 /\ k = Len(c)
    <3>1. u = [next2 |-> l.next2, prev2 |-> l.prev2,
               head |-> [l.head EXCEPT ![x] = NoNode], tail |-> [l.tail EXCEPT ![x] = NoNode]]
      BY <1>1, <1>6, <2>3 DEF QueueCut
    <3>2. after = NoNode /\ before = NoNode
      BY <1>7, <2>3
    <3>3. [l.head EXCEPT ![x] = NoNode] = head /\ [l.tail EXCEPT ![x] = NoNode] = tail
      BY <2>3, <3>2
    <3>4. \A m \in Threads : m # n => l.next2[m] = next[m] /\ l.prev2[m] = prev[m]
      BY <1>9, <3>2
    <3> HIDE DEF u, next, prev, head, tail, l1
    <3>5. u = [next2 |-> l.next2, prev2 |-> l.prev2, head |-> head, tail |-> tail]
      BY <3>1, <3>3
    <3> QED BY <1>1, <3>3, <3>4, <2>2, <3>5
  <2>4. CASE k = 1 /\ k # Len(c)
    <3> DEFINE up == [l.prev2 EXCEPT ![after] = NoNode]
    <3>1. u = [next2 |-> l.next2, prev2 |-> up,
               head |-> [l.head EXCEPT ![x] = after], tail |-> l.tail]
      BY <1>1, <1>6, <2>4 DEF QueueCut
    <3>2. before = NoNode
      BY <1>7, <2>4
    <3>3. [l.head EXCEPT ![x] = after] = head /\ l.tail = tail /\ up \in [Threads -> Pointers]
      BY <1>1, <2>4
    <3>4. \A m \in Threads : m # n => l.next2[m] = next[m] /\ up[m] = prev[m]
      BY <1>1, <1>9, <3>2
    <3> HIDE DEF u, next, prev, head, tail, l1, up
    <3>5. u = [next2 |-> l.next2, prev2 |-> up, head |-> head, tail |-> tail]
      BY <3>1, <3>3
    <3> QED BY <1>1, <3>3, <3>4, <2>2, <3>5
  <2>5. CASE k # 1 /\ k = Len(c)
    <3> DEFINE un == [l.next2 EXCEPT ![before] = NoNode]
    <3>1. u = [next2 |-> un, prev2 |-> l.prev2,
               head |-> l.head, tail |-> [l.tail EXCEPT ![x] = before]]
      BY <1>1, <1>6, <2>5 DEF QueueCut
    <3>2. after = NoNode
      BY <1>7, <2>5
    <3>3. l.head = head /\ [l.tail EXCEPT ![x] = before] = tail /\ un \in [Threads -> Pointers]
      BY <1>1, <2>5
    <3>4. \A m \in Threads : m # n => un[m] = next[m] /\ l.prev2[m] = prev[m]
      BY <1>1, <1>9, <3>2
    <3> HIDE DEF u, next, prev, head, tail, l1, un
    <3>5. u = [next2 |-> un, prev2 |-> l.prev2, head |-> head, tail |-> tail]
      BY <3>1, <3>3
    <3> QED BY <1>1, <3>3, <3>4, <2>2, <3>5
  <2>6. CASE k # 1 /\ k # Len(c)
    <3> DEFINE un == [m \in Threads |-> IF m = before THEN after ELSE l.next2[m]]
               up == [m \in Threads |-> IF m = after THEN before ELSE l.prev2[m]]
    <3>1. u = [next2 |-> un, prev2 |-> up, head |-> l.head, tail |-> l.tail]
      BY <1>1, <1>6, <2>6 DEF QueueCut
    <3>2. l.head = head /\ l.tail = tail
      BY <1>1, <2>6
    <3>3. un \in [Threads -> Pointers] /\ up \in [Threads -> Pointers]
      BY <1>1, <1>9
    <3>4. \A m \in Threads : m # n => un[m] = next[m] /\ up[m] = prev[m]
      OBVIOUS
    <3> HIDE DEF u, next, prev, head, tail, l1, un, up
    <3>5. u = [next2 |-> un, prev2 |-> up, head |-> head, tail |-> tail]
      BY <3>1, <3>2, <3>3
    <3> QED BY <3>2, <3>3, <3>4, <2>2, <3>5
  <2> QED BY <2>3, <2>4, <2>5, <2>6
<1>11. next \in [Threads -> Pointers] /\ prev \in [Threads -> Pointers]
       /\ first \in Pointers /\ last \in Pointers
  BY <1>1, <1>9
<1>12. \A m \in Threads :
         /\ next[m] = IF m = n THEN NoNode ELSE IF m = before THEN after ELSE l.next2[m]
         /\ prev[m] = IF m = n THEN NoNode ELSE IF m = after THEN before ELSE l.prev2[m]
  OBVIOUS
<1>13. EndsOfCut(c, k, after, before, l.head[x], l.tail[x], first, last)
  BY DEF EndsOfCut
<1> HIDE DEF next, prev, first, last
<1>14. Bypassed(l.next2, l.prev2, next, prev, n)
  BY <1>12 DEF Bypassed
<1>15. ChainOK(next, prev, first, last, t)
  BY <1>1, <1>2, <1>5, <1>13, <1>14, ChainCut
<1> HIDE DEF l1
<1>16. /\ l1.next2 = next /\ l1.prev2 = prev /\ l1.head = head /\ l1.tail = tail
       /\ l1 = [next2 |-> l1.next2, prev2 |-> l1.prev2, head |-> l1.head, tail |-> l1.tail]
  <2> HIDE DEF head, tail
  <2> QED BY <1>10
<1>17. \E first1, last1 \in Pointers :
         /\ l1.head = [l.head EXCEPT ![x] = first1] /\ l1.tail = [l.tail EXCEPT ![x] = last1]
         /\ ChainOK(l1.next2, l1.prev2, first1, last1, t)
  BY <1>11, <1>15, <1>16
<1>18. \A m \in Threads : m # n /\ ~On(c, m) => next[m] = l.next2[m] /\ prev[m] = l.prev2[m]
  <2> SUFFICES ASSUME NEW m \in Threads, m # n, ~On(c, m)
               PROVE  next[m] = l.next2[m] /\ prev[m] = l.prev2[m]
    OBVIOUS
  <2>1. m # before /\ m # after
    BY <1>7, <1>8, <1>9
  <2> QED BY <1>12, <2>1
<1>19. \A y \in Queues : y # x => \A m \in Threads : On(cs[y], m) =>
         ~On(t, m) /\ l1.next2[m] = l.next2[m] /\ l1.prev2[m] = l.prev2[m]
  <2> SUFFICES ASSUME NEW y \in Queues, y # x, NEW m \in Threads, On(cs[y], m)
               PROVE  ~On(t, m) /\ l1.next2[m] = l.next2[m] /\ l1.prev2[m] = l.prev2[m]
    OBVIOUS
  <2>1. ~On(c, m)
    BY <1>1 DEF c
  <2>2. m # n
    BY <1>1, <2>1
  <2> QED BY <1>3, <1>16, <1>18, <2>1, <2>2
<1>20. \A m \in Threads : (\A y \in Queues : y # x => ~On(cs[y], m)) /\ ~On(t, m) =>
         l1.next2[m] = NoNode /\ l1.prev2[m] = NoNode
  <2> SUFFICES ASSUME NEW m \in Threads, \A y \in Queues : y # x => ~On(cs[y], m), ~On(t, m)
               PROVE  l1.next2[m] = NoNode /\ l1.prev2[m] = NoNode
    OBVIOUS
  <2>1. CASE m = n
    BY <1>12, <1>16, <2>1
  <2>2. CASE m # n
    <3>1. ~On(c, m)
      BY <1>3, <2>2
    <3>2. \A y \in Queues : ~On(cs[y], m)
      BY <3>1 DEF c
    <3> QED BY <1>1, <1>16, <1>18, <2>2, <3>1, <3>2
  <2> QED BY <2>1, <2>2
<1>21. Relinked(l, cs, l1, x, t)
  BY <1>3, <1>11, <1>16, <1>17, <1>19, <1>20 DEF Relinked
<1> QED BY <1>21, OneList DEF l1, t, c

-----------------------------------------------------------------------------
(* Chain for a structure that need not be the variable links.              *)
Step(l, x, f, k) ==
  IF k = 0 THEN <<>>
  ELSE LET c == f[k - 1]
           n == IF c = <<>> THEN l.head[x] ELSE l.next2[c[Len(c)]]
       IN  IF n = NoNode THEN c ELSE Append(c, n)

ChainOf(l, x) ==
  (CHOOSE f : f = [k \in 0 .. Cardinality(Threads) |-> Step(l, x, f, k)])[Cardinality(Threads)]

(* Chain walks the variable.                                               *)
LEMMA ChainOfLinks == \A x : Chain(x) = ChainOf(links, x)
BY DEF Chain, ChainOf, Step

(* A list without repetition is no longer than there are threads.          *)
LEMMA Bounded ==
  ASSUME NEW c \in Seq(Threads), Distinct(c)
  PROVE  Cardinality(Threads) \in Nat /\ Len(c) <= Cardinality(Threads)
<1> DEFINE S == {n \in Threads : On(c, n)}
<1>1. IsFiniteSet(S) /\ Cardinality(S) = Len(c)
  BY SizeOf
<1>2. S \subseteq Threads
  OBVIOUS
<1> HIDE DEF S
<1>3. Cardinality(S) <= Cardinality(Threads)
  BY <1>2, ThreadsAssumption, FS_Subset
<1>4. Cardinality(Threads) \in Nat
  BY ThreadsAssumption, FS_CardinalityType
<1> QED BY <1>1, <1>3, <1>4

(* The nodes found by walking a list are the list's.                       *)
LEMMA ChainIs ==
  ASSUME NEW l, NEW cs, LRep(l, cs), NEW x \in Queues
  PROVE  ChainOf(l, x) = cs[x]
<1> DEFINE c == cs[x]
           N == Cardinality(Threads)
           L == Len(c)
           w == [k \in 0 .. N |-> IF k <= L THEN SubSeq(c, 1, k) ELSE c]
<1>1. c \in Seq(Threads) /\ Distinct(c) /\ ChainOK(l.next2, l.prev2, l.head[x], l.tail[x], c)
  BY DEF LRep
<1> HIDE DEF c
<1>2. N \in Nat /\ L \in Nat /\ L <= N
  BY <1>1, Bounded
<1>3. c = <<>> <=> l.head[x] = NoNode
  BY <1>1, ChainEnds
<1>4. \A i \in 1 .. L : /\ c[i] \in Threads /\ c[i] # NoNode
                        /\ l.next2[c[i]] = IF i = L THEN NoNode ELSE c[i + 1]
  BY <1>1, PointerAssumption DEF ChainOK
<1> HIDE DEF N
<1>5. \A k \in 0 .. L : /\ SubSeq(c, 1, k) \in Seq(Threads) /\ Len(SubSeq(c, 1, k)) = k
                        /\ \A i \in 1 .. k : SubSeq(c, 1, k)[i] = c[i]
  BY <1>1, <1>2
<1>6. SubSeq(c, 1, L) = c
  BY <1>1
<1>7. \A k \in 0 .. N : w[k] = Step(l, x, w, k)
  <2> SUFFICES ASSUME NEW k \in 0 .. N PROVE w[k] = Step(l, x, w, k)
    OBVIOUS
  <2>1. CASE k = 0
    <3>1. SubSeq(c, 1, 0) = <<>>
      BY <1>1
    <3> QED BY <1>2, <2>1, <3>1 DEF Step
  <2>2. CASE k # 0 /\ k <= L
    <3> DEFINE d == SubSeq(c, 1, k - 1)
               n == IF d = <<>> THEN l.head[x] ELSE l.next2[d[Len(d)]]
    <3>1. k - 1 \in 0 .. N /\ k - 1 \in 0 .. L /\ k \in 1 .. L /\ w[k - 1] = d /\ w[k] = SubSeq(c, 1, k)
      BY <1>2, <2>2
    <3>2. d \in Seq(Threads) /\ Len(d) = k - 1 /\ \A i \in 1 .. k - 1 : d[i] = c[i]
      BY <1>5, <3>1
    <3> HIDE DEF d, w, L
    <3>3. n = c[k]
      <4>1. CASE k = 1
        <5>1. d = <<>>
          BY <3>2, <4>1
        <5>2. c # <<>> /\ l.head[x] = c[1]
          BY <1>1, <1>2, <3>1 DEF ChainOK, L
        <5> QED BY <4>1, <5>1, <5>2
      <4>2. CASE k # 1
        <5>1. k - 1 \in 1 .. L /\ k - 1 \in 1 .. k - 1 /\ k - 1 # L /\ (k - 1) + 1 = k
          BY <1>2, <3>1, <4>2
        <5>2. d # <<>> /\ d[Len(d)] = c[k - 1]
          BY <3>2, <5>1
        <5>3. l.next2[c[k - 1]] = c[k]
          BY <1>4, <5>1
        <5> QED BY <5>2, <5>3
      <4> QED BY <4>1, <4>2
    <3>4. c[k] \in Threads /\ c[k] # NoNode
      BY <1>4, <3>1
    <3>5. Append(d, c[k]) = SubSeq(c, 1, k)
      <4> DEFINE e == SubSeq(c, 1, k)
                 a == Append(d, c[k])
      <4>1. e \in Seq(Threads) /\ Len(e) = k /\ \A i \in 1 .. k : e[i] = c[i]
        BY <1>2, <1>5, <3>1
      <4>2. /\ a \in Seq(Threads) /\ Len(a) = k
            /\ \A i \in 1 .. k : a[i] = IF i = k THEN c[k] ELSE d[i]
        BY <1>2, <3>1, <3>2, <3>4
      <4>3. \A i \in 1 .. k : a[i] = e[i]
        BY <1>2, <3>1, <3>2, <4>1, <4>2
      <4> HIDE DEF e, a
      <4>4. a = e
        BY <4>1, <4>2, <4>3
      <4> QED BY <4>4 DEF a, e
    <3>6. Step(l, x, w, k) = IF n = NoNode THEN d ELSE Append(d, n)
      BY <2>2, <3>1 DEF Step
    <3> QED BY <3>1, <3>3, <3>4, <3>5, <3>6
  <2>3. CASE k # 0 /\ ~(k <= L)
    <3>1. k - 1 \in 0 .. N /\ w[k] = c
      BY <1>2, <2>3
    <3>2. w[k - 1] = c
      <4>1. k - 1 = L \/ ~(k - 1 <= L)
        BY <1>2, <2>3
      <4> QED BY <1>6, <3>1, <4>1
    <3> HIDE DEF w
    <3> DEFINE n == IF c = <<>> THEN l.head[x] ELSE l.next2[c[Len(c)]]
    <3>3. n = NoNode
      <4>1. c # <<>> => Len(c) \in 1 .. L
        BY <1>1
      <4> QED BY <1>3, <1>4, <4>1
    <3>4. Step(l, x, w, k) = IF n = NoNode THEN c ELSE Append(c, n)
      BY <2>3, <3>2 DEF Step
    <3> QED BY <3>1, <3>3, <3>4
  <2> QED BY <2>1, <2>2, <2>3
<1>8. w = [k \in 0 .. N |-> Step(l, x, w, k)]
  <2>1. w = [k \in 0 .. N |-> w[k]]
    OBVIOUS
  <2> HIDE DEF w
  <2> QED BY <1>7, <2>1
<1> HIDE DEF w, L
<1>9. ASSUME NEW f, f = [k \in 0 .. N |-> Step(l, x, f, k)] PROVE f = w
  <2> DEFINE wrong == {k \in 0 .. N : f[k] # w[k]}
  <2>1. \A k \in 0 .. N : f[k] = Step(l, x, f, k)
    BY <1>9
  <2>2. wrong = {}
    <3> SUFFICES ASSUME wrong # {} PROVE FALSE
      OBVIOUS
    <3>1. PICK k \in wrong : \A y \in wrong : k <= y
      <4>1. wrong \in SUBSET Nat
        BY <1>2
      <4> HIDE DEF wrong
      <4> QED BY <4>1, V!MinOf, BucketAssumption
    <3>2. CASE k = 0
      BY <1>7, <2>1, <3>1, <3>2 DEF Step
    <3>3. CASE k # 0
      <4>1. k - 1 \in 0 .. N /\ k - 1 \notin wrong
        BY <1>2, <3>1, <3>3
      <4>2. f[k - 1] = w[k - 1]
        BY <4>1
      <4>3. Step(l, x, f, k) = Step(l, x, w, k)
        BY <3>3, <4>2 DEF Step
      <4> QED BY <1>7, <2>1, <3>1, <4>3
    <3> QED BY <3>2, <3>3
  <2>3. \A k \in 0 .. N : f[k] = w[k]
    BY <2>2
  <2>4. f = [k \in 0 .. N |-> f[k]]
    BY <1>9, <2>1
  <2>5. w = [k \in 0 .. N |-> w[k]]
    BY <1>7, <1>8
  <2> QED BY <2>3, <2>4, <2>5
<1>10. (CHOOSE f : f = [k \in 0 .. N |-> Step(l, x, f, k)]) = w
  BY <1>8, <1>9
<1>11. w[N] = c
  <2>1. N \in 0 .. N /\ (N <= L => N = L)
    BY <1>2
  <2> QED BY <1>6, <2>1 DEF w
<1> QED BY <1>10, <1>11 DEF ChainOf, N, c

-----------------------------------------------------------------------------
(* Priorities are no part of the queue; what is not queued has none.       *)
LEMMA PrioRep ==
  ASSUME NEW r, NEW q, Rep(r, q), NEW n \in Threads, NEW p \in Priorities
  PROVE  /\ Rep(SetPrio(r, n, p), q)
         /\ SetPrio(r, n, p).prio = [r.prio EXCEPT ![n] = p] /\ SetPrio(r, n, p).curp = r.curp
<1> DEFINE r1 == SetPrio(r, n, p)
           prio == [r.prio EXCEPT ![n] = p]
<1>1. r1 = [next |-> r.next, prev |-> r.prev, prio |-> prio, curp |-> r.curp,
            table |-> r.table, tail |-> r.tail, bitmap |-> r.bitmap, head |-> r.head]
  BY DEF Rep, SetPrio
<1>2. prio \in [Threads -> Priorities]
  BY DEF Rep
<1> HIDE DEF r1, prio
<1>3. /\ r1.next = r.next /\ r1.prev = r.prev /\ r1.prio = prio /\ r1.curp = r.curp
      /\ r1.table = r.table /\ r1.tail = r.tail /\ r1.bitmap = r.bitmap /\ r1.head = r.head
      /\ r1 = [next |-> r1.next, prev |-> r1.prev, prio |-> r1.prio, curp |-> r1.curp,
               table |-> r1.table, tail |-> r1.tail, bitmap |-> r1.bitmap, head |-> r1.head]
  BY <1>1
<1>4. Rep(r1, q)
  BY <1>2, <1>3 DEF Rep
<1> QED BY <1>3, <1>4 DEF r1, prio

(* The control block of a thread that is not queued is freed: its priorities *)
(* are zeroed and nothing else.                                            *)
LEMMA FreeRep ==
  ASSUME NEW r, NEW q, Rep(r, q), NEW n \in Threads, ~V!Queued(q, n)
  PROVE  LET r1 == [r EXCEPT !.prio[n] = 0, !.curp[n] = 0] IN
         /\ Rep(r1, q)
         /\ r1.prio = [r.prio EXCEPT ![n] = 0] /\ r1.curp = [r.curp EXCEPT ![n] = 0]
<1> DEFINE r1 == [r EXCEPT !.prio[n] = 0, !.curp[n] = 0]
           prio == [r.prio EXCEPT ![n] = 0]
           curp == [r.curp EXCEPT ![n] = 0]
<1>1. r1 = [next |-> r.next, prev |-> r.prev, prio |-> prio, curp |-> curp,
            table |-> r.table, tail |-> r.tail, bitmap |-> r.bitmap, head |-> r.head]
  <2>1. r = [next |-> r.next, prev |-> r.prev, prio |-> r.prio, curp |-> r.curp,
             table |-> r.table, tail |-> r.tail, bitmap |-> r.bitmap, head |-> r.head]
    BY DEF Rep
  <2>2. r1 = [r EXCEPT !.prio = prio, !.curp = curp]
    BY <2>1
  <2> HIDE DEF r1, prio, curp
  <2> QED BY <2>1, <2>2
<1>2. /\ prio \in [Threads -> Priorities] /\ curp \in [Threads -> Priorities \cup {-1}]
      /\ \A m \in Threads : m # n => curp[m] = r.curp[m]
  BY BucketAssumption DEF Rep, Priorities
<1>3. \A x \in Priorities : ~On(q.bucket[x], n)
  BY GoodIs DEF Rep
<1> HIDE DEF r1, prio, curp
<1>4. /\ r1.next = r.next /\ r1.prev = r.prev /\ r1.prio = prio /\ r1.curp = curp
      /\ r1.table = r.table /\ r1.tail = r.tail /\ r1.bitmap = r.bitmap /\ r1.head = r.head
      /\ r1 = [next |-> r1.next, prev |-> r1.prev, prio |-> r1.prio, curp |-> r1.curp,
               table |-> r1.table, tail |-> r1.tail, bitmap |-> r1.bitmap, head |-> r1.head]
  BY <1>1
<1>5. \A x \in Priorities : \A m \in Threads : On(q.bucket[x], m) => r1.curp[m] = x
  BY <1>2, <1>3, <1>4 DEF Rep
<1>6. Rep(r1, q)
  BY <1>2, <1>4, <1>5 DEF Rep
<1> QED BY <1>4, <1>6 DEF r1, prio, curp

(* Who is queued after the operations on the value.                        *)
LEMMA QueuedAfterInsert ==
  ASSUME NEW q, V!Good(q), NEW n \in Threads, ~V!Queued(q, n), NEW p \in Priorities \ {IdlePriority}
  PROVE  \A m : V!Queued(V!BqInsert(q, n, p), m) <=> V!Queued(q, m) \/ m = n
<1> DEFINE q1 == V!BqInsert(q, n, p)
<1>1. /\ V!Good(q1)
      /\ \A x \in Priorities : \A m :
           V!Contains(q1.bucket[x], m) <=> V!Contains(q.bucket[x], m) \/ (x = p /\ m = n)
  BY V!InsertHolds, BucketAssumption DEF V!Priorities, Priorities
<1> HIDE DEF q1
<1>2. DOMAIN q.bucket = Priorities /\ DOMAIN q1.bucket = Priorities
  BY <1>1 DEF V!Good, V!Priorities, Priorities
<1>3. \A m : V!Queued(q1, m) <=> V!Queued(q, m) \/ m = n
  BY <1>1, <1>2 DEF V!Queued
<1> QED BY <1>3 DEF q1

(* A delete takes one thread away.                                         *)
LEMMA QueuedAfterDelete ==
  ASSUME NEW q, V!Good(q), NEW n \in Threads \ {IdleThread}
  PROVE  \A m : V!Queued(V!BqDelete(q, n), m) <=> V!Queued(q, m) /\ m # n
<1> DEFINE q1 == V!BqDelete(q, n)
<1>1. /\ V!Good(q1)
      /\ \A x \in Priorities : \A m :
           V!Contains(q1.bucket[x], m) <=> V!Contains(q.bucket[x], m) /\ m # n
  BY V!DeleteHolds, BucketAssumption DEF V!Priorities, Priorities
<1> HIDE DEF q1
<1>2. DOMAIN q.bucket = Priorities /\ DOMAIN q1.bucket = Priorities
  BY <1>1 DEF V!Good, V!Priorities, Priorities
<1>3. \A m : V!Queued(q1, m) <=> V!Queued(q, m) /\ m # n
  BY <1>1, <1>2 DEF V!Queued
<1> QED BY <1>3 DEF q1

(* A rotation takes nobody away and adds nobody.                           *)
LEMMA QueuedAfterRotate ==
  ASSUME NEW q, V!Good(q)
  PROVE  \A m : V!Queued(V!BqRotate(q), m) <=> V!Queued(q, m)
<1> DEFINE q1 == V!BqRotate(q)
<1>1. /\ V!Good(q1)
      /\ \A x \in Priorities : \A m :
           V!Contains(q1.bucket[x], m) <=> V!Contains(q.bucket[x], m)
  BY V!RotateHolds, BucketAssumption DEF V!Priorities, Priorities
<1> HIDE DEF q1
<1>2. DOMAIN q.bucket = Priorities /\ DOMAIN q1.bucket = Priorities
  BY <1>1 DEF V!Good, V!Priorities, Priorities
<1>3. \A m : V!Queued(q1, m) <=> V!Queued(q, m)
  BY <1>1, <1>2 DEF V!Queued
<1> QED BY <1>3 DEF q1

(* The idle thread is queued.                                              *)
LEMMA IdleQueued ==
  ASSUME NEW q, V!Good(q)
  PROVE  V!Queued(q, IdleThread) /\ IdlePriority \in Priorities
         /\ \A n : On(q.bucket[IdlePriority], n) => n = IdleThread
<1>1. IdlePriority \in Priorities
  BY BucketAssumption DEF Priorities
<1>2. On(q.bucket[IdlePriority], IdleThread) /\ \A n : On(q.bucket[IdlePriority], n) => n = IdleThread
  <2>1. q.bucket[IdlePriority] = <<IdleThread>>
    BY GoodIs
  <2>2. On(<<IdleThread>>, IdleThread) /\ \A n : On(<<IdleThread>>, n) => n = IdleThread
    BY DEF On
  <2> QED BY <2>1, <2>2
<1> QED BY <1>1, <1>2, GoodIs

-----------------------------------------------------------------------------
(* The inductive invariant.  The variables have a queue and three lists in *)
(* their pointers; the READY threads are those queued, each under the      *)
(* priority it has, which is never the idle thread's; the BLOCKED and the  *)
(* SLEEPING ones are on the lists of their states, and only DEFUNCT ones   *)
(* on the third.                                                           *)
ListValue == [x \in Queues |-> Chain(x)]

Agree(q, cs, st, prio, curp) ==
  /\ st \in [Threads -> Queues \cup {"none", "READY"}]
  /\ \A n \in Threads : V!Queued(q, n) <=> st[n] = "READY"
  /\ \A n \in Threads : st[n] = "READY" => curp[n] = prio[n]
  /\ \A n \in Threads \ {IdleThread} : st[n] # "none" => prio[n] # IdlePriority
  /\ \A n \in Threads : \A x \in Queues : On(cs[x], n) => st[n] = x
  /\ \A n \in Threads : \A x \in Queues \ {"DEFUNCT"} : st[n] = x => On(cs[x], n)

IInv ==
  /\ Rep(b, BucketValue)
  /\ LRep(links, ListValue)
  /\ Agree(BucketValue, ListValue, state, b.prio, b.curp)

(* What the pointers of a state hold is the value of that state.           *)
LEMMA Then ==
  ASSUME NEW q1, NEW cs1, Rep(b', q1), LRep(links', cs1)
  PROVE  BucketValue' = q1 /\ ListValue' = cs1
<1>1. BucketValue' = Value(b')
  BY DEF BucketValue, Value
<1>2. \A x : Chain(x)' = ChainOf(links', x)
  BY DEF Chain, ChainOf, Step
<1>3. cs1 \in [Queues -> Seq(Threads)]
  BY DEF LRep
<1>4. ListValue' = [x \in Queues |-> ChainOf(links', x)]
  BY <1>2 DEF ListValue
<1>5. \A x \in Queues : ChainOf(links', x) = cs1[x]
  BY ChainIs
<1>6. ListValue' = cs1
  BY <1>3, <1>4, <1>5
<1> QED BY <1>1, <1>6, ValueIs

(* So the invariant holds after a step if some queue and lists are found.  *)
LEMMA ThenIInv ==
  ASSUME NEW q1, NEW cs1, Rep(b', q1), LRep(links', cs1), Agree(q1, cs1, state', b'.prio, b'.curp)
  PROVE  IInv' /\ BucketValue' = q1 /\ ListValue' = cs1
<1>1. BucketValue' = q1 /\ ListValue' = cs1
  BY Then
<1> QED BY <1>1 DEF IInv

-----------------------------------------------------------------------------
(* Init: the idle thread alone.                                            *)
LEMMA InitIs ==
  Init => IInv /\ BucketValue = V!BqInsert(V!EmptyBuckets(Priorities), IdleThread, IdlePriority)
<1> SUFFICES ASSUME Init
             PROVE  IInv /\ BucketValue = V!BqInsert(V!EmptyBuckets(Priorities), IdleThread, IdlePriority)
  OBVIOUS
<1> DEFINE q == V!BqInsert(V!EmptyBuckets(Priorities), IdleThread, IdlePriority)
           cs == [x \in Queues |-> <<>>]
<1>1. /\ IdleThread \in Threads /\ IdlePriority \in Priorities /\ 0 \in Priorities
      /\ IdleThread # NoNode /\ IdleThread \in Pointers /\ NoNode \in Pointers
  BY BucketAssumption, PointerAssumption DEF Priorities, Pointers
<1>2. /\ q.bucket = [p \in Priorities |-> IF p = IdlePriority THEN <<IdleThread>> ELSE <<>>]
      /\ q.bits = {IdlePriority}
      /\ q = [bucket |-> q.bucket, bits |-> q.bits]
  BY <1>1 DEF V!BqInsert, V!EmptyBuckets
<1> HIDE DEF q
<1>3. V!Good(q)
  <2>1. q.bucket \in [Priorities -> Seq(Threads)]
    BY <1>1, <1>2
  <2>2. V!NoDuplicates(q)
    BY <1>2 DEF V!NoDuplicates
  <2>3. V!BitsSound(q)
    BY <1>1, <1>2 DEF V!BitsSound
  <2> QED BY <1>1, <1>2, <2>1, <2>2, <2>3 DEF V!Good, V!Priorities, Priorities
<1>4. V!Top(q) = IdlePriority
  BY <1>2, <1>3, GoodIs
<1> DEFINE none == [n \in Threads |-> NoNode]
           link == [none EXCEPT ![IdleThread] = IdleThread]
           prio == [[n \in Threads |-> 0] EXCEPT ![IdleThread] = IdlePriority]
           last == [[p \in Priorities |-> NoNode] EXCEPT ![IdlePriority] = IdleThread]
           curp == [[n \in Threads |-> 0] EXCEPT ![IdleThread] = IdlePriority]
<1>5. b = [next |-> link, prev |-> link, prio |-> prio, curp |-> curp,
           table |-> last, tail |-> last, bitmap |-> {IdlePriority}, head |-> IdleThread]
  BY ZenonT(30), <1>1 DEF Init, BqInsert, InsertFirst, Zeroed
<1>6. /\ link \in [Threads -> Pointers] /\ prio \in [Threads -> Priorities]
      /\ curp \in [Threads -> Priorities \cup {-1}] /\ last \in [Priorities -> Pointers]
  BY <1>1
<1>7. /\ \A n \in Threads : /\ link[n] = IF n = IdleThread THEN IdleThread ELSE NoNode
                            /\ prio[n] = IF n = IdleThread THEN IdlePriority ELSE 0
                            /\ curp[n] = prio[n]
      /\ \A p \in Priorities : last[p] = IF p = IdlePriority THEN IdleThread ELSE NoNode
  BY <1>1
<1> HIDE DEF none, link, prio, last, curp
<1>8. /\ b.next = link /\ b.prev = link /\ b.prio = prio /\ b.curp = curp
      /\ b.table = last /\ b.tail = last /\ b.bitmap = {IdlePriority} /\ b.head = IdleThread
      /\ b = [next |-> b.next, prev |-> b.prev, prio |-> b.prio, curp |-> b.curp,
              table |-> b.table, tail |-> b.tail, bitmap |-> b.bitmap, head |-> b.head]
  BY <1>5
<1>9. \A p \in Priorities : \A n : On(q.bucket[p], n) <=> p = IdlePriority /\ n = IdleThread
  <2>1. \A n : (On(<<IdleThread>>, n) <=> n = IdleThread) /\ ~On(<<>>, n)
    BY DEF On
  <2> QED BY <1>2, <2>1
<1>10. Rep(b, q)
  <2>1. ASSUME NEW p \in Priorities
        PROVE  RingOK(b.next, b.prev, b.table[p], b.tail[p], q.bucket[p])
    <3>1. CASE p = IdlePriority
      <4>1. RingOK(link, link, IdleThread, IdleThread, <<IdleThread>>)
        BY <1>1, <1>7 DEF RingOK
      <4> QED BY <1>2, <1>7, <1>8, <3>1, <4>1
    <3>2. CASE p # IdlePriority
      BY <1>2, <1>7, <1>8, <3>2 DEF RingOK
    <3> QED BY <3>1, <3>2
  <2>2. \A n \in Threads : b.next[n] # NoNode => \E p \in Priorities : On(q.bucket[p], n)
    BY <1>1, <1>7, <1>8, <1>9
  <2>3. \A p \in Priorities : \A n \in Threads : On(q.bucket[p], n) => b.curp[n] = p
    BY <1>1, <1>7, <1>8, <1>9
  <2>4. b.head = b.table[V!Top(q)] /\ b.bitmap = q.bits
    BY <1>1, <1>2, <1>4, <1>7, <1>8
  <2> QED BY <1>3, <1>6, <1>8, <2>1, <2>2, <2>3, <2>4 DEF Rep
<1>11. BucketValue = q
  BY <1>10, ValueIs DEF BucketValue, Value
<1>12. LRep(links, cs)
  <2> DEFINE nil == [x \in Queues |-> NoNode]
  <2>1. links = [next2 |-> none, prev2 |-> none, head |-> nil, tail |-> nil]
    BY DEF Init, none
  <2>2. none \in [Threads -> Pointers] /\ nil \in [Queues -> Pointers] /\ cs \in [Queues -> Seq(Threads)]
    BY <1>1 DEF none
  <2>3. (\A n \in Threads : none[n] = NoNode) /\ (\A x \in Queues : nil[x] = NoNode /\ cs[x] = <<>>)
    BY DEF none
  <2>4. ChainOK(none, none, NoNode, NoNode, <<>>) /\ Distinct(<<>>) /\ \A n : ~On(<<>>, n)
    BY DEF ChainOK, Distinct, On
  <2> HIDE DEF nil, cs
  <2>5. /\ links.next2 = none /\ links.prev2 = none /\ links.head = nil /\ links.tail = nil
        /\ links = [next2 |-> links.next2, prev2 |-> links.prev2, head |-> links.head, tail |-> links.tail]
    BY <2>1
  <2> QED BY <2>2, <2>3, <2>4, <2>5 DEF LRep
<1>13. ListValue = cs
  <2>1. \A x \in Queues : Chain(x) = cs[x]
    BY <1>12, ChainIs, ChainOfLinks
  <2> QED BY <2>1 DEF ListValue
<1>14. Agree(q, cs, state, b.prio, b.curp)
  <2>1. state = [n \in Threads |-> IF n = IdleThread THEN "READY" ELSE "none"]
    BY DEF Init
  <2>2. \A n \in Threads : state[n] = IF n = IdleThread THEN "READY" ELSE "none"
    BY <2>1
  <2>3. state \in [Threads -> Queues \cup {"none", "READY"}]
    BY <2>1
  <2>4. \A n : V!Queued(q, n) <=> n = IdleThread
    BY <1>1, <1>3, <1>9, GoodIs
  <2>5. \A x \in Queues : \A n : ~On(cs[x], n)
    BY DEF On
  <2>6. \A x \in Queues : x # "READY" /\ x # "none"
    BY DEF Queues
  <2> QED BY <1>7, <1>8, <2>2, <2>3, <2>4, <2>5, <2>6 DEF Agree
<1> QED BY <1>10, <1>11, <1>12, <1>13, <1>14 DEF IInv, q

(* pthipth_create                                                          *)
LEMMA CreateStep ==
  ASSUME IInv, NEW n \in Threads \ {IdleThread}, NEW p \in Priorities \ {IdlePriority}, Create(n, p)
  PROVE  /\ IInv' /\ ~V!Queued(BucketValue, n)
         /\ BucketValue' = V!BqInsert(BucketValue, n, p) /\ ListValue' = ListValue
<1> DEFINE q == BucketValue
           cs == ListValue
           r == SetPrio(b, n, p)
           q1 == V!BqInsert(q, n, p)
<1>1. Rep(b, q) /\ LRep(links, cs) /\ Agree(q, cs, state, b.prio, b.curp) /\ V!Good(q)
  BY DEF IInv, Rep
<1> HIDE DEF q, cs
<1>2. state[n] = "none" /\ state' = [state EXCEPT ![n] = "READY"] /\ b' = BqInsert(r, n) /\ links' = links
  BY DEF Create
<1>3. ~V!Queued(q, n)
  BY <1>1, <1>2 DEF Agree
<1>4. Rep(r, q) /\ r.prio = [b.prio EXCEPT ![n] = p] /\ r.curp = b.curp
  BY <1>1, PrioRep
<1> HIDE DEF r
<1>5. b.prio \in [Threads -> Priorities] /\ b.curp \in [Threads -> Priorities \cup {-1}]
  BY <1>1 DEF Rep
<1>6. r.prio[n] = p /\ \A m \in Threads : m # n => r.prio[m] = b.prio[m]
  BY <1>4, <1>5
<1>7. \A m \in Threads : V!Queued(q, m) => r.prio[m] = r.curp[m]
  BY <1>1, <1>3, <1>4, <1>6 DEF Agree
<1>8. Rep(b', q1) /\ b'.prio = r.prio /\ b'.curp = [r.curp EXCEPT ![n] = p]
  <2> HIDE DEF q1
  <2>1. r.prio[n] # IdlePriority
    BY <1>6
  <2>2. /\ Rep(BqInsert(r, n), V!BqInsert(q, n, r.prio[n])) /\ BqInsert(r, n).prio = r.prio
        /\ BqInsert(r, n).curp = [r.curp EXCEPT ![n] = r.prio[n]]
    <3>1. Rep(r, q)
      BY <1>4
    <3> QED BY <1>3, <1>7, <2>1, <3>1, InsertRep
  <2> QED BY <1>2, <1>6, <2>2 DEF q1
<1>9. LRep(links', cs)
  BY <1>1, <1>2
<1>10. \A m : V!Queued(q1, m) <=> V!Queued(q, m) \/ m = n
  BY <1>1, <1>3, QueuedAfterInsert
<1> HIDE DEF q1
<1>11. Agree(q1, cs, state', b'.prio, b'.curp)
  <2>1. /\ state' \in [Threads -> Queues \cup {"none", "READY"}]
        /\ \A m \in Threads : state'[m] = IF m = n THEN "READY" ELSE state[m]
    BY <1>1, <1>2 DEF Agree
  <2>2. \A m \in Threads : /\ b'.prio[m] = IF m = n THEN p ELSE b.prio[m]
                           /\ b'.curp[m] = IF m = n THEN p ELSE b.curp[m]
    BY <1>4, <1>5, <1>6, <1>8
  <2>3. \A x \in Queues : x # "READY" /\ x # "none"
    BY DEF Queues
  <2> QED BY <1>1, <1>2, <1>10, <2>1, <2>2, <2>3 DEF Agree
<1>12. IInv' /\ BucketValue' = q1 /\ ListValue' = cs
  BY <1>8, <1>9, <1>11, ThenIInv
<1> QED BY <1>3, <1>12 DEF q1, q, cs

(* The READY thread n leaves the queue and goes to the list to, or to none. *)
LEMMA LeaveStep ==
  ASSUME IInv, NEW n \in Threads \ {IdleThread}, state[n] = "READY", NEW to \in Queues,
         state' = [state EXCEPT ![n] = to], b' = BqDelete(b, n),
         \/ links' = QueueAdd(links, to, n)
         \/ to = "DEFUNCT" /\ links' = links
  PROVE  /\ IInv' /\ V!Queued(BucketValue, n)
         /\ BucketValue' = V!BqDelete(BucketValue, n)
         /\ links' = QueueAdd(links, to, n) =>
              ListValue' = [ListValue EXCEPT ![to] = Append(ListValue[to], n)]
         /\ links' = links => ListValue' = ListValue
<1> DEFINE q == BucketValue
           cs == ListValue
           q1 == V!BqDelete(q, n)
           cs1 == [cs EXCEPT ![to] = Append(cs[to], n)]
<1>1. Rep(b, q) /\ LRep(links, cs) /\ Agree(q, cs, state, b.prio, b.curp) /\ V!Good(q)
  BY DEF IInv, Rep
<1> HIDE DEF q, cs
<1>2. V!Queued(q, n)
  BY <1>1 DEF Agree
<1>3. Rep(b', q1) /\ b'.prio = b.prio /\ b'.curp = [b.curp EXCEPT ![n] = -1]
  BY <1>1, <1>2, DeleteRep
<1>4. \A m : V!Queued(q1, m) <=> V!Queued(q, m) /\ m # n
  BY <1>1, QueuedAfterDelete
<1>5. \A x \in Queues : x # "READY" /\ x # "none"
  BY DEF Queues
<1>6. \A x \in Queues : ~On(cs[x], n)
  BY <1>1, <1>5 DEF Agree
<1>7. LRep(QueueAdd(links, to, n), cs1)
  BY <1>1, <1>6, AddRep
<1>8. cs \in [Queues -> Seq(Threads)]
  BY <1>1 DEF LRep
<1>9. /\ \A x \in Queues : x # to => cs1[x] = cs[x]
      /\ \A m : On(cs1[to], m) <=> On(cs[to], m) \/ m = n
  <2>1. cs1[to] = Append(cs[to], n) /\ cs[to] \in Seq(Threads) /\ \A x \in Queues : x # to => cs1[x] = cs[x]
    BY <1>8
  <2> QED BY <2>1, OnAppend
<1> HIDE DEF q1, cs1
<1>10. /\ state' \in [Threads -> Queues \cup {"none", "READY"}]
       /\ \A m \in Threads : state'[m] = IF m = n THEN to ELSE state[m]
  BY <1>1 DEF Agree
<1>11. \A m \in Threads : /\ b'.prio[m] = b.prio[m]
                          /\ m # n => b'.curp[m] = b.curp[m]
  BY <1>1, <1>3 DEF Rep
<1>12. /\ \A m \in Threads : V!Queued(q1, m) <=> state'[m] = "READY"
       /\ \A m \in Threads : state'[m] = "READY" => b'.curp[m] = b'.prio[m]
       /\ \A m \in Threads \ {IdleThread} : state'[m] # "none" => b'.prio[m] # IdlePriority
  <2>1. \A m \in Threads : /\ V!Queued(q, m) <=> state[m] = "READY"
                           /\ state[m] = "READY" => b.curp[m] = b.prio[m]
    BY <1>1 DEF Agree
  <2>2. \A m \in Threads \ {IdleThread} : state[m] # "none" => b.prio[m] # IdlePriority
    BY <1>1 DEF Agree
  <2> QED BY <1>4, <1>5, <1>10, <1>11, <2>1, <2>2
<1>13. /\ \A m \in Threads : \A x \in Queues : On(cs[x], m) => state[m] = x
       /\ \A m \in Threads : \A x \in Queues \ {"DEFUNCT"} : state[m] = x => On(cs[x], m)
  BY <1>1 DEF Agree
<1>14. CASE links' = QueueAdd(links, to, n)
  <2>1. LRep(links', cs1)
    BY <1>7, <1>14
  <2>2. Agree(q1, cs1, state', b'.prio, b'.curp)
    <3>1. \A m \in Threads : \A x \in Queues : On(cs1[x], m) => state'[m] = x
      BY <1>6, <1>9, <1>10, <1>13
    <3>2. \A m \in Threads : \A x \in Queues \ {"DEFUNCT"} : state'[m] = x => On(cs1[x], m)
      BY <1>9, <1>10, <1>13
    <3> QED BY <1>10, <1>12, <3>1, <3>2 DEF Agree
  <2>3. IInv' /\ BucketValue' = q1 /\ ListValue' = cs1
    BY <1>3, <2>1, <2>2, ThenIInv
  <2>4. links' = links => ListValue' = cs
    <3>1. ASSUME links' = links PROVE ListValue' = cs
      BY <1>1, <1>3, <3>1, Then
    <3> QED BY <3>1
  <2> QED BY <1>2, <2>3, <2>4 DEF q1, cs1, q, cs
<1>15. CASE to = "DEFUNCT" /\ links' = links
  <2>1. LRep(links', cs)
    BY <1>1, <1>15
  <2>2. Agree(q1, cs, state', b'.prio, b'.curp)
    <3>1. \A m \in Threads : \A x \in Queues : On(cs[x], m) => state'[m] = x
      BY <1>6, <1>10, <1>13
    <3>2. \A m \in Threads : \A x \in Queues \ {"DEFUNCT"} : state'[m] = x => On(cs[x], m)
      BY <1>10, <1>13, <1>15
    <3> QED BY <1>10, <1>12, <3>1, <3>2 DEF Agree
  <2>3. IInv' /\ BucketValue' = q1 /\ ListValue' = cs
    BY <1>3, <2>1, <2>2, ThenIInv
  <2>4. links' = QueueAdd(links, to, n) => ListValue' = cs1
    <3>1. ASSUME links' = QueueAdd(links, to, n) PROVE ListValue' = cs1
      BY <1>3, <1>7, <3>1, Then
    <3> QED BY <3>1
  <2> QED BY <1>2, <2>3, <2>4 DEF q1, cs1, q, cs
<1> QED BY <1>14, <1>15

(* A waiting thread is made READY.                                         *)
LEMMA WakeStep ==
  ASSUME IInv, NEW n \in Threads \ {IdleThread}, Wake(n)
  PROVE  /\ IInv' /\ ~V!Queued(BucketValue, n) /\ b.prio[n] \in Priorities \ {IdlePriority}
         /\ state[n] \in Queues /\ On(ListValue[state[n]], n)
         /\ BucketValue' = V!BqInsert(BucketValue, n, b.prio[n])
         /\ ListValue' = [ListValue EXCEPT ![state[n]] = V!Without(ListValue[state[n]], n)]
<1> DEFINE q == BucketValue
           cs == ListValue
           p == b.prio[n]
           from == state[n]
           q1 == V!BqInsert(q, n, p)
           cs1 == [cs EXCEPT ![from] = V!Without(cs[from], n)]
<1>1. Rep(b, q) /\ LRep(links, cs) /\ Agree(q, cs, state, b.prio, b.curp) /\ V!Good(q)
  BY DEF IInv, Rep
<1> HIDE DEF q, cs
<1>2. /\ from \in {"BLOCKED", "SLEEPING"} /\ state' = [state EXCEPT ![n] = "READY"]
      /\ b' = BqInsert(b, n) /\ links' = QueueDelete(links, from, n)
  BY DEF Wake
<1>3. from \in Queues /\ from # "DEFUNCT" /\ from # "READY" /\ from # "none"
      /\ \A x \in Queues : x # "READY" /\ x # "none"
  BY <1>2 DEF Queues
<1>4. ~V!Queued(q, n) /\ On(cs[from], n)
  BY <1>1, <1>3 DEF Agree
<1>5. b.prio \in [Threads -> Priorities] /\ b.curp \in [Threads -> Priorities \cup {-1}]
  BY <1>1 DEF Rep
<1>6. p \in Priorities \ {IdlePriority}
  BY <1>1, <1>3, <1>5 DEF Agree
<1>7. \A m \in Threads : V!Queued(q, m) => b.prio[m] = b.curp[m]
  BY <1>1 DEF Agree
<1>8. Rep(b', q1) /\ b'.prio = b.prio /\ b'.curp = [b.curp EXCEPT ![n] = p]
  BY <1>1, <1>2, <1>4, <1>6, <1>7, InsertRep
<1>9. LRep(links', cs1)
  BY <1>1, <1>2, <1>3, <1>4, TakeRep
<1>10. \A m : V!Queued(q1, m) <=> V!Queued(q, m) \/ m = n
  BY <1>1, <1>4, <1>6, QueuedAfterInsert
<1>11. /\ \A x \in Queues : x # from => cs1[x] = cs[x]
       /\ \A m : On(cs1[from], m) <=> On(cs[from], m) /\ m # n
  <2>1. /\ cs \in [Queues -> Seq(Threads)] /\ Distinct(cs[from]) /\ cs[from] \in Seq(Threads)
    BY <1>1, <1>3 DEF LRep
  <2>2. cs1[from] = V!Without(cs[from], n) /\ \A x \in Queues : x # from => cs1[x] = cs[x]
    BY <1>3, <2>1
  <2> QED BY <1>4, <2>1, <2>2, OnWithout
<1> HIDE DEF q1, cs1, from, p
<1>12. Agree(q1, cs1, state', b'.prio, b'.curp)
  <2>1. /\ state' \in [Threads -> Queues \cup {"none", "READY"}]
        /\ \A m \in Threads : state'[m] = IF m = n THEN "READY" ELSE state[m]
    BY <1>1, <1>2 DEF Agree
  <2>2. \A m \in Threads : /\ b'.prio[m] = b.prio[m]
                           /\ b'.curp[m] = IF m = n THEN p ELSE b.curp[m]
    BY <1>5, <1>8
  <2>3. /\ \A m \in Threads : V!Queued(q1, m) <=> state'[m] = "READY"
        /\ \A m \in Threads : state'[m] = "READY" => b'.curp[m] = b'.prio[m]
        /\ \A m \in Threads \ {IdleThread} : state'[m] # "none" => b'.prio[m] # IdlePriority
    BY <1>1, <1>6, <1>10, <2>1, <2>2 DEF Agree, p
  <2>4. /\ \A m \in Threads : \A x \in Queues : On(cs[x], m) => state[m] = x
        /\ \A m \in Threads : \A x \in Queues \ {"DEFUNCT"} : state[m] = x => On(cs[x], m)
    BY <1>1 DEF Agree
  <2>5. \A m \in Threads : \A x \in Queues : On(cs1[x], m) => state'[m] = x
    BY <1>3, <1>11, <2>1, <2>4 DEF from
  <2>6. \A m \in Threads : \A x \in Queues \ {"DEFUNCT"} : state'[m] = x => On(cs1[x], m)
    BY <1>3, <1>11, <2>1, <2>4
  <2> QED BY <2>1, <2>3, <2>5, <2>6 DEF Agree
<1>13. IInv' /\ BucketValue' = q1 /\ ListValue' = cs1
  BY <1>8, <1>9, <1>12, ThenIInv
<1> QED BY <1>3, <1>4, <1>6, <1>13 DEF q1, cs1, from, p, q, cs

(* The control block of a DEFUNCT thread is freed.                         *)
LEMMA FreeStep ==
  ASSUME IInv, NEW n \in Threads \ {IdleThread}, Free(n)
  PROVE  /\ IInv' /\ BucketValue' = BucketValue /\ state[n] = "DEFUNCT"
         /\ ListValue' = [ListValue EXCEPT !["DEFUNCT"] = V!Without(ListValue["DEFUNCT"], n)]
<1> DEFINE q == BucketValue
           cs == ListValue
           cs1 == [cs EXCEPT !["DEFUNCT"] = V!Without(cs["DEFUNCT"], n)]
<1>1. Rep(b, q) /\ LRep(links, cs) /\ Agree(q, cs, state, b.prio, b.curp) /\ V!Good(q)
  BY DEF IInv, Rep
<1>2. /\ state[n] = "DEFUNCT" /\ state' = [state EXCEPT ![n] = "none"]
      /\ links' = IF n \in OnChain("DEFUNCT") THEN QueueDelete(links, "DEFUNCT", n) ELSE links
      /\ b' = [b EXCEPT !.prio[n] = 0, !.curp[n] = 0]
  BY DEF Free
<1>3. "DEFUNCT" \in Queues /\ \A x \in Queues : x # "READY" /\ x # "none"
  BY DEF Queues
<1>4. cs["DEFUNCT"] = Chain("DEFUNCT")
  BY <1>3 DEF ListValue
<1> HIDE DEF q, cs
<1>5. /\ cs \in [Queues -> Seq(Threads)] /\ Distinct(cs["DEFUNCT"]) /\ cs["DEFUNCT"] \in Seq(Threads)
  BY <1>1, <1>3 DEF LRep
<1>6. n \in OnChain("DEFUNCT") <=> On(cs["DEFUNCT"], n)
  <2>1. DOMAIN cs["DEFUNCT"] = 1 .. Len(cs["DEFUNCT"])
    BY <1>5
  <2> QED BY <1>4, <2>1 DEF OnChain, On
<1>7. ~V!Queued(q, n)
  BY <1>1, <1>2 DEF Agree
<1>8. Rep(b', q) /\ b'.prio = [b.prio EXCEPT ![n] = 0] /\ b'.curp = [b.curp EXCEPT ![n] = 0]
  BY <1>1, <1>2, <1>7, FreeRep
<1>9. /\ \A x \in Queues : x # "DEFUNCT" => cs1[x] = cs[x]
      /\ \A m : On(cs1["DEFUNCT"], m) <=> On(cs["DEFUNCT"], m) /\ m # n
  <2>1. cs1["DEFUNCT"] = V!Without(cs["DEFUNCT"], n) /\ \A x \in Queues : x # "DEFUNCT" => cs1[x] = cs[x]
    BY <1>3, <1>5
  <2>2. CASE On(cs["DEFUNCT"], n)
    BY <1>5, <2>1, <2>2, OnWithout
  <2>3. CASE ~On(cs["DEFUNCT"], n)
    <3>1. ~V!Contains(cs["DEFUNCT"], n)
      BY <1>5, <2>3 DEF V!Contains, On
    <3>2. V!Without(cs["DEFUNCT"], n) = cs["DEFUNCT"]
      BY <3>1 DEF V!Without
    <3> QED BY <2>1, <2>3, <3>2
  <2> QED BY <2>2, <2>3
<1>10. LRep(links', cs1)
  <2>1. CASE On(cs["DEFUNCT"], n)
    BY <1>1, <1>2, <1>3, <1>6, <2>1, TakeRep
  <2>2. CASE ~On(cs["DEFUNCT"], n)
    <3>1. ~V!Contains(cs["DEFUNCT"], n)
      BY <1>5, <2>2 DEF V!Contains, On
    <3>2. V!Without(cs["DEFUNCT"], n) = cs["DEFUNCT"]
      BY <3>1 DEF V!Without
    <3>3. cs1 = cs
      BY <1>5, <3>2
    <3> HIDE DEF cs1
    <3> QED BY <1>1, <1>2, <1>6, <2>2, <3>3
  <2> QED BY <2>1, <2>2
<1> HIDE DEF cs1
<1>11. Agree(q, cs1, state', b'.prio, b'.curp)
  <2>1. /\ state' \in [Threads -> Queues \cup {"none", "READY"}]
        /\ \A m \in Threads : state'[m] = IF m = n THEN "none" ELSE state[m]
    BY <1>1, <1>2 DEF Agree
  <2>2. \A m \in Threads : m # n => b'.prio[m] = b.prio[m] /\ b'.curp[m] = b.curp[m]
    BY <1>1, <1>8 DEF Rep
  <2>3. /\ \A m \in Threads : V!Queued(q, m) <=> state'[m] = "READY"
        /\ \A m \in Threads : state'[m] = "READY" => b'.curp[m] = b'.prio[m]
        /\ \A m \in Threads \ {IdleThread} : state'[m] # "none" => b'.prio[m] # IdlePriority
    BY <1>1, <1>2, <2>1, <2>2 DEF Agree
  <2>4. /\ \A m \in Threads : \A x \in Queues : On(cs[x], m) => state[m] = x
        /\ \A m \in Threads : \A x \in Queues \ {"DEFUNCT"} : state[m] = x => On(cs[x], m)
    BY <1>1 DEF Agree
  <2>5. \A m \in Threads : \A x \in Queues : On(cs1[x], m) => state'[m] = x
    BY <1>2, <1>9, <2>1, <2>4
  <2>6. \A m \in Threads : \A x \in Queues \ {"DEFUNCT"} : state'[m] = x => On(cs1[x], m)
    BY <1>3, <1>9, <2>1, <2>4
  <2> QED BY <2>1, <2>3, <2>5, <2>6 DEF Agree
<1>12. IInv' /\ BucketValue' = q /\ ListValue' = cs1
  BY <1>8, <1>10, <1>11, ThenIInv
<1> QED BY <1>2, <1>12 DEF cs1, q, cs

(* pthipth_set_prio and ageing.                                            *)
LEMMA ReinsertStep ==
  ASSUME IInv, NEW n \in Threads \ {IdleThread}, NEW p \in Priorities \ {IdlePriority}, Reinsert(n, p)
  PROVE  /\ IInv' /\ V!Queued(BucketValue, n)
         /\ BucketValue' = V!BqReinsert(BucketValue, n, p) /\ ListValue' = ListValue
<1> DEFINE q == BucketValue
           cs == ListValue
           r == SetPrio(b, n, p)
           r1 == BqDelete(r, n)
           q1 == V!BqDelete(q, n)
           q2 == V!BqInsert(q1, n, p)
<1>1. Rep(b, q) /\ LRep(links, cs) /\ Agree(q, cs, state, b.prio, b.curp) /\ V!Good(q)
  BY DEF IInv, Rep
<1> HIDE DEF q, cs
<1>2. state[n] = "READY" /\ state' = state /\ b' = BqInsert(r1, n) /\ links' = links
  BY DEF Reinsert, BqReinsert
<1>3. V!Queued(q, n)
  BY <1>1, <1>2 DEF Agree
<1>4. Rep(r, q) /\ r.prio = [b.prio EXCEPT ![n] = p] /\ r.curp = b.curp
  BY <1>1, PrioRep
<1> HIDE DEF r
<1>5. Rep(r1, q1) /\ r1.prio = r.prio /\ r1.curp = [r.curp EXCEPT ![n] = -1]
  BY <1>3, <1>4, DeleteRep
<1>6. \A m : V!Queued(q1, m) <=> V!Queued(q, m) /\ m # n
  BY <1>1, QueuedAfterDelete
<1> HIDE DEF r1, q1
<1>7. b.prio \in [Threads -> Priorities] /\ b.curp \in [Threads -> Priorities \cup {-1}]
  BY <1>1 DEF Rep
<1>8. \A m \in Threads : /\ r1.prio[m] = IF m = n THEN p ELSE b.prio[m]
                         /\ r1.curp[m] = IF m = n THEN -1 ELSE b.curp[m]
  BY <1>4, <1>5, <1>7
<1>9. \A m \in Threads : V!Queued(q1, m) => r1.prio[m] = r1.curp[m]
  BY <1>1, <1>6, <1>8 DEF Agree
<1>10. Rep(b', q2) /\ b'.prio = r1.prio /\ b'.curp = [r1.curp EXCEPT ![n] = p]
  <2> HIDE DEF q2
  <2>1. r1.prio[n] # IdlePriority
    BY <1>8
  <2>2. /\ Rep(BqInsert(r1, n), V!BqInsert(q1, n, r1.prio[n])) /\ BqInsert(r1, n).prio = r1.prio
        /\ BqInsert(r1, n).curp = [r1.curp EXCEPT ![n] = r1.prio[n]]
    <3>1. Rep(r1, q1) /\ ~V!Queued(q1, n)
      BY <1>5, <1>6
    <3> QED BY <1>9, <2>1, <3>1, InsertRep
  <2>3. r1.prio[n] = p
    BY <1>8
  <2> QED BY <1>2, <2>2, <2>3 DEF q2
<1>11. LRep(links', cs)
  BY <1>1, <1>2
<1>12. \A m : V!Queued(q2, m) <=> V!Queued(q1, m) \/ m = n
  <2>1. V!Good(q1)
    BY <1>5 DEF Rep
  <2> QED BY <1>6, <2>1, QueuedAfterInsert
<1> HIDE DEF q2
<1>13. Agree(q2, cs, state', b'.prio, b'.curp)
  <2>1. \A m \in Threads : /\ b'.prio[m] = IF m = n THEN p ELSE b.prio[m]
                           /\ b'.curp[m] = IF m = n THEN p ELSE b.curp[m]
    <3>1. r1.curp \in [Threads -> Priorities \cup {-1}]
      BY <1>5 DEF Rep
    <3> QED BY <1>8, <1>10, <3>1
  <2> QED BY <1>1, <1>2, <1>3, <1>6, <1>12, <2>1 DEF Agree
<1>14. IInv' /\ BucketValue' = q2 /\ ListValue' = cs
  BY <1>10, <1>11, <1>13, ThenIInv
<1> QED BY <1>3, <1>14 DEF q2, q1, q, cs, V!BqReinsert

(* __pthipth_scheduler                                                     *)
LEMMA RotateStep ==
  ASSUME IInv, Rotate
  PROVE  IInv' /\ BucketValue' = V!BqRotate(BucketValue) /\ ListValue' = ListValue
<1> DEFINE q == BucketValue
           cs == ListValue
           q1 == V!BqRotate(q)
<1>1. Rep(b, q) /\ LRep(links, cs) /\ Agree(q, cs, state, b.prio, b.curp) /\ V!Good(q)
  BY DEF IInv, Rep
<1> HIDE DEF q, cs
<1>2. b' = BqRotate(b) /\ links' = links /\ state' = state
  BY DEF Rotate
<1>3. Rep(b', q1) /\ b'.prio = b.prio /\ b'.curp = b.curp
  BY <1>1, <1>2, RotateRep
<1>4. \A m : V!Queued(q1, m) <=> V!Queued(q, m)
  BY <1>1, QueuedAfterRotate
<1> HIDE DEF q1
<1>5. Agree(q1, cs, state', b'.prio, b'.curp)
  BY <1>1, <1>2, <1>3, <1>4 DEF Agree
<1>6. LRep(links', cs)
  BY <1>1, <1>2
<1>7. IInv' /\ BucketValue' = q1 /\ ListValue' = cs
  BY <1>3, <1>5, <1>6, ThenIInv
<1> QED BY <1>7 DEF q1, q, cs

(* A step of somebody else.                                                *)
LEMMA StutterStep ==
  ASSUME IInv, UNCHANGED vars
  PROVE  IInv' /\ BucketValue' = BucketValue /\ ListValue' = ListValue
<1>1. b' = b /\ links' = links /\ state' = state
  BY DEF vars
<1>2. Rep(b', BucketValue) /\ LRep(links', ListValue) /\ Agree(BucketValue, ListValue, state', b'.prio, b'.curp)
  BY <1>1 DEF IInv
<1> QED BY <1>2, ThenIInv

(* Stop and ExitDetached by what they do to the lists.                     *)
LEMMA StopStep ==
  ASSUME IInv, NEW n \in Threads \ {IdleThread}, NEW to \in Queues, Stop(n, to)
  PROVE  /\ IInv' /\ V!Queued(BucketValue, n) /\ state[n] = "READY"
         /\ state' = [state EXCEPT ![n] = to]
         /\ BucketValue' = V!BqDelete(BucketValue, n)
         /\ ListValue' = IF to = "DEFUNCT" THEN ListValue
                         ELSE [ListValue EXCEPT ![to] = Append(ListValue[to], n)]
<1>1. /\ state[n] = "READY" /\ state' = [state EXCEPT ![n] = to] /\ b' = BqDelete(b, n)
      /\ links' = IF to = "DEFUNCT" THEN links ELSE QueueAdd(links, to, n)
  BY DEF Stop
<1> QED BY <1>1, LeaveStep

(* The same for a detached thread, which goes on the list of the defunct.  *)
LEMMA ExitDetachedStep ==
  ASSUME IInv, NEW n \in Threads \ {IdleThread}, ExitDetached(n)
  PROVE  /\ IInv' /\ V!Queued(BucketValue, n) /\ state[n] = "READY"
         /\ state' = [state EXCEPT ![n] = "DEFUNCT"]
         /\ BucketValue' = V!BqDelete(BucketValue, n)
         /\ ListValue' = [ListValue EXCEPT !["DEFUNCT"] = Append(ListValue["DEFUNCT"], n)]
<1>1. /\ state[n] = "READY" /\ state' = [state EXCEPT ![n] = "DEFUNCT"] /\ b' = BqDelete(b, n)
      /\ links' = QueueAdd(links, "DEFUNCT", n) /\ "DEFUNCT" \in Queues
  BY DEF ExitDetached, Queues
<1> QED BY <1>1, LeaveStep

-----------------------------------------------------------------------------
(* Every step keeps the invariant.                                         *)
LEMMA NextIInv == IInv /\ [Next]_vars => IInv'
<1> SUFFICES ASSUME IInv, [Next]_vars PROVE IInv'
  OBVIOUS
<1>1. CASE \E n \in Threads \ {IdleThread} : \E p \in Priorities \ {IdlePriority} : Create(n, p)
  BY <1>1, CreateStep
<1>2. CASE \E n \in Threads \ {IdleThread} : \E p \in Priorities \ {IdlePriority} : Reinsert(n, p)
  BY <1>2, ReinsertStep
<1>3. CASE \E n \in Threads \ {IdleThread} : \E to \in Queues : Stop(n, to)
  BY <1>3, StopStep
<1>4. CASE \E n \in Threads \ {IdleThread} : Wake(n)
  BY <1>4, WakeStep
<1>5. CASE \E n \in Threads \ {IdleThread} : ExitDetached(n)
  BY <1>5, ExitDetachedStep
<1>6. CASE \E n \in Threads \ {IdleThread} : Free(n)
  BY <1>6, FreeStep
<1>7. CASE Rotate
  BY <1>7, RotateStep
<1>8. CASE UNCHANGED vars
  BY <1>8, StutterStep
<1> QED BY <1>1, <1>2, <1>3, <1>4, <1>5, <1>6, <1>7, <1>8 DEF Next

(* The pointers hold a queue and three lists, whatever the calls.          *)
THEOREM PointersGood == Spec => []IInv
<1>1. Init => IInv
  BY InitIs
<1> QED BY <1>1, NextIInv, PTL DEF Spec

-----------------------------------------------------------------------------
(* What the invariant says to a reader of the code.                        *)

(* In a ring, prev undoes next and next undoes prev.                       *)
LEMMA ThereAndBack ==
  ASSUME NEW s \in Seq(Threads), NEW n, On(s, n),
         NEW next, NEW prev, NEW first, NEW last, RingOK(next, prev, first, last, s)
  PROVE  prev[next[n]] = n /\ next[prev[n]] = n
<1>1. PICK k \in 1 .. Len(s) : s[k] = n
  BY DEF On
<1> DEFINE l == Len(s)
           after == IF k = l THEN 1 ELSE k + 1
           before == IF k = 1 THEN l ELSE k - 1
<1>2. l \in Nat /\ k \in Nat /\ 1 <= k /\ k <= l
  OBVIOUS
<1>3. \A i \in 1 .. l : /\ next[s[i]] = IF i = l THEN s[1] ELSE s[i + 1]
                        /\ prev[s[i]] = IF i = 1 THEN s[l] ELSE s[i - 1]
  BY DEF RingOK
<1>4. next[n] = s[after] /\ prev[n] = s[before]
  BY <1>1, <1>3
<1> HIDE DEF l
<1>5. after \in 1 .. l /\ (IF after = 1 THEN l ELSE after - 1) = k
  BY <1>2
<1>6. before \in 1 .. l /\ (IF before = l THEN 1 ELSE before + 1) = k
  BY <1>2
<1> HIDE DEF after, before
<1>7. prev[s[after]] = s[IF after = 1 THEN l ELSE after - 1]
  BY <1>3, <1>5
<1>8. next[s[before]] = s[IF before = l THEN 1 ELSE before + 1]
  BY <1>3, <1>6
<1> QED BY <1>1, <1>4, <1>5, <1>6, <1>7, <1>8

(* The types of the variables.                                             *)
LEMMA InvariantTypes == IInv => TypeOK
<1> SUFFICES ASSUME IInv PROVE TypeOK
  OBVIOUS
<1> DEFINE q == BucketValue
<1>1. Rep(b, q) /\ LRep(links, ListValue) /\ Agree(q, ListValue, state, b.prio, b.curp)
  BY DEF IInv
<1> HIDE DEF q
<1>2. q.bits \in SUBSET Priorities /\ V!Top(q) \in q.bits
  BY <1>1, GoodIs DEF Rep
<1>3. b.bitmap \subseteq Priorities /\ b.head \in Pointers
  BY <1>1, <1>2 DEF Rep
<1> QED BY <1>1, <1>3 DEF Rep, LRep, Agree, TypeOK

(* The rings are closed.                                                   *)
LEMMA InvariantRings == IInv => RingsClosed
<1> SUFFICES ASSUME IInv PROVE RingsClosed
  OBVIOUS
<1> DEFINE q == BucketValue
<1>1. Rep(b, q) /\ Agree(q, ListValue, state, b.prio, b.curp) /\ V!Good(q)
  BY DEF IInv, Rep
<1> HIDE DEF q
<1>2. b.head = b.table[Ctz(b.bitmap)]
  BY <1>1 DEF Rep, Ctz, Min, V!Top, V!Min
<1>3. \A n \in Threads : state[n] = "READY" => b.curp[n] = b.prio[n]
  BY <1>1 DEF Agree
<1>4. ASSUME NEW p \in Priorities
      PROVE  /\ q.bucket[p] \in Seq(Threads) /\ Ring(b, p) = q.bucket[p]
             /\ RingOK(b.next, b.prev, b.table[p], b.tail[p], q.bucket[p])
             /\ \A n \in Threads : On(q.bucket[p], n) <=> state[n] = "READY" /\ b.curp[n] = p
  <2>1. Ring(b, p) = q.bucket[p]
    BY <1>1, RingIs
  <2>2. q.bucket[p] \in Seq(Threads)
    BY <1>1, GoodIs
  <2>3. \A n : V!Queued(q, n) <=> \E x \in Priorities : On(q.bucket[x], n)
    BY <1>1, GoodIs
  <2> QED BY <1>1, <2>1, <2>2, <2>3 DEF Rep, Agree
<1>5. ASSUME NEW n \in Threads, state[n] = "READY"
      PROVE  b.prev[b.next[n]] = n /\ b.next[b.prev[n]] = n
  <2>1. V!Queued(q, n)
    BY <1>1, <1>5 DEF Agree
  <2>2. PICK p \in Priorities : On(q.bucket[p], n)
    BY <1>1, <2>1, GoodIs
  <2> QED BY <1>4, <2>2, ThereAndBack
<1>6. ASSUME NEW p \in Priorities
      PROVE  LET ring    == Ring(b, p)
                 members == {n \in Threads : state[n] = "READY" /\ b.curp[n] = p}
             IN  /\ {ring[k] : k \in DOMAIN ring} = members
                 /\ members = {} => b.table[p] = NoNode /\ b.tail[p] = NoNode
                 /\ members # {} => /\ b.tail[p] = ring[Len(ring)]
                                    /\ b.next[b.tail[p]] = b.table[p]
  <2> DEFINE s == Ring(b, p)
             members == {n \in Threads : state[n] = "READY" /\ b.curp[n] = p}
  <2>1. /\ s \in Seq(Threads) /\ RingOK(b.next, b.prev, b.table[p], b.tail[p], s)
        /\ \A n \in Threads : On(s, n) <=> n \in members
    BY <1>4
  <2>2. \A n \in members : n \in Threads
    OBVIOUS
  <2> HIDE DEF s, members
  <2>3. DOMAIN s = 1 .. Len(s) /\ \A k \in 1 .. Len(s) : s[k] \in Threads
    BY <2>1
  <2>4. {s[k] : k \in DOMAIN s} = members
    BY <2>1, <2>2, <2>3 DEF On
  <2>5. members = {} => s = <<>>
    BY <2>1, EndsAreOn
  <2>6. s = <<>> => \A n : ~On(s, n)
    BY DEF On
  <2>7. members = {} => b.table[p] = NoNode /\ b.tail[p] = NoNode
    BY <2>1, <2>5 DEF RingOK
  <2>8. ASSUME members # {} PROVE b.tail[p] = s[Len(s)] /\ b.next[b.tail[p]] = b.table[p]
    <3>1. s # <<>>
      BY <2>1, <2>2, <2>6, <2>8
    <3>2. Len(s) \in 1 .. Len(s)
      BY <2>1, <3>1
    <3> QED BY <2>1, <3>1, <3>2 DEF RingOK
  <2> QED BY <2>4, <2>7, <2>8 DEF s, members
<1> QED BY <1>2, <1>3, <1>5, <1>6, InvariantTypes DEF RingsClosed

(* The chains are closed.                                                  *)
LEMMA InvariantChains == IInv => ChainsClosed
<1> SUFFICES ASSUME IInv PROVE ChainsClosed
  OBVIOUS
<1> DEFINE cs == ListValue
<1>1. LRep(links, cs) /\ Agree(BucketValue, cs, state, b.prio, b.curp)
  BY DEF IInv
<1>2. \A x \in Queues : Chain(x) = cs[x]
  BY DEF ListValue
<1> HIDE DEF cs
<1>3. \A x \in Queues : /\ cs[x] \in Seq(Threads)
                        /\ ChainOK(links.next2, links.prev2, links.head[x], links.tail[x], cs[x])
  BY <1>1 DEF LRep
<1>4. ASSUME NEW x \in Queues
      PROVE  \A n : n \in OnChain(x) <=> n \in Threads /\ On(cs[x], n)
  <2> DEFINE c == cs[x]
  <2>1. c \in Seq(Threads)
    BY <1>3
  <2> HIDE DEF c
  <2>2. DOMAIN c = 1 .. Len(c) /\ \A i \in 1 .. Len(c) : c[i] \in Threads
    BY <2>1
  <2>3. OnChain(x) = {c[k] : k \in DOMAIN c}
    BY <1>2 DEF OnChain, c
  <2> QED BY <2>2, <2>3 DEF On, c
<1>5. ASSUME NEW x \in {"BLOCKED", "SLEEPING"} PROVE OnChain(x) = {n \in Threads : state[n] = x}
  <2>1. x \in Queues \ {"DEFUNCT"}
    BY DEF Queues
  <2> QED BY <1>1, <1>4, <2>1 DEF Agree
<1>6. \A n \in OnChain("DEFUNCT") : state[n] = "DEFUNCT"
  <2>1. "DEFUNCT" \in Queues
    BY DEF Queues
  <2> QED BY <1>1, <1>4, <2>1 DEF Agree
<1>7. ASSUME NEW x \in Queues
      PROVE  LET c == Chain(x) IN
             /\ c = <<>> <=> links.tail[x] = NoNode
             /\ c # <<>> => links.tail[x] = c[Len(c)] /\ links.next2[c[Len(c)]] = NoNode
             /\ \A k \in DOMAIN c : links.prev2[c[k]] = IF k = 1 THEN NoNode ELSE c[k - 1]
  <2> DEFINE c == Chain(x)
  <2>1. c \in Seq(Threads) /\ ChainOK(links.next2, links.prev2, links.head[x], links.tail[x], c)
    BY <1>2, <1>3
  <2> HIDE DEF c
  <2>2. c = <<>> <=> links.tail[x] = NoNode
    BY <2>1, ChainEnds
  <2>3. ASSUME c # <<>> PROVE links.tail[x] = c[Len(c)] /\ links.next2[c[Len(c)]] = NoNode
    <3>1. Len(c) \in 1 .. Len(c)
      BY <2>1, <2>3
    <3> QED BY <2>1, <2>3, <3>1 DEF ChainOK
  <2>4. DOMAIN c = 1 .. Len(c)
    BY <2>1
  <2>5. \A k \in DOMAIN c : links.prev2[c[k]] = IF k = 1 THEN NoNode ELSE c[k - 1]
    BY <2>1, <2>4 DEF ChainOK
  <2> QED BY <2>2, <2>3, <2>5 DEF c
<1>8. \A n \in Threads \ UNION {OnChain(x) : x \in Queues} :
        links.next2[n] = NoNode /\ links.prev2[n] = NoNode
  <2> SUFFICES ASSUME NEW n \in Threads, \A x \in Queues : n \notin OnChain(x)
               PROVE  links.next2[n] = NoNode /\ links.prev2[n] = NoNode
    OBVIOUS
  <2> QED BY <1>1, <1>4 DEF LRep
<1> QED BY <1>5, <1>6, <1>7, <1>8 DEF ChainsClosed

(* The queue is not corrupted.                                             *)
LEMMA InvariantSound == IInv => Sound
<1> SUFFICES ASSUME V!Good(BucketValue) PROVE Sound
  BY DEF IInv, Rep
<1>1. V!NoDuplicates(BucketValue) <=> BS!NoDuplicates(BucketValue)
  BY DEF V!NoDuplicates, BS!NoDuplicates
<1>2. V!BitsSound(BucketValue) <=> BS!BitsSound(BucketValue)
  BY DEF V!BitsSound, BS!BitsSound
<1> DEFINE q == BucketValue
<1> HIDE DEF q
<1> QED BY <1>1, <1>2 DEF Sound, BS!TypeOK, BS!Sound, V!Good, V!Priorities, Priorities, BS!Priorities

(* The rings of pthipth_bq.c are closed, whatever the sequence of state    *)
(* and priority changes.                                                   *)
THEOREM RingsStayClosed == Spec => []RingsClosed
BY PointersGood, InvariantRings, PTL

(* The lists of pthipth_queue.c are chains of the threads of their state,  *)
(* though they share one pair of links and nothing checks it.              *)
THEOREM ChainsStayClosed == Spec => []ChainsClosed
BY PointersGood, InvariantChains, PTL

(* The bucket queue is never corrupted.                                    *)
THEOREM BucketsStaySound == Spec => []Sound
BY PointersGood, InvariantSound, PTL

-----------------------------------------------------------------------------
(* The operators of the queue are the same wherever they are instantiated. *)
LEMMA OneQueue ==
  /\ \A r, n : BS!Queued(r, n) <=> V!Queued(r, n)
  /\ \A r, n, p : BS!BqInsert(r, n, p) = V!BqInsert(r, n, p)
  /\ \A r, n : BS!BqDelete(r, n) = V!BqDelete(r, n)
  /\ \A r, n, p : BS!BqReinsert(r, n, p) = V!BqReinsert(r, n, p)
  /\ \A r : BS!BqRotate(r) = V!BqRotate(r)
  /\ BS!EmptyBuckets(Priorities) = V!EmptyBuckets(Priorities)
<1>1. \A r, n : BS!Queued(r, n) <=> V!Queued(r, n)
  BY DEF BS!Queued, V!Queued, BS!Contains, V!Contains
<1>2. \A r, n, p : BS!BqInsert(r, n, p) = V!BqInsert(r, n, p)
  BY DEF BS!BqInsert, V!BqInsert
<1>3. \A r, n : BS!Level(r, n) = V!Level(r, n)
  BY DEF BS!Level, V!Level, BS!Contains, V!Contains
<1>4. \A s, n : BS!Without(s, n) = V!Without(s, n)
  BY DEF BS!Without, V!Without, BS!Contains, V!Contains, BS!RemoveAt, V!RemoveAt
<1>5. \A r, n : BS!BqDelete(r, n) = V!BqDelete(r, n)
  BY <1>1, <1>3, <1>4 DEF BS!BqDelete, V!BqDelete
<1>6. \A r, n, p : BS!BqReinsert(r, n, p) = V!BqReinsert(r, n, p)
  BY <1>2, <1>5 DEF BS!BqReinsert, V!BqReinsert
<1>7. \A r : BS!Top(r) = V!Top(r)
  BY DEF BS!Top, V!Top, BS!Min, V!Min
<1>8. \A r : BS!BqRotate(r) = V!BqRotate(r)
  BY <1>7 DEF BS!BqRotate, V!BqRotate
<1>9. BS!EmptyBuckets(Priorities) = V!EmptyBuckets(Priorities)
  BY DEF BS!EmptyBuckets, V!EmptyBuckets
<1> QED BY <1>1, <1>2, <1>5, <1>6, <1>8, <1>9

(* The state after pthipth_init maps to the initial queue.                 *)
LEMMA InitMaps == Init => BS!Init
<1> SUFFICES ASSUME Init PROVE BS!Init
  OBVIOUS
<1>1. BucketValue = BS!BqInsert(BS!EmptyBuckets(Priorities), IdleThread, IdlePriority)
  BY InitIs, OneQueue
<1>2. BS!Priorities = Priorities
  BY DEF BS!Priorities, Priorities
<1> QED BY <1>1, <1>2 DEF BS!Init

(* Every step maps to one operation of the queue, or to none.              *)
LEMMA StepMaps == IInv /\ [Next]_vars => [BS!Next]_BucketValue
<1> SUFFICES ASSUME IInv, [Next]_vars PROVE BS!Next \/ BucketValue' = BucketValue
  OBVIOUS
<1>0. BS!Priorities = Priorities
  BY DEF BS!Priorities, Priorities
<1>1. ASSUME NEW n \in Threads \ {IdleThread}, NEW p \in Priorities \ {IdlePriority}, Create(n, p)
      PROVE  BS!Next
  <2>1. BS!Insert(n, p)
    BY <1>1, CreateStep, OneQueue DEF BS!Insert
  <2> QED BY <1>0, <2>1 DEF BS!Next
<1>2. ASSUME NEW n \in Threads \ {IdleThread}, NEW p \in Priorities \ {IdlePriority}, Reinsert(n, p)
      PROVE  BS!Next
  <2>1. BS!Reinsert(n, p)
    BY <1>2, ReinsertStep, OneQueue DEF BS!Reinsert
  <2> QED BY <1>0, <2>1 DEF BS!Next
<1>3. ASSUME NEW n \in Threads \ {IdleThread}, NEW to \in Queues, Stop(n, to) PROVE BS!Next
  <2>1. BS!Delete(n)
    BY <1>3, StopStep, OneQueue DEF BS!Delete
  <2> QED BY <2>1 DEF BS!Next
<1>4. ASSUME NEW n \in Threads \ {IdleThread}, Wake(n) PROVE BS!Next
  <2>1. BS!Insert(n, b.prio[n]) /\ b.prio[n] \in Priorities \ {IdlePriority}
    BY <1>4, WakeStep, OneQueue DEF BS!Insert
  <2> QED BY <1>0, <2>1 DEF BS!Next
<1>5. ASSUME NEW n \in Threads \ {IdleThread}, ExitDetached(n) PROVE BS!Next
  <2>1. BS!Delete(n)
    BY <1>5, ExitDetachedStep, OneQueue DEF BS!Delete
  <2> QED BY <2>1 DEF BS!Next
<1>6. ASSUME NEW n \in Threads \ {IdleThread}, Free(n) PROVE BucketValue' = BucketValue
  BY <1>6, FreeStep
<1>7. CASE Rotate
  <2>1. BS!Rotate
    BY <1>7, RotateStep, OneQueue DEF BS!Rotate
  <2> QED BY <2>1 DEF BS!Next
<1>8. CASE UNCHANGED vars
  BY <1>8, StutterStep
<1> QED BY <1>1, <1>2, <1>3, <1>4, <1>5, <1>6, <1>7, <1>8 DEF Next

(* The pointers of pthipth_bq.c implement sequences and bits: initial      *)
(* states map to initial states, every step to an operation or to none.    *)
THEOREM PointersImplementBuckets == Spec => ImplementsBuckets
<1>1. Init => BS!Init
  BY InitMaps
<1>2. IInv /\ [Next]_vars => [BS!Next]_BucketValue
  BY StepMaps
<1> QED BY <1>1, <1>2, PointersGood, PTL DEF Spec, ImplementsBuckets, BS!Spec

-----------------------------------------------------------------------------
BSP == INSTANCE BucketSpec_proofs WITH q <- BucketValue

(* A step that begins to hide threads, seen at the pointers.               *)
LEMMA HiddenMaps ==
  IInv /\ [Next]_vars =>
    [BS!Hidden = {} /\ BS!Hidden' # {} =>
       \E p \in Priorities :
         /\ Len(BucketValue.bucket[p]) > 1
         /\ Head(BucketValue'.bucket[p]) # Head(BucketValue.bucket[p])
         /\ p \in BucketValue.bits \ BucketValue'.bits]_BucketValue
<1> SUFFICES ASSUME IInv, [Next]_vars, BS!Hidden = {}, BS!Hidden' # {}
             PROVE  \E p \in Priorities :
                      /\ Len(BucketValue.bucket[p]) > 1
                      /\ Head(BucketValue'.bucket[p]) # Head(BucketValue.bucket[p])
                      /\ p \in BucketValue.bits \ BucketValue'.bits
  OBVIOUS
<1>1. BSP!IInv
  BY DEF IInv, Rep, BSP!IInv, V!Good, BSP!Good, V!NoDuplicates, BSP!NoDuplicates,
         V!BitsSound, BSP!BitsSound, V!Priorities, BSP!Priorities
<1>2. BSP!Priorities = Priorities /\ BS!Priorities = Priorities
  BY DEF BSP!Priorities, BS!Priorities, Priorities
<1>3. [BSP!Next]_BucketValue
  <2>1. \A r, n : BSP!Queued(r, n) <=> BS!Queued(r, n)
    BY DEF BSP!Queued, BS!Queued, BSP!Contains, BS!Contains
  <2>2. \A r, n, p : BSP!BqInsert(r, n, p) = BS!BqInsert(r, n, p)
    BY DEF BSP!BqInsert, BS!BqInsert
  <2>3. \A r, n : BSP!BqDelete(r, n) = BS!BqDelete(r, n)
    <3>1. \A r, n : BSP!Level(r, n) = BS!Level(r, n)
      BY DEF BSP!Level, BS!Level, BSP!Contains, BS!Contains
    <3>2. \A s, n : BSP!Without(s, n) = BS!Without(s, n)
      BY DEF BSP!Without, BS!Without, BSP!Contains, BS!Contains, BSP!RemoveAt, BS!RemoveAt
    <3> QED BY <2>1, <3>1, <3>2 DEF BSP!BqDelete, BS!BqDelete
  <2>4. \A r, n, p : BSP!BqReinsert(r, n, p) = BS!BqReinsert(r, n, p)
    BY <2>2, <2>3 DEF BSP!BqReinsert, BS!BqReinsert
  <2>5. \A r : BSP!BqRotate(r) = BS!BqRotate(r)
    BY DEF BSP!BqRotate, BS!BqRotate, BSP!Top, BS!Top, BSP!Min, BS!Min
  <2>6. BS!Next => BSP!Next
    BY <1>2, <2>1, <2>2, <2>3, <2>4, <2>5 DEF BS!Next, BSP!Next, BS!Insert, BSP!Insert,
       BS!Delete, BSP!Delete, BS!Reinsert, BSP!Reinsert, BS!Rotate, BSP!Rotate
  <2> QED BY <2>6, StepMaps
<1>4. BS!Hidden = BSP!HiddenIn(BucketValue)
  BY DEF BS!Hidden, BSP!HiddenIn, BS!ToSet, BSP!ToSet, BS!Priorities, BSP!Priorities
<1>5. BS!Hidden' = BSP!HiddenIn(BucketValue')
  BY DEF BS!Hidden, BSP!HiddenIn, BS!ToSet, BSP!ToSet, BS!Priorities, BSP!Priorities
<1>6. BSP!FirstOfSeveralLeft(BucketValue, BucketValue')
  BY <1>1, <1>3, <1>4, <1>5, BSP!HiddenStep, BucketAssumption
<1> QED BY <1>2, <1>6 DEF BSP!FirstOfSeveralLeft

(* Threads become hidden from peek only when pthipth_bq_delete takes the   *)
(* first of several out of its bucket: of the pointers, too.               *)
THEOREM HiddenByFirst == Spec => HiddenBehindFirstOnly
<1>1. IInv /\ [Next]_vars =>
        [BS!Hidden = {} /\ BS!Hidden' # {} =>
           \E p \in BS!Priorities :
             /\ Len(BucketValue.bucket[p]) > 1 /\ Head(BucketValue'.bucket[p]) # Head(BucketValue.bucket[p])
             /\ p \in BucketValue.bits \ BucketValue'.bits]_BucketValue
  <2>1. BS!Priorities = Priorities
    BY DEF BS!Priorities, Priorities
  <2> QED BY <2>1, HiddenMaps
<1> QED BY <1>1, PointersGood, PTL DEF Spec, HiddenBehindFirstOnly, BS!HiddenBehindFirstOnly

-----------------------------------------------------------------------------
(* The record of ThreadLists, field by field, and what its operators make  *)
(* of one.                                                                 *)
RecordOf(st, q, blocked, sleeping) ==
  [state |-> st, bq |-> q, blocked |-> blocked, sleeping |-> sleeping]

(* The operators of the lists are the same wherever they are instantiated. *)
LEMMA OneRecord ==
  /\ \A r, n, p : TL!BqInsert(r, n, p) = V!BqInsert(r, n, p)
  /\ \A r, n : TL!BqDelete(r, n) = V!BqDelete(r, n)
  /\ \A s, n : TL!Without(s, n) = V!Without(s, n)
<1>1. \A r, n : TL!Queued(r, n) <=> V!Queued(r, n)
  BY DEF TL!Queued, V!Queued, TL!Contains, V!Contains
<1>2. \A r, n, p : TL!BqInsert(r, n, p) = V!BqInsert(r, n, p)
  BY DEF TL!BqInsert, V!BqInsert
<1>3. \A r, n : TL!Level(r, n) = V!Level(r, n)
  BY DEF TL!Level, V!Level, TL!Contains, V!Contains
<1>4. \A s, n : TL!Without(s, n) = V!Without(s, n)
  BY DEF TL!Without, V!Without, TL!Contains, V!Contains, TL!RemoveAt, V!RemoveAt
<1>5. \A r, n : TL!BqDelete(r, n) = V!BqDelete(r, n)
  BY <1>1, <1>3, <1>4 DEF TL!BqDelete, V!BqDelete
<1> QED BY <1>2, <1>4, <1>5

(* The record when a READY thread stops, and when a waiting one is woken.  *)
StoppedRecord(st, q, bl, sl, n, to) ==
  RecordOf([st EXCEPT ![n] = to], V!BqDelete(q, n),
        IF to = "BLOCKED" THEN Append(bl, n) ELSE bl,
        IF to = "SLEEPING" THEN Append(sl, n) ELSE sl)

(* What StateChange makes of a READY thread that stops.                    *)
LEMMA StopsInRecord ==
  ASSUME NEW st, NEW q, NEW bl, NEW sl, NEW n, NEW to \in Queues, NEW p, st[n] = "READY"
  PROVE  TL!StateChange(RecordOf(st, q, bl, sl), n, to, p) = StoppedRecord(st, q, bl, sl, n, to)
<1> DEFINE s == RecordOf(st, q, bl, sl)
<1>1. s.state[n] = "READY" /\ to # "READY"
  BY DEF RecordOf, Queues
<1>2. TL!Leave(s, n) = s
  BY <1>1 DEF TL!Leave
<1>3. TL!Enter(s, n, to, p) = RecordOf(st, V!BqDelete(q, n),
                                    IF to = "BLOCKED" THEN Append(bl, n) ELSE bl,
                                    IF to = "SLEEPING" THEN Append(sl, n) ELSE sl)
  <2>1. CASE to = "BLOCKED"
    BY <2>1, OneRecord DEF TL!Enter, RecordOf
  <2>2. CASE to = "SLEEPING"
    BY <2>2, OneRecord DEF TL!Enter, RecordOf
  <2>3. CASE to = "DEFUNCT"
    BY <2>3, OneRecord DEF TL!Enter, RecordOf
  <2> QED BY <2>1, <2>2, <2>3 DEF Queues
<1>4. TL!StateChange(s, n, to, p) = TL!SetState(TL!Enter(s, n, to, p), n, to)
  BY <1>1, <1>2 DEF TL!StateChange
<1> QED BY <1>3, <1>4 DEF TL!SetState, RecordOf, StoppedRecord

WokenRecord(st, q, bl, sl, n, p) ==
  RecordOf([st EXCEPT ![n] = "READY"], V!BqInsert(q, n, p),
        IF st[n] = "BLOCKED" THEN V!Without(bl, n) ELSE bl,
        IF st[n] = "SLEEPING" THEN V!Without(sl, n) ELSE sl)

(* What StateChange makes of a thread that waits.                          *)
LEMMA WakesInRecord ==
  ASSUME NEW st, NEW q, NEW bl, NEW sl, NEW n, NEW p, st[n] \in {"BLOCKED", "SLEEPING"}
  PROVE  TL!StateChange(RecordOf(st, q, bl, sl), n, "READY", p) = WokenRecord(st, q, bl, sl, n, p)
<1> DEFINE s == RecordOf(st, q, bl, sl)
           t == TL!Leave(s, n)
<1>1. s.state[n] = st[n] /\ st[n] # "READY"
  BY DEF RecordOf
<1>2. t = RecordOf(st, q, IF st[n] = "BLOCKED" THEN V!Without(bl, n) ELSE bl,
                       IF st[n] = "SLEEPING" THEN V!Without(sl, n) ELSE sl)
  <2>1. CASE st[n] = "BLOCKED"
    BY <1>1, <2>1, OneRecord DEF TL!Leave, RecordOf
  <2>2. CASE st[n] = "SLEEPING"
    BY <1>1, <2>2, OneRecord DEF TL!Leave, RecordOf
  <2> QED BY <2>1, <2>2
<1>3. TL!StateChange(s, n, "READY", p) = TL!SetState(TL!Enter(t, n, "READY", p), n, "READY")
  BY <1>1 DEF TL!StateChange
<1> HIDE DEF t
<1>4. t.state[n] # "RUNNING"
  BY <1>2 DEF RecordOf
<1>5. TL!Enter(t, n, "READY", p) = [t EXCEPT !.bq = V!BqInsert(@, n, p)]
  BY <1>4, OneRecord DEF TL!Enter
<1> QED BY <1>2, <1>3, <1>5 DEF TL!SetState, RecordOf, WokenRecord

(* The fields of Abs, now and after the step.                              *)
LEMMA AbsIs ==
  /\ Abs = RecordOf(state, BucketValue, ListValue["BLOCKED"], ListValue["SLEEPING"])
  /\ Abs' = RecordOf(state', BucketValue', ListValue'["BLOCKED"], ListValue'["SLEEPING"])
  /\ Chain("DEFUNCT") = ListValue["DEFUNCT"] /\ Chain("DEFUNCT")' = ListValue'["DEFUNCT"]
<1>1. \A x \in Queues : Chain(x) = ListValue[x]
  BY DEF ListValue
<1>2. \A x \in Queues : Chain(x)' = ListValue'[x]
  BY DEF ListValue
<1>3. "BLOCKED" \in Queues /\ "SLEEPING" \in Queues /\ "DEFUNCT" \in Queues
  BY DEF Queues
<1>4. Chain("BLOCKED")' = ListValue'["BLOCKED"] /\ Chain("SLEEPING")' = ListValue'["SLEEPING"]
      /\ Chain("DEFUNCT")' = ListValue'["DEFUNCT"]
  BY <1>2, <1>3
<1>5. Chain("BLOCKED") = ListValue["BLOCKED"] /\ Chain("SLEEPING") = ListValue["SLEEPING"]
      /\ Chain("DEFUNCT") = ListValue["DEFUNCT"]
  BY <1>1, <1>3
<1> QED BY <1>4, <1>5 DEF Abs, RecordOf

(* The idle thread takes no part in a change of state.                     *)
LEMMA IdleStays ==
  ASSUME IInv, IInv'
  PROVE  /\ ~Wake(IdleThread) /\ ~ExitDetached(IdleThread) /\ ~Free(IdleThread)
         /\ \A to \in Queues : ~Stop(IdleThread, to)
<1>1. state[IdleThread] = "READY" /\ state \in [Threads -> Queues \cup {"none", "READY"}]
  BY IdleQueued, BucketAssumption DEF IInv, Rep, Agree
<1>2. state'[IdleThread] = "READY"
  <2> DEFINE q == BucketValue'
             cs == ListValue'
  <2>1. V!Good(q) /\ Agree(q, cs, state', b'.prio, b'.curp)
    BY DEF IInv, Rep
  <2> HIDE DEF q, cs
  <2>2. V!Queued(q, IdleThread)
    BY <2>1, IdleQueued
  <2> QED BY <2>1, <2>2, BucketAssumption DEF Agree
<1>3. \A x \in Queues : x # "READY"
  BY DEF Queues
<1>4. "DEFUNCT" \in Queues
  BY DEF Queues
<1>5. \A to \in Queues : state' # [state EXCEPT ![IdleThread] = to]
  BY <1>1, <1>2, <1>3, BucketAssumption
<1> QED BY <1>1, <1>3, <1>4, <1>5 DEF Wake, ExitDetached, Free, Stop

(* What a step does to one thread, if it is one of that thread's changes.  *)
LEMMA ChangesMap ==
  ASSUME IInv, [Next]_vars, NEW n \in Threads
  PROVE  /\ Wake(n) \/ ExitDetached(n) \/ (\E to \in Queues : Stop(n, to)) =>
              Abs' = TL!StateChange(Abs, n, state'[n], b.prio[n])
         /\ ExitDetached(n) => Chain("DEFUNCT")' = Append(Chain("DEFUNCT"), n)
         /\ Free(n) => /\ Abs' = TL!SetState(Abs, n, "none")
                       /\ Chain("DEFUNCT")' = TL!Without(Chain("DEFUNCT"), n)
<1>0. IInv' /\ "DEFUNCT" \in Queues /\ "BLOCKED" \in Queues /\ "SLEEPING" \in Queues
  BY NextIInv DEF Queues
<1>1. CASE n = IdleThread
  BY <1>0, <1>1, IdleStays
<1>2. CASE n # IdleThread
  <2> DEFINE cs == ListValue
  <2>0. cs \in [Queues -> Seq(Threads)] /\ state \in [Threads -> Queues \cup {"none", "READY"}]
    BY DEF IInv, LRep, Agree
  <2>1. ASSUME Wake(n) PROVE Abs' = TL!StateChange(Abs, n, state'[n], b.prio[n])
    <3>1. /\ state[n] \in {"BLOCKED", "SLEEPING"} /\ state' = [state EXCEPT ![n] = "READY"]
      BY <2>1 DEF Wake
    <3>2. /\ BucketValue' = V!BqInsert(BucketValue, n, b.prio[n])
          /\ ListValue' = [cs EXCEPT ![state[n]] = V!Without(cs[state[n]], n)]
      BY <1>2, <2>1, WakeStep
    <3>3. state'[n] = "READY"
      BY <2>0, <3>1
    <3> HIDE DEF cs
    <3>4. /\ ListValue'["BLOCKED"] = IF state[n] = "BLOCKED" THEN V!Without(cs["BLOCKED"], n) ELSE cs["BLOCKED"]
          /\ ListValue'["SLEEPING"] = IF state[n] = "SLEEPING" THEN V!Without(cs["SLEEPING"], n) ELSE cs["SLEEPING"]
      BY <1>0, <2>0, <3>1, <3>2
    <3>5. TL!StateChange(RecordOf(state, BucketValue, cs["BLOCKED"], cs["SLEEPING"]), n, "READY", b.prio[n]) =
            RecordOf(state', BucketValue', ListValue'["BLOCKED"], ListValue'["SLEEPING"])
      <4>1. TL!StateChange(RecordOf(state, BucketValue, cs["BLOCKED"], cs["SLEEPING"]), n, "READY", b.prio[n]) =
              WokenRecord(state, BucketValue, cs["BLOCKED"], cs["SLEEPING"], n, b.prio[n])
        BY <3>1, WakesInRecord
      <4> QED BY <3>1, <3>2, <3>4, <4>1 DEF WokenRecord
    <3> QED BY <3>3, <3>5, AbsIs DEF cs
  <2>2. ASSUME NEW to \in Queues, Stop(n, to)
        PROVE  Abs' = TL!StateChange(Abs, n, state'[n], b.prio[n])
    <3>1. /\ state[n] = "READY" /\ state' = [state EXCEPT ![n] = to]
          /\ BucketValue' = V!BqDelete(BucketValue, n)
          /\ ListValue' = IF to = "DEFUNCT" THEN cs ELSE [cs EXCEPT ![to] = Append(cs[to], n)]
      BY <1>2, <2>2, StopStep
    <3>2. state'[n] = to
      BY <2>0, <3>1
    <3> HIDE DEF cs
    <3>3. /\ ListValue'["BLOCKED"] = IF to = "BLOCKED" THEN Append(cs["BLOCKED"], n) ELSE cs["BLOCKED"]
          /\ ListValue'["SLEEPING"] = IF to = "SLEEPING" THEN Append(cs["SLEEPING"], n) ELSE cs["SLEEPING"]
      BY <1>0, <2>0, <3>1
    <3>4. TL!StateChange(RecordOf(state, BucketValue, cs["BLOCKED"], cs["SLEEPING"]), n, to, b.prio[n]) =
            RecordOf(state', BucketValue', ListValue'["BLOCKED"], ListValue'["SLEEPING"])
      <4>1. TL!StateChange(RecordOf(state, BucketValue, cs["BLOCKED"], cs["SLEEPING"]), n, to, b.prio[n]) =
              StoppedRecord(state, BucketValue, cs["BLOCKED"], cs["SLEEPING"], n, to)
        BY <3>1, StopsInRecord
      <4> QED BY <3>1, <3>3, <4>1 DEF StoppedRecord
    <3> QED BY <3>2, <3>4, AbsIs DEF cs
  <2>3. ASSUME ExitDetached(n)
        PROVE  /\ Abs' = TL!StateChange(Abs, n, state'[n], b.prio[n])
               /\ Chain("DEFUNCT")' = Append(Chain("DEFUNCT"), n)
    <3>1. /\ state[n] = "READY" /\ state' = [state EXCEPT ![n] = "DEFUNCT"]
          /\ BucketValue' = V!BqDelete(BucketValue, n)
          /\ ListValue' = [cs EXCEPT !["DEFUNCT"] = Append(cs["DEFUNCT"], n)]
      BY <1>2, <2>3, ExitDetachedStep
    <3>2. state'[n] = "DEFUNCT"
      BY <2>0, <3>1
    <3> HIDE DEF cs
    <3>3. /\ ListValue'["BLOCKED"] = cs["BLOCKED"] /\ ListValue'["SLEEPING"] = cs["SLEEPING"]
          /\ ListValue'["DEFUNCT"] = Append(cs["DEFUNCT"], n)
      BY <1>0, <2>0, <3>1
    <3>4. TL!StateChange(RecordOf(state, BucketValue, cs["BLOCKED"], cs["SLEEPING"]), n, "DEFUNCT", b.prio[n]) =
            RecordOf(state', BucketValue', ListValue'["BLOCKED"], ListValue'["SLEEPING"])
      <4>1. TL!StateChange(RecordOf(state, BucketValue, cs["BLOCKED"], cs["SLEEPING"]), n, "DEFUNCT", b.prio[n]) =
              StoppedRecord(state, BucketValue, cs["BLOCKED"], cs["SLEEPING"], n, "DEFUNCT")
        BY <1>0, <3>1, StopsInRecord
      <4> QED BY <3>1, <3>3, <4>1 DEF StoppedRecord
    <3> QED BY <3>2, <3>3, <3>4, AbsIs DEF cs
  <2>4. ASSUME Free(n)
        PROVE  /\ Abs' = TL!SetState(Abs, n, "none")
               /\ Chain("DEFUNCT")' = TL!Without(Chain("DEFUNCT"), n)
    <3>1. /\ state' = [state EXCEPT ![n] = "none"] /\ BucketValue' = BucketValue
          /\ ListValue' = [cs EXCEPT !["DEFUNCT"] = V!Without(cs["DEFUNCT"], n)]
      BY <1>2, <2>4, FreeStep DEF Free
    <3> HIDE DEF cs
    <3>2. /\ ListValue'["BLOCKED"] = cs["BLOCKED"] /\ ListValue'["SLEEPING"] = cs["SLEEPING"]
          /\ ListValue'["DEFUNCT"] = TL!Without(cs["DEFUNCT"], n)
      BY <1>0, <2>0, <3>1, OneRecord
    <3>3. TL!SetState(RecordOf(state, BucketValue, cs["BLOCKED"], cs["SLEEPING"]), n, "none") =
            RecordOf(state', BucketValue', ListValue'["BLOCKED"], ListValue'["SLEEPING"])
      BY <3>1, <3>2 DEF TL!SetState, RecordOf
    <3> QED BY <3>2, <3>3, AbsIs DEF cs
  <2> QED BY <2>1, <2>2, <2>3, <2>4
<1> QED BY <1>1, <1>2

(* A state change has on the pointers the effect that Scheduler works with, *)
(* and a detached thread goes to the end of defunct_state and leaves it    *)
(* when it is freed.                                                       *)
THEOREM PointersImplementLists == Spec => ImplementsLists
<1>1. IInv /\ [Next]_vars =>
        [\A n \in Threads :
           /\ Wake(n) \/ ExitDetached(n) \/ (\E to \in Queues : Stop(n, to)) =>
                Abs' = TL!StateChange(Abs, n, state'[n], b.prio[n])
           /\ ExitDetached(n) => Chain("DEFUNCT")' = Append(Chain("DEFUNCT"), n)
           /\ Free(n) => /\ Abs' = TL!SetState(Abs, n, "none")
                         /\ Chain("DEFUNCT")' = TL!Without(Chain("DEFUNCT"), n)]_vars
  BY ChangesMap
<1> QED BY <1>1, PointersGood, PTL DEF Spec, ImplementsLists

=============================================================================
