------------------------- MODULE ThreadLists_proofs -------------------------
(***************************************************************************)
(* What the operations of pthipth_bq.c and __pthipth_change_to_state keep, *)
(* as operations on values: for every set of threads and every number of   *)
(* priorities.  First the bucket queue, then the list of a thread's state. *)
(* BucketSpec_proofs, Scheduler_proofs and Lists_proofs rest on it.        *)
(***************************************************************************)
EXTENDS ThreadLists, BucketConstants, SequenceTheorems, WellFoundedInduction, TLAPS

(* A non-empty set of natural numbers has a smallest element, which Min    *)
(* (hence Top, hence __builtin_ctz) returns.                               *)
LEMMA MinOf ==
  ASSUME NEW S \in SUBSET Nat, S # {}
  PROVE  Min(S) \in S /\ \A y \in S : Min(S) <= y
<1> DEFINE R == {ss \in Nat \X Nat : ss[1] < ss[2]}
<1>1. IsWellFoundedOn(R, Nat)
  BY NatLessThanWellFounded DEF OpToRel
<1>2. PICK x \in S : \A y \in S : ~(<<y, x>> \in R)
  BY <1>1, WFMin, Zenon
<1>3. ASSUME NEW y \in S PROVE x <= y
  <2>1. x \in Nat /\ y \in Nat
    OBVIOUS
  <2>2. ~(<<y, x>> \in R)
    BY <1>2, <1>3
  <2>3. ~(y < x)
    BY <2>1, <2>2
  <2> QED BY <2>1, <2>3
<1> QED BY <1>3 DEF Min

(* What RemoveAt returns.                                                  *)
LEMMA RemoveAtIs ==
  ASSUME NEW S, NEW s \in Seq(S), NEW k \in 1 .. Len(s)
  PROVE  /\ RemoveAt(s, k) \in Seq(S)
         /\ Len(RemoveAt(s, k)) = Len(s) - 1
         /\ \A i \in 1 .. Len(s) - 1 : RemoveAt(s, k)[i] = IF i < k THEN s[i] ELSE s[i + 1]
<1> DEFINE a == SubSeq(s, 1, k - 1)
           b == SubSeq(s, k + 1, Len(s))
<1>1. a \in Seq(S) /\ Len(a) = k - 1 /\ \A i \in 1 .. k - 1 : a[i] = s[i]
  OBVIOUS
<1>2. b \in Seq(S) /\ Len(b) = Len(s) - k /\ \A i \in 1 .. Len(s) - k : b[i] = s[k + i]
  OBVIOUS
<1>3. RemoveAt(s, k) = a \o b
  BY DEF RemoveAt
<1> HIDE DEF a, b
<1>4. /\ a \o b \in Seq(S) /\ Len(a \o b) = Len(a) + Len(b)
      /\ \A i \in 1 .. Len(a) + Len(b) :
           (a \o b)[i] = IF i <= Len(a) THEN a[i] ELSE b[i - Len(a)]
  BY <1>1, <1>2, ConcatProperties
<1>5. Len(s) \in Nat /\ k \in Nat /\ Len(a) + Len(b) = Len(s) - 1
  BY <1>1, <1>2
<1>6. ASSUME NEW i \in 1 .. Len(s) - 1
      PROVE  (a \o b)[i] = IF i < k THEN s[i] ELSE s[i + 1]
  <2>1. CASE i < k
    BY <1>1, <1>4, <1>5, <2>1
  <2>2. CASE i >= k
    <3>1. (a \o b)[i] = b[i - Len(a)]
      BY <1>1, <1>4, <1>5, <2>2
    <3>2. i - Len(a) \in 1 .. Len(s) - k /\ k + (i - Len(a)) = i + 1
      BY <1>1, <1>5, <2>2
    <3>3. b[i - Len(a)] = s[i + 1]
      BY <1>2, <3>2
    <3> QED BY <1>5, <2>2, <3>1, <3>3
  <2> QED BY <1>5, <2>1, <2>2
<1> QED BY <1>3, <1>4, <1>5, <1>6

(* Unlinking the node at place k.                                          *)
LEMMA WithoutIs ==
  ASSUME NEW S, NEW s \in Seq(S), NEW n, Contains(s, n)
  PROVE  \E k \in 1 .. Len(s) :
           /\ s[k] = n
           /\ Without(s, n) \in Seq(S)
           /\ Len(Without(s, n)) = Len(s) - 1
           /\ \A i \in 1 .. Len(s) - 1 : Without(s, n)[i] = IF i < k THEN s[i] ELSE s[i + 1]
<1> DEFINE k == CHOOSE i \in DOMAIN s : s[i] = n
<1>1. k \in 1 .. Len(s) /\ s[k] = n
  BY DEF Contains
<1>2. Without(s, n) = RemoveAt(s, k)
  BY DEF Without
<1> HIDE DEF k
<1> QED BY <1>1, <1>2, RemoveAtIs

-----------------------------------------------------------------------------
(* TypeOK and Sound of BucketSpec for a queue that need not be its variable, *)
(* so that they apply to the value between the two halves of a reinsert.   *)
Good(r) ==
  /\ r = [bucket |-> r.bucket, bits |-> r.bits]
  /\ r.bucket \in [Priorities -> Seq(Threads)]
  /\ r.bits \in SUBSET Priorities
  /\ NoDuplicates(r)
  /\ BitsSound(r)
  /\ IdlePriority \in r.bits
  /\ r.bucket[IdlePriority] = <<IdleThread>>

(* Level of a queued thread is the bucket it is in.                        *)
LEMMA LevelIs ==
  ASSUME NEW r, Good(r), NEW n, Queued(r, n)
  PROVE  /\ Level(r, n) \in Priorities
         /\ Contains(r.bucket[Level(r, n)], n)
         /\ n # IdleThread => Level(r, n) # IdlePriority
<1>1. DOMAIN r.bucket = Priorities
  BY DEF Good
<1>2. Level(r, n) \in Priorities /\ Contains(r.bucket[Level(r, n)], n)
  BY <1>1 DEF Level, Queued
<1>3. ASSUME n # IdleThread PROVE ~Contains(r.bucket[IdlePriority], n)
  BY <1>3 DEF Good, Contains
<1> QED BY <1>2, <1>3

(* One bucket gets new contents, made of its own threads and of threads    *)
(* that were not queued.                                                   *)
LEMMA Refile ==
  ASSUME NEW r, Good(r), NEW p \in Priorities, NEW t \in Seq(Threads), NEW bits \in SUBSET Priorities,
         \A i, j \in 1 .. Len(t) : t[i] = t[j] => i = j,
         \A i \in 1 .. Len(t) : Contains(r.bucket[p], t[i]) \/ ~Queued(r, t[i]),
         bits \ {p} \subseteq r.bits, IdlePriority \in bits,
         p \in bits => t # <<>>, p = IdlePriority => t = <<IdleThread>>
  PROVE  Good([bucket |-> [r.bucket EXCEPT ![p] = t], bits |-> bits])
<1> DEFINE r1 == [bucket |-> [r.bucket EXCEPT ![p] = t], bits |-> bits]
<1>1. r1.bucket \in [Priorities -> Seq(Threads)] /\ r1.bits = bits
  BY DEF Good
<1>2. \A x \in Priorities : r1.bucket[x] = IF x = p THEN t ELSE r.bucket[x]
  BY DEF Good
<1>3. DOMAIN r1.bucket = Priorities /\ DOMAIN r.bucket = Priorities
  BY <1>1 DEF Good
<1>4. \A x \in Priorities : Len(r1.bucket[x]) \in Nat /\ DOMAIN r1.bucket[x] = 1 .. Len(r1.bucket[x])
  BY <1>1
<1>5. \A x \in Priorities : DOMAIN r.bucket[x] = 1 .. Len(r.bucket[x])
  BY DEF Good
<1> HIDE DEF r1
<1>6. NoDuplicates(r1)
  <2> SUFFICES ASSUME NEW p1 \in DOMAIN r1.bucket, NEW p2 \in DOMAIN r1.bucket,
                      NEW i \in DOMAIN r1.bucket[p1], NEW j \in DOMAIN r1.bucket[p2],
                      r1.bucket[p1][i] = r1.bucket[p2][j]
               PROVE  p1 = p2 /\ i = j
    BY Zenon DEF NoDuplicates
  <2>0. /\ p1 \in Priorities /\ i \in 1 .. Len(r1.bucket[p1])
        /\ p2 \in Priorities /\ j \in 1 .. Len(r1.bucket[p2])
    BY <1>3, <1>4
  <2>1. CASE p1 = p /\ p2 = p
    BY <1>2, <2>0, <2>1
  <2>2. CASE p1 # p /\ p2 # p
    BY <1>2, <1>3, <1>5, <2>0, <2>2 DEF Good, NoDuplicates
  <2>3. ASSUME NEW x \in Priorities \ {p}, NEW k \in 1 .. Len(r.bucket[x]), NEW l \in 1 .. Len(t)
        PROVE  t[l] # r.bucket[x][k]
    <3> SUFFICES ASSUME t[l] = r.bucket[x][k] PROVE FALSE
      OBVIOUS
    <3>1. Queued(r, t[l])
      BY <1>3 DEF Queued, Contains
    <3>2. PICK m \in 1 .. Len(r.bucket[p]) : r.bucket[p][m] = t[l]
      BY <3>1 DEF Contains
    <3> QED BY <1>3, <1>5, <3>2 DEF Good, NoDuplicates
  <2> QED BY <1>2, <2>0, <2>1, <2>2, <2>3
<1>7. BitsSound(r1)
  BY <1>1, <1>2 DEF Good, BitsSound
<1>8. r1.bucket[IdlePriority] = <<IdleThread>>
  BY <1>2, BucketAssumption DEF Good, Priorities
<1>9. r1 = [bucket |-> r1.bucket, bits |-> r1.bits]
  BY DEF r1
<1> QED BY <1>1, <1>6, <1>7, <1>8, <1>9 DEF Good, r1

-----------------------------------------------------------------------------
(* Without keeps a bucket free of duplicates and drops the thread.         *)
LEMMA Unlinked ==
  ASSUME NEW s \in Seq(Threads), NEW n, Contains(s, n),
         \A i, j \in 1 .. Len(s) : s[i] = s[j] => i = j
  PROVE  /\ Without(s, n) \in Seq(Threads)
         /\ Len(Without(s, n)) = Len(s) - 1
         /\ \A i, j \in 1 .. Len(Without(s, n)) : Without(s, n)[i] = Without(s, n)[j] => i = j
         /\ \A i \in 1 .. Len(Without(s, n)) : Contains(s, Without(s, n)[i]) /\ Without(s, n)[i] # n
<1> DEFINE t == Without(s, n)
<1>1. PICK k \in 1 .. Len(s) :
        /\ s[k] = n /\ t \in Seq(Threads) /\ Len(t) = Len(s) - 1
        /\ \A i \in 1 .. Len(s) - 1 : t[i] = IF i < k THEN s[i] ELSE s[i + 1]
  BY WithoutIs
<1> HIDE DEF t
<1>2. Len(s) \in Nat
  OBVIOUS
<1>3. \A i \in 1 .. Len(t) : \E m \in 1 .. Len(s) : m # k /\ t[i] = s[m] /\ m = IF i < k THEN i ELSE i + 1
  BY <1>1, <1>2
<1>4. \A i \in 1 .. Len(t) : Contains(s, t[i]) /\ t[i] # n
  BY <1>1, <1>3 DEF Contains
<1>5. \A i, j \in 1 .. Len(t) : t[i] = t[j] => i = j
  BY <1>1, <1>2, <1>3
<1> QED BY <1>1, <1>4, <1>5 DEF t

(* No thread twice in one bucket of a good queue.                          *)
LEMMA OnceInBucket ==
  ASSUME NEW r, Good(r), NEW p \in Priorities
  PROVE  /\ r.bucket[p] \in Seq(Threads)
         /\ \A i, j \in 1 .. Len(r.bucket[p]) : r.bucket[p][i] = r.bucket[p][j] => i = j
<1>1. r.bucket[p] \in Seq(Threads) /\ DOMAIN r.bucket = Priorities
  BY DEF Good
<1>2. DOMAIN r.bucket[p] = 1 .. Len(r.bucket[p])
  BY <1>1
<1> QED BY <1>1, <1>2 DEF Good, NoDuplicates

(* pthipth_bq_insert of a thread that is not queued.                       *)
LEMMA InsertGood ==
  ASSUME NEW r, Good(r), NEW n \in Threads, ~Queued(r, n), NEW p \in Priorities \ {IdlePriority}
  PROVE  Good(BqInsert(r, n, p))
<1> DEFINE s == r.bucket[p]
           t == Append(s, n)
           bits == IF s = <<>> THEN r.bits \cup {p} ELSE r.bits
<1>1. s \in Seq(Threads) /\ (\A i, j \in 1 .. Len(s) : s[i] = s[j] => i = j)
  BY OnceInBucket
<1>2. \A i \in 1 .. Len(s) : s[i] # n
  BY DEF Good, Queued, Contains
<1>3. BqInsert(r, n, p) = [bucket |-> [r.bucket EXCEPT ![p] = t], bits |-> bits]
  BY DEF BqInsert
<1>4. bits \in SUBSET Priorities /\ IdlePriority \in bits /\ bits \ {p} \subseteq r.bits
  BY DEF Good
<1> HIDE DEF s
<1>5. /\ t \in Seq(Threads) /\ Len(t) = Len(s) + 1 /\ t # <<>>
      /\ \A i \in 1 .. Len(t) : t[i] = IF i = Len(s) + 1 THEN n ELSE s[i]
  BY <1>1
<1> HIDE DEF t
<1>6. \A i, j \in 1 .. Len(t) : t[i] = t[j] => i = j
  BY <1>1, <1>2, <1>5
<1>7. \A i \in 1 .. Len(t) : Contains(s, t[i]) \/ ~Queued(r, t[i])
  BY <1>1, <1>5 DEF Contains
<1> QED BY <1>3, <1>4, <1>5, <1>6, <1>7, Refile DEF s

(* pthipth_bq_delete.                                                      *)
LEMMA DeleteGood ==
  ASSUME NEW r, Good(r), NEW n \in Threads \ {IdleThread}
  PROVE  Good(BqDelete(r, n)) /\ ~Queued(BqDelete(r, n), n)
<1>1. CASE ~Queued(r, n)
  BY <1>1 DEF BqDelete
<1>2. CASE Queued(r, n)
  <2> DEFINE p == Level(r, n)
             s == r.bucket[p]
             t == Without(s, n)
             bits == IF Head(s) = n THEN r.bits \ {p} ELSE r.bits
             d == [bucket |-> [r.bucket EXCEPT ![p] = t], bits |-> bits]
  <2>1. BqDelete(r, n) = d
    BY <1>2 DEF BqDelete
  <2>2. p \in Priorities \ {IdlePriority} /\ Contains(s, n)
    BY <1>2, LevelIs
  <2> HIDE DEF p
  <2>3. s \in Seq(Threads) /\ (\A i, j \in 1 .. Len(s) : s[i] = s[j] => i = j)
    BY <2>2, OnceInBucket
  <2>4. /\ t \in Seq(Threads) /\ Len(t) = Len(s) - 1
        /\ \A i, j \in 1 .. Len(t) : t[i] = t[j] => i = j
        /\ \A i \in 1 .. Len(t) : Contains(s, t[i]) /\ t[i] # n
    BY <2>2, <2>3, Unlinked
  <2>5. bits \in SUBSET Priorities /\ IdlePriority \in bits /\ bits \ {p} \subseteq r.bits
    BY <2>2 DEF Good
  <2>6. p \in bits => t # <<>>
    <3> SUFFICES ASSUME Head(s) # n PROVE Len(s) > 1
      BY <2>4
    <3>1. PICK k \in 1 .. Len(s) : s[k] = n
      BY <2>2 DEF Contains
    <3>2. s # <<>> /\ Head(s) = s[1]
      BY <2>3, <3>1
    <3> QED BY <2>3, <3>1, <3>2
  <2>7. Good(d)
    BY <2>2, <2>4, <2>5, <2>6, Refile
  <2>8. ~Queued(d, n)
    <3> SUFFICES ASSUME NEW x \in Priorities, Contains(d.bucket[x], n) PROVE FALSE
      BY DEF Queued, Good
    <3>1. CASE x = p
      BY <2>4, <3>1 DEF Good, Contains
    <3>2. CASE x # p
      <4>1. d.bucket[x] = r.bucket[x]
        BY <3>2 DEF Good
      <4>2. PICK i \in 1 .. Len(r.bucket[x]) : r.bucket[x][i] = n
        BY <4>1 DEF Contains
      <4>3. PICK j \in 1 .. Len(s) : s[j] = n
        BY <2>2 DEF Contains
      <4>4. r.bucket[x] \in Seq(Threads) /\ DOMAIN r.bucket = Priorities
        BY DEF Good
      <4> QED BY <2>2, <2>3, <3>2, <4>2, <4>3, <4>4 DEF Good, NoDuplicates
    <3> QED BY <3>1, <3>2
  <2> QED BY <2>1, <2>7, <2>8
<1> QED BY <1>1, <1>2

(* pthipth_bq_reinsert: a delete, then an insert.                          *)
LEMMA ReinsertGood ==
  ASSUME NEW r, Good(r), NEW n \in Threads \ {IdleThread}, NEW p \in Priorities \ {IdlePriority}
  PROVE  Good(BqReinsert(r, n, p))
<1>1. Good(BqDelete(r, n)) /\ ~Queued(BqDelete(r, n), n)
  BY DeleteGood
<1> QED BY <1>1, InsertGood DEF BqReinsert

(* The bucket that peek and rotate look at has a bit and a thread.         *)
LEMMA TopGood ==
  ASSUME NEW r, Good(r)
  PROVE  /\ Top(r) \in r.bits /\ Top(r) \in Priorities
         /\ \A p \in r.bits : Top(r) <= p
         /\ r.bucket[Top(r)] # <<>>
<1>1. r.bits \in SUBSET Priorities /\ r.bits # {}
  BY DEF Good
<1>2. r.bits \in SUBSET Nat
  BY <1>1, BucketAssumption DEF Priorities
<1>3. Top(r) \in r.bits /\ \A p \in r.bits : Top(r) <= p
  BY <1>1, <1>2, MinOf DEF Top
<1> QED BY <1>1, <1>3 DEF Good, BitsSound

(* Moving the first element of a sequence to its end.                      *)
LEMMA RotatedIs ==
  ASSUME NEW S, NEW s \in Seq(S), s # <<>>
  PROVE  LET t == Append(Tail(s), Head(s)) IN
         /\ t \in Seq(S) /\ Len(t) = Len(s)
         /\ \A i \in 1 .. Len(s) : t[i] = IF i = Len(s) THEN s[1] ELSE s[i + 1]
<1>1. /\ Tail(s) \in Seq(S) /\ Head(s) = s[1] /\ s[1] \in S /\ Len(Tail(s)) = Len(s) - 1
      /\ \A i \in 1 .. Len(s) - 1 : Tail(s)[i] = s[i + 1]
  OBVIOUS
<1>2. Len(s) \in Nat
  OBVIOUS
<1> DEFINE u == Tail(s)
<1> HIDE DEF u
<1>3. u \in Seq(S) /\ Len(u) = Len(s) - 1 /\ \A i \in 1 .. Len(s) - 1 : u[i] = s[i + 1]
  BY <1>1 DEF u
<1>4. /\ Append(u, s[1]) \in Seq(S) /\ Len(Append(u, s[1])) = Len(s)
      /\ \A i \in 1 .. Len(s) : Append(u, s[1])[i] = IF i = Len(s) THEN s[1] ELSE u[i]
  <2> DEFINE x == s[1]
  <2>1. x \in S
    BY <1>1
  <2> HIDE DEF x
  <2>2. /\ Append(u, x) \in Seq(S) /\ Len(Append(u, x)) = Len(u) + 1
        /\ \A i \in 1 .. Len(u) + 1 : Append(u, x)[i] = IF i = Len(u) + 1 THEN x ELSE u[i]
    BY <1>3, <2>1, AppendProperties
  <2> QED BY <1>2, <1>3, <2>2 DEF x
<1>5. \A i \in 1 .. Len(s) : Append(u, s[1])[i] = IF i = Len(s) THEN s[1] ELSE s[i + 1]
  BY <1>2, <1>3, <1>4
<1> QED BY <1>1, <1>4, <1>5 DEF u

(* The rotation of pthipth_bq_rotate_highest_bucket.                       *)
LEMMA RotateGood ==
  ASSUME NEW r, Good(r)
  PROVE  Good(BqRotate(r))
<1> DEFINE p == Top(r)
           s == r.bucket[p]
           t == Append(Tail(s), Head(s))
<1>1. p \in r.bits /\ p \in Priorities /\ s # <<>>
  BY TopGood
<1>2. BqRotate(r) = [bucket |-> [r.bucket EXCEPT ![p] = t], bits |-> r.bits]
  <2>1. r = [bucket |-> r.bucket, bits |-> r.bits]
    BY DEF Good
  <2>2. BqRotate(r) = [r EXCEPT !.bucket = [r.bucket EXCEPT ![p] = t]]
    BY DEF BqRotate
  <2> HIDE DEF t
  <2> QED BY <2>1, <2>2
<1> HIDE DEF p
<1>3. s \in Seq(Threads) /\ (\A i, j \in 1 .. Len(s) : s[i] = s[j] => i = j)
  BY <1>1, OnceInBucket
<1>4. p = IdlePriority => s = <<IdleThread>>
  BY DEF Good
<1> HIDE DEF s
<1>5. /\ t \in Seq(Threads) /\ Len(t) = Len(s)
      /\ \A i \in 1 .. Len(s) : t[i] = IF i = Len(s) THEN s[1] ELSE s[i + 1]
  BY <1>1, <1>3, RotatedIs
<1>6. p = IdlePriority => t = <<IdleThread>>
  BY <1>4, Append(Tail(<<IdleThread>>), Head(<<IdleThread>>)) = <<IdleThread>>
<1> HIDE DEF t
<1>7. Len(s) \in Nat /\ Len(s) > 0
  BY <1>1, <1>3
<1>8. \A i, j \in 1 .. Len(t) : t[i] = t[j] => i = j
  BY <1>3, <1>5, <1>7
<1>9. \A i \in 1 .. Len(t) : Contains(s, t[i])
  BY <1>5, <1>7 DEF Contains
<1>10. t # <<>>
  BY <1>5, <1>7
<1>11. r.bits \in SUBSET Priorities /\ IdlePriority \in r.bits
  BY DEF Good
<1> QED BY <1>1, <1>2, <1>5, <1>6, <1>8, <1>9, <1>10, <1>11, Refile DEF s

-----------------------------------------------------------------------------
(* No thread is hidden from peek: every bucket in use has its bit.         *)
Complete(r) == \A p \in Priorities : r.bucket[p] # <<>> => p \in r.bits

(* An insert hides nobody.                                                 *)
LEMMA InsertComplete ==
  ASSUME NEW r, Good(r), Complete(r), NEW n \in Threads, NEW p \in Priorities
  PROVE  Complete(BqInsert(r, n, p))
BY DEF Complete, BqInsert, Good

(* A delete hides nobody if the thread is not the first of several.        *)
LEMMA DeleteComplete ==
  ASSUME NEW r, Good(r), Complete(r), NEW n \in Threads \ {IdleThread}, Queued(r, n),
         Len(r.bucket[Level(r, n)]) = 1 \/ Head(r.bucket[Level(r, n)]) # n
  PROVE  Complete(BqDelete(r, n))
<1> DEFINE p == Level(r, n)
           s == r.bucket[p]
           t == Without(s, n)
           bits == IF Head(s) = n THEN r.bits \ {p} ELSE r.bits
           d == [bucket |-> [r.bucket EXCEPT ![p] = t], bits |-> bits]
<1>1. BqDelete(r, n) = d
  BY DEF BqDelete
<1>2. p \in Priorities /\ Contains(s, n)
  BY LevelIs
<1>3. s \in Seq(Threads) /\ (\A i, j \in 1 .. Len(s) : s[i] = s[j] => i = j)
  BY <1>2, OnceInBucket
<1>4. Len(s) = 1 => t = <<>>
  <2>1. t \in Seq(Threads) /\ Len(t) = Len(s) - 1
    BY <1>2, <1>3, Unlinked
  <2> HIDE DEF t
  <2> QED BY <2>1
<1>5. Len(s) = 1 \/ Head(s) # n
  OBVIOUS
<1>6. s # <<>>
  BY <1>2, <1>3 DEF Contains
<1> HIDE DEF p
<1>7. ASSUME NEW x \in Priorities, d.bucket[x] # <<>> PROVE x \in d.bits
  <2>1. CASE x # p
    BY <1>7, <2>1 DEF Good, Complete
  <2>2. CASE x = p
    <3>1. d.bucket[x] = t
      BY <2>2 DEF Good
    <3>2. Len(s) # 1
      BY <1>4, <1>7, <3>1
    <3> QED BY <1>2, <1>5, <1>6, <2>2, <3>2 DEF Complete
  <2> QED BY <2>1, <2>2
<1> QED BY <1>1, <1>7 DEF Complete

(* A rotation hides nobody.                                                *)
LEMMA RotateComplete ==
  ASSUME NEW r, Good(r), Complete(r)
  PROVE  Complete(BqRotate(r))
<1>1. Top(r) \in r.bits
  BY TopGood
<1>2. BqRotate(r).bits = r.bits
  BY DEF BqRotate, Good
<1>3. \A x \in Priorities : x # Top(r) => BqRotate(r).bucket[x] = r.bucket[x]
  BY DEF BqRotate, Good
<1> QED BY <1>1, <1>2, <1>3 DEF Complete

(* When no bucket is hidden, peek returns a thread of the highest priority. *)
LEMMA PeekOfComplete ==
  ASSUME NEW r, Good(r), Complete(r), NEW n \in Threads, Queued(r, n)
  PROVE  Level(r, n) >= Level(r, BqPeek(r))
<1> DEFINE top == Top(r)
           s == r.bucket[top]
<1>1. top \in r.bits /\ top \in Priorities /\ (\A p \in r.bits : top <= p) /\ s # <<>>
  BY TopGood
<1>2. s \in Seq(Threads)
  BY <1>1, OnceInBucket
<1>3. Contains(s, BqPeek(r)) /\ BqPeek(r) = s[1]
  BY <1>1, <1>2 DEF BqPeek, Contains
<1> HIDE DEF top
<1>4. DOMAIN r.bucket = Priorities
  BY DEF Good
<1>5. Level(r, BqPeek(r)) = top
  <2>1. Queued(r, BqPeek(r))
    BY <1>1, <1>3, <1>4 DEF Queued
  <2>2. Level(r, BqPeek(r)) \in Priorities /\ Contains(r.bucket[Level(r, BqPeek(r))], BqPeek(r))
    BY <2>1, LevelIs
  <2> DEFINE l == Level(r, BqPeek(r))
             u == r.bucket[l]
  <2>3. u \in Seq(Threads)
    BY <2>2, OnceInBucket
  <2> HIDE DEF l
  <2>4. PICK i \in DOMAIN u : u[i] = s[1]
    BY <1>3, <2>2, <2>3 DEF Contains, l
  <2>5. 1 \in DOMAIN s
    BY <1>1, <1>2
  <2> QED BY <1>1, <1>4, <2>2, <2>4, <2>5 DEF Good, NoDuplicates, l
<1>6. Level(r, n) \in Priorities /\ Contains(r.bucket[Level(r, n)], n)
  BY LevelIs
<1>7. r.bucket[Level(r, n)] # <<>>
  BY <1>6 DEF Contains
<1>8. Level(r, n) \in r.bits
  BY <1>6, <1>7 DEF Complete
<1> QED BY <1>1, <1>5, <1>6, <1>8, BucketAssumption DEF Priorities

-----------------------------------------------------------------------------
(* Lists: a state change moves a thread from the list of its old state to  *)
(* the list of its new one and leaves every other thread where it is.      *)

(* A thread goes to the end of a list it is not on.                        *)
LEMMA Appended ==
  ASSUME NEW l \in Seq(Threads), Once(l), NEW n \in Threads, ~Contains(l, n)
  PROVE  /\ Append(l, n) \in Seq(Threads) /\ Once(Append(l, n))
         /\ \A m : Contains(Append(l, n), m) <=> Contains(l, m) \/ m = n
<1> DEFINE k == Append(l, n)
<1>1. Len(l) \in Nat /\ DOMAIN l = 1 .. Len(l)
  OBVIOUS
<1>2. /\ k \in Seq(Threads) /\ Len(k) = Len(l) + 1 /\ DOMAIN k = 1 .. Len(k)
      /\ \A i \in 1 .. Len(k) : k[i] = IF i = Len(l) + 1 THEN n ELSE l[i]
  OBVIOUS
<1> HIDE DEF k
<1>3. \A i \in 1 .. Len(l) : l[i] # n
  BY DEF Contains
<1>4. Once(k)
  BY <1>1, <1>2, <1>3 DEF Once
<1>5. ASSUME NEW m PROVE Contains(k, m) <=> Contains(l, m) \/ m = n
  <2>1. CASE m = n
    <3>1. k[Len(l) + 1] = n /\ Len(l) + 1 \in 1 .. Len(k)
      BY <1>1, <1>2
    <3> QED BY <2>1, <3>1 DEF Contains
  <2>2. CASE m # n
    BY <1>1, <1>2, <2>2 DEF Contains
  <2> QED BY <2>1, <2>2
<1> QED BY <1>2, <1>4, <1>5 DEF k

(* A thread is taken off a list.                                           *)
LEMMA TakenOff ==
  ASSUME NEW l \in Seq(Threads), Once(l), NEW n
  PROVE  /\ Without(l, n) \in Seq(Threads) /\ Once(Without(l, n))
         /\ \A m : Contains(Without(l, n), m) <=> Contains(l, m) /\ m # n
<1> DEFINE k == Without(l, n)
<1>1. Len(l) \in Nat /\ DOMAIN l = 1 .. Len(l)
  OBVIOUS
<1>2. CASE ~Contains(l, n)
  BY <1>2 DEF Without
<1>3. CASE Contains(l, n)
  <2>1. PICK i \in 1 .. Len(l) :
          /\ l[i] = n /\ k \in Seq(Threads) /\ Len(k) = Len(l) - 1
          /\ \A j \in 1 .. Len(l) - 1 : k[j] = IF j < i THEN l[j] ELSE l[j + 1]
    BY <1>3, WithoutIs
  <2> HIDE DEF k
  <2>2. DOMAIN k = 1 .. Len(k)
    BY <2>1
  <2>3. Once(k)
    BY <1>1, <2>1, <2>2 DEF Once
  <2>4. ASSUME NEW m, Contains(l, m), m # n PROVE Contains(k, m)
    <3>1. PICK j \in 1 .. Len(l) : l[j] = m
      BY <2>4 DEF Contains
    <3>2. CASE j < i
      <4>1. j \in 1 .. Len(k) /\ k[j] = m
        BY <1>1, <2>1, <3>1, <3>2
      <4> QED BY <4>1 DEF Contains
    <3>3. CASE j > i
      <4>1. j - 1 \in 1 .. Len(k) /\ k[j - 1] = m
        BY <1>1, <2>1, <3>1, <3>3
      <4> QED BY <4>1 DEF Contains
    <3>4. j # i
      BY <2>1, <2>4, <3>1
    <3> QED BY <1>1, <3>1, <3>2, <3>3, <3>4
  <2>5. ASSUME NEW m, Contains(k, m) PROVE Contains(l, m) /\ m # n
    <3>1. PICK j \in 1 .. Len(k) : k[j] = m
      BY <2>5 DEF Contains
    <3>2. CASE j < i
      <4>1. j \in 1 .. Len(l) /\ l[j] = m /\ j # i
        BY <1>1, <2>1, <3>1, <3>2
      <4> QED BY <1>1, <2>1, <4>1 DEF Contains, Once
    <3>3. CASE j >= i
      <4>1. j + 1 \in 1 .. Len(l) /\ l[j + 1] = m /\ j + 1 # i
        BY <1>1, <2>1, <3>1, <3>3
      <4> QED BY <1>1, <2>1, <4>1 DEF Contains, Once
    <3> QED BY <1>1, <2>1, <3>1, <3>2, <3>3
  <2> QED BY <2>1, <2>3, <2>4, <2>5 DEF k
<1> QED BY <1>2, <1>3

-----------------------------------------------------------------------------
(* Who is in which bucket after the operations of pthipth_bq.c.            *)

(* The thread inserted is in the bucket of its priority; no other moves.   *)
LEMMA InsertHolds ==
  ASSUME NEW r, Good(r), NEW n \in Threads, ~Queued(r, n), NEW p \in Priorities \ {IdlePriority}
  PROVE  /\ Good(BqInsert(r, n, p))
         /\ \A x \in Priorities : \A m :
              Contains(BqInsert(r, n, p).bucket[x], m) <=>
                Contains(r.bucket[x], m) \/ (x = p /\ m = n)
<1> DEFINE s == r.bucket[p]
<1>1. s \in Seq(Threads) /\ (\A i, j \in 1 .. Len(s) : s[i] = s[j] => i = j)
  BY OnceInBucket
<1>2. Once(s) /\ ~Contains(s, n)
  BY <1>1 DEF Once, Good, Queued
<1>3. \A x \in Priorities :
        BqInsert(r, n, p).bucket[x] = IF x = p THEN Append(s, n) ELSE r.bucket[x]
  BY DEF BqInsert, Good
<1>4. Good(BqInsert(r, n, p))
  BY InsertGood
<1> HIDE DEF s
<1>5. \A m : Contains(Append(s, n), m) <=> Contains(s, m) \/ m = n
  BY <1>1, <1>2, Appended
<1> QED BY <1>3, <1>4, <1>5, Zenon DEF s

(* The thread deleted is in no bucket; no other moves.                     *)
LEMMA DeleteHolds ==
  ASSUME NEW r, Good(r), NEW n \in Threads \ {IdleThread}
  PROVE  /\ Good(BqDelete(r, n)) /\ ~Queued(BqDelete(r, n), n)
         /\ \A x \in Priorities : \A m :
              Contains(BqDelete(r, n).bucket[x], m) <=> Contains(r.bucket[x], m) /\ m # n
<1>1. Good(BqDelete(r, n)) /\ ~Queued(BqDelete(r, n), n)
  BY DeleteGood
<1>2. CASE ~Queued(r, n)
  BY <1>1, <1>2 DEF BqDelete, Queued, Good
<1>3. CASE Queued(r, n)
  <2> DEFINE p == Level(r, n)
             s == r.bucket[p]
  <2>1. p \in Priorities /\ Contains(s, n)
    BY <1>3, LevelIs
  <2>2. \A x \in Priorities :
          BqDelete(r, n).bucket[x] = IF x = p THEN Without(s, n) ELSE r.bucket[x]
    BY <1>3 DEF BqDelete, Good
  <2> HIDE DEF p
  <2>3. s \in Seq(Threads) /\ (\A i, j \in 1 .. Len(s) : s[i] = s[j] => i = j)
    BY <2>1, OnceInBucket
  <2>4. Once(s)
    BY <2>3 DEF Once
  <2>5. \A m : Contains(Without(s, n), m) <=> Contains(s, m) /\ m # n
    BY <2>3, <2>4, TakenOff
  <2>6. ASSUME NEW x \in Priorities, x # p PROVE ~Contains(r.bucket[x], n)
    <3>1. DOMAIN BqDelete(r, n).bucket = Priorities
      BY <1>1 DEF Good
    <3>2. BqDelete(r, n).bucket[x] = r.bucket[x]
      BY <2>2, <2>6
    <3> QED BY <1>1, <3>1, <3>2 DEF Queued
  <2> QED BY <1>1, <2>2, <2>5, <2>6
<1> QED BY <1>2, <1>3

(* The rotation leaves every thread in its bucket.                         *)
LEMMA RotateHolds ==
  ASSUME NEW r, Good(r)
  PROVE  /\ Good(BqRotate(r))
         /\ \A x \in Priorities : \A m :
              Contains(BqRotate(r).bucket[x], m) <=> Contains(r.bucket[x], m)
<1> DEFINE p == Top(r)
           s == r.bucket[p]
           t == Append(Tail(s), Head(s))
<1>1. p \in Priorities /\ s # <<>>
  BY TopGood
<1>2. \A x \in Priorities : BqRotate(r).bucket[x] = IF x = p THEN t ELSE r.bucket[x]
  BY DEF BqRotate, Good
<1>3. Good(BqRotate(r))
  BY RotateGood
<1> HIDE DEF p
<1>4. s \in Seq(Threads)
  BY <1>1, OnceInBucket
<1> HIDE DEF s
<1>5. /\ t \in Seq(Threads) /\ Len(t) = Len(s)
      /\ \A i \in 1 .. Len(s) : t[i] = IF i = Len(s) THEN s[1] ELSE s[i + 1]
  BY <1>1, <1>4, RotatedIs
<1> HIDE DEF t
<1>6. Len(s) \in Nat \ {0}
  BY <1>1, <1>4
<1>7. ASSUME NEW m, Contains(t, m) PROVE Contains(s, m)
  BY <1>5, <1>6, <1>7 DEF Contains
<1>8. ASSUME NEW m, Contains(s, m) PROVE Contains(t, m)
  <2>1. PICK j \in 1 .. Len(s) : s[j] = m
    BY <1>8 DEF Contains
  <2>2. CASE j = 1
    <3>1. t[Len(s)] = m /\ Len(s) \in 1 .. Len(t)
      BY <1>5, <1>6, <2>1, <2>2
    <3> QED BY <3>1 DEF Contains
  <2>3. CASE j # 1
    <3>1. t[j - 1] = m /\ j - 1 \in 1 .. Len(t)
      BY <1>5, <1>6, <2>1, <2>3
    <3> QED BY <3>1 DEF Contains
  <2> QED BY <2>2, <2>3
<1> QED BY <1>2, <1>3, <1>7, <1>8 DEF s

-----------------------------------------------------------------------------
OnProcessor == {"READY", "RUNNING"}

(* Every thread is on the list of its state and on no other, once, and in  *)
(* the bucket of its priority pr[t].                                       *)
Filed(s, pr) ==
  /\ s = [state |-> s.state, bq |-> s.bq, blocked |-> s.blocked, sleeping |-> s.sleeping]
  /\ s.state = [t \in Threads |-> s.state[t]]
  /\ pr \in [Threads -> Priorities]
  /\ Good(s.bq)
  /\ \A t \in Threads, p \in Priorities :
       Contains(s.bq.bucket[p], t) <=> s.state[t] \in OnProcessor /\ pr[t] = p
  /\ s.blocked \in Seq(Threads) /\ Once(s.blocked)
  /\ \A t \in Threads : Contains(s.blocked, t) <=> s.state[t] = "BLOCKED"
  /\ s.sleeping \in Seq(Threads) /\ Once(s.sleeping)
  /\ \A t \in Threads : Contains(s.sleeping, t) <=> s.state[t] = "SLEEPING"

(* A thread is queued exactly when it is READY or RUNNING, and then at     *)
(* the level of its priority.                                              *)
LEMMA QueuedIs ==
  ASSUME NEW s, NEW pr, Filed(s, pr), NEW t \in Threads
  PROVE  /\ Queued(s.bq, t) <=> s.state[t] \in OnProcessor
         /\ Queued(s.bq, t) => Level(s.bq, t) = pr[t]
<1>1. DOMAIN s.bq.bucket = Priorities
  BY DEF Filed, Good
<1>2. pr[t] \in Priorities
  BY DEF Filed
<1>3. \A p \in Priorities : Contains(s.bq.bucket[p], t) <=> s.state[t] \in OnProcessor /\ pr[t] = p
  BY DEF Filed
<1> QED BY <1>1, <1>2, <1>3, LevelIs DEF Queued, Filed

(* The idle thread is in the bucket of IDLE_PRIORITY, alone.               *)
LEMMA IdleIs ==
  ASSUME NEW s, NEW pr, Filed(s, pr)
  PROVE  s.state[IdleThread] \in OnProcessor /\ pr[IdleThread] = IdlePriority
<1>1. IdlePriority \in Priorities /\ IdleThread \in Threads
  BY BucketAssumption DEF Priorities
<1>2. s.bq.bucket[IdlePriority] = <<IdleThread>>
  BY DEF Filed, Good
<1>3. Contains(s.bq.bucket[IdlePriority], IdleThread)
  BY <1>2 DEF Contains
<1> QED BY <1>1, <1>3 DEF Filed

(* What a change of the state alone does to the record.                    *)
LEMMA SetStateIs ==
  ASSUME NEW s, NEW t, NEW to,
         s = [state |-> s.state, bq |-> s.bq, blocked |-> s.blocked, sleeping |-> s.sleeping]
  PROVE  SetState(s, t, to) = [state |-> [s.state EXCEPT ![t] = to], bq |-> s.bq,
                               blocked |-> s.blocked, sleeping |-> s.sleeping]
<1>1. SetState(s, t, to) = [s EXCEPT !.state = [s.state EXCEPT ![t] = to]]
  BY DEF SetState
<1> QED BY <1>1

(* A new or woken thread enters the queue.                                 *)
LEMMA MadeReady ==
  ASSUME NEW s, NEW pr, Filed(s, pr), NEW t \in Threads, s.state[t] \notin OnProcessor,
         pr[t] # IdlePriority,
         NEW s1, s1 = [state |-> [s.state EXCEPT ![t] = "READY"], bq |-> BqInsert(s.bq, t, pr[t]),
                       blocked |-> IF s.state[t] = "BLOCKED" THEN Without(s.blocked, t)
                                   ELSE s.blocked,
                       sleeping |-> IF s.state[t] = "SLEEPING" THEN Without(s.sleeping, t)
                                    ELSE s.sleeping]
  PROVE  Filed(s1, pr)
<1> DEFINE p == pr[t]
<1>1. p \in Priorities \ {IdlePriority} /\ ~Queued(s.bq, t) /\ Good(s.bq)
  BY QueuedIs DEF Filed
<1>2. /\ Good(s1.bq)
      /\ \A x \in Priorities : \A m :
           Contains(s1.bq.bucket[x], m) <=> Contains(s.bq.bucket[x], m) \/ (x = p /\ m = t)
  BY <1>1, InsertHolds
<1>3. \A u \in Threads : s1.state[u] = IF u = t THEN "READY" ELSE s.state[u]
  BY DEF Filed
<1>4. \A u \in Threads, x \in Priorities :
        Contains(s1.bq.bucket[x], u) <=> s1.state[u] \in OnProcessor /\ pr[u] = x
  <2>1. \A u \in Threads, x \in Priorities :
          Contains(s.bq.bucket[x], u) <=> s.state[u] \in OnProcessor /\ pr[u] = x
    BY DEF Filed
  <2> HIDE DEF p
  <2> SUFFICES ASSUME NEW u \in Threads, NEW x \in Priorities
               PROVE  Contains(s1.bq.bucket[x], u) <=> s1.state[u] \in OnProcessor /\ pr[u] = x
    OBVIOUS
  <2>2. Contains(s1.bq.bucket[x], u) <=> Contains(s.bq.bucket[x], u) \/ (x = p /\ u = t)
    BY <1>2
  <2> QED BY <1>3, <2>1, <2>2 DEF OnProcessor, p
<1>5. /\ s1.blocked \in Seq(Threads) /\ Once(s1.blocked)
      /\ \A u \in Threads : Contains(s1.blocked, u) <=> s1.state[u] = "BLOCKED"
  <2>1. /\ Without(s.blocked, t) \in Seq(Threads) /\ Once(Without(s.blocked, t))
        /\ \A m : Contains(Without(s.blocked, t), m) <=> Contains(s.blocked, m) /\ m # t
    BY TakenOff DEF Filed
  <2> QED BY <1>3, <2>1 DEF Filed
<1>6. /\ s1.sleeping \in Seq(Threads) /\ Once(s1.sleeping)
      /\ \A u \in Threads : Contains(s1.sleeping, u) <=> s1.state[u] = "SLEEPING"
  <2>1. /\ Without(s.sleeping, t) \in Seq(Threads) /\ Once(Without(s.sleeping, t))
        /\ \A m : Contains(Without(s.sleeping, t), m) <=> Contains(s.sleeping, m) /\ m # t
    BY TakenOff DEF Filed
  <2> QED BY <1>3, <2>1 DEF Filed
<1>7. s1.state = [u \in Threads |-> s1.state[u]]
  BY DEF Filed
<1> QED BY <1>2, <1>4, <1>5, <1>6, <1>7 DEF Filed

(* __pthipth_change_to_state wakes a thread.                               *)
LEMMA Woken ==
  ASSUME NEW s, NEW pr, Filed(s, pr), NEW t \in Threads, s.state[t] \in {"BLOCKED", "SLEEPING"},
         pr[t] # IdlePriority, NEW s2, s2 = StateChange(s, t, "READY", pr[t])
  PROVE  /\ Filed(s2, pr) /\ s2.bq = BqInsert(s.bq, t, pr[t])
         /\ \A v \in Threads : s2.state[v] = IF v = t THEN "READY" ELSE s.state[v]
<1> DEFINE s1 == [state |-> [s.state EXCEPT ![t] = "READY"], bq |-> BqInsert(s.bq, t, pr[t]),
                  blocked |-> IF s.state[t] = "BLOCKED" THEN Without(s.blocked, t)
                              ELSE s.blocked,
                  sleeping |-> IF s.state[t] = "SLEEPING" THEN Without(s.sleeping, t)
                               ELSE s.sleeping]
<1>1. s = [state |-> s.state, bq |-> s.bq, blocked |-> s.blocked, sleeping |-> s.sleeping]
  BY DEF Filed
<1>2. StateChange(s, t, "READY", pr[t]) = s1
  <2>1. CASE s.state[t] = "BLOCKED"
    <3>1. Leave(s, t) = [s EXCEPT !.blocked = Without(s.blocked, t)]
      BY <2>1 DEF Leave
    <3>2. Leave(s, t) = [state |-> s.state, bq |-> s.bq, blocked |-> Without(s.blocked, t),
                         sleeping |-> s.sleeping]
      BY <1>1, <3>1
    <3> QED BY <2>1, <3>2 DEF StateChange, Enter, SetState
  <2>2. CASE s.state[t] = "SLEEPING"
    <3>1. Leave(s, t) = [s EXCEPT !.sleeping = Without(s.sleeping, t)]
      BY <2>2 DEF Leave
    <3>2. Leave(s, t) = [state |-> s.state, bq |-> s.bq, blocked |-> s.blocked,
                         sleeping |-> Without(s.sleeping, t)]
      BY <1>1, <3>1
    <3> QED BY <2>2, <3>2 DEF StateChange, Enter, SetState
  <2> QED BY <2>1, <2>2
<1>3. Filed(s1, pr)
  BY MadeReady DEF OnProcessor
<1>4. \A v \in Threads : s1.state[v] = IF v = t THEN "READY" ELSE s.state[v]
  BY DEF Filed
<1>5. s2 = s1
  BY <1>2
<1>6. s1.bq = BqInsert(s.bq, t, pr[t])
  OBVIOUS
<1> HIDE DEF s1
<1> QED BY <1>3, <1>4, <1>5, <1>6

(* A running thread blocks, sleeps or ends.                                *)
LEMMA Stopped ==
  ASSUME NEW s, NEW pr, Filed(s, pr), NEW t \in Threads \ {IdleThread}, s.state[t] = "RUNNING",
         NEW to \in {"BLOCKED", "SLEEPING", "DEFUNCT"}, NEW s2, s2 = StateChange(s, t, to, pr[t])
  PROVE  /\ Filed(s2, pr) /\ s2.bq = BqDelete(s.bq, t)
         /\ \A v \in Threads : s2.state[v] = IF v = t THEN to ELSE s.state[v]
         /\ to = "SLEEPING" => s2.sleeping = Append(s.sleeping, t)
<1> DEFINE s1 == [state |-> [s.state EXCEPT ![t] = to], bq |-> BqDelete(s.bq, t),
                  blocked |-> IF to = "BLOCKED" THEN Append(s.blocked, t) ELSE s.blocked,
                  sleeping |-> IF to = "SLEEPING" THEN Append(s.sleeping, t) ELSE s.sleeping]
<1>1. s = [state |-> s.state, bq |-> s.bq, blocked |-> s.blocked, sleeping |-> s.sleeping]
  BY DEF Filed
<1>2. StateChange(s, t, to, pr[t]) = s1
  <2>1. Leave(s, t) = s
    BY DEF Leave
  <2> DEFINE e == Enter(s, t, to, pr[t])
  <2>2. StateChange(s, t, to, pr[t]) = SetState(e, t, to)
    BY <2>1 DEF StateChange
  <2>3. e =
          [state |-> s.state, bq |-> BqDelete(s.bq, t),
           blocked |-> IF to = "BLOCKED" THEN Append(s.blocked, t) ELSE s.blocked,
           sleeping |-> IF to = "SLEEPING" THEN Append(s.sleeping, t) ELSE s.sleeping]
    BY <1>1 DEF Enter
  <2> HIDE DEF e
  <2>4. e = [state |-> e.state, bq |-> e.bq, blocked |-> e.blocked, sleeping |-> e.sleeping]
    BY <2>3
  <2>5. SetState(e, t, to) = [state |-> [e.state EXCEPT ![t] = to], bq |-> e.bq,
                              blocked |-> e.blocked, sleeping |-> e.sleeping]
    BY <2>4, SetStateIs
  <2> QED BY <2>2, <2>3, <2>5
<1>3. Filed(s1, pr)
  <2>1. /\ Good(s1.bq)
        /\ \A x \in Priorities : \A m :
             Contains(s1.bq.bucket[x], m) <=> Contains(s.bq.bucket[x], m) /\ m # t
    BY DeleteHolds DEF Filed
  <2>2. \A u \in Threads : s1.state[u] = IF u = t THEN to ELSE s.state[u]
    BY DEF Filed
  <2>3. \A u \in Threads, x \in Priorities :
          Contains(s1.bq.bucket[x], u) <=> s1.state[u] \in OnProcessor /\ pr[u] = x
    BY <2>1, <2>2 DEF Filed, OnProcessor
  <2>4. /\ s1.blocked \in Seq(Threads) /\ Once(s1.blocked)
        /\ \A u \in Threads : Contains(s1.blocked, u) <=> s1.state[u] = "BLOCKED"
    <3>1. /\ Append(s.blocked, t) \in Seq(Threads) /\ Once(Append(s.blocked, t))
          /\ \A m : Contains(Append(s.blocked, t), m) <=> Contains(s.blocked, m) \/ m = t
      BY Appended DEF Filed
    <3> QED BY <2>2, <3>1 DEF Filed
  <2>5. /\ s1.sleeping \in Seq(Threads) /\ Once(s1.sleeping)
        /\ \A u \in Threads : Contains(s1.sleeping, u) <=> s1.state[u] = "SLEEPING"
    <3>1. /\ Append(s.sleeping, t) \in Seq(Threads) /\ Once(Append(s.sleeping, t))
          /\ \A m : Contains(Append(s.sleeping, t), m) <=> Contains(s.sleeping, m) \/ m = t
      BY Appended DEF Filed
    <3> QED BY <2>2, <3>1 DEF Filed
  <2>6. s1.state = [u \in Threads |-> s1.state[u]]
    BY DEF Filed
  <2> QED BY <2>1, <2>3, <2>4, <2>5, <2>6 DEF Filed
<1>4. \A v \in Threads : s1.state[v] = IF v = t THEN to ELSE s.state[v]
  BY DEF Filed
<1> QED BY <1>2, <1>3, <1>4

(* READY and RUNNING, DEFUNCT and freed share their lists.                 *)
LEMMA Renamed ==
  ASSUME NEW s, NEW pr, Filed(s, pr), NEW t \in Threads, NEW to,
         \/ s.state[t] \in OnProcessor /\ to \in OnProcessor
         \/ s.state[t] = "DEFUNCT" /\ to = "freed",
         NEW s2, s2 = SetState(s, t, to)
  PROVE  /\ Filed(s2, pr) /\ s2.bq = s.bq
         /\ \A v \in Threads : s2.state[v] = IF v = t THEN to ELSE s.state[v]
<1> DEFINE s1 == [state |-> [s.state EXCEPT ![t] = to], bq |-> s.bq,
                  blocked |-> s.blocked, sleeping |-> s.sleeping]
<1>1. SetState(s, t, to) = s1
  BY SetStateIs DEF Filed
<1>2. \A u \in Threads : s1.state[u] = IF u = t THEN to ELSE s.state[u]
  BY DEF Filed
<1>3. s1.state = [u \in Threads |-> s1.state[u]]
  BY DEF Filed
<1> QED BY <1>1, <1>2, <1>3 DEF Filed, OnProcessor

(* The other buckets do not change when a thread changes its own.          *)
LEMMA OtherBuckets ==
  ASSUME NEW s, NEW pr, Filed(s, pr), NEW t \in Threads \ {IdleThread},
         s.state[t] \in OnProcessor, NEW p \in Priorities \ {IdlePriority},
         NEW x \in Priorities, x # p, x # pr[t]
  PROVE  BqReinsert(s.bq, t, p).bucket[x] = s.bq.bucket[x]
<1> DEFINE d == BqDelete(s.bq, t)
<1>1. Queued(s.bq, t) /\ Level(s.bq, t) = pr[t] /\ Good(s.bq)
  BY QueuedIs DEF Filed
<1>2. d.bucket[x] = s.bq.bucket[x]
  BY <1>1 DEF BqDelete, Good
<1>3. Good(d)
  BY <1>1, DeleteGood
<1>4. BqInsert(d, t, p).bucket[x] = d.bucket[x]
  BY <1>3 DEF BqInsert, Good
<1> QED BY <1>2, <1>4 DEF BqReinsert

(* A thread gets a new priority and goes to its bucket.                    *)
LEMMA Reprioritised ==
  ASSUME NEW s, NEW pr, Filed(s, pr), NEW t \in Threads \ {IdleThread},
         s.state[t] \in OnProcessor, NEW p \in Priorities \ {IdlePriority},
         NEW s2, s2 = [s EXCEPT !.bq = BqReinsert(@, t, p)], NEW pr2, pr2 = [pr EXCEPT ![t] = p]
  PROVE  Filed(s2, pr2) /\ s2.bq = BqReinsert(s.bq, t, p) /\ \A v \in Threads : s2.state[v] = s.state[v]
<1> DEFINE d == BqDelete(s.bq, t)
           s1 == [state |-> s.state, bq |-> BqReinsert(s.bq, t, p),
                  blocked |-> s.blocked, sleeping |-> s.sleeping]
           pr1 == [pr EXCEPT ![t] = p]
<1>1. [s EXCEPT !.bq = BqReinsert(@, t, p)] = s1
  BY DEF Filed
<1>0. Good(s.bq)
  BY DEF Filed
<1>2. /\ Good(d) /\ ~Queued(d, t)
      /\ \A x \in Priorities : \A m : Contains(d.bucket[x], m) <=> Contains(s.bq.bucket[x], m) /\ m # t
  BY <1>0, DeleteHolds
<1>3. /\ Good(s1.bq)
      /\ \A x \in Priorities : \A m :
           Contains(s1.bq.bucket[x], m) <=> Contains(d.bucket[x], m) \/ (x = p /\ m = t)
  BY <1>2, InsertHolds DEF BqReinsert
<1>4. \A u \in Threads : pr1[u] = IF u = t THEN p ELSE pr[u]
  BY DEF Filed
<1>5. pr1 \in [Threads -> Priorities]
  BY DEF Filed
<1>6. \A u \in Threads, x \in Priorities :
        Contains(s1.bq.bucket[x], u) <=> s1.state[u] \in OnProcessor /\ pr1[u] = x
  <2>1. \A u \in Threads, x \in Priorities :
          Contains(s.bq.bucket[x], u) <=> s.state[u] \in OnProcessor /\ pr[u] = x
    BY DEF Filed
  <2> HIDE DEF d, pr1
  <2> SUFFICES ASSUME NEW u \in Threads, NEW x \in Priorities
               PROVE  Contains(s1.bq.bucket[x], u) <=> s1.state[u] \in OnProcessor /\ pr1[u] = x
    OBVIOUS
  <2>2. /\ Contains(d.bucket[x], u) <=> Contains(s.bq.bucket[x], u) /\ u # t
        /\ Contains(s1.bq.bucket[x], u) <=> Contains(d.bucket[x], u) \/ (x = p /\ u = t)
    BY <1>2, <1>3
  <2> QED BY <1>4, <2>1, <2>2
<1>7. Filed(s1, pr1)
  BY <1>3, <1>5, <1>6 DEF Filed
<1> QED BY <1>1, <1>7

(* The scheduler rotates the highest bucket.                               *)
LEMMA RotatedFiled ==
  ASSUME NEW s, NEW pr, Filed(s, pr), NEW s2, s2 = [s EXCEPT !.bq = BqRotate(@)]
  PROVE  /\ Filed(s2, pr) /\ s2.bq = BqRotate(s.bq)
         /\ \A v \in Threads : s2.state[v] = s.state[v]
<1> DEFINE s1 == [state |-> s.state, bq |-> BqRotate(s.bq),
                  blocked |-> s.blocked, sleeping |-> s.sleeping]
<1>1. [s EXCEPT !.bq = BqRotate(@)] = s1
  BY DEF Filed
<1>2. /\ Good(s1.bq)
      /\ \A x \in Priorities : \A m :
           Contains(s1.bq.bucket[x], m) <=> Contains(s.bq.bucket[x], m)
  BY RotateHolds DEF Filed
<1>3. Filed(s1, pr)
  BY <1>2 DEF Filed
<1> QED BY <1>1, <1>3
=============================================================================
