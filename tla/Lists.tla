------------------------------- MODULE Lists --------------------------------
(***************************************************************************)
(* The pointers that hold the control blocks together, under any sequence  *)
(* of state and priority changes: the bucket queue of BucketQueue, and the *)
(* lists blocked_state, sleeping_state and defunct_state of                *)
(* pthipth_queue.c, which share the links next2 and prev2 of a TCB.        *)
(* Implements BucketSpec, and the operators of ThreadLists that Scheduler  *)
(* works with.  READY stands for READY and RUNNING: the change between     *)
(* them touches no list.                                                   *)
(***************************************************************************)
EXTENDS BucketQueue

ASSUME ThreadsAssumption == IsFiniteSet(Threads)

VARIABLES
  b,       \* the bucket queue, a structure of BucketQueue
  links,   \* [next2, prev2: per TCB; head, tail: per list]
  state    \* thread->state, "none" without TCB

vars == <<b, links, state>>

(* A list is named by the state of the threads on it.                      *)
Queues == {"BLOCKED", "SLEEPING", "DEFUNCT"}

-----------------------------------------------------------------------------
(* pthipth_queue.c on the structure l, list s and node n                   *)

QueueInit(l, s, n) ==
  [l EXCEPT !.next2[n] = NoNode, !.prev2[n] = NoNode, !.head[s] = n, !.tail[s] = n]

(* Mutant of QueueAdd: prev2 is not set.                                   *)
QueueAddNoPrev(l, s, n) ==
  IF l.head[s] = NoNode \/ l.tail[s] = NoNode THEN QueueInit(l, s, n)
  ELSE [l EXCEPT !.next2 = [@ EXCEPT ![n] = NoNode, ![l.tail[s]] = n], !.tail[s] = n]

QueueAdd(l, s, n) ==
  IF l.head[s] = NoNode \/ l.tail[s] = NoNode THEN QueueInit(l, s, n)
  ELSE [l EXCEPT !.next2 = [@ EXCEPT ![n] = NoNode, ![l.tail[s]] = n],
                 !.prev2[n] = l.tail[s], !.tail[s] = n]

(* The four cases of pthipth_queue_delete, before n's own links are reset. *)
QueueCut(l, s, n) ==
  LET after == l.next2[n]
      before == l.prev2[n]
  IN  CASE l.head[s] = n /\ l.tail[s] = n -> [l EXCEPT !.head[s] = NoNode, !.tail[s] = NoNode]
        [] l.head[s] = n /\ l.tail[s] # n -> [l EXCEPT !.head[s] = after, !.prev2[after] = NoNode]
        [] l.head[s] # n /\ l.tail[s] = n -> [l EXCEPT !.tail[s] = before, !.next2[before] = NoNode]
        [] OTHER ->
             [l EXCEPT !.next2 = [p \in Threads |-> IF p = before THEN after ELSE @[p]],
                       !.prev2 = [p \in Threads |-> IF p = after THEN before ELSE @[p]]]

(* Mutant of QueueDelete: the node keeps its links.                        *)
QueueDeleteKeepsLinks(l, s, n) == QueueCut(l, s, n)

QueueDelete(l, s, n) ==
  IF l.head[s] = NoNode \/ l.tail[s] = NoNode THEN l
  ELSE [QueueCut(l, s, n) EXCEPT !.next2[n] = NoNode, !.prev2[n] = NoNode]

(* The nodes of list s in the order in which sleeping, detach, condition   *)
(* and barrier walk it, cut off after as many as there are threads.        *)
Chain(s) ==
  LET first[k \in 0 .. Cardinality(Threads)] ==
        IF k = 0 THEN <<>>
        ELSE LET c == first[k - 1]
                 n == IF c = <<>> THEN links.head[s] ELSE links.next2[c[Len(c)]]
             IN  IF n = NoNode THEN c ELSE Append(c, n)
  IN  first[Cardinality(Threads)]

OnChain(s) == {Chain(s)[k] : k \in DOMAIN Chain(s)}

-----------------------------------------------------------------------------
Init ==
  /\ b = BqInsert([Zeroed EXCEPT !.prio[IdleThread] = IdlePriority], IdleThread)
  /\ links = [next2 |-> [n \in Threads |-> NoNode], prev2 |-> [n \in Threads |-> NoNode],
              head |-> [s \in Queues |-> NoNode], tail |-> [s \in Queues |-> NoNode]]
  /\ state = [n \in Threads |-> IF n = IdleThread THEN "READY" ELSE "none"]

SetPrio(r, n, p) == [r EXCEPT !.prio[n] = p]

(* pthipth_create; the TCB is zeroed.                                      *)
Create(n, p) ==
  /\ state[n] = "none"
  /\ state' = [state EXCEPT ![n] = "READY"]
  /\ b' = BqInsert(SetPrio(b, n, p), n)
  /\ UNCHANGED links

(* __pthipth_change_to_state: a thread waits or ends, or is woken.         *)
Stop(n, to) ==
  /\ state[n] = "READY"
  /\ state' = [state EXCEPT ![n] = to]
  /\ b' = BqDelete(b, n)
  /\ links' = IF to = "DEFUNCT" THEN links ELSE QueueAdd(links, to, n)

Wake(n) ==
  /\ state[n] \in {"BLOCKED", "SLEEPING"}
  /\ state' = [state EXCEPT ![n] = "READY"]
  /\ b' = BqInsert(b, n)
  /\ links' = QueueDelete(links, state[n], n)

(* pthipth_exit of a detached thread, and its end in                       *)
(* __pthipth_check_detach; other threads are freed by join or detach.      *)
ExitDetached(n) ==
  /\ state[n] = "READY"
  /\ state' = [state EXCEPT ![n] = "DEFUNCT"]
  /\ b' = BqDelete(b, n)
  /\ links' = QueueAdd(links, "DEFUNCT", n)

Free(n) ==
  /\ state[n] = "DEFUNCT"
  /\ state' = [state EXCEPT ![n] = "none"]
  /\ links' = IF n \in OnChain("DEFUNCT") THEN QueueDelete(links, "DEFUNCT", n) ELSE links
  /\ b' = [b EXCEPT !.prio[n] = 0, !.curp[n] = 0]

(* pthipth_set_prio and ageing; __pthipth_scheduler.                       *)
Reinsert(n, p) ==
  /\ state[n] = "READY"
  /\ b' = BqReinsert(SetPrio(b, n, p), n)
  /\ UNCHANGED <<links, state>>

Rotate == b' = BqRotate(b) /\ UNCHANGED <<links, state>>

Next ==
  \/ \E n \in Threads \ {IdleThread} :
       \/ \E p \in Priorities \ {IdlePriority} : Create(n, p) \/ Reinsert(n, p)
       \/ \E to \in Queues : Stop(n, to)
       \/ Wake(n) \/ ExitDetached(n) \/ Free(n)
  \/ Rotate

Spec == Init /\ [][Next]_vars

-----------------------------------------------------------------------------
Pointers == Threads \cup {NoNode}

TypeOK ==
  /\ b.next \in [Threads -> Pointers] /\ b.prev \in [Threads -> Pointers]
  /\ b.prio \in [Threads -> Priorities] /\ b.curp \in [Threads -> Priorities \cup {-1}]
  /\ b.table \in [Priorities -> Pointers] /\ b.tail \in [Priorities -> Pointers]
  /\ b.bitmap \subseteq Priorities /\ b.head \in Pointers
  /\ links.next2 \in [Threads -> Pointers] /\ links.prev2 \in [Threads -> Pointers]
  /\ links.head \in [Queues -> Pointers] /\ links.tail \in [Queues -> Pointers]
  /\ state \in [Threads -> Queues \cup {"none", "READY"}]

(* Each bucket is one ring: prev undoes next, the walk from the first node *)
(* meets every node of that priority and ends at tail, whose next is the   *)
(* first node again.  pthipth_bq_head is the first node of the highest     *)
(* bucket in the bitmap, and a thread is filed under the priority it has.  *)
(* (With the types of the variables.)                                      *)
RingsClosed ==
  /\ TypeOK
  /\ b.head = b.table[Ctz(b.bitmap)]
  /\ \A n \in Threads : state[n] = "READY" => b.curp[n] = b.prio[n]
  /\ \A n \in Threads : state[n] = "READY" => b.prev[b.next[n]] = n /\ b.next[b.prev[n]] = n
  /\ \A p \in Priorities :
       LET ring    == Ring(b, p)
           members == {n \in Threads : state[n] = "READY" /\ b.curp[n] = p}
       IN  /\ {ring[k] : k \in DOMAIN ring} = members
           /\ members = {} => b.table[p] = NoNode /\ b.tail[p] = NoNode
           /\ members # {} => /\ b.tail[p] = ring[Len(ring)]
                              /\ b.next[b.tail[p]] = b.table[p]

(* The three lists share one pair of links per TCB and nothing checks who  *)
(* is on which: each walk meets the threads of its state and no others,    *)
(* prev2 is its way back, tail its end, and a node that is on no list is   *)
(* linked to none.                                                         *)
ChainsClosed ==
  /\ \A s \in {"BLOCKED", "SLEEPING"} : OnChain(s) = {n \in Threads : state[n] = s}
  /\ \A n \in OnChain("DEFUNCT") : state[n] = "DEFUNCT"
  /\ \A s \in Queues :
       LET c == Chain(s) IN
       /\ c = <<>> <=> links.tail[s] = NoNode
       /\ c # <<>> => links.tail[s] = c[Len(c)] /\ links.next2[c[Len(c)]] = NoNode
       /\ \A k \in DOMAIN c : links.prev2[c[k]] = IF k = 1 THEN NoNode ELSE c[k - 1]
  /\ \A n \in Threads \ UNION {OnChain(s) : s \in Queues} :
       links.next2[n] = NoNode /\ links.prev2[n] = NoNode

BucketValue == [bucket |-> [p \in Priorities |-> Ring(b, p)], bits |-> b.bitmap]

BS == INSTANCE BucketSpec WITH q <- BucketValue

(* The pointers implement sequences and bits, call by call.                *)
ImplementsBuckets == BS!Spec

(* The bucket queue is never corrupted (BucketSpec), whatever the order of *)
(* state and priority changes.                                             *)
Sound == BS!TypeOK /\ BS!Sound

(* Only a call that takes the first of several threads out of its bucket   *)
(* hides threads from peek (BucketSpec).                                   *)
HiddenBehindFirstOnly == BS!HiddenBehindFirstOnly

TL == INSTANCE ThreadLists

Abs == [state |-> state, bq |-> BucketValue, blocked |-> Chain("BLOCKED"),
        sleeping |-> Chain("SLEEPING")]

(* A state change has the effect on buckets and lists that Scheduler works *)
(* with, and a detached thread goes to the end of defunct_state.           *)
ImplementsLists ==
  [][\A n \in Threads :
       /\ Wake(n) \/ ExitDetached(n) \/ (\E to \in Queues : Stop(n, to)) =>
            Abs' = TL!StateChange(Abs, n, state'[n], b.prio[n])
       /\ ExitDetached(n) => Chain("DEFUNCT")' = Append(Chain("DEFUNCT"), n)
       /\ Free(n) => /\ Abs' = TL!SetState(Abs, n, "none")
                     /\ Chain("DEFUNCT")' = TL!Without(Chain("DEFUNCT"), n)]_vars
=============================================================================
