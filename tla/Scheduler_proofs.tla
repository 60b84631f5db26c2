-------------------------- MODULE Scheduler_proofs --------------------------
(***************************************************************************)
(* Whatever calls the threads make, in whatever order: every thread is on  *)
(* the list of its state and on no other, only cur_pthipth is RUNNING, a   *)
(* join and its target agree, and nothing points to a freed TCB.  For any  *)
(* number of threads and priorities, any program and any ageing.           *)
(***************************************************************************)
EXTENDS AgeHistory, ThreadLists_proofs

(* Only the idle thread has its priority.                                  *)
PrioOK ==
  \A t \in Threads \ {IdleThread} : prio[t] # IdlePriority /\ old[t] # IdlePriority

(* defunct_state has finished threads that were detached before.           *)
DefunctOK ==
  /\ Once(defunct)
  /\ \A t \in Threads : Contains(defunct, t) => state[t] = "DEFUNCT" /\ detached[t]

(* A thread that does not exist yet has no history.                        *)
FreshOK ==
  \A t \in Threads : state[t] = "none" =>
    joiner[t] = NoThread /\ ~detached[t] /\ prio[t] = InitPriority(t)

(* A bucket in which the ageing loop finds a node to age.                  *)
Ageable(l) ==
  Aging(l) # {} /\ InitPriority(Head(sch.bq.bucket[l])) \notin {MainPriority, IdlePriority}

(* What the loops of the dispatcher have before them.                      *)
LoopOK ==
  /\ phase \in {"run", "aging", "spin"} => todo = <<>>
  /\ phase = "sleepers" =>
       \A t \in Threads : Contains(todo, t) => state[t] \in {"SLEEPING", "READY"}
  /\ phase = "reap" => Once(todo) /\ \A t \in Threads : Contains(todo, t) => Contains(defunct, t)
  /\ phase = "aging" => level = IdlePriority + 1 \/ Ageable(level)

(* A thread that exists and has not called exit.                           *)
Live(u) == state[u] \notin {"none", "freed", "DEFUNCT"}

(* A live thread with a joiner will wake it: the joiner is in its join,    *)
(* blocked unless a barrier has woken it.                                  *)
JoinerWaits ==
  \A u \in Threads : Live(u) /\ joiner[u] # NoThread =>
    /\ state[joiner[u]] \in {"BLOCKED", "READY", "RUNNING"}
    /\ at[joiner[u]] = "reaping" /\ target[joiner[u]] = u

(* A thread in join or detach has its target to itself: it waits for its   *)
(* exit, or will free it and nobody else can.                              *)
Claimed(t) ==
  LET u == target[t] IN
  /\ u \in Threads
  /\ state[t] \in {"BLOCKED", "READY", "RUNNING"}
  /\ Live(u) => joiner[u] = t
  /\ ~Live(u) =>
       /\ state[u] = "DEFUNCT" /\ state[t] # "BLOCKED" /\ ~Contains(defunct, u)
       /\ joiner[u] = t \/ (joiner[u] = NoThread /\ cur = t /\ phase = "run")

JoinOK ==
  /\ JoinerWaits
  /\ \A u \in Threads : detached[u] => joiner[u] = NoThread
  /\ \A t \in Threads : at[t] = "reaping" => Claimed(t)

(* A thread is gone from the kernel after its exit, and its TCB is freed   *)
(* after that.                                                             *)
FreedOK ==
  \A u \in Threads :
    /\ exited[u] => state[u] \in {"DEFUNCT", "freed"}
    /\ state[u] = "freed" => exited[u] /\ cur # u

IInv ==
  /\ TypeOK /\ Filed(sch, prio)
  /\ PrioOK /\ DefunctOK /\ OneRunning /\ FreshOK /\ LoopOK /\ JoinOK /\ FreedOK

(* No thread leaves its join before its target has finished.  The calls of *)
(* this module keep this, but the barriers of Sync do not.                 *)
Prompt ==
  \A t \in Threads : at[t] = "reaping" /\ state[t] # "BLOCKED" => state[target[t]] = "DEFUNCT"

(* A thread that is blocked elsewhere than in a join stays so, and none is *)
(* added.                                                                  *)
Undisturbed ==
  \A v \in Threads :
    \/ at[v] # "reaping" /\ state[v] = "BLOCKED"
    \/ at'[v] # "reaping" /\ sch'.state[v] = "BLOCKED"
    => at'[v] = at[v] /\ sch'.state[v] = state[v]

(* The life of a thread: it is created READY, by a call that goes on; the  *)
(* scheduler alone makes it RUNNING and READY again; it leaves the         *)
(* processor by a call of its own; the end of its target wakes it from a   *)
(* join and the dispatcher from its sleep; and it is freed when it is gone.*)
LifeCycle ==
  \A v \in Threads :
    \/ sch'.state[v] = state[v]
    \/ /\ state[v] = "none" /\ sch'.state[v] = "READY"
       /\ phase = "run" /\ phase' = "run" /\ at[cur] = "user"
    \/ /\ state[v] \in OnProcessor /\ sch'.state[v] \in OnProcessor
       /\ phase = "reap" /\ phase' = "run"
    \/ /\ state[v] = "RUNNING" /\ sch'.state[v] \in {"BLOCKED", "SLEEPING", "DEFUNCT"}
       /\ v = cur /\ phase = "run" /\ phase' = "sleepers"
    \/ /\ state[v] = "BLOCKED" /\ at[v] = "reaping" /\ sch'.state[v] = "READY"
       /\ phase = "run" /\ phase' = "sleepers"
    \/ state[v] = "SLEEPING" /\ sch'.state[v] = "READY" /\ phase = "sleepers"
    \/ state[v] = "DEFUNCT" /\ sch'.state[v] = "freed" /\ exited[v]

(* What every step of this module does.                                    *)
Preserved == IInv' /\ (Prompt => Prompt') /\ Undisturbed /\ LifeCycle

-----------------------------------------------------------------------------
USE DEF state, HasTCB, Live, ageVars, joinVars, loopVars

(* HIGHEST_PRIORITY .. MAIN_PRIORITY are priorities, below the idle one's. *)
LEMMA PriorityRange ==
  /\ \A p \in Highest .. MainPriority : p \in Priorities \ {IdlePriority}
  /\ \A t \in Threads : InitPriority(t) \in Priorities
  /\ \A t \in Threads \ {IdleThread} : InitPriority(t) # IdlePriority
  /\ InitPriority(IdleThread) = IdlePriority
<1>1. /\ Highest \in Nat /\ Lowest \in Nat /\ MainPriority \in Nat /\ IdlePriority \in Nat
      /\ 0 < Highest /\ Highest <= Lowest /\ Lowest < MainPriority /\ MainPriority < IdlePriority
      /\ \A t \in Threads : TaskPriority[t] \in Int
  BY PriorityAssumption, BucketAssumption
<1>2. ASSUME NEW p \in Highest .. MainPriority PROVE p \in Priorities \ {IdlePriority}
  BY <1>1 DEF Priorities
<1>3. ASSUME NEW t \in Threads \ {IdleThread} PROVE InitPriority(t) \in Highest .. MainPriority
  BY <1>1 DEF InitPriority
<1>4. InitPriority(IdleThread) = IdlePriority /\ IdlePriority \in Priorities
  BY <1>1, ThreadAssumption DEF InitPriority, Priorities
<1> QED BY <1>2, <1>3, <1>4

(* The queue and the lists have their types.                               *)
LEMMA FiledTypes ==
  ASSUME NEW s, NEW pr, Filed(s, pr)
  PROVE  /\ s.bq.bucket \in [Priorities -> Seq(Threads)] /\ s.bq.bits \in SUBSET Priorities
         /\ s.blocked \in Seq(Threads) /\ s.sleeping \in Seq(Threads)
BY DEF Filed, Good

(* A call is made by the running thread, and by idle only to yield.        *)
LEMMA Caller ==
  ASSUME IInv, NEW t \in Threads, InUser(t)
  PROVE  t = cur /\ phase = "run" /\ at[t] = "user" /\ state[t] = "RUNNING" /\ todo = <<>>
BY DEF IInv, InUser, OneRunning, LoopOK

(* Only yield is called by the idle thread (pthipth_idle).                 *)
LEMMA NotIdle ==
  ASSUME NEW t, NEW c, Calls(t, c), c.op # "yield"
  PROVE  t # IdleThread
BY IdleAssumption DEF Calls

(* A call is made in user code and costs one of the budget.                *)
LEMMA Spent ==
  ASSUME IInv, NEW t \in Threads, NEW c, Calls(t, c)
  PROVE  InUser(t) /\ left' \in [Threads -> Nat]
<1>1. left \in [Threads -> Nat] /\ left[t] > 0 /\ left' = [left EXCEPT ![t] = left[t] - 1]
  BY DEF IInv, TypeOK, Calls
<1>2. left[t] \in Nat
  BY <1>1
<1>3. left[t] - 1 \in Nat
  BY <1>1, <1>2
<1> QED BY <1>1, <1>3 DEF Calls

(* The running thread leaves the processor.                                *)
LEMMA LeavesProcessor ==
  ASSUME IInv, NEW t \in Threads \ {IdleThread}, state[t] = "RUNNING",
         NEW to \in {"BLOCKED", "SLEEPING", "DEFUNCT"}, NEW s2, s2 = StateChange(sch, t, to, prio[t])
  PROVE  /\ Filed(s2, prio) /\ s2.state \in [Threads -> States]
         /\ \A v \in Threads : s2.state[v] = IF v = t THEN to ELSE state[v]
         /\ to = "SLEEPING" => s2.sleeping = Append(sch.sleeping, t)
<1>1. Filed(sch, prio)
  BY DEF IInv
<1>2. /\ Filed(s2, prio)
      /\ \A v \in Threads : s2.state[v] = IF v = t THEN to ELSE sch.state[v]
  BY <1>1, Stopped
<1>3. to = "SLEEPING" => s2.sleeping = Append(sch.sleeping, t)
  BY <1>1, Stopped
<1>4. s2.state = [v \in Threads |-> s2.state[v]]
  BY <1>2 DEF Filed
<1>5. sch.state \in [Threads -> States] /\ to \in States
  BY DEF IInv, TypeOK, States
<1>6. s2.state \in [Threads -> States]
  BY <1>2, <1>4, <1>5
<1> QED BY <1>2, <1>3, <1>6

(* The pairs of join stand when nobody joins or ends; who is woken from a  *)
(* join keeps its claim.                                                   *)
LEMMA JoinKept ==
  ASSUME JoinOK, UNCHANGED <<joiner, target, detached>>,
         \A v \in Threads : at'[v] = "reaping" <=> at[v] = "reaping",
         \A v \in Threads : /\ sch'.state[v] = "DEFUNCT" <=> state[v] = "DEFUNCT"
                            /\ sch'.state[v] \in {"none", "freed"} => state[v] \in {"none", "freed"}
                            /\ state[v] \in {"none", "freed"} /\ joiner[v] # NoThread =>
                                 sch'.state[v] \in {"none", "freed"},
         \A v \in Threads : at[v] = "reaping" =>
           /\ state[v] \in OnProcessor => sch'.state[v] \in OnProcessor
           /\ state[v] = "BLOCKED" => sch'.state[v] = "BLOCKED" \/ sch'.state[v] \in OnProcessor,
         \A v \in Threads : Contains(defunct', v) => Contains(defunct, v),
         phase = "run" /\ at[cur] = "reaping" => phase' = "run" /\ cur' = cur,
         cur \in Threads, joiner \in [Threads -> Maybe(Threads)]
  PROVE  JoinOK'
<1>1. JoinerWaits'
  <2> SUFFICES ASSUME NEW v \in Threads, sch'.state[v] \notin {"none", "freed", "DEFUNCT"},
                      joiner[v] # NoThread
               PROVE  /\ sch'.state[joiner[v]] \in {"BLOCKED", "READY", "RUNNING"}
                      /\ at'[joiner[v]] = "reaping" /\ target[joiner[v]] = v
    BY DEF JoinerWaits
  <2>1. state[v] \notin {"none", "freed", "DEFUNCT"}
    OBVIOUS
  <2>2. /\ state[joiner[v]] \in {"BLOCKED", "READY", "RUNNING"}
        /\ at[joiner[v]] = "reaping" /\ target[joiner[v]] = v
    BY <2>1 DEF JoinOK, JoinerWaits
  <2>3. joiner[v] \in Threads
    BY DEF Maybe
  <2> QED BY <2>2, <2>3 DEF OnProcessor
<1>2. ASSUME NEW v \in Threads, at'[v] = "reaping" PROVE Claimed(v)'
  <2> DEFINE u == target[v]
  <2>1. Claimed(v) /\ at[v] = "reaping" /\ u \in Threads
    BY <1>2 DEF JoinOK, Claimed
  <2>2. sch'.state[v] \in {"BLOCKED", "READY", "RUNNING"}
        /\ (state[v] # "BLOCKED" => sch'.state[v] # "BLOCKED")
    BY <2>1 DEF Claimed, OnProcessor
  <2>3. Live(u)' <=> Live(u)
    BY <2>1 DEF Claimed
  <2> QED BY <2>1, <2>2, <2>3 DEF Claimed
<1> QED BY <1>1, <1>2 DEF JoinOK

(* Nor does a thread leave its join early when nobody is woken from one    *)
(* and the dead stay dead.                                                 *)
LEMMA PromptKept ==
  ASSUME IInv, IInv', Prompt, UNCHANGED target,
         \A v \in Threads : at'[v] = "reaping" => at[v] = "reaping",
         \A v \in Threads : /\ at[v] = "reaping" /\ state[v] = "BLOCKED" => sch'.state[v] = "BLOCKED"
                            /\ state[v] = "DEFUNCT" => sch'.state[v] \in {"DEFUNCT", "freed"}
  PROVE  Prompt'
<1> SUFFICES ASSUME NEW t \in Threads, at'[t] = "reaping", sch'.state[t] # "BLOCKED"
             PROVE  sch'.state[target[t]] = "DEFUNCT"
  BY DEF Prompt
<1>1. target[t] \in Threads /\ state[target[t]] = "DEFUNCT"
  BY DEF Prompt, IInv, JoinOK, Claimed
<1>2. ~Live(target[t])' => sch'.state[target[t]] = "DEFUNCT"
  BY DEF IInv, JoinOK, Claimed
<1> QED BY <1>1, <1>2

-----------------------------------------------------------------------------
(* pthipth_init: main is RUNNING, the idle thread READY, both in their     *)
(* buckets, all lists empty.                                               *)
LEMMA InitInv == Init => IInv /\ Prompt
<1> SUFFICES ASSUME Init PROVE IInv /\ Prompt
  OBVIOUS
<1>1. /\ IdlePriority \in Priorities /\ MainPriority \in Priorities \ {IdlePriority}
      /\ IdleThread \in Threads /\ Main \in Threads /\ Main # IdleThread
  BY PriorityAssumption, BucketAssumption, ThreadAssumption DEF Priorities
<1> DEFINE r == BqInsert(EmptyBuckets(Priorities), IdleThread, IdlePriority)
<1>2. prio \in [Threads -> Priorities] /\ prio = [t \in Threads |-> InitPriority(t)]
  BY PriorityRange DEF Init
<1>3. Filed(sch, prio)
  <2>1. sch.bq.bucket = [p \in Priorities |-> IF p = IdlePriority THEN <<IdleThread>>
                                              ELSE IF p = MainPriority THEN <<Main>> ELSE <<>>]
    BY <1>1 DEF Init, BqInsert, EmptyBuckets
  <2>2. sch.bq.bits = {MainPriority, IdlePriority}
    BY <1>1 DEF Init, BqInsert, EmptyBuckets
  <2>3. sch.bq = [bucket |-> sch.bq.bucket, bits |-> sch.bq.bits]
    BY DEF Init, BqInsert
  <2>4. Good(sch.bq)
    <3>1. sch.bq.bucket \in [Priorities -> Seq(Threads)]
      BY <1>1, <2>1
    <3>2. NoDuplicates(sch.bq)
      BY <1>1, <2>1 DEF NoDuplicates
    <3>3. BitsSound(sch.bq)
      BY <1>1, <2>1, <2>2 DEF BitsSound
    <3> QED BY <1>1, <2>1, <2>2, <2>3, <3>1, <3>2, <3>3 DEF Good
  <2>5. ASSUME NEW t \in Threads, NEW p \in Priorities
        PROVE  Contains(sch.bq.bucket[p], t) <=> sch.state[t] \in OnProcessor /\ prio[t] = p
    <3>1. Contains(sch.bq.bucket[p], t) <=> \/ p = IdlePriority /\ t = IdleThread
                                            \/ p = MainPriority /\ t = Main
      BY <1>1, <2>1 DEF Contains
    <3>2. sch.state[t] \in OnProcessor <=> t \in {Main, IdleThread}
      BY DEF Init, OnProcessor
    <3>3. prio[Main] = MainPriority /\ prio[IdleThread] = IdlePriority
      BY <1>1, <1>2 DEF InitPriority
    <3> QED BY <1>1, <3>1, <3>2, <3>3
  <2>6. \A t : ~Contains(<<>>, t)
    BY DEF Contains
  <2> QED BY <1>2, <2>4, <2>5, <2>6 DEF Init, Filed, Once
<1>4. TypeOK
  <2>1. sch.state \in [Threads -> States]
    BY DEF Init, States
  <2>2. /\ last \in [Threads -> Nat] /\ wake \in [Threads -> Nat] /\ now \in Nat
        /\ left \in [Threads -> Nat] /\ level \in 0 .. IdlePriority + 1
    BY ProgramAssumption, BucketAssumption DEF Init
  <2> QED BY <1>1, <1>2, <1>3, <2>1, <2>2, FiledTypes DEF Init, TypeOK, Maybe
<1>5. PrioOK /\ FreshOK
  BY <1>2, PriorityRange DEF Init, PrioOK, FreshOK
<1>6. DefunctOK /\ LoopOK
  BY DEF Init, DefunctOK, LoopOK, Contains, Once
<1>7. OneRunning /\ JoinOK /\ FreedOK /\ Prompt
  BY <1>1 DEF Init, OneRunning, JoinOK, JoinerWaits, FreedOK, Prompt
<1> QED BY <1>3, <1>4, <1>5, <1>6, <1>7 DEF IInv

-----------------------------------------------------------------------------
(* Calls of the running thread.                                            *)

(* A created thread is READY in the bucket of its bounded priority, and has*)
(* neither joiner nor target.                                              *)
LEMMA CreateInv ==
  ASSUME IInv, NEW t \in Threads, NEW u \in Threads, Create(t, u)
  PROVE  Preserved
<1>1. InUser(t) /\ state[u] = "none"
  BY DEF Create, Calls
<1>2. t = cur /\ phase = "run" /\ state[t] = "RUNNING" /\ todo = <<>>
  BY <1>1, Caller
<1>3. u # IdleThread /\ prio[u] = InitPriority(u) /\ prio[u] # IdlePriority
  BY <1>1, IdleIs, PriorityRange DEF IInv, FreshOK, OnProcessor
<1>4. sch' = [state |-> [sch.state EXCEPT ![u] = "READY"], bq |-> BqInsert(sch.bq, u, prio[u]),
              blocked |-> sch.blocked, sleeping |-> sch.sleeping]
  <2>1. sch = [state |-> sch.state, bq |-> sch.bq, blocked |-> sch.blocked,
               sleeping |-> sch.sleeping]
    BY DEF IInv, Filed
  <2>2. sch' = [sch EXCEPT !.state = [sch.state EXCEPT ![u] = "READY"],
                           !.bq = BqInsert(sch.bq, u, prio[u])]
    BY <1>3 DEF Create
  <2> QED BY <2>1, <2>2
<1>5. Filed(sch', prio)
  BY <1>1, <1>3, <1>4, MadeReady DEF IInv, OnProcessor
<1>6. sch.state \in [Threads -> States]
  BY DEF IInv, TypeOK
<1>7. \A v \in Threads : sch'.state[v] = IF v = u THEN "READY" ELSE sch.state[v]
  BY <1>4, <1>6
<1>8. TypeOK'
  <2>1. sch'.state \in [Threads -> States]
    BY <1>4, <1>6 DEF States
  <2>2. left' \in [Threads -> Nat]
    BY Spent DEF Create
  <2>3. last' \in [Threads -> Nat]
    BY DEF Create, IInv, TypeOK
  <2> QED BY <1>5, <2>1, <2>2, <2>3, FiledTypes DEF Create, IInv, TypeOK
<1>9. PrioOK' /\ DefunctOK' /\ OneRunning' /\ FreshOK' /\ LoopOK' /\ FreedOK'
  BY <1>1, <1>2, <1>7
  DEF Create, IInv, PrioOK, DefunctOK, OneRunning, FreshOK, LoopOK, FreedOK, InitPriority
<1>10. JoinOK'
  BY <1>1, <1>2, <1>7 DEF Create, IInv, FreshOK, JoinOK, JoinerWaits, Claimed
<1>11. IInv'
  BY <1>5, <1>8, <1>9, <1>10 DEF Create, IInv
<1>12. Undisturbed
  BY <1>1, <1>7 DEF Create, Undisturbed
<1>13. LifeCycle
  BY <1>1, <1>2, <1>7 DEF Create, InUser, LifeCycle
<1> QED BY <1>1, <1>7, <1>11, <1>12, <1>13, PromptKept DEF Create, Preserved

(* A yield starts the dispatcher and changes no list.                      *)
LEMMA YieldInv ==
  ASSUME IInv, NEW t \in Threads, Yield(t)
  PROVE  Preserved
<1>1. /\ InUser(t) /\ left' \in [Threads -> Nat]
      /\ phase' = "sleepers" /\ todo' = sch.sleeping
  <2>1. CASE Calls(t, [op |-> "yield"])
    BY <2>1, Spent DEF Yield, Dispatch
  <2>2. CASE InUser(t) /\ UNCHANGED left
    BY <2>2 DEF Yield, Dispatch, IInv, TypeOK
  <2> QED BY <2>1, <2>2 DEF Yield
<1>2. t = cur /\ phase = "run"
  BY <1>1, Caller
<1>3. TypeOK'
  BY <1>1 DEF Yield, IInv, TypeOK
<1>4. PrioOK' /\ DefunctOK' /\ OneRunning' /\ FreshOK' /\ FreedOK'
  BY <1>1 DEF Yield, IInv, PrioOK, DefunctOK, OneRunning, FreshOK, FreedOK, InitPriority
<1>5. LoopOK'
  BY <1>1 DEF Yield, IInv, LoopOK, Filed
<1>6. JoinOK'
  BY <1>1, <1>2 DEF Yield, InUser, IInv, JoinOK, JoinerWaits, Claimed
<1>7. Filed(sch', prio')
  BY DEF Yield, IInv
<1>8. IInv'
  BY <1>3, <1>4, <1>5, <1>6, <1>7 DEF IInv
<1> QED BY <1>8, PromptKept DEF Yield, Preserved, Undisturbed, LifeCycle

(* The join of a finished thread claims it: nobody else can free it,       *)
(* because the caller keeps the processor until it has.                    *)
LEMMA JoinDefunctInv ==
  ASSUME IInv, NEW t \in Threads, NEW u \in Threads, JoinDefunct(t, u)
  PROVE  Preserved
<1>1. /\ InUser(t) /\ left' \in [Threads -> Nat]
      /\ state[u] = "DEFUNCT" /\ joiner[u] = NoThread /\ ~detached[u]
  BY Spent DEF JoinDefunct, Joinable
<1>2. t = cur /\ phase = "run" /\ state[t] = "RUNNING" /\ at[t] = "user"
  BY <1>1, Caller
<1>3. TypeOK' /\ Filed(sch', prio')
  <2>1. Filed(sch', prio')
    BY DEF JoinDefunct, IInv
  <2>2. at' \in [Threads -> {"user", "reaping", "locking"}] /\ target' \in [Threads -> Maybe(Threads)]
    BY DEF JoinDefunct, IInv, TypeOK, Maybe
  <2> QED BY <1>1, <2>1, <2>2 DEF JoinDefunct, IInv, TypeOK
<1>4. PrioOK' /\ DefunctOK' /\ OneRunning' /\ FreshOK' /\ LoopOK' /\ FreedOK'
  BY <1>2 DEF JoinDefunct, IInv, PrioOK, DefunctOK, OneRunning, FreshOK, LoopOK, FreedOK,
              InitPriority
<1>5. JoinOK'
  <2>1. /\ \A v \in Threads : at'[v] = IF v = t THEN "reaping" ELSE at[v]
        /\ \A v \in Threads : target'[v] = IF v = t THEN u ELSE target[v]
    BY DEF JoinDefunct, IInv, TypeOK
  <2>2. ~Contains(defunct, u)
    BY <1>1 DEF IInv, DefunctOK
  <2> QED BY <1>1, <1>2, <2>1, <2>2 DEF JoinDefunct, IInv, JoinOK, JoinerWaits, Claimed
<1>6. IInv'
  BY <1>3, <1>4, <1>5 DEF IInv
<1>7. ASSUME Prompt PROVE Prompt'
  <2>1. /\ \A v \in Threads : v # t => at'[v] = at[v] /\ target'[v] = target[v]
        /\ target'[t] = u /\ sch' = sch
    BY DEF JoinDefunct, IInv, TypeOK
  <2> QED BY <1>1, <1>7, <2>1 DEF Prompt
<1>8. Undisturbed
  BY <1>2 DEF JoinDefunct, IInv, TypeOK, Undisturbed
<1>9. LifeCycle
  BY DEF JoinDefunct, LifeCycle
<1> QED BY <1>6, <1>7, <1>8, <1>9 DEF Preserved

(* The join of a live thread blocks the caller, and the target names it.   *)
LEMMA JoinWaitInv ==
  ASSUME IInv, NEW t \in Threads, NEW u \in Threads, JoinWait(t, u)
  PROVE  Preserved
<1>1. /\ InUser(t) /\ left' \in [Threads -> Nat] /\ u # t
      /\ HasTCB(u) /\ state[u] # "DEFUNCT" /\ joiner[u] = NoThread /\ ~detached[u]
  BY Spent DEF JoinWait, Joinable
<1>2. t = cur /\ phase = "run" /\ state[t] = "RUNNING" /\ at[t] = "user"
  BY <1>1, Caller
<1>3. t # IdleThread
  BY NotIdle DEF JoinWait
<1>4. /\ Filed(sch', prio) /\ sch'.state \in [Threads -> States]
      /\ \A v \in Threads : sch'.state[v] = IF v = t THEN "BLOCKED" ELSE sch.state[v]
  <2>1. sch' = StateChange(sch, t, "BLOCKED", prio[t]) /\ t \in Threads \ {IdleThread}
    BY <1>3 DEF JoinWait, ChangeState
  <2> QED BY <1>2, <2>1, LeavesProcessor
<1>6. \A v \in Threads : sch'.state[v] = IF v = t THEN "BLOCKED" ELSE sch.state[v]
  BY <1>4
<1>7. TypeOK'
  <2>2. phase' = "sleepers" /\ todo' \in Seq(Threads)
    BY DEF JoinWait, Dispatch, IInv, TypeOK
  <2> QED BY <1>1, <1>4, <2>2, FiledTypes DEF JoinWait, IInv, TypeOK, Maybe
<1>8. PrioOK' /\ DefunctOK' /\ OneRunning' /\ FreedOK'
  BY <1>1, <1>2, <1>6
  DEF JoinWait, Dispatch, IInv, PrioOK, DefunctOK, OneRunning, FreedOK
<1>9. FreshOK'
  BY <1>1, <1>2, <1>6 DEF JoinWait, IInv, TypeOK, FreshOK, InitPriority
<1>10. LoopOK'
  BY <1>2, <1>6 DEF JoinWait, Dispatch, IInv, LoopOK, Filed
<1>11. JoinOK'
  <2>1. /\ \A v \in Threads : at'[v] = IF v = t THEN "reaping" ELSE at[v]
        /\ \A v \in Threads : target'[v] = IF v = t THEN u ELSE target[v]
        /\ \A v \in Threads : joiner'[v] = IF v = u THEN t ELSE joiner[v]
    BY DEF JoinWait, IInv, TypeOK
  <2>2. \A v \in Threads : detached'[v] => joiner'[v] = NoThread
    BY <1>1, <2>1 DEF JoinWait, IInv, JoinOK
  <2>5. JoinerWaits'
    <3> SUFFICES ASSUME NEW v \in Threads, sch'.state[v] \notin {"none", "freed", "DEFUNCT"},
                        joiner'[v] # NoThread
                 PROVE  /\ sch'.state[joiner'[v]] \in {"BLOCKED", "READY", "RUNNING"}
                        /\ at'[joiner'[v]] = "reaping" /\ target'[joiner'[v]] = v
      BY DEF JoinerWaits
    <3>1. CASE v = u
      BY <1>6, <2>1, <3>1
    <3>2. CASE v # u
      <4> DEFINE j == joiner[v]
      <4>1. joiner'[v] = j /\ j \in Threads
        BY <2>1, <3>2 DEF IInv, TypeOK, Maybe
      <4>2. /\ sch.state[j] \in {"BLOCKED", "READY", "RUNNING"}
            /\ at[j] = "reaping" /\ target[j] = v
        BY <1>2, <1>6, <4>1 DEF IInv, JoinOK, JoinerWaits
      <4> HIDE DEF j
      <4> QED BY <1>2, <1>6, <2>1, <4>1, <4>2
    <3> QED BY <3>1, <3>2
  <2>4. ASSUME NEW v \in Threads, at'[v] = "reaping" PROVE Claimed(v)'
    <3>1. CASE v = t
      BY <1>1, <1>2, <1>6, <2>1, <3>1 DEF Claimed, JoinWait
    <3>2. CASE v # t
      <4>1. Claimed(v)
        BY <2>1, <2>4, <3>2 DEF IInv, JoinOK
      <4>2. target[v] # u /\ target'[v] = target[v]
        BY <1>1, <1>2, <2>1, <3>2, <4>1, ThreadAssumption DEF Claimed
      <4> DEFINE w == target[v]
      <4>3. w \in Threads /\ joiner'[w] = joiner[w] /\ sch'.state[v] = sch.state[v] /\ target'[v] = w
        BY <1>6, <2>1, <3>2, <4>1, <4>2 DEF Claimed
      <4>4. (sch'.state[w] = "DEFUNCT" <=> sch.state[w] = "DEFUNCT") /\ (sch'.state[w] \in {"none", "freed", "DEFUNCT"} <=> ~Live(w))
        BY <1>2, <1>6, <4>3
      <4> HIDE DEF w
      <4>5. UNCHANGED defunct /\ w = target[v]
        BY DEF JoinWait, w
      <4>6. Live(w) => joiner[w] = v
        BY <4>1, <4>5 DEF Claimed
      <4>7. ~Live(w) => /\ sch.state[w] = "DEFUNCT" /\ sch.state[v] # "BLOCKED"
                        /\ ~Contains(defunct, w) /\ joiner[w] = v
        BY <1>2, <3>2, <4>1, <4>5 DEF Claimed
      <4>8. sch.state[v] \in {"BLOCKED", "READY", "RUNNING"}
        BY <4>1 DEF Claimed
      <4>9. /\ sch'.state[w] \notin {"none", "freed", "DEFUNCT"} => joiner'[w] = v
            /\ sch'.state[w] \in {"none", "freed", "DEFUNCT"} =>
                 /\ sch'.state[w] = "DEFUNCT" /\ sch'.state[v] # "BLOCKED"
                 /\ ~Contains(defunct', w) /\ joiner'[w] = v
            /\ target'[v] = w /\ w \in Threads /\ sch'.state[v] \in {"BLOCKED", "READY", "RUNNING"}
        BY <4>3, <4>4, <4>5, <4>6, <4>7, <4>8
      <4> QED BY <4>9 DEF Claimed
    <3> QED BY <3>1, <3>2
  <2> QED BY <2>2, <2>4, <2>5 DEF JoinOK
<1>12. IInv'
  BY <1>4, <1>7, <1>8, <1>9, <1>10, <1>11 DEF JoinWait, IInv
<1>13. ASSUME Prompt PROVE Prompt'
  <2> SUFFICES ASSUME NEW v \in Threads, at'[v] = "reaping", sch'.state[v] # "BLOCKED"
               PROVE  sch'.state[target'[v]] = "DEFUNCT"
    BY DEF Prompt
  <2>1. v # t /\ at[v] = "reaping" /\ target'[v] = target[v]
    BY <1>6 DEF JoinWait, IInv, TypeOK
  <2>2. state[target[v]] = "DEFUNCT" /\ target[v] \in Threads
    BY <1>6, <1>13, <2>1 DEF Prompt, IInv, JoinOK, Claimed
  <2> QED BY <1>2, <1>6, <2>1, <2>2
<1>14. Undisturbed
  BY <1>2, <1>6 DEF JoinWait, IInv, TypeOK, Undisturbed
<1>15. LifeCycle
  BY <1>2, <1>6 DEF JoinWait, Dispatch, LifeCycle
<1> QED BY <1>12, <1>13, <1>14, <1>15 DEF Preserved

(* A detached thread has no joiner, and a finished one is claimed by the   *)
(* caller.                                                                 *)
LEMMA DetachInv ==
  ASSUME IInv, NEW t \in Threads, NEW u \in Threads, Detach(t, u)
  PROVE  Preserved
<1>1. /\ InUser(t) /\ left' \in [Threads -> Nat]
      /\ HasTCB(u) /\ ~detached[u] /\ joiner[u] = NoThread
  BY Spent DEF Detach
<1>2. t = cur /\ phase = "run" /\ state[t] = "RUNNING" /\ at[t] = "user"
  BY <1>1, Caller
<1>3. TypeOK' /\ Filed(sch', prio')
  <2>1. Filed(sch', prio')
    BY DEF Detach, IInv
  <2>2. /\ at' \in [Threads -> {"user", "reaping", "locking"}]
        /\ target' \in [Threads -> Maybe(Threads)] /\ detached' \in [Threads -> BOOLEAN]
    BY DEF Detach, IInv, TypeOK, Maybe
  <2> QED BY <1>1, <2>1, <2>2 DEF Detach, IInv, TypeOK
<1>4. \A v \in Threads : detached'[v] = IF v = u THEN TRUE ELSE detached[v]
  BY DEF Detach, IInv, TypeOK
<1>5. PrioOK' /\ DefunctOK' /\ OneRunning' /\ FreshOK' /\ LoopOK' /\ FreedOK'
  BY <1>1, <1>2, <1>4
  DEF Detach, IInv, PrioOK, DefunctOK, OneRunning, FreshOK, LoopOK, FreedOK, InitPriority
<1>6. JoinerWaits' /\ \A v \in Threads : detached'[v] => joiner'[v] = NoThread
  <2>1. \A v \in Threads : at[v] = "reaping" => at'[v] = at[v] /\ target'[v] = target[v]
    BY <1>2 DEF Detach, IInv, TypeOK
  <2>2. JoinerWaits'
    <3> SUFFICES ASSUME NEW v \in Threads, HasTCB(v), state[v] # "DEFUNCT", joiner[v] # NoThread
                 PROVE  /\ state[joiner[v]] \in {"BLOCKED", "READY", "RUNNING"}
                        /\ at'[joiner[v]] = "reaping" /\ target'[joiner[v]] = v
      BY DEF Detach, JoinerWaits
    <3>1. /\ joiner[v] \in Threads /\ state[joiner[v]] \in {"BLOCKED", "READY", "RUNNING"}
          /\ at[joiner[v]] = "reaping" /\ target[joiner[v]] = v
      BY SMTT(20) DEF IInv, TypeOK, Maybe, JoinOK, JoinerWaits
    <3> QED BY <2>1, <3>1
  <2> QED BY <1>1, <1>4, <2>2 DEF Detach, IInv, JoinOK
<1>8. ASSUME NEW v \in Threads, at'[v] = "reaping" PROVE Claimed(v)'
  <2>1. CASE v = t
    <3>1. state[u] = "DEFUNCT" /\ target'[v] = u
      BY <1>2, <1>8, <2>1 DEF Detach, IInv, TypeOK
    <3>2. ~Contains(defunct, u)
      BY <1>1 DEF IInv, DefunctOK
    <3> QED BY <1>1, <1>2, <2>1, <3>1, <3>2 DEF Detach, Claimed
  <2>2. CASE v # t
    <3>1. at[v] = "reaping" /\ target'[v] = target[v]
      BY <1>8, <2>2 DEF Detach, IInv, TypeOK
    <3> QED BY <3>1 DEF Detach, IInv, JoinOK, Claimed
  <2> QED BY <2>1, <2>2
<1>9. JoinOK'
  BY <1>6, <1>8 DEF Detach, JoinOK
<1>10. IInv'
  BY <1>3, <1>5, <1>9 DEF IInv
<1>11. ASSUME Prompt PROVE Prompt'
  <2>1. /\ \A v \in Threads : v # t => at'[v] = at[v] /\ target'[v] = target[v]
        /\ at'[t] = "reaping" => target'[t] = u /\ state[u] = "DEFUNCT"
        /\ sch' = sch
    BY <1>2 DEF Detach, IInv, TypeOK
  <2> QED BY <1>11, <2>1 DEF Prompt
<1>12. Undisturbed
  BY <1>2 DEF Detach, IInv, TypeOK, Undisturbed
<1>13. LifeCycle
  BY DEF Detach, LifeCycle
<1> QED BY <1>10, <1>11, <1>12, <1>13 DEF Preserved

(* The target that is freed is gone from the kernel and is on no list; no  *)
(* other claim names it.                                                   *)
LEMMA ReapInv ==
  ASSUME IInv, NEW t \in Threads, Reap(t)
  PROVE  Preserved
<1> DEFINE u == target[t]
<1>1. t = cur /\ phase = "run" /\ at[t] = "reaping" /\ exited[u] /\ state[t] = "RUNNING"
  BY DEF Reap, IInv, OneRunning
<1>2. u \in Threads /\ state[u] = "DEFUNCT" /\ ~Contains(defunct, u) /\ joiner[u] \in {t, NoThread}
  BY <1>1 DEF IInv, JoinOK, Claimed, FreedOK
<1>3. ASSUME NEW v \in Threads, at[v] = "reaping", target[v] = u PROVE v = t
  <2>1. Claimed(v) /\ Claimed(t)
    BY <1>1, <1>3 DEF IInv, JoinOK
  <2>2. joiner[u] # NoThread => v = t
    BY <1>1, <1>2, <1>3, <2>1, ThreadAssumption DEF Claimed
  <2>3. joiner[u] = NoThread => v = t
    BY <1>1, <1>2, <1>3, <2>1, ThreadAssumption DEF Claimed
  <2> QED BY <2>2, <2>3
<1> HIDE DEF u
<1>4. /\ Filed(sch', prio) /\ sch'.bq = sch.bq
      /\ \A v \in Threads : sch'.state[v] = IF v = u THEN "freed" ELSE sch.state[v]
  <2>1. sch' = SetState(sch, u, "freed")
    BY DEF Reap, u
  <2>2. Filed(sch, prio)
    BY DEF IInv
  <2> QED BY <1>2, <2>1, <2>2, Renamed
<1>5. TypeOK'
  <2>1. sch'.state = [v \in Threads |-> sch'.state[v]] /\ sch.state \in [Threads -> States]
    BY <1>4 DEF Filed, IInv, TypeOK
  <2>2. sch'.state \in [Threads -> States]
    BY <1>4, <2>1 DEF States
  <2> QED BY <1>4, <2>2, FiledTypes DEF Reap, IInv, TypeOK, Maybe
<1>6. PrioOK' /\ DefunctOK' /\ OneRunning' /\ FreshOK' /\ LoopOK' /\ FreedOK'
  BY <1>1, <1>2, <1>4
  DEF Reap, u, IInv, PrioOK, DefunctOK, OneRunning, FreshOK, LoopOK, FreedOK, InitPriority
<1>7. \A v \in Threads : v # t => at'[v] = at[v] /\ target'[v] = target[v]
  BY DEF Reap, IInv, TypeOK
<1>8. at'[t] = "user" /\ UNCHANGED <<joiner, detached, defunct, cur, phase>>
  BY DEF Reap, IInv, TypeOK
<1>9. JoinerWaits'
  <2> SUFFICES ASSUME NEW v \in Threads, sch'.state[v] \notin {"none", "freed", "DEFUNCT"},
                      joiner[v] # NoThread
               PROVE  /\ sch'.state[joiner[v]] \in {"BLOCKED", "READY", "RUNNING"}
                      /\ at'[joiner[v]] = "reaping" /\ target'[joiner[v]] = v
    BY <1>8 DEF JoinerWaits
  <2>1. HasTCB(v) /\ state[v] # "DEFUNCT" /\ v # u
    BY <1>2, <1>4
  <2>2. /\ joiner[v] \in Threads /\ state[joiner[v]] \in {"BLOCKED", "READY", "RUNNING"}
        /\ at[joiner[v]] = "reaping" /\ target[joiner[v]] = v
    BY <2>1 DEF IInv, TypeOK, Maybe, JoinOK, JoinerWaits
  <2>3. joiner[v] # t /\ joiner[v] # u
    BY <1>2, <2>1, <2>2 DEF u
  <2> DEFINE w == joiner[v]
  <2>4. /\ w \in Threads /\ w # t /\ w # u /\ state[w] \in {"BLOCKED", "READY", "RUNNING"}
        /\ at[w] = "reaping" /\ target[w] = v
    BY <2>2, <2>3
  <2> HIDE DEF w
  <2>5. sch'.state[w] \in {"BLOCKED", "READY", "RUNNING"} /\ at'[w] = "reaping" /\ target'[w] = v
    BY <1>4, <1>7, <2>4
  <2> QED BY <2>5 DEF w
<1>10. ASSUME NEW v \in Threads, at'[v] = "reaping" PROVE Claimed(v)'
  <2>1. v # t /\ at[v] = "reaping" /\ target'[v] = target[v]
    BY <1>7, <1>8, <1>10
  <2>2. Claimed(v) /\ target[v] # u
    BY <1>3, <2>1 DEF IInv, JoinOK
  <2>3. v # u
    BY <1>2, <2>2 DEF Claimed
  <2> QED BY <1>4, <1>8, <2>1, <2>2, <2>3 DEF Claimed
<1>11. JoinOK'
  BY <1>1, <1>2, <1>4, <1>7, <1>8, <1>9, <1>10 DEF IInv, JoinOK
<1>12. IInv'
  BY <1>4, <1>5, <1>6, <1>11 DEF Reap, IInv
<1>13. ASSUME Prompt PROVE Prompt'
  <2> SUFFICES ASSUME NEW v \in Threads, at'[v] = "reaping", sch'.state[v] # "BLOCKED"
               PROVE  sch'.state[target'[v]] = "DEFUNCT"
    BY DEF Prompt
  <2>1. v # t /\ at[v] = "reaping" /\ target'[v] = target[v] /\ target[v] # u
    BY <1>3, <1>7, <1>8
  <2>2. v # u /\ target[v] \in Threads
    BY <1>2, <2>1 DEF IInv, JoinOK, Claimed
  <2> QED BY <1>4, <1>13, <2>1, <2>2 DEF Prompt
<1>14. Undisturbed
  BY <1>1, <1>2, <1>4, <1>7, <1>8 DEF Undisturbed
<1>15. LifeCycle
  BY <1>1, <1>2, <1>4 DEF LifeCycle, u
<1> QED BY <1>12, <1>13, <1>14, <1>15 DEF Preserved

(* A sleeper is in sleeping_state, and the dispatcher will walk over it.   *)
LEMMA SleepInv ==
  ASSUME IInv, NEW t \in Threads, NEW d \in Nat, Sleep(t, d)
  PROVE  Preserved
<1>1. InUser(t) /\ left' \in [Threads -> Nat]
  BY Spent DEF Sleep
<1>2. t = cur /\ phase = "run" /\ state[t] = "RUNNING" /\ at[t] = "user"
  BY <1>1, Caller
<1>3. t # IdleThread
  BY NotIdle DEF Sleep
<1>4. /\ Filed(sch', prio) /\ sch'.state \in [Threads -> States]
      /\ \A v \in Threads : sch'.state[v] = IF v = t THEN "SLEEPING" ELSE sch.state[v]
      /\ sch'.sleeping = Append(sch.sleeping, t)
  <2>1. sch' = StateChange(sch, t, "SLEEPING", prio[t]) /\ t \in Threads \ {IdleThread}
    BY <1>3 DEF Sleep, ChangeState
  <2> QED BY <1>2, <2>1, LeavesProcessor
<1>5. TypeOK'
  <2>1. phase' = "sleepers" /\ todo' = sch'.sleeping
    BY <1>4 DEF Sleep, Dispatch
  <2>2. wake' \in [Threads -> Nat]
    BY DEF Sleep, IInv, TypeOK
  <2> QED BY <1>1, <1>4, <2>1, <2>2, FiledTypes DEF Sleep, IInv, TypeOK
<1>6. PrioOK' /\ DefunctOK' /\ OneRunning' /\ FreshOK' /\ FreedOK'
  BY <1>2, <1>4
  DEF Sleep, Dispatch, IInv, PrioOK, DefunctOK, OneRunning, FreshOK, FreedOK, InitPriority
<1>7. LoopOK'
  BY <1>4 DEF Sleep, Dispatch, LoopOK, Filed
<1>8. JoinOK'
  BY <1>2, <1>4, JoinKept DEF Sleep, IInv, TypeOK, OnProcessor
<1>9. IInv'
  BY <1>4, <1>5, <1>6, <1>7, <1>8 DEF Sleep, IInv
<1>10. LifeCycle
  BY <1>2, <1>4 DEF Sleep, Dispatch, LifeCycle
<1> QED BY <1>2, <1>4, <1>9, <1>10, PromptKept DEF Sleep, Preserved, Undisturbed

(* The thread moves to the bucket of its new priority.                     *)
LEMMA SetPrioInv ==
  ASSUME IInv, NEW t \in Threads, NEW p \in Highest .. Lowest, SetPrio(t, p)
  PROVE  Preserved
<1>1. InUser(t) /\ left' \in [Threads -> Nat]
  BY Spent DEF SetPrio
<1>2. t = cur /\ phase = "run" /\ state[t] = "RUNNING" /\ todo = <<>>
  BY <1>1, Caller
<1>3. t # IdleThread
  BY NotIdle DEF SetPrio
<1>4. p \in Priorities \ {IdlePriority}
  BY PriorityAssumption, PriorityRange
<1>5. prio' = [prio EXCEPT ![t] = p] /\ old' = [old EXCEPT ![t] = p]
  BY DEF SetPrio
<1>6. Filed(sch', prio') /\ \A v \in Threads : sch'.state[v] = sch.state[v]
  <2>1. sch' = [sch EXCEPT !.bq = BqReinsert(@, t, p)] /\ Filed(sch, prio)
    BY DEF SetPrio, IInv
  <2>2. t \in Threads \ {IdleThread} /\ sch.state[t] \in OnProcessor
    BY <1>2, <1>3 DEF OnProcessor
  <2>3. prio' = [prio EXCEPT ![t] = p]
    BY <1>5
  <2>4. Filed(sch', prio')
    BY <1>4, <2>1, <2>2, <2>3, Reprioritised
  <2>5. \A v \in Threads : sch'.state[v] = sch.state[v]
    BY <1>4, <2>1, <2>2, <2>3, Reprioritised
  <2> QED BY <2>4, <2>5
<1>7. TypeOK'
  <2>1. sch'.state = [v \in Threads |-> sch'.state[v]] /\ sch.state \in [Threads -> States]
    BY <1>6 DEF Filed, IInv, TypeOK
  <2>2. sch'.state \in [Threads -> States]
    BY <1>6, <2>1
  <2>3. prio' \in [Threads -> Priorities] /\ old' \in [Threads -> Priorities]
    BY <1>4, <1>5 DEF IInv, TypeOK
  <2> QED BY <1>1, <1>6, <2>2, <2>3, FiledTypes DEF SetPrio, IInv, TypeOK
<1>8. \A v \in Threads : /\ prio'[v] = IF v = t THEN p ELSE prio[v]
                         /\ old'[v] = IF v = t THEN p ELSE old[v]
  BY <1>5 DEF IInv, TypeOK
<1>9. PrioOK' /\ DefunctOK' /\ OneRunning' /\ FreshOK' /\ LoopOK' /\ FreedOK'
  BY <1>2, <1>4, <1>6, <1>8
  DEF SetPrio, IInv, PrioOK, DefunctOK, OneRunning, FreshOK, LoopOK, FreedOK, InitPriority
<1>10. JoinOK'
  BY <1>2, <1>6, JoinKept DEF SetPrio, IInv, TypeOK
<1>11. IInv'
  BY <1>6, <1>7, <1>9, <1>10 DEF IInv
<1> QED BY <1>6, <1>11, PromptKept DEF SetPrio, Preserved, Undisturbed, LifeCycle

(* The exit wakes the joiner, whose target is then finished and its own; a *)
(* detached thread goes to defunct_state.                                  *)
LEMMA ExitInv ==
  ASSUME IInv, NEW t \in Threads, Exit(t)
  PROVE  Preserved
<1> DEFINE j == joiner[t]
           woken == IF j = NoThread THEN sch ELSE ChangeState(sch, j, "READY")
<1>1. InUser(t) /\ left' \in [Threads -> Nat] /\ t # IdleThread
  <2>1. CASE Calls(t, [op |-> "exit"])
    BY <2>1, Spent, NotIdle
  <2>2. CASE InUser(t) /\ t \notin {Main, IdleThread} /\ UNCHANGED left
    BY <2>2 DEF IInv, TypeOK
  <2> QED BY <2>1, <2>2 DEF Exit
<1>2. t = cur /\ phase = "run" /\ state[t] = "RUNNING" /\ at[t] = "user"
  BY <1>1, Caller
<1>3. j # NoThread => /\ j \in Threads /\ state[j] \in {"BLOCKED", "READY"}
                      /\ target[j] = t /\ at[j] = "reaping" /\ ~detached[t] /\ j # t
  <2> SUFFICES ASSUME j # NoThread
               PROVE  /\ j \in Threads /\ state[j] \in {"BLOCKED", "READY"}
                      /\ target[j] = t /\ at[j] = "reaping" /\ ~detached[t] /\ j # t
    OBVIOUS
  <2>1. j \in Threads
    BY DEF IInv, TypeOK, Maybe
  <2>2. state[j] \in {"BLOCKED", "READY", "RUNNING"} /\ target[j] = t /\ at[j] = "reaping"
    BY <1>2 DEF IInv, JoinOK, JoinerWaits
  <2>3. ~detached[t] /\ j # t
    BY <1>2, <2>2 DEF IInv, JoinOK
  <2>4. state[j] # "RUNNING"
    BY <1>2, <2>1, <2>3 DEF IInv, OneRunning
  <2> QED BY <2>1, <2>2, <2>3, <2>4
<1>4. sch' = ChangeState(woken, t, "DEFUNCT")
  BY DEF Exit
<1> HIDE DEF j
<1>5. /\ Filed(woken, prio)
      /\ \A v \in Threads : woken.state[v] = IF v = j THEN "READY" ELSE sch.state[v]
  <2>1. Filed(sch, prio)
    BY DEF IInv
  <2>2. CASE j = NoThread
    BY <2>1, <2>2, ThreadAssumption
  <2>3. CASE j # NoThread /\ state[j] = "READY"
    <3>1. woken = sch
      BY <2>3 DEF ChangeState, StateChange
    <3> HIDE DEF woken
    <3> QED BY <2>1, <2>3, <3>1
  <2>4. CASE j # NoThread /\ state[j] = "BLOCKED"
    <3>1. prio[j] # IdlePriority
      BY <1>3, <2>1, <2>4, IdleIs DEF IInv, PrioOK, OnProcessor
    <3>2. woken = StateChange(sch, j, "READY", prio[j])
      BY <2>4 DEF ChangeState
    <3> HIDE DEF woken
    <3>3. j \in Threads /\ sch.state[j] \in {"BLOCKED", "SLEEPING"}
      BY <1>3, <2>4
    <3> QED BY <2>1, <3>1, <3>2, <3>3, Woken
  <2> QED BY <1>3, <2>2, <2>3, <2>4
<1> HIDE DEF woken
<1>6. /\ Filed(sch', prio)
      /\ \A v \in Threads : sch'.state[v] = IF v = t THEN "DEFUNCT" ELSE
                                            IF v = j THEN "READY" ELSE sch.state[v]
  <2>1. sch' = StateChange(woken, t, "DEFUNCT", prio[t])
    BY <1>4 DEF ChangeState
  <2>2. t \in Threads \ {IdleThread} /\ woken.state[t] = "RUNNING"
    BY <1>1, <1>2, <1>3, <1>5, ThreadAssumption
  <2>3. /\ Filed(sch', prio)
        /\ \A v \in Threads : sch'.state[v] = IF v = t THEN "DEFUNCT" ELSE woken.state[v]
    BY <1>5, <2>1, <2>2, Stopped
  <2> QED BY <1>5, <2>3
<1>7. /\ defunct' \in Seq(Threads) /\ Once(defunct')
      /\ \A v : Contains(defunct', v) <=> Contains(defunct, v) \/ (v = t /\ detached[t])
  <2>1. ~Contains(defunct, t) /\ defunct \in Seq(Threads) /\ Once(defunct)
    BY <1>2 DEF IInv, TypeOK, DefunctOK
  <2>2. /\ Append(defunct, t) \in Seq(Threads) /\ Once(Append(defunct, t))
        /\ \A m : Contains(Append(defunct, t), m) <=> Contains(defunct, m) \/ m = t
    BY <2>1, Appended
  <2> QED BY <2>1, <2>2 DEF Exit
<1>8. TypeOK'
  <2>1. sch'.state = [v \in Threads |-> sch'.state[v]] /\ sch.state \in [Threads -> States]
    BY <1>6 DEF Filed, IInv, TypeOK
  <2>2. sch'.state \in [Threads -> States]
    BY <1>6, <2>1 DEF States
  <2>3. phase' = "sleepers" /\ todo' \in Seq(Threads)
    BY DEF Exit, Dispatch, IInv, TypeOK
  <2> QED BY <1>1, <1>6, <1>7, <2>2, <2>3, FiledTypes DEF Exit, IInv, TypeOK
<1>9. PrioOK' /\ FreshOK'
  BY <1>2, <1>3, <1>6 DEF Exit, IInv, PrioOK, FreshOK, InitPriority
<1>10. phase' = "sleepers" /\ todo' = sch.sleeping /\ cur' = cur /\ UNCHANGED <<detached, exited>>
  BY DEF Exit, Dispatch
<1>15. DefunctOK'
  <2>1. Once(defunct') /\ UNCHANGED detached
    BY <1>7, <1>10
  <2>2. ASSUME NEW v \in Threads, Contains(defunct', v)
        PROVE  sch'.state[v] = "DEFUNCT" /\ detached[v]
    <3>1. CASE v = t
      BY <1>2, <1>6, <1>7, <2>2, <3>1 DEF IInv, DefunctOK
    <3>2. CASE v # t
      <4>1. sch.state[v] = "DEFUNCT" /\ detached[v]
        BY <1>7, <2>2, <3>2 DEF IInv, DefunctOK
      <4>2. v # j
        BY <1>3, <4>1, ThreadAssumption
      <4> QED BY <1>6, <3>2, <4>1, <4>2
    <3> QED BY <3>1, <3>2
  <2> QED BY <2>1, <2>2 DEF DefunctOK
<1>16. OneRunning'
  BY <1>2, <1>6, <1>10 DEF IInv, OneRunning
<1>17. LoopOK'
  <2>1. \A v \in Threads : Contains(sch.sleeping, v) => sch.state[v] = "SLEEPING"
    BY DEF IInv, Filed
  <2>2. \A v \in Threads : Contains(sch.sleeping, v) => sch'.state[v] \in {"SLEEPING", "READY"}
    BY <1>2, <1>6, <2>1
  <2> QED BY <1>10, <2>2 DEF LoopOK
<1>18. FreedOK'
  <2>1. \A v \in Threads : exited[v] => v # j
    BY <1>3, ThreadAssumption DEF IInv, FreedOK
  <2> QED BY <1>2, <1>6, <1>10, <2>1 DEF IInv, FreedOK
<1>11. UNCHANGED <<joiner, at, target, detached>>
  BY DEF Exit
<1>12. JoinerWaits'
  <2> SUFFICES ASSUME NEW v \in Threads, sch'.state[v] \notin {"none", "freed", "DEFUNCT"},
                      joiner[v] # NoThread
               PROVE  /\ sch'.state[joiner[v]] \in {"BLOCKED", "READY", "RUNNING"}
                      /\ at[joiner[v]] = "reaping" /\ target[joiner[v]] = v
    BY <1>11 DEF JoinerWaits
  <2>1. HasTCB(v) /\ state[v] # "DEFUNCT" /\ v # t
    BY <1>3, <1>6, ThreadAssumption
  <2>2. /\ joiner[v] \in Threads /\ state[joiner[v]] \in {"BLOCKED", "READY", "RUNNING"}
        /\ at[joiner[v]] = "reaping" /\ target[joiner[v]] = v
    BY <2>1 DEF IInv, TypeOK, Maybe, JoinOK, JoinerWaits
  <2> QED BY <1>2, <1>3, <1>6, <2>1, <2>2, ThreadAssumption
<1>13. ASSUME NEW v \in Threads, at'[v] = "reaping" PROVE Claimed(v)'
  <2> DEFINE w == target[v]
  <2>1. Claimed(v) /\ v # t /\ target'[v] = w /\ w \in Threads
    BY <1>2, <1>11, <1>13 DEF IInv, JoinOK, Claimed
  <2>2. CASE w = t
    <3>1. v = j /\ ~detached[t] /\ sch'.state[v] = "READY" /\ sch'.state[w] = "DEFUNCT"
      BY <1>2, <1>3, <1>6, <2>1, <2>2, ThreadAssumption DEF Claimed, j
    <3>2. ~Contains(defunct', w) /\ joiner'[w] = v
      BY <1>2, <1>7, <1>11, <2>2, <3>1 DEF IInv, DefunctOK, j
    <3> QED BY <2>1, <3>1, <3>2 DEF Claimed
  <2>3. CASE w # t
    <3>1. sch'.state[w] = state[w] \/ (state[w] \in {"BLOCKED", "READY"} /\ sch'.state[w] = "READY")
      BY <1>3, <1>6, <2>1, <2>3, ThreadAssumption
    <3>2. sch'.state[v] = state[v] \/ sch'.state[v] = "READY"
      BY <1>3, <1>6, <2>1, ThreadAssumption
    <3>3. state[v] \in {"BLOCKED", "READY", "RUNNING"}
      BY <2>1 DEF Claimed
    <3>4. CASE state[w] \in {"none", "freed", "DEFUNCT"}
      <4>1. state[w] = "DEFUNCT" /\ state[v] # "BLOCKED" /\ ~Contains(defunct, w) /\ joiner[w] = v
        BY <1>2, <2>1, <3>4 DEF Claimed
      <4>2. sch'.state[w] = "DEFUNCT" /\ sch'.state[v] # "BLOCKED" /\ ~Contains(defunct', w)
        BY <1>7, <2>3, <3>1, <3>2, <4>1
      <4> HIDE DEF w
      <4> QED BY <1>11, <2>1, <3>2, <3>3, <4>1, <4>2 DEF Claimed
    <3>5. CASE state[w] \notin {"none", "freed", "DEFUNCT"}
      <4>1. joiner[w] = v /\ sch'.state[w] \notin {"none", "freed", "DEFUNCT"}
        BY <2>1, <3>1, <3>5 DEF Claimed
      <4> HIDE DEF w
      <4> QED BY <1>11, <2>1, <3>2, <3>3, <4>1 DEF Claimed
    <3> QED BY <3>4, <3>5
  <2> QED BY <2>2, <2>3
<1>14. JoinOK'
  BY <1>6, <1>11, <1>12, <1>13 DEF IInv, JoinOK
<1>19. IInv'
  BY <1>6, <1>8, <1>9, <1>14, <1>15, <1>16, <1>17, <1>18 DEF Exit, IInv
<1>20. ASSUME Prompt PROVE Prompt'
  <2> SUFFICES ASSUME NEW v \in Threads, at[v] = "reaping", sch'.state[v] # "BLOCKED"
               PROVE  sch'.state[target[v]] = "DEFUNCT"
    BY <1>11 DEF Prompt
  <2>1. target[v] \in Threads /\ v # t
    BY <1>2 DEF IInv, JoinOK, Claimed
  <2>2. v = j \/ state[v] # "BLOCKED"
    BY <1>6, <2>1
  <2>3. target[v] = t \/ state[target[v]] = "DEFUNCT"
    BY <1>3, <1>20, <2>1, <2>2, ThreadAssumption DEF Prompt
  <2>4. j = NoThread \/ state[j] \in {"BLOCKED", "READY"}
    BY <1>3
  <2> QED BY <1>6, <2>1, <2>3, <2>4, ThreadAssumption
<1>21. Undisturbed
  <2>1. ASSUME NEW v \in Threads
        PROVE  \/ at[v] = "reaping"
               \/ sch'.state[v] = sch.state[v]
               \/ sch.state[v] = "RUNNING" /\ sch'.state[v] = "DEFUNCT"
    BY <1>2, <1>3, <1>6, ThreadAssumption
  <2> QED BY <1>11, <2>1 DEF Undisturbed
<1>22. LifeCycle
  <2>1. ASSUME NEW v \in Threads, v # t
        PROVE  \/ sch'.state[v] = sch.state[v]
               \/ sch.state[v] = "BLOCKED" /\ at[v] = "reaping" /\ sch'.state[v] = "READY"
    BY <1>2, <1>3, <1>6, <2>1, ThreadAssumption
  <2> QED BY <1>2, <1>6, <1>10, <2>1 DEF LifeCycle
<1> QED BY <1>19, <1>20, <1>21, <1>22 DEF Preserved

-----------------------------------------------------------------------------
(* The dispatcher.                                                         *)

(* A loop over a list goes on with the rest of it.                         *)
LEMMA Rest ==
  ASSUME NEW l \in Seq(Threads), l # <<>>
  PROVE  /\ Head(l) \in Threads /\ Contains(l, Head(l)) /\ Tail(l) \in Seq(Threads)
         /\ \A m : Contains(Tail(l), m) => Contains(l, m)
         /\ Once(l) => Once(Tail(l)) /\ ~Contains(Tail(l), Head(l))
<1> DEFINE k == Tail(l)
<1>1. /\ Len(l) \in Nat /\ Len(l) > 0 /\ DOMAIN l = 1 .. Len(l)
      /\ Head(l) = l[1] /\ Head(l) \in Threads
  OBVIOUS
<1>2. k \in Seq(Threads) /\ Len(k) = Len(l) - 1 /\ \A i \in 1 .. Len(k) : k[i] = l[i + 1]
  OBVIOUS
<1> HIDE DEF k
<1>3. DOMAIN k = 1 .. Len(k)
  BY <1>2
<1>4. Contains(l, Head(l))
  BY <1>1 DEF Contains
<1>5. ASSUME NEW m, Contains(k, m) PROVE \E i \in 2 .. Len(l) : l[i] = m
  <2>1. PICK i \in 1 .. Len(k) : k[i] = m
    BY <1>5 DEF Contains
  <2>2. i + 1 \in 2 .. Len(l) /\ l[i + 1] = m
    BY <1>1, <1>2, <2>1
  <2> QED BY <2>2
<1>6. \A m : Contains(k, m) => Contains(l, m)
  BY <1>1, <1>5 DEF Contains
<1>7. ASSUME Once(l) PROVE Once(k) /\ ~Contains(k, Head(l))
  <2>1. Once(k)
    BY <1>1, <1>2, <1>3, <1>7 DEF Once
  <2>2. ~Contains(k, Head(l))
    BY <1>1, <1>5, <1>7 DEF Once
  <2> QED BY <2>1, <2>2
<1> QED BY <1>1, <1>2, <1>4, <1>6, <1>7 DEF k

(* A sleeper that is due moves to the bucket queue.                        *)
LEMMA WakeSleeperInv ==
  ASSUME IInv, WakeSleeper
  PROVE  Preserved
<1> DEFINE h == Head(todo)
<1>1. phase = "sleepers" /\ todo # <<>> /\ todo \in Seq(Threads) /\ todo' = Tail(todo)
  BY DEF WakeSleeper, IInv, TypeOK
<1>2. /\ h \in Threads /\ Contains(todo, h) /\ todo' \in Seq(Threads)
      /\ \A m : Contains(todo', m) => Contains(todo, m)
  BY <1>1, Rest
<1>3. sch' = sch \/ (state[h] = "SLEEPING" /\ sch' = ChangeState(sch, h, "READY"))
  BY DEF WakeSleeper
<1> HIDE DEF h
<1>4. /\ Filed(sch', prio)
      /\ \A v \in Threads : \/ sch'.state[v] = sch.state[v]
                            \/ sch.state[v] = "SLEEPING" /\ sch'.state[v] = "READY"
  <2>1. Filed(sch, prio)
    BY DEF IInv
  <2>2. CASE sch' = sch
    BY <2>1, <2>2
  <2>3. CASE state[h] = "SLEEPING" /\ sch' = ChangeState(sch, h, "READY")
    <3>1. prio[h] # IdlePriority
      BY <1>2, <2>1, <2>3, IdleIs DEF IInv, PrioOK, OnProcessor
    <3>2. sch' = StateChange(sch, h, "READY", prio[h])
      BY <2>3 DEF ChangeState
    <3>3. sch.state[h] \in {"BLOCKED", "SLEEPING"}
      BY <2>3
    <3>4. /\ Filed(sch', prio)
          /\ \A v \in Threads : sch'.state[v] = IF v = h THEN "READY" ELSE sch.state[v]
      BY <1>2, <2>1, <3>1, <3>2, <3>3, Woken
    <3> QED BY <2>3, <3>4
  <2> QED BY <1>3, <2>2, <2>3
<1>5. TypeOK'
  <2>1. sch'.state = [v \in Threads |-> sch'.state[v]] /\ sch.state \in [Threads -> States]
    BY <1>4 DEF Filed, IInv, TypeOK
  <2>2. sch'.state \in [Threads -> States]
    BY <1>4, <2>1 DEF States
  <2> QED BY <1>2, <1>4, <2>2, FiledTypes DEF WakeSleeper, IInv, TypeOK
<1>6. PrioOK' /\ DefunctOK' /\ OneRunning' /\ FreshOK' /\ LoopOK' /\ FreedOK'
  BY <1>1, <1>2, <1>4
  DEF WakeSleeper, IInv, PrioOK, DefunctOK, OneRunning, FreshOK, LoopOK, FreedOK, InitPriority
<1>7. JoinOK'
  BY <1>1, <1>4, JoinKept DEF WakeSleeper, IInv, TypeOK, OnProcessor
<1>8. IInv'
  BY <1>4, <1>5, <1>6, <1>7 DEF WakeSleeper, IInv
<1>9. LifeCycle
  BY <1>1, <1>4 DEF LifeCycle
<1> QED BY <1>4, <1>8, <1>9, PromptKept DEF WakeSleeper, Preserved, Undisturbed

(* The ageing loop goes to the next bucket with a node to age, or ends.    *)
LEMMA NextLevelIs ==
  ASSUME NEW from \in Nat
  PROVE  /\ NextLevel(from) \in 0 .. IdlePriority + 1
         /\ NextLevel(from) = IdlePriority + 1
            \/ (Ageable(NextLevel(from)) /\ NextLevel(from) \in from .. IdlePriority)
<1> DEFINE S == {IdlePriority + 1} \cup
                {l \in from .. IdlePriority :
                   /\ Aging(l) # {}
                   /\ InitPriority(Head(sch.bq.bucket[l])) \notin {MainPriority, IdlePriority}}
           m == NextLevel(from)
<1>1. S \in SUBSET Nat /\ S # {} /\ IdlePriority \in Nat
  BY BucketAssumption
<1>2. m = Min(S)
  BY DEF NextLevel
<1> HIDE DEF m
<1>3. m \in S
  BY <1>1, <1>2, MinOf
<1>4. CASE m = IdlePriority + 1
  BY <1>1, <1>4 DEF m
<1>5. CASE m # IdlePriority + 1
  BY <1>1, <1>3, <1>5 DEF Ageable, m
<1> QED BY <1>4, <1>5

(* Ageing begins at a bucket with a thread that ages.                      *)
LEMMA StartAgingInv ==
  ASSUME IInv, StartAging
  PROVE  Preserved
<1>1. phase = "sleepers" /\ todo = <<>> /\ phase' = "aging" /\ level' = NextLevel(Top(sch.bq))
  BY DEF StartAging
<1>2. Top(sch.bq) \in Nat
  BY TopGood DEF IInv, Filed, Priorities
<1>3. level' \in 0 .. IdlePriority + 1 /\ (level' = IdlePriority + 1 \/ Ageable(level'))
  BY <1>1, <1>2, NextLevelIs
<1>4. TypeOK' /\ Filed(sch', prio')
  BY <1>1, <1>3 DEF StartAging, IInv, TypeOK
<1>5. PrioOK' /\ DefunctOK' /\ OneRunning' /\ FreshOK' /\ FreedOK'
  BY <1>1 DEF StartAging, IInv, PrioOK, DefunctOK, OneRunning, FreshOK, FreedOK, InitPriority
<1>6. LoopOK'
  BY <1>1, <1>3 DEF StartAging, LoopOK, Ageable, Aging, Ages, InitPriority
<1>7. JoinOK'
  BY <1>1, JoinKept DEF StartAging, IInv, TypeOK
<1>8. IInv'
  BY <1>4, <1>5, <1>6, <1>7 DEF IInv
<1> QED BY <1>8, PromptKept DEF StartAging, Preserved, Undisturbed, LifeCycle

(* The thread that ages moves to the bucket of its new priority; the       *)
(* buckets that the loop has yet to visit stay.                            *)
LEMMA AgeLevelInv ==
  ASSUME IInv, AgeLevel
  PROVE  Preserved
<1> DEFINE first == Min(Aging(level))
           b == sch.bq.bucket[level]
           t == b[first]
           p == AgedPriority(t)
<1>1. /\ phase = "aging" /\ todo = <<>> /\ Ageable(level) /\ level \in Priorities /\ level \in Nat
      /\ IdlePriority \in Nat
  <2>1. phase = "aging" /\ level <= IdlePriority /\ level \in 0 .. IdlePriority + 1
    BY DEF AgeLevel, IInv, TypeOK
  <2>2. level \in Priorities /\ level \in Nat /\ level # IdlePriority + 1 /\ IdlePriority \in Nat
    BY <2>1, BucketAssumption DEF Priorities
  <2> QED BY <2>1, <2>2 DEF IInv, LoopOK
<1>2. b \in Seq(Threads) /\ first \in DOMAIN b /\ Aging(level) \in SUBSET Nat /\ Aging(level) # {}
  <2>1. b \in Seq(Threads)
    BY <1>1, FiledTypes DEF IInv
  <2>2. Aging(level) \in SUBSET (DOMAIN b) /\ DOMAIN b \in SUBSET Nat
    BY <2>1 DEF Aging
  <2>3. Aging(level) # {}
    BY <1>1 DEF Ageable
  <2> QED BY <2>1, <2>2, <2>3, MinOf
<1>3. t \in Threads /\ Contains(b, t)
  BY <1>2 DEF Contains
<1>4. state[t] \in OnProcessor /\ prio[t] = level
  BY <1>1, <1>3 DEF IInv, Filed
<1>5. level # IdlePriority
  <2> SUFFICES ASSUME level = IdlePriority PROVE FALSE
    OBVIOUS
  <2>1. b = <<IdleThread>>
    BY DEF IInv, Filed, Good
  <2>2. Head(b) = IdleThread
    BY <2>1
  <2> QED BY <1>1, <2>2, PriorityRange DEF Ageable
<1>6. t # IdleThread
  BY <1>4, <1>5, IdleIs DEF IInv
<1>7. Age(t) /\ UNCHANGED <<defunct, wake, joiner, detached, exited, target, at, left, cur, todo, now>>
  BY DEF AgeLevel
<1> HIDE DEF t
<1>8. p \in Int /\ p >= Highest /\ Highest \in Nat
  <2>1. /\ old[t] \in Nat /\ now \in Nat /\ last[t] \in Nat
        /\ AgingTime[t] \in Nat \ {0} /\ AgingFactor[t] \in Nat /\ Highest \in Nat
    BY <1>3, ProgramAssumption, PriorityAssumption DEF IInv, TypeOK, Priorities
  <2> DEFINE q == (now - last[t]) \div AgingTime[t]
  <2>2. q \in Int
    BY <2>1
  <2> HIDE DEF q
  <2>3. q * AgingFactor[t] \in Int
    BY <2>1, <2>2
  <2> DEFINE m == q * AgingFactor[t]
  <2>4. p = IF old[t] - m < Highest THEN Highest ELSE old[t] - m
    BY DEF AgedPriority, q
  <2> HIDE DEF m, p
  <2>5. m \in Int
    BY <2>3 DEF m
  <2> QED BY <2>1, <2>4, <2>5
<1> HIDE DEF p
<1>9. /\ old' \in [Threads -> Priorities] /\ last' \in [Threads -> Nat]
      /\ \A v \in Threads : old[v] # IdlePriority => old'[v] # IdlePriority
  <2>1. old \in [Threads -> Priorities] /\ last \in [Threads -> Nat] /\ now \in Nat
    BY DEF IInv, TypeOK
  <2>2. p < old[t] => p \in Priorities /\ p # IdlePriority
    BY <1>1, <1>3, <1>8, <2>1 DEF Priorities
  <2>3. IF p < old[t] THEN old' = [old EXCEPT ![t] = p] /\ last' = [last EXCEPT ![t] = now]
                      ELSE UNCHANGED <<old, last>>
    BY <1>7 DEF Age, p
  <2> QED BY <2>1, <2>2, <2>3
<1>10. /\ Filed(sch', prio') /\ (\A v \in Threads : sch'.state[v] = sch.state[v])
       /\ \A x \in Priorities : x > level => sch'.bq.bucket[x] = sch.bq.bucket[x]
       /\ \A v \in Threads \ {t} : prio'[v] = prio[v]
       /\ prio'[t] # IdlePriority
  <2>1. prio \in [Threads -> Priorities] /\ Filed(sch, prio)
    BY DEF IInv, TypeOK
  <2>2. CASE p < prio[t]
    <3>1. prio' = [prio EXCEPT ![t] = p]
      BY <1>7, <2>2 DEF Age, p
    <3>2. sch' = [sch EXCEPT !.bq = BqReinsert(@, t, p)]
      BY <1>7, <2>2 DEF Age, p
    <3>3. p \in Priorities \ {IdlePriority} /\ p < level
      BY <1>1, <1>4, <1>8, <2>2 DEF Priorities
    <3>4. t \in Threads \ {IdleThread} /\ sch.state[t] \in OnProcessor
      BY <1>3, <1>4, <1>6
    <3>5. Filed(sch', prio')
      BY <2>1, <3>1, <3>2, <3>3, <3>4, Reprioritised
    <3>6. \A v \in Threads : sch'.state[v] = sch.state[v]
      BY <2>1, <3>1, <3>2, <3>3, <3>4, Reprioritised
    <3>7. \A x \in Priorities : x # p /\ x # prio[t] => sch'.bq.bucket[x] = sch.bq.bucket[x]
      <4>1. sch'.bq = BqReinsert(sch.bq, t, p)
        BY <2>1, <3>1, <3>2, <3>3, <3>4, Reprioritised
      <4> QED BY <2>1, <3>3, <3>4, <4>1, OtherBuckets
    <3>8. \A x \in Priorities : x > level => x # p /\ x # prio[t]
      BY <1>1, <1>4, <1>8, <3>3 DEF Priorities
    <3>9. (\A v \in Threads \ {t} : prio'[v] = prio[v]) /\ prio'[t] # IdlePriority
      BY <1>3, <2>1, <3>1, <3>3
    <3> QED BY <3>5, <3>6, <3>7, <3>8, <3>9
  <2>3. CASE ~(p < prio[t])
    BY <1>4, <1>5, <1>7, <2>1, <2>3 DEF Age, p
  <2> QED BY <2>2, <2>3
<1>11. /\ level' \in 0 .. IdlePriority + 1
       /\ phase' = "spin" \/ (phase' = "aging" /\ (level' = IdlePriority + 1 \/ Ageable(level)'))
  <2>1. CASE first = 1
    <3> DEFINE m == NextLevel(level + 1)
    <3>1. level' = m /\ phase' = "aging"
      BY <1>1, <2>1 DEF AgeLevel
    <3>2. /\ m \in 0 .. IdlePriority + 1
          /\ m = IdlePriority + 1 \/ (Ageable(m) /\ m \in level + 1 .. IdlePriority)
      BY <1>1, NextLevelIs
    <3> HIDE DEF m
    <3>3. ASSUME Ageable(m), m \in level + 1 .. IdlePriority PROVE Ageable(level)'
      <4>1. m \in Priorities /\ m > level
        BY <1>1, <3>3 DEF Priorities
      <4>2. sch'.bq.bucket[m] = sch.bq.bucket[m] /\ sch.bq.bucket[m] \in Seq(Threads)
        BY <1>10, <4>1, FiledTypes DEF IInv
      <4> DEFINE c == sch.bq.bucket[m]
      <4>3. \A i \in DOMAIN c : sch'.state[c[i]] = sch.state[c[i]]
        BY <1>10, <4>2
      <4>4. {i \in DOMAIN c : sch'.state[c[i]] # "RUNNING" /\ AgingFactor[c[i]] # 0} # {}
        BY <3>3, <4>3 DEF Ageable, Aging, Ages
      <4> QED BY <3>1, <3>3, <4>2, <4>4 DEF Ageable, Aging, Ages, InitPriority
    <3> QED BY <3>1, <3>2, <3>3
  <2>2. CASE first # 1
    BY <2>2 DEF AgeLevel, IInv, TypeOK
  <2> QED BY <2>1, <2>2
<1>12. TypeOK'
  <2>1. sch'.state = [v \in Threads |-> sch'.state[v]] /\ sch.state \in [Threads -> States]
    BY <1>10 DEF Filed, IInv, TypeOK
  <2>2. sch'.state \in [Threads -> States]
    BY <1>10, <2>1
  <2>3. prio' \in [Threads -> Priorities]
    BY <1>10 DEF Filed
  <2> QED BY <1>7, <1>9, <1>10, <1>11, <2>2, <2>3, FiledTypes DEF IInv, TypeOK
<1>17. PrioOK'
  BY <1>9, <1>10 DEF IInv, PrioOK
<1>13. DefunctOK' /\ OneRunning' /\ FreedOK'
  BY <1>1, <1>7, <1>10, <1>11 DEF IInv, DefunctOK, OneRunning, FreedOK
<1>14. FreshOK'
  BY <1>4, <1>7, <1>10 DEF IInv, FreshOK, InitPriority, OnProcessor
<1>15. LoopOK'
  BY <1>1, <1>7, <1>11 DEF LoopOK
<1>16. JoinOK'
  BY <1>1, <1>7, <1>10, JoinKept DEF IInv, TypeOK
<1>18. IInv'
  BY <1>10, <1>12, <1>13, <1>14, <1>15, <1>16, <1>17 DEF IInv
<1>19. LifeCycle
  BY <1>10 DEF LifeCycle
<1> QED BY <1>7, <1>10, <1>18, <1>19, PromptKept DEF Preserved, Undisturbed

(* The last loop walks over defunct_state.                                 *)
LEMMA StartReapingInv ==
  ASSUME IInv, StartReaping
  PROVE  Preserved
<1>1. phase = "aging" /\ phase' = "reap" /\ level' = 0 /\ todo' = defunct
  BY DEF StartReaping
<1>2. 0 \in 0 .. IdlePriority + 1
  BY BucketAssumption
<1>3. TypeOK' /\ Filed(sch', prio')
  BY <1>1, <1>2 DEF StartReaping, IInv, TypeOK
<1>4. PrioOK' /\ DefunctOK' /\ OneRunning' /\ FreshOK' /\ LoopOK' /\ FreedOK'
  BY <1>1
  DEF StartReaping, IInv, PrioOK, DefunctOK, OneRunning, FreshOK, LoopOK, FreedOK, InitPriority
<1>5. JoinOK'
  BY <1>1, JoinKept DEF StartReaping, IInv, TypeOK
<1>6. IInv'
  BY <1>3, <1>4, <1>5 DEF IInv
<1> QED BY <1>6, PromptKept DEF StartReaping, Preserved, Undisturbed, LifeCycle

(* A detached thread is freed when it is gone, and leaves defunct_state.   *)
LEMMA ReapDetachedInv ==
  ASSUME IInv, ReapDetached
  PROVE  Preserved
<1> DEFINE u == Head(todo)
<1>1. phase = "reap" /\ todo # <<>> /\ todo \in Seq(Threads) /\ todo' = Tail(todo) /\ Once(todo)
  BY DEF ReapDetached, IInv, TypeOK, LoopOK
<1>2. /\ u \in Threads /\ Contains(todo, u) /\ todo' \in Seq(Threads)
      /\ (\A m : Contains(todo', m) => Contains(todo, m)) /\ Once(todo') /\ ~Contains(todo', u)
  BY <1>1, Rest
<1>3. Contains(defunct, u) /\ state[u] = "DEFUNCT" /\ detached[u] /\ joiner[u] = NoThread
  BY <1>1, <1>2 DEF IInv, LoopOK, DefunctOK, JoinOK
<1>4. \/ UNCHANGED <<defunct, sch>>
      \/ u # cur /\ exited[u] /\ defunct' = Without(defunct, u) /\ sch' = SetState(sch, u, "freed")
  BY DEF ReapDetached
<1>5. UNCHANGED <<prio, old, last, wake, joiner, detached, exited, target, at, left, cur, phase, level, now>>
  BY DEF ReapDetached
<1> HIDE DEF u
<1>6. CASE UNCHANGED <<defunct, sch>>
  <2>1. TypeOK' /\ Filed(sch', prio')
    BY <1>2, <1>5, <1>6 DEF IInv, TypeOK
  <2>2. PrioOK' /\ DefunctOK' /\ OneRunning' /\ FreshOK' /\ LoopOK' /\ FreedOK'
    BY <1>1, <1>2, <1>5, <1>6
    DEF IInv, PrioOK, DefunctOK, OneRunning, FreshOK, LoopOK, FreedOK, InitPriority
  <2>3. JoinOK'
    BY <1>1, <1>5, <1>6, JoinKept DEF IInv, TypeOK
  <2>4. IInv'
    BY <2>1, <2>2, <2>3 DEF IInv
  <2> QED BY <1>5, <1>6, <2>4, PromptKept DEF Preserved, Undisturbed, LifeCycle
<1>7. CASE u # cur /\ exited[u] /\ defunct' = Without(defunct, u) /\ sch' = SetState(sch, u, "freed")
  <2>1. /\ Filed(sch', prio) /\ sch'.bq = sch.bq
        /\ \A v \in Threads : sch'.state[v] = IF v = u THEN "freed" ELSE sch.state[v]
    <3>1. Filed(sch, prio) /\ sch' = SetState(sch, u, "freed")
      BY <1>7 DEF IInv
    <3> QED BY <1>2, <1>3, <3>1, Renamed
  <2>2. /\ defunct' \in Seq(Threads) /\ Once(defunct')
        /\ \A m : Contains(defunct', m) <=> Contains(defunct, m) /\ m # u
    BY <1>7, TakenOff DEF IInv, TypeOK, DefunctOK
  <2>3. TypeOK'
    <3>1. sch'.state = [v \in Threads |-> sch'.state[v]] /\ sch.state \in [Threads -> States]
      BY <2>1 DEF Filed, IInv, TypeOK
    <3>2. sch'.state \in [Threads -> States]
      BY <2>1, <3>1 DEF States
    <3> QED BY <1>2, <1>5, <2>1, <2>2, <3>2, FiledTypes DEF IInv, TypeOK
  <2>4. PrioOK' /\ OneRunning' /\ FreshOK' /\ FreedOK'
    BY <1>1, <1>3, <1>5, <1>7, <2>1
    DEF IInv, PrioOK, OneRunning, FreshOK, FreedOK, InitPriority
  <2>9. DefunctOK'
    BY <1>5, <2>1, <2>2 DEF IInv, DefunctOK
  <2>5. LoopOK'
    BY <1>1, <1>2, <1>5, <2>2 DEF IInv, LoopOK
  <2>6. JoinerWaits'
    <3> SUFFICES ASSUME NEW v \in Threads, sch'.state[v] \notin {"none", "freed", "DEFUNCT"},
                        joiner[v] # NoThread
                 PROVE  /\ sch'.state[joiner[v]] \in {"BLOCKED", "READY", "RUNNING"}
                        /\ at[joiner[v]] = "reaping" /\ target[joiner[v]] = v
      BY <1>5 DEF JoinerWaits
    <3>1. HasTCB(v) /\ state[v] # "DEFUNCT"
      BY <1>3, <2>1
    <3>2. /\ joiner[v] \in Threads /\ state[joiner[v]] \in {"BLOCKED", "READY", "RUNNING"}
          /\ at[joiner[v]] = "reaping" /\ target[joiner[v]] = v
      BY <3>1 DEF IInv, TypeOK, Maybe, JoinOK, JoinerWaits
    <3> QED BY <1>3, <2>1, <3>2
  <2>7. ASSUME NEW v \in Threads, at'[v] = "reaping" PROVE Claimed(v)'
    <3>1. Claimed(v) /\ target[v] # u /\ v # u
      BY <1>3, <1>5, <2>7 DEF IInv, JoinOK, Claimed
    <3> QED BY <1>1, <1>5, <2>1, <2>2, <3>1 DEF Claimed
  <2>8. JoinOK'
    BY <1>5, <2>1, <2>6, <2>7 DEF IInv, JoinOK
  <2>10. IInv'
    BY <1>5, <2>1, <2>3, <2>4, <2>5, <2>8, <2>9 DEF IInv
  <2>11. Undisturbed
    BY <1>3, <1>5, <2>1 DEF Undisturbed
  <2>12. LifeCycle
    BY <1>3, <1>7, <2>1 DEF LifeCycle
  <2> QED BY <1>3, <1>5, <2>1, <2>10, <2>11, <2>12, PromptKept DEF Preserved
<1> QED BY <1>4, <1>6, <1>7

(* The thread the scheduler finds at the head of the queue is on it.       *)
LEMMA PeekIs ==
  ASSUME NEW s, NEW pr, Filed(s, pr)
  PROVE  BqPeek(s.bq) \in Threads /\ s.state[BqPeek(s.bq)] \in OnProcessor
<1> DEFINE b == s.bq.bucket[Top(s.bq)]
<1>1. Top(s.bq) \in Priorities /\ b # <<>>
  BY TopGood DEF Filed
<1>2. b \in Seq(Threads)
  BY <1>1, FiledTypes
<1>3. Head(b) \in Threads /\ Contains(b, Head(b))
  BY <1>1, <1>2, Rest
<1> QED BY <1>1, <1>3 DEF Filed, BqPeek

(* The dispatcher hands over to the first thread of the highest bucket; a  *)
(* thread that is not RUNNING any more is not there.                       *)
LEMMA SelectInv ==
  ASSUME IInv, Select
  PROVE  Preserved
<1> DEFINE next == Chosen(sch.bq)
           yielded == IF state[cur] = "RUNNING" THEN SetState(sch, cur, "READY") ELSE sch
           chosen == SetState(yielded, next, "RUNNING")
<1>1. /\ phase = "reap" /\ todo = <<>> /\ phase' = "run" /\ cur' = next
      /\ sch' = [chosen EXCEPT !.bq = BqRotate(@)]
      /\ last' = [last EXCEPT ![cur] = now, ![next] = now]
      /\ UNCHANGED <<defunct, prio, old, wake, joiner, detached, exited, target, at, left, todo, level, now>>
  BY DEF Select
<1>2. Filed(sch, prio) /\ cur \in Threads
  BY DEF IInv, TypeOK
<1>3. next \in Threads /\ sch.state[next] \in OnProcessor
  <2> DEFINE s2 == [sch EXCEPT !.bq = BqRotate(@)]
  <2>1. s2.bq = BqRotate(sch.bq) /\ Filed(s2, prio) /\ \A v \in Threads : s2.state[v] = sch.state[v]
    <3>1. s2.bq = BqRotate(sch.bq)
      BY <1>2 DEF Filed
    <3>2. s2 = [sch EXCEPT !.bq = BqRotate(@)]
      OBVIOUS
    <3> HIDE DEF s2
    <3> QED BY <1>2, <3>1, <3>2, RotatedFiled
  <2> HIDE DEF s2
  <2>2. BqPeek(BqRotate(sch.bq)) \in Threads /\ sch.state[BqPeek(BqRotate(sch.bq))] \in OnProcessor
    BY <2>1, PeekIs
  <2>3. BqPeek(sch.bq) \in Threads /\ sch.state[BqPeek(sch.bq)] \in OnProcessor
    BY <1>2, PeekIs
  <2> QED BY <2>2, <2>3 DEF Chosen
<1> HIDE DEF next
<1>4. /\ Filed(yielded, prio)
      /\ \A v \in Threads : yielded.state[v] = IF v = cur /\ sch.state[v] = "RUNNING"
                                               THEN "READY" ELSE sch.state[v]
  <2>1. CASE state[cur] = "RUNNING"
    <3>1. yielded = SetState(sch, cur, "READY") /\ sch.state[cur] \in OnProcessor
          /\ "READY" \in OnProcessor
      BY <2>1 DEF OnProcessor
    <3> HIDE DEF yielded
    <3>2. /\ Filed(yielded, prio)
          /\ \A v \in Threads : yielded.state[v] = IF v = cur THEN "READY" ELSE sch.state[v]
      BY <1>2, <3>1, Renamed
    <3> QED BY <2>1, <3>2
  <2>2. CASE state[cur] # "RUNNING"
    BY <1>2, <2>2
  <2> QED BY <2>1, <2>2
<1> HIDE DEF yielded
<1>5. /\ Filed(chosen, prio)
      /\ \A v \in Threads : chosen.state[v] = IF v = next THEN "RUNNING" ELSE yielded.state[v]
  <2>1. chosen = SetState(yielded, next, "RUNNING") /\ yielded.state[next] \in OnProcessor
        /\ "RUNNING" \in OnProcessor
    BY <1>3, <1>4 DEF OnProcessor
  <2> HIDE DEF chosen
  <2> QED BY <1>3, <1>4, <2>1, Renamed
<1> HIDE DEF chosen
<1>6. Filed(sch', prio) /\ \A v \in Threads : sch'.state[v] = chosen.state[v]
  BY <1>1, <1>5, RotatedFiled
<1>7. \A v \in Threads : sch'.state[v] = IF v = next THEN "RUNNING" ELSE
                                         IF v = cur /\ sch.state[v] = "RUNNING" THEN "READY"
                                         ELSE sch.state[v]
  BY <1>4, <1>5, <1>6
<1>8. \A v \in Threads : state[v] = "RUNNING" => v = cur
  BY DEF IInv, OneRunning
<1>9. TypeOK'
  <2>1. sch'.state = [v \in Threads |-> sch'.state[v]] /\ sch.state \in [Threads -> States]
    BY <1>6 DEF Filed, IInv, TypeOK
  <2>2. sch'.state \in [Threads -> States]
    BY <1>7, <2>1 DEF States
  <2>3. last' \in [Threads -> Nat]
    BY <1>1 DEF IInv, TypeOK
  <2> QED BY <1>1, <1>3, <1>6, <2>2, <2>3, FiledTypes DEF IInv, TypeOK
<1>10. PrioOK' /\ DefunctOK' /\ FreshOK'
  BY <1>1, <1>3, <1>7 DEF IInv, PrioOK, DefunctOK, FreshOK, InitPriority, OnProcessor
<1>11. OneRunning'
  BY <1>1, <1>3, <1>7, <1>8 DEF OneRunning
<1>12. LoopOK' /\ FreedOK'
  BY <1>1, <1>3, <1>7 DEF LoopOK, IInv, FreedOK, OnProcessor
<1>14. \A v \in Threads : /\ sch'.state[v] = "BLOCKED" <=> state[v] = "BLOCKED"
                          /\ sch'.state[v] = "DEFUNCT" <=> state[v] = "DEFUNCT"
                          /\ sch'.state[v] \in {"none", "freed"} <=> state[v] \in {"none", "freed"}
                          /\ state[v] \in OnProcessor => sch'.state[v] \in OnProcessor
  BY <1>3, <1>7 DEF OnProcessor
<1>13. JoinOK'
  BY <1>1, <1>2, <1>14, JoinKept DEF IInv, TypeOK
<1>15. IInv'
  BY <1>1, <1>6, <1>9, <1>10, <1>11, <1>12, <1>13 DEF IInv
<1>16. LifeCycle
  <2>1. \A v \in Threads : sch'.state[v] = state[v]
                           \/ (state[v] \in OnProcessor /\ sch'.state[v] \in OnProcessor)
    BY <1>3, <1>7 DEF OnProcessor
  <2> QED BY <1>1, <2>1 DEF LifeCycle
<1> QED BY <1>1, <1>14, <1>15, <1>16, PromptKept DEF Preserved, Undisturbed

(* tid_watch is cleared for a finished thread that is not the current one. *)
LEMMA KernelExitInv ==
  ASSUME IInv, NEW t \in Threads, KernelExit(t)
  PROVE  Preserved
<1>1. state[t] = "DEFUNCT" /\ exited' = [exited EXCEPT ![t] = TRUE]
  BY DEF KernelExit
<1>2. exited' \in [Threads -> BOOLEAN] /\ \A v \in Threads : exited[v] => exited'[v]
  BY <1>1 DEF IInv, TypeOK
<1>3. TypeOK' /\ Filed(sch', prio')
  BY <1>2 DEF KernelExit, IInv, TypeOK
<1>6. FreedOK'
  BY <1>1, <1>2 DEF KernelExit, IInv, TypeOK, FreedOK
<1>4. PrioOK' /\ DefunctOK' /\ OneRunning' /\ FreshOK' /\ LoopOK'
  BY <1>2
  DEF KernelExit, IInv, PrioOK, DefunctOK, OneRunning, FreshOK, LoopOK, InitPriority,
      Ageable, Aging, Ages
<1>5. JoinOK'
  BY JoinKept DEF KernelExit, IInv, TypeOK
<1>7. IInv'
  BY <1>3, <1>4, <1>5, <1>6 DEF IInv
<1> QED BY <1>7, PromptKept DEF KernelExit, Preserved, Undisturbed, LifeCycle

(* Time passes.                                                            *)
LEMMA TickInv ==
  ASSUME IInv, Tick
  PROVE  Preserved
<1>1. phase = "run" /\ now' \in Nat
  BY DEF Tick, IInv, TypeOK
<1>2. TypeOK' /\ Filed(sch', prio')
  BY <1>1 DEF Tick, IInv, TypeOK
<1>3. PrioOK' /\ DefunctOK' /\ OneRunning' /\ FreshOK' /\ LoopOK' /\ FreedOK'
  BY <1>1 DEF Tick, IInv, PrioOK, DefunctOK, OneRunning, FreshOK, LoopOK, FreedOK, InitPriority
<1>4. JoinOK'
  BY JoinKept DEF Tick, IInv, TypeOK
<1>5. IInv'
  BY <1>2, <1>3, <1>4 DEF IInv
<1> QED BY <1>5, PromptKept DEF Tick, Preserved, Undisturbed, LifeCycle

(* A step that changes nothing.                                            *)
LEMMA StutterInv ==
  ASSUME IInv, UNCHANGED vars
  PROVE  Preserved
<1>1. TypeOK' /\ Filed(sch', prio')
  BY DEF vars, IInv, TypeOK
<1>2. PrioOK' /\ DefunctOK' /\ OneRunning' /\ FreshOK' /\ FreedOK'
  BY DEF vars, IInv, PrioOK, DefunctOK, OneRunning, FreshOK, FreedOK, InitPriority
<1>3. LoopOK'
  BY DEF vars, IInv, LoopOK, Ageable, Aging, Ages, InitPriority
<1>4. JoinOK'
  BY JoinKept DEF vars, IInv, TypeOK
<1>5. IInv'
  BY <1>1, <1>2, <1>3, <1>4 DEF IInv
<1> QED BY <1>5, PromptKept DEF vars, Preserved, Undisturbed, LifeCycle
-----------------------------------------------------------------------------
(* Every step keeps the invariant.                                         *)
LEMMA NextInv == IInv /\ [Next]_vars => Preserved
<1> SUFFICES ASSUME IInv, [Next]_vars PROVE Preserved
  OBVIOUS
<1>1. ASSUME NEW t \in Threads, UserCall(t) PROVE Preserved
  <2>1. ASSUME NEW u \in Threads,
               Create(t, u) \/ JoinDefunct(t, u) \/ JoinWait(t, u) \/ Detach(t, u)
        PROVE  Preserved
    BY <2>1, CreateInv, JoinDefunctInv, JoinWaitInv, DetachInv
  <2>2. ASSUME NEW d \in 0 .. MaxTime, Sleep(t, d) PROVE Preserved
    BY <2>2, SleepInv, ProgramAssumption
  <2>3. ASSUME NEW p \in Highest .. Lowest, SetPrio(t, p) PROVE Preserved
    BY <2>3, SetPrioInv
  <2>4. CASE Yield(t) \/ Exit(t)
    BY <2>4, YieldInv, ExitInv
  <2> QED BY <1>1, <2>1, <2>2, <2>3, <2>4 DEF UserCall
<1>2. ASSUME NEW t \in Threads, Reap(t) \/ KernelExit(t) PROVE Preserved
  BY <1>2, ReapInv, KernelExitInv
<1>3. CASE UNCHANGED vars
  BY <1>3, StutterInv
<1>4. CASE Dispatcher
  <2>1. CASE Spin
    BY <2>1, <1>3 DEF Spin
  <2> QED BY <1>4, <2>1, WakeSleeperInv, StartAgingInv, AgeLevelInv, StartReapingInv,
             ReapDetachedInv, SelectInv DEF Dispatcher
<1>5. CASE Tick
  BY <1>5, TickInv
<1> QED BY <1>1, <1>2, <1>3, <1>4, <1>5 DEF Next

(* The inductive invariant holds in every execution, whatever the program: *)
(* any number of threads and priorities, any calls and any ageing.         *)
THEOREM Invariance == Spec => [](IInv /\ Prompt)
<1>1. Init => IInv /\ Prompt
  BY InitInv
<1>2. (IInv /\ Prompt) /\ [Next]_vars => (IInv /\ Prompt)'
  BY NextInv DEF Preserved
<1> QED BY <1>1, <1>2, PTL DEF Spec

(* Every variable keeps its type; the priorities that index the tables of  *)
(* pthipth_bq.c stay in range.                                             *)
THEOREM TypesKept == Spec => []TypeOK
<1>1. IInv => TypeOK
  BY DEF IInv
<1> QED BY <1>1, Invariance, PTL

(* What OneList says of the lists follows from the invariant.              *)
LEMMA InvOneList == IInv => OneList
<1> SUFFICES ASSUME IInv PROVE OneList
  OBVIOUS
<1>1. Filed(sch, prio)
  BY DEF IInv
<1>2. ASSUME NEW t \in Threads
      PROVE  /\ Queued(sch.bq, t) <=> state[t] \in {"READY", "RUNNING"}
             /\ Queued(sch.bq, t) => Level(sch.bq, t) = prio[t]
  BY <1>1, QueuedIs DEF OnProcessor
<1>3. ASSUME NEW t \in Threads
      PROVE  /\ Contains(sch.blocked, t) <=> state[t] = "BLOCKED"
             /\ Contains(sch.sleeping, t) <=> state[t] = "SLEEPING"
             /\ Contains(defunct, t) => state[t] = "DEFUNCT" /\ detached[t]
  BY <1>1 DEF Filed, IInv, DefunctOK
<1>4. /\ NoDuplicates(sch.bq) /\ BitsSound(sch.bq) /\ IdlePriority \in sch.bq.bits
      /\ Once(sch.blocked) /\ Once(sch.sleeping) /\ Once(defunct)
  BY <1>1 DEF Filed, Good, IInv, DefunctOK
<1> QED BY <1>2, <1>3, <1>4 DEF IInv, OneList

(* A TCB is on the list of its state, once, and in the bucket of its       *)
(* priority.                                                               *)
THEOREM EveryTcbOnItsList == Spec => []OneList
BY InvOneList, Invariance, PTL

(* At most one thread is RUNNING, the current one.                         *)
THEOREM OnlyCurrentRuns == Spec => []OneRunning
<1>1. IInv => OneRunning
  BY DEF IInv
<1> QED BY <1>1, Invariance, PTL

(* So does that nothing points to a freed TCB.                             *)
LEMMA InvNoDangling == IInv => NoDangling
<1> SUFFICES ASSUME IInv, NEW u \in Threads, state[u] = "freed"
             PROVE  /\ exited[u] /\ cur # u
                    /\ ~Queued(sch.bq, u) /\ ~Contains(sch.blocked, u) /\ ~Contains(sch.sleeping, u)
                    /\ ~Contains(defunct, u) /\ ~Contains(todo, u)
                    /\ \A t \in Threads :
                         /\ at[t] = "reaping" => target[t] # u
                         /\ joiner[t] = u => state[t] \in {"DEFUNCT", "freed"}
  BY DEF NoDangling
<1>1. Filed(sch, prio)
  BY DEF IInv
<1>2. ~Queued(sch.bq, u)
  BY <1>1, QueuedIs DEF OnProcessor
<1>3. ~Contains(sch.blocked, u) /\ ~Contains(sch.sleeping, u) /\ ~Contains(defunct, u)
  BY <1>1 DEF Filed, IInv, DefunctOK
<1>4. ~Contains(todo, u)
  <2>1. phase \in {"run", "sleepers", "aging", "spin", "reap"}
    BY DEF IInv, TypeOK
  <2>2. CASE phase \in {"run", "aging", "spin"}
    BY <2>2 DEF IInv, LoopOK, Contains
  <2>3. CASE phase \in {"sleepers", "reap"}
    BY <1>3, <2>3 DEF IInv, LoopOK
  <2> QED BY <2>1, <2>2, <2>3
<1>5. ASSUME NEW t \in Threads, at[t] = "reaping" PROVE target[t] # u
  BY <1>5 DEF IInv, JoinOK, Claimed
<1>6. ASSUME NEW t \in Threads, joiner[t] = u PROVE state[t] \in {"DEFUNCT", "freed"}
  BY <1>6, ThreadAssumption DEF IInv, FreshOK, JoinOK, JoinerWaits
<1> QED BY <1>2, <1>3, <1>4, <1>5, <1>6 DEF IInv, FreedOK

(* Nothing that is still used points to a freed TCB.                       *)
THEOREM FreedIsGone == Spec => []NoDangling
BY InvNoDangling, Invariance, PTL

(* And with Prompt, that joins are paired.                                 *)
LEMMA InvJoins == IInv /\ Prompt => JoinsPaired
<1> SUFFICES ASSUME IInv, Prompt, NEW t \in Threads, at[t] = "reaping"
             PROVE  IF state[t] = "BLOCKED"
                    THEN \A u \in Threads :
                           joiner[u] = t /\ HasTCB(u) /\ state[u] # "DEFUNCT" <=> u = target[t]
                    ELSE state[target[t]] = "DEFUNCT"
  BY DEF JoinsPaired
<1>1. Claimed(t)
  BY DEF IInv, JoinOK
<1>2. ASSUME NEW u \in Threads, joiner[u] = t, HasTCB(u), state[u] # "DEFUNCT"
      PROVE  u = target[t]
  BY <1>2, ThreadAssumption DEF IInv, JoinOK, JoinerWaits
<1> QED BY <1>1, <1>2 DEF Claimed, Prompt

(* A joiner waits for exactly the live thread that wakes it, and returns   *)
(* when that thread has finished.                                          *)
THEOREM JoinsArePaired == Spec => []JoinsPaired
BY InvJoins, Invariance, PTL

(* A thread changes its state in the order of its life only: nobody is     *)
(* made READY while it runs or after its exit, a RUNNING thread leaves the *)
(* processor by its own call, and a TCB is freed once.                     *)
THEOREM LivesInOrder == Spec => [][LifeCycle]_vars
<1>1. IInv /\ [Next]_vars => [LifeCycle]_vars
  BY NextInv DEF Preserved
<1> QED BY <1>1, Invariance, PTL DEF Spec

-----------------------------------------------------------------------------
(* Ageing raises a priority by what the thread has waited and no more, for *)
(* any factors and intervals, however often the thread is examined and     *)
(* dispatched in between.                                                  *)

(* Threads whose old_priority is changed by ageing alone.                  *)
NeverSets(t) == \A c \in Program[t] : c.op # "set_prio"

(* What t may have gained by the time x.                                   *)
Gain(t, x) == (x \div AgingTime[t]) * AgingFactor[t]

(* Without the history: the gain since the start, which is all that a      *)
(* thread that never sets its priority has, was made by last_selected.  The*)
(* time since then is still to be paid for.                                *)
AgeOK ==
  \A t \in Threads :
    /\ last[t] <= now /\ old[t] >= Highest
    /\ NeverSets(t) =>
         old[t] <= InitPriority(t) /\ InitPriority(t) - old[t] <= Gain(t, last[t])

(* With the history: AgeEarned is not inductive for the same reason.  The  *)
(* current thread and those not yet created wait for nothing; a thread that*)
(* waits was left with a last_selected no older than its wait, and has     *)
(* gained by last_selected what it has gained.                             *)
WaitOK ==
  /\ ran \in [Threads -> Nat] /\ basis \in [Threads -> Nat]
  /\ \A t \in Threads :
       IF t = cur \/ state[t] = "none"
       THEN ran[t] = now /\ basis[t] = old[t]
       ELSE ran[t] <= last[t] /\ basis[t] - old[t] <= Gain(t, last[t] - ran[t])

-----------------------------------------------------------------------------
(* Division of natural numbers: its definition, and that it is monotonic   *)
(* and superadditive.                                                      *)
LEMMA DivIs ==
  ASSUME NEW a \in Nat, NEW k \in Nat \ {0}
  PROVE  a \div k \in Nat /\ k * (a \div k) <= a /\ a < k * (a \div k) + k
OBVIOUS

(* Multiplication by a natural number is monotonic.                        *)
LEMMA Scale ==
  ASSUME NEW x \in Int, NEW y \in Int, NEW k \in Nat, x <= y
  PROVE  x * k <= y * k /\ k * x <= k * y
OBVIOUS

(* Two quotients add up to no more than the quotient of the sum.           *)
LEMMA DivAdd ==
  ASSUME NEW a \in Nat, NEW b \in Nat, NEW k \in Nat \ {0}
  PROVE  (a \div k) + (b \div k) <= (a + b) \div k
<1> DEFINE p == a \div k
           q == b \div k
           r == (a + b) \div k
<1>1. p \in Nat /\ k * p <= a
  BY DivIs
<1>2. q \in Nat /\ k * q <= b
  BY DivIs
<1>3. r \in Nat /\ a + b < k * r + k
  BY DivIs, a + b \in Nat
<1> HIDE DEF p, q, r
<1>4. SUFFICES ASSUME p + q > r PROVE FALSE
  BY <1>1, <1>2, <1>3 DEF p, q, r
<1>5. k * (r + 1) <= k * (p + q)
  BY <1>1, <1>2, <1>3, <1>4, Scale, r + 1 <= p + q
<1>6. k * (r + 1) = k * r + k /\ k * (p + q) = k * p + k * q
  BY <1>1, <1>2, <1>3
<1>7. k * r \in Int /\ k * p \in Int /\ k * q \in Int
  BY <1>1, <1>2, <1>3
<1> QED BY <1>1, <1>2, <1>3, <1>5, <1>6, <1>7

(* More time never earns less, and two waits earn no more than one that is *)
(* as long as both.                                                        *)
LEMMA GainAdds ==
  ASSUME NEW t \in Threads, NEW x \in Nat, NEW y \in Nat
  PROVE  /\ Gain(t, x) \in Nat
         /\ Gain(t, x) + Gain(t, y) <= Gain(t, x + y)
         /\ x <= y => Gain(t, x) <= Gain(t, y)
<1> DEFINE k == AgingTime[t]
           f == AgingFactor[t]
           d(z) == z \div k
<1>1. k \in Nat \ {0} /\ f \in Nat
  BY ProgramAssumption
<1>2. \A z \in Nat : d(z) \in Nat
  BY <1>1, DivIs
<1>3. ASSUME NEW z \in Nat, NEW w \in Nat PROVE d(z) + d(w) <= d(z + w)
  BY <1>1, DivAdd
<1>4. \A z \in Nat : Gain(t, z) = d(z) * f
  BY DEF Gain
<1> HIDE DEF d, k, f
<1>5. ASSUME NEW z \in Nat PROVE Gain(t, z) \in Nat
  BY <1>1, <1>2, <1>4
<1>6. ASSUME NEW z \in Nat, NEW w \in Nat PROVE Gain(t, z) + Gain(t, w) <= Gain(t, z + w)
  <2>1. d(z) \in Nat /\ d(w) \in Nat /\ d(z + w) \in Nat /\ z + w \in Nat
    BY <1>2
  <2>2. (d(z) + d(w)) * f <= d(z + w) * f
    BY <1>1, <1>3, <2>1, Scale
  <2>3. (d(z) + d(w)) * f = d(z) * f + d(w) * f
    BY <1>1, <2>1
  <2> QED BY <1>4, <2>1, <2>2, <2>3
<1>7. x <= y => Gain(t, x) <= Gain(t, y)
  <2> SUFFICES ASSUME x <= y PROVE Gain(t, x) <= Gain(t, y)
    OBVIOUS
  <2>1. y - x \in Nat /\ x + (y - x) = y
    OBVIOUS
  <2>2. Gain(t, x) + Gain(t, y - x) <= Gain(t, y)
    BY <1>6, <2>1
  <2> QED BY <1>5, <2>1, <2>2
<1> QED BY <1>5, <1>6, <1>7

-----------------------------------------------------------------------------
(* The numbers of the invariant are numbers.                               *)
LEMMA AgeTypes ==
  ASSUME IInv, NEW t \in Threads
  PROVE  /\ old \in [Threads -> Priorities] /\ last \in [Threads -> Nat] /\ now \in Nat
         /\ old[t] \in Nat /\ last[t] \in Nat /\ Highest \in Nat /\ InitPriority(t) \in Nat
<1>1. old \in [Threads -> Priorities] /\ last \in [Threads -> Nat] /\ now \in Nat
  BY DEF IInv, TypeOK
<1>2. \A p \in Priorities : p \in Nat
  BY BucketAssumption DEF Priorities
<1> QED BY <1>1, <1>2, PriorityRange, PriorityAssumption

(* At the start nothing was gained.                                        *)
LEMMA InitAge == Init => AgeOK
<1> SUFFICES ASSUME Init, NEW t \in Threads
             PROVE  /\ last[t] <= now /\ old[t] >= Highest /\ old[t] <= InitPriority(t)
                    /\ InitPriority(t) - old[t] <= Gain(t, last[t])
  BY DEF AgeOK
<1>1. last[t] = 0 /\ now = 0 /\ old[t] = InitPriority(t)
  BY DEF Init
<1>2. /\ Highest \in Nat /\ Lowest \in Nat /\ MainPriority \in Nat /\ IdlePriority \in Nat
      /\ Highest <= Lowest /\ Lowest < MainPriority /\ MainPriority < IdlePriority
      /\ TaskPriority[t] \in Int
  BY PriorityAssumption, BucketAssumption
<1>3. InitPriority(t) \in Nat /\ InitPriority(t) >= Highest
  BY <1>2 DEF InitPriority
<1>4. Gain(t, 0) \in Nat
  BY GainAdds
<1> QED BY <1>1, <1>3, <1>4

(* Time that passes, and a dispatch that sets last_selected, only widen    *)
(* the bound; pthipth_set_prio is made by threads that are not bounded.    *)
LEMMA Later ==
  ASSUME IInv, IInv', AgeOK,
         \A t \in Threads : old'[t] >= Highest /\ (NeverSets(t) => old'[t] = old[t]),
         \A t \in Threads : last[t] <= last'[t] /\ last'[t] <= now'
  PROVE  AgeOK'
<1> SUFFICES ASSUME NEW t \in Threads
             PROVE  /\ last'[t] <= now' /\ old'[t] >= Highest
                    /\ NeverSets(t) =>
                         /\ old'[t] <= InitPriority(t)
                         /\ InitPriority(t) - old'[t] <= Gain(t, last'[t])
  BY DEF AgeOK, NeverSets, Gain, InitPriority
<1>1. last[t] \in Nat /\ last'[t] \in Nat /\ last[t] <= last'[t]
  BY AgeTypes DEF IInv, TypeOK
<1>2. Gain(t, last[t]) <= Gain(t, last'[t]) /\ Gain(t, last[t]) \in Nat /\ Gain(t, last'[t]) \in Nat
  BY <1>1, GainAdds
<1>3. CASE NeverSets(t)
  BY <1>2, <1>3, AgeTypes DEF AgeOK
<1> QED BY <1>3

(* The node that ageing evaluates is on the processor and not the idle     *)
(* thread, and it ages.                                                    *)
LEMMA AgedIs ==
  ASSUME IInv, AgeLevel
  PROVE  LET t == sch.bq.bucket[level][Min(Aging(level))] IN
         t \in Threads \ {IdleThread} /\ state[t] \in OnProcessor /\ AgingFactor[t] # 0
<1> DEFINE b == sch.bq.bucket[level]
           i == Min(Aging(level))
<1>1. Ageable(level) /\ level \in Priorities
  <2>1. phase = "aging" /\ level <= IdlePriority /\ level \in 0 .. IdlePriority + 1
    BY DEF AgeLevel, IInv, TypeOK
  <2>2. level \in Priorities /\ level # IdlePriority + 1
    BY <2>1, BucketAssumption DEF Priorities
  <2> QED BY <2>1, <2>2 DEF IInv, LoopOK
<1>2. b \in Seq(Threads)
  BY <1>1, FiledTypes DEF IInv
<1>3. i \in Aging(level)
  <2>1. Aging(level) \in SUBSET Nat /\ Aging(level) # {}
    BY <1>1, <1>2 DEF Aging, Ageable
  <2> QED BY <2>1, MinOf
<1>4. i \in DOMAIN b /\ AgingFactor[b[i]] # 0
  BY <1>3 DEF Aging, Ages
<1> HIDE DEF i
<1>5. b[i] \in Threads /\ Contains(b, b[i])
  BY <1>2, <1>4 DEF Contains
<1>6. state[b[i]] \in OnProcessor /\ prio[b[i]] = level
  BY <1>1, <1>5 DEF IInv, Filed
<1>7. level # IdlePriority
  <2> SUFFICES ASSUME level = IdlePriority PROVE FALSE
    OBVIOUS
  <2>1. b = <<IdleThread>>
    BY DEF IInv, Filed, Good
  <2>2. Head(b) = IdleThread
    BY <2>1
  <2> QED BY <1>1, <2>2, PriorityRange DEF Ageable
<1>8. b[i] # IdleThread
  BY <1>6, <1>7, IdleIs DEF IInv
<1> QED BY <1>4, <1>5, <1>6, <1>8 DEF i

(* One evaluation: the gain since last_selected is added to what had been  *)
(* gained by then, and last_selected moves to now.                         *)
LEMMA AgeAge ==
  ASSUME IInv, IInv', AgeOK, AgeLevel
  PROVE  AgeOK'
<1> DEFINE t == sch.bq.bucket[level][Min(Aging(level))]
           p == AgedPriority(t)
<1>1. t \in Threads /\ Age(t) /\ now' = now
  BY AgedIs DEF AgeLevel
<1> HIDE DEF t
<1>2. CASE ~(p < old[t])
  <2>1. old' = old /\ last' = last
    BY <1>1, <1>2 DEF Age
  <2> QED BY <1>1, <2>1, AgeTypes, Later DEF AgeOK
<1>3. CASE p < old[t]
  <2>1. old' = [old EXCEPT ![t] = p] /\ last' = [last EXCEPT ![t] = now]
    BY <1>1, <1>3 DEF Age
  <2>2. /\ old \in [Threads -> Priorities] /\ last \in [Threads -> Nat] /\ now \in Nat
        /\ old[t] \in Nat /\ last[t] \in Nat /\ Highest \in Nat /\ InitPriority(t) \in Nat
    BY <1>1, AgeTypes
  <2>3. last[t] <= now /\ now - last[t] \in Nat
    BY <1>1, <2>2 DEF AgeOK
  <2> DEFINE g == Gain(t, now - last[t])
  <2>4. p = IF old[t] - g < Highest THEN Highest ELSE old[t] - g
    BY DEF AgedPriority, Gain
  <2>5. g \in Nat /\ Gain(t, last[t]) \in Nat /\ Gain(t, now) \in Nat
    BY <1>1, <2>2, <2>3, GainAdds
  <2>6. Gain(t, last[t]) + g <= Gain(t, now)
    <3>1. last[t] + (now - last[t]) = now
      BY <2>2
    <3> QED BY <1>1, <2>2, <2>3, <3>1, GainAdds
  <2> HIDE DEF g, p
  <2>7. p >= Highest /\ old[t] - p <= g /\ p \in Int
    BY <2>2, <2>4, <2>5
  <2>8. NeverSets(t) => p <= InitPriority(t) /\ InitPriority(t) - p <= Gain(t, now)
    <3>1. NeverSets(t) => /\ old[t] <= InitPriority(t)
                          /\ InitPriority(t) - old[t] <= Gain(t, last[t])
      BY <1>1 DEF AgeOK
    <3> QED BY <1>3, <2>2, <2>5, <2>6, <2>7, <3>1
  <2>9. ASSUME NEW v \in Threads
        PROVE  /\ last'[v] <= now' /\ old'[v] >= Highest
               /\ NeverSets(v) =>
                    /\ old'[v] <= InitPriority(v)
                    /\ InitPriority(v) - old'[v] <= Gain(v, last'[v])
    <3>1. CASE v = t
      BY <1>1, <2>1, <2>2, <2>7, <2>8, <3>1
    <3>2. CASE v # t
      BY <1>1, <2>1, <2>2, <3>2 DEF AgeOK
    <3> QED BY <3>1, <3>2
  <2> QED BY <2>9 DEF AgeOK, NeverSets, Gain, InitPriority
<1> QED BY <1>2, <1>3

(* Every other step leaves old_priority and last_selected alone, or sets   *)
(* last_selected to the time.                                              *)
LEMMA NextAge == IInv /\ AgeOK /\ [Next]_vars => AgeOK'
<1> SUFFICES ASSUME IInv, AgeOK, [Next]_vars PROVE AgeOK'
  OBVIOUS
<1>1. IInv'
  BY NextInv DEF Preserved
<1>2. /\ old \in [Threads -> Priorities] /\ last \in [Threads -> Nat] /\ now \in Nat
      /\ \A t \in Threads : last[t] \in Nat /\ last[t] <= now /\ old[t] >= Highest
  BY DEF IInv, TypeOK, AgeOK
<1>3. ASSUME UNCHANGED <<old, last, now>> PROVE AgeOK'
  BY <1>1, <1>2, <1>3, Later
<1>4. ASSUME NEW t \in Threads, NEW u \in Threads, Create(t, u) PROVE AgeOK'
  <2>1. UNCHANGED <<old, now>> /\ last' = [last EXCEPT ![u] = now]
    BY <1>4 DEF Create
  <2> QED BY <1>1, <1>2, <2>1, Later
<1>5. ASSUME NEW t \in Threads, NEW p \in Highest .. Lowest, SetPrio(t, p) PROVE AgeOK'
  <2>1. /\ UNCHANGED <<last, now>> /\ old' = [old EXCEPT ![t] = p]
        /\ [op |-> "set_prio", arg |-> p] \in Program[t]
    BY <1>5 DEF SetPrio, Calls
  <2>2. ~NeverSets(t)
    BY <2>1 DEF NeverSets
  <2>3. \A v \in Threads : old'[v] >= Highest /\ (NeverSets(v) => old'[v] = old[v])
    <3>1. p >= Highest
      BY PriorityAssumption
    <3> QED BY <1>2, <2>1, <2>2, <3>1
  <2> QED BY <1>1, <1>2, <2>1, <2>3, Later
<1>6. ASSUME NEW t \in Threads, NEW u \in Threads,
             JoinDefunct(t, u) \/ JoinWait(t, u) \/ Detach(t, u)
      PROVE  AgeOK'
  BY <1>3, <1>6 DEF JoinDefunct, JoinWait, Detach, ageVars
<1>7. ASSUME NEW t \in Threads, NEW d \in Nat, Sleep(t, d) PROVE AgeOK'
  BY <1>3, <1>7 DEF Sleep, ageVars
<1>8. ASSUME NEW t \in Threads, Yield(t) \/ Exit(t) \/ Reap(t) \/ KernelExit(t) PROVE AgeOK'
  BY <1>3, <1>8 DEF Yield, Exit, Reap, KernelExit, ageVars
<1>9. CASE WakeSleeper \/ StartAging \/ StartReaping \/ ReapDetached
  BY <1>3, <1>9 DEF WakeSleeper, StartAging, StartReaping, ReapDetached, ageVars
<1>10. CASE Spin \/ UNCHANGED vars
  BY <1>3, <1>10 DEF Spin, vars
<1>11. CASE AgeLevel
  BY <1>1, <1>11, AgeAge
<1>12. CASE Select
  <2>1. PICK next : last' = [last EXCEPT ![cur] = now, ![next] = now] /\ UNCHANGED <<old, now>>
    BY <1>12 DEF Select
  <2>2. \A v \in Threads : last'[v] \in {last[v], now}
    BY <1>2, <2>1
  <2>3. \A v \in Threads : last[v] <= last'[v] /\ last'[v] <= now'
    BY <1>2, <2>1, <2>2
  <2>4. \A v \in Threads : old'[v] >= Highest /\ old'[v] = old[v]
    BY <1>2, <2>1
  <2> QED BY <1>1, <2>3, <2>4, Later
<1>13. CASE Tick
  BY <1>1, <1>2, <1>13, Later DEF Tick, ageVars
<1>14. \A d \in 0 .. MaxTime : d \in Nat
  BY ProgramAssumption
<1> QED
  BY <1>4, <1>5, <1>6, <1>7, <1>8, <1>9, <1>10, <1>11, <1>12, <1>13, <1>14
  DEF Next, UserCall, Dispatcher

(* At the start nobody waits.                                              *)
LEMMA InitWait == Init /\ AgeStart => WaitOK
<1> SUFFICES ASSUME Init, AgeStart PROVE WaitOK
  OBVIOUS
<1>1. now = 0 /\ old = [t \in Threads |-> InitPriority(t)] /\ last = [t \in Threads |-> 0]
  BY DEF Init
<1>2. \A t \in Threads : InitPriority(t) \in Nat
  BY PriorityRange, BucketAssumption DEF Priorities
<1>3. \A t \in Threads : Gain(t, 0) \in Nat
  BY GainAdds
<1> QED BY <1>1, <1>2, <1>3 DEF AgeStart, WaitOK

(* A thread that waits after a step in which its old_priority stays: what  *)
(* it has gained is paid for by last_selected still, and if its wait begins*)
(* with the step, last_selected has been set.                              *)
LEMMA WaitsOn ==
  ASSUME IInv, IInv', AgeOK', WaitOK, Recorded,
         NEW t \in Threads, t # cur', state'[t] # "none",
         last[t] <= last'[t], old'[t] = old[t],
         t = cur \/ state[t] = "none" => last'[t] >= now
  PROVE  ran'[t] <= last'[t] /\ basis'[t] - old'[t] <= Gain(t, last'[t] - ran'[t])
<1>1. ran'[t] = ran[t] /\ basis'[t] = basis[t]
  BY DEF Recorded
<1>2. ran[t] \in Nat /\ basis[t] \in Nat /\ last[t] \in Nat /\ last'[t] \in Nat /\ now \in Nat
      /\ old[t] \in Nat
  BY AgeTypes DEF WaitOK, IInv, TypeOK
<1>3. CASE t = cur \/ state[t] = "none"
  <2>1. ran[t] = now /\ basis[t] = old[t]
    BY <1>3 DEF WaitOK
  <2>2. last'[t] - ran[t] \in Nat
    BY <1>2, <1>3, <2>1
  <2>3. Gain(t, last'[t] - ran[t]) \in Nat
    BY <2>2, GainAdds
  <2> QED BY <1>1, <1>2, <2>1, <2>2, <2>3
<1>4. CASE ~(t = cur \/ state[t] = "none")
  <2>1. ran[t] <= last[t] /\ basis[t] - old[t] <= Gain(t, last[t] - ran[t])
    BY <1>4 DEF WaitOK
  <2>2. /\ last[t] - ran[t] \in Nat /\ last'[t] - ran[t] \in Nat
        /\ last[t] - ran[t] <= last'[t] - ran[t]
    BY <1>2, <2>1
  <2> DEFINE x == last[t] - ran[t]
             y == last'[t] - ran[t]
  <2>3. x \in Nat /\ y \in Nat /\ x <= y
    BY <2>2
  <2>4. basis[t] - old[t] <= Gain(t, x)
    BY <2>1
  <2> HIDE DEF x, y
  <2>5. Gain(t, x) <= Gain(t, y) /\ Gain(t, x) \in Nat /\ Gain(t, y) \in Nat
    BY <2>3, GainAdds
  <2>6. basis[t] - old[t] <= Gain(t, y)
    BY <1>2, <2>4, <2>5
  <2>7. ran[t] <= last'[t]
    BY <1>2, <2>1
  <2> QED BY <1>1, <2>6, <2>7 DEF y
<1> QED BY <1>3, <1>4

(* So the history is right after a step if it is for each thread that waits*)
(* on; for the others Recorded sets it.                                    *)
LEMMA WaitNext ==
  ASSUME IInv', WaitOK, Recorded, IInv,
         \A t \in Threads : t # cur' /\ state'[t] # "none" =>
           ran'[t] <= last'[t] /\ basis'[t] - old'[t] <= Gain(t, last'[t] - ran'[t])
  PROVE  WaitOK'
<1>1. /\ old' \in [Threads -> Nat] /\ now' \in Nat
  <2>1. old' \in [Threads -> Priorities] /\ now' \in Nat
    BY DEF IInv, TypeOK
  <2>2. \A p \in Priorities : p \in Nat
    BY BucketAssumption DEF Priorities
  <2> QED BY <2>1, <2>2
<1>2. /\ ran' \in [Threads -> Nat] /\ basis' \in [Threads -> Nat]
  BY <1>1 DEF Recorded, WaitOK
<1>3. ASSUME NEW t \in Threads
      PROVE  IF t = cur' \/ state'[t] = "none"
             THEN ran'[t] = now' /\ basis'[t] = old'[t]
             ELSE ran'[t] <= last'[t] /\ basis'[t] - old'[t] <= Gain(t, last'[t] - ran'[t])
  BY DEF Recorded
<1> QED BY <1>2, <1>3 DEF WaitOK, Gain

(* The node that ageing raises has waited from ran to last_selected for    *)
(* what it had gained, and from last_selected to now for what it gains.    *)
LEMMA WaitAge ==
  ASSUME IInv, IInv', AgeOK, AgeOK', WaitOK, Recorded, AgeLevel
  PROVE  WaitOK'
<1> DEFINE t == sch.bq.bucket[level][Min(Aging(level))]
           p == AgedPriority(t)
<1>1. t \in Threads /\ Age(t) /\ now' = now /\ cur' = cur /\ state[t] # "none"
  BY AgedIs DEF AgeLevel, OnProcessor
<1> HIDE DEF t
<1>2. /\ old \in [Threads -> Priorities] /\ last \in [Threads -> Nat] /\ now \in Nat
      /\ \A v \in Threads : last[v] \in Nat /\ last[v] <= now
  BY DEF AgeOK, IInv, TypeOK
<1>3. \A v \in Threads : state[v] = "none" => state'[v] = "none"
  BY NextInv DEF Preserved, LifeCycle, AgeLevel, Next, Dispatcher
<1>4. ASSUME NEW v \in Threads, v # cur', state'[v] # "none", old'[v] = old[v], last'[v] = last[v]
      PROVE  ran'[v] <= last'[v] /\ basis'[v] - old'[v] <= Gain(v, last'[v] - ran'[v])
  BY <1>1, <1>2, <1>3, <1>4, WaitsOn
<1>5. CASE ~(p < old[t])
  <2>1. old' = old /\ last' = last
    BY <1>1, <1>5 DEF Age
  <2> QED BY <1>4, <2>1, WaitNext
<1>6. CASE p < old[t]
  <2>1. old' = [old EXCEPT ![t] = p] /\ last' = [last EXCEPT ![t] = now]
    BY <1>1, <1>6 DEF Age
  <2>2. ASSUME t # cur' PROVE ran'[t] <= now /\ basis'[t] - p <= Gain(t, now - ran'[t])
    <3>1. ran'[t] = ran[t] /\ basis'[t] = basis[t]
      <4>1. state'[t] # "none"
        BY <1>1, NextInv DEF Preserved, LifeCycle, Next, Dispatcher, OnProcessor
      <4> QED BY <1>1, <2>2, <4>1 DEF Recorded
    <3>2. ran[t] <= last[t] /\ basis[t] - old[t] <= Gain(t, last[t] - ran[t])
      BY <1>1, <2>2 DEF WaitOK
    <3>3. ran[t] \in Nat /\ basis[t] \in Nat /\ last[t] \in Nat /\ old[t] \in Nat /\ last[t] <= now
          /\ Highest \in Nat
      BY <1>1, <1>2, AgeTypes DEF WaitOK
    <3> DEFINE x == last[t] - ran[t]
               y == now - last[t]
               g == Gain(t, y)
    <3>4. x \in Nat /\ y \in Nat /\ x + y = now - ran[t] /\ ran[t] <= now
      BY <1>2, <3>2, <3>3
    <3>5. p = IF old[t] - g < Highest THEN Highest ELSE old[t] - g
      BY DEF AgedPriority, Gain
    <3>6. basis[t] - old[t] <= Gain(t, x)
      BY <3>2
    <3> HIDE DEF x, y, p
    <3>7. g \in Nat /\ Gain(t, x) \in Nat /\ Gain(t, x + y) \in Nat /\ Gain(t, x) + g <= Gain(t, x + y)
      <4>1. x + y \in Nat
        BY <3>4
      <4> QED BY <1>1, <3>4, <4>1, GainAdds
    <3> HIDE DEF g
    <3>8. p \in Int /\ old[t] - p <= g
      BY <3>3, <3>5, <3>7
    <3>9. basis[t] - p <= Gain(t, x + y)
      BY <3>3, <3>6, <3>7, <3>8
    <3> QED BY <3>1, <3>4, <3>9
  <2>3. ASSUME NEW v \in Threads, v # cur', state'[v] # "none"
        PROVE  ran'[v] <= last'[v] /\ basis'[v] - old'[v] <= Gain(v, last'[v] - ran'[v])
    <3>1. CASE v = t
      <4>1. last'[t] = now /\ old'[t] = p
        BY <1>1, <1>2, <2>1
      <4> QED BY <2>2, <2>3, <3>1, <4>1
    <3>2. CASE v # t
      BY <1>2, <1>4, <2>1, <2>3, <3>2
    <3> QED BY <3>1, <3>2
  <2> QED BY <2>3, WaitNext
<1> QED BY <1>5, <1>6

(* A step that creates nobody, dispatches nobody and leaves old_priority   *)
(* and last_selected of the threads that wait alone.                       *)
LEMMA WaitQuiet ==
  ASSUME IInv, IInv', AgeOK', WaitOK, Recorded, cur' = cur,
         \A t \in Threads : state[t] = "none" => state'[t] = "none",
         \A t \in Threads : t # cur => old'[t] = old[t] /\ last'[t] = last[t]
  PROVE  WaitOK'
<1>1. ASSUME NEW t \in Threads, t # cur', state'[t] # "none"
      PROVE  ran'[t] <= last'[t] /\ basis'[t] - old'[t] <= Gain(t, last'[t] - ran'[t])
  <2>1. t # cur /\ state[t] # "none" /\ old'[t] = old[t] /\ last'[t] = last[t]
    BY <1>1
  <2>2. last[t] <= last'[t]
    BY <2>1 DEF IInv, TypeOK
  <2> QED BY <1>1, <2>1, <2>2, WaitsOn
<1> QED BY <1>1, WaitNext

(* Create and Select begin waits and set last_selected, set_prio concerns  *)
(* the current thread, and every other step but AgeLevel is quiet.         *)
LEMMA NextWait == IInv /\ AgeOK /\ WaitOK /\ Next /\ Recorded => WaitOK'
<1> SUFFICES ASSUME IInv, AgeOK, WaitOK, Next, Recorded PROVE WaitOK'
  OBVIOUS
<1>1. IInv' /\ AgeOK' /\ LifeCycle
  BY NextInv, NextAge DEF Preserved
<1>2. /\ old \in [Threads -> Priorities] /\ last \in [Threads -> Nat] /\ now \in Nat
      /\ \A t \in Threads : last[t] \in Nat /\ last[t] <= now
  BY DEF IInv, TypeOK, AgeOK
<1>3. ASSUME UNCHANGED <<old, last, cur>>, \A t \in Threads : state[t] = "none" => state'[t] = "none"
      PROVE  WaitOK'
  BY <1>1, <1>3, WaitQuiet
<1>4. ASSUME UNCHANGED <<old, last, cur>>, phase # "run" \/ phase' # "run"
      PROVE  WaitOK'
  <2>1. \A t \in Threads : state[t] = "none" => state'[t] = "none"
    BY <1>1, <1>4 DEF LifeCycle, OnProcessor
  <2> QED BY <1>3, <1>4, <2>1
<1>5. ASSUME NEW t \in Threads, NEW u \in Threads, Create(t, u) PROVE WaitOK'
  <2>1. /\ UNCHANGED <<old, now, cur>> /\ last' = [last EXCEPT ![u] = now]
        /\ state[u] = "none" /\ sch' = [sch EXCEPT !.state[u] = "READY",
                                                   !.bq = BqInsert(@, u, InitPriority(u))]
    BY <1>5 DEF Create
  <2>2. state' = [state EXCEPT ![u] = "READY"]
    BY <2>1 DEF IInv, Filed
  <2>3. ASSUME NEW v \in Threads, v # cur', state'[v] # "none"
        PROVE  ran'[v] <= last'[v] /\ basis'[v] - old'[v] <= Gain(v, last'[v] - ran'[v])
    <3>1. last[v] <= last'[v] /\ old'[v] = old[v]
      BY <1>2, <2>1
    <3>2. v = cur \/ state[v] = "none" => last'[v] >= now
      BY <1>2, <2>1, <2>2, <2>3 DEF IInv, TypeOK
    <3> QED BY <1>1, <2>3, <3>1, <3>2, WaitsOn
  <2> QED BY <1>1, <2>3, WaitNext
<1>6. ASSUME NEW t \in Threads, NEW p \in Highest .. Lowest, SetPrio(t, p) PROVE WaitOK'
  <2>1. /\ UNCHANGED <<last, cur>> /\ old' = [old EXCEPT ![t] = p] /\ t = cur
        /\ sch' = [sch EXCEPT !.bq = BqReinsert(@, t, p)]
    BY <1>6 DEF SetPrio, Calls, InUser
  <2>2. state' = state
    BY <2>1 DEF IInv, Filed
  <2>3. \A v \in Threads : v # cur => old'[v] = old[v] /\ last'[v] = last[v]
    BY <1>2, <2>1
  <2> QED BY <1>1, <2>1, <2>2, <2>3, WaitQuiet
<1>7. ASSUME NEW t \in Threads, NEW u \in Threads, JoinDefunct(t, u) \/ Detach(t, u)
      PROVE  WaitOK'
  BY <1>3, <1>7 DEF JoinDefunct, Detach
<1>8. ASSUME NEW t \in Threads, NEW u \in Threads, JoinWait(t, u) PROVE WaitOK'
  BY <1>4, <1>8 DEF JoinWait, Dispatch
<1>9. ASSUME NEW t \in Threads, NEW d \in Nat, Sleep(t, d) PROVE WaitOK'
  BY <1>4, <1>9 DEF Sleep, Dispatch
<1>10. ASSUME NEW t \in Threads, Yield(t) \/ Exit(t) PROVE WaitOK'
  BY <1>4, <1>10 DEF Yield, Exit, Dispatch
<1>11. ASSUME NEW t \in Threads, Reap(t) PROVE WaitOK'
  <2>1. UNCHANGED <<old, last, cur>> /\ sch' = SetState(sch, target[t], "freed")
    BY <1>11 DEF Reap
  <2>2. \A v \in Threads : sch'.state[v] # "READY" \/ state[v] = "READY"
    BY <2>1 DEF SetState, IInv, TypeOK, Filed
  <2>3. \A v \in Threads : state[v] = "none" => state'[v] = "none"
    BY <1>1, <2>2 DEF LifeCycle, OnProcessor
  <2> QED BY <1>3, <2>1, <2>3
<1>12. ASSUME NEW t \in Threads, KernelExit(t) PROVE WaitOK'
  BY <1>3, <1>12 DEF KernelExit
<1>13. CASE WakeSleeper \/ StartAging \/ StartReaping \/ ReapDetached
  BY <1>4, <1>13 DEF WakeSleeper, StartAging, StartReaping, ReapDetached
<1>14. CASE Spin
  BY <1>3, <1>14 DEF Spin, vars
<1>15. CASE AgeLevel
  BY <1>1, <1>15, WaitAge
<1>16. CASE Select
  <2>1. /\ last' = [last EXCEPT ![cur] = now, ![cur'] = now] /\ UNCHANGED old
        /\ phase = "reap"
    BY <1>16 DEF Select
  <2>2. ASSUME NEW v \in Threads, v # cur', state'[v] # "none"
        PROVE  ran'[v] <= last'[v] /\ basis'[v] - old'[v] <= Gain(v, last'[v] - ran'[v])
    <3>1. last'[v] \in {last[v], now} /\ (v = cur => last'[v] = now)
      BY <1>2, <2>1
    <3>2. last[v] <= last'[v] /\ old'[v] = old[v]
      BY <1>2, <2>1, <3>1
    <3>3. state[v] # "none"
      BY <1>1, <2>1, <2>2 DEF LifeCycle, OnProcessor
    <3>4. v = cur => last'[v] >= now
      BY <1>2, <3>1
    <3> QED BY <1>1, <2>2, <3>2, <3>3, <3>4, WaitsOn
  <2> QED BY <1>1, <2>2, WaitNext
<1>17. CASE Tick
  BY <1>3, <1>17 DEF Tick
<1>18. \A d \in 0 .. MaxTime : d \in Nat
  BY ProgramAssumption
<1> QED
  BY <1>5, <1>6, <1>7, <1>8, <1>9, <1>10, <1>11, <1>12, <1>13, <1>14, <1>15, <1>16, <1>17, <1>18
  DEF Next, UserCall, Dispatcher

(* What was gained by last_selected is no more than what is earned by now. *)
LEMMA WaitEarned == IInv /\ AgeOK /\ WaitOK => AgeEarned
<1> SUFFICES ASSUME IInv, AgeOK, WaitOK, NEW t \in Threads
             PROVE  /\ old[t] >= Highest
                    /\ basis[t] - old[t] <= Gain(t, now - ran[t])
  BY DEF AgeEarned, Gain
<1>1. last[t] \in Nat /\ now \in Nat /\ old[t] \in Nat /\ ran[t] \in Nat /\ basis[t] \in Nat
  BY AgeTypes DEF WaitOK
<1>2. last[t] <= now /\ old[t] >= Highest
  BY DEF AgeOK
<1>3. CASE t = cur \/ state[t] = "none"
  <2>1. ran[t] = now /\ basis[t] = old[t]
    BY <1>3 DEF WaitOK
  <2>2. Gain(t, now - ran[t]) \in Nat
    BY <1>1, <2>1, GainAdds
  <2> QED BY <1>1, <1>2, <2>1, <2>2
<1>4. CASE ~(t = cur \/ state[t] = "none")
  <2> DEFINE x == last[t] - ran[t]
             y == now - ran[t]
  <2>1. ran[t] <= last[t] /\ basis[t] - old[t] <= Gain(t, x)
    BY <1>4 DEF WaitOK
  <2>2. x \in Nat /\ y \in Nat /\ x <= y
    BY <1>1, <1>2, <2>1
  <2> HIDE DEF x, y
  <2>3. Gain(t, x) <= Gain(t, y) /\ Gain(t, x) \in Nat /\ Gain(t, y) \in Nat
    BY <2>2, GainAdds
  <2>4. basis[t] - old[t] <= Gain(t, y)
    BY <1>1, <2>1, <2>3
  <2> QED BY <1>2, <2>4 DEF y
<1> QED BY <1>3, <1>4

(* Ageing pays for waiting and pays once: since a thread last ran it has   *)
(* gained no more than aging_factor for every aging_time, whatever it had  *)
(* gained or set before.                                                   *)
THEOREM AgeIsEarned == AgeSpec => []AgeEarned
<1>1. Init /\ AgeStart => IInv /\ AgeOK /\ WaitOK
  BY InitInv, InitAge, InitWait
<1>2. IInv /\ AgeOK /\ WaitOK /\ [Next /\ Recorded]_<<vars, ageHistory>> => (IInv /\ AgeOK /\ WaitOK)'
  <2> SUFFICES ASSUME IInv, AgeOK, WaitOK, [Next /\ Recorded]_<<vars, ageHistory>>
               PROVE  (IInv /\ AgeOK /\ WaitOK)'
    OBVIOUS
  <2>1. [Next]_vars
    OBVIOUS
  <2>2. IInv' /\ AgeOK'
    BY <2>1, NextInv, NextAge DEF Preserved
  <2>3. CASE Next /\ Recorded
    BY <2>2, <2>3, NextWait
  <2>4. CASE UNCHANGED <<vars, ageHistory>>
    BY <2>2, <2>4 DEF WaitOK, vars, ageHistory, Gain
  <2> QED BY <2>2, <2>3, <2>4
<1> QED BY <1>1, <1>2, WaitEarned, PTL DEF AgeSpec

-----------------------------------------------------------------------------
(* The scheduler picks the highest READY thread as long as no two threads  *)
(* that have not finished share a priority, because then no delete takes   *)
(* the first of several threads out of a bucket and clears the bit under   *)
(* the others (findings: pthipth_bq.c:77).                                 *)

(* The threads that may be on the processor now or later differ in         *)
(* priority.                                                               *)
Apart == \A t, u \in Threads : t # u /\ Live(t) /\ Live(u) => prio[t] # prio[u]

(* A thread that is alone in its bucket leaves it: nobody is hidden.       *)
LEMMA AloneLeaves ==
  ASSUME NEW s, NEW pr, Filed(s, pr), Complete(s.bq), NEW t \in Threads \ {IdleThread},
         s.state[t] \in OnProcessor,
         \A u \in Threads : u # t /\ s.state[u] \in OnProcessor => pr[u] # pr[t]
  PROVE  Complete(BqDelete(s.bq, t))
<1>1. Good(s.bq) /\ Queued(s.bq, t) /\ Level(s.bq, t) = pr[t] /\ pr[t] \in Priorities
  BY QueuedIs DEF Filed
<1> DEFINE b == s.bq.bucket[pr[t]]
<1>2. b \in Seq(Threads) /\ (\A i, j \in 1 .. Len(b) : b[i] = b[j] => i = j) /\ Contains(b, t)
  <2>1. Contains(b, t)
    BY <1>1 DEF Filed
  <2> QED BY <1>1, <2>1, OnceInBucket
<1>3. \A u \in Threads : Contains(b, u) => u = t
  BY <1>1 DEF Filed
<1> HIDE DEF b
<1>4. Len(b) = 1
  <2>1. \A i \in 1 .. Len(b) : b[i] = t
    <3> SUFFICES ASSUME NEW i \in 1 .. Len(b) PROVE b[i] = t
      OBVIOUS
    <3>1. b[i] \in Threads /\ Contains(b, b[i])
      BY <1>2 DEF Contains
    <3> QED BY <1>3, <3>1
  <2>2. Len(b) \in Nat /\ Len(b) # 0
    BY <1>2 DEF Contains
  <2>3. Len(b) > 1 => 1 \in 1 .. Len(b) /\ 2 \in 1 .. Len(b)
    BY <2>2
  <2> QED BY <1>2, <2>1, <2>2, <2>3
<1> QED BY <1>1, <1>4, DeleteComplete DEF b

(* The same for a thread that changes its priority.                        *)
LEMMA AloneMoves ==
  ASSUME NEW s, NEW pr, Filed(s, pr), Complete(s.bq), NEW t \in Threads \ {IdleThread},
         s.state[t] \in OnProcessor,
         \A u \in Threads : u # t /\ s.state[u] \in OnProcessor => pr[u] # pr[t],
         NEW p \in Priorities
  PROVE  Complete(BqReinsert(s.bq, t, p))
<1>1. Complete(BqDelete(s.bq, t))
  BY AloneLeaves
<1>2. Good(BqDelete(s.bq, t))
  BY DeleteGood DEF Filed
<1> QED BY <1>1, <1>2, InsertComplete DEF BqReinsert

(* The thread at the head of the queue has the highest priority.           *)
LEMMA PeekPriority ==
  ASSUME NEW s, NEW pr, Filed(s, pr), Complete(s.bq), NEW t \in Threads, s.state[t] \in OnProcessor
  PROVE  pr[BqPeek(s.bq)] <= pr[t]
<1>1. /\ BqPeek(s.bq) \in Threads /\ s.state[BqPeek(s.bq)] \in OnProcessor
      /\ Level(s.bq, BqPeek(s.bq)) = pr[BqPeek(s.bq)]
      /\ Level(s.bq, t) = pr[t] /\ Queued(s.bq, t)
  BY PeekIs, QueuedIs
<1>2. Level(s.bq, t) >= Level(s.bq, BqPeek(s.bq))
  BY <1>1, PeekOfComplete DEF Filed
<1>3. pr[t] \in Nat /\ pr[BqPeek(s.bq)] \in Nat
  BY <1>1, BucketAssumption DEF Filed, Priorities
<1> QED BY <1>1, <1>2, <1>3

(* At the start main and the idle thread have their bits.                  *)
LEMMA InitComplete == Init => Complete(sch.bq)
<1> SUFFICES ASSUME Init PROVE Complete(sch.bq)
  OBVIOUS
<1>1. sch.bq = BqInsert(BqInsert(EmptyBuckets(Priorities), Main, MainPriority),
                        IdleThread, IdlePriority)
  BY DEF Init
<1>2. MainPriority \in Priorities /\ IdlePriority \in Priorities /\ MainPriority # IdlePriority
  BY PriorityAssumption, BucketAssumption DEF Priorities
<1> QED BY <1>1, <1>2 DEF Complete, BqInsert, EmptyBuckets

(* The running thread leaves its bucket alone, and with it the processor.  *)
LEMMA CallerLeaves ==
  ASSUME IInv, Apart, Complete(sch.bq), NEW t \in Threads \ {IdleThread}, state[t] = "RUNNING",
         NEW to \in {"BLOCKED", "SLEEPING", "DEFUNCT"}, sch' = ChangeState(sch, t, to)
  PROVE  Complete(sch'.bq)
<1>1. Filed(sch, prio)
  BY DEF IInv
<1>2. \A u \in Threads : u # t /\ sch.state[u] \in OnProcessor => prio[u] # prio[t]
  BY DEF Apart, OnProcessor
<1>3. sch'.bq = BqDelete(sch.bq, t)
  BY <1>1, Stopped DEF ChangeState
<1>4. sch.state[t] \in OnProcessor
  BY DEF OnProcessor
<1> QED BY <1>1, <1>2, <1>3, <1>4, AloneLeaves

(* An exit wakes the joiner before the caller leaves its bucket; the joiner*)
(* goes to another one.                                                    *)
LEMMA ExitComplete ==
  ASSUME IInv, Apart, Complete(sch.bq), NEW t \in Threads, Exit(t)
  PROVE  Complete(sch'.bq)
<1> DEFINE j == joiner[t]
           woken == IF j = NoThread THEN sch ELSE ChangeState(sch, j, "READY")
<1>1. InUser(t) /\ t # IdleThread
  BY Spent, NotIdle DEF Exit
<1>2. t = cur /\ state[t] = "RUNNING" /\ at[t] = "user"
  BY <1>1, Caller
<1>3. j # NoThread => j \in Threads /\ state[j] \in {"BLOCKED", "READY", "RUNNING"} /\ j # t
  <2>1. j # NoThread => j \in Threads
    BY DEF IInv, TypeOK, Maybe
  <2>2. j # NoThread => state[j] \in {"BLOCKED", "READY", "RUNNING"} /\ at[j] = "reaping"
    BY <1>2 DEF IInv, JoinOK, JoinerWaits
  <2> QED BY <1>2, <2>1, <2>2
<1>4. sch' = ChangeState(woken, t, "DEFUNCT") /\ Filed(sch, prio)
  BY DEF Exit, IInv
<1> HIDE DEF j
<1>5. /\ Filed(woken, prio) /\ Complete(woken.bq) /\ woken.state[t] = "RUNNING"
      /\ \A v \in Threads : woken.state[v] \in OnProcessor => Live(v)
  <2>1. CASE j = NoThread \/ state[j] = "READY"
    <3>1. woken = sch
      BY <2>1 DEF ChangeState, StateChange
    <3> HIDE DEF woken
    <3> QED BY <1>2, <1>4, <3>1 DEF OnProcessor
  <2>2. CASE j # NoThread /\ state[j] = "BLOCKED"
    <3>1. woken = StateChange(sch, j, "READY", prio[j]) /\ j \in Threads /\ j # t
      BY <1>3, <2>2 DEF ChangeState
    <3>2. prio[j] # IdlePriority
      BY <1>3, <1>4, <2>2, IdleIs DEF IInv, PrioOK, OnProcessor
    <3> HIDE DEF woken
    <3>3. /\ Filed(woken, prio) /\ woken.bq = BqInsert(sch.bq, j, prio[j])
          /\ \A v \in Threads : woken.state[v] = IF v = j THEN "READY" ELSE sch.state[v]
      BY <1>4, <2>2, <3>1, <3>2, Woken
    <3>4. Complete(woken.bq)
      BY <1>4, <3>1, <3>3, InsertComplete DEF Filed
    <3>5. \A v \in Threads : woken.state[v] \in OnProcessor => Live(v)
      BY <2>2, <3>3 DEF OnProcessor
    <3> QED BY <1>2, <3>1, <3>3, <3>4, <3>5
  <2>3. j # NoThread => state[j] # "RUNNING"
    BY <1>2, <1>3 DEF IInv, OneRunning
  <2> QED BY <1>3, <2>1, <2>2, <2>3
<1> HIDE DEF woken
<1>6. sch'.bq = BqDelete(woken.bq, t)
  BY <1>1, <1>4, <1>5, Stopped DEF ChangeState
<1>7. \A u \in Threads : u # t /\ woken.state[u] \in OnProcessor => prio[u] # prio[t]
  BY <1>2, <1>5 DEF Apart
<1> QED BY <1>1, <1>5, <1>6, <1>7, AloneLeaves DEF OnProcessor

LEMMA AgeComplete ==
  ASSUME IInv, IInv', Apart, Complete(sch.bq), AgeLevel
  PROVE  Complete(sch'.bq)
<1> DEFINE t == sch.bq.bucket[level][Min(Aging(level))]
           p == AgedPriority(t)
<1>1. t \in Threads \ {IdleThread} /\ state[t] \in OnProcessor /\ Age(t)
  BY AgedIs DEF AgeLevel
<1> HIDE DEF t
<1>2. \/ sch' = sch
      \/ prio' = [prio EXCEPT ![t] = p] /\ sch' = [sch EXCEPT !.bq = BqReinsert(@, t, p)]
  BY <1>1 DEF Age
<1> HIDE DEF p
<1>3. CASE sch' = sch
  BY <1>3
<1>4. CASE prio' = [prio EXCEPT ![t] = p] /\ sch' = [sch EXCEPT !.bq = BqReinsert(@, t, p)]
  <2>1. prio'[t] = p /\ p \in Priorities
    BY <1>1, <1>4 DEF IInv, TypeOK
  <2>2. sch'.bq = BqReinsert(sch.bq, t, p) /\ Filed(sch, prio)
    BY <1>4 DEF IInv, Filed
  <2>3. \A u \in Threads : u # t /\ sch.state[u] \in OnProcessor => prio[u] # prio[t]
    BY <1>1 DEF Apart, OnProcessor
  <2> QED BY <1>1, <2>1, <2>2, <2>3, AloneMoves
<1> QED BY <1>2, <1>3, <1>4

(* What the scheduler finds is the highest, and the rotation hides nobody. *)
LEMMA SelectHighest ==
  ASSUME IInv, Complete(sch.bq), Select
  PROVE  /\ Complete(sch'.bq)
         /\ \A t \in Threads : state'[t] = "READY" => prio[cur'] <= prio[t]
<1> DEFINE next == Chosen(sch.bq)
           yielded == IF state[cur] = "RUNNING" THEN SetState(sch, cur, "READY") ELSE sch
           rotated == [sch EXCEPT !.bq = BqRotate(@)]
<1>1. /\ cur' = next /\ sch' = [SetState(yielded, next, "RUNNING") EXCEPT !.bq = BqRotate(@)]
      /\ Filed(sch, prio)
  BY DEF Select, IInv
<1>2. /\ Filed(rotated, prio) /\ rotated.bq = BqRotate(sch.bq)
      /\ \A v \in Threads : rotated.state[v] = sch.state[v]
  <2>1. rotated = [sch EXCEPT !.bq = BqRotate(@)]
    OBVIOUS
  <2> HIDE DEF rotated
  <2> QED BY <1>1, <2>1, RotatedFiled
<1>3. Complete(rotated.bq)
  BY <1>1, <1>2, RotateComplete DEF Filed
<1> HIDE DEF rotated
<1>4. \A t \in Threads : state[t] \in OnProcessor => prio[next] <= prio[t]
  BY <1>1, <1>2, <1>3, PeekPriority DEF Chosen
<1>5. sch'.bq = BqRotate(sch.bq)
  BY <1>1 DEF SetState, Filed
<1>6. \A t \in Threads : state'[t] = "READY" => state[t] \in OnProcessor
  <2>1. LifeCycle
    BY SelectInv DEF Preserved
  <2> QED BY <2>1 DEF LifeCycle, Select, OnProcessor
<1> QED BY <1>1, <1>2, <1>3, <1>4, <1>5, <1>6

(* No step hides a thread while the threads are apart.                     *)
LEMMA NextComplete ==
  ASSUME IInv, Apart, Complete(sch.bq), [Next]_vars
  PROVE  Complete(sch'.bq)
<1>1. IInv'
  BY NextInv DEF Preserved
<1>2. ASSUME NEW t \in Threads, UserCall(t) PROVE Complete(sch'.bq)
  <2>1. ASSUME NEW u \in Threads, Create(t, u) PROVE Complete(sch'.bq)
    <3>1. sch'.bq = BqInsert(sch.bq, u, InitPriority(u))
      BY <2>1 DEF Create, IInv, Filed
    <3> QED BY <3>1, InsertComplete, PriorityRange DEF IInv, Filed
  <2>2. ASSUME NEW u \in Threads, JoinWait(t, u) PROVE Complete(sch'.bq)
    <3>1. Calls(t, [op |-> "join", arg |-> u]) /\ sch' = ChangeState(sch, t, "BLOCKED")
      BY <2>2 DEF JoinWait
    <3>2. t # IdleThread /\ state[t] = "RUNNING"
      BY <3>1, NotIdle, Spent, Caller
    <3> QED BY <3>1, <3>2, CallerLeaves
  <2>3. ASSUME NEW d \in 0 .. MaxTime, Sleep(t, d) PROVE Complete(sch'.bq)
    <3>1. Calls(t, [op |-> "sleep", arg |-> d]) /\ sch' = ChangeState(sch, t, "SLEEPING")
      BY <2>3 DEF Sleep
    <3>2. t # IdleThread /\ state[t] = "RUNNING"
      BY <3>1, NotIdle, Spent, Caller
    <3> QED BY <3>1, <3>2, CallerLeaves
  <2>4. ASSUME NEW p \in Highest .. Lowest, SetPrio(t, p) PROVE Complete(sch'.bq)
    <3>1. Calls(t, [op |-> "set_prio", arg |-> p]) /\ sch'.bq = BqReinsert(sch.bq, t, p)
      BY <2>4 DEF SetPrio, IInv, Filed
    <3>2. t # IdleThread /\ state[t] = "RUNNING"
      BY <3>1, NotIdle, Spent, Caller
    <3>3. p \in Priorities
      BY PriorityAssumption, PriorityRange
    <3>4. \A u \in Threads : u # t /\ sch.state[u] \in OnProcessor => prio[u] # prio[t]
      BY <3>2 DEF Apart, OnProcessor
    <3> QED BY <3>1, <3>2, <3>3, <3>4, AloneMoves DEF IInv, OnProcessor
  <2>5. CASE Exit(t)
    BY <2>5, ExitComplete
  <2>6. ASSUME NEW u \in Threads, JoinDefunct(t, u) \/ Detach(t, u) PROVE Complete(sch'.bq)
    BY <2>6 DEF JoinDefunct, Detach
  <2>7. CASE Yield(t)
    BY <2>7 DEF Yield
  <2> QED BY <1>2, <2>1, <2>2, <2>3, <2>4, <2>5, <2>6, <2>7 DEF UserCall
<1>3. ASSUME NEW t \in Threads, Reap(t) \/ KernelExit(t) PROVE Complete(sch'.bq)
  <2>1. sch'.bq = sch.bq
    BY <1>3 DEF Reap, KernelExit, SetState, IInv, Filed
  <2> QED BY <2>1
<1>4. CASE WakeSleeper
  <2> DEFINE u == Head(todo)
  <2>1. \/ sch' = sch
        \/ state[u] = "SLEEPING" /\ sch' = StateChange(sch, u, "READY", prio[u])
    BY <1>4 DEF WakeSleeper, ChangeState
  <2>2. u \in Threads /\ Filed(sch, prio)
    BY <1>4, Rest DEF WakeSleeper, IInv, TypeOK
  <2> HIDE DEF u
  <2>3. ASSUME state[u] = "SLEEPING", sch' = StateChange(sch, u, "READY", prio[u])
        PROVE  Complete(sch'.bq)
    <3>1. prio[u] # IdlePriority
      BY <2>2, <2>3, IdleIs DEF IInv, PrioOK, OnProcessor
    <3>2. sch'.bq = BqInsert(sch.bq, u, prio[u])
      BY <2>2, <2>3, <3>1, Woken
    <3> QED BY <2>2, <3>2, InsertComplete DEF Filed
  <2> QED BY <2>1, <2>3
<1>5. CASE AgeLevel
  BY <1>1, <1>5, AgeComplete
<1>6. CASE ReapDetached
  <2>1. sch'.bq = sch.bq
    BY <1>6 DEF ReapDetached, SetState, IInv, Filed
  <2> QED BY <2>1
<1>7. CASE Select
  BY <1>7, SelectHighest
<1>8. CASE StartAging \/ Spin \/ StartReaping \/ Tick \/ UNCHANGED vars
  BY <1>8 DEF StartAging, Spin, StartReaping, Tick, vars
<1> QED BY <1>2, <1>3, <1>4, <1>5, <1>6, <1>7, <1>8 DEF Next, Dispatcher

(* For any program whose threads differ in priority at all times, the      *)
(* scheduler dispatches the highest thread: no READY thread is above it.   *)
(* (Threads of one priority may hide each other: finding at                *)
(* pthipth_bq.c:77.)                                                       *)
THEOREM HighestPicked == Spec /\ []Apart => PicksHighest
<1>1. Init => Complete(sch.bq)
  BY InitComplete
<1>2. IInv /\ Apart /\ Complete(sch.bq) /\ [Next]_vars => Complete(sch.bq)'
  BY NextComplete
<1>3. IInv /\ Complete(sch.bq) =>
        [\A t \in Threads : Select /\ state'[t] = "READY" => prio[cur'] <= prio[t]]_vars
  BY SelectHighest
<1>4. Spec => []IInv
  BY Invariance, PTL
<1>5. Spec /\ []Apart => []Complete(sch.bq)
  BY <1>1, <1>2, <1>4, PTL DEF Spec
<1> QED BY <1>3, <1>4, <1>5, PTL DEF PicksHighest

(* The highest priority that t may come to by ageing while the clock runs. *)
Reach(t) == LET p == InitPriority(t) - Gain(t, MaxTime) IN IF p < Highest THEN Highest ELSE p

(* The programs that run apart is an instance of: nobody sets a priority,  *)
(* and ageing is too slow for two threads to meet.                         *)
Distinct ==
  /\ \A t, u \in Threads : t # u => InitPriority(t) < Reach(u) \/ InitPriority(u) < Reach(t)
  /\ \A t \in Threads : NeverSets(t)

(* In Scheduler, where nobody is boosted, the two priorities are one.      *)
Bounded == prio = old /\ now <= MaxTime

LEMMA NextBounded == IInv /\ Bounded /\ [Next]_vars => Bounded'
<1> SUFFICES ASSUME IInv, Bounded, [Next]_vars PROVE Bounded'
  OBVIOUS
<1>1. ASSUME UNCHANGED <<prio, old, now>> PROVE Bounded'
  BY <1>1 DEF Bounded
<1>2. ASSUME NEW t \in Threads, UserCall(t) PROVE Bounded'
  <2>1. ASSUME NEW p \in Highest .. Lowest, SetPrio(t, p) PROVE Bounded'
    BY <2>1 DEF SetPrio, Bounded
  <2> QED
    BY <1>1, <1>2, <2>1 DEF UserCall, Create, JoinDefunct, JoinWait, Detach, Sleep, Yield, Exit
<1>3. CASE AgeLevel
  BY <1>3 DEF AgeLevel, Age, Bounded
<1>4. CASE Tick
  <2>1. now \in Nat /\ MaxTime \in Nat /\ now < MaxTime /\ now' = now + 1
    BY <1>4, ProgramAssumption DEF Tick, IInv, TypeOK
  <2> QED BY <1>4, <2>1 DEF Tick, Bounded
<1> QED
  BY <1>1, <1>2, <1>3, <1>4 DEF Next, Dispatcher, Reap, KernelExit, WakeSleeper, StartAging, Spin,
     StartReaping, ReapDetached, Select, vars

(* Their threads never meet.                                               *)
LEMMA StayApart == ASSUME Distinct, IInv, AgeOK, Bounded PROVE Apart
<1>1. ASSUME NEW t \in Threads PROVE prio[t] \in Int /\ Reach(t) <= prio[t] /\ prio[t] <= InitPriority(t)
  <2>1. /\ old[t] \in Nat /\ last[t] \in Nat /\ now \in Nat /\ MaxTime \in Nat
        /\ InitPriority(t) \in Nat /\ Highest \in Nat
    BY AgeTypes, ProgramAssumption
  <2>2. /\ prio[t] = old[t] /\ last[t] <= MaxTime
        /\ old[t] >= Highest /\ old[t] <= InitPriority(t)
        /\ InitPriority(t) - old[t] <= Gain(t, last[t])
    BY <2>1 DEF Bounded, AgeOK, Distinct
  <2>3. /\ Gain(t, last[t]) \in Nat /\ Gain(t, MaxTime) \in Nat
        /\ Gain(t, last[t]) <= Gain(t, MaxTime)
    BY <2>1, <2>2, GainAdds
  <2> QED BY <2>1, <2>2, <2>3 DEF Reach
<1>2. \A t \in Threads : InitPriority(t) \in Int /\ Reach(t) \in Int
  <2>1. MaxTime \in Nat /\ Highest \in Nat
    BY ProgramAssumption, PriorityAssumption
  <2>2. \A t \in Threads : InitPriority(t) \in Nat /\ Gain(t, MaxTime) \in Nat
    BY <2>1, AgeTypes, GainAdds
  <2> QED BY <2>1, <2>2 DEF Reach
<1> SUFFICES ASSUME NEW t \in Threads, NEW u \in Threads, t # u PROVE prio[t] # prio[u]
  BY DEF Apart
<1>3. InitPriority(t) < Reach(u) \/ InitPriority(u) < Reach(t)
  BY DEF Distinct
<1> QED BY <1>1, <1>2, <1>3

(* For them the scheduler is right without a condition on the run.         *)
THEOREM DistinctPicked == ASSUME Distinct PROVE Spec => PicksHighest
<1>1. Init => AgeOK /\ Bounded
  BY InitAge, ProgramAssumption DEF Init, Bounded
<1>2. IInv /\ AgeOK /\ Bounded /\ [Next]_vars => (AgeOK /\ Bounded)'
  BY NextAge, NextBounded
<1>3. IInv /\ AgeOK /\ Bounded => Apart
  BY StayApart
<1> QED BY <1>1, <1>2, <1>3, Invariance, HighestPicked, PTL DEF Spec
=============================================================================
