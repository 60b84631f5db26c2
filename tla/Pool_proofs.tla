----------------------------- MODULE Pool_proofs ----------------------------
(***************************************************************************)
(* Sync.tla and Pool.tla, which extends it.                                *)
(*                                                                         *)
(* First, mutexes, conditions and barriers, for any number of threads and  *)
(* objects and any program: the semaphore of a mutex, its owner and        *)
(* mutex_count of the owner agree; the invariant of the scheduler holds    *)
(* under the calls of Sync as well; a boost ends with the last unlock, if  *)
(* priorities are set without a mutex; a barrier counts who is blocked in  *)
(* it and joins return in time, if no barrier wakes threads of an earlier  *)
(* round.                                                                  *)
(*                                                                         *)
(* Then the thread pool: it runs the tasks in order, each once, and drops  *)
(* none, for any number of workers, size of the ring and tasks.  Nothing of*)
(* the scheduler is needed for this but that a step is made by one thread. *)
(* The last part adds the workers, their condition variable and the        *)
(* scheduler under them: no task waits for a worker that nobody woke, and  *)
(* the pool is freed after its last worker.                                *)
(***************************************************************************)
EXTENDS Pool, Scheduler_proofs, FiniteSetTheorems, SequenceTheorems

(* The variables of pthipth_mutex.c have their types.                      *)
MutexTypes ==
  /\ mutex \in [Mutexes -> [live : BOOLEAN, count : Int, owner : Maybe(Threads)]]
  /\ held \in [Threads -> Int]
  /\ wants \in [Threads -> Mutexes \cup {NoObject}]
  /\ at \in [Threads -> {"user", "reaping", "locking"}]

(* A thread in pthipth_mutex_lock waits for an initialised mutex, and only *)
(* an initialised one has an owner: pthipth_mutex_init forgets nobody.     *)
LiveOK ==
  /\ \A t \in Threads : at[t] = "locking" => wants[t] \in Mutexes
  /\ \A t \in Threads : wants[t] \in Mutexes => mutex[wants[t]].live
  /\ \A m \in Mutexes : ~mutex[m].live => mutex[m].owner = NoThread

MInv == MutexTypes /\ LiveOK /\ LockMatchesOwner

-----------------------------------------------------------------------------
(* The mutexes of a thread can be counted.                                 *)
LEMMA OwnedFinite ==
  ASSUME NEW t
  PROVE  IsFiniteSet(Owned(t)) /\ Cardinality(Owned(t)) \in Nat
BY SyncAssumption, FS_Subset, FS_CardinalityType DEF Owned

(* What happens to the mutexes in a step: nothing, one is taken that was   *)
(* free, one is released by its owner, or one is initialised or destroyed  *)
(* that nobody owns.                                                       *)
Kept == UNCHANGED <<mutex, held>>

Taking(t, m) ==
  /\ mutex[m].count > 0 /\ mutex[m].live
  /\ mutex' = [mutex EXCEPT ![m].count = 0, ![m].owner = t]
  /\ held' = [held EXCEPT ![t] = @ + 1]

Missing(m) == mutex[m].count <= 0 /\ mutex' = [mutex EXCEPT ![m].count = -1] /\ UNCHANGED held

Releasing(t, m) == mutex[m].owner = t /\ Release(m) /\ held' = [held EXCEPT ![t] = @ - 1]

Renewed(m) ==
  /\ UNCHANGED held
  /\ \/ ~mutex[m].live /\ mutex' = [mutex EXCEPT ![m] = Fresh]
     \/ mutex[m].owner = NoThread /\ mutex' = [mutex EXCEPT ![m].live = FALSE]

Effect ==
  \/ Kept
  \/ \E m \in Mutexes : Missing(m) \/ Renewed(m)
  \/ \E t \in Threads, m \in Mutexes : Taking(t, m) \/ Releasing(t, m)

(* A mutex that is released is a mutex.                                    *)
LEMMA Rewritten ==
  ASSUME NEW S, NEW r \in [live : BOOLEAN, count : Int, owner : S], NEW o \in S
  PROVE  [r EXCEPT !.count = 1, !.owner = o] \in [live : BOOLEAN, count : Int, owner : S]
<1> DEFINE s == [r EXCEPT !.count = 1]
<1>1. s \in [live : BOOLEAN, count : Int, owner : S]
  OBVIOUS
<1>2. [r EXCEPT !.count = 1, !.owner = o] = [s EXCEPT !.owner = o]
  OBVIOUS
<1> HIDE DEF s
<1>3. [s EXCEPT !.owner = o] \in [live : BOOLEAN, count : Int, owner : S]
  BY <1>1
<1> QED BY <1>2, <1>3

(* Each of them keeps semaphore, owner and count in agreement.             *)
LEMMA EffectKept ==
  ASSUME MInv, Effect
  PROVE  /\ LockMatchesOwner'
         /\ mutex' \in [Mutexes -> [live : BOOLEAN, count : Int, owner : Maybe(Threads)]]
         /\ held' \in [Threads -> Int]
         /\ \A m \in Mutexes : ~mutex'[m].live => mutex'[m].owner = NoThread
<1> USE DEF MInv, MutexTypes, Maybe
<1> DEFINE Goal == /\ LockMatchesOwner'
                   /\ mutex' \in [Mutexes -> [live : BOOLEAN, count : Int, owner : Maybe(Threads)]]
                   /\ held' \in [Threads -> Int]
                   /\ \A m \in Mutexes : ~mutex'[m].live => mutex'[m].owner = NoThread
<1>1. CASE Kept
  BY <1>1 DEF Kept, LockMatchesOwner, Owned, LiveOK
<1>2. ASSUME NEW m \in Mutexes, Missing(m) PROVE Goal
  <2>1. \A x \in Mutexes : mutex'[x].owner = mutex[x].owner /\ mutex'[x].live = mutex[x].live
    BY <1>2 DEF Missing
  <2>2. \A t \in Threads : Owned(t)' = Owned(t)
    BY <2>1 DEF Owned
  <2> QED BY <1>2, <2>1, <2>2 DEF Missing, LockMatchesOwner, LiveOK
<1>3. ASSUME NEW m \in Mutexes, Renewed(m) PROVE Goal
  <2>1. mutex[m].owner = NoThread /\ mutex[m].count > 0
    BY <1>3 DEF Renewed, LiveOK, LockMatchesOwner
  <2>2. \A x \in Mutexes : mutex'[x].owner = mutex[x].owner /\ (mutex'[x].count > 0 <=> mutex[x].count > 0)
    BY <1>3, <2>1 DEF Renewed, Fresh
  <2>3. \A t \in Threads : Owned(t)' = Owned(t)
    BY <2>2 DEF Owned
  <2>4. mutex' \in [Mutexes -> [live : BOOLEAN, count : Int, owner : Maybe(Threads)]]
    <3>1. CASE mutex' = [mutex EXCEPT ![m] = Fresh]
      <4>1. Fresh \in [live : BOOLEAN, count : Int, owner : Maybe(Threads)] BY DEF Fresh
      <4> QED BY <3>1, <4>1
    <3>2. CASE mutex' = [mutex EXCEPT ![m].live = FALSE]
      BY <3>2
    <3> QED BY <1>3, <3>1, <3>2 DEF Renewed
  <2>5. \A x \in Mutexes : ~mutex'[x].live => mutex'[x].owner = NoThread
    BY <1>3, <2>1 DEF Renewed, Fresh, LiveOK
  <2> QED BY <1>3, <2>2, <2>3, <2>4, <2>5 DEF Renewed, LockMatchesOwner
<1>4. ASSUME NEW t \in Threads, NEW m \in Mutexes, Taking(t, m) PROVE Goal
  <2>1. mutex[m].owner = NoThread
    BY <1>4 DEF Taking, LockMatchesOwner
  <2>2. m \notin Owned(t) /\ Owned(t)' = Owned(t) \cup {m}
    BY <1>4, <2>1, ThreadAssumption DEF Taking, Owned
  <2>3. \A v \in Threads \ {t} : Owned(v)' = Owned(v)
    BY <1>4, <2>1, ThreadAssumption DEF Taking, Owned
  <2>4. Cardinality(Owned(t)') = Cardinality(Owned(t)) + 1
    BY <2>2, OwnedFinite, FS_AddElement
  <2>5. \A v \in Threads : held'[v] = Cardinality(Owned(v)')
    BY <1>4, <2>3, <2>4 DEF Taking, LockMatchesOwner
  <2>6. /\ mutex' \in [Mutexes -> [live : BOOLEAN, count : Int, owner : Maybe(Threads)]]
        /\ held' \in [Threads -> Int]
        /\ \A x \in Mutexes : mutex'[x].count > 0 <=> mutex'[x].owner = NoThread
        /\ \A x \in Mutexes : ~mutex'[x].live => mutex'[x].owner = NoThread
    BY <1>4, ThreadAssumption DEF Taking, LockMatchesOwner, LiveOK
  <2> QED BY <2>5, <2>6 DEF LockMatchesOwner
<1>5. ASSUME NEW t \in Threads, NEW m \in Mutexes, Releasing(t, m) PROVE Goal
  <2>1. m \in Owned(t) /\ Owned(t)' = Owned(t) \ {m}
    BY <1>5, ThreadAssumption DEF Releasing, Release, Owned
  <2>2. \A v \in Threads \ {t} : Owned(v)' = Owned(v)
    BY <1>5, ThreadAssumption DEF Releasing, Release, Owned
  <2>3. Cardinality(Owned(t)') = Cardinality(Owned(t)) - 1
    BY <2>1, OwnedFinite, FS_RemoveElement
  <2>4. \A v \in Threads : held'[v] = Cardinality(Owned(v)')
    BY <1>5, <2>2, <2>3 DEF Releasing, LockMatchesOwner
  <2>5. held' \in [Threads -> Int]
    BY <1>5 DEF Releasing
  <2>6. mutex' = [mutex EXCEPT ![m].count = 1, ![m].owner = NoThread]
    BY <1>5 DEF Releasing, Release
  <2>7. mutex' \in [Mutexes -> [live : BOOLEAN, count : Int, owner : Maybe(Threads)]]
    <3> DEFINE new == [mutex[m] EXCEPT !.count = 1, !.owner = NoThread]
    <3>1. NoThread \in Maybe(Threads) /\ mutex[m] \in [live : BOOLEAN, count : Int, owner : Maybe(Threads)]
      OBVIOUS
    <3>2. mutex' = [mutex EXCEPT ![m] = new]
      BY <2>6
    <3>3. new \in [live : BOOLEAN, count : Int, owner : Maybe(Threads)]
      BY <3>1, Rewritten
    <3> HIDE DEF new
    <3> QED BY <3>2, <3>3
  <2>8. /\ \A x \in Mutexes : mutex'[x].count > 0 <=> mutex'[x].owner = NoThread
        /\ \A x \in Mutexes : ~mutex'[x].live => mutex'[x].owner = NoThread
    BY <2>6 DEF LockMatchesOwner, LiveOK
  <2> QED BY <2>4, <2>5, <2>7, <2>8 DEF LockMatchesOwner
<1> QED BY <1>1, <1>2, <1>3, <1>4, <1>5 DEF Effect

-----------------------------------------------------------------------------
(* A call with a mutex has one of the effects, and leaves who waits for    *)
(* which mutex in order.                                                   *)
Waits == \A t \in Threads : at[t] = "locking" => wants[t] \in Mutexes

WaitsLive == \A t \in Threads : wants[t] \in Mutexes => mutex[wants[t]].live

Placed ==
  /\ wants \in [Threads -> Mutexes \cup {NoObject}]
  /\ at \in [Threads -> {"user", "reaping", "locking"}]
  /\ Waits /\ WaitsLive

(* An attempt, the first or a later one.                                   *)
LEMMA AttemptIs ==
  ASSUME MInv, NEW t \in Threads, NEW m \in Mutexes, mutex[m].live, Attempt(t, m)
  PROVE  (Taking(t, m) \/ Missing(m)) /\ Placed'
<1> USE SyncAssumption DEF MInv, MutexTypes, LiveOK
<1>1. mutex[m].count \in Int
  OBVIOUS
<1>2. CASE mutex[m].count > 0
  <2>1. Taking(t, m) /\ at' = [at EXCEPT ![t] = "user"] /\ wants' = [wants EXCEPT ![t] = NoObject]
    BY <1>1, <1>2 DEF Attempt, Taken, Taking
  <2>2. \A x \in Mutexes : mutex'[x].live = mutex[x].live
    BY <2>1 DEF Taking
  <2> QED BY <2>1, <2>2 DEF Placed, Waits, WaitsLive
<1>3. CASE mutex[m].count <= 0
  <2>1. Missing(m) /\ at' = [at EXCEPT ![t] = "locking"] /\ wants' = [wants EXCEPT ![t] = m]
    BY <1>1, <1>3 DEF Attempt, Missing
  <2>2. \A x \in Mutexes : mutex'[x].live = mutex[x].live
    BY <2>1 DEF Missing
  <2> QED BY <2>1, <2>2 DEF Placed, Waits, WaitsLive
<1> QED BY <1>1, <1>2, <1>3

(* The calls of pthipth_mutex.c, and the unlock in pthipth_cond_wait.      *)
LEMMA MutexCall ==
  ASSUME MInv, InitialisedUse, NEW t \in Threads, NEW m \in Mutexes,
         \/ Lock(t, m) \/ Unlock(t, m) \/ MutexInit(t, m) \/ MutexDestroy(t, m)
         \/ \E c \in Conds : CondWait(t, c, m)
  PROVE  Effect /\ Placed'
<1> USE DEF MInv, MutexTypes, LiveOK
<1>1. CASE Lock(t, m)
  BY <1>1, AttemptIs DEF Lock, Effect
<1>2. CASE Unlock(t, m)
  <2>1. Releasing(t, m) /\ UNCHANGED <<at, wants>>
    BY <1>2 DEF Unlock, Releasing
  <2>2. \A x \in Mutexes : mutex'[x].live = mutex[x].live
    BY <2>1 DEF Releasing, Release
  <2> QED BY <2>1, <2>2 DEF Effect, Placed, Waits, WaitsLive
<1>3. CASE MutexInit(t, m)
  <2>1. Renewed(m) /\ UNCHANGED <<at, wants>> /\ mutex' = [mutex EXCEPT ![m] = Fresh]
    BY <1>3 DEF MutexInit, Renewed
  <2>2. \A x \in Mutexes : mutex[x].live => mutex'[x].live
    BY <2>1 DEF Fresh
  <2> QED BY <2>1, <2>2 DEF Effect, Placed, Waits, WaitsLive
<1>4. CASE MutexDestroy(t, m)
  <2>1. /\ Renewed(m) /\ UNCHANGED <<at, wants>> /\ mutex' = [mutex EXCEPT ![m].live = FALSE]
        /\ t = cur
    BY <1>4 DEF MutexDestroy, Renewed, Calls, InUser
  <2>2. \A v \in Threads : wants[v] # m
    BY <1>4, <2>1 DEF InitialisedUse
  <2>3. \A x \in Mutexes : x # m => mutex'[x].live = mutex[x].live
    BY <2>1
  <2> QED BY <2>1, <2>2, <2>3 DEF Effect, Placed, Waits, WaitsLive
<1>5. ASSUME NEW c \in Conds, CondWait(t, c, m) PROVE Effect /\ Placed'
  <2>1. /\ at' = [at EXCEPT ![t] = "locking"] /\ wants' = [wants EXCEPT ![t] = m]
        /\ Kept \/ Releasing(t, m)
        /\ t = cur
    BY <1>5 DEF CondWait, Kept, Releasing, Calls, InUser
  <2>2. mutex[m].live
    BY <1>5, <2>1 DEF InitialisedUse
  <2>3. \A x \in Mutexes : mutex'[x].live = mutex[x].live
    BY <2>1 DEF Kept, Releasing, Release
  <2> QED BY <2>1, <2>2, <2>3 DEF Effect, Placed, Waits, WaitsLive
<1> QED BY <1>1, <1>2, <1>3, <1>4, <1>5

(* No other step touches a mutex or mutex_count.                           *)
LEMMA OtherStep ==
  ASSUME MInv, UNCHANGED <<mutex, held, wants>>, at' \in [Threads -> {"user", "reaping", "locking"}],
         \A t \in Threads : at'[t] = "locking" => at[t] = "locking"
  PROVE  Effect /\ Placed'
BY DEF MInv, MutexTypes, LiveOK, Effect, Kept, Placed, Waits, WaitsLive

(* The scheduler's own steps move a thread to user code or into a join.    *)
LEMMA SchedulerStep ==
  ASSUME MInv, [Next]_vars
  PROVE  /\ at' \in [Threads -> {"user", "reaping", "locking"}]
         /\ \A t \in Threads : at'[t] = "locking" => at[t] = "locking"
<1> USE DEF MInv, MutexTypes
<1>1. CASE UNCHANGED at
  BY <1>1
<1>2. ASSUME NEW t \in Threads, \/ at' = [at EXCEPT ![t] = "reaping"]
                                \/ at' = [at EXCEPT ![t] = "user"]
      PROVE  /\ at' \in [Threads -> {"user", "reaping", "locking"}]
             /\ \A v \in Threads : at'[v] = "locking" => at[v] = "locking"
  BY <1>2
<1>3. ASSUME NEW t \in Threads, UserCall(t)
      PROVE  UNCHANGED at \/ at' = [at EXCEPT ![t] = "reaping"]
  BY <1>3 DEF UserCall, Create, JoinDefunct, JoinWait, Detach, Sleep, SetPrio, Yield, Exit
<1>4. ASSUME NEW t \in Threads, Reap(t) \/ KernelExit(t)
      PROVE  UNCHANGED at \/ at' = [at EXCEPT ![t] = "user"]
  BY <1>4 DEF Reap, KernelExit
<1>5. CASE Dispatcher \/ Tick \/ UNCHANGED vars
  <2>1. UNCHANGED at
    BY <1>5 DEF Dispatcher, WakeSleeper, StartAging, AgeLevel, Spin, StartReaping, ReapDetached,
                Select, Tick, vars
  <2> QED BY <1>1, <2>1
<1> QED BY <1>1, <1>2, <1>3, <1>4, <1>5 DEF Next

-----------------------------------------------------------------------------
(* At the start all mutexes are initialised and free.                      *)
LEMMA InitMutex == SyncInit => MInv
<1> SUFFICES ASSUME SyncInit PROVE MInv
  OBVIOUS
<1> USE SyncAssumption, ThreadAssumption DEF SyncInit, Fresh, Maybe
<1>1. at = [t \in Threads |-> "user"]
  BY DEF Init
<1>2. MutexTypes /\ LiveOK
  BY <1>1 DEF MutexTypes, LiveOK
<1>3. \A t \in Threads : Owned(t) = {}
  BY DEF Owned
<1>4. LockMatchesOwner
  <2>1. \A m \in Mutexes : mutex[m].count = 1 /\ mutex[m].owner = NoThread
    OBVIOUS
  <2>2. \A t \in Threads : held[t] = 0
    OBVIOUS
  <2>3. \A t \in Threads : Cardinality(Owned(t)) = 0
    BY <1>3, FS_EmptySet
  <2>4. \A m \in Mutexes : mutex[m].count > 0 <=> mutex[m].owner = NoThread
    BY <2>1
  <2> HIDE DEF SyncInit
  <2> QED BY <2>2, <2>3, <2>4 DEF LockMatchesOwner
<1> QED BY <1>2, <1>4 DEF MInv

(* Every step keeps the invariant: the calls of pthipth_mutex.c have one of*)
(* the effects above, all others none.                                     *)
LEMMA NextMutex == MInv /\ [SyncNext /\ Owed]_SyncVars => MInv'
<1> SUFFICES ASSUME MInv, [SyncNext /\ Owed]_SyncVars PROVE MInv'
  OBVIOUS
<1>1. ASSUME NEW t \in Threads, SyncCall(t), InitialisedUse PROVE Effect /\ Placed'
  <2>1. ASSUME NEW m \in Mutexes,
               \/ Lock(t, m) \/ Unlock(t, m) \/ MutexInit(t, m) \/ MutexDestroy(t, m)
               \/ \E c \in Conds : CondWait(t, c, m)
        PROVE  Effect /\ Placed'
    BY <1>1, <2>1, MutexCall
  <2>2. ASSUME NEW c \in Conds, CondWaitNon(t, c) \/ Signal(t, c) \/ Broadcast(t, c)
        PROVE  Effect /\ Placed'
    <3>1. UNCHANGED <<mutex, held, wants, at>>
      BY <2>2 DEF CondWaitNon, Suspend, Signal, Broadcast, Notify
    <3> QED BY <3>1, OtherStep DEF MInv, MutexTypes
  <2>3. ASSUME NEW b \in Barriers,
               BarrierBlock(t, b) \/ BarrierOpen(t, b) \/ BarrierInit(t, b) \/ BarrierDestroy(t, b)
        PROVE  Effect /\ Placed'
    <3>1. UNCHANGED <<mutex, held, wants, at>>
      BY <2>3 DEF BarrierBlock, BarrierOpen, BarrierInit, BarrierDestroy
    <3> QED BY <3>1, OtherStep DEF MInv, MutexTypes
  <2>4. CASE LockAgain(t)
    <3>1. wants[t] \in Mutexes /\ mutex[wants[t]].live /\ Attempt(t, wants[t])
      BY <2>4 DEF LockAgain, MInv, LiveOK
    <3> QED BY <3>1, AttemptIs DEF Effect
  <2> QED BY <1>1, <2>1, <2>2, <2>3, <2>4 DEF SyncCall
<1>2. Effect /\ Placed'
  <2>1. CASE UNCHANGED syncVars /\ [Next]_vars
    BY <2>1, SchedulerStep, OtherStep DEF syncVars
  <2>2. CASE UNCHANGED SyncVars
    BY <2>1, <2>2 DEF SyncVars
  <2> QED BY <1>1, <2>1, <2>2 DEF SyncNext, Owed
<1> QED BY <1>2, EffectKept DEF MInv, MutexTypes, LiveOK, Placed, Waits, WaitsLive

(* pthipth_mutex.c keeps its books: the semaphore is free exactly when     *)
(* nobody owns the mutex, and mutex_count is the number of mutexes owned.  *)
THEOREM MutexBooks == SyncSpec => []LockMatchesOwner
<1>1. MInv => LockMatchesOwner
  BY DEF MInv
<1> QED BY InitMutex, NextMutex, <1>1, PTL DEF SyncSpec

-----------------------------------------------------------------------------
(* The walk over blocked_state.                                            *)

(* A finite set of numbers has a largest element, which Max returns.       *)
LEMMA MaxOf ==
  ASSUME NEW n \in Nat, NEW S \in SUBSET (1 .. n), S # {}
  PROVE  Max(S) \in S /\ \A y \in S : y <= Max(S)
<1> DEFINE T == {n - y : y \in S}
<1>1. T \in SUBSET Nat /\ T # {}
  <2>1. \A y \in S : n - y \in Nat
    OBVIOUS
  <2>2. PICK y \in S : TRUE
    OBVIOUS
  <2>3. n - y \in T
    OBVIOUS
  <2> QED BY <2>1, <2>3
<1>2. PICK m \in T : \A z \in T : m <= z
  <2> HIDE DEF T
  <2> QED BY <1>1, MinOf
<1>3. PICK x \in S : m = n - x
  BY <1>2
<1>4. ASSUME NEW y \in S PROVE y <= x
  <2>1. n - x <= n - y /\ x \in Nat /\ y \in Nat
    BY <1>2, <1>3
  <2> QED BY <2>1
<1> QED BY <1>3, <1>4 DEF Max

(* One node of the walk, after the nodes of S without its last.            *)
WakeNode(which, f, S) ==
  IF S = {} THEN sch
  ELSE LET x == Max(S) IN
       IF sch.blocked[x] \in which THEN ChangeState(f[S \ {x}], sch.blocked[x], "READY")
       ELSE f[S \ {x}]

Walk(which, n, f) == f = [S \in SUBSET (1 .. n) |-> WakeNode(which, f, S)]

(* The walk can be taken, for any number of nodes.                         *)
LEMMA WalkExists ==
  ASSUME NEW which, NEW n \in Nat
  PROVE  \E f : Walk(which, n, f)
<1> DEFINE Bad == {k \in Nat : ~ \E f : Walk(which, k, f)}
<1>1. SUFFICES ASSUME Bad # {} PROVE FALSE
  OBVIOUS
<1>2. PICK k \in Bad : \A y \in Bad : k <= y
  <2>1. Bad \in SUBSET Nat
    OBVIOUS
  <2> HIDE DEF Bad
  <2> QED BY <1>1, <2>1, MinOf
<1>3. CASE k = 0
  <2> DEFINE f == [S \in SUBSET (1 .. 0) |-> sch]
  <2>1. \A S \in SUBSET (1 .. 0) : S = {}
    OBVIOUS
  <2>2. \A S \in SUBSET (1 .. 0) : WakeNode(which, f, S) = sch
    BY <2>1 DEF WakeNode
  <2>3. Walk(which, 0, f)
    BY <2>2 DEF Walk
  <2> QED BY <1>2, <1>3, <2>3
<1>4. CASE k # 0
  <2>1. k \in Nat /\ k - 1 \in Nat /\ k - 1 \notin Bad
    BY <1>2, <1>4
  <2>2. PICK g : Walk(which, k - 1, g)
    BY <2>1
  <2> DEFINE f == [S \in SUBSET (1 .. k) |->
                     IF k \in S THEN IF sch.blocked[k] \in which
                                     THEN ChangeState(g[S \ {k}], sch.blocked[k], "READY")
                                     ELSE g[S \ {k}]
                     ELSE g[S]]
  <2>3. \A S \in SUBSET (1 .. k - 1) : g[S] = WakeNode(which, g, S)
    BY <2>2 DEF Walk
  <2>4. ASSUME NEW S \in SUBSET (1 .. k) PROVE f[S] = WakeNode(which, f, S)
    <3>1. CASE k \in S
      <4>1. Max(S) = k /\ S # {}
        <5>1. Max(S) \in S /\ k <= Max(S) /\ S \subseteq 1 .. k
          BY <2>1, <3>1, MaxOf
        <5>2. Max(S) \in 1 .. k
          BY <5>1
        <5> HIDE DEF f
        <5> QED BY <2>1, <3>1, <5>1, <5>2
      <4>2. S \ {k} \in SUBSET (1 .. k) /\ k \notin S \ {k}
        OBVIOUS
      <4>3. f[S \ {k}] = g[S \ {k}]
        BY <4>2
      <4>4. f[S] = IF sch.blocked[k] \in which THEN ChangeState(g[S \ {k}], sch.blocked[k], "READY")
                   ELSE g[S \ {k}]
        BY <3>1
      <4> HIDE DEF f
      <4> QED BY <4>1, <4>3, <4>4 DEF WakeNode
    <3>2. CASE k \notin S
      <4>1. S \in SUBSET (1 .. k - 1)
        BY <2>1, <3>2
      <4>2. f[S] = WakeNode(which, g, S)
        BY <2>3, <3>2, <4>1
      <4>3. S # {} => f[S \ {Max(S)}] = g[S \ {Max(S)}]
        BY <3>2
      <4> HIDE DEF f
      <4> QED BY <4>2, <4>3 DEF WakeNode
    <3> QED BY <3>1, <3>2
  <2>5. Walk(which, k, f)
    <3>1. f = [S \in SUBSET (1 .. k) |-> f[S]]
      OBVIOUS
    <3> HIDE DEF f
    <3> QED BY <2>4, <3>1 DEF Walk
  <2> QED BY <1>2, <2>5
<1> QED BY <1>3, <1>4

USE DEF state, HasTCB, Live, ageVars, joinVars, loopVars

(* WakeAll makes the given threads READY, each in the bucket of its        *)
(* priority, and no others.                                                *)
LEMMA WakeAllIs ==
  ASSUME Filed(sch, prio), PrioOK, NEW which, \A u \in which : u \in Threads /\ state[u] = "BLOCKED"
  PROVE  /\ Filed(WakeAll(which), prio)
         /\ \A v \in Threads : WakeAll(which).state[v] = IF v \in which THEN "READY" ELSE sch.state[v]
<1> DEFINE l == sch.blocked
           N == Len(l)
<1>1. /\ l \in Seq(Threads) /\ N \in Nat /\ DOMAIN l = 1 .. N /\ Once(l)
      /\ \A v \in Threads : Contains(l, v) <=> sch.state[v] = "BLOCKED"
  BY DEF Filed
<1>2. PICK f : Walk(which, N, f) /\ WakeAll(which) = f[1 .. N]
  <2>1. WakeAll(which) = (CHOOSE f : f = [S \in SUBSET (DOMAIN l) |-> WakeNode(which, f, S)])[DOMAIN l]
    BY DEF WakeAll, FoldLeft, MapThenFoldSet, WakeNode
  <2>2. WakeAll(which) = (CHOOSE f : Walk(which, N, f))[1 .. N]
    BY <1>1, <2>1 DEF Walk
  <2>3. \E f : Walk(which, N, f)
    BY <1>1, WalkExists
  <2> QED BY <2>2, <2>3
<1>3. \A S \in SUBSET (1 .. N) : f[S] = WakeNode(which, f, S)
  BY <1>2 DEF Walk
<1> DEFINE Met(k, v) == \E i \in 1 .. k : l[i] = v
           Fine(k) == /\ Filed(f[1 .. k], prio)
                      /\ \A v \in Threads : f[1 .. k].state[v] =
                           IF v \in which /\ Met(k, v) THEN "READY" ELSE sch.state[v]
<1> HIDE DEF l, N
<1>4. Fine(0)
  <2>1. 1 .. 0 = {} /\ {} \in SUBSET (1 .. N)
    OBVIOUS
  <2>2. f[1 .. 0] = sch
    BY <1>3, <2>1 DEF WakeNode
  <2> QED BY <2>1, <2>2
<1>5. ASSUME NEW k \in 1 .. N, Fine(k - 1) PROVE Fine(k)
  <2> DEFINE s == f[1 .. k - 1]
             u == l[k]
  <2>1. k \in Nat /\ 1 .. k \in SUBSET (1 .. N) /\ 1 .. k # {} /\ u \in Threads
    BY <1>1
  <2>2. Max(1 .. k) = k
    <3>1. Max(1 .. k) \in 1 .. k /\ \A y \in 1 .. k : y <= Max(1 .. k)
      BY <2>1, MaxOf
    <3> QED BY <2>1, <3>1
  <2>3. (1 .. k) \ {k} = 1 .. k - 1
    BY <2>1
  <2>4. f[1 .. k] = IF u \in which THEN ChangeState(s, u, "READY") ELSE s
    BY <1>3, <2>1, <2>2, <2>3 DEF WakeNode, l
  <2>5. \A v \in Threads : Met(k, v) <=> Met(k - 1, v) \/ v = u
    BY <2>1
  <2>6. ~Met(k - 1, u)
    BY <1>1, <2>1 DEF Once
  <2>7. /\ Filed(s, prio)
        /\ \A v \in Threads : s.state[v] = IF v \in which /\ Met(k - 1, v) THEN "READY" ELSE sch.state[v]
    BY <1>5
  <2> HIDE DEF s, u, Met
  <2>8. CASE u \in which
    <3>1. s.state[u] \in {"BLOCKED", "SLEEPING"}
      BY <2>1, <2>6, <2>7, <2>8
    <3>2. prio[u] # IdlePriority
      BY <2>1, <2>7, <3>1, IdleIs DEF PrioOK, OnProcessor
    <3>3. f[1 .. k] = StateChange(s, u, "READY", prio[u])
      BY <2>4, <2>8 DEF ChangeState
    <3>4. /\ Filed(f[1 .. k], prio)
          /\ \A v \in Threads : f[1 .. k].state[v] = IF v = u THEN "READY" ELSE s.state[v]
      BY <2>1, <2>7, <3>1, <3>2, <3>3, Woken
    <3> QED BY <2>5, <2>7, <2>8, <3>4
  <2>9. CASE u \notin which
    BY <2>4, <2>5, <2>7, <2>9
  <2> QED BY <2>8, <2>9
<1>6. Fine(N)
  <2> DEFINE Bad == {k \in 0 .. N : ~Fine(k)}
  <2> HIDE DEF Fine
  <2> SUFFICES ASSUME Bad # {} PROVE FALSE
    BY <1>1
  <2>1. PICK k \in Bad : \A y \in Bad : k <= y
    <3>1. Bad \in SUBSET Nat
      BY <1>1
    <3> HIDE DEF Bad
    <3> QED BY <3>1, MinOf
  <2>2. k # 0
    BY <1>4, <2>1
  <2>3. k \in 1 .. N /\ k - 1 \in 0 .. N /\ k - 1 \notin Bad
    BY <1>1, <2>1, <2>2
  <2> QED BY <1>5, <2>1, <2>3
<1>7. \A v \in Threads : v \in which => Met(N, v)
  BY <1>1 DEF Contains
<1> QED BY <1>2, <1>6, <1>7

-----------------------------------------------------------------------------
(* What a call of this module does to the scheduler.                       *)

(* HIGHEST_PRIORITY - 1 is a priority, and not that of the idle thread.    *)
LEMMA BoostRange == Highest - 1 \in Priorities \ {IdlePriority} /\ Highest \in Nat
BY PriorityAssumption, BucketAssumption DEF Priorities

(* A thread other than the idle one gives itself a new old_priority.       *)
Renews(t) ==
  /\ t # IdleThread /\ old' \in [Threads -> Priorities] /\ old'[t] # IdlePriority
  /\ \A v \in Threads \ {t} : old'[v] = old[v]

(* A step of the running thread that touches no other: it goes on, or it   *)
(* enters the dispatcher, blocked or not.                                  *)
Own(t) ==
  /\ t = cur /\ phase = "run" /\ state[t] = "RUNNING" /\ at[t] # "reaping"
  /\ left' \in [Threads -> Nat]
  /\ UNCHANGED <<defunct, last, wake, joinVars, cur, level, now>>
  /\ UNCHANGED old \/ Renews(t)
  /\ at' \in [Threads -> {"user", "reaping", "locking"}] /\ at'[t] # "reaping"
  /\ Filed(sch', prio')
  /\ \A v \in Threads \ {t} :
       sch'.state[v] = sch.state[v] /\ prio'[v] = prio[v] /\ at'[v] = at[v]
  /\ prio'[t] = prio[t] \/ (t # IdleThread /\ prio'[t] # IdlePriority)
  /\ \/ sch'.state[t] = "RUNNING" /\ phase' = "run" /\ UNCHANGED todo
     \/ sch'.state[t] \in {"RUNNING", "BLOCKED"} /\ phase' = "sleepers" /\ todo' = sch.sleeping

(* A step of the running thread that wakes blocked threads.  It may enter  *)
(* the dispatcher as well.                                                 *)
Waking(t, which) ==
  /\ InUser(t) /\ left' \in [Threads -> Nat]
  /\ UNCHANGED <<defunct, ageVars, wake, joinVars, at, cur, level, now>>
  /\ UNCHANGED <<phase, todo>> \/ Dispatch(sch.sleeping)
  /\ which \subseteq Threads /\ \A u \in which : state[u] = "BLOCKED"
  /\ sch' = WakeAll(which)

(* The lists stay right when a thread acts on itself.                      *)
LEMMA OwnInv ==
  ASSUME IInv, NEW t \in Threads, Own(t)
  PROVE  IInv' /\ (Prompt => Prompt')
<1>1. /\ t = cur /\ phase = "run" /\ state[t] = "RUNNING" /\ at[t] # "reaping" /\ at'[t] # "reaping"
      /\ \A v \in Threads : v # t => sch'.state[v] = sch.state[v] /\ prio'[v] = prio[v] /\ at'[v] = at[v]
      /\ sch'.state[t] \in {"RUNNING", "BLOCKED"}
  BY DEF Own
<1>2. UNCHANGED <<defunct, last, wake, joiner, detached, exited, target, cur, level, now>>
  BY DEF Own
<1>3. todo' \in Seq(Threads) /\ phase' \in {"run", "sleepers"}
  BY DEF Own, IInv, TypeOK
<1>4. TypeOK'
  <2>1. sch'.state = [v \in Threads |-> sch'.state[v]] /\ prio' \in [Threads -> Priorities]
    BY DEF Own, Filed
  <2>2. \A v \in Threads : sch'.state[v] \in States
    BY <1>1 DEF IInv, TypeOK, States
  <2>3. sch'.state \in [Threads -> States]
    BY <2>1, <2>2
  <2>4. old' \in [Threads -> Priorities]
    BY DEF Own, Renews, IInv, TypeOK
  <2> QED BY <1>3, <2>1, <2>3, <2>4, FiledTypes DEF Own, IInv, TypeOK
<1>5. PrioOK' /\ DefunctOK' /\ FreshOK' /\ FreedOK'
  BY <1>1, <1>2 DEF Own, Renews, IInv, PrioOK, DefunctOK, FreshOK, FreedOK, InitPriority
<1>6. OneRunning'
  BY <1>1, <1>2 DEF Own, IInv, OneRunning
<1>7. LoopOK'
  <2>1. CASE phase' = "run"
    BY <1>1, <2>1 DEF Own, IInv, LoopOK
  <2>2. CASE phase' = "sleepers" /\ todo' = sch.sleeping
    <3>1. \A v \in Threads : Contains(sch.sleeping, v) => sch'.state[v] = "SLEEPING"
      BY <1>1 DEF IInv, Filed
    <3> QED BY <2>2, <3>1 DEF LoopOK
  <2> QED BY <2>1, <2>2 DEF Own
<1>8. JoinOK'
  BY <1>1, <1>2, JoinKept DEF IInv, TypeOK, OnProcessor
<1>9. IInv'
  BY <1>4, <1>5, <1>6, <1>7, <1>8 DEF Own, IInv
<1> QED BY <1>1, <1>2, <1>9, PromptKept

(* They stay right when blocked threads are woken; that keeps Prompt if    *)
(* none of them is in a join.                                              *)
LEMMA WakingInv ==
  ASSUME IInv, NEW t \in Threads, NEW which, Waking(t, which)
  PROVE  /\ IInv'
         /\ Prompt /\ (\A u \in which : at[u] # "reaping") => Prompt'
         /\ \A v \in Threads : sch'.state[v] = IF v \in which THEN "READY" ELSE sch.state[v]
<1>1. t = cur /\ phase = "run" /\ at[t] = "user" /\ state[t] = "RUNNING" /\ todo = <<>>
  BY Caller DEF Waking
<1>2. /\ UNCHANGED <<defunct, prio, old, last, wake, joiner, detached, exited, target, at, cur,
                     level, now>>
      /\ UNCHANGED <<phase, todo>> \/ (phase' = "sleepers" /\ todo' = sch.sleeping)
  BY DEF Waking, Dispatch
<1>3. /\ \A u \in which : u \in Threads /\ state[u] = "BLOCKED"
      /\ sch' = WakeAll(which)
  BY DEF Waking
<1>4. /\ Filed(sch', prio)
      /\ \A v \in Threads : sch'.state[v] = IF v \in which THEN "READY" ELSE sch.state[v]
  BY <1>3, WakeAllIs DEF IInv
<1>5. TypeOK'
  <2>1. sch'.state = [v \in Threads |-> sch'.state[v]]
    BY <1>4 DEF Filed
  <2>2. \A v \in Threads : sch'.state[v] \in States
    BY <1>4 DEF IInv, TypeOK, States
  <2>3. sch'.state \in [Threads -> States]
    BY <2>1, <2>2
  <2>4. phase' \in {"run", "sleepers"} /\ todo' \in Seq(Threads)
    BY <1>1, <1>2 DEF IInv, TypeOK
  <2> QED BY <1>2, <1>4, <2>3, <2>4, FiledTypes DEF Waking, IInv, TypeOK
<1>6. PrioOK' /\ DefunctOK' /\ OneRunning' /\ FreshOK' /\ FreedOK'
  BY <1>1, <1>2, <1>3, <1>4
  DEF IInv, PrioOK, DefunctOK, OneRunning, FreshOK, FreedOK, InitPriority
<1>7. LoopOK'
  <2>1. ASSUME NEW v \in Threads, Contains(sch.sleeping, v) PROVE sch'.state[v] = "SLEEPING"
    <3>1. sch.state[v] = "SLEEPING"
      BY <2>1 DEF IInv, Filed
    <3> QED BY <1>3, <1>4, <3>1
  <2> QED BY <1>1, <1>2, <2>1 DEF LoopOK
<1>8. JoinOK'
  BY <1>1, <1>2, <1>3, <1>4, JoinKept DEF IInv, TypeOK, OnProcessor
<1>9. IInv'
  BY <1>2, <1>4, <1>5, <1>6, <1>7, <1>8 DEF IInv
<1>10. ASSUME Prompt, \A u \in which : at[u] # "reaping" PROVE Prompt'
  BY <1>2, <1>3, <1>4, <1>9, <1>10, PromptKept
<1> QED BY <1>4, <1>9, <1>10

(* The idle thread takes no mutex (pthipth_idle).                          *)
IdleOK == at[IdleThread] # "locking" /\ \A m \in Mutexes : mutex[m].owner # IdleThread

(* The running thread changes its own priority.                            *)
Moves(t, p) == prio' = [prio EXCEPT ![t] = p] /\ sch' = [sch EXCEPT !.bq = BqReinsert(@, t, p)]

LEMMA Reprioritise ==
  ASSUME IInv, NEW t \in Threads \ {IdleThread}, state[t] = "RUNNING",
         NEW p \in Priorities \ {IdlePriority}, Moves(t, p)
  PROVE  /\ Filed(sch', prio') /\ \A v \in Threads : sch'.state[v] = sch.state[v]
         /\ \A v \in Threads : prio'[v] = IF v = t THEN p ELSE prio[v]
<1>1. Filed(sch, prio) /\ sch.state[t] \in OnProcessor
  BY DEF IInv, OnProcessor
<1>2. prio' = [prio EXCEPT ![t] = p] /\ sch' = [sch EXCEPT !.bq = BqReinsert(@, t, p)]
  BY DEF Moves
<1>3. Filed(sch', prio')
  BY <1>1, <1>2, Reprioritised
<1>4. \A v \in Threads : sch'.state[v] = sch.state[v]
  BY <1>1, <1>2, Reprioritised
<1>5. prio \in [Threads -> Priorities]
  BY DEF IInv, TypeOK
<1> QED BY <1>2, <1>3, <1>4, <1>5

(* The running thread blocks.                                              *)
LEMMA Blocks ==
  ASSUME IInv, NEW t \in Threads \ {IdleThread}, state[t] = "RUNNING",
         sch' = ChangeState(sch, t, "BLOCKED")
  PROVE  /\ Filed(sch', prio)
         /\ \A v \in Threads : sch'.state[v] = IF v = t THEN "BLOCKED" ELSE sch.state[v]
<1>1. sch' = StateChange(sch, t, "BLOCKED", prio[t])
  BY DEF ChangeState
<1> QED BY <1>1, LeavesProcessor

(* One attempt to take a mutex.                                            *)
LEMMA AttemptOwn ==
  ASSUME IInv, MInv, NEW t \in Threads \ {IdleThread}, NEW m \in Mutexes, Attempt(t, m),
         t = cur, phase = "run", at[t] # "reaping", left' \in [Threads -> Nat],
         UNCHANGED <<defunct, old, last, wake, joinVars, cur, level, now>>
  PROVE  /\ Own(t) /\ sch'.state[t] = "RUNNING"
         /\ \/ /\ mutex[m].count > 0
               /\ mutex' = [mutex EXCEPT ![m].count = 0, ![m].owner = t]
               /\ at'[t] = "user" /\ prio'[t] = Highest - 1
            \/ /\ mutex[m].count <= 0 /\ mutex' = [mutex EXCEPT ![m].count = -1]
               /\ at'[t] = "locking"
<1>1. state[t] = "RUNNING" /\ at \in [Threads -> {"user", "reaping", "locking"}]
  BY DEF IInv, OneRunning, TypeOK
<1>2. CASE mutex[m].count > 0 /\ Taken(t, m) /\ at' = [at EXCEPT ![t] = "user"] /\ UNCHANGED <<phase, todo>>
  <2>1. Moves(t, Highest - 1) /\ mutex' = [mutex EXCEPT ![m].count = 0, ![m].owner = t]
    BY <1>2 DEF Taken, Moves
  <2>2. /\ Filed(sch', prio') /\ \A v \in Threads : sch'.state[v] = sch.state[v]
        /\ \A v \in Threads : prio'[v] = IF v = t THEN Highest - 1 ELSE prio[v]
    BY <1>1, <2>1, BoostRange, Reprioritise
  <2>3. /\ at' \in [Threads -> {"user", "reaping", "locking"}] /\ at'[t] = "user"
        /\ \A v \in Threads \ {t} : at'[v] = at[v]
    BY <1>1, <1>2
  <2> QED BY <1>1, <1>2, <2>1, <2>2, <2>3, BoostRange DEF Own
<1>3. CASE /\ mutex[m].count <= 0 /\ mutex' = [mutex EXCEPT ![m].count = -1]
           /\ at' = [at EXCEPT ![t] = "locking"]
           /\ Dispatch(sch.sleeping) /\ UNCHANGED <<sch, prio>>
  <2>1. /\ at' \in [Threads -> {"user", "reaping", "locking"}] /\ at'[t] = "locking"
        /\ \A v \in Threads \ {t} : at'[v] = at[v]
    BY <1>1, <1>3
  <2>2. Filed(sch', prio')
    BY <1>3 DEF IInv
  <2> QED BY <1>1, <1>3, <2>1, <2>2 DEF Own, Dispatch
<1> QED BY <1>2, <1>3 DEF Attempt

(* The calls by which a thread acts on itself.                             *)
LEMMA LockOwn ==
  ASSUME IInv, MInv, NEW t \in Threads, NEW m \in Mutexes, Lock(t, m)
  PROVE  Own(t)
<1>1. InUser(t) /\ left' \in [Threads -> Nat] /\ t # IdleThread
  BY Spent, NotIdle DEF Lock
<1> QED BY <1>1, Caller, AttemptOwn DEF Lock

(* The next attempt of a thread that is in pthipth_mutex_lock.             *)
LEMMA LockAgainOwn ==
  ASSUME IInv, MInv, IdleOK, NEW t \in Threads, LockAgain(t)
  PROVE  Own(t) /\ wants[t] \in Mutexes
<1>1. t # IdleThread /\ wants[t] \in Mutexes
  BY DEF LockAgain, IdleOK, MInv, LiveOK
<1>2. left' \in [Threads -> Nat]
  BY DEF LockAgain, IInv, TypeOK
<1> QED BY <1>1, <1>2, AttemptOwn DEF LockAgain

(* The last unlock gives the thread its own priority back.                 *)
LEMMA UnlockOwn ==
  ASSUME IInv, MInv, IdleOK, NEW t \in Threads, NEW m \in Mutexes, Unlock(t, m)
  PROVE  /\ Own(t) /\ sch'.state[t] = "RUNNING"
         /\ prio'[t] = IF held[t] = 1 THEN old[t] ELSE prio[t]
<1>1. t = cur /\ phase = "run" /\ at[t] = "user" /\ state[t] = "RUNNING" /\ t # IdleThread
  BY Caller DEF Unlock, IdleOK
<1>2. at \in [Threads -> {"user", "reaping", "locking"}] /\ left \in [Threads -> Nat]
  BY DEF IInv, TypeOK
<1>3. /\ UNCHANGED <<defunct, old, last, wake, joinVars, at, left, cur, phase, todo, level, now>>
  BY DEF Unlock
<1>4. /\ Filed(sch', prio') /\ \A v \in Threads : sch'.state[v] = sch.state[v]
      /\ \A v \in Threads : prio'[v] = IF v = t /\ held[t] = 1 THEN old[t] ELSE prio[v]
  <2>1. CASE held[t] = 1
    <3>1. Moves(t, old[t])
      BY <2>1 DEF Unlock, Moves
    <3>2. old[t] \in Priorities \ {IdlePriority}
      BY <1>1 DEF IInv, TypeOK, PrioOK
    <3>3. /\ Filed(sch', prio') /\ \A v \in Threads : sch'.state[v] = sch.state[v]
          /\ \A v \in Threads : prio'[v] = IF v = t THEN old[t] ELSE prio[v]
      BY <1>1, <3>1, <3>2, Reprioritise
    <3> QED BY <2>1, <3>3
  <2>2. CASE held[t] # 1
    <3>1. UNCHANGED <<prio, sch>>
      BY <2>2 DEF Unlock
    <3> QED BY <2>2, <3>1 DEF IInv
  <2> QED BY <2>1, <2>2
<1>5. t # IdleThread => prio'[t] # IdlePriority
  BY <1>4 DEF IInv, PrioOK
<1> QED BY <1>1, <1>2, <1>3, <1>4, <1>5 DEF Own

(* A thread waits for a condition or in a barrier.                         *)
LEMMA CondWaitOwn ==
  ASSUME IInv, NEW t \in Threads, NEW c \in Conds, NEW m \in Mutexes, CondWait(t, c, m)
  PROVE  Own(t) /\ sch'.state[t] = "BLOCKED" /\ at'[t] = "locking"
<1>1. InUser(t) /\ left' \in [Threads -> Nat] /\ t # IdleThread
  BY Spent, NotIdle DEF CondWait
<1>2. t = cur /\ phase = "run" /\ at[t] = "user" /\ state[t] = "RUNNING"
  BY <1>1, Caller
<1>3. /\ Filed(sch', prio)
      /\ \A v \in Threads : sch'.state[v] = IF v = t THEN "BLOCKED" ELSE sch.state[v]
  BY <1>1, <1>2, Blocks DEF CondWait
<1>4. /\ at' \in [Threads -> {"user", "reaping", "locking"}] /\ at'[t] = "locking"
      /\ \A v \in Threads \ {t} : at'[v] = at[v]
  BY DEF CondWait, IInv, TypeOK
<1> QED BY <1>1, <1>2, <1>3, <1>4 DEF CondWait, Dispatch, Own

(* A thread waits for a condition without a mutex.                         *)
LEMMA SuspendOwn ==
  ASSUME IInv, NEW t \in Threads \ {IdleThread}, InUser(t), left' \in [Threads -> Nat],
         NEW c, Suspend(t, c)
  PROVE  Own(t) /\ sch'.state[t] = "BLOCKED" /\ at[t] = "user"
<1>1. t = cur /\ phase = "run" /\ at[t] = "user" /\ state[t] = "RUNNING"
  BY Caller
<1>2. /\ Filed(sch', prio)
      /\ \A v \in Threads : sch'.state[v] = IF v = t THEN "BLOCKED" ELSE sch.state[v]
  BY <1>1, Blocks DEF Suspend
<1>3. at' \in [Threads -> {"user", "reaping", "locking"}]
  BY DEF Suspend, IInv, TypeOK
<1> QED BY <1>1, <1>2, <1>3 DEF Suspend, Dispatch, Own

LEMMA CondWaitNonOwn ==
  ASSUME IInv, NEW t \in Threads, NEW c \in Conds, CondWaitNon(t, c)
  PROVE  Own(t) /\ sch'.state[t] = "BLOCKED" /\ at[t] = "user"
BY SuspendOwn, Spent, NotIdle DEF CondWaitNon

(* A thread that is not the last of its round blocks in the barrier.       *)
LEMMA BarrierBlockOwn ==
  ASSUME IInv, NEW t \in Threads, NEW b \in Barriers, BarrierBlock(t, b)
  PROVE  Own(t) /\ sch'.state[t] = "BLOCKED" /\ at[t] = "user"
<1>1. InUser(t) /\ left' \in [Threads -> Nat] /\ t # IdleThread
  BY Spent, NotIdle DEF BarrierBlock
<1>2. t = cur /\ phase = "run" /\ at[t] = "user" /\ state[t] = "RUNNING"
  BY <1>1, Caller
<1>3. /\ Filed(sch', prio)
      /\ \A v \in Threads : sch'.state[v] = IF v = t THEN "BLOCKED" ELSE sch.state[v]
  BY <1>1, <1>2, Blocks DEF BarrierBlock
<1>4. at' \in [Threads -> {"user", "reaping", "locking"}]
  BY DEF BarrierBlock, IInv, TypeOK
<1> QED BY <1>1, <1>2, <1>3, <1>4 DEF BarrierBlock, Dispatch, Own

(* Initialisation and destruction touch no thread.                         *)
LEMMA QuietOwn ==
  ASSUME IInv, NEW t \in Threads, NEW m, NEW b,
         MutexInit(t, m) \/ MutexDestroy(t, m) \/ BarrierInit(t, b) \/ BarrierDestroy(t, b)
  PROVE  Own(t) /\ UNCHANGED <<sch, at, prio, old>>
<1>1. /\ InUser(t) /\ left' \in [Threads -> Nat]
      /\ UNCHANGED <<sch, defunct, ageVars, wake, joinVars, at, cur, phase, loopVars, now>>
  BY Spent DEF MutexInit, MutexDestroy, BarrierInit, BarrierDestroy
<1>2. t = cur /\ phase = "run" /\ at[t] = "user" /\ state[t] = "RUNNING"
  BY <1>1, Caller
<1>3. Filed(sch', prio') /\ at' \in [Threads -> {"user", "reaping", "locking"}]
  BY <1>1 DEF IInv, TypeOK
<1> QED BY <1>1, <1>2, <1>3 DEF Own

(* pthipth_cond_signal and pthipth_cond_broadcast wake waiters, the last   *)
(* thread of a barrier those whose current_barrier it is.                  *)
LEMMA SignalledIs ==
  ASSUME IInv, NEW c, Waiters(c) # {}
  PROVE  Signalled(c) \in Waiters(c)
<1> DEFINE S == {i \in DOMAIN sch.blocked : sch.blocked[i] \in Waiters(c)}
<1>1. sch.blocked \in Seq(Threads)
  BY DEF IInv, Filed
<1>2. PICK u \in Waiters(c) : TRUE
  OBVIOUS
<1>3. u \in Threads /\ state[u] = "BLOCKED"
  BY DEF Waiters
<1>4. Contains(sch.blocked, u)
  BY <1>3 DEF IInv, Filed
<1>5. S # {}
  BY <1>1, <1>4 DEF Contains
<1>6. S \in SUBSET Nat
  BY <1>1
<1>7. Min(S) \in S
  BY <1>5, <1>6, MinOf
<1> QED BY <1>7 DEF Signalled

(* Signal and broadcast wake nobody but waiters of the condition.          *)
LEMMA NotifyWaking ==
  ASSUME IInv, NEW t \in Threads, NEW c \in Conds, Signal(t, c) \/ Broadcast(t, c)
  PROVE  \E which \in SUBSET Waiters(c) : Waking(t, which) /\ Notify(t, which)
<1>1. PICK which \in SUBSET Waiters(c) : Notify(t, which)
  BY SignalledIs DEF Signal, Broadcast
<1>2. InUser(t) /\ left' \in [Threads -> Nat]
  BY Spent DEF Signal, Broadcast
<1>3. which \subseteq Threads /\ \A u \in which : state[u] = "BLOCKED"
  BY DEF Waiters
<1> QED BY <1>1, <1>2, <1>3 DEF Notify, Waking

(* The threads that the last arrival wakes: blocked, wherever, and with    *)
(* that current_barrier.                                                   *)
InBarrier(b) == {u \in Threads : state[u] = "BLOCKED" /\ onBarrier[u] = b}

(* pthipth_barrier_wait of the last thread wakes exactly these.            *)
LEMMA BarrierWaking ==
  ASSUME IInv, NEW t \in Threads, NEW b \in Barriers, BarrierOpen(t, b)
  PROVE  Waking(t, InBarrier(b))
<1>1. InUser(t) /\ left' \in [Threads -> Nat]
  BY Spent DEF BarrierOpen
<1> QED BY <1>1 DEF BarrierOpen, Waking, InBarrier

-----------------------------------------------------------------------------
(* Mutexes, conditions and barriers leave the scheduler in order: its      *)
(* invariant holds with them as well, for any program.                     *)
SInv == IInv /\ MInv /\ IdleOK

(* A call of this module is one of the two kinds of step above.            *)
LEMMA CallIs ==
  ASSUME SInv, NEW t \in Threads, SyncCall(t)
  PROVE  Own(t) \/ \E which : Waking(t, which)
<1> USE DEF SInv
<1>1. ASSUME NEW m \in Mutexes,
             \/ Lock(t, m) \/ Unlock(t, m) \/ MutexInit(t, m) \/ MutexDestroy(t, m)
             \/ \E c \in Conds : CondWait(t, c, m)
      PROVE  Own(t)
  BY <1>1, LockOwn, UnlockOwn, QuietOwn, CondWaitOwn
<1>2. ASSUME NEW c \in Conds, CondWaitNon(t, c) \/ Signal(t, c) \/ Broadcast(t, c)
      PROVE  Own(t) \/ \E which : Waking(t, which)
  BY <1>2, CondWaitNonOwn, NotifyWaking
<1>3. ASSUME NEW b \in Barriers,
             BarrierBlock(t, b) \/ BarrierOpen(t, b) \/ BarrierInit(t, b) \/ BarrierDestroy(t, b)
      PROVE  Own(t) \/ \E which : Waking(t, which)
  BY <1>3, BarrierBlockOwn, BarrierWaking, QuietOwn
<1>4. CASE LockAgain(t)
  BY <1>4, LockAgainOwn
<1> QED BY <1>1, <1>2, <1>3, <1>4 DEF SyncCall

(* No call of this module changes old_priority.                            *)
LEMMA OldStays ==
  ASSUME NEW t \in Threads, SyncCall(t)
  PROVE  UNCHANGED old
BY DEF SyncCall, Lock, LockAgain, Unlock, CondWait, CondWaitNon, Suspend, Signal, Broadcast, Notify,
       BarrierBlock, BarrierOpen, MutexInit, MutexDestroy, BarrierInit, BarrierDestroy

(* Whoever is about to lock, or owns a mutex, made a call: not idle.       *)
LEMMA IdleKept ==
  ASSUME SInv, NEW t \in Threads, SyncCall(t)
  PROVE  IdleOK'
<1> USE DEF SInv
<1>0. /\ at \in [Threads -> {"user", "reaping", "locking"}] /\ IdleThread \in Threads
      /\ mutex \in [Mutexes -> [live : BOOLEAN, count : Int, owner : Maybe(Threads)]]
      /\ NoThread # IdleThread
  BY BucketAssumption, ThreadAssumption DEF MInv, MutexTypes
<1>1. ASSUME t # IdleThread, \A v \in Threads \ {t} : at'[v] = at[v],
             \A m \in Mutexes : mutex'[m].owner \in {mutex[m].owner, t, NoThread}
      PROVE  IdleOK'
  BY <1>0, <1>1 DEF IdleOK
<1>2. ASSUME UNCHANGED at, \A m \in Mutexes : mutex'[m].owner \in {mutex[m].owner, NoThread}
      PROVE  IdleOK'
  BY <1>0, <1>2 DEF IdleOK
<1>3. ASSUME t # IdleThread, NEW m \in Mutexes, Attempt(t, m) PROVE IdleOK'
  <2>1. \A v \in Threads \ {t} : at'[v] = at[v]
    BY <1>0, <1>3 DEF Attempt
  <2>2. \/ mutex' = [mutex EXCEPT ![m].count = 0, ![m].owner = t]
        \/ mutex' = [mutex EXCEPT ![m].count = -1]
    BY <1>3 DEF Attempt, Taken
  <2>3. \A x \in Mutexes : mutex'[x].owner \in {mutex[x].owner, t, NoThread}
    BY <1>0, <2>2
  <2> QED BY <1>1, <1>3, <2>1, <2>3
<1>4. ASSUME NEW m \in Mutexes, Lock(t, m) PROVE IdleOK'
  BY <1>3, <1>4, NotIdle DEF Lock
<1>5. ASSUME NEW m \in Mutexes, Unlock(t, m) PROVE IdleOK'
  <2>1. UNCHANGED at /\ mutex' = [mutex EXCEPT ![m].count = 1, ![m].owner = NoThread]
    BY <1>5 DEF Unlock, Release
  <2> QED BY <1>0, <1>2, <2>1
<1>6. ASSUME NEW m \in Mutexes, MutexInit(t, m) \/ MutexDestroy(t, m) PROVE IdleOK'
  <2>1. /\ UNCHANGED at
        /\ mutex' = [mutex EXCEPT ![m] = Fresh] \/ mutex' = [mutex EXCEPT ![m].live = FALSE]
    BY <1>6 DEF MutexInit, MutexDestroy
  <2>2. \A x \in Mutexes : mutex'[x].owner \in {mutex[x].owner, NoThread}
    BY <1>0, <2>1 DEF Fresh
  <2> QED BY <1>2, <2>1, <2>2
<1>7. ASSUME NEW c \in Conds, NEW m \in Mutexes, CondWait(t, c, m) PROVE IdleOK'
  <2>1. t # IdleThread /\ \A v \in Threads \ {t} : at'[v] = at[v]
    BY <1>0, <1>7, NotIdle DEF CondWait
  <2>2. UNCHANGED mutex \/ mutex' = [mutex EXCEPT ![m].count = 1, ![m].owner = NoThread]
    BY <1>7 DEF CondWait, Release
  <2>3. \A x \in Mutexes : mutex'[x].owner \in {mutex[x].owner, t, NoThread}
    BY <1>0, <2>2
  <2> QED BY <1>1, <2>1, <2>3
<1>8. ASSUME NEW c \in Conds, CondWaitNon(t, c) \/ Signal(t, c) \/ Broadcast(t, c) PROVE IdleOK'
  BY <1>2, <1>8 DEF CondWaitNon, Suspend, Signal, Broadcast, Notify
<1>9. ASSUME NEW b \in Barriers,
             BarrierBlock(t, b) \/ BarrierOpen(t, b) \/ BarrierInit(t, b) \/ BarrierDestroy(t, b)
      PROVE  IdleOK'
  BY <1>2, <1>9 DEF BarrierBlock, BarrierOpen, BarrierInit, BarrierDestroy
<1>10. CASE LockAgain(t)
  BY <1>3, <1>10 DEF LockAgain, MInv, LiveOK, IdleOK
<1> QED BY <1>4, <1>5, <1>6, <1>7, <1>8, <1>9, <1>10 DEF SyncCall

(* At the start.                                                           *)
LEMMA InitSync == SyncInit => SInv /\ Prompt
<1> SUFFICES ASSUME SyncInit PROVE SInv /\ Prompt
  OBVIOUS
<1>1. IInv /\ Prompt /\ MInv
  BY InitInv, InitMutex DEF SyncInit
<1>2. IdleOK
  BY BucketAssumption, ThreadAssumption DEF SyncInit, Init, Fresh, IdleOK
<1> QED BY <1>1, <1>2 DEF SInv

(* Every step keeps it.                                                    *)
LEMMA NextSync == SInv /\ [SyncNext /\ Owed]_SyncVars => SInv'
<1> SUFFICES ASSUME SInv, [SyncNext /\ Owed]_SyncVars PROVE SInv'
  OBVIOUS
<1>1. MInv'
  BY NextMutex DEF SInv
<1>2. ASSUME NEW t \in Threads, SyncCall(t) PROVE IInv' /\ IdleOK'
  BY <1>2, CallIs, OwnInv, WakingInv, IdleKept DEF SInv
<1>3. CASE [Next]_vars /\ UNCHANGED syncVars
  <2>1. IInv'
    BY <1>3, NextInv DEF SInv, Preserved
  <2>2. at'[IdleThread] = "locking" => at[IdleThread] = "locking"
    BY <1>3, SchedulerStep, BucketAssumption DEF SInv
  <2>3. IdleOK'
    BY <1>3, <2>2 DEF SInv, IdleOK, syncVars
  <2> QED BY <1>1, <2>1, <2>3 DEF SInv
<1>4. CASE UNCHANGED SyncVars
  <2>1. [Next]_vars /\ UNCHANGED syncVars
    BY <1>4 DEF SyncVars
  <2> QED BY <1>3, <2>1
<1> QED BY <1>1, <1>2, <1>3, <1>4 DEF SyncNext, SInv

(* The inductive invariant of scheduler, mutexes, conditions and barriers. *)
THEOREM SyncInvariance == SyncSpec => []SInv
<1>1. SyncInit => SInv
  BY InitSync
<1> QED BY <1>1, NextSync, PTL DEF SyncSpec

(* With mutexes, conditions and barriers, too, a TCB is on the list of its *)
(* state, once, and in the bucket of its priority, the boosted one while it*)
(* holds a mutex.                                                          *)
THEOREM SyncOneList == SyncSpec => []OneList
<1>1. SInv => OneList
  BY InvOneList DEF SInv
<1> QED BY <1>1, SyncInvariance, PTL

(* Only cur_pthipth is RUNNING, whoever is woken by a condition or barrier.*)
THEOREM SyncOneRunning == SyncSpec => []OneRunning
<1>1. SInv => OneRunning
  BY DEF SInv, IInv
<1> QED BY <1>1, SyncInvariance, PTL

(* Nothing points to a freed TCB, although a barrier may wake a thread in  *)
(* the middle of its join.                                                 *)
THEOREM SyncNoDangling == SyncSpec => []NoDangling
<1>1. SInv => NoDangling
  BY InvNoDangling DEF SInv
<1> QED BY <1>1, SyncInvariance, PTL

(* A call of Sync changes neither old_priority nor last_selected nor the   *)
(* time, and it creates nobody.                                            *)
LEMMA CallAges ==
  ASSUME SInv, NEW t \in Threads, SyncCall(t)
  PROVE  /\ UNCHANGED <<old, last, now, cur>>
         /\ \A v \in Threads : state[v] = "none" => state'[v] = "none"
<1>1. UNCHANGED old
  BY OldStays
<1>2. CASE Own(t)
  BY <1>1, <1>2 DEF Own
<1>3. ASSUME NEW which, Waking(t, which)
      PROVE  /\ UNCHANGED <<last, now, cur>>
             /\ \A v \in Threads : state[v] = "none" => state'[v] = "none"
  <2>1. /\ sch' = WakeAll(which) /\ UNCHANGED <<last, now, cur>>
        /\ \A u \in which : u \in Threads /\ state[u] = "BLOCKED"
    BY <1>3 DEF Waking
  <2>2. \A v \in Threads : sch'.state[v] = IF v \in which THEN "READY" ELSE sch.state[v]
    BY <2>1, WakeAllIs DEF SInv, IInv
  <2> QED BY <2>1, <2>2
<1> QED BY <1>1, <1>2, <1>3, CallIs

(* Ageing is earned with mutexes, conditions and barriers as well: the     *)
(* boost is not in old_priority, and whoever is woken keeps last_selected. *)
THEOREM SyncAgeEarned ==
  SyncSpec /\ AgeStart /\ [][Recorded]_<<SyncVars, ageHistory>> => []AgeEarned
<1>1. SyncInit /\ AgeStart => AgeOK /\ WaitOK
  BY InitAge, InitWait DEF SyncInit
<1>2. SInv /\ AgeOK /\ WaitOK /\ [SyncNext /\ Owed]_SyncVars
        /\ [Recorded]_<<SyncVars, ageHistory>> => (AgeOK /\ WaitOK)'
  <2> SUFFICES ASSUME SInv, AgeOK, WaitOK, [SyncNext /\ Owed]_SyncVars,
                      [Recorded]_<<SyncVars, ageHistory>>
               PROVE  (AgeOK /\ WaitOK)'
    OBVIOUS
  <2>1. IInv'
    BY NextSync DEF SInv
  <2>2. CASE UNCHANGED <<SyncVars, ageHistory>>
    BY <2>2 DEF AgeOK, WaitOK, SyncVars, vars, ageHistory, Gain, NeverSets, InitPriority
  <2>3. CASE Next /\ Recorded
    BY <2>3, NextAge, NextWait DEF SInv
  <2>4. ASSUME UNCHANGED <<old, last, now, cur>>, Recorded,
               \A v \in Threads : state[v] = "none" => state'[v] = "none"
        PROVE  (AgeOK /\ WaitOK)'
    <3>1. \A v \in Threads : /\ last[v] \in Nat /\ last[v] <= last'[v] /\ last'[v] <= now'
                             /\ old'[v] >= Highest /\ old'[v] = old[v]
      BY <2>4 DEF SInv, IInv, TypeOK, AgeOK
    <3>2. AgeOK'
      BY <2>1, <3>1, Later DEF SInv
    <3> QED BY <2>1, <2>4, <3>1, <3>2, WaitQuiet DEF SInv
  <2>5. ASSUME NEW t \in Threads, SyncCall(t), Recorded PROVE (AgeOK /\ WaitOK)'
    BY <2>4, <2>5, CallAges
  <2>6. CASE UNCHANGED SyncVars /\ Recorded
    BY <2>4, <2>6 DEF SyncVars, vars
  <2> QED BY <2>2, <2>3, <2>5, <2>6 DEF SyncNext
<1>3. SInv /\ AgeOK /\ WaitOK => AgeEarned
  BY WaitEarned DEF SInv
<1> QED BY <1>1, <1>2, <1>3, SyncInvariance, PTL DEF SyncSpec

-----------------------------------------------------------------------------
(* The boost of a mutex's owner.                                           *)

(* The variables of conditions and barriers, and the values of a semaphore.*)
ObjectTypes ==
  /\ onCond \in [Threads -> Conds \cup {NoObject}]
  /\ onBarrier \in [Threads -> Barriers \cup {NoObject}]
  /\ barrier \in [Barriers -> [count : Int, waiting : Nat \cup {-1}]]
  /\ \A m \in Mutexes : mutex[m].count \in -1 .. 1

(* A thread that is not in pthipth_mutex_lock has the boosted priority     *)
(* exactly while it owns a mutex, and its own otherwise.                   *)
BoostOK ==
  \A t \in Threads : at[t] # "locking" =>
    prio[t] = IF Owned(t) = {} THEN old[t] ELSE Highest - 1

(* No thread sets its priority while it owns a mutex: pthipth_set_prio     *)
(* would write over the boost, and the unlock restore what was set.        *)
SetsUnowned == \A p \in Highest .. Lowest : SetPrio(cur, p) => Owned(cur) = {}

(* With the types of pthipth_mutex.c they make those of the module.        *)
LEMMA AllTypes == SInv /\ ObjectTypes => SyncTypeOK
<1> SUFFICES ASSUME SInv, ObjectTypes PROVE SyncTypeOK
  OBVIOUS
<1>1. TypeOK /\ wants \in [Threads -> Mutexes \cup {NoObject}]
  BY DEF SInv, IInv, MInv, MutexTypes
<1>2. held \in [Threads -> Nat]
  BY OwnedFinite DEF SInv, MInv, MutexTypes, LockMatchesOwner
<1>3. mutex \in [Mutexes -> [live : BOOLEAN, count : -1 .. 1, owner : Maybe(Threads)]]
  BY DEF SInv, MInv, MutexTypes, ObjectTypes
<1> QED BY <1>1, <1>2, <1>3 DEF ObjectTypes, SyncTypeOK

(* At the start the mutexes are free and the barriers open.                *)
LEMMA InitObjects == SyncInit => ObjectTypes
<1> SUFFICES ASSUME SyncInit PROVE ObjectTypes
  OBVIOUS
<1>1. \A b \in Barriers : Opened(b) \in [count : Int, waiting : Nat \cup {-1}]
  BY SyncAssumption DEF Opened
<1> QED BY <1>1 DEF SyncInit, Fresh, ObjectTypes

(* The calls keep these types.                                             *)
LEMMA CallObjects ==
  ASSUME SInv, ObjectTypes, NEW t \in Threads, SyncCall(t)
  PROVE  ObjectTypes'
<1> DEFINE Counts == \A m \in Mutexes : mutex[m].count \in -1 .. 1
<1> USE DEF ObjectTypes
<1>0. mutex \in [Mutexes -> [live : BOOLEAN, count : Int, owner : Maybe(Threads)]]
  BY DEF SInv, MInv, MutexTypes
<1>1. ASSUME UNCHANGED mutex PROVE Counts'
  BY <1>1
<1>2. ASSUME NEW m \in Mutexes, Attempt(t, m) PROVE Counts'
  BY <1>0, <1>2 DEF Attempt, Taken
<1>3. ASSUME NEW m \in Mutexes, Lock(t, m) PROVE ObjectTypes'
  BY <1>2, <1>3 DEF Lock
<1>4. ASSUME NEW m \in Mutexes, Unlock(t, m) PROVE ObjectTypes'
  <2>1. Counts'
    BY <1>0, <1>4 DEF Unlock, Release
  <2> QED BY <1>4, <2>1 DEF Unlock
<1>5. ASSUME NEW m \in Mutexes, MutexInit(t, m) \/ MutexDestroy(t, m) PROVE ObjectTypes'
  <2>1. CASE MutexInit(t, m)
    <3>1. mutex' = [mutex EXCEPT ![m] = Fresh]
      BY <2>1 DEF MutexInit
    <3>2. Counts'
      BY <1>0, <3>1 DEF Fresh
    <3> QED BY <2>1, <3>2 DEF MutexInit
  <2>2. CASE MutexDestroy(t, m)
    <3>1. Counts'
      BY <1>0, <2>2 DEF MutexDestroy
    <3> QED BY <2>2, <3>1 DEF MutexDestroy
  <2> QED BY <1>5, <2>1, <2>2
<1>6. ASSUME NEW c \in Conds, NEW m \in Mutexes, CondWait(t, c, m) PROVE ObjectTypes'
  <2>1. Counts'
    BY <1>0, <1>6 DEF CondWait, Release
  <2> QED BY <1>6, <2>1 DEF CondWait
<1>7. ASSUME NEW c \in Conds, CondWaitNon(t, c) PROVE ObjectTypes'
  BY <1>7 DEF CondWaitNon, Suspend
<1>8. ASSUME NEW c \in Conds, Signal(t, c) \/ Broadcast(t, c) PROVE ObjectTypes'
  BY <1>8 DEF Signal, Broadcast, Notify
<1>9. ASSUME NEW b \in Barriers, BarrierBlock(t, b) PROVE ObjectTypes'
  <2>1. barrier[b].waiting \in Nat \cup {-1} /\ barrier[b].waiting + 1 \in Nat
    OBVIOUS
  <2>2. barrier' \in [Barriers -> [count : Int, waiting : Nat \cup {-1}]]
    BY <1>9, <2>1 DEF BarrierBlock
  <2> QED BY <1>9, <2>2 DEF BarrierBlock
<1>10. ASSUME NEW b \in Barriers, BarrierOpen(t, b) PROVE ObjectTypes'
  BY <1>10 DEF BarrierOpen
<1>11. ASSUME NEW b \in Barriers, BarrierInit(t, b) \/ BarrierDestroy(t, b) PROVE ObjectTypes'
  <2>1. Opened(b) \in [count : Int, waiting : Nat \cup {-1}]
    BY SyncAssumption DEF Opened
  <2>2. [count |-> -1, waiting |-> -1] \in [count : Int, waiting : Nat \cup {-1}]
    OBVIOUS
  <2>3. barrier' \in [Barriers -> [count : Int, waiting : Nat \cup {-1}]]
    BY <1>11, <2>1, <2>2 DEF BarrierInit, BarrierDestroy
  <2> QED BY <1>11, <2>3 DEF BarrierInit, BarrierDestroy
<1>12. CASE LockAgain(t)
  BY <1>2, <1>12 DEF LockAgain, SInv, MInv, LiveOK
<1> QED BY <1>3, <1>4, <1>5, <1>6, <1>7, <1>8, <1>9, <1>10, <1>11, <1>12 DEF SyncCall

(* The scheduler does not touch these variables.                           *)
LEMMA NextObjects == SInv /\ ObjectTypes /\ [SyncNext /\ Owed]_SyncVars => ObjectTypes'
BY CallObjects DEF SyncNext, SyncVars, syncVars, ObjectTypes

-----------------------------------------------------------------------------
(* No step of the scheduler enters or leaves pthipth_mutex_lock.           *)
LEMMA LockingStays ==
  ASSUME SInv, [Next]_vars, NEW v \in Threads, at[v] = "locking"
  PROVE  at'[v] = "locking"
<1> USE DEF SInv, MInv, MutexTypes
<1>1. CASE UNCHANGED at
  BY <1>1
<1>2. ASSUME NEW t \in Threads, at[t] # "locking",
             \/ at' = [at EXCEPT ![t] = "reaping"]
             \/ at' = [at EXCEPT ![t] = "user"]
      PROVE  at'[v] = "locking"
  BY <1>2
<1>3. ASSUME NEW t \in Threads, UserCall(t)
      PROVE  UNCHANGED at \/ (at[t] # "locking" /\ at' = [at EXCEPT ![t] = "reaping"])
  BY <1>3 DEF UserCall, Create, JoinDefunct, JoinWait, Detach, Sleep, SetPrio, Yield, Exit, Calls, InUser
<1>4. ASSUME NEW t \in Threads, Reap(t) \/ KernelExit(t)
      PROVE  UNCHANGED at \/ (at[t] # "locking" /\ at' = [at EXCEPT ![t] = "user"])
  BY <1>4 DEF Reap, KernelExit
<1>5. CASE Dispatcher \/ Tick \/ UNCHANGED vars
  <2>1. UNCHANGED at
    BY <1>5 DEF Dispatcher, WakeSleeper, StartAging, AgeLevel, Spin, StartReaping, ReapDetached,
                Select, Tick, vars
  <2> QED BY <1>1, <2>1
<1> QED BY <1>1, <1>2, <1>3, <1>4, <1>5 DEF Next

(* Ageing moves priority and old_priority together, and leaves a boosted   *)
(* thread where it is.                                                     *)
LEMMA AgedBoost ==
  ASSUME IInv, NEW t \in Threads, Age(t),
         prio[t] = old[t] \/ prio[t] = Highest - 1
  PROVE  /\ \A v \in Threads \ {t} : prio'[v] = prio[v] /\ old'[v] = old[v]
         /\ prio[t] = old[t] => prio'[t] = old'[t]
         /\ prio[t] = Highest - 1 => prio'[t] = prio[t]
<1> DEFINE p == AgedPriority(t)
<1>1. prio \in [Threads -> Priorities] /\ old \in [Threads -> Priorities]
  BY DEF IInv, TypeOK
<1>2. Highest \in Nat /\ old[t] \in Nat /\ prio[t] \in Nat
  BY <1>1, BoostRange, BucketAssumption DEF Priorities
<1>3. p \in Int /\ p >= Highest
  <2>1. /\ AgingFactor[t] \in Nat /\ AgingTime[t] \in Nat \ {0} /\ now \in Nat /\ last[t] \in Nat
    BY ProgramAssumption DEF IInv, TypeOK
  <2>2. (now - last[t]) \div AgingTime[t] \in Int
    BY <2>1
  <2> DEFINE q == (now - last[t]) \div AgingTime[t]
  <2> HIDE DEF q
  <2>3. q * AgingFactor[t] \in Int
    BY <2>1, <2>2 DEF q
  <2>4. p = IF old[t] - q * AgingFactor[t] < Highest THEN Highest ELSE old[t] - q * AgingFactor[t]
    BY DEF AgedPriority, q
  <2> HIDE DEF p
  <2> QED BY <1>2, <2>3, <2>4
<1>4. /\ IF p < old[t] THEN old' = [old EXCEPT ![t] = p] ELSE UNCHANGED old
      /\ IF p < prio[t] THEN prio' = [prio EXCEPT ![t] = p] ELSE UNCHANGED prio
  BY DEF Age
<1> HIDE DEF p
<1> QED BY <1>1, <1>2, <1>3, <1>4

(* The scheduler's own steps keep the boost as it is.                      *)
LEMMA SchedulerBoost ==
  ASSUME SInv, BoostOK, [Next]_vars, UNCHANGED syncVars, SetsUnowned
  PROVE  BoostOK'
<1>1. /\ \A t \in Threads : Owned(t)' = Owned(t)
      /\ prio \in [Threads -> Priorities] /\ old \in [Threads -> Priorities]
  BY DEF syncVars, Owned, SInv, IInv, TypeOK
<1>2. \A t \in Threads : at'[t] # "locking" => at[t] # "locking"
  BY LockingStays
<1>3. ASSUME UNCHANGED <<prio, old>> PROVE BoostOK'
  BY <1>1, <1>2, <1>3 DEF BoostOK
<1>4. ASSUME NEW t \in Threads, NEW p \in Highest .. Lowest, SetPrio(t, p) PROVE BoostOK'
  <2>1. prio' = [prio EXCEPT ![t] = p] /\ old' = [old EXCEPT ![t] = p] /\ t = cur
    BY <1>4 DEF SetPrio, Calls, InUser
  <2>2. Owned(t) = {}
    BY <1>4, <2>1 DEF SetsUnowned
  <2> QED BY <1>1, <1>2, <2>1, <2>2 DEF BoostOK
<1>5. ASSUME NEW t \in Threads, UserCall(t) PROVE BoostOK'
  <2>1. ASSUME NEW u \in Threads,
               Create(t, u) \/ JoinDefunct(t, u) \/ JoinWait(t, u) \/ Detach(t, u)
        PROVE  BoostOK'
    BY <1>3, <2>1 DEF Create, JoinDefunct, JoinWait, Detach
  <2>2. ASSUME NEW d \in 0 .. MaxTime, Sleep(t, d) PROVE BoostOK'
    BY <1>3, <2>2 DEF Sleep
  <2>3. CASE Yield(t) \/ Exit(t)
    BY <1>3, <2>3 DEF Yield, Exit
  <2> QED BY <1>4, <1>5, <2>1, <2>2, <2>3 DEF UserCall
<1>6. ASSUME NEW t \in Threads, Reap(t) \/ KernelExit(t) PROVE BoostOK'
  BY <1>3, <1>6 DEF Reap, KernelExit
<1>7. CASE AgeLevel
  <2>1. PICK t \in Threads : Age(t)
    BY <1>7, AgedIs DEF SInv, AgeLevel
  <2>2. UNCHANGED at
    BY <1>7 DEF AgeLevel
  <2>3. CASE at[t] # "locking"
    BY <1>1, <2>1, <2>2, <2>3, AgedBoost DEF BoostOK, SInv
  <2>4. CASE at[t] = "locking"
    <3>1. \A v \in Threads \ {t} : prio'[v] = prio[v] /\ old'[v] = old[v]
      BY <1>1, <2>1 DEF Age
    <3> QED BY <1>1, <2>2, <2>4, <3>1 DEF BoostOK
  <2> QED BY <2>3, <2>4
<1>8. CASE WakeSleeper \/ StartAging \/ Spin \/ StartReaping \/ ReapDetached \/ Select
  BY <1>3, <1>8 DEF WakeSleeper, StartAging, Spin, StartReaping, ReapDetached, Select, vars
<1>9. CASE Tick \/ UNCHANGED vars
  BY <1>3, <1>9 DEF Tick, vars
<1> QED BY <1>5, <1>6, <1>7, <1>8, <1>9 DEF Next, Dispatcher

(* Nor do the calls of this module: whoever takes a mutex is boosted, and  *)
(* the last unlock takes the boost back.                                   *)
LEMMA CallBoost ==
  ASSUME SInv, BoostOK, NEW t \in Threads, SyncCall(t)
  PROVE  BoostOK'
<1>0. /\ at \in [Threads -> {"user", "reaping", "locking"}] /\ prio \in [Threads -> Priorities]
      /\ mutex \in [Mutexes -> [live : BOOLEAN, count : Int, owner : Maybe(Threads)]]
  BY DEF SInv, MInv, MutexTypes, IInv, TypeOK
<1>1. ASSUME UNCHANGED <<prio, old, at>>, \A x \in Mutexes : mutex'[x].owner = mutex[x].owner
      PROVE  BoostOK'
  <2>1. \A v \in Threads : Owned(v)' = Owned(v)
    BY <1>1 DEF Owned
  <2> QED BY <1>1, <2>1 DEF BoostOK
<1>2. ASSUME \A v \in Threads \ {t} : prio'[v] = prio[v] /\ at'[v] = at[v], UNCHANGED old,
             \A x \in Mutexes : \A v \in Threads \ {t} : mutex'[x].owner = v <=> mutex[x].owner = v,
             at'[t] # "locking" => prio'[t] = IF Owned(t)' = {} THEN old[t] ELSE Highest - 1
      PROVE  BoostOK'
  <2>1. \A v \in Threads \ {t} : Owned(v)' = Owned(v)
    BY <1>2 DEF Owned
  <2>2. ASSUME NEW v \in Threads, at'[v] # "locking"
        PROVE  prio'[v] = IF Owned(v)' = {} THEN old'[v] ELSE Highest - 1
    <3>1. CASE v = t
      BY <1>2, <2>2, <3>1
    <3>2. CASE v # t
      BY <1>2, <2>1, <2>2, <3>2 DEF BoostOK
    <3> QED BY <3>1, <3>2
  <2> QED BY <2>2 DEF BoostOK
<1>3. ASSUME NEW m \in Mutexes, Attempt(t, m), Own(t), UNCHANGED old PROVE BoostOK'
  <2>1. /\ \A v \in Threads \ {t} : prio'[v] = prio[v] /\ at'[v] = at[v]
        /\ UNCHANGED old
    BY <1>3 DEF Own
  <2>2. CASE /\ mutex[m].count > 0 /\ Taken(t, m) /\ at' = [at EXCEPT ![t] = "user"]
    <3>1. mutex' = [mutex EXCEPT ![m].count = 0, ![m].owner = t] /\ prio'[t] = Highest - 1
      BY <1>0, <2>2 DEF Taken
    <3>2. mutex[m].owner = NoThread
      BY <2>2 DEF SInv, MInv, LockMatchesOwner
    <3>3. m \in Owned(t)'
      BY <1>0, <3>1 DEF Owned
    <3>4. \A x \in Mutexes : \A v \in Threads \ {t} : mutex'[x].owner = v <=> mutex[x].owner = v
      BY <1>0, <3>1, <3>2, ThreadAssumption
    <3> QED BY <1>2, <2>1, <3>1, <3>3, <3>4
  <2>3. CASE mutex' = [mutex EXCEPT ![m].count = -1] /\ at' = [at EXCEPT ![t] = "locking"]
    <3>1. \A x \in Mutexes : mutex'[x].owner = mutex[x].owner
      BY <1>0, <2>3
    <3>2. at'[t] = "locking"
      BY <1>0, <2>3
    <3> QED BY <1>2, <2>1, <3>1, <3>2
  <2> QED BY <1>3, <2>2, <2>3 DEF Attempt
<1>4. ASSUME NEW m \in Mutexes, Lock(t, m) PROVE BoostOK'
  BY <1>3, <1>4, LockOwn DEF Lock, SInv
<1>5. CASE LockAgain(t)
  BY <1>3, <1>5, LockAgainOwn DEF LockAgain, SInv
<1>6. ASSUME NEW m \in Mutexes, Unlock(t, m) PROVE BoostOK'
  <2>1. /\ Own(t) /\ at[t] = "user" /\ UNCHANGED <<old, at>> /\ mutex[m].owner = t
        /\ mutex' = [mutex EXCEPT ![m].count = 1, ![m].owner = NoThread]
        /\ prio'[t] = IF held[t] = 1 THEN old[t] ELSE prio[t]
    BY <1>6, UnlockOwn DEF Unlock, Release, InUser, SInv
  <2>2. m \in Owned(t) /\ Owned(t)' = Owned(t) \ {m}
    BY <1>0, <2>1, ThreadAssumption DEF Owned
  <2>3. held[t] = Cardinality(Owned(t)) /\ Cardinality(Owned(t)') = Cardinality(Owned(t)) - 1
    BY <2>2, OwnedFinite, FS_RemoveElement DEF SInv, MInv, LockMatchesOwner
  <2>4. held[t] = 1 <=> Owned(t)' = {}
    <3>1. IsFiniteSet(Owned(t)') /\ Cardinality(Owned(t)) \in Nat
      BY <2>2, OwnedFinite, FS_Subset
    <3>2. Owned(t)' = {} <=> Cardinality(Owned(t)') = 0
      BY <3>1, FS_EmptySet
    <3> QED BY <2>3, <3>1, <3>2
  <2>5. prio[t] = Highest - 1
    BY <2>1, <2>2 DEF BoostOK
  <2>6. \A x \in Mutexes : \A v \in Threads \ {t} : mutex'[x].owner = v <=> mutex[x].owner = v
    BY <1>0, <2>1, ThreadAssumption
  <2> QED BY <1>2, <2>1, <2>4, <2>5, <2>6 DEF Own
<1>7. ASSUME NEW c \in Conds, NEW m \in Mutexes, CondWait(t, c, m) PROVE BoostOK'
  <2>1. Own(t) /\ at'[t] = "locking" /\ UNCHANGED old
    BY <1>7, CondWaitOwn DEF SInv, CondWait
  <2>2. \/ UNCHANGED mutex
        \/ mutex[m].owner = t /\ mutex' = [mutex EXCEPT ![m].count = 1, ![m].owner = NoThread]
    BY <1>7 DEF CondWait, Release
  <2>3. \A x \in Mutexes : \A v \in Threads \ {t} : mutex'[x].owner = v <=> mutex[x].owner = v
    BY <1>0, <2>2, ThreadAssumption
  <2> QED BY <1>2, <2>1, <2>3 DEF Own
<1>8. ASSUME NEW m \in Mutexes, MutexInit(t, m) \/ MutexDestroy(t, m) PROVE BoostOK'
  <2>1. UNCHANGED <<prio, old, at>>
    BY <1>8 DEF MutexInit, MutexDestroy
  <2>2. mutex[m].owner = NoThread
    BY <1>8 DEF MutexInit, MutexDestroy, SInv, MInv, LiveOK
  <2>3. mutex' = [mutex EXCEPT ![m] = Fresh] \/ mutex' = [mutex EXCEPT ![m].live = FALSE]
    BY <1>8 DEF MutexInit, MutexDestroy
  <2>4. \A x \in Mutexes : mutex'[x].owner = mutex[x].owner
    BY <1>0, <2>2, <2>3 DEF Fresh
  <2> QED BY <1>1, <2>1, <2>4
<1>9. ASSUME NEW c \in Conds, CondWaitNon(t, c) \/ Signal(t, c) \/ Broadcast(t, c) PROVE BoostOK'
  BY <1>1, <1>9 DEF CondWaitNon, Suspend, Signal, Broadcast, Notify
<1>10. ASSUME NEW b \in Barriers,
              BarrierBlock(t, b) \/ BarrierOpen(t, b) \/ BarrierInit(t, b) \/ BarrierDestroy(t, b)
       PROVE  BoostOK'
  BY <1>1, <1>10 DEF BarrierBlock, BarrierOpen, BarrierInit, BarrierDestroy
<1> QED BY <1>4, <1>5, <1>6, <1>7, <1>8, <1>9, <1>10 DEF SyncCall

(* At the start every thread has its own priority.                         *)
LEMMA InitBoost == SyncInit => BoostOK
<1> SUFFICES ASSUME SyncInit PROVE BoostOK
  OBVIOUS
<1>1. \A t \in Threads : Owned(t) = {}
  BY ThreadAssumption DEF SyncInit, Fresh, Owned
<1> QED BY <1>1 DEF SyncInit, Init, BoostOK

(* The boost of a mutex ends with its last unlock, waits on conditions and *)
(* ageing in between included, for any number of threads and mutexes and   *)
(* any program that sets priorities without holding a mutex.               *)
THEOREM BoostIsTakenBack == SyncSpec /\ [][SetsUnowned]_SyncVars => []BoostEnds
<1> DEFINE Inv == SInv /\ ObjectTypes /\ BoostOK
<1>1. SyncInit => Inv
  BY InitSync, InitObjects, InitBoost
<1>2. Inv /\ [SyncNext /\ Owed]_SyncVars /\ [SetsUnowned]_SyncVars => Inv'
  <2> SUFFICES ASSUME SInv, ObjectTypes, BoostOK, [SyncNext /\ Owed]_SyncVars, [SetsUnowned]_SyncVars
               PROVE  BoostOK'
    BY NextSync, NextObjects
  <2>1. CASE UNCHANGED SyncVars
    BY <2>1 DEF SyncVars, vars, syncVars, BoostOK, Owned
  <2>2. CASE ~ UNCHANGED SyncVars
    BY <2>2, CallBoost, SchedulerBoost DEF SyncNext
  <2> QED BY <2>1, <2>2
<1>3. Inv => BoostEnds
  BY AllTypes DEF BoostOK, BoostEnds
<1> QED BY <1>1, <1>2, <1>3, PTL DEF SyncSpec

-----------------------------------------------------------------------------
(* Conditions and barriers.                                                *)

(* A thread with a current_cond is blocked, and not in a join.             *)
CondOK ==
  \A u \in Threads : onCond[u] # NoObject => state[u] = "BLOCKED" /\ at[u] # "reaping"

(* A barrier is opened when the threads that it wakes are the ones that    *)
(* wait in it.  The code does not see to that, because current_barrier is  *)
(* never reset: a thread that once met at the barrier and is blocked       *)
(* elsewhere is woken as well (run join_early).                            *)
OpensOwn == \A b \in Barriers : BarrierOpen(cur, b) => InBarrier(b) \subseteq Inside(b)

(* Who waits in a barrier is blocked.                                      *)
LEMMA InsideIs ==
  ASSUME NEW b
  PROVE  /\ IsFiniteSet(Inside(b)) /\ Cardinality(Inside(b)) \in Nat
         /\ Inside(b) = {} <=> Cardinality(Inside(b)) = 0
<1>1. IsFiniteSet(Inside(b))
  BY SyncAssumption, FS_Subset DEF Inside
<1> QED BY <1>1, FS_CardinalityType, FS_EmptySet

(* A step that disturbs nobody who is blocked keeps who waits where.       *)
LEMMA InsideKept ==
  ASSUME UNCHANGED <<onCond, onBarrier, barrier>>, Undisturbed, CondOK, BarrierTogether
  PROVE  CondOK' /\ BarrierTogether'
<1>1. \A b \in Barriers : Inside(b)' = Inside(b)
  BY DEF Inside, Undisturbed
<1>2. BarrierTogether'
  BY <1>1 DEF BarrierTogether
<1>3. CondOK'
  BY DEF CondOK, Undisturbed
<1> QED BY <1>2, <1>3

(* A running thread that does not block in a barrier or on a condition     *)
(* changes nothing of that.                                                *)
LEMMA OwnUndisturbed ==
  ASSUME SInv, NEW t \in Threads, Own(t), sch'.state[t] = "RUNNING"
  PROVE  Undisturbed
BY DEF Own, Undisturbed

(* The calls of this module that block nobody and wake nobody.             *)
LEMMA QuietCall ==
  ASSUME SInv, NEW t \in Threads,
         \/ LockAgain(t)
         \/ \E m \in Mutexes : Lock(t, m) \/ Unlock(t, m) \/ MutexInit(t, m) \/ MutexDestroy(t, m)
         \/ \E b \in Barriers : BarrierInit(t, b) \/ BarrierDestroy(t, b)
  PROVE  /\ Undisturbed /\ UNCHANGED <<onCond, onBarrier>>
         /\ (\A b \in Barriers : ~BarrierInit(t, b) /\ ~BarrierDestroy(t, b)) => UNCHANGED barrier
<1> USE DEF SInv
<1>1. ASSUME NEW m \in Mutexes, Lock(t, m)
      PROVE  Undisturbed /\ UNCHANGED <<onCond, onBarrier, barrier>>
  <2>1. Own(t) /\ UNCHANGED <<old, onCond, onBarrier, barrier>> /\ Attempt(t, m) /\ t # IdleThread
    BY <1>1, LockOwn, NotIdle DEF Lock
  <2>2. sch'.state[t] = "RUNNING"
    BY <2>1, AttemptOwn DEF Own
  <2> QED BY <2>1, <2>2, OwnUndisturbed
<1>2. ASSUME LockAgain(t)
      PROVE  Undisturbed /\ UNCHANGED <<onCond, onBarrier, barrier>>
  <2>1. /\ Own(t) /\ UNCHANGED <<old, onCond, onBarrier, barrier>>
        /\ wants[t] \in Mutexes /\ Attempt(t, wants[t]) /\ t # IdleThread
    BY <1>2, LockAgainOwn DEF LockAgain, IdleOK
  <2>2. sch'.state[t] = "RUNNING"
    BY <2>1, AttemptOwn DEF Own
  <2> QED BY <2>1, <2>2, OwnUndisturbed
<1>3. ASSUME NEW m \in Mutexes, Unlock(t, m)
      PROVE  Undisturbed /\ UNCHANGED <<onCond, onBarrier, barrier>>
  BY <1>3, UnlockOwn, OwnUndisturbed DEF Unlock
<1>4. ASSUME NEW m \in Mutexes, MutexInit(t, m) \/ MutexDestroy(t, m)
      PROVE  Undisturbed /\ UNCHANGED <<onCond, onBarrier, barrier>>
  <2>1. UNCHANGED <<sch, at>>
    BY <1>4, QuietOwn
  <2> QED BY <1>4, <2>1 DEF MutexInit, MutexDestroy, Undisturbed
<1>5. ASSUME NEW b \in Barriers, BarrierInit(t, b) \/ BarrierDestroy(t, b)
      PROVE  Undisturbed /\ UNCHANGED <<onCond, onBarrier>>
  <2>1. UNCHANGED <<sch, at>>
    BY <1>5, QuietOwn
  <2> QED BY <1>5, <2>1 DEF BarrierInit, BarrierDestroy, Undisturbed
<1> QED BY <1>1, <1>2, <1>3, <1>4, <1>5

(* A running thread has no current_cond: pthipth_cond_wait, and            *)
(* pthipth_cond_wait_non, take it out of every barrier.                    *)
LEMMA WaitsForCond ==
  ASSUME SInv, ObjectTypes, CondOK, BarrierTogether, NEW t \in Threads, NEW c \in Conds,
         CondWaitNon(t, c) \/ \E m \in Mutexes : CondWait(t, c, m)
  PROVE  CondOK' /\ BarrierTogether'
<1>1. /\ Own(t) /\ sch'.state[t] = "BLOCKED"
      /\ onCond' = [onCond EXCEPT ![t] = c] /\ UNCHANGED <<onBarrier, barrier>>
  BY CondWaitOwn, CondWaitNonOwn DEF SInv, CondWait, CondWaitNon, Suspend
<1>2. /\ c # NoObject /\ onCond'[t] = c
      /\ \A v \in Threads \ {t} : onCond'[v] = onCond[v]
  BY <1>1, SyncAssumption DEF ObjectTypes
<1>3. \A b \in Barriers : Inside(b)' = Inside(b)
  BY <1>1, <1>2 DEF Inside, Own
<1>4. BarrierTogether'
  BY <1>1, <1>3 DEF BarrierTogether
<1>5. CondOK'
  BY <1>1, <1>2 DEF CondOK, Own
<1> QED BY <1>4, <1>5

(* Whoever a signal or a broadcast wakes was in no barrier.                *)
LEMMA NotifyApart ==
  ASSUME SInv, ObjectTypes, CondOK, BarrierTogether, NEW t \in Threads, NEW c \in Conds,
         Signal(t, c) \/ Broadcast(t, c)
  PROVE  CondOK' /\ BarrierTogether' /\ (Prompt => Prompt')
<1>1. PICK which \in SUBSET Waiters(c) : Waking(t, which) /\ Notify(t, which)
  BY NotifyWaking DEF SInv
<1>2. /\ \A v \in Threads : sch'.state[v] = IF v \in which THEN "READY" ELSE sch.state[v]
      /\ UNCHANGED <<at, onBarrier, barrier>>
      /\ \A v \in Threads : onCond'[v] = IF v \in which THEN NoObject ELSE onCond[v]
  BY <1>1, WakingInv DEF SInv, Notify
<1>3. \A u \in which : u \in Threads /\ onCond[u] # NoObject
  BY SyncAssumption DEF Waiters
<1>4. \A u \in which : at[u] # "reaping" /\ state[u] = "BLOCKED"
  BY <1>3 DEF CondOK
<1>5. \A b \in Barriers : Inside(b)' = Inside(b)
  BY <1>2, <1>3 DEF Inside
<1>6. BarrierTogether'
  BY <1>2, <1>5 DEF BarrierTogether
<1>7. CondOK'
  BY <1>2 DEF CondOK
<1>8. Prompt => Prompt'
  BY <1>1, <1>4, WakingInv DEF SInv
<1> QED BY <1>6, <1>7, <1>8

(* One more thread waits in the barrier, and is counted.                   *)
LEMMA EntersBarrier ==
  ASSUME SInv, ObjectTypes, CondOK, BarrierTogether, NEW t \in Threads, NEW b \in Barriers,
         BarrierBlock(t, b)
  PROVE  CondOK' /\ BarrierTogether'
<1>1. /\ Own(t) /\ sch'.state[t] = "BLOCKED" /\ at[t] = "user" /\ UNCHANGED <<onCond, at>>
      /\ onBarrier' = [onBarrier EXCEPT ![t] = b]
      /\ barrier' = [barrier EXCEPT ![b].waiting = @ + 1]
      /\ barrier[b].waiting + 1 < barrier[b].count
  BY BarrierBlockOwn DEF SInv, BarrierBlock
<1>2. state[t] = "RUNNING" /\ onCond[t] = NoObject
  BY <1>1 DEF Own, CondOK
<1>3. onBarrier'[t] = b /\ \A v \in Threads \ {t} : onBarrier'[v] = onBarrier[v]
  BY <1>1 DEF ObjectTypes
<1>4. Inside(b)' = Inside(b) \cup {t} /\ t \notin Inside(b)
  BY <1>1, <1>2, <1>3 DEF Inside, Own
<1>5. ASSUME NEW x \in Barriers, x # b PROVE Inside(x)' = Inside(x)
  BY <1>1, <1>2, <1>3, <1>5 DEF Inside, Own
<1>6. Cardinality(Inside(b)') = Cardinality(Inside(b)) + 1
  BY <1>4, InsideIs, FS_AddElement
<1>7. /\ barrier[b].count \in Int /\ barrier[b].waiting \in Nat \cup {-1}
      /\ barrier[b].count # -1
      /\ barrier'[b].count = barrier[b].count /\ barrier'[b].waiting = barrier[b].waiting + 1
      /\ \A x \in Barriers : x # b => barrier'[x] = barrier[x]
  BY <1>1 DEF ObjectTypes
<1>8. BarrierTogether'
  <2> SUFFICES ASSUME NEW x \in Barriers
               PROVE  IF barrier'[x].count = -1 THEN Inside(x)' = {}
                      ELSE barrier'[x].waiting = Cardinality(Inside(x)')
    BY DEF BarrierTogether
  <2>1. CASE x = b
    BY <1>6, <1>7, <2>1 DEF BarrierTogether
  <2>2. CASE x # b
    BY <1>5, <1>7, <2>2 DEF BarrierTogether
  <2> QED BY <2>1, <2>2
<1>9. CondOK'
  BY <1>1 DEF CondOK, Own
<1> QED BY <1>8, <1>9

(* The round is complete: nobody is left inside, and the count is 0.       *)
LEMMA LeavesBarrier ==
  ASSUME SInv, ObjectTypes, CondOK, BarrierTogether, OpensOwn, NEW t \in Threads,
         NEW b \in Barriers, BarrierOpen(t, b)
  PROVE  CondOK' /\ BarrierTogether' /\ (Prompt => Prompt')
<1>1. Waking(t, InBarrier(b)) /\ InBarrier(b) \subseteq Inside(b)
  BY BarrierWaking DEF SInv, OpensOwn, BarrierOpen, Calls, InUser
<1>2. /\ \A v \in Threads : sch'.state[v] = IF v \in InBarrier(b) THEN "READY" ELSE sch.state[v]
      /\ UNCHANGED <<at, onCond, onBarrier>>
      /\ barrier' = [barrier EXCEPT ![b].waiting = 0]
  BY <1>1, WakingInv DEF SInv, BarrierOpen
<1>3. Inside(b)' = {}
  BY <1>2 DEF Inside, InBarrier
<1>4. ASSUME NEW x \in Barriers, x # b PROVE Inside(x)' = Inside(x)
  BY <1>2, <1>4 DEF Inside, InBarrier
<1>5. /\ barrier'[b].count = barrier[b].count /\ barrier'[b].waiting = 0
      /\ \A x \in Barriers : x # b => barrier'[x] = barrier[x]
  BY <1>2 DEF ObjectTypes
<1>6. Cardinality(Inside(b)') = 0
  BY <1>3, FS_EmptySet
<1>7. BarrierTogether'
  <2> SUFFICES ASSUME NEW x \in Barriers
               PROVE  IF barrier'[x].count = -1 THEN Inside(x)' = {}
                      ELSE barrier'[x].waiting = Cardinality(Inside(x)')
    BY DEF BarrierTogether
  <2>1. CASE x = b
    BY <1>3, <1>5, <1>6, <2>1
  <2>2. CASE x # b
    BY <1>4, <1>5, <2>2 DEF BarrierTogether
  <2> QED BY <2>1, <2>2
<1>8. CondOK'
  BY <1>1, <1>2 DEF CondOK, Inside
<1>9. \A u \in InBarrier(b) : at[u] # "reaping"
  BY <1>1 DEF Inside
<1>10. Prompt => Prompt'
  BY <1>1, <1>9, WakingInv DEF SInv
<1> QED BY <1>7, <1>8, <1>10

(* A barrier is initialised when it is destroyed, and destroyed when nobody*)
(* waits in it: nobody is inside in either case.                           *)
LEMMA RenewsBarrier ==
  ASSUME SInv, ObjectTypes, CondOK, BarrierTogether, InitialisedUse, NEW t \in Threads,
         NEW b \in Barriers, BarrierInit(t, b) \/ BarrierDestroy(t, b)
  PROVE  CondOK' /\ BarrierTogether'
<1>1. Undisturbed /\ UNCHANGED <<onCond, onBarrier>>
  BY QuietCall
<1>2. \A x \in Barriers : Inside(x)' = Inside(x)
  BY <1>1 DEF Inside, Undisturbed
<1>3. CondOK'
  BY <1>1 DEF CondOK, Undisturbed
<1>4. t = cur
  BY DEF BarrierInit, BarrierDestroy, Calls, InUser
<1>5. CASE BarrierInit(t, b)
  <2>1. Inside(b) = {} /\ Cardinality(Inside(b)) = 0
    BY <1>4, <1>5, InsideIs DEF InitialisedUse, BarrierTogether
  <2>2. barrier' = [barrier EXCEPT ![b] = Opened(b)] /\ Opened(b).waiting = 0
    BY <1>5 DEF BarrierInit, Opened
  <2> QED BY <1>2, <1>3, <2>1, <2>2 DEF BarrierTogether, ObjectTypes
<1>6. CASE BarrierDestroy(t, b)
  <2>1. /\ barrier' = [barrier EXCEPT ![b] = [count |-> -1, waiting |-> -1]]
        /\ barrier[b].waiting <= 0
    BY <1>6 DEF BarrierDestroy
  <2>2. Inside(b) = {}
    BY <2>1, InsideIs DEF BarrierTogether
  <2> QED BY <1>2, <1>3, <2>1, <2>2 DEF BarrierTogether, ObjectTypes
<1> QED BY <1>5, <1>6

(* At the start nobody waits.                                              *)
LEMMA InitBarrier == SyncInit => CondOK /\ BarrierTogether
<1> SUFFICES ASSUME SyncInit PROVE CondOK /\ BarrierTogether
  OBVIOUS
<1>1. \A b \in Barriers : Inside(b) = {} /\ Cardinality(Inside(b)) = 0
  <2>1. \A b \in Barriers : Inside(b) = {}
    BY DEF SyncInit, Init, Inside
  <2> QED BY <2>1, InsideIs
<1>2. \A b \in Barriers : barrier[b].waiting = 0 /\ barrier[b].count # -1
  BY SyncAssumption DEF SyncInit, Opened
<1> QED BY <1>1, <1>2 DEF BarrierTogether, SyncInit, CondOK

(* The inductive invariant of barriers and, by Prompt, of joins.           *)
BarrierInv == SInv /\ ObjectTypes /\ CondOK /\ BarrierTogether /\ Prompt

(* Of all steps only an opening barrier can wake a thread from its join or *)
(* leave a current_cond behind, and OpensOwn excludes that.                *)
LEMMA NextBarrier ==
  ASSUME BarrierInv, [SyncNext /\ Owed]_SyncVars, [OpensOwn]_SyncVars
  PROVE  BarrierInv'
<1> USE DEF BarrierInv
<1>1. SInv' /\ ObjectTypes'
  BY NextSync, NextObjects
<1>2. ASSUME UNCHANGED <<onCond, onBarrier, barrier>>, Undisturbed, Prompt'
      PROVE  BarrierInv'
  BY <1>1, <1>2, InsideKept
<1>3. CASE [Next]_vars /\ UNCHANGED syncVars
  BY <1>2, <1>3, NextInv DEF SInv, Preserved, syncVars
<1>4. CASE UNCHANGED SyncVars
  BY <1>3, <1>4 DEF SyncVars
<1>5. ASSUME NEW t \in Threads, SyncCall(t), InitialisedUse, OpensOwn PROVE BarrierInv'
  <2>1. Own(t) => Prompt'
    BY OwnInv DEF SInv
  <2>2. ASSUME NEW m \in Mutexes,
               Lock(t, m) \/ Unlock(t, m) \/ MutexInit(t, m) \/ MutexDestroy(t, m)
        PROVE  BarrierInv'
    <3>1. Own(t) /\ UNCHANGED barrier
      BY <2>2, LockOwn, UnlockOwn, QuietOwn DEF SInv, Lock, Unlock, MutexInit, MutexDestroy
    <3>2. Undisturbed /\ UNCHANGED <<onCond, onBarrier>>
      BY <2>2, QuietCall
    <3> QED BY <1>2, <2>1, <3>1, <3>2
  <2>3. CASE LockAgain(t)
    <3>1. Own(t) /\ UNCHANGED barrier
      BY <2>3, LockAgainOwn DEF SInv, LockAgain
    <3>2. Undisturbed /\ UNCHANGED <<onCond, onBarrier>>
      BY <2>3, QuietCall
    <3> QED BY <1>2, <2>1, <3>1, <3>2
  <2>4. ASSUME NEW c \in Conds, CondWaitNon(t, c) \/ \E m \in Mutexes : CondWait(t, c, m)
        PROVE  BarrierInv'
    BY <1>1, <2>1, <2>4, WaitsForCond, CondWaitOwn, CondWaitNonOwn DEF SInv
  <2>5. ASSUME NEW c \in Conds, Signal(t, c) \/ Broadcast(t, c) PROVE BarrierInv'
    BY <1>1, <2>5, NotifyApart
  <2>6. ASSUME NEW b \in Barriers, BarrierBlock(t, b) PROVE BarrierInv'
    BY <1>1, <2>1, <2>6, EntersBarrier, BarrierBlockOwn DEF SInv
  <2>7. ASSUME NEW b \in Barriers, BarrierOpen(t, b) PROVE BarrierInv'
    BY <1>1, <1>5, <2>7, LeavesBarrier
  <2>8. ASSUME NEW b \in Barriers, BarrierInit(t, b) \/ BarrierDestroy(t, b) PROVE BarrierInv'
    BY <1>1, <1>5, <2>1, <2>8, RenewsBarrier, QuietOwn DEF SInv
  <2> QED BY <1>5, <2>2, <2>3, <2>4, <2>5, <2>6, <2>7, <2>8 DEF SyncCall
<1>6. CASE SyncNext /\ Owed /\ OpensOwn
  BY <1>3, <1>5, <1>6 DEF SyncNext, Owed
<1> QED BY <1>4, <1>6

(* A barrier counts the threads that are blocked in it, whatever happens in*)
(* the meantime, and joins stay paired, for any number of threads and any  *)
(* program whose barriers open for the threads inside alone.               *)
LEMMA BarrierInvariance == SyncSpec /\ [][OpensOwn]_SyncVars => []BarrierInv
<1>1. SyncInit => BarrierInv
  BY InitSync, InitObjects, InitBarrier DEF BarrierInv
<1>2. BarrierInv /\ [SyncNext /\ Owed]_SyncVars /\ [OpensOwn]_SyncVars => BarrierInv'
  BY NextBarrier
<1> QED BY <1>1, <1>2, PTL DEF SyncSpec

(* pthipth_barrier_wait lets nobody through before the round is complete,  *)
(* takes nothing from the next round and leaves nobody behind in a barrier *)
(* that is destroyed, if barriers open for the threads inside alone.       *)
THEOREM BarriersCount == SyncSpec /\ [][OpensOwn]_SyncVars => []BarrierTogether
<1>1. BarrierInv => BarrierTogether
  BY DEF BarrierInv
<1> QED BY <1>1, BarrierInvariance, PTL

(* Under the same condition no thread returns from its join early (run     *)
(* join_early shows a barrier that breaks both).                           *)
THEOREM SyncJoinsPaired == SyncSpec /\ [][OpensOwn]_SyncVars => []JoinsPaired
<1>1. BarrierInv => JoinsPaired
  BY InvJoins DEF BarrierInv, SInv
<1> QED BY <1>1, BarrierInvariance, PTL

-----------------------------------------------------------------------------
(* The thread pool.                                                        *)

LEMMA QueueSizeType == QueueSize \in Nat /\ QueueSize > 0
BY PoolAssumption

LEMMA TasksAre == Tasks = 1 .. Len(TaskPrio) /\ Len(TaskPrio) \in Nat
BY PoolAssumption DEF Tasks

LEMMA MainNoWorker ==
  ASSUME NEW w, IsWorker(w)
  PROVE  w # Main /\ w \in Threads
BY PoolAssumption DEF IsWorker

(* `% queue_size` of an index that has wrapped around at most once.        *)
Wrap(x) == IF x < QueueSize THEN x ELSE x - QueueSize

LEMMA ModIsWrap ==
  ASSUME NEW x \in Nat, x < 2 * QueueSize
  PROVE  x % QueueSize = Wrap(x) /\ Wrap(x) \in 0 .. QueueSize - 1
<1> USE QueueSizeType
<1>1. Wrap(x) \in 0 .. QueueSize - 1
  BY DEF Wrap
<1>2. CASE x < QueueSize
  BY <1>1, <1>2 DEF Wrap
<1>3. CASE x >= QueueSize
  BY <1>1, <1>3 DEF Wrap
<1> QED BY <1>1, <1>2, <1>3

-----------------------------------------------------------------------------
(* The invariant.                                                          *)

(* The ring and the local variables have their types.                      *)
Ring ==
  [queue : [0 .. QueueSize - 1 -> Nat], head : 0 .. QueueSize - 1, tail : 0 .. QueueSize - 1,
   count : 0 .. QueueSize, threads : Int, started : Int, progress : Int, shutdown : BOOLEAN]

PoolTypes ==
  /\ pool \in Ring
  /\ doing \in [Threads -> Nat]
  /\ pc \in [Threads -> {"create", "user", "destroy", "join", "freed", "leaked",
                         "loop", "task", "gone"}]
  /\ sent \in 0 .. Len(TaskPrio)
  /\ done \in SUBSET (1 .. sent)

(* Who is where: main shuts the pool down last, and a worker has a task in *)
(* its hand exactly while it is at it.                                     *)
PlacesOK ==
  /\ pc[Main] \in {"create", "user", "destroy"} => ~pool.shutdown
  /\ \A t \in Threads :
       /\ pc[t] = "user" => t = Main
       /\ pc[t] = "task" => IsWorker(t)
       /\ doing[t] # 0 <=> pc[t] = "task"

(* A task that was added is in one place: in the ring, in the hand of one  *)
(* worker, or done.                                                        *)
InOnePlace(ring, hands, over, n) ==
  /\ \A i \in 1 .. Len(ring) : ring[i] \in 1 .. n /\ ring[i] \notin over
  /\ \A i, j \in 1 .. Len(ring) : ring[i] = ring[j] => i = j
  /\ \A t \in Threads : hands[t] # 0 =>
       /\ hands[t] \in 1 .. n /\ hands[t] \notin over
       /\ \A i \in 1 .. Len(ring) : ring[i] # hands[t]
       /\ \A u \in Threads : hands[u] = hands[t] => u = t

TasksOK ==
  /\ pool.tail = Wrap(pool.head + pool.count)
  /\ InOnePlace(Pending, doing, done, sent)

RingInv == PoolTypes /\ PlacesOK /\ TasksOK

-----------------------------------------------------------------------------
(* The ring as a sequence of values.                                       *)
RingSeq(queue, head, count) == [i \in 1 .. count |-> queue[(head + i - 1) % QueueSize]]

Slots == 0 .. QueueSize - 1

LEMMA WrapOf ==
  ASSUME NEW h \in Slots, NEW n \in 0 .. QueueSize
  PROVE  Wrap(h + n) \in Slots /\ (h + n) % QueueSize = Wrap(h + n)
<1>1. h + n \in Nat /\ h + n < 2 * QueueSize
  BY QueueSizeType DEF Slots
<1> QED BY <1>1, ModIsWrap DEF Slots

LEMMA WrapNext ==
  ASSUME NEW h \in Slots, NEW n \in 0 .. QueueSize - 1
  PROVE  Wrap(Wrap(h + n) + 1) = Wrap(h + (n + 1))
BY QueueSizeType DEF Slots, Wrap

LEMMA Next1Is ==
  ASSUME NEW h \in Slots
  PROVE  Next1(h) = Wrap(h + 1) /\ Next1(h) \in Slots
<1>1. 1 \in 0 .. QueueSize
  BY QueueSizeType
<1> QED BY <1>1, WrapOf DEF Next1

LEMMA RingSeqIs ==
  ASSUME NEW q \in [Slots -> Nat], NEW h \in Slots, NEW n \in 0 .. QueueSize
  PROVE  /\ RingSeq(q, h, n) \in Seq(Nat) /\ Len(RingSeq(q, h, n)) = n
         /\ \A i \in 1 .. n : RingSeq(q, h, n)[i] = q[Wrap(h + (i - 1))]
<1>1. n \in Nat /\ \A i \in 1 .. n : i - 1 \in 0 .. QueueSize /\ h + i - 1 = h + (i - 1)
  BY QueueSizeType DEF Slots
<1>2. \A i \in 1 .. n : /\ Wrap(h + (i - 1)) \in Slots
                        /\ (h + i - 1) % QueueSize = Wrap(h + (i - 1))
  BY <1>1, WrapOf
<1>3. \A i \in 1 .. n : RingSeq(q, h, n)[i] = q[Wrap(h + (i - 1))]
  BY <1>2 DEF RingSeq
<1>4. RingSeq(q, h, n) \in [1 .. n -> Nat]
  BY <1>2, <1>3 DEF RingSeq
<1> QED BY <1>1, <1>3, <1>4

(* pthipth_pool_add writes behind the last task.                           *)
LEMMA RingAppend ==
  ASSUME NEW q \in [Slots -> Nat], NEW h \in Slots, NEW n \in 0 .. QueueSize,
         n # QueueSize, NEW k \in Nat
  PROVE  RingSeq([q EXCEPT ![Wrap(h + n)] = k], h, n + 1) = Append(RingSeq(q, h, n), k)
<1> DEFINE p == [q EXCEPT ![Wrap(h + n)] = k]
           new == RingSeq(p, h, n + 1)
           was == RingSeq(q, h, n)
<1>1. Wrap(h + n) \in Slots
  BY WrapOf
<1>2. p \in [Slots -> Nat] /\ p[Wrap(h + n)] = k /\ \A x \in Slots : x # Wrap(h + n) => p[x] = q[x]
  BY <1>1
<1> HIDE DEF p
<1>3. n + 1 \in 0 .. QueueSize /\ n \in Nat
  BY QueueSizeType
<1>4. new \in Seq(Nat) /\ Len(new) = n + 1 /\ \A i \in 1 .. n + 1 : new[i] = p[Wrap(h + (i - 1))]
  BY <1>2, <1>3, RingSeqIs
<1>5. was \in Seq(Nat) /\ Len(was) = n /\ \A i \in 1 .. n : was[i] = q[Wrap(h + (i - 1))]
  BY RingSeqIs
<1> HIDE DEF new, was
<1>6. \A i \in 1 .. n : new[i] = was[i]
  <2> TAKE i \in 1 .. n
  <2>1. Wrap(h + (i - 1)) \in Slots /\ Wrap(h + (i - 1)) # Wrap(h + n)
    BY QueueSizeType DEF Slots, Wrap
  <2>2. i \in 1 .. n + 1
    BY <1>3
  <2> QED BY <1>2, <1>4, <1>5, <2>1, <2>2
<1>7. new[n + 1] = k
  <2>1. n + 1 \in 1 .. n + 1 /\ (n + 1) - 1 = n
    BY <1>3
  <2> QED BY <1>2, <1>4, <2>1
<1>8. new = Append(was, k)
  BY <1>3, <1>4, <1>5, <1>6, <1>7
<1> QED BY <1>8 DEF new, was, p

(* pthipth_thread takes the first one.                                     *)
LEMMA RingTail ==
  ASSUME NEW q \in [Slots -> Nat], NEW h \in Slots, NEW n \in 0 .. QueueSize, n # 0
  PROVE  /\ RingSeq(q, Wrap(h + 1), n - 1) = Tail(RingSeq(q, h, n))
         /\ Head(RingSeq(q, h, n)) = q[h]
         /\ Wrap(Wrap(h + 1) + (n - 1)) = Wrap(h + n)
<1> DEFINE new == RingSeq(q, Wrap(h + 1), n - 1)
           was == RingSeq(q, h, n)
<1>1. Wrap(h + 1) \in Slots /\ n - 1 \in 0 .. QueueSize /\ n \in Nat \ {0}
  BY QueueSizeType DEF Slots, Wrap
<1>2. new \in Seq(Nat) /\ Len(new) = n - 1
      /\ \A i \in 1 .. n - 1 : new[i] = q[Wrap(Wrap(h + 1) + (i - 1))]
  BY <1>1, RingSeqIs
<1>3. was \in Seq(Nat) /\ Len(was) = n /\ \A i \in 1 .. n : was[i] = q[Wrap(h + (i - 1))]
  BY RingSeqIs
<1> HIDE DEF new, was
<1>4. \A i \in 1 .. n - 1 : new[i] = was[i + 1]
  <2> TAKE i \in 1 .. n - 1
  <2>1. Wrap(Wrap(h + 1) + (i - 1)) = Wrap(h + ((i + 1) - 1))
    BY QueueSizeType DEF Slots, Wrap
  <2>2. i + 1 \in 1 .. n
    BY <1>1
  <2> QED BY <1>2, <1>3, <2>1, <2>2
<1>5. new = Tail(was)
  <2>1. Tail(was) \in Seq(Nat) /\ Len(Tail(was)) = n - 1 /\ \A i \in 1 .. n - 1 : Tail(was)[i] = was[i + 1]
    BY <1>1, <1>3, HeadTailProperties
  <2> QED BY <1>1, <1>2, <1>4, <2>1, SeqEqual
<1>6. Head(was) = q[h]
  <2>1. 1 \in 1 .. n /\ Wrap(h + (1 - 1)) = h
    BY <1>1, QueueSizeType DEF Slots, Wrap
  <2> QED BY <1>3, <2>1, <1>1
<1>7. Wrap(Wrap(h + 1) + (n - 1)) = Wrap(h + n)
  BY QueueSizeType DEF Slots, Wrap
<1> QED BY <1>5, <1>6, <1>7 DEF new, was

LEMMA PendingIs ==
  ASSUME pool \in Ring
  PROVE  /\ Pending = RingSeq(pool.queue, pool.head, pool.count)
         /\ Pending \in Seq(Nat) /\ Len(Pending) = pool.count
<1>1. Pending = RingSeq(pool.queue, pool.head, pool.count)
  BY DEF Pending, RingSeq
<1>2. pool.queue \in [Slots -> Nat] /\ pool.head \in Slots /\ pool.count \in 0 .. QueueSize
  BY DEF Ring, Slots
<1> QED BY <1>1, <1>2, RingSeqIs

-----------------------------------------------------------------------------
(* The tasks stay where they are, or one moves on.                         *)
LEMMA PlacedAdd ==
  ASSUME NEW s \in Seq(Nat), NEW hands \in [Threads -> Nat], NEW n \in Nat,
         NEW over \in SUBSET (1 .. n), InOnePlace(s, hands, over, n)
  PROVE  InOnePlace(Append(s, n + 1), hands, over, n + 1)
<1> DEFINE r == Append(s, n + 1)
<1>1. /\ Len(r) = Len(s) + 1 /\ Len(s) \in Nat
      /\ r[Len(s) + 1] = n + 1
      /\ \A i \in 1 .. Len(s) : r[i] = s[i]
  OBVIOUS
<1> HIDE DEF r
<1>2. \A i \in 1 .. Len(r) : i \in 1 .. Len(s) \/ i = Len(s) + 1
  BY <1>1
<1>3. \A i \in 1 .. Len(s) : r[i] \in 1 .. n /\ r[i] # n + 1
  BY <1>1 DEF InOnePlace
<1>4. n + 1 \notin over /\ 1 .. n \subseteq 1 .. n + 1 /\ n + 1 \in 1 .. n + 1
  OBVIOUS
<1>5. \A i \in 1 .. Len(r) : r[i] \in 1 .. n + 1 /\ r[i] \notin over
  BY <1>1, <1>2, <1>4 DEF InOnePlace
<1>6. \A i, j \in 1 .. Len(r) : r[i] = r[j] => i = j
  BY <1>1, <1>2, <1>3 DEF InOnePlace
<1>7. ASSUME NEW t \in Threads, hands[t] # 0
      PROVE  /\ hands[t] \in 1 .. n + 1 /\ hands[t] \notin over
             /\ \A i \in 1 .. Len(r) : r[i] # hands[t]
             /\ \A u \in Threads : hands[u] = hands[t] => u = t
  <2>1. hands[t] \in 1 .. n /\ hands[t] # n + 1
    BY <1>7 DEF InOnePlace
  <2>2. \A i \in 1 .. Len(r) : r[i] # hands[t]
    BY <1>1, <1>2, <1>7, <2>1 DEF InOnePlace
  <2> QED BY <1>4, <1>7, <2>1, <2>2 DEF InOnePlace
<1>8. InOnePlace(r, hands, over, n + 1)
  BY <1>5, <1>6, <1>7 DEF InOnePlace
<1> QED BY <1>8 DEF r

LEMMA PlacedTake ==
  ASSUME NEW s \in Seq(Nat), NEW hands \in [Threads -> Nat], NEW n \in Nat,
         NEW over \in SUBSET (1 .. n), InOnePlace(s, hands, over, n),
         s # <<>>, NEW w \in Threads, hands[w] = 0
  PROVE  /\ InOnePlace(Tail(s), [hands EXCEPT ![w] = Head(s)], over, n)
         /\ Head(s) \in 1 .. n
<1> DEFINE r == Tail(s)
           h == [hands EXCEPT ![w] = Head(s)]
<1>1. /\ Len(s) \in Nat \ {0} /\ Len(r) = Len(s) - 1
      /\ \A i \in 1 .. Len(r) : r[i] = s[i + 1]
      /\ Head(s) = s[1]
  BY HeadTailProperties
<1>2. \A i \in 1 .. Len(r) : i + 1 \in 1 .. Len(s) /\ i + 1 # 1
  BY <1>1
<1>3. 1 \in 1 .. Len(s) /\ Head(s) \in 1 .. n /\ Head(s) \notin over
  BY <1>1 DEF InOnePlace
<1>4. h[w] = Head(s) /\ \A t \in Threads \ {w} : h[t] = hands[t]
  OBVIOUS
<1> HIDE DEF r, h
<1>5. \A i \in 1 .. Len(r) : r[i] \in 1 .. n /\ r[i] \notin over /\ r[i] # Head(s)
  BY SMTT(20), <1>1, <1>2, <1>3 DEF InOnePlace
<1>6. \A i, j \in 1 .. Len(r) : r[i] = r[j] => i = j
  <2> SUFFICES ASSUME NEW i \in 1 .. Len(r), NEW j \in 1 .. Len(r), r[i] = r[j] PROVE i = j
    OBVIOUS
  <2>1. i + 1 \in 1 .. Len(s) /\ j + 1 \in 1 .. Len(s) /\ s[i + 1] = s[j + 1]
    BY <1>1, <1>2
  <2>2. \A x, y \in 1 .. Len(s) : s[x] = s[y] => x = y
    BY DEF InOnePlace
  <2> QED BY SMTT(20), <1>1, <2>1, <2>2
<1>7. ASSUME NEW t \in Threads, h[t] # 0
      PROVE  /\ h[t] \in 1 .. n /\ h[t] \notin over
             /\ \A i \in 1 .. Len(r) : r[i] # h[t]
             /\ \A u \in Threads : h[u] = h[t] => u = t
  <2>1. CASE t = w
    <3>1. \A u \in Threads \ {w} : h[u] # Head(s)
      BY SMTT(20), <1>1, <1>3, <1>4 DEF InOnePlace
    <3> QED BY <1>3, <1>4, <1>5, <2>1, <3>1
  <2>2. CASE t # w
    <3>1. h[t] = hands[t] /\ hands[t] # Head(s)
      BY <1>1, <1>3, <1>4, <1>7, <2>2 DEF InOnePlace
    <3> QED BY <1>1, <1>2, <1>4, <1>7, <2>2, <3>1 DEF InOnePlace
  <2> QED BY <2>1, <2>2
<1>8. InOnePlace(r, h, over, n)
  BY <1>5, <1>6, <1>7 DEF InOnePlace
<1> QED BY <1>3, <1>8 DEF r, h

LEMMA PlacedDone ==
  ASSUME NEW s \in Seq(Nat), NEW hands \in [Threads -> Nat], NEW n \in Nat,
         NEW over \in SUBSET (1 .. n), InOnePlace(s, hands, over, n),
         NEW w \in Threads, hands[w] # 0
  PROVE  /\ InOnePlace(s, [hands EXCEPT ![w] = 0], over \cup {hands[w]}, n)
         /\ over \cup {hands[w]} \in SUBSET (1 .. n)
<1> DEFINE h == [hands EXCEPT ![w] = 0]
<1>1. hands[w] \in 1 .. n /\ \A i \in 1 .. Len(s) : s[i] # hands[w]
  BY DEF InOnePlace
<1>2. ASSUME NEW t \in Threads, h[t] # 0
      PROVE  t # w /\ h[t] = hands[t] /\ hands[t] # hands[w] /\ hands[t] # 0
  BY <1>2 DEF InOnePlace
<1>3. \A t \in Threads : h[t] # 0 => \A u \in Threads : h[u] = h[t] => u = t
  BY <1>2 DEF InOnePlace
<1> HIDE DEF h
<1>4. InOnePlace(s, h, over \cup {hands[w]}, n)
  BY <1>1, <1>2, <1>3 DEF InOnePlace
<1> QED BY <1>1, <1>4 DEF h

-----------------------------------------------------------------------------
(* What each step does to the ring and to the task in a worker's hand, and *)
(* the step of TaskPool that it is.                                        *)
InHand == {doing[t] : t \in Threads} \ {0}

LEMMA InitRing == PoolInit => RingInv /\ TP!Init
<1> SUFFICES ASSUME PoolInit PROVE RingInv /\ TP!Init
  OBVIOUS
<1> USE QueueSizeType
<1>1. pool \in Ring /\ pool.head = 0 /\ pool.tail = 0 /\ pool.count = 0 /\ pool.shutdown = FALSE
  BY DEF PoolInit, Ring
<1>2. PoolTypes
  BY <1>1, TasksAre DEF PoolInit, PoolTypes
<1>3. PlacesOK
  BY <1>1 DEF PoolInit, PlacesOK
<1>4. Pending = <<>> /\ Len(Pending) = 0
  BY <1>1, PendingIs
<1>5. \A t \in Threads : doing[t] = 0
  BY DEF PoolInit
<1>6. TasksOK
  BY <1>1, <1>4, <1>5 DEF TasksOK, InOnePlace, Wrap
<1>7. TP!Init
  BY <1>1, <1>4, <1>5 DEF TP!Init, PoolInit
<1> QED BY <1>2, <1>3, <1>6, <1>7 DEF RingInv

LEMMA AddStep ==
  ASSUME RingInv, NEW t \in Threads, Add(t)
  PROVE  RingInv' /\ TP!Submit(sent + 1) /\ sent + 1 \in Tasks
<1> USE DEF RingInv
<1>1. /\ pool.queue \in [Slots -> Nat] /\ pool.head \in Slots /\ pool.tail \in Slots
      /\ pool.count \in 0 .. QueueSize /\ pool.shutdown \in BOOLEAN
      /\ sent \in 0 .. Len(TaskPrio) /\ pool \in Ring
  BY DEF PoolTypes, Ring, Slots
<1>2. /\ Enqueue(sent + 1) /\ sent' = sent + 1 /\ sent < Len(TaskPrio) /\ pool.count # QueueSize
      /\ UNCHANGED <<doing, pc, done>> /\ Adds(t)
  BY DEF Add
<1>3. /\ pool'.queue = [pool.queue EXCEPT ![pool.tail] = sent + 1] /\ pool'.head = pool.head
      /\ pool'.tail = Next1(pool.tail) /\ pool'.count = pool.count + 1
      /\ pool'.shutdown = pool.shutdown
  BY <1>1, <1>2 DEF Enqueue, Ring
<1>4. Next1(pool.tail) = Wrap(pool.tail + 1) /\ Next1(pool.tail) \in Slots
  BY <1>1, Next1Is
<1>5. pool' \in Ring
  <2> DEFINE q == [pool.queue EXCEPT ![pool.tail] = sent + 1]
  <2>1. q \in [Slots -> Nat] /\ pool.count + 1 \in 0 .. QueueSize
    BY <1>1, <1>2, QueueSizeType, TasksAre
  <2>2. pool' = [pool EXCEPT !.queue = q, !.tail = Next1(@), !.count = @ + 1]
    BY <1>1, <1>2 DEF Enqueue
  <2> HIDE DEF q
  <2> QED BY <1>1, <1>4, <2>1, <2>2 DEF Ring, Slots
<1>6. sent + 1 \in 0 .. Len(TaskPrio) /\ sent + 1 \in Nat /\ sent \in Nat /\ sent + 1 \in Tasks
  BY <1>1, <1>2, TasksAre
<1>7. PoolTypes'
  BY <1>2, <1>5, <1>6 DEF PoolTypes
<1>8. PlacesOK'
  BY <1>2, <1>3 DEF PlacesOK
<1>9. pool.tail = Wrap(pool.head + pool.count) /\ InOnePlace(Pending, doing, done, sent)
  BY DEF TasksOK
<1>10. Pending' = Append(Pending, sent + 1)
  <2>1. Pending = RingSeq(pool.queue, pool.head, pool.count)
    BY <1>1, PendingIs
  <2>2. Pending' = RingSeq(pool'.queue, pool'.head, pool'.count)
    BY DEF Pending, RingSeq
  <2>3. RingSeq([pool.queue EXCEPT ![Wrap(pool.head + pool.count)] = sent + 1],
                pool.head, pool.count + 1)
          = Append(RingSeq(pool.queue, pool.head, pool.count), sent + 1)
    BY <1>1, <1>2, <1>6, RingAppend
  <2> QED BY <1>3, <1>9, <2>1, <2>2, <2>3
<1>11. pool'.tail = Wrap(pool'.head + pool'.count)
  <2>1. pool.count \in 0 .. QueueSize - 1
    BY <1>1, <1>2, QueueSizeType
  <2> QED BY <1>1, <1>3, <1>4, <1>9, <2>1, WrapNext
<1>12. InOnePlace(Append(Pending, sent + 1), doing, done, sent + 1)
  BY <1>1, <1>6, <1>9, PendingIs, PlacedAdd DEF PoolTypes
<1>13. TasksOK'
  BY <1>2, <1>10, <1>11, <1>12 DEF TasksOK
<1>14. ~pool.shutdown
  BY <1>2 DEF Adds, Here, PlacesOK
<1>15. sent + 1 \notin InHand \cup done \cup {Pending[i] : i \in DOMAIN Pending}
  <2>1. sent + 1 \notin 1 .. sent
    BY <1>6
  <2>2. DOMAIN Pending = 1 .. Len(Pending)
    BY <1>1, PendingIs
  <2> QED BY <1>9, <2>1, <2>2 DEF InOnePlace, PoolTypes, InHand
<1>16. Len(Pending) < QueueSize
  BY <1>1, <1>2, PendingIs, QueueSizeType
<1>17. TP!Submit(sent + 1)
  BY <1>2, <1>3, <1>10, <1>14, <1>15, <1>16 DEF TP!Submit, InHand
<1> QED BY <1>6, <1>7, <1>8, <1>13, <1>17

LEMMA TakeStep ==
  ASSUME RingInv, NEW w \in Threads, IsWorker(w), Take(w)
  PROVE  RingInv' /\ TP!Start
<1> USE DEF RingInv
<1> DEFINE k == pool.queue[pool.head]
<1>1. /\ pool.queue \in [Slots -> Nat] /\ pool.head \in Slots /\ pool.tail \in Slots
      /\ pool.count \in 0 .. QueueSize /\ pool.shutdown \in BOOLEAN
      /\ sent \in Nat /\ pool \in Ring
  BY TasksAre DEF PoolTypes, Ring, Slots
<1>2. /\ Dequeue /\ pool.count # 0 /\ pc[w] = "loop"
      /\ doing' = [doing EXCEPT ![w] = k] /\ pc' = [pc EXCEPT ![w] = "task"]
      /\ UNCHANGED <<sent, done>>
  BY DEF Take, Here
<1>3. /\ pool'.queue = pool.queue /\ pool'.head = Next1(pool.head)
      /\ pool'.tail = pool.tail /\ pool'.count = pool.count - 1 /\ pool'.shutdown = pool.shutdown
  BY <1>1, <1>2 DEF Dequeue, Ring
<1>4. Next1(pool.head) = Wrap(pool.head + 1) /\ Next1(pool.head) \in Slots
  BY <1>1, Next1Is
<1>5. pool' \in Ring
  <2>1. pool.count - 1 \in 0 .. QueueSize /\ pool.progress + 1 \in Int
    BY SMTT(20), <1>1, <1>2, QueueSizeType DEF Ring
  <2> QED BY <1>1, <1>2, <1>4, <2>1 DEF Ring, Slots, Dequeue
<1>6. pool.tail = Wrap(pool.head + pool.count) /\ InOnePlace(Pending, doing, done, sent)
  BY DEF TasksOK
<1>7. Pending = RingSeq(pool.queue, pool.head, pool.count) /\ Pending \in Seq(Nat)
      /\ Len(Pending) = pool.count
  BY <1>1, PendingIs
<1>8. Pending' = Tail(Pending) /\ Head(Pending) = k
      /\ pool'.tail = Wrap(pool'.head + pool'.count)
  <2>1. Pending' = RingSeq(pool'.queue, pool'.head, pool'.count)
    BY DEF Pending, RingSeq
  <2>2. /\ RingSeq(pool.queue, Wrap(pool.head + 1), pool.count - 1)
              = Tail(RingSeq(pool.queue, pool.head, pool.count))
        /\ Head(RingSeq(pool.queue, pool.head, pool.count)) = k
        /\ Wrap(Wrap(pool.head + 1) + (pool.count - 1)) = Wrap(pool.head + pool.count)
    BY <1>1, <1>2, RingTail
  <2> QED BY <1>3, <1>4, <1>6, <1>7, <2>1, <2>2
<1>9. /\ doing \in [Threads -> Nat] /\ done \in SUBSET (1 .. sent) /\ doing[w] = 0
      /\ Pending # <<>>
  BY <1>1, <1>2, <1>7 DEF PoolTypes, PlacesOK
<1> HIDE DEF k
<1>10. InOnePlace(Tail(Pending), [doing EXCEPT ![w] = k], done, sent) /\ k \in 1 .. sent
  <2>1. /\ InOnePlace(Tail(Pending), [doing EXCEPT ![w] = Head(Pending)], done, sent)
        /\ Head(Pending) \in 1 .. sent
    BY <1>1, <1>6, <1>7, <1>9, PlacedTake
  <2> QED BY <1>8, <2>1
<1>11. TasksOK'
  BY <1>2, <1>8, <1>10 DEF TasksOK
<1>12. k \in Nat /\ k # 0
  BY <1>1, <1>10
<1>13. PoolTypes'
  BY <1>2, <1>5, <1>12 DEF PoolTypes
<1>14. PlacesOK'
  <2>1. w # Main
    BY MainNoWorker
  <2>2. \A t \in Threads : /\ pc'[t] = IF t = w THEN "task" ELSE pc[t]
                           /\ doing'[t] = IF t = w THEN k ELSE doing[t]
    BY <1>2 DEF PoolTypes
  <2> QED BY <1>2, <1>3, <1>12, <2>1, <2>2, ThreadAssumption DEF PlacesOK
<1>15. TP!Start
  <2>1. InHand' = InHand \cup {k}
    <3>1. \A t \in Threads : doing'[t] = IF t = w THEN k ELSE doing[t]
      BY <1>2, <1>9
    <3> QED BY <1>9, <1>12, <3>1 DEF InHand
  <2> QED BY <1>2, <1>3, <1>8, <1>9, <2>1 DEF TP!Start, InHand
<1> QED BY <1>11, <1>13, <1>14, <1>15

LEMMA DoneStep ==
  ASSUME RingInv, NEW w \in Threads, IsWorker(w), TaskDone(w)
  PROVE  RingInv' /\ TP!Finish(doing[w]) /\ doing[w] \in Tasks
<1> USE DEF RingInv
<1>1. pool \in Ring /\ sent \in Nat /\ sent <= Len(TaskPrio)
  BY TasksAre DEF PoolTypes
<1>2. /\ pc[w] = "task" /\ pool' = [pool EXCEPT !.progress = @ - 1]
      /\ done' = done \cup {doing[w]}
      /\ doing' = [doing EXCEPT ![w] = 0] /\ pc' = [pc EXCEPT ![w] = "loop"]
      /\ UNCHANGED sent
  BY DEF TaskDone, Here
<1>3. /\ pool'.queue = pool.queue /\ pool'.head = pool.head
      /\ pool'.tail = pool.tail /\ pool'.count = pool.count /\ pool'.shutdown = pool.shutdown
  BY <1>1, <1>2 DEF Ring
<1>4. pool' \in Ring
  <2>1. pool.progress - 1 \in Int
    BY <1>1 DEF Ring
  <2> QED BY <1>1, <1>2, <2>1 DEF Ring
<1>5. Pending' = Pending /\ Pending \in Seq(Nat)
  BY <1>1, <1>3, PendingIs DEF Pending
<1>6. /\ doing \in [Threads -> Nat] /\ done \in SUBSET (1 .. sent) /\ doing[w] # 0
      /\ pool.tail = Wrap(pool.head + pool.count) /\ InOnePlace(Pending, doing, done, sent)
  BY <1>2 DEF PoolTypes, PlacesOK, TasksOK
<1>7. /\ InOnePlace(Pending, [doing EXCEPT ![w] = 0], done \cup {doing[w]}, sent)
      /\ done \cup {doing[w]} \in SUBSET (1 .. sent)
  BY <1>1, <1>5, <1>6, PlacedDone
<1>8. TasksOK'
  BY <1>2, <1>3, <1>5, <1>6, <1>7 DEF TasksOK
<1>9. PoolTypes'
  BY <1>2, <1>4, <1>7 DEF PoolTypes
<1>10. PlacesOK'
  <2>1. w # Main
    BY MainNoWorker
  <2>2. \A t \in Threads : /\ pc'[t] = IF t = w THEN "loop" ELSE pc[t]
                           /\ doing'[t] = IF t = w THEN 0 ELSE doing[t]
    BY <1>2 DEF PoolTypes
  <2> QED BY <1>3, <2>1, <2>2, ThreadAssumption DEF PlacesOK
<1>11. doing[w] \in Tasks
  BY <1>1, <1>6, TasksAre DEF InOnePlace
<1>12. InHand' = InHand \ {doing[w]}
  <2>1. \A t \in Threads : doing'[t] = IF t = w THEN 0 ELSE doing[t]
    BY <1>2, <1>6
  <2>2. \A t \in Threads : doing[t] = doing[w] => t = w
    BY <1>6 DEF InOnePlace
  <2> QED BY <2>1, <2>2 DEF InHand
<1>13. TP!Finish(doing[w])
  BY <1>2, <1>3, <1>5, <1>6, <1>12 DEF TP!Finish, InHand
<1> QED BY <1>8, <1>9, <1>10, <1>11, <1>13

(* The other steps leave the tasks alone.                                  *)
LEMMA Aside ==
  ASSUME RingInv, pool' \in Ring, UNCHANGED <<doing, sent, done>>,
         pool'.queue = pool.queue, pool'.head = pool.head, pool'.tail = pool.tail,
         pool'.count = pool.count
  PROVE  Pending' = Pending /\ InHand' = InHand /\ TasksOK'
<1>1. Pending' = Pending
  BY DEF Pending
<1> QED BY <1>1 DEF RingInv, TasksOK, InHand

Rests == UNCHANGED <<Pending, {doing[t] : t \in Threads} \ {0}, done, pool.shutdown>>

(* A call of main.                                                         *)
LEMMA MainStep ==
  ASSUME RingInv, PoolCreate \/ BeginDestroy \/ Shutdown \/ Free
  PROVE  RingInv' /\ (Rests \/ TP!Close)
<1> USE DEF RingInv
<1>1. pool \in Ring /\ Main \in Threads /\ doing[Main] = 0
  BY ThreadAssumption, MainNoWorker DEF PoolTypes, PlacesOK
<1>2. /\ UNCHANGED <<doing, sent, done>> /\ pool' \in Ring
      /\ pool'.queue = pool.queue /\ pool'.head = pool.head /\ pool'.tail = pool.tail
      /\ pool'.count = pool.count
  <2>1. CASE PoolCreate
    <3>1. pool' = [pool EXCEPT !.threads = @ + 1, !.started = @ + 1] /\ UNCHANGED <<doing, sent, done>>
      BY <2>1 DEF PoolCreate
    <3>2. pool.threads + 1 \in Int /\ pool.started + 1 \in Int
      BY <1>1 DEF Ring
    <3> QED BY <1>1, <3>1, <3>2 DEF Ring
  <2>2. CASE BeginDestroy \/ Free
    BY <1>1, <2>2 DEF BeginDestroy, Free
  <2>3. CASE Shutdown
    BY <1>1, <2>3 DEF Shutdown, Ring
  <2> QED BY <2>1, <2>2, <2>3
<1>3. PICK place \in {"create", "user", "destroy", "join", "freed", "leaked"} :
        /\ pc' = [pc EXCEPT ![Main] = place]
        /\ place \in {"create", "user", "destroy"} =>
              pc[Main] \in {"create", "user", "destroy"} /\ pool'.shutdown = pool.shutdown
  <2>1. CASE PoolCreate
    BY <1>1, <2>1 DEF PoolCreate, Ring, Here
  <2>2. CASE BeginDestroy
    BY <1>1, <2>2 DEF BeginDestroy, Here
  <2>3. CASE Shutdown
    BY <2>3 DEF Shutdown
  <2>4. CASE Free
    BY <2>4 DEF Free
  <2> QED BY <2>1, <2>2, <2>3, <2>4
<1>4. PoolTypes'
  BY <1>1, <1>2, <1>3 DEF PoolTypes
<1>5. \A t \in Threads : pc'[t] = IF t = Main THEN place ELSE pc[t]
  BY <1>3 DEF PoolTypes
<1>6. PlacesOK'
  BY <1>1, <1>2, <1>3, <1>5 DEF PlacesOK
<1>7. Pending' = Pending /\ InHand' = InHand /\ TasksOK'
  BY <1>2, Aside
<1>8. Rests \/ TP!Close
  <2>1. CASE PoolCreate
    BY <1>1, <1>2, <1>7, <2>1 DEF PoolCreate, Rests, InHand, Ring
  <2>2. CASE BeginDestroy \/ Free
    BY <1>2, <1>7, <2>2 DEF BeginDestroy, Free, Rests, InHand
  <2>3. CASE Shutdown
    <3>1. pool.count = 0 /\ pool'.shutdown
      BY <1>1, <2>3, QueueSizeType DEF Shutdown, Ring
    <3>2. Pending = <<>>
      BY <1>1, <3>1, PendingIs
    <3> QED BY <1>1, <1>2, <1>7, <3>1, <3>2, <2>3 DEF TP!Close, InHand, Shutdown, Ring
  <2> QED BY <2>1, <2>2, <2>3
<1> QED BY <1>4, <1>6, <1>7, <1>8

LEMMA QuitStep ==
  ASSUME RingInv, NEW w \in Threads, IsWorker(w), Quit(w)
  PROVE  RingInv' /\ Rests
<1> USE DEF RingInv
<1>1. /\ pool \in Ring /\ pool' = [pool EXCEPT !.started = @ - 1] /\ w # Main
      /\ pc[w] = "loop" /\ pc' = [pc EXCEPT ![w] = "gone"] /\ UNCHANGED <<doing, sent, done>>
  BY MainNoWorker DEF Quit, Here, PoolTypes
<1>2. /\ pool' \in Ring /\ pool'.shutdown = pool.shutdown
      /\ pool'.queue = pool.queue /\ pool'.head = pool.head /\ pool'.tail = pool.tail
      /\ pool'.count = pool.count
  BY <1>1 DEF Ring
<1>3. \A t \in Threads : pc'[t] = IF t = w THEN "gone" ELSE pc[t]
  BY <1>1 DEF PoolTypes
<1>4. PoolTypes'
  BY <1>1, <1>2 DEF PoolTypes
<1>5. PlacesOK'
  BY <1>1, <1>2, <1>3, ThreadAssumption DEF PlacesOK
<1>6. Pending' = Pending /\ InHand' = InHand /\ TasksOK'
  BY <1>1, <1>2, Aside
<1> QED BY <1>1, <1>2, <1>4, <1>5, <1>6 DEF Rests, InHand

LEMMA PoolStill ==
  ASSUME RingInv, UNCHANGED poolVars
  PROVE  RingInv' /\ Rests
<1>1. Pending' = Pending /\ UNCHANGED <<pool, doing, pc, sent, done>>
  BY DEF Pending, poolVars
<1> QED BY <1>1 DEF RingInv, PoolTypes, PlacesOK, TasksOK, Rests

(* Every step of the pool, with what it is to TaskPool.                    *)
LEMMA RingStep ==
  ASSUME RingInv, [PoolNext]_allVars
  PROVE  RingInv' /\ [TP!Next]_<<Pending, {doing[t] : t \in Threads} \ {0}, done, pool.shutdown>>
<1> DEFINE Goal ==
      RingInv' /\ [TP!Next]_<<Pending, {doing[t] : t \in Threads} \ {0}, done, pool.shutdown>>
<1>1. ASSUME NEW t \in Threads, Add(t) PROVE Goal
  BY <1>1, AddStep DEF TP!Next
<1>2. ASSUME NEW w \in Threads, IsWorker(w), Take(w) PROVE Goal
  BY <1>2, TakeStep DEF TP!Next
<1>3. ASSUME NEW w \in Threads, IsWorker(w), TaskDone(w) PROVE Goal
  <2>1. RingInv' /\ TP!Finish(doing[w]) /\ doing[w] \in Tasks
    BY <1>3, DoneStep
  <2>2. TP!Next
    BY <2>1 DEF TP!Next, TP!Finish
  <2> QED BY <2>1, <2>2
<1>4. ASSUME NEW w \in Threads, IsWorker(w), Quit(w) PROVE Goal
  BY <1>4, QuitStep DEF Rests
<1>5. ASSUME PoolCreate \/ BeginDestroy \/ Shutdown \/ Free PROVE Goal
  BY <1>5, MainStep DEF TP!Next, Rests
<1>6. ASSUME UNCHANGED poolVars PROVE Goal
  BY <1>6, PoolStill DEF Rests
<1>7. ASSUME MainYields \/ JoinNext \/ MainRests PROVE Goal
  BY <1>6, <1>7 DEF MainYields, JoinNext, MainRests
<1>8. ASSUME NEW w \in Threads, IsWorker(w), Wait(w) \/ TaskYields(w) PROVE Goal
  <2>1. UNCHANGED poolVars
    BY <1>8 DEF Wait, TaskYields, poolVars
  <2> QED BY <1>6, <2>1
<1>9. ASSUME (Dispatcher \/ Yield(IdleThread) \/ Reap(Main)) /\ UNCHANGED <<syncVars, poolVars>> PROVE Goal
  BY <1>6, <1>9
<1>10. ASSUME NEW t \in Threads, KernelExits(t) PROVE Goal
  BY <1>6, <1>10 DEF KernelExits
<1>11. ASSUME UNCHANGED allVars PROVE Goal
  BY <1>6, <1>11 DEF allVars
<1> HIDE DEF Goal
<1>12. ASSUME NEW t \in Threads, Worker(t) PROVE Goal
  BY <1>2, <1>3, <1>4, <1>8, <1>12 DEF Worker
<1>13. ASSUME PoolRuns PROVE Goal
  <2>1. CASE \E t \in Threads : Add(t) \/ Worker(t)
    BY <1>1, <1>12, <2>1
  <2>2. CASE PoolCreate \/ BeginDestroy \/ Shutdown \/ Free \/ MainYields \/ JoinNext \/ MainRests
    BY <1>5, <1>7, <2>2
  <2>3. CASE (Dispatcher \/ Yield(IdleThread) \/ Reap(Main)) /\ UNCHANGED <<syncVars, poolVars>>
    BY <1>9, <2>3
  <2> QED BY <1>13, <2>1, <2>2, <2>3 DEF PoolRuns
<1>14. Goal
  <2>1. CASE \E t \in Threads : KernelExits(t)
    BY <1>10, <2>1
  <2> QED BY <1>11, <1>13, <2>1 DEF PoolNext
<1> QED BY <1>14 DEF Goal

-----------------------------------------------------------------------------
(* Where every task is, at any time.                                       *)
THEOREM TasksPlaced == PoolSpec => []RingInv
<1>1. PoolInit => RingInv
  BY InitRing
<1>2. RingInv /\ [PoolNext]_allVars => RingInv'
  BY RingStep
<1> QED BY <1>1, <1>2, PTL DEF PoolSpec

(* Tasks leave the ring in the order they came, each is run once, none is  *)
(* dropped by a shutdown.                                                  *)
THEOREM PoolRunsTasks == PoolSpec => ImplementsTaskPool
<1>1. PoolInit => TP!Init
  BY InitRing
<1>2. RingInv /\ [PoolNext]_allVars => [TP!Next]_TP!vars
  BY RingStep DEF TP!vars
<1> QED BY <1>1, <1>2, TasksPlaced, PTL DEF PoolSpec, ImplementsTaskPool, TP!Spec

-----------------------------------------------------------------------------
(* The workers, the condition variable and the scheduler under them.       *)

(* No task has the priority of the idle thread.  The pool lets such a task *)
(* through, and its worker would share the bucket of the idle thread.      *)
NoIdleTask == \A k \in Tasks : TaskPrio[k] # IdlePriority

(* A worker waits for a task at the top of its loop and is in its function *)
(* from its creation to its exit; main counts the workers it creates, shuts*)
(* the pool down empty and frees it when all of them are freed.            *)
WorkersOK ==
  /\ onCond \in [Threads -> Conds \cup {NoObject}]
  /\ pool.threads \in 0 .. Len(Workers)
  /\ pc[Main] = "create" <=> pool.threads # Len(Workers)
  /\ pool.shutdown => pool.count = 0
  /\ \A t \in Threads : onCond[t] # NoObject =>
       IsWorker(t) /\ pc[t] = "loop" /\ state[t] = "BLOCKED" /\ at[t] # "reaping"
  /\ \A t \in Threads : IsWorker(t) =>
       /\ state[t] = "none" => pc[t] = "loop"
       /\ state[t] \in {"DEFUNCT", "freed"} => pc[t] = "gone"
       /\ pc[Main] = "freed" => state[t] = "freed"

(* The workers on the way to the queue, those that have not left their     *)
(* function, and the threads with a task.                                  *)
OnTheWay == {t \in Threads : IsWorker(t) /\ pc[t] = "loop" /\ state[t] \in {"READY", "RUNNING"}}

Started == {t \in Threads : IsWorker(t) /\ HasTCB(t) /\ pc[t] # "gone"}

AtWork == {t \in Threads : doing[t] # 0}

(* The counters of the pool against these.                                 *)
Books ==
  /\ Waiters(PoolCond) # {} => pool.count <= Cardinality(OnTheWay)
  /\ pool.started = Cardinality(Started)
  /\ pool.progress = Cardinality(AtWork)

PoolInv == IInv /\ Prompt /\ RingInv /\ WorkersOK /\ Books

LEMMA CountIs ==
  ASSUME NEW S \in SUBSET Threads
  PROVE  /\ IsFiniteSet(S) /\ Cardinality(S) \in Nat
         /\ \A T \in SUBSET S : Cardinality(T) <= Cardinality(S) /\ Cardinality(T) \in Nat
         /\ \A x \in Threads \ S : Cardinality(S \cup {x}) = Cardinality(S) + 1
         /\ \A x \in S : Cardinality(S \ {x}) = Cardinality(S) - 1
<1>1. IsFiniteSet(S)
  BY SyncAssumption, FS_Subset
<1>2. \A T \in SUBSET S : Cardinality(T) <= Cardinality(S) /\ Cardinality(T) \in Nat
  BY <1>1, FS_Subset, FS_CardinalityType
<1>3. \A x \in Threads \ S : Cardinality(S \cup {x}) = Cardinality(S) + 1
  BY <1>1, FS_AddElement
<1>4. \A x \in S : Cardinality(S \ {x}) = Cardinality(S) - 1
  BY <1>1, FS_RemoveElement
<1> QED BY <1>1, <1>2, <1>3, <1>4, FS_CardinalityType

LEMMA RingTypes ==
  ASSUME RingInv
  PROVE  /\ pool \in Ring /\ pool.count \in Nat /\ pool.threads \in Int
         /\ pool.started \in Int /\ pool.progress \in Int /\ pool.shutdown \in BOOLEAN
         /\ doing \in [Threads -> Nat] /\ Main \in Threads
         /\ \A t \in Threads : doing[t] # 0 <=> pc[t] = "task"
BY ThreadAssumption, QueueSizeType DEF RingInv, PoolTypes, PlacesOK, Ring

(* The invariant says what the run checks.                                 *)
LEMMA PoolInvSays == PoolInv => NoTaskForgotten /\ FreedLast
<1> SUFFICES ASSUME PoolInv PROVE NoTaskForgotten /\ FreedLast
  OBVIOUS
<1>1. NoTaskForgotten
  BY DEF PoolInv, Books, NoTaskForgotten, OnTheWay, Waiters
<1>2. \A t \in Threads : state[t] = "freed" => exited[t]
  BY DEF PoolInv, IInv, FreedOK
<1>3. FreedLast
  BY <1>2 DEF PoolInv, WorkersOK, Books, FreedLast, Started, AtWork
<1> QED BY <1>1, <1>3

(* At the start no worker exists.                                          *)
LEMMA InitPool == PoolInit => PoolInv
<1> SUFFICES ASSUME PoolInit PROVE PoolInv
  OBVIOUS
<1>1. SyncInit /\ IInv /\ Prompt /\ RingInv
  BY InitSync, InitRing DEF PoolInit, SInv
<1>2. /\ onCond = [t \in Threads |-> NoObject]
      /\ pc = [t \in Threads |-> IF t = Main THEN "create" ELSE "loop"]
      /\ pool.threads = 0 /\ pool.count = 0 /\ pool.started = 0 /\ pool.progress = 0
      /\ pool.shutdown = FALSE
      /\ \A t \in Threads : doing[t] = 0
  BY <1>1 DEF PoolInit, SyncInit
<1>3. \A t \in Threads : IsWorker(t) => state[t] = "none"
  BY <1>1, PoolAssumption DEF SyncInit, Init, IsWorker
<1>4. Len(Workers) \in Nat /\ Len(Workers) # 0
  BY PoolAssumption
<1>5. WorkersOK
  <2>1. /\ onCond \in [Threads -> Conds \cup {NoObject}] /\ pool.threads \in 0 .. Len(Workers)
        /\ pc[Main] = "create" /\ pool.threads # Len(Workers)
    BY <1>2, <1>4, ThreadAssumption
  <2>2. \A t \in Threads : /\ onCond[t] = NoObject
                           /\ IsWorker(t) => state[t] = "none" /\ pc[t] = "loop"
    BY <1>2, <1>3, MainNoWorker
  <2> QED BY <1>2, <2>1, <2>2 DEF WorkersOK
<1>6. Started = {} /\ AtWork = {} /\ Waiters(PoolCond) = {}
  BY <1>2, <1>3, PoolAssumption, SyncAssumption DEF Started, AtWork, Waiters
<1>7. Books
  BY <1>2, <1>6, FS_EmptySet DEF Books
<1> QED BY <1>1, <1>5, <1>7 DEF PoolInv

-----------------------------------------------------------------------------
(* Steps that leave the tasks and the counters alone.                      *)

(* What the scheduler does to a worker by itself.                          *)
GoesOn(t) ==
  \/ sch'.state[t] = state[t]
  \/ state[t] \in {"READY", "RUNNING", "BLOCKED", "SLEEPING"} /\ sch'.state[t] \in OnProcessor
  \/ state[t] = "DEFUNCT" /\ sch'.state[t] = "freed"

LEMMA BooksStay ==
  ASSUME PoolInv, Undisturbed, UNCHANGED <<pool, doing, onCond>>,
         \A t \in Threads : IsWorker(t) => GoesOn(t) /\ pc'[t] = pc[t],
         pc'[Main] = "create" <=> pc[Main] = "create",
         pc'[Main] = "freed" => pc[Main] = "freed" \/
           \A t \in Threads : IsWorker(t) => state[t] = "freed"
  PROVE  WorkersOK' /\ Books'
<1> USE DEF PoolInv
<1>1. \A t \in Threads : onCond[t] # NoObject => sch'.state[t] = state[t] /\ at'[t] = at[t]
  BY DEF WorkersOK, Undisturbed
<1>2. WorkersOK'
  <2>1. \A t \in Threads : IsWorker(t) =>
          /\ sch'.state[t] = "none" => pc'[t] = "loop"
          /\ sch'.state[t] \in {"DEFUNCT", "freed"} => pc'[t] = "gone"
          /\ pc'[Main] = "freed" => sch'.state[t] = "freed"
    BY DEF WorkersOK, GoesOn, OnProcessor
  <2> QED BY <1>1, <2>1 DEF WorkersOK
<1>3. Started' = Started
  BY DEF Started, GoesOn, OnProcessor, WorkersOK
<1>4. AtWork' = AtWork
  BY DEF AtWork
<1>5. Waiters(PoolCond)' # {} => Waiters(PoolCond) # {}
  BY <1>1, PoolAssumption, SyncAssumption DEF Waiters
<1>6. Cardinality(OnTheWay) <= Cardinality(OnTheWay') /\ Cardinality(OnTheWay) \in Nat
      /\ Cardinality(OnTheWay') \in Nat
  <2>1. OnTheWay \subseteq OnTheWay'
    BY DEF OnTheWay, GoesOn, OnProcessor
  <2>2. OnTheWay' \in SUBSET Threads
    BY DEF OnTheWay
  <2> QED BY <2>1, <2>2, CountIs
<1>7. pool.count \in Nat
  BY RingTypes
<1>8. Books'
  BY <1>3, <1>4, <1>5, <1>6, <1>7 DEF Books
<1> QED BY <1>2, <1>8

(* A step of the scheduler keeps its invariant, and neither creates nor    *)
(* ends a worker.                                                          *)
LEMMA ScheduledStep ==
  ASSUME PoolInv, [Next]_vars,
         \/ phase # "run"
         \/ UNCHANGED sch
         \/ cur = Main /\ (phase' # "run" \/ at[cur] # "user")
  PROVE  /\ IInv' /\ Prompt' /\ Undisturbed
         /\ \A t \in Threads : IsWorker(t) => GoesOn(t)
<1>1. IInv' /\ Prompt' /\ Undisturbed /\ LifeCycle
  BY NextInv DEF PoolInv, Preserved
<1>2. ASSUME NEW t \in Threads, IsWorker(t) PROVE GoesOn(t)
  <2>1. t # Main
    BY <1>2, MainNoWorker
  <2>2. CASE phase # "run"
    BY <1>1, <2>2 DEF LifeCycle, GoesOn, OnProcessor
  <2>3. CASE UNCHANGED sch
    BY <2>3 DEF GoesOn
  <2>4. CASE cur = Main /\ (phase' # "run" \/ at[cur] # "user")
    BY <1>1, <2>1, <2>4 DEF LifeCycle, GoesOn, OnProcessor
  <2> QED BY <2>2, <2>3, <2>4
<1> QED BY <1>1, <1>2

(* Main joins the workers one after the other.                             *)
LEMMA JoinsWorker ==
  ASSUME PoolInv, JoinNext
  PROVE  Joined + 1 \in 1 .. Len(Workers) /\ Workers[Joined + 1] \in Threads
<1>1. {t \in Threads : IsWorker(t) /\ state[t] = "freed"} \in SUBSET Threads
  OBVIOUS
<1>2. Joined \in Nat
  BY <1>1, CountIs DEF Joined
<1>3. Joined < pool.threads /\ pool.threads \in 0 .. Len(Workers)
  BY DEF JoinNext, PoolInv, WorkersOK
<1>4. Joined + 1 \in 1 .. Len(Workers)
  BY <1>2, <1>3, PoolAssumption
<1> QED BY <1>4, PoolAssumption

(* When as many workers as were created have been freed, all have been:    *)
(* there are no more workers than entries of the table.                    *)
LEMMA AllJoined ==
  ASSUME PoolInv, Free
  PROVE  \A t \in Threads : IsWorker(t) => state[t] = "freed"
<1> DEFINE W == {t \in Threads : IsWorker(t)}
           F == {t \in Threads : IsWorker(t) /\ state[t] = "freed"}
<1>1. Len(Workers) \in Nat /\ Workers \in [1 .. Len(Workers) -> Threads]
  BY PoolAssumption
<1>2. Workers \in Surjection(1 .. Len(Workers), W)
  <2>1. \A i \in 1 .. Len(Workers) : Workers[i] \in W
    BY <1>1 DEF IsWorker
  <2>2. \A t \in W : \E i \in 1 .. Len(Workers) : Workers[i] = t
    BY <1>1 DEF IsWorker
  <2> QED BY <1>1, <2>1, <2>2 DEF Surjection
<1>3. Cardinality(W) <= Len(Workers)
  BY <1>1, <1>2, FS_SurjCardinalityBound DEF ExistsSurjection
<1>4. Cardinality(F) = Len(Workers)
  <2>1. pc[Main] # "create" /\ Joined = pool.threads
    BY DEF Free, Here
  <2> QED BY <2>1 DEF PoolInv, WorkersOK, Joined
<1>5. F \in SUBSET W /\ W \in SUBSET Threads
  OBVIOUS
<1>6. F = W
  <2> HIDE DEF F, W
  <2>1. ASSUME NEW t \in W, t \notin F PROVE FALSE
    <3>1. F \in SUBSET (W \ {t})
      BY <1>5, <2>1
    <3>2. /\ Cardinality(W \ {t}) = Cardinality(W) - 1 /\ Cardinality(W) \in Nat
          /\ W \ {t} \in SUBSET Threads
      BY <1>5, <2>1, CountIs
    <3>3. Cardinality(F) <= Cardinality(W \ {t})
      BY <3>1, <3>2, CountIs
    <3> QED BY <1>1, <1>3, <1>4, <3>2, <3>3
  <2> QED BY <1>5, <2>1
<1> QED BY <1>6

(* Where main is, and the workers are, in the steps of the scheduler.      *)
LEMMA QuietStep ==
  ASSUME PoolInv,
         \/ MainYields \/ BeginDestroy \/ JoinNext \/ Free \/ MainRests
         \/ \E w \in Threads : TaskYields(w)
         \/ (Dispatcher \/ Yield(IdleThread) \/ Reap(Main)) /\ UNCHANGED <<syncVars, poolVars>>
         \/ \E t \in Threads : KernelExits(t)
         \/ UNCHANGED allVars
  PROVE  IInv' /\ Prompt' /\ WorkersOK' /\ Books'
<1>1. /\ [Next]_vars
      /\ \/ phase # "run"
         \/ UNCHANGED sch
         \/ cur = Main /\ (phase' # "run" \/ at[cur] # "user")
  <2>1. CASE MainYields \/ MainRests \/ \E w \in Threads : TaskYields(w)
    BY <2>1, ThreadAssumption DEF MainYields, MainRests, TaskYields, Yield, Next, UserCall
  <2>2. CASE BeginDestroy \/ Free \/ UNCHANGED allVars
    <3>1. UNCHANGED vars
      BY <2>2 DEF BeginDestroy, Free, SyncVars, allVars
    <3> QED BY <3>1 DEF vars
  <2>3. CASE JoinNext
    <3>1. PICK u \in Threads : JoinWait(Main, u) \/ JoinDefunct(Main, u)
      BY <2>3, JoinsWorker DEF JoinNext
    <3>2. Next
      BY <3>1, ThreadAssumption DEF Next, UserCall
    <3> QED BY <3>1, <3>2 DEF JoinWait, JoinDefunct, Dispatch, Calls, InUser
  <2>4. CASE Dispatcher
    <3>1. phase # "run"
      BY <2>4 DEF Dispatcher, WakeSleeper, StartAging, AgeLevel, Spin, StartReaping, ReapDetached,
                  Select
    <3> QED BY <2>4, <3>1 DEF Next
  <2>5. CASE Yield(IdleThread)
    BY <2>5, BucketAssumption DEF Yield, Next, UserCall
  <2>6. CASE Reap(Main)
    BY <2>6, ThreadAssumption DEF Reap, Next
  <2>7. CASE \E t \in Threads : KernelExits(t)
    BY <2>7 DEF KernelExits, KernelExit, Next
  <2> QED BY <2>1, <2>2, <2>3, <2>4, <2>5, <2>6, <2>7
<1>2. /\ IInv' /\ Prompt' /\ Undisturbed
      /\ \A t \in Threads : IsWorker(t) => GoesOn(t)
  BY <1>1, ScheduledStep
<1>3. CASE UNCHANGED <<syncVars, poolVars>>
  BY <1>2, <1>3, BooksStay DEF syncVars, poolVars
<1>4. CASE BeginDestroy \/ Free
  <2>1. /\ UNCHANGED <<pool, doing, onCond>>
        /\ \E place \in {"destroy", "leaked", "freed"} : pc' = [pc EXCEPT ![Main] = place]
        /\ pc[Main] # "create"
    BY <1>4 DEF BeginDestroy, Free, Here, SyncVars, syncVars
  <2>2. pc \in [Threads -> {"create", "user", "destroy", "join", "freed", "leaked", "loop", "task",
                            "gone"}] /\ Main \in Threads
    BY ThreadAssumption DEF PoolInv, RingInv, PoolTypes
  <2>3. /\ pc'[Main] # "create"
        /\ \A t \in Threads : IsWorker(t) => pc'[t] = pc[t]
    BY <2>1, <2>2, MainNoWorker
  <2>4. pc'[Main] = "freed" => \A t \in Threads : IsWorker(t) => state[t] = "freed"
    BY <1>4, <2>2, AllJoined DEF BeginDestroy, Free
  <2> QED BY <1>2, <2>1, <2>3, <2>4, BooksStay
<1>5. CASE UNCHANGED allVars
  BY <1>3, <1>5 DEF allVars, SyncVars
<1> QED
  BY <1>3, <1>4, <1>5 DEF MainYields, JoinNext, MainRests, TaskYields, KernelExits

-----------------------------------------------------------------------------
(* Steps that change who is counted where.                                 *)

(* A worker is created READY and is counted among those that have started. *)
LEMMA CreateBooks ==
  ASSUME PoolInv, PoolCreate
  PROVE  IInv' /\ Prompt' /\ WorkersOK' /\ Books'
<1> DEFINE u == Workers[pool.threads + 1]
<1> USE DEF PoolInv
<1>1. /\ Here(Main, "create") /\ Create(Main, u)
      /\ pool' = [pool EXCEPT !.threads = @ + 1, !.started = @ + 1]
      /\ pc' = [pc EXCEPT ![Main] = IF pool'.threads = Len(Workers) THEN "user" ELSE "create"]
      /\ UNCHANGED <<onCond, doing>>
  BY DEF PoolCreate, syncVars
<1>2. pool.threads \in 0 .. Len(Workers) /\ pool.threads # Len(Workers) /\ Len(Workers) \in Nat
  BY <1>1, PoolAssumption DEF Here, WorkersOK
<1>3. u \in Threads /\ IsWorker(u) /\ u # Main
  <2>1. pool.threads + 1 \in 1 .. Len(Workers)
    BY <1>2
  <2>2. IsWorker(u)
    BY <2>1, PoolAssumption DEF IsWorker
  <2> QED BY <2>2, MainNoWorker
<1>4. /\ pool'.threads = pool.threads + 1 /\ pool'.started = pool.started + 1
      /\ pool'.count = pool.count /\ pool'.shutdown = pool.shutdown /\ pool'.progress = pool.progress
  BY <1>1, RingTypes DEF Ring
<1>5. /\ Main \in Threads
      /\ \A t \in Threads : pc'[t] = IF t # Main THEN pc[t]
                              ELSE IF pool'.threads = Len(Workers) THEN "user" ELSE "create"
  BY <1>1, ThreadAssumption DEF RingInv, PoolTypes
<1> HIDE DEF u
<1>6. /\ sch.state[u] = "none"
      /\ \A t \in Threads : sch'.state[t] = IF t = u THEN "READY" ELSE sch.state[t]
  <2>1. sch = [state |-> sch.state, bq |-> sch.bq, blocked |-> sch.blocked,
               sleeping |-> sch.sleeping] /\ sch.state \in [Threads -> States]
    BY DEF IInv, Filed, TypeOK
  <2>2. /\ sch' = [sch EXCEPT !.state[u] = "READY", !.bq = BqInsert(@, u, InitPriority(u))]
        /\ sch.state[u] = "none"
    BY <1>1 DEF Create
  <2>3. sch'.state = [sch.state EXCEPT ![u] = "READY"]
    BY <2>1, <2>2
  <2> QED BY <2>1, <2>2, <2>3
<1>7. IInv' /\ Prompt' /\ Undisturbed
  BY <1>1, <1>3, <1>5, CreateInv DEF Preserved
<1>8. \A t \in Threads : onCond[t] # NoObject => sch'.state[t] = state[t] /\ at'[t] = at[t]
  BY <1>7 DEF WorkersOK, Undisturbed
<1>9. WorkersOK'
  <2>1. pc'[Main] = "create" <=> pool'.threads # Len(Workers)
    BY <1>5
  <2>2. pool'.threads \in 0 .. Len(Workers)
    BY <1>2, <1>4
  <2>3. \A t \in Threads : IsWorker(t) =>
          /\ pc'[t] = pc[t]
          /\ sch'.state[t] = "none" => pc[t] = "loop"
          /\ sch'.state[t] \in {"DEFUNCT", "freed"} => pc[t] = "gone"
    BY <1>5, <1>6, MainNoWorker DEF WorkersOK
  <2>4. pc'[Main] # "freed"
    BY <1>5
  <2> QED BY <1>1, <1>4, <1>8, <2>1, <2>2, <2>3, <2>4 DEF WorkersOK
<1>10. \A t \in Threads : IsWorker(t) => pc'[t] = pc[t]
  BY <1>5, MainNoWorker
<1>11. Started' = Started \cup {u} /\ u \notin Started /\ Started \in SUBSET Threads
  BY <1>3, <1>6, <1>10 DEF Started, WorkersOK
<1>12. AtWork' = AtWork
  BY <1>1 DEF AtWork
<1>13. /\ OnTheWay \subseteq OnTheWay' /\ OnTheWay' \in SUBSET Threads
       /\ Waiters(PoolCond)' # {} => Waiters(PoolCond) # {}
  <2>1. OnTheWay \subseteq OnTheWay' /\ OnTheWay' \in SUBSET Threads
    BY <1>6, <1>10 DEF OnTheWay
  <2>2. Waiters(PoolCond)' # {} => Waiters(PoolCond) # {}
    BY <1>1, <1>6 DEF Waiters
  <2> QED BY <2>1, <2>2
<1>14. Cardinality(Started') = Cardinality(Started) + 1
  BY <1>3, <1>11, CountIs
<1>15. /\ Cardinality(OnTheWay) <= Cardinality(OnTheWay')
       /\ Cardinality(OnTheWay) \in Nat /\ Cardinality(OnTheWay') \in Nat
  BY <1>13, CountIs
<1>16. Books'
  BY <1>4, <1>12, <1>13, <1>14, <1>15, RingTypes DEF Books
<1> QED BY <1>7, <1>9, <1>16

(* The running worker with its new priority.                               *)
LEMMA RunsOwn ==
  ASSUME IInv, NEW w \in Threads, IsWorker(w), InUser(w), NEW p \in Highest .. Lowest, Runs(w, p),
         UNCHANGED <<defunct, last, wake, joinVars, at, left, cur, level, now>>,
         UNCHANGED <<phase, todo>> \/ Dispatch(sch.sleeping)
  PROVE  Own(w) /\ \A t \in Threads : sch'.state[t] = sch.state[t]
<1>1. w # IdleThread
  BY PoolAssumption DEF IsWorker
<1>2. w = cur /\ phase = "run" /\ at[w] = "user" /\ state[w] = "RUNNING"
  BY Caller
<1>3. p \in Priorities \ {IdlePriority}
  <2>1. p \in Highest .. MainPriority
    BY PriorityAssumption
  <2> QED BY <2>1, PriorityRange
<1>4. /\ Filed(sch', prio') /\ \A v \in Threads : sch'.state[v] = sch.state[v]
      /\ \A v \in Threads : prio'[v] = IF v = w THEN p ELSE prio[v]
  <2>1. Moves(w, p)
    BY DEF Runs, Moves
  <2> QED BY <1>1, <1>2, <1>3, <2>1, Reprioritise
<1>5. Renews(w)
  <2>1. old' = [old EXCEPT ![w] = p] /\ old \in [Threads -> Priorities]
    BY DEF Runs, IInv, TypeOK
  <2> QED BY <1>1, <1>3, <2>1 DEF Renews
<1>6. at \in [Threads -> {"user", "reaping", "locking"}] /\ left \in [Threads -> Nat]
  BY DEF IInv, TypeOK
<1> QED BY <1>1, <1>2, <1>3, <1>4, <1>5, <1>6 DEF Own, Dispatch

(* A task of ordinary priority is run with a priority of a thread.         *)
LEMMA WorkPriorityIs ==
  ASSUME NoIdleTask, NEW k \in Tasks
  PROVE  WorkPriority(TaskPrio[k]) \in Highest .. Lowest
<1>1. TaskPrio[k] \in Int /\ TaskPrio[k] # IdlePriority
  BY PoolAssumption DEF NoIdleTask, Tasks
<1> QED BY <1>1, PriorityAssumption DEF WorkPriority

(* A worker blocks only when the queue is empty.                           *)
LEMMA WaitBooks ==
  ASSUME PoolInv, NEW w \in Threads, IsWorker(w), Wait(w)
  PROVE  IInv' /\ Prompt' /\ WorkersOK' /\ Books'
<1> USE DEF PoolInv
<1>1. /\ InUser(w) /\ pc[w] = "loop" /\ pool.count = 0 /\ ~pool.shutdown
      /\ Suspend(w, PoolCond) /\ UNCHANGED <<left, pool, doing, pc, sent, done>>
      /\ w # IdleThread
  BY PoolAssumption DEF Wait, Here, poolVars, IsWorker
<1>2. left' \in [Threads -> Nat]
  BY <1>1 DEF IInv, TypeOK
<1>3. Own(w) /\ sch'.state[w] = "BLOCKED" /\ at[w] = "user"
  BY <1>1, <1>2, SuspendOwn
<1>4. /\ \A t \in Threads : t # w => sch'.state[t] = state[t]
      /\ state[w] = "RUNNING" /\ UNCHANGED at
  BY <1>1, <1>3 DEF Own, Suspend
<1>5. \A t \in Threads : onCond'[t] = IF t = w THEN PoolCond ELSE onCond[t]
  BY <1>1 DEF Suspend, WorkersOK
<1>6. WorkersOK'
  <2>1. onCond' \in [Threads -> Conds \cup {NoObject}]
    BY <1>1, PoolAssumption DEF Suspend, WorkersOK
  <2>2. \A t \in Threads : onCond'[t] # NoObject =>
          IsWorker(t) /\ pc[t] = "loop" /\ sch'.state[t] = "BLOCKED" /\ at[t] # "reaping"
    BY <1>1, <1>3, <1>4, <1>5 DEF WorkersOK
  <2>3. \A t \in Threads : IsWorker(t) =>
          /\ sch'.state[t] = "none" => pc[t] = "loop"
          /\ sch'.state[t] \in {"DEFUNCT", "freed"} => pc[t] = "gone"
          /\ pc[Main] = "freed" => sch'.state[t] = "freed"
    BY <1>3, <1>4 DEF WorkersOK
  <2> QED BY <1>1, <1>4, <2>1, <2>2, <2>3 DEF WorkersOK
<1>7. Started' = Started /\ AtWork' = AtWork /\ OnTheWay' \in SUBSET Threads
  BY <1>1, <1>3, <1>4 DEF Started, AtWork, OnTheWay
<1>8. Cardinality(OnTheWay') \in Nat
  BY <1>7, CountIs
<1>9. Books'
  BY <1>1, <1>7, <1>8 DEF Books
<1> QED BY <1>3, <1>6, <1>9, OwnInv

(* A worker that takes a task leaves one task less for the others.         *)
LEMMA TakeBooks ==
  ASSUME NoIdleTask, PoolInv, NEW w \in Threads, IsWorker(w), Take(w)
  PROVE  IInv' /\ Prompt' /\ WorkersOK' /\ Books'
<1> USE DEF PoolInv
<1> DEFINE k == pool.queue[pool.head]
<1>1. /\ InUser(w) /\ pc[w] = "loop" /\ pool.count # 0 /\ ~pool.shutdown /\ Dequeue
      /\ Runs(w, WorkPriority(TaskPrio[k])) /\ Dispatch(sch.sleeping)
      /\ doing' = [doing EXCEPT ![w] = k] /\ pc' = [pc EXCEPT ![w] = "task"]
      /\ UNCHANGED <<defunct, last, wake, joinVars, at, left, cur, level, now, onCond, sent>>
  BY DEF Take, Here, syncVars
<1>2. RingInv' /\ \A t \in Threads : /\ doing'[t] = IF t = w THEN k ELSE doing[t]
                                     /\ pc'[t] = IF t = w THEN "task" ELSE pc[t]
  BY <1>1, TakeStep DEF RingInv, PoolTypes
<1>3. k \in Tasks /\ k # 0 /\ doing[w] = 0
  <2>1. doing'[w] = k /\ doing'[w] # 0 /\ doing[w] = 0
    BY <1>1, <1>2, RingTypes DEF RingInv, PlacesOK
  <2>2. doing'[w] \in 1 .. sent'
    BY <1>2, <2>1 DEF RingInv, TasksOK, InOnePlace
  <2> QED BY <1>1, <2>1, <2>2, TasksAre DEF RingInv, PoolTypes
<1> HIDE DEF k
<1>4. /\ pool'.count = pool.count - 1 /\ pool'.progress = pool.progress + 1
      /\ pool'.threads = pool.threads /\ pool'.started = pool.started
      /\ pool'.shutdown = pool.shutdown
  BY <1>1, RingTypes DEF Dequeue, Ring
<1>5. Own(w) /\ \A t \in Threads : sch'.state[t] = state[t]
  BY <1>1, <1>3, WorkPriorityIs, RunsOwn
<1>6. state[w] = "RUNNING"
  BY <1>5 DEF Own
<1>7. WorkersOK'
  <2>1. pc'[Main] = pc[Main]
    BY <1>2, MainNoWorker, ThreadAssumption
  <2>2. \A t \in Threads : onCond[t] # NoObject => t # w
    BY <1>6 DEF WorkersOK
  <2>3. \A t \in Threads : IsWorker(t) =>
          /\ sch'.state[t] = "none" => pc'[t] = "loop"
          /\ sch'.state[t] \in {"DEFUNCT", "freed"} => pc'[t] = "gone"
          /\ pc[Main] = "freed" => sch'.state[t] = "freed"
    BY <1>2, <1>5, <1>6 DEF WorkersOK
  <2>4. \A t \in Threads : onCond'[t] # NoObject =>
          IsWorker(t) /\ pc'[t] = "loop" /\ sch'.state[t] = "BLOCKED" /\ at'[t] # "reaping"
    BY <1>1, <1>2, <1>5, <2>2 DEF WorkersOK
  <2>5. /\ onCond' \in [Threads -> Conds \cup {NoObject}] /\ pool'.threads \in 0 .. Len(Workers)
        /\ pc'[Main] = "create" <=> pool'.threads # Len(Workers)
        /\ pool'.shutdown => pool'.count = 0
    BY <1>1, <1>4, <2>1 DEF WorkersOK
  <2> QED BY <2>1, <2>3, <2>4, <2>5 DEF WorkersOK
<1>8. Started' = Started
  BY <1>2, <1>1, <1>5 DEF Started
<1>9. AtWork' = AtWork \cup {w} /\ w \notin AtWork /\ AtWork \in SUBSET Threads
  BY <1>2, <1>3 DEF AtWork
<1>10. OnTheWay' = OnTheWay \ {w} /\ w \in OnTheWay /\ OnTheWay \in SUBSET Threads
  BY <1>1, <1>2, <1>5, <1>6 DEF OnTheWay
<1>11. Waiters(PoolCond)' = Waiters(PoolCond)
  BY <1>1, <1>5 DEF Waiters
<1>12. /\ Cardinality(AtWork') = Cardinality(AtWork) + 1
       /\ Cardinality(OnTheWay') = Cardinality(OnTheWay) - 1
       /\ Cardinality(OnTheWay) \in Nat
  BY <1>9, <1>10, CountIs
<1>13. Books'
  <2>1. /\ pool'.started = Cardinality(Started') /\ pool'.progress = Cardinality(AtWork')
    BY <1>4, <1>8, <1>12 DEF Books
  <2>2. Waiters(PoolCond)' # {} => pool'.count <= Cardinality(OnTheWay')
    BY <1>4, <1>11, <1>12, RingTypes DEF Books
  <2> QED BY <2>1, <2>2 DEF Books
<1> QED BY <1>5, <1>7, <1>13, OwnInv

(* A worker whose task is done is on its way to the next.                  *)
LEMMA DoneBooks ==
  ASSUME PoolInv, NEW w \in Threads, IsWorker(w), TaskDone(w)
  PROVE  IInv' /\ Prompt' /\ WorkersOK' /\ Books'
<1> USE DEF PoolInv
<1>1. /\ InUser(w) /\ pc[w] = "task" /\ Runs(w, Highest)
      /\ pool' = [pool EXCEPT !.progress = @ - 1]
      /\ doing' = [doing EXCEPT ![w] = 0] /\ pc' = [pc EXCEPT ![w] = "loop"]
      /\ UNCHANGED <<defunct, last, wake, joinVars, at, left, cur, level, now, onCond>>
      /\ UNCHANGED <<phase, todo>>
  BY DEF TaskDone, Here, syncVars
<1>2. \A t \in Threads : /\ doing'[t] = IF t = w THEN 0 ELSE doing[t]
                         /\ pc'[t] = IF t = w THEN "loop" ELSE pc[t]
  BY <1>1 DEF RingInv, PoolTypes
<1>3. doing[w] # 0
  BY <1>1, RingTypes
<1>4. /\ pool'.count = pool.count /\ pool'.progress = pool.progress - 1
      /\ pool'.threads = pool.threads /\ pool'.started = pool.started
      /\ pool'.shutdown = pool.shutdown
  BY <1>1, RingTypes DEF Ring
<1>5. Own(w) /\ \A t \in Threads : sch'.state[t] = state[t]
  <2>1. Highest \in Highest .. Lowest
    BY PriorityAssumption
  <2> QED BY <1>1, <2>1, RunsOwn
<1>6. state[w] = "RUNNING"
  BY <1>5 DEF Own
<1>7. WorkersOK'
  <2>1. pc'[Main] = pc[Main]
    BY <1>2, MainNoWorker, ThreadAssumption
  <2>2. \A t \in Threads : onCond[t] # NoObject => t # w
    BY <1>6 DEF WorkersOK
  <2>3. \A t \in Threads : IsWorker(t) =>
          /\ sch'.state[t] = "none" => pc'[t] = "loop"
          /\ sch'.state[t] \in {"DEFUNCT", "freed"} => pc'[t] = "gone"
          /\ pc[Main] = "freed" => sch'.state[t] = "freed"
    BY <1>2, <1>5, <1>6 DEF WorkersOK
  <2>4. \A t \in Threads : onCond'[t] # NoObject =>
          IsWorker(t) /\ pc'[t] = "loop" /\ sch'.state[t] = "BLOCKED" /\ at'[t] # "reaping"
    BY <1>1, <1>2, <1>5, <2>2 DEF WorkersOK
  <2>5. /\ onCond' \in [Threads -> Conds \cup {NoObject}] /\ pool'.threads \in 0 .. Len(Workers)
        /\ pc'[Main] = "create" <=> pool'.threads # Len(Workers)
        /\ pool'.shutdown => pool'.count = 0
    BY <1>1, <1>4, <2>1 DEF WorkersOK
  <2> QED BY <2>1, <2>3, <2>4, <2>5 DEF WorkersOK
<1>8. Started' = Started
  BY <1>2, <1>1, <1>5 DEF Started
<1>9. AtWork' = AtWork \ {w} /\ w \in AtWork /\ AtWork \in SUBSET Threads
  BY <1>2, <1>3 DEF AtWork
<1>10. OnTheWay \subseteq OnTheWay' /\ OnTheWay' \in SUBSET Threads
  BY <1>2, <1>5 DEF OnTheWay
<1>11. Waiters(PoolCond)' = Waiters(PoolCond)
  BY <1>1, <1>5 DEF Waiters
<1>12. /\ Cardinality(AtWork') = Cardinality(AtWork) - 1
       /\ Cardinality(OnTheWay) <= Cardinality(OnTheWay')
       /\ Cardinality(OnTheWay) \in Nat /\ Cardinality(OnTheWay') \in Nat
  BY <1>9, <1>10, CountIs
<1>13. Books'
  BY <1>4, <1>8, <1>11, <1>12, RingTypes DEF Books
<1> QED BY <1>5, <1>7, <1>13, OwnInv

(* A worker that leaves is counted out; the queue is empty then.           *)
LEMMA QuitBooks ==
  ASSUME PoolInv, NEW w \in Threads, IsWorker(w), Quit(w)
  PROVE  IInv' /\ Prompt' /\ WorkersOK' /\ Books'
<1> USE DEF PoolInv
<1>1. /\ InUser(w) /\ pc[w] = "loop" /\ pool.shutdown /\ Exit(w)
      /\ pool' = [pool EXCEPT !.started = @ - 1] /\ pc' = [pc EXCEPT ![w] = "gone"]
      /\ UNCHANGED <<onCond, doing>>
  BY DEF Quit, Here, syncVars
<1>2. w = cur /\ state[w] = "RUNNING" /\ phase = "run" /\ phase' = "sleepers"
  BY <1>1, Caller DEF Exit, Dispatch
<1>3. IInv' /\ Prompt' /\ Undisturbed /\ LifeCycle
  BY <1>1, ExitInv DEF Preserved
<1>4. /\ pool'.count = pool.count /\ pool'.progress = pool.progress
      /\ pool'.threads = pool.threads /\ pool'.started = pool.started - 1
      /\ pool'.shutdown = pool.shutdown /\ pool.count = 0
  BY <1>1, RingTypes DEF Ring, WorkersOK
<1>5. \A t \in Threads : pc'[t] = IF t = w THEN "gone" ELSE pc[t]
  BY <1>1 DEF RingInv, PoolTypes
<1>6. \A t \in Threads : t # w => GoesOn(t)
  BY <1>2, <1>3 DEF LifeCycle, GoesOn, OnProcessor
<1>7. sch'.state[w] # "none"
  BY <1>2, <1>3 DEF LifeCycle, OnProcessor
<1>8. \A t \in Threads : onCond[t] # NoObject =>
        t # w /\ sch'.state[t] = state[t] /\ at'[t] = at[t]
  BY <1>2, <1>3 DEF WorkersOK, Undisturbed
<1>9. WorkersOK'
  <2>1. pc'[Main] = pc[Main] /\ pc[Main] # "freed"
    BY <1>2, <1>5, MainNoWorker, ThreadAssumption DEF WorkersOK
  <2>2. \A t \in Threads : IsWorker(t) =>
          /\ sch'.state[t] = "none" => pc'[t] = "loop"
          /\ sch'.state[t] \in {"DEFUNCT", "freed"} => pc'[t] = "gone"
    BY <1>5, <1>6, <1>7 DEF WorkersOK, GoesOn, OnProcessor
  <2>3. \A t \in Threads : onCond'[t] # NoObject =>
          IsWorker(t) /\ pc'[t] = "loop" /\ sch'.state[t] = "BLOCKED" /\ at'[t] # "reaping"
    BY <1>1, <1>5, <1>8 DEF WorkersOK
  <2> QED BY <1>1, <1>4, <2>1, <2>2, <2>3 DEF WorkersOK
<1>10. Started' = Started \ {w} /\ w \in Started /\ Started \in SUBSET Threads
  BY <1>1, <1>2, <1>5, <1>6 DEF Started, GoesOn, OnProcessor, WorkersOK
<1>11. AtWork' = AtWork /\ OnTheWay' \in SUBSET Threads
  BY <1>1 DEF AtWork, OnTheWay
<1>12. Cardinality(Started') = Cardinality(Started) - 1 /\ Cardinality(OnTheWay') \in Nat
  BY <1>10, <1>11, CountIs
<1>13. Books'
  BY <1>4, <1>11, <1>12 DEF Books
<1> QED BY <1>3, <1>9, <1>13

(* Waiters that are woken are on their way to the queue: all of them, or   *)
(* one for a task that was added.                                          *)
LEMMA WakingBooks ==
  ASSUME PoolInv, NEW t \in Threads, NEW which \in SUBSET Waiters(PoolCond), Waking(t, which),
         onCond' = [u \in Threads |-> IF u \in which THEN NoObject ELSE onCond[u]],
         pool'.threads = pool.threads, pool'.started = pool.started,
         pool'.progress = pool.progress, UNCHANGED doing,
         pool'.shutdown => pool'.count = 0,
         \A u \in Threads : IsWorker(u) => pc'[u] = pc[u],
         pc'[Main] = "create" <=> pc[Main] = "create",
         pc'[Main] = "freed" => pc[Main] = "freed",
         which = Waiters(PoolCond) \/ \E u : which = {u} /\ pool'.count = pool.count + 1
  PROVE  IInv' /\ Prompt' /\ WorkersOK' /\ Books'
<1> USE DEF PoolInv
<1>1. \A u \in which : /\ u \in Threads /\ state[u] = "BLOCKED" /\ onCond[u] = PoolCond
                       /\ IsWorker(u) /\ pc[u] = "loop" /\ at[u] # "reaping"
  BY PoolAssumption, SyncAssumption DEF Waiters, WorkersOK
<1>2. /\ IInv' /\ Prompt'
      /\ \A v \in Threads : sch'.state[v] = IF v \in which THEN "READY" ELSE sch.state[v]
  BY <1>1, WakingInv
<1>3. UNCHANGED at
  BY DEF Waking
<1>4. WorkersOK'
  <2>1. \A u \in Threads : IsWorker(u) =>
          /\ sch'.state[u] = "none" => pc'[u] = "loop"
          /\ sch'.state[u] \in {"DEFUNCT", "freed"} => pc'[u] = "gone"
          /\ pc'[Main] = "freed" => sch'.state[u] = "freed"
    BY <1>1, <1>2 DEF WorkersOK
  <2>2. \A u \in Threads : onCond'[u] # NoObject =>
          IsWorker(u) /\ pc'[u] = "loop" /\ sch'.state[u] = "BLOCKED" /\ at'[u] # "reaping"
    BY <1>2, <1>3 DEF WorkersOK
  <2>3. onCond' \in [Threads -> Conds \cup {NoObject}]
    BY DEF WorkersOK
  <2> QED BY <2>1, <2>2, <2>3 DEF WorkersOK
<1>5. Started' = Started
  BY <1>1, <1>2 DEF Started
<1>6. AtWork' = AtWork
  BY DEF AtWork
<1>7. Waiters(PoolCond)' # {} => pool'.count <= Cardinality(OnTheWay')
  <2>1. CASE which = Waiters(PoolCond)
    <3>1. Waiters(PoolCond)' = {}
      BY <1>2, <2>1, PoolAssumption, SyncAssumption DEF Waiters
    <3> QED BY <3>1
  <2>2. ASSUME NEW u, which = {u}, pool'.count = pool.count + 1
        PROVE  pool'.count <= Cardinality(OnTheWay')
    <3>1. u \in Threads /\ IsWorker(u) /\ pc[u] = "loop" /\ state[u] = "BLOCKED"
      BY <1>1, <2>2
    <3>2. OnTheWay' = OnTheWay \cup {u} /\ u \notin OnTheWay /\ OnTheWay \in SUBSET Threads
      BY <1>2, <2>2, <3>1 DEF OnTheWay
    <3>3. Cardinality(OnTheWay') = Cardinality(OnTheWay) + 1 /\ Cardinality(OnTheWay) \in Nat
      BY <3>1, <3>2, CountIs
    <3>4. pool.count <= Cardinality(OnTheWay)
      BY <2>2 DEF Books
    <3> QED BY <2>2, <3>3, <3>4, RingTypes
  <2> QED BY <2>1, <2>2
<1> QED BY <1>2, <1>4, <1>5, <1>6, <1>7 DEF Books

(* The waiter that a task wakes is on its way before the task is counted.  *)
LEMMA AddBooks ==
  ASSUME PoolInv, NEW t \in Threads, Add(t)
  PROVE  IInv' /\ Prompt' /\ WorkersOK' /\ Books'
<1> DEFINE woken == IF Waiters(PoolCond) = {} THEN {} ELSE {Signalled(PoolCond)}
<1> USE DEF PoolInv
<1>1. /\ InUser(t) /\ Adds(t)
      /\ pool' = [pool EXCEPT !.queue[pool.tail] = sent + 1, !.tail = Next1(@), !.count = @ + 1]
      /\ sch' = WakeAll(woken)
      /\ onCond' = [u \in Threads |-> IF u \in woken THEN NoObject ELSE onCond[u]]
      /\ UNCHANGED <<phase, todo>> \/ Dispatch(sch.sleeping)
      /\ UNCHANGED <<defunct, ageVars, wake, joinVars, at, left, cur, level, now, doing, pc>>
  BY DEF Add, Adds, Here, Enqueue, WakeOne
<1>2. woken \in SUBSET Waiters(PoolCond)
  BY SignalledIs
<1>3. woken = Waiters(PoolCond) \/ woken = {Signalled(PoolCond)}
  OBVIOUS
<1> HIDE DEF woken
<1>4. Waking(t, woken)
  <2>1. left' \in [Threads -> Nat]
    BY <1>1 DEF IInv, TypeOK
  <2> QED BY <1>1, <1>2, <2>1 DEF Waking, Waiters
<1>5. /\ pool'.threads = pool.threads /\ pool'.started = pool.started
      /\ pool'.progress = pool.progress /\ pool'.shutdown = pool.shutdown
      /\ pool'.count = pool.count + 1
  BY <1>1, RingTypes DEF Ring
<1>6. ~pool.shutdown
  BY <1>1 DEF Adds, Here, RingInv, PlacesOK
<1> QED BY <1>1, <1>2, <1>3, <1>4, <1>5, <1>6, WakingBooks

(* The broadcast of the shutdown leaves no waiter.                         *)
LEMMA ShutdownBooks ==
  ASSUME PoolInv, Shutdown
  PROVE  IInv' /\ Prompt' /\ WorkersOK' /\ Books'
<1> USE DEF PoolInv
<1>1. /\ InUser(Main) /\ pc[Main] = "destroy" /\ pool.count <= 0
      /\ pool' = [pool EXCEPT !.shutdown = TRUE] /\ pc' = [pc EXCEPT ![Main] = "join"]
      /\ sch' = WakeAll(Waiters(PoolCond))
      /\ onCond' = [t \in Threads |-> IF t \in Waiters(PoolCond) THEN NoObject ELSE onCond[t]]
      /\ UNCHANGED <<phase, todo>>
      /\ UNCHANGED <<defunct, ageVars, wake, joinVars, at, left, cur, level, now, doing>>
  BY DEF Shutdown, Here
<1>2. Waking(Main, Waiters(PoolCond))
  <2>1. left' \in [Threads -> Nat]
    BY <1>1 DEF IInv, TypeOK
  <2> QED BY <1>1, <2>1 DEF Waking, Waiters
<1>3. /\ pool'.threads = pool.threads /\ pool'.started = pool.started
      /\ pool'.progress = pool.progress /\ pool'.count = 0
  BY <1>1, RingTypes DEF Ring
<1>4. \A t \in Threads : pc'[t] = IF t = Main THEN "join" ELSE pc[t]
  BY <1>1 DEF RingInv, PoolTypes
<1>5. \A t \in Threads : IsWorker(t) => pc'[t] = pc[t]
  BY <1>4, MainNoWorker
<1>6. pc'[Main] = "join" /\ Main \in Threads
  BY <1>4, ThreadAssumption
<1> QED BY <1>1, <1>2, <1>3, <1>5, <1>6, WakingBooks

-----------------------------------------------------------------------------
(* Every step of the pool keeps the scheduler in order and the books right.*)
LEMMA PoolStep ==
  ASSUME NoIdleTask, PoolInv, [PoolNext]_allVars
  PROVE  PoolInv'
<1> DEFINE Goal == IInv' /\ Prompt' /\ WorkersOK' /\ Books'
<1>1. RingInv'
  BY RingStep DEF PoolInv
<1>2. ASSUME NEW t \in Threads, Add(t) PROVE Goal
  BY <1>2, AddBooks
<1>3. ASSUME NEW w \in Threads, Worker(w) PROVE Goal
  <2>1. IsWorker(w) /\ (Wait(w) \/ Take(w) \/ TaskYields(w) \/ TaskDone(w) \/ Quit(w))
    BY <1>3 DEF Worker
  <2> QED BY <2>1, WaitBooks, TakeBooks, QuietStep, DoneBooks, QuitBooks
<1>4. ASSUME PoolCreate PROVE Goal
  BY <1>4, CreateBooks
<1>5. ASSUME Shutdown PROVE Goal
  BY <1>5, ShutdownBooks
<1>6. ASSUME MainYields \/ BeginDestroy \/ JoinNext \/ Free \/ MainRests PROVE Goal
  BY <1>6, QuietStep
<1>7. ASSUME (Dispatcher \/ Yield(IdleThread) \/ Reap(Main)) /\ UNCHANGED <<syncVars, poolVars>>
      PROVE  Goal
  BY <1>7, QuietStep
<1>8. ASSUME (\E t \in Threads : KernelExits(t)) \/ UNCHANGED allVars PROVE Goal
  BY <1>8, QuietStep
<1> HIDE DEF Goal
<1>9. Goal
  BY <1>2, <1>3, <1>4, <1>5, <1>6, <1>7, <1>8 DEF PoolNext, PoolRuns
<1> QED BY <1>1, <1>9 DEF PoolInv, Goal

(* The inductive invariant of the whole: scheduler, condition variable,    *)
(* ring and workers, for any number of workers, any ring and any tasks of  *)
(* ordinary priority.                                                      *)
THEOREM PoolInvariance == ASSUME NoIdleTask PROVE PoolSpec => []PoolInv
<1>1. PoolInit => PoolInv
  BY InitPool
<1>2. PoolInv /\ [PoolNext]_allVars => PoolInv'
  BY PoolStep
<1> QED BY <1>1, <1>2, PTL DEF PoolSpec

(* pthipth_pool_add loses no signal: while a worker waits for a task,      *)
(* every task in the ring has a worker of its own on the way to it.        *)
THEOREM NoSignalIsLost == ASSUME NoIdleTask PROVE PoolSpec => []NoTaskForgotten
BY PoolInvariance, PoolInvSays, PTL

(* pthipth_pool_destroy frees the ring and the table when no worker can    *)
(* look at them, and `started` and `task_in_progess` are what they say.    *)
THEOREM PoolFreedLast == ASSUME NoIdleTask PROVE PoolSpec => []FreedLast
BY PoolInvariance, PoolInvSays, PTL

(* Under the pool, too, main returns from the join of a worker when that   *)
(* worker has finished.                                                    *)
THEOREM PoolJoinsPaired == ASSUME NoIdleTask PROVE PoolSpec => []JoinsPaired
<1>1. PoolInv => JoinsPaired
  BY InvJoins DEF PoolInv
<1> QED BY <1>1, PoolInvariance, PTL
=============================================================================
