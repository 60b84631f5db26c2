-------------------------------- MODULE Sync --------------------------------
(***************************************************************************)
(* Mutexes, condition variables and barriers on top of the scheduler.  A   *)
(* mutex is taken by a loop of attempts and yields, its owner runs with    *)
(* HIGHEST_PRIORITY - 1; conditions and barriers block a thread in         *)
(* blocked_state and are found there by the thread that wakes them.        *)
(* trylock fails on every initialised mutex (pthipth_mutex.c:73) and, like *)
(* any call that returns an error, is no step.                             *)
(***************************************************************************)
EXTENDS Scheduler

CONSTANTS Mutexes, Conds, Barriers,
          Parties,     \* Parties[b]: barrier->count
          NoObject     \* NULL

ASSUME SyncAssumption ==
  /\ NoObject \notin Mutexes \cup Conds \cup Barriers
  /\ Parties \in [Barriers -> Int]
  /\ IsFiniteSet(Mutexes) /\ IsFiniteSet(Threads)

VARIABLES
  mutex,      \* mutex[m]: [live: futx # NULL, count: futx->count, owner: owner_tid]
  held,       \* held[t]: mutex_count
  onCond,     \* onCond[t]: current_cond
  onBarrier,  \* onBarrier[t]: current_barrier
  barrier,    \* barrier[b]: [count, waiting], count -1 once destroyed
  wants       \* wants[t]: the mutex of the pthipth_mutex_lock that t is in

syncVars == <<mutex, held, onCond, onBarrier, barrier, wants>>

Fresh == [live |-> TRUE, count |-> 1, owner |-> NoThread]

Opened(b) == [count |-> IF Parties[b] < 0 THEN 1 ELSE Parties[b], waiting |-> 0]

SyncInit ==
  /\ Init
  /\ mutex = [m \in Mutexes |-> Fresh]
  /\ held = [t \in Threads |-> 0]
  /\ onCond = [t \in Threads |-> NoObject]
  /\ onBarrier = [t \in Threads |-> NoObject]
  /\ barrier = [b \in Barriers |-> Opened(b)]
  /\ wants = [t \in Threads |-> NoObject]

-----------------------------------------------------------------------------
(* Mutex                                                                   *)

(* The semaphore is taken: boost the owner.                                *)
Taken(t, m) ==
  /\ mutex' = [mutex EXCEPT ![m].count = 0, ![m].owner = t]
  /\ held' = [held EXCEPT ![t] = @ + 1]
  /\ prio' = [prio EXCEPT ![t] = Highest - 1]
  /\ sch' = [sch EXCEPT !.bq = BqReinsert(@, t, Highest - 1)]

(* One round of `while (__futex_down(&mutex->futx->count) != 0)`: the      *)
(* first failure leaves -1 in the semaphore.                               *)
Attempt(t, m) ==
  \/ /\ mutex[m].count > 0
     /\ Taken(t, m)
     /\ at' = [at EXCEPT ![t] = "user"]
     /\ wants' = [wants EXCEPT ![t] = NoObject]
     /\ UNCHANGED <<phase, todo>>
  \/ /\ mutex[m].count <= 0
     /\ mutex' = [mutex EXCEPT ![m].count = -1]
     /\ at' = [at EXCEPT ![t] = "locking"]
     /\ wants' = [wants EXCEPT ![t] = m]
     /\ Dispatch(sch.sleeping)
     /\ UNCHANGED <<sch, prio, held>>

Lock(t, m) ==
  /\ Calls(t, [op |-> "lock", arg |-> m])
  /\ mutex[m].live /\ mutex[m].owner # t
  /\ Attempt(t, m)
  /\ UNCHANGED <<defunct, old, last, wake, joinVars, cur, level, now, onCond, onBarrier, barrier>>

(* The next attempt, or the first one of a cond_wait.                      *)
LockAgain(t) ==
  /\ phase = "run" /\ cur = t /\ at[t] = "locking"
  /\ Attempt(t, wants[t])
  /\ UNCHANGED <<defunct, old, last, wake, joinVars, left, cur, level, now, onCond, onBarrier,
                 barrier>>

(* Mutant of Release: an increment instead of the initialisation to 1.     *)
ReleaseUp(m) == mutex' = [mutex EXCEPT ![m].count = @ + 1, ![m].owner = NoThread]

Release(m) == mutex' = [mutex EXCEPT ![m].count = 1, ![m].owner = NoThread]

(* Mutant of Unlock: the boost is not taken back.                          *)
UnlockBoosted(t, m) ==
  /\ InUser(t) /\ mutex[m].owner = t
  /\ held' = [held EXCEPT ![t] = @ - 1]
  /\ Release(m)
  /\ UNCHANGED <<sch, defunct, ageVars, wake, joinVars, at, left, cur, phase, loopVars, now,
                 onCond, onBarrier, barrier, wants>>

(* pthipth_mutex_unlock by the owner, whenever it likes; other callers     *)
(* change nothing.                                                         *)
Unlock(t, m) ==
  /\ InUser(t) /\ mutex[m].owner = t
  /\ held' = [held EXCEPT ![t] = @ - 1]
  /\ IF held[t] = 1
     THEN /\ prio' = [prio EXCEPT ![t] = old[t]]
          /\ sch' = [sch EXCEPT !.bq = BqReinsert(@, t, old[t])]
     ELSE UNCHANGED <<prio, sch>>
  /\ Release(m)
  /\ UNCHANGED <<defunct, old, last, wake, joinVars, at, left, cur, phase, loopVars, now,
                 onCond, onBarrier, barrier, wants>>

(* pthipth_mutex_init and _destroy; an owned mutex is not destroyed.       *)
MutexInit(t, m) ==
  /\ Calls(t, [op |-> "mutex_init", arg |-> m])
  /\ ~mutex[m].live
  /\ mutex' = [mutex EXCEPT ![m] = Fresh]
  /\ UNCHANGED <<sch, defunct, ageVars, wake, joinVars, at, cur, phase, loopVars, now, held, onCond,
                 onBarrier, barrier, wants>>

MutexDestroy(t, m) ==
  /\ Calls(t, [op |-> "mutex_destroy", arg |-> m])
  /\ mutex[m].live /\ mutex[m].owner = NoThread
  /\ mutex' = [mutex EXCEPT ![m].live = FALSE]
  /\ UNCHANGED <<sch, defunct, ageVars, wake, joinVars, at, cur, phase, loopVars, now, held, onCond,
                 onBarrier, barrier, wants>>

-----------------------------------------------------------------------------
(* Condition variable                                                      *)

(* pthipth_cond_wait up to its yield.  The unlock finds the owner BLOCKED  *)
(* and leaves its priority alone; after the wake-up the mutex is locked.   *)
CondWait(t, c, m) ==
  /\ Calls(t, [op |-> "cond_wait", cond |-> c, mutex |-> m])
  /\ onCond' = [onCond EXCEPT ![t] = c]
  /\ sch' = ChangeState(sch, t, "BLOCKED")
  /\ IF mutex[m].owner = t
     THEN Release(m) /\ held' = [held EXCEPT ![t] = @ - 1]
     ELSE UNCHANGED <<mutex, held>>
  /\ at' = [at EXCEPT ![t] = "locking"]
  /\ wants' = [wants EXCEPT ![t] = m]
  /\ Dispatch(sch.sleeping)
  /\ UNCHANGED <<defunct, ageVars, wake, joinVars, cur, level, now, onBarrier, barrier>>

(* pthipth_cond_wait_non, without the mutex.                               *)
Suspend(t, c) ==
  /\ onCond' = [onCond EXCEPT ![t] = c]
  /\ sch' = ChangeState(sch, t, "BLOCKED")
  /\ Dispatch(sch.sleeping)
  /\ UNCHANGED <<defunct, ageVars, wake, joinVars, at, cur, level, now, mutex, held, onBarrier,
                 barrier, wants>>

CondWaitNon(t, c) == Calls(t, [op |-> "cond_wait_non", arg |-> c]) /\ Suspend(t, c)

(* Mutant of WakeAll: the state is set past __pthipth_change_to_state.     *)
WakeAllUnqueued(which) ==
  FoldLeft(LAMBDA s, u : IF u \in which THEN SetState(s, u, "READY") ELSE s, sch, sch.blocked)

(* The walk over blocked_state, in which the threads of `which` are made   *)
(* READY.                                                                  *)
WakeAll(which) ==
  FoldLeft(LAMBDA s, u : IF u \in which THEN ChangeState(s, u, "READY") ELSE s, sch, sch.blocked)

Waiters(c) == {u \in Threads : state[u] = "BLOCKED" /\ onCond[u] = c}

(* The search of pthipth_cond_signal ends at the first waiter it meets.    *)
Signalled(c) ==
  sch.blocked[Min({i \in DOMAIN sch.blocked : sch.blocked[i] \in Waiters(c)})]

(* pthipth_cond_signal and _broadcast; without a waiter nothing changes.   *)
Notify(t, which) ==
  /\ sch' = WakeAll(which)
  /\ onCond' = [u \in Threads |-> IF u \in which THEN NoObject ELSE onCond[u]]
  /\ UNCHANGED <<defunct, ageVars, wake, joinVars, at, cur, phase, loopVars, now, mutex, held,
                 onBarrier, barrier, wants>>

Signal(t, c) ==
  /\ Calls(t, [op |-> "signal", arg |-> c])
  /\ Waiters(c) # {}
  /\ Notify(t, {Signalled(c)})

Broadcast(t, c) ==
  /\ Calls(t, [op |-> "broadcast", arg |-> c])
  /\ Waiters(c) # {}
  /\ Notify(t, Waiters(c))

-----------------------------------------------------------------------------
(* Barrier                                                                 *)

BarrierBlock(t, b) ==
  /\ Calls(t, [op |-> "barrier_wait", arg |-> b])
  /\ barrier[b].waiting + 1 < barrier[b].count
  /\ barrier' = [barrier EXCEPT ![b].waiting = @ + 1]
  /\ onBarrier' = [onBarrier EXCEPT ![t] = b]
  /\ sch' = ChangeState(sch, t, "BLOCKED")
  /\ Dispatch(sch.sleeping)
  /\ UNCHANGED <<defunct, ageVars, wake, joinVars, at, cur, level, now, mutex, held, onCond, wants>>

(* Mutant of BarrierOpen: the counter is not reset.                        *)
BarrierOpenNoReset(t, b) ==
  /\ Calls(t, [op |-> "barrier_wait", arg |-> b])
  /\ barrier[b].waiting + 1 >= barrier[b].count
  /\ barrier' = [barrier EXCEPT ![b].waiting = @ + 1]
  /\ sch' = WakeAll({u \in Threads : state[u] = "BLOCKED" /\ onBarrier[u] = b})
  /\ UNCHANGED <<defunct, ageVars, wake, joinVars, at, cur, phase, loopVars, now, mutex, held,
                 onCond, onBarrier, wants>>

(* The last thread wakes every blocked thread whose current_barrier is b,  *)
(* which nothing ever resets, and goes on.                                 *)
BarrierOpen(t, b) ==
  /\ Calls(t, [op |-> "barrier_wait", arg |-> b])
  /\ barrier[b].waiting + 1 >= barrier[b].count
  /\ barrier' = [barrier EXCEPT ![b].waiting = 0]
  /\ sch' = WakeAll({u \in Threads : state[u] = "BLOCKED" /\ onBarrier[u] = b})
  /\ UNCHANGED <<defunct, ageVars, wake, joinVars, at, cur, phase, loopVars, now, mutex, held,
                 onCond, onBarrier, wants>>

(* pthipth_barrier_init and _destroy; a barrier in which a thread waits is *)
(* not destroyed.                                                          *)
BarrierInit(t, b) ==
  /\ Calls(t, [op |-> "barrier_init", arg |-> b])
  /\ barrier' = [barrier EXCEPT ![b] = Opened(b)]
  /\ UNCHANGED <<sch, defunct, ageVars, wake, joinVars, at, cur, phase, loopVars, now, mutex, held,
                 onCond, onBarrier, wants>>

BarrierDestroy(t, b) ==
  /\ Calls(t, [op |-> "barrier_destroy", arg |-> b])
  /\ barrier[b].waiting <= 0
  /\ barrier' = [barrier EXCEPT ![b] = [count |-> -1, waiting |-> -1]]
  /\ UNCHANGED <<sch, defunct, ageVars, wake, joinVars, at, cur, phase, loopVars, now, mutex, held,
                 onCond, onBarrier, wants>>

-----------------------------------------------------------------------------
SyncCall(t) ==
  \/ \E m \in Mutexes :
       \/ Lock(t, m) \/ Unlock(t, m) \/ MutexInit(t, m) \/ MutexDestroy(t, m)
       \/ \E c \in Conds : CondWait(t, c, m)
  \/ \E c \in Conds : CondWaitNon(t, c) \/ Signal(t, c) \/ Broadcast(t, c)
  \/ \E b \in Barriers : BarrierBlock(t, b) \/ BarrierOpen(t, b) \/ BarrierInit(t, b) \/ BarrierDestroy(t, b)
  \/ LockAgain(t)

SyncNext ==
  \/ \E t \in Threads : SyncCall(t)
  \/ Next /\ UNCHANGED syncVars

SyncVars == <<vars, syncVars>>

Owned(t) == {m \in Mutexes : mutex[m].owner = t}

(* What a program owes.  A thread that exits, blocks or wakes others holds *)
(* no mutex (that of a cond_wait is released by the call), and one that    *)
(* gives up the processor with a mutex is the only one with a boost: else  *)
(* two threads meet in the bucket HIGHEST_PRIORITY - 1 and the unlock of   *)
(* the first hides the second (pthipth_bq.c:77).                           *)
Stops(t) == state'[t] # state[t] /\ state'[t] \in {"BLOCKED", "DEFUNCT"}

Wakes == \E u \in Threads : state[u] = "BLOCKED" /\ state'[u] = "READY"

Boosted(t) == {u \in Threads \ {t} : prio[u] < Highest}

Courteous ==
  \A m \in Mutexes : phase = "run" /\ mutex'[m].owner = cur =>
    /\ ~Stops(cur) /\ ~Wakes
    /\ phase' # "run" => Boosted(cur) = {}

(* Mutexes and barriers are used between init and destroy, and a mutex is  *)
(* not destroyed while a thread waits for it.                              *)
InitialisedUse ==
  /\ \A m \in Mutexes :
       /\ MutexDestroy(cur, m) => \A t \in Threads : wants[t] # m
       /\ \A c \in Conds : CondWait(cur, c, m) => mutex[m].live
  /\ \A b \in Barriers :
       /\ BarrierOpen(cur, b) => barrier[b].count # -1
       /\ BarrierInit(cur, b) => barrier[b].count = -1

Owed == Courteous /\ InitialisedUse

SyncSpec == SyncInit /\ [][SyncNext /\ Owed]_SyncVars

(* As FairSpec: the running thread goes on, the kernel ends threads, time  *)
(* passes.                                                                 *)
Running ==
  \/ \E t \in Threads : SyncCall(t)
  \/ (Dispatcher \/ \E t \in Threads : UserCall(t) \/ Reap(t)) /\ UNCHANGED syncVars

FairSync ==
  /\ SyncSpec
  /\ WF_SyncVars(Running /\ Owed)
  /\ \A t \in Threads : WF_SyncVars(KernelExit(t) /\ UNCHANGED syncVars)
  /\ SF_SyncVars(Tick /\ UNCHANGED syncVars)

-----------------------------------------------------------------------------
SyncTypeOK ==
  /\ TypeOK
  /\ mutex \in [Mutexes -> [live : BOOLEAN, count : -1 .. 1, owner : Maybe(Threads)]]
  /\ held \in [Threads -> Nat]
  /\ onCond \in [Threads -> Conds \cup {NoObject}]
  /\ onBarrier \in [Threads -> Barriers \cup {NoObject}]
  /\ barrier \in [Barriers -> [count : Int, waiting : Nat \cup {-1}]]
  /\ wants \in [Threads -> Mutexes \cup {NoObject}]

(* The semaphore of a mutex is free exactly when nobody owns the mutex,    *)
(* however many threads have failed to take it, and mutex_count is what it *)
(* says.                                                                   *)
LockMatchesOwner ==
  /\ \A m \in Mutexes : mutex[m].count > 0 <=> mutex[m].owner = NoThread
  /\ \A t \in Threads : held[t] = Cardinality(Owned(t))

(* A thread runs with the boosted priority while it holds a mutex and with *)
(* its own again afterwards (documentation.md:136: "reset to its original  *)
(* value"), waits on a condition in between included.  (With the types of  *)
(* the variables.)                                                         *)
BoostEnds ==
  /\ SyncTypeOK
  /\ \A t \in Threads : at[t] = "user" /\ HasTCB(t) =>
       prio[t] = IF Owned(t) = {} THEN old[t] ELSE Highest - 1

(* A barrier counts the threads that are blocked in it: nobody leaves it   *)
(* before its round is complete, a round takes nothing from the next, and  *)
(* nobody is left in a barrier that is destroyed.                          *)
Inside(b) ==
  {t \in Threads : /\ state[t] = "BLOCKED" /\ onBarrier[t] = b
                   /\ at[t] = "user" /\ onCond[t] = NoObject}

BarrierTogether ==
  \A b \in Barriers :
    IF barrier[b].count = -1 THEN Inside(b) = {} ELSE barrier[b].waiting = Cardinality(Inside(b))

Created == Threads \ {Main, IdleThread}

(* A thread that wants a mutex, and is not waiting for its condition, gets *)
(* the mutex: "waits (blocks) until the mutex is available"                *)
(* (documentation.md:128).                                                 *)
LockGranted ==
  \A t \in Created : at[t] = "locking" /\ state[t] # "BLOCKED" ~> at[t] = "user"

(* A thread released by its barrier runs: "it wakes up all threads waiting *)
(* on the barrier" (documentation.md:93).                                  *)
BarrierReleases ==
  \A t \in Created : state[t] = "READY" /\ onBarrier[t] # NoObject ~> state[t] = "RUNNING"
=============================================================================
