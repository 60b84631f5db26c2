# A verification project for pthipth

pthipth is a thread library in C (`src/src`): threads are made with `clone`, but
only one of them runs user code at a time.  A running thread gives up the
processor by calling the library (yield, join, sleep, exit, a condition
variable, a barrier, a mutex that is taken), and a priority scheduler with
ageing picks the next one.  Everything rests on a small user-space semaphore
over `futex(2)`.

This directory holds TLA+ modules that model the library, TLC configurations
that check them on small instances, and TLAPS proofs.  `PROJECT.json` lists the
components, runs, mutations, the source lines each definition stands for, the
findings, the hazards and the theorems.

    tlc -config MCScheduler_calls.cfg MCScheduler.tla     # one run
    tlapm Scheduler_proofs.tla                            # one module's proofs

## 1. Inventory

| Component | Source | State | Operations | What makes it correct |
|---|---|---|---|---|
| Semaphore | `futex.h`, `futex_inline.h`, `futex.c` | `count`, the kernel's wait queue | `futex_down`, `futex_up`, `futex_init` | as a lock: one owner, never leaked, no lost wake-up, someone gets in |
| Hand-over | `pthipth_yield.c`, `pthipth_wrapper.c`, `pthipth_exit.c`, `pthipth_self.c` | `global_futex`, a `sched_futex` per thread, `cur_pthipth` | the prologue and epilogue of every call, parking, waking the successor | one thread in the library, one in user code, `cur_pthipth` names it, no semaphore used after its control block is freed, the chosen thread runs |
| Bucket queue | `pthipth_bq.c` | per-priority rings, first and last tables, bitmap, head | insert, delete, reinsert, rotate, peek | closed rings, sound bitmap, peek gives the highest priority |
| Dispatcher, scheduler | `pthipth_yield.c` | TCB states, `last_selected`, `cur_pthipth` | `__pthipth_dispatcher`, `__pthipth_scheduler` | one RUNNING thread, the highest READY thread is picked, every dispatch ends |
| Ageing | `pthipth_aging.c` | `priority`, `old_priority`, `last_selected` | `__pthipth_aging` | only waiting counts, and once, threads stay in the bucket of their priority, the walk ends |
| Sleep | `pthipth_sleep.c` | `sleeping_state`, `wake_time` | `pthipth_sleep`, `__pthipth_check_sleeping` | a sleeper runs again |
| Create, init, idle | `pthipth_create.c`, `pthipth_init.c`, `pthipth_idle.c` | new TCBs | `pthipth_init`, `pthipth_create` | a thread starts READY in the bucket of its bounded priority |
| Join, detach, exit | `pthipth_join.c`, `pthipth_detach.c`, `pthipth_exit.c` | `blockedForJoin`, `is_detach`, `defunct_state`, `tid_watch` | the three calls, `__pthipth_check_detach`, `__pthipth_free` | a join returns after the exit and returns at all, a TCB is freed once, after its thread is gone, and reclaimed if detached |
| State changes, lists | `pthipth_utils.c`, `pthipth_queue.c` | `blocked_state`, `sleeping_state`, `defunct_state`, the links `next2`, `prev2` | `__pthipth_change_to_state`, queue add and delete | a thread is on exactly the list of its state, the shared links are consistent |
| Priority setting | `pthipth_set.c`, `pthipth_get.c` | `priority`, `old_priority` | `pthipth_set_prio`, getters | the bucket follows the priority |
| AVL tree | `pthipth_avl.c` | tree of TCBs by tid | insert, delete, search | balanced, and search finds exactly the threads with a TCB |
| Mutex | `pthipth_mutex.c` | `futx`, `owner_tid`, `mutex_count`, boosted priority | init, lock, trylock, unlock, destroy | semaphore and owner agree, the boost is taken back, a waiter gets in |
| Condition variable | `pthipth_cond.c` | `current_cond`, `blocked_state` | wait, wait_non, signal, broadcast | a waiter is woken and no signal meant for it is lost |
| Barrier | `pthipth_barrier.c` | `count`, `waiting`, `current_barrier` | init, wait, destroy | a round releases exactly its threads, and they run |
| Thread pool | `pthipth_pool.c` | ring of tasks, counters, workers | create, add, destroy, the worker loop | each task runs once and in order, destroy waits for all of them |
| Signals, scanf | `pthipth_signal.c`, `pthipth_scanf.c` | - | - | - |

**How they interact.**  A call takes `global_futex`, changes the TCB lists through
`__pthipth_change_to_state`, and releases it.  A call that gives up the processor
goes on to `pthipth_yield` (or, in exit, straight to the dispatcher), which under
`global_futex` wakes sleepers, ages READY threads, frees detached threads, rotates
the highest bucket, sets `cur_pthipth` and ups the successor's `sched_futex`.  From
then on two kernel threads run: the successor in user code or already in its next
call, the predecessor on its way through `futex_up(&global_futex)` to its own
`sched_futex` or to `SYS_exit`.  The kernel reports the end of a thread by clearing
`tid_watch`, which joiners, detachers and the dispatcher poll.  Mutexes spin over
`pthipth_yield`; conditions and barriers leave their waiters in `blocked_state` and
the waking thread searches that list for them; the pool waits on one condition
variable and is otherwise protected only by the fact that nobody preempts it.

**What is hard.**  The interleaving of the semaphore's instructions; the overlap of
predecessor and successor; `cur_pthipth`, declared thread-local but shared by all
threads, because `clone` is called without `CLONE_SETTLS`; freeing a TCB while its
thread is leaving; a bitmap whose bit is cleared when a bucket's first node leaves
(`pthipth_bq.c:77`); three lists that share one pair of links; loops that reinsert the
node they stand on; joins, detaches and exits in every order; a barrier mark that
outlives the barrier; a look at a queue and a wait that are two calls; waits that an
interrupt ends early.  `PROJECT.json` "hazards" lists each at its line, with the
properties that watch it.

## 2. Modules

```
 one instruction a step
   AbstractLock <--implements-- FutexLock --EXTENDS--> Futex <--EXTENDS-- Handoff --implements--> Baton

 one operation on the pointers a step
   BucketSpec <--implements-- Lists --EXTENDS--> BucketQueue --EXTENDS--> BucketConstants
   ThreadLists <-implements-'
   TcbTable   <--implements-- Avl

 one call, or one iteration of a dispatcher's loop, a step
   Buckets <-EXTENDS- ThreadLists <-EXTENDS- Scheduler <-EXTENDS- Sync <-EXTENDS- Pool --implements--> TaskPool
                                                 '-<-EXTENDS- AgeHistory

 proofs
   FutexLock_proofs     Handoff_proofs     Avl_proofs
   ThreadLists_proofs <-EXTENDS- BucketSpec_proofs <-INSTANCE- Lists_proofs
   ThreadLists_proofs <-EXTENDS- Scheduler_proofs <-EXTENDS- Pool_proofs       (Scheduler_proofs EXTENDS AgeHistory)
```

The layers are separate on purpose.  `Handoff` shows, instruction by instruction,
that a call of the library is executed by one thread at a time and by the thread
`cur_pthipth` names; `Scheduler` uses this and takes a call as one step up to the
dispatcher, and the dispatcher loop iteration by loop iteration.  `Lists` shows
that the pointers of `pthipth_bq.c` and `pthipth_queue.c` behave like the values of
`Buckets` and `ThreadLists`; `Scheduler` uses the values.  `Avl` shows that search by
tid finds the control block; `Scheduler` looks a thread up by its name.

* **Futex** - `futex_down` and `futex_up`.  `fpc[t]` is the next instruction of
  thread t (`load`, `cas`, `wait`, `settle`; `uload`, `ucas`, `ustore`, `uwake`);
  `val` and `woken` are the local variables of `futex_down_timeout`.  The kernel's
  queue is the set of threads that are `asleep`; which one FUTEX_WAKE wakes is open,
  and FUTEX_WAIT may return 0 without a wake.  A spurious failure of the weak
  compare-exchange is a stuttering step.  Memory is sequentially consistent, as
  `stdatomic.h`'s default order makes it.
* **AbstractLock**, **FutexLock** - the atomic lock, and futexes used like
  `global_futex`.  `FutexLock!Spec` is the library without interrupted waits;
  `SignalSpec` adds them.
* **Baton**, **Handoff** - the abstract hand-over (one holder, the holder alone runs
  user code) and the real one.  `pc[t]` says between which futex calls t is; `ready`
  is what is left of the scheduler's queue and any member of it may be picked, main
  takes back the surplus token of its semaphore (`pthipth_yield.c:63`).  A thread that has
  called exit may be joined or detached while it is still on its way out: the caller
  releases `global_futex` (`SeeDefunct`), waits for `tid_watch` (`Watch`) and frees the
  target, a detach outside the lock (`pthipth_detach.c:54`), a join after it has taken it
  again (`Change` with `free`); the dispatcher frees under the lock (`Reaped`).  Which thread
  was joined or detached is open.  The unlocked read of
  `sched_futex.count` at line 63 happens under `global_futex` and is one step with
  the branch it decides.
* **Buckets** - the queue as a value: a sequence per priority and the set of bits.
  Operators only.  `BqDelete` clears the bit whenever the first node leaves, as the
  code does.  **BucketConstants** - threads, the idle thread and its priority.
* **BucketSpec** - the value under the calls of the library, the idle thread never
  leaving.  `CarefulSpec` restricts the caller: it never takes the first of several
  threads out of a bucket (section 6).
* **BucketQueue** - `next`, `prev`, `priority`, `cur_priority`, the tables, the bitmap
  and `pthipth_bq_head`, assignment by assignment.  Operators only.
* **ThreadLists** - `__pthipth_change_to_state` on a record of states, bucket queue,
  `blocked_state` and `sleeping_state`.  Operators only.
* **Lists** - both pointer structures under any order of state and priority changes:
  the rings of `BucketQueue` and the lists of `pthipth_queue.c`, with `next2` and `prev2`
  shared among the three lists as in a TCB.
* **Scheduler** - TCB states, the four lists, priorities, times, joins, detaches,
  `tid_watch`.  `phase` says which loop of the dispatcher `cur` is in and `todo` or
  `level` how far the loop is.  What an application does is a constant: `Program[t]`,
  the calls t may make, and `Budget[t]`, how many; it may stop early, and it then
  returns, which is `pthipth_exit` (`pthipth_wrapper.c:21`).  A call that returns -1
  changes nothing and is no step.  `pthipth_yield_qtime` is a yield or nothing.
* **AgeHistory** - Scheduler with two history variables, `ran` and `basis`: when each
  thread was last `cur_pthipth`, and its `old_priority` then.  The code keeps no such
  record, and `last_selected`, which it has instead, is what could be wrong; `AgeEarned`
  holds the ageing against the record.  `AgeSpec` and `AgeFairSpec` have the behaviours
  of `Spec` and `FairSpec`.  The record follows the thread up to the dispatch in which it
  leaves, so what ageing does to the caller itself in its own dispatch (a sleep of 0 ms
  is over by then) is not judged.
* **Sync** - mutex, condition variable and barrier.  A thread in `pthipth_mutex_lock`
  between two attempts is `at` "locking"; `wants` is its mutex.  A woken waiter of
  `pthipth_cond_wait` is in the same place, because the call ends with a lock.  A mutex
  may be unlocked at any time by its owner, in no budget.
* **Pool**, **TaskPool** - the worker's loop, create, add and destroy, between two
  yields one step, against a bounded queue whose tasks run in order and once.
* **TcbTable**, **Avl** - a set of control blocks, and the tree: child, parent and
  height per node, both rotations as one operator of a side, the two cases of deletion,
  and the way back to the root one node per step.
* **MCFutexLock, MCHandoff, MCLists, MCScheduler, MCAgeing, MCSync, MCPool, MCAvl** - instances:
  programs, budgets, priorities and tids.

Mutations: operators whose comment begins "Mutant of" are the code with a plausible
bug.  None of them is used by a specification; `PROJECT.json` "mutants" says which
property each one breaks when it takes the place of the original.

**What a program owes.** Some calls are outside what the library can answer for, and the
specifications exclude them by name: `Scheduler` keeps `pthipth_set_prio` in the
documented range and lets the idle thread only yield (`IdleAssumption`, which is
`pthipth_idle.c`); `Sync!Courteous` keeps a mutex owner from exiting, blocking (but for
the mutex of its own `cond_wait`) or waking others, and lets it give up the processor only
while no other thread is boosted, because boosted threads share the bucket
`HIGHEST_PRIORITY - 1` and the unlock of the first clears the bit the second needs (so
`LockGranted` is about owners that are boosted one at a time; what happens to two in a
bucket is finding 1, at the level of the queue `HiddenBehindFirstOnly`);
`Sync!InitialisedUse` uses mutexes and barriers between init and destroy; `Pool!Adds`
keeps tasks from adding tasks after the shutdown and with priority `HIGHEST_PRIORITY`;
`AvlAssumption` makes the tids distinct, though the kernel may reuse that of a thread that
is gone and not joined.

## 3. Runs

| Run | Instance | Shows |
|---|---|---|
| `lock` | 3 threads, 1 futex, fair | exclusion, no leaked lock, no lost wake-up; implements the atomic lock; someone enters |
| `lock_signal` | 3 threads, interrupted waits | **violation**: `futex_down`'s -1 is ignored, two threads in the section |
| `handoff` | main, idle, one worker, all kinds of calls, fair | shared `cur_pthipth` is right for whoever reads it, one thread in the library, no control block freed under its thread, no banked wake-up, implements the baton; the chosen thread runs |
| `lists` | 4 threads and idle, 3 priorities, any state and priority changes | rings, tables, bitmap, head and the shared links consistent; implement the values of `BucketSpec` and `ThreadLists`; threads are hidden from peek only by the delete of a first node |
| `calls` | main, idle, 2 workers, every call, one worker ageing | states, lists, joins and freed TCBs agree |
| `apart` | main, idle, 2 workers, one ageing, all priorities different at all times, fair | highest picked; joiners, sleepers, detached threads and dispatches come to their end; ageing pays for waiting only, and once |
| `sync` | main, idle, 2 workers, 2 mutexes, a condition, a barrier, fair | semaphore, owner, `mutex_count` and boost agree; the barrier counts its threads; a lock is granted; a released thread runs |
| `avl` | 12 tids, every order of insertions and deletions | balanced, heights and parents right, every TCB found, implements the set |
| `pool` | main, idle, 3 workers, a ring of 3, 5 tasks, fair | no lost signal, each task once and in order, destroy waits for all and frees last |
| `barrier_lost` | main, idle, 2 equal workers, fair | **violation**: the worker released by the barrier never runs |
| `join_early` | main, idle, 2 workers, two barrier rounds | **violation**: a joiner is woken by a barrier it has left |
| `ageing_spins` | main, idle, a not ageing, b ageing, fair | **violation**: the dispatcher never ends |

**Bounds.** The theorems of section 6 remove the bounds of the safety properties and of
the refinement of `lock` and of `handoff`, of the four properties of `calls`, of
`AgeEarned` of `apart`, of all properties of `lists` and of `avl`, and of
`LockMatchesOwner` and the refinement of the pool. Under a hypothesis that the theorem names they do so for `PicksHighest` of `apart`,
`BoostEnds` and `BarrierTogether` of `sync`, and `NoTaskForgotten` and `FreedLast` of
`pool`. In `handoff` three threads give a predecessor that is leaving, a successor that is
running and a third that is being created, woken or freed, with main's surplus token and
an exiting thread among them, which its successor joins or detaches while it is still
releasing `global_futex`. In `lists` four threads give a bucket or list with a first, an
inner and a last node beside another one. In `Scheduler`, two workers with main and idle
give joins of the three kinds (target alive, target DEFUNCT, target joined by another),
detached threads that exit before and after the detach, and joins across threads that
sleep; `MaxTime` of 2 ms gives sleepers that are due, not yet due, and due together. In
`apart` an `aging_time` of 2 ms lets the ageing worker be looked at when it has not waited
long enough and when it has, rise by one level, and stay below the other worker; it is
always alone in its bucket, so the ageing of one thread behind another is in `calls` (its
safety) and `ageing_spins` (that it does not end). Priorities keep their order (HIGHEST ..
LOWEST < MAIN < IDLE) with fewer values between; the task priorities of `calls` and
`apart` lie outside HIGHEST .. LOWEST, so that both bounds are enforced. In `sync` two
workers that differ in priority give an owner that is preempted by a waiter and one that
is not, a mutex given back in `cond_wait`, signals with and without waiter, two rounds of
a barrier, and destroy with init in between. Twelve nodes give AVL trees of height five,
the least with a deletion that rotates twice on its way up (the smallest such tree has
twelve nodes). In `pool` the five tasks fill the ring of three and wrap around it, tasks
add tasks, and there are as many workers as places; the task priorities include 0 and
IDLE_PRIORITY, at the bounds of `task.priority`.

**Fairness.** `FutexLock` and `Handoff`: weak fairness of each thread's next instruction
(the kernel runs every runnable thread), and in `FutexLock` sections end. No fairness of
spurious wake-ups, of taking the lock, or of which waiter is woken. `Scheduler`, `Sync`
and `Pool` (`FairSpec`, `FairSync`, `PoolSpec`): weak fairness of the running thread and
of each exiting thread's `SYS_exit`. `FairSpec` and `FairSync` add strong fairness of
`Tick`, because the model lets time pass in user code only, while it passes always;
`PoolSpec` has no `Tick`: the pool's threads neither sleep nor age, and nothing in it
depends on the time. The idle thread yields for ever in the code and may do so in the
model; budgets make the other threads return, because in a library without preemption
nothing can be promised about a thread that does not.

Deadlock is checked in every run: the idle thread can always yield.

## 4. Findings

1. **A bit cleared too early** (`barrier_lost`, `pthipth_bq.c:77`).  Deleting the first
   node of a bucket clears the bucket's bit even if the bucket has other nodes, and a
   later insert sets it only when the bucket is empty, so these threads are invisible to
   the scheduler until the bucket has been emptied.  A worker is the first of its bucket
   when it is alone there at the time it is dispatched, or when it changes a bucket that
   nobody rotated; joining, sleeping, exiting or waiting then hides its equals.  With
   `demo/_demo_barrier.c`, whose threads have one priority, the thread the barrier
   releases never runs and main waits for ever; the compiled demo hangs as well.  Run
   `apart` shows, and `HighestPicked` proves (section 6), that programs whose threads have
   different priorities are not affected; `CarefulPeek` proves that nothing else in the
   queue makes peek fail.
2. **A barrier wakes a joiner** (`join_early`, `pthipth_barrier.c:60`).  `current_barrier`
   is never cleared, and the last arrival wakes every BLOCKED thread that has it.  A
   thread that was in an earlier round and now waits in `pthipth_join` becomes READY
   before its target has ended, spins on `tid_watch` without giving up the processor of
   the library, and the target never ends.  A C program with these three threads hangs;
   without the second round it ends.
3. **The ageing walk spins** (`ageing_spins`, `pthipth_aging.c:64`).  The walk in lines
   24-65 only advances past a node that does not age; at an ageing node that is not the
   first one it evaluates the same node for ever, under `global_futex`.
4. **An interrupted wait is a lock** (`lock_signal`, `futex.h:36`).  No caller looks at the
   result of `futex_down`.

## 5. Model-checked only

Checked on the instances above and not proved:

* liveness (TLAPS does not reason about it under fairness): `SomeoneEnters` and its like
  in every run that states fairness;
* a pool with tasks of IDLE_PRIORITY, which run `pool` has and the theorems about
  `NoTaskForgotten`, `FreedLast` and joins exclude (`NoIdleTask`);
* programs that set priorities while they hold a mutex, or whose barriers wake threads
  of an earlier round: the theorems about boosts, barriers and joins exclude them, because
  the properties fail there (section 6).

## 6. Proofs

`FutexLock_proofs` proves, for any set of threads and of futexes (only `NoOwner \notin
Threads` is assumed), that `FutexLock!Spec` implies `TypeOK`, `MutualExclusion`,
`CountMatchesOwner` and `NoLostWakeup`, and that it implements `AbstractLock`.

The invariant is `IInv == TypeOK /\ LocalsOK /\ UniqueOwner /\ CountMatchesOwner /\
NoLostWakeup`.  `MutualExclusion` is not inductive: a thread in the section says
nothing about one that is about to exchange 1 for 0.  The notion that carries the
proof is ownership (`Owns`), from the exchange that took the count from 1 to 0 up to
the exchange or store that sets it to 1 again, and its two facts: a futex has at most
one owner, and `count = 1` exactly when it has none.  An exchange that takes the
futex finds `count = 1`, hence no owner; a thread that stores 1 or -1 owns the futex,
hence no other thread does.  `LocalsOK` says what `val` can be at each instruction
(at `wait` it is never 1, at `ucas` the semaphore is owned), without which the
exchange steps would not preserve the ranges.  `NoLostWakeup` needs that a sleeper
went to sleep on a negative count, and that only owners make it non-negative.
Lemmas: `InitInv`, `LocalInv` (types and local variables), `OwnershipStep` and
`OwnerInv` (who owns what after a step), `WakeInv`, and `OwnerIs` for the refinement
mapping, whose `CHOOSE` it removes.

`Handoff_proofs` proves, for any number of threads and any order of calls, that
`Handoff!Spec` implies `SelfIsCaller`, `OneInLibrary`, `NoUseAfterFree` and
`NoTokenBanked`, and that it implements `Baton` (assumed: `HandoffAssumption`, that main
and idle are two threads, and no thread is called like the global semaphore).  The
invariant is

    IInv == TypeOK /\ GlobalOK /\ PlacesOK /\ LocalsOK /\ BatonOK /\ DrainOK /\ CallsOK

None of the four is inductive. `GlobalOK` is the ownership argument of `FutexLock_proofs`
for `global_futex`, with `Owns` now spread over the `pc` of the call. `BatonOK` says that
there is one baton: whoever is `Active` (in user code or in a call it will return from) or
has `Taken` the token of its semaphore is `cur`; every other thread that `Waits` has a
semaphore that is down; and a predecessor that is `Ahead`, with the token of its successor
still in its hand, finds the successor waiting with its semaphore down, so that the
`futex_up` of `pthipth_yield.c` lets exactly one thread go. The exception is main, whose
semaphore starts at 1 in `pthipth_init.c`: `DrainOK` follows the `futex_down` with which
main takes the surplus token back, and shows that it never sleeps there. `CallsOK` keeps
what a thread knew when it began a call true until it has `global_futex`: the thread it
wakes, creates or makes ready has not called exit; and the one that a join frees was gone
when it left the loop on `tid_watch` and is gone still when it has the lock again. Every
free, in join, detach or the dispatcher, is of a thread that is gone, and a thread that is
gone uses no semaphore. There is a lemma per part of the invariant, and `BatonStep` for
the refinement.

`ThreadLists_proofs`, `BucketSpec_proofs` and `Scheduler_proofs` are about the scheduler
and are built in three layers, each about values and not about a state, so that the next
can use it before and after a step.

`ThreadLists_proofs`, first part: what the operations of `pthipth_bq.c` keep, for any set
of threads and any number of priorities (assumed: the idle thread is one of the threads
and `IdlePriority` is a natural number).  `Good(r)` says that the queue r has no thread
twice, no bit without a thread, and `<<IdleThread>>` in the bucket of the idle priority,
which keeps that bit set, so that the smallest bit exists (`MinOf`, by well-founded
induction on the naturals, the one fact behind `__builtin_ctz`) and stands for a bucket to
rotate.  All operations but the delete of an unqueued thread give one bucket new contents,
so one lemma (`Refile`) says when that keeps the queue good; `InsertGood`, `DeleteGood`
and `RotateGood` show that the new contents qualify, from what `RemoveAt` and
`Append(Tail(s), Head(s))` do to a sequence.  `BucketSpec_proofs` concludes `TypeOK` and
`Sound` of `BucketSpec`, and that a thread becomes hidden from peek only in a step that
takes the first of several threads out of its bucket (`HiddenOnly`).

`Complete` says that every bucket in use has its bit; inserts and rotations keep it, and
so does a delete of a thread that is not the first of several (`InsertComplete`,
`RotateComplete`, `DeleteComplete`).  `CarefulPeek` says what the early clearing of a bit
(section 4) costs: as long as no caller deletes or reinserts the first of several threads
(`CarefulSpec`), the queue stays `Complete` and `pthipth_bq_peek` returns a thread of the
highest priority.  Nothing else in the queue can make peek fail.

`ThreadLists_proofs`, second part: `Filed(s, pr)` says that every thread is on the list of
its state and on no other, once, and in the bucket of its priority `pr[t]`.  A state
change keeps it (`Woken`, `Stopped`, `Renamed`), and so do creation (`MadeReady`), a new
priority (`Reprioritised`) and the rotation (`RotatedFiled`); each lemma also says what
the states are afterwards.

`Scheduler_proofs`: for any number of threads and priorities, any program, budget, ageing
and bound of the clock that meet the named assumptions of `Scheduler`, `Spec` implies
`OneList`, `OneRunning`, `NoDangling` and `JoinsPaired` (and `TypeOK`, a part of `OneList`).
The invariant is `IInv` together with `Prompt`:

    IInv == TypeOK /\ Filed(sch, prio) /\ PrioOK /\ DefunctOK /\ OneRunning
              /\ FreshOK /\ LoopOK /\ JoinOK /\ FreedOK

`JoinsPaired` and `NoDangling` are not inductive: that no joiner is left waiting says
nothing about who may free the thread it waits for.  `JoinOK` adds who owns a finished
thread.  It is stated so that it also holds of a joiner that a barrier has woken too early
(finding 2); that nobody leaves its join before its target has finished is `Prompt`, which
only `Scheduler`'s own calls keep.  `Claimed(t)`: a thread in join or detach either waits
for a live thread whose `blockedForJoin` names it, or its target is DEFUNCT, is not in
`defunct_state`, and is named by `blockedForJoin` or has no joiner while t is running and
has not called the library since.  Two claims to one thread contradict each other, and a
claim contradicts an entry in `defunct_state`, so a TCB is freed once.  The case that
needs care is the join or detach of a thread that is already DEFUNCT: it sets no
`blockedForJoin` (`pthipth_join.c:32`), and what keeps a second caller away is only that
the first does not give up the processor before it has freed the target.  `LoopOK` says
what the lists that the dispatcher's loops walk can contain, and that ageing stops only at
a bucket in which it finds a node (`NextLevelIs`), hence never at that of the idle thread;
from this and `PrioOK` follows that only the idle thread is ever filed under
`IdlePriority`.  There is one lemma per action (`CreateInv` .. `TickInv`); `JoinKept` is
shared by those that wake nobody from a join and end nobody.  Each also shows what a step
may do at all: `LifeCycle` lists the state changes a thread may see and which call or loop
makes each (theorem `LivesInOrder`), and `Undisturbed` that a thread which is blocked
elsewhere than in a join is left alone; the modules above the scheduler rest on both.  TLC
checked `IInv` on the instances of `calls` and `ageing_spins` before it was proved.

`AgeEarned`, next in the module, is about the history of `AgeHistory`: since a thread last
ran, ageing has raised it by no more than `aging_factor` for every `aging_time` passed.  It is
not inductive because the time since `last_selected` is still to be paid for.  `WaitOK` says
that whoever is current or not yet created waits for nothing, and that the `last_selected` of
every other thread is no older than its wait and covers what it has gained in it; `Select`
establishes this for the thread that leaves because the dispatcher advances
`last_selected` for it too (`pthipth_yield.c:36`), `Create` for the new one.  A step of ageing
pays for the time from `last_selected` to now in whole intervals and moves `last_selected` to
now; that the rounded payments add up to no more than the payment of the sum is `DivAdd`
(integer division is superadditive).  `WaitsOn` and `WaitQuiet` treat the steps that pay
nothing.  `AgeOK` is the same without the history, from the start, for threads that never set
their priority; `DistinctPicked` needs it.

`PicksHighest` is false in general (finding 1).  `HighestPicked` proves it of every
execution in which no two threads that have not finished share a priority (`[]Apart`):
then a thread that blocks, ends, ages or changes its priority leaves its bucket empty, and
the queue stays `Complete`.  The condition is about all threads that have not finished and
not only those on the processor, because an exit first puts the joiner into the queue and
then takes the caller out.  `DistinctPicked` derives it for the programs whose constants
show `Apart`: nobody calls `pthipth_set_prio`, and the priorities that the threads can come
to by ageing until `MaxTime` (`Reach`) do not overlap, as in run `apart`.

`Lists_proofs` proves all six properties of run `lists`, for any finite set of threads (the
walks of the code count nodes, and only a finite set is walked to its end) and any number
of priorities: the rings and chains stay closed, the bitmap sound, threads are hidden only
by the delete of a first node, and the pointers implement `BucketSpec` and `ThreadLists`.
The invariant is `Rep(b, BucketValue) /\ LRep(links, ListValue) /\ Agree(...)`.
`RingsClosed` and its like are not inductive, because they speak of what a walk finds, and
an unlinked or doubly linked node changes what later walks find.  `Rep(r, q)` says of a
structure r and a queue q, without walking, that each ring of r is the sequence q has for
its priority, node by node (`RingOK`), that `cur_priority` names the ring a node is on, and
that no other node is linked; `LRep` says the same of the three lists, which have no node in
common; and `Agree` ties both to the states and priorities, so that an insert or add meets
a node that is free and a delete one that is there.  `InsertRep`, `DeleteRep`,
`RotateRep`, `AddRep` and `TakeRep` show that each function of the code does to such a
structure what the operator of `Buckets` or `ThreadLists` does to the value; `RingIs`
and `ChainIs` that a walk over it finds the value (by least counterexample over the
position); and from there everything is about values, where `ThreadLists_proofs` applies.

`Pool_proofs` begins with `Sync`, for any number of threads, any finite set of mutexes and
any program (`SyncAssumption` also makes the set of threads finite: a barrier and a broadcast
walk over it).  It first proves `LockMatchesOwner` and needs nothing of the scheduler: `Effect`
lists what a step can do to a mutex (nothing, a failed attempt, a taking, a release by the
owner, init or destroy), one lemma shows for each operation of `Sync` that it is one of these,
and `EffectKept` that each keeps the books.  The strengthening is `LiveOK`: a thread between
two attempts waits for a live mutex and a mutex that is not live has no owner, so that the
init of a mutex forgets nobody; `Sync!InitialisedUse`, the duty of the program, is where this
comes from.

It then shows that the scheduler's `IInv` holds under the calls of `Sync` too (`SInv ==
IInv /\ MInv /\ IdleOK`), and with it `OneList`, `OneRunning`, `NoDangling` and
`AgeEarned`, with the history recorded beside `SyncSpec`. Every call of `Sync` is one of
two kinds of step: `Own(t)`, the running thread acts on itself (its priority, its place
`at`, or it blocks), or `Waking(t, which)`, it wakes a set of blocked threads; `OwnInv`
and `WakingInv` treat each kind once, and `CallIs` shows that there is no third. The walk
over `blocked_state` is a fold; `WakeAll` is reasoned about through the sequence of its
intermediate values, and a property of them by its least counterexample. `IdleOK` (the
idle thread neither locks nor owns a mutex) keeps it in the bucket of IDLE_PRIORITY.

Last it adds what the calls promise, where the program lets them:

* `BoostIsTakenBack`: `BoostOK` ties `priority` to `old_priority` and the mutexes owned,
  ageing included, which raises both.  It needs `SetsUnowned`, that no thread sets a
  priority while it holds a mutex: `pthipth_set_prio` overwrites the boost and the unlock
  restores what was set (see the hazards, `pthipth_set.c`).
* `BarriersCount` and `SyncJoinsPaired`: `BarrierTogether` with `CondOK` (a thread with a
  `current_cond` is blocked, and not in a join) and `Prompt`.  They need `OpensOwn`, that a
  barrier which opens wakes only threads that wait in it; `current_barrier`, which is never
  cleared, is why the code does not ensure this, and run `join_early` is what happens
  without.

Both hypotheses restrict what happens in an execution, not how the library reacts.  TLC has
confirmed that every execution of the program of run `sync` meets them, and `JoinsPaired`
with them, so that they are not vacuous.

`Pool_proofs` goes on to prove that `Pool` implements `TaskPool`, for any number of
workers, any ring and any tasks: every task that is added runs once, in the order of the
ring, and none is dropped.  It needs nothing of the scheduler, only that the code between
two yields is one step.  `RingInv` says that each task added is in exactly one place
(`InOnePlace`): in the ring, once, in the hand of one worker, or done; and that `tail` is
`count` places behind `head`.  `RingAppend` and `RingTail` show that writing at `tail` and
advancing `head` is `Append` and `Tail` of the sequence that the ring stands for; an index
never passes twice the size of the ring, so the remainder that the code computes is
`Wrap`.

Its last part puts the pool on the condition variable and the scheduler.  The invariant is

    PoolInv == IInv /\ Prompt /\ RingInv /\ WorkersOK /\ Books

`NoTaskForgotten` is a statement about counts: while a worker waits, there are at least as
many other workers on their way to the queue as tasks in it.  It is not inductive, because
it does not say where a worker is.  `WorkersOK` ties the worker's place in its loop to the
state of its thread: who waits is at the top of the loop and BLOCKED, a created worker is
in the loop until it is `gone`, and after the shutdown the ring is empty.  `Books` has the
counts: of the workers `OnTheWay`, of those `Started` (the field `started`) and of those
`AtWork` (`task_in_progess`).  Each step adds to a set or takes from it what the code adds
to or takes from a counter: a task that is added wakes a waiter, if there is one, in the
same step and before it is counted, and a worker that takes a task leaves one worker and
one task less.  `LifeCycle` shows that nothing else moves a worker.  `FreedLast` follows
from `AllJoined`: the workers are at most as many as the entries of the table, so when as
many joins have returned as workers were created, none is left.  `PoolJoinsPaired` holds
because the pool has no barrier.

These theorems assume `NoIdleTask`, that no task has IDLE_PRIORITY.  `pthipth_pool.c` lets
such a task through to the worker's priority; the worker would then be in the bucket of
the idle thread, and the scheduler's invariant, by which that bucket is the idle thread's
alone and never empty, does not describe this.  Run `pool` has such a task.

`Avl_proofs` proves all three properties of run `avl`, for any set of TCBs and any
distinct tids (`AvlAssumption`).  The invariant is

    AvlSound == \E D, H : Forest(tree, D) /\ Planted(tree, D, live, tree.root)
                            /\ Leveled(tree, D, H, live, up)

`Balanced` and `EveryThreadFound` say nothing in the middle of an operation, where the way
back climbs through a tree that is out of balance and whose heights above are those from
before; so they are not inductive.  D and H are ghosts.  `D[n]` is the set of nodes at and
below n: it replaces the walks down the tree in the invariant, says of the search order
that a whole subtree lies on its side, and, being finite and smaller for a child, rules out
cycles.  `H[n]` is the height of n before the operation, or after it where the way back has
passed; by H every node is balanced but `up`, which is off by one level on one side
(`OffAt`), and the field `height` is right wherever the way back is not still to come.

* Shape: `RotateForest` shows that a rotation keeps the forest and which nodes it moves.
* Way back: `BalanceNone`, `BalanceSingle` and `BalanceDouble` are the three things
  `balance` can do, by the arithmetic of `LevelNumbers`, `SingleNumbers` and
  `DoubleNumbers`.  Each settles the subtree at a height that differs from the old one by at
  most one level (`BalanceSettled`), so that the parent is the next node that may be off
  (`SettledUp`, `ClimbKeeps`).
* Insertion (`InsertLeaf`): the loop ends at a node without a child on the side of the new
  tid.
* Deletion: the code unlinks the successor and then puts it in the place of the TCB that
  is freed.  `CutForest` and `CutSound` are about the first, `SwapForest` and `SwapSound`
  about the second; `DeleteOuter` and `DeleteInner` put the assignments of the code
  together, the case in which the successor is the right child among them.
* Loops: search, leftmost node and set of nodes are recursive functions over pointers, and
  induction over data is out of the provers' reach.  `WalkEnds` replaces it: a function
  with the recursive equation is written down explicitly from D, so the `CHOOSE` behind the
  definition has one; and whichever function is chosen, a node at which it is wrong, with
  the fewest nodes below it (`LowestNode`), would have a child at which it is wrong.
  `LeftmostIs`, `ReachedIs` and `NodesOfIs` are its uses.

From `AvlSound`, `AvlBalanced` and `AvlSearch` follow in the states with `up = NoNode`, and
`AvlTable`, the refinement of `TcbTable`, from what each step does to `live`.

## 7. Not modelled

Failures of `calloc`, `mmap` and `clone`; stacks and memory (a freed thread's stack is
never unmapped, `pthipth_utils.c:94`); the time quota (`setitimer`) and signals
(`pthipth_signal.c` calls `__pthipth_yield`, which does not exist); `pthipth_scanf`;
display functions; the demos, but for the programs two of the findings take from them;
wrap-around of the ageing arithmetic (24 days of waiting); `pthipth_set_prio` outside the
documented range, where the code indexes its arrays out of bounds (by the owner of a mutex
it is possible in `Sync`, but no run has a program that does it); `pthipth_mutex_trylock`,
which fails on every initialised mutex (`pthipth_mutex.c:73`); `pthipth_pool_add` after
the shutdown; a tid that the kernel uses again while its first thread is still in the tree
(`pthipth_avl.c:127`); which waiter `pthipth_cond_signal` prefers (the model takes the one
the code takes, the first in `blocked_state`; `documentation.md:117` promises the one with
the highest priority).
