-------------------------------- MODULE Pool --------------------------------
(***************************************************************************)
(* The thread pool on top of the scheduler and a condition variable: main  *)
(* creates the pool, adds tasks and destroys it, the workers take tasks    *)
(* from a ring.  Nothing is locked: a thread gives up the processor only   *)
(* in a yield, and between two of them the code is one step.  A task is    *)
(* its number; it yields and adds further tasks.  Implements TaskPool.     *)
(***************************************************************************)
EXTENDS Sync

CONSTANTS Workers,        \* pool->threads: a sequence of threads
          QueueSize,      \* pool->queue_size
          TaskPrio,       \* TaskPrio[k]: task->priority of the k-th task
          PoolCond        \* pool->notify

ASSUME PoolAssumption ==
  /\ Workers \in Seq(Threads \ {Main, IdleThread}) /\ Workers # <<>>
  /\ QueueSize \in Nat \ {0} /\ TaskPrio \in Seq(Int)
  /\ PoolCond \in Conds /\ Mutexes = {} /\ Barriers = {}

VARIABLES
  pool,    \* the counters, the ring and the flags of pthipth_pool_t
  doing,   \* doing[w]: the local variable `task` of a worker, 0 when none
  pc,      \* where a thread is in its function of the pool
  sent,    \* the number of tasks that have been added
  done     \* the tasks that have returned

poolVars == <<pool, doing, pc, sent, done>>
allVars == <<SyncVars, poolVars>>

Tasks == DOMAIN TaskPrio
IsWorker(t) == \E i \in DOMAIN Workers : Workers[i] = t
Next1(i) == (i + 1) % QueueSize

PoolInit ==
  /\ SyncInit
  /\ pool = [queue |-> [i \in 0 .. QueueSize - 1 |-> 0], head |-> 0, tail |-> 0, count |-> 0,
             threads |-> 0, started |-> 0, progress |-> 0, shutdown |-> FALSE]
  /\ doing = [t \in Threads |-> 0]
  /\ pc = [t \in Threads |-> IF t = Main THEN "create" ELSE "loop"]
  /\ sent = 0
  /\ done = {}

Here(t, where) == InUser(t) /\ pc[t] = where

-----------------------------------------------------------------------------
(* Main                                                                    *)

(* One round of the loop of pthipth_pool_create.                           *)
PoolCreate ==
  /\ Here(Main, "create")
  /\ Create(Main, Workers[pool.threads + 1])
  /\ pool' = [pool EXCEPT !.threads = @ + 1, !.started = @ + 1]
  /\ pc' = [pc EXCEPT ![Main] = IF pool'.threads = Len(Workers) THEN "user" ELSE "create"]
  /\ UNCHANGED <<syncVars, doing, sent, done>>

(* Mutant of Enqueue: tail does not wrap around.                           *)
EnqueueFirst(k) ==
  pool' = [pool EXCEPT !.queue[pool.tail] = k, !.tail = 0, !.count = @ + 1]

Enqueue(k) ==
  pool' = [pool EXCEPT !.queue[pool.tail] = k, !.tail = Next1(@), !.count = @ + 1]

(* Mutant of WakeOne: the signal is sent to nobody.                        *)
WakeNone == UNCHANGED <<sch, onCond>>

(* pthipth_cond_signal(&pool->notify)                                      *)
WakeOne ==
  LET woken == IF Waiters(PoolCond) = {} THEN {} ELSE {Signalled(PoolCond)} IN
  /\ sch' = WakeAll(woken)
  /\ onCond' = [t \in Threads |-> IF t \in woken THEN NoObject ELSE onCond[t]]

(* Who adds tasks: main, and tasks.  A program owes that no task adds one  *)
(* after the shutdown, which pthipth_pool_add does not look at, nor with   *)
(* the workers' own priority, as the woken worker would be hidden behind   *)
(* it (pthipth_bq.c:77).                                                   *)
Adds(t) ==
  \/ Here(t, "user")
  \/ Here(t, "task") /\ ~pool.shutdown /\ prio[t] # Highest

(* pthipth_pool_add; a full queue is refused.                              *)
Add(t) ==
  /\ Adds(t) /\ sent < Len(TaskPrio)
  /\ pool.count # QueueSize
  /\ Enqueue(sent + 1)
  /\ sent' = sent + 1
  /\ WakeOne
  /\ IF pool'.count = pool.threads THEN Dispatch(sch.sleeping) ELSE UNCHANGED <<phase, todo>>
  /\ UNCHANGED <<defunct, ageVars, wake, joinVars, at, left, cur, level, now, mutex, held,
                 onBarrier, barrier, wants, doing, pc, done>>

(* Main may yield before it destroys the pool, and does in destroy while   *)
(* tasks are left.                                                         *)
MainYields ==
  /\ Here(Main, "user") \/ (Here(Main, "destroy") /\ pool.count > 0)
  /\ Yield(Main)
  /\ UNCHANGED <<syncVars, poolVars>>

BeginDestroy ==
  /\ Here(Main, "user")
  /\ pc' = [pc EXCEPT ![Main] = "destroy"]
  /\ UNCHANGED <<SyncVars, pool, doing, sent, done>>

(* Mutant of Shutdown: it does not wait for the queue to be empty.         *)
ShutdownEarly ==
  /\ Here(Main, "destroy")
  /\ pool' = [pool EXCEPT !.shutdown = TRUE]
  /\ pc' = [pc EXCEPT ![Main] = "join"]
  /\ sch' = WakeAll(Waiters(PoolCond))
  /\ onCond' = [t \in Threads |-> NoObject]
  /\ UNCHANGED <<defunct, ageVars, wake, joinVars, at, left, cur, phase, loopVars, now, mutex,
                 held, onBarrier, barrier, wants, doing, sent, done>>

Shutdown ==
  /\ Here(Main, "destroy") /\ pool.count <= 0
  /\ pool' = [pool EXCEPT !.shutdown = TRUE]
  /\ pc' = [pc EXCEPT ![Main] = "join"]
  /\ sch' = WakeAll(Waiters(PoolCond))
  /\ onCond' = [t \in Threads |-> IF t \in Waiters(PoolCond) THEN NoObject ELSE onCond[t]]
  /\ UNCHANGED <<defunct, ageVars, wake, joinVars, at, left, cur, phase, loopVars, now, mutex,
                 held, onBarrier, barrier, wants, doing, sent, done>>

(* pthipth_join of the workers in their order.                             *)
Joined == Cardinality({t \in Threads : IsWorker(t) /\ state[t] = "freed"})

JoinNext ==
  /\ Here(Main, "join") /\ Joined < pool.threads
  /\ JoinWait(Main, Workers[Joined + 1]) \/ JoinDefunct(Main, Workers[Joined + 1])
  /\ UNCHANGED <<syncVars, poolVars>>

(* pthipth_pool_free refuses while a worker has not left its loop.         *)
Free ==
  /\ Here(Main, "join") /\ Joined = pool.threads
  /\ pc' = [pc EXCEPT ![Main] = IF pool.started > 0 THEN "leaked" ELSE "freed"]
  /\ UNCHANGED <<SyncVars, pool, doing, sent, done>>

MainRests ==
  /\ Here(Main, "freed")
  /\ Yield(Main)
  /\ UNCHANGED <<syncVars, poolVars>>

-----------------------------------------------------------------------------
(* pthipth_thread                                                          *)

Wait(w) ==
  /\ Here(w, "loop") /\ pool.count = 0 /\ ~pool.shutdown
  /\ Suspend(w, PoolCond)
  /\ UNCHANGED <<left, poolVars>>

(* task.priority; a priority of 0 is raised to HIGHEST_PRIORITY like a     *)
(* negative one, and IDLE_PRIORITY is let through.                         *)
WorkPriority(p) ==
  IF p < Highest THEN Highest
  ELSE IF p > Lowest /\ p # IdlePriority THEN Lowest ELSE p

(* The running worker with priority p, in its bucket.                      *)
Runs(w, p) ==
  /\ prio' = [prio EXCEPT ![w] = p]
  /\ old' = [old EXCEPT ![w] = p]
  /\ sch' = [sch EXCEPT !.bq = BqReinsert(@, w, p)]

Dequeue == pool' = [pool EXCEPT !.head = Next1(@), !.count = @ - 1, !.progress = @ + 1]

(* A task is taken, and the worker yields before it runs it.               *)
Take(w) ==
  LET k == pool.queue[pool.head] IN
  /\ Here(w, "loop") /\ pool.count # 0 /\ ~pool.shutdown
  /\ Dequeue
  /\ doing' = [doing EXCEPT ![w] = k]
  /\ Runs(w, WorkPriority(TaskPrio[k]))
  /\ pc' = [pc EXCEPT ![w] = "task"]
  /\ Dispatch(sch.sleeping)
  /\ UNCHANGED <<defunct, last, wake, joinVars, at, left, cur, level, now, syncVars, sent, done>>

TaskYields(w) ==
  /\ Here(w, "task")
  /\ Yield(w)
  /\ UNCHANGED <<syncVars, poolVars>>

TaskDone(w) ==
  /\ Here(w, "task")
  /\ done' = done \cup {doing[w]}
  /\ doing' = [doing EXCEPT ![w] = 0]
  /\ pool' = [pool EXCEPT !.progress = @ - 1]
  /\ Runs(w, Highest)
  /\ pc' = [pc EXCEPT ![w] = "loop"]
  /\ UNCHANGED <<defunct, last, wake, joinVars, at, left, cur, phase, loopVars, now, syncVars, sent>>

(* Mutant of Quit: the worker is not counted out.                         *)
QuitUncounted(w) ==
  /\ Here(w, "loop") /\ pool.shutdown
  /\ pc' = [pc EXCEPT ![w] = "gone"]
  /\ Exit(w)
  /\ UNCHANGED <<syncVars, pool, doing, sent, done>>

(* After the shutdown the function returns.                                *)
Quit(w) ==
  /\ Here(w, "loop") /\ pool.shutdown
  /\ pool' = [pool EXCEPT !.started = @ - 1]
  /\ pc' = [pc EXCEPT ![w] = "gone"]
  /\ Exit(w)
  /\ UNCHANGED <<syncVars, doing, sent, done>>

-----------------------------------------------------------------------------
Worker(w) == IsWorker(w) /\ (Wait(w) \/ Take(w) \/ TaskYields(w) \/ TaskDone(w) \/ Quit(w))

PoolRuns ==
  \/ PoolCreate \/ MainYields \/ BeginDestroy \/ Shutdown \/ JoinNext \/ Free \/ MainRests
  \/ \E t \in Threads : Add(t) \/ Worker(t)
  \/ (Dispatcher \/ Yield(IdleThread) \/ Reap(Main)) /\ UNCHANGED <<syncVars, poolVars>>

KernelExits(t) == KernelExit(t) /\ UNCHANGED <<syncVars, poolVars>>

PoolNext == PoolRuns \/ \E t \in Threads : KernelExits(t)

(* As FairSpec of Scheduler.                                               *)
PoolSpec ==
  /\ PoolInit /\ [][PoolNext]_allVars
  /\ WF_allVars(PoolRuns)
  /\ \A t \in Threads : WF_allVars(KernelExits(t))

-----------------------------------------------------------------------------
(* The ring from head on.                                                  *)
Pending == [i \in 1 .. pool.count |-> pool.queue[(pool.head + i - 1) % QueueSize]]

TP == INSTANCE TaskPool WITH
        pending <- Pending, running <- {doing[t] : t \in Threads} \ {0}, closed <- pool.shutdown

(* Tasks leave the ring in the order they came, each is run once, none is  *)
(* dropped by a shutdown.                                                  *)
ImplementsTaskPool == TP!Spec

(* No signal is lost: while a worker waits, every task in the queue has a  *)
(* worker of its own on the way to it.                                     *)
NoTaskForgotten ==
  (\E t \in Threads : state[t] = "BLOCKED" /\ onCond[t] = PoolCond) =>
    pool.count <= Cardinality({t \in Threads : /\ IsWorker(t) /\ pc[t] = "loop"
                                               /\ state[t] \in {"READY", "RUNNING"}})

(* The queue and the table of threads are freed when no worker can look at *)
(* them any more, and `started` and `task_in_progess` count what they say. *)
FreedLast ==
  /\ pc[Main] = "freed" => \A t \in Threads : IsWorker(t) => pc[t] = "gone" /\ exited[t]
  /\ pool.started = Cardinality({t \in Threads : IsWorker(t) /\ HasTCB(t) /\ pc[t] # "gone"})
  /\ pool.progress = Cardinality({t \in Threads : doing[t] # 0})

(* "pthipth_join all threads created with pthipth_pool_create and free the *)
(* pool once all threads have terminated" (documentation.md:151), after    *)
(* every task that was added has run.                                      *)
DestroyEnds == pc[Main] = "destroy" ~> pc[Main] = "freed" /\ done = 1 .. sent
=============================================================================
