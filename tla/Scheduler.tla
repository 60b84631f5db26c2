----------------------------- MODULE Scheduler ------------------------------
(***************************************************************************)
(* The thread control blocks, the lists they are on and the dispatcher:    *)
(* pthipth_create, yield, join, detach, exit, sleep and set_prio, with     *)
(* check_sleeping, aging, check_detach and the selection.                  *)
(*                                                                         *)
(* One thread at a time runs user code, and a call runs under global_futex *)
(* (Handoff shows both), so a call is one step that ends in user code      *)
(* again or starts a dispatch; a dispatch is a sequence of steps, one per  *)
(* loop iteration of the code.  The user program is a constant: the calls  *)
(* each thread may make and how many of them before it exits.              *)
(***************************************************************************)
EXTENDS ThreadLists, BucketConstants

CONSTANTS
  Main, NoThread,
  Highest, Lowest, MainPriority,   \* the macros of pthipth.h, with IdlePriority
  TaskPriority,    \* task->priority of each thread
  AgingFactor,     \* attr->aging_factor, 0 when not ageing
  AgingTime,       \* attr->aging_time
  Program,         \* Program[t]: the calls t may make, see Call
  Budget,          \* Budget[t]: how many of them it makes
  MaxTime          \* bound of the clock

Call == [op : {"create", "join", "detach"}, arg : Threads]
          \cup [op : {"sleep", "set_prio"}, arg : Nat]
          \cup [op : {"yield", "exit"}]

ASSUME ThreadAssumption ==
  Main \in Threads /\ Main # IdleThread /\ NoThread \notin Threads

ASSUME PriorityAssumption ==
  /\ {Highest, Lowest, MainPriority} \subseteq Nat
  /\ 0 < Highest /\ Highest <= Lowest
  /\ Lowest < MainPriority /\ MainPriority < IdlePriority
  /\ TaskPriority \in [Threads -> Int]

ASSUME ProgramAssumption ==
  /\ AgingFactor \in [Threads -> Nat] /\ AgingTime \in [Threads -> Nat \ {0}]
  /\ Budget \in [Threads -> Nat] /\ MaxTime \in Nat
  /\ \A t \in Threads, c \in UNION {Program[u] : u \in Threads} :
       /\ c.op = "set_prio" => c.arg \in Highest .. Lowest
       /\ c.op = "sleep" => c.arg \in Nat
       /\ c.op \in {"create", "join", "detach"} => c.arg \in Threads

(* pthipth_idle                                                            *)
ASSUME IdleAssumption == \A c \in Program[IdleThread] : c.op = "yield"

VARIABLES
  sch,       \* [state: per TCB; bq; blocked, sleeping: blocked_state, sleeping_state]
  defunct,   \* defunct_state
  prio,      \* priority
  old,       \* old_priority
  last,      \* last_selected
  wake,      \* wake_time
  joiner,    \* joiner[u]: u->blockedForJoin
  detached,  \* is_detach
  exited,    \* the kernel has cleared tid_watch
  at,        \* at[t]: "user" code, "reaping" (join or detach waits for target[t]), or
             \* "locking" (pthipth_mutex_lock between two attempts, see Sync)
  target,    \* the local variable `target` of t's join or detach
  left,      \* left[t]: calls left in t's budget
  cur,       \* cur_pthipth
  phase,     \* "run", or the loop of the dispatcher that cur is in
  todo,      \* the nodes check_sleeping or check_detach has yet to visit
  level,     \* the bucket aging has reached
  now        \* CLOCK_MONOTONIC in ms

ageVars  == <<prio, old, last>>
joinVars == <<joiner, detached, exited, target>>
loopVars == <<todo, level>>
vars == <<sch, defunct, prio, old, last, wake, joiner, detached, exited, at,
          target, left, cur, phase, todo, level, now>>

(* A thread without TCB is "none" before pthipth_create and "freed" after  *)
(* __pthipth_free; the others are pthipth_state_t.                         *)
States == {"none", "READY", "RUNNING", "BLOCKED", "SLEEPING", "DEFUNCT", "freed"}

state == sch.state
HasTCB(t) == state[t] \notin {"none", "freed"}

InitPriority(t) ==
  IF t = Main THEN MainPriority
  ELSE IF t = IdleThread THEN IdlePriority
  ELSE IF TaskPriority[t] < Highest THEN Highest
  ELSE IF TaskPriority[t] > Lowest THEN Lowest ELSE TaskPriority[t]

(* __pthipth_change_to_state on the record sch.                            *)
ChangeState(s, t, to) == StateChange(s, t, to, prio[t])

-----------------------------------------------------------------------------
Init ==
  /\ sch = [state    |-> [t \in Threads |-> IF t = Main THEN "RUNNING"
                                            ELSE IF t = IdleThread THEN "READY" ELSE "none"],
            bq       |-> BqInsert(BqInsert(EmptyBuckets(Priorities), Main, MainPriority),
                                  IdleThread, IdlePriority),
            blocked  |-> <<>>,
            sleeping |-> <<>>]
  /\ defunct = <<>>
  /\ prio = [t \in Threads |-> InitPriority(t)]
  /\ old = prio
  /\ last = [t \in Threads |-> 0]
  /\ wake = [t \in Threads |-> 0]
  /\ joiner = [t \in Threads |-> NoThread]
  /\ detached = [t \in Threads |-> FALSE]
  /\ exited = [t \in Threads |-> FALSE]
  /\ at = [t \in Threads |-> "user"]
  /\ target = [t \in Threads |-> NoThread]
  /\ left = Budget
  /\ cur = Main
  /\ phase = "run"
  /\ todo = <<>>
  /\ level = 0
  /\ now = 0

-----------------------------------------------------------------------------
(* Calls of the running thread.                                            *)

InUser(t) == phase = "run" /\ cur = t /\ at[t] = "user"

Calls(t, c) ==
  /\ InUser(t)
  /\ c \in Program[t]
  /\ left[t] > 0
  /\ left' = [left EXCEPT ![t] = @ - 1]

(* The dispatcher begins with check_sleeping.                              *)
Dispatch(sleepers) == phase' = "sleepers" /\ todo' = sleepers

Create(t, u) ==
  /\ Calls(t, [op |-> "create", arg |-> u])
  /\ state[u] = "none"
  /\ sch' = [sch EXCEPT !.state[u] = "READY", !.bq = BqInsert(@, u, InitPriority(u))]
  /\ last' = [last EXCEPT ![u] = now]
  /\ UNCHANGED <<defunct, prio, old, wake, joinVars, at, cur, phase, loopVars, now>>

(* The idle thread yields for ever; main may, at any point.                *)
Yield(t) ==
  /\ \/ Calls(t, [op |-> "yield"])
     \/ InUser(t) /\ t \in {Main, IdleThread} /\ UNCHANGED left
  /\ Dispatch(sch.sleeping)
  /\ UNCHANGED <<sch, defunct, ageVars, wake, joinVars, at, cur, level, now>>

(* Mutant of Joinable: blockedForJoin is not checked.                      *)
JoinableTwice(t, u) == HasTCB(u) /\ u # t /\ ~detached[u]

(* pthipth_join.  A join that returns -1 changes nothing and is no step.   *)
Joinable(t, u) == HasTCB(u) /\ joiner[u] = NoThread /\ u # t /\ ~detached[u]

JoinDefunct(t, u) ==
  /\ Calls(t, [op |-> "join", arg |-> u])
  /\ Joinable(t, u) /\ state[u] = "DEFUNCT"
  /\ at' = [at EXCEPT ![t] = "reaping"]
  /\ target' = [target EXCEPT ![t] = u]
  /\ UNCHANGED <<sch, defunct, ageVars, wake, joiner, detached, exited, cur, phase,
                 loopVars, now>>

JoinWait(t, u) ==
  /\ Calls(t, [op |-> "join", arg |-> u])
  /\ Joinable(t, u) /\ state[u] # "DEFUNCT"
  /\ joiner' = [joiner EXCEPT ![u] = t]
  /\ sch' = ChangeState(sch, t, "BLOCKED")
  /\ Dispatch(sch.sleeping)
  /\ at' = [at EXCEPT ![t] = "reaping"]
  /\ target' = [target EXCEPT ![t] = u]
  /\ UNCHANGED <<defunct, ageVars, wake, detached, exited, cur, level, now>>

(* pthipth_detach; a DEFUNCT target is freed by the caller.                *)
Detach(t, u) ==
  /\ Calls(t, [op |-> "detach", arg |-> u])
  /\ HasTCB(u) /\ ~detached[u] /\ joiner[u] = NoThread
  /\ detached' = [detached EXCEPT ![u] = TRUE]
  /\ IF state[u] = "DEFUNCT"
     THEN /\ at' = [at EXCEPT ![t] = "reaping"]
          /\ target' = [target EXCEPT ![t] = u]
     ELSE UNCHANGED <<at, target>>
  /\ UNCHANGED <<sch, defunct, ageVars, wake, joiner, exited, cur, phase, loopVars, now>>

(* The end of join and detach: `while (target->tid_watch != 0)`, then      *)
(* __pthipth_free.                                                         *)
Reap(t) ==
  /\ phase = "run" /\ cur = t /\ at[t] = "reaping"
  /\ exited[target[t]]
  /\ sch' = SetState(sch, target[t], "freed")
  /\ at' = [at EXCEPT ![t] = "user"]
  /\ target' = [target EXCEPT ![t] = NoThread]
  /\ UNCHANGED <<defunct, ageVars, wake, joiner, detached, exited, left, cur, phase,
                 loopVars, now>>

Sleep(t, d) ==
  /\ Calls(t, [op |-> "sleep", arg |-> d])
  /\ now + d <= MaxTime
  /\ wake' = [wake EXCEPT ![t] = now + d]
  /\ sch' = ChangeState(sch, t, "SLEEPING")
  /\ Dispatch(Append(sch.sleeping, t))
  /\ UNCHANGED <<defunct, ageVars, joinVars, at, cur, level, now>>

SetPrio(t, p) ==
  /\ Calls(t, [op |-> "set_prio", arg |-> p])
  /\ prio' = [prio EXCEPT ![t] = p]
  /\ old' = [old EXCEPT ![t] = p]
  /\ sch' = [sch EXCEPT !.bq = BqReinsert(@, t, p)]
  /\ UNCHANGED <<defunct, last, wake, joinVars, at, cur, phase, loopVars, now>>

(* Mutants of Exit: the joiner is not woken; the queue of detached threads *)
(* is forgotten.                                                           *)
ExitNoWake(t) ==
  /\ \/ Calls(t, [op |-> "exit"])
     \/ InUser(t) /\ t \notin {Main, IdleThread} /\ UNCHANGED left
  /\ sch' = ChangeState(sch, t, "DEFUNCT")
  /\ defunct' = IF detached[t] THEN Append(defunct, t) ELSE defunct
  /\ Dispatch(sch.sleeping)
  /\ UNCHANGED <<ageVars, wake, joinVars, at, cur, level, now>>

ExitNoQueue(t) ==
  /\ \/ Calls(t, [op |-> "exit"])
     \/ InUser(t) /\ t \notin {Main, IdleThread} /\ UNCHANGED left
  /\ LET woken == IF joiner[t] = NoThread THEN sch ELSE ChangeState(sch, joiner[t], "READY")
     IN  sch' = ChangeState(woken, t, "DEFUNCT")
  /\ Dispatch(sch.sleeping)
  /\ UNCHANGED <<defunct, ageVars, wake, joinVars, at, cur, level, now>>

(* pthipth_exit, called by the program or by the wrapper when the thread's *)
(* function returns, which it may at any point.                            *)
Exit(t) ==
  /\ \/ Calls(t, [op |-> "exit"])
     \/ InUser(t) /\ t \notin {Main, IdleThread} /\ UNCHANGED left
  /\ LET woken == IF joiner[t] = NoThread THEN sch ELSE ChangeState(sch, joiner[t], "READY")
     IN  sch' = ChangeState(woken, t, "DEFUNCT")
  /\ defunct' = IF detached[t] THEN Append(defunct, t) ELSE defunct
  /\ Dispatch(sch.sleeping)
  /\ UNCHANGED <<ageVars, wake, joinVars, at, cur, level, now>>

-----------------------------------------------------------------------------
(* __pthipth_dispatcher, run by cur under global_futex.                    *)

(* Mutants of WakeSleeper: the comparison is reversed; the walk does not   *)
(* pass a thread that is not due.                                          *)
WakeSleeperReversed ==
  /\ phase = "sleepers" /\ todo # <<>>
  /\ sch' = IF state[Head(todo)] = "SLEEPING" /\ now < wake[Head(todo)]
            THEN ChangeState(sch, Head(todo), "READY") ELSE sch
  /\ todo' = Tail(todo)
  /\ UNCHANGED <<defunct, ageVars, wake, joinVars, at, left, cur, phase, level, now>>

WakeSleeperStuck ==
  /\ phase = "sleepers" /\ todo # <<>>
  /\ IF state[Head(todo)] = "SLEEPING" /\ now >= wake[Head(todo)]
     THEN sch' = ChangeState(sch, Head(todo), "READY") /\ todo' = Tail(todo)
     ELSE UNCHANGED <<sch, todo>>
  /\ UNCHANGED <<defunct, ageVars, wake, joinVars, at, left, cur, phase, level, now>>

(* __pthipth_check_sleeping: one node of sleeping_state per step.          *)
WakeSleeper ==
  /\ phase = "sleepers" /\ todo # <<>>
  /\ sch' = IF state[Head(todo)] = "SLEEPING" /\ now >= wake[Head(todo)]
            THEN ChangeState(sch, Head(todo), "READY") ELSE sch
  /\ todo' = Tail(todo)
  /\ UNCHANGED <<defunct, ageVars, wake, joinVars, at, left, cur, phase, level, now>>

(* The nodes of bucket l that the loop body of __pthipth_aging evaluates,  *)
(* and the first bucket from l on that has one and is not exempt.          *)
Ages(t) == state[t] # "RUNNING" /\ AgingFactor[t] # 0

Aging(l) == {i \in DOMAIN sch.bq.bucket[l] : Ages(sch.bq.bucket[l][i])}

NextLevel(from) ==
  Min({IdlePriority + 1} \cup
      {l \in from .. IdlePriority :
         /\ Aging(l) # {}
         /\ InitPriority(Head(sch.bq.bucket[l])) \notin {MainPriority, IdlePriority}})

StartAging ==
  /\ phase = "sleepers" /\ todo = <<>>
  /\ phase' = "aging"
  /\ level' = NextLevel(Top(sch.bq))
  /\ UNCHANGED <<sch, defunct, ageVars, wake, joinVars, at, left, cur, todo, now>>

AgedPriority(t) ==
  LET aged == old[t] - ((now - last[t]) \div AgingTime[t]) * AgingFactor[t]
  IN  IF aged < Highest THEN Highest ELSE aged

(* Mutant of Age: last_selected stays, so that the same wait counts again. *)
AgeTwice(t) ==
  LET p == AgedPriority(t) IN
  /\ IF p < old[t] THEN old' = [old EXCEPT ![t] = p] ELSE UNCHANGED old
  /\ IF p < prio[t] THEN /\ prio' = [prio EXCEPT ![t] = p]
                         /\ sch' = [sch EXCEPT !.bq = BqReinsert(@, t, p)]
                    ELSE UNCHANGED <<prio, sch>>
  /\ UNCHANGED last

(* The loop body for node t.                                               *)
Age(t) ==
  LET p == AgedPriority(t) IN
  /\ IF p < old[t] THEN old' = [old EXCEPT ![t] = p] /\ last' = [last EXCEPT ![t] = now]
                   ELSE UNCHANGED <<old, last>>
  /\ IF p < prio[t] THEN /\ prio' = [prio EXCEPT ![t] = p]
                         /\ sch' = [sch EXCEPT !.bq = BqReinsert(@, t, p)]
                    ELSE UNCHANGED <<prio, sch>>

(* Mutant of AgeLevel: the walk goes on only from a node that it promotes. *)
AgeLevelStays ==
  LET first == Min(Aging(level)) IN
  /\ phase = "aging" /\ level <= IdlePriority
  /\ Age(sch.bq.bucket[level][first])
  /\ IF first = 1 /\ sch' # sch THEN level' = NextLevel(level + 1) /\ UNCHANGED phase
                                ELSE phase' = "spin" /\ UNCHANGED level
  /\ UNCHANGED <<defunct, wake, joinVars, at, left, cur, todo, now>>

(* One bucket of the for loop; a promotion never reaches a later bucket.   *)
(* If the first node that ages is the bucket's first, the walk ends after  *)
(* it; at any later node neither `break` nor `cur = cur_next` is reached   *)
(* and the walk evaluates that node for ever ("spin").                     *)
AgeLevel ==
  LET first == Min(Aging(level)) IN
  /\ phase = "aging" /\ level <= IdlePriority
  /\ Age(sch.bq.bucket[level][first])
  /\ IF first = 1 THEN level' = NextLevel(level + 1) /\ UNCHANGED phase
                  ELSE phase' = "spin" /\ UNCHANGED level
  /\ UNCHANGED <<defunct, wake, joinVars, at, left, cur, todo, now>>

Spin == phase = "spin" /\ UNCHANGED vars

StartReaping ==
  /\ phase = "aging" /\ level = IdlePriority + 1
  /\ phase' = "reap"
  /\ level' = 0
  /\ todo' = defunct
  /\ UNCHANGED <<sch, defunct, ageVars, wake, joinVars, at, left, cur, now>>

(* Mutant of ReapDetached: tid_watch is not looked at.                     *)
ReapDetachedEarly ==
  /\ phase = "reap" /\ todo # <<>>
  /\ LET u == Head(todo) IN
     IF u # cur
     THEN /\ defunct' = Without(defunct, u)
          /\ sch' = SetState(sch, u, "freed")
     ELSE UNCHANGED <<defunct, sch>>
  /\ todo' = Tail(todo)
  /\ UNCHANGED <<ageVars, wake, joinVars, at, left, cur, phase, level, now>>

(* __pthipth_check_detach: one node of defunct_state per step.             *)
ReapDetached ==
  /\ phase = "reap" /\ todo # <<>>
  /\ LET u == Head(todo) IN
     IF u # cur /\ exited[u]
     THEN /\ defunct' = Without(defunct, u)
          /\ sch' = SetState(sch, u, "freed")
     ELSE UNCHANGED <<defunct, sch>>
  /\ todo' = Tail(todo)
  /\ UNCHANGED <<ageVars, wake, joinVars, at, left, cur, phase, level, now>>

(* __pthipth_scheduler and the rest of the dispatcher.                     *)
Chosen(bq) == IF BqPeek(bq) = cur THEN BqPeek(BqRotate(bq)) ELSE BqPeek(bq)

(* Mutants of Select: the caller stays RUNNING; the last_selected of the   *)
(* thread that leaves is not advanced.                                     *)
SelectKeepsRunning ==
  LET next == Chosen(sch.bq) IN
  /\ phase = "reap" /\ todo = <<>>
  /\ sch' = [SetState(sch, next, "RUNNING") EXCEPT !.bq = BqRotate(@)]
  /\ last' = [last EXCEPT ![cur] = now, ![next] = now]
  /\ cur' = next
  /\ phase' = "run"
  /\ UNCHANGED <<defunct, prio, old, wake, joinVars, at, left, loopVars, now>>

SelectKeepsLast ==
  LET yielded == IF state[cur] = "RUNNING" THEN SetState(sch, cur, "READY") ELSE sch
      next    == Chosen(sch.bq)
  IN
  /\ phase = "reap" /\ todo = <<>>
  /\ sch' = [SetState(yielded, next, "RUNNING") EXCEPT !.bq = BqRotate(@)]
  /\ last' = [last EXCEPT ![next] = now]
  /\ cur' = next
  /\ phase' = "run"
  /\ UNCHANGED <<defunct, prio, old, wake, joinVars, at, left, loopVars, now>>

Select ==
  LET yielded == IF state[cur] = "RUNNING" THEN SetState(sch, cur, "READY") ELSE sch
      next    == Chosen(sch.bq)
  IN
  /\ phase = "reap" /\ todo = <<>>
  /\ sch' = [SetState(yielded, next, "RUNNING") EXCEPT !.bq = BqRotate(@)]
  /\ last' = [last EXCEPT ![cur] = now, ![next] = now]
  /\ cur' = next
  /\ phase' = "run"
  /\ UNCHANGED <<defunct, prio, old, wake, joinVars, at, left, loopVars, now>>

-----------------------------------------------------------------------------
(* The kernel: SYS_exit of a thread that has left the dispatcher clears    *)
(* its tid_watch; time passes.                                             *)
KernelExit(t) ==
  /\ state[t] = "DEFUNCT" /\ cur # t /\ ~exited[t]
  /\ exited' = [exited EXCEPT ![t] = TRUE]
  /\ UNCHANGED <<sch, defunct, ageVars, wake, joiner, detached, target, at, left, cur,
                 phase, loopVars, now>>

Tick ==
  /\ phase = "run" /\ now < MaxTime
  /\ now' = now + 1
  /\ UNCHANGED <<sch, defunct, ageVars, wake, joinVars, at, left, cur, phase, loopVars>>

UserCall(t) ==
  \/ \E u \in Threads : Create(t, u) \/ JoinDefunct(t, u) \/ JoinWait(t, u) \/ Detach(t, u)
  \/ \E d \in 0 .. MaxTime : Sleep(t, d)
  \/ \E p \in Highest .. Lowest : SetPrio(t, p)
  \/ Yield(t) \/ Exit(t)

Dispatcher == WakeSleeper \/ StartAging \/ AgeLevel \/ Spin \/ StartReaping \/ ReapDetached \/ Select

Next ==
  \/ \E t \in Threads : UserCall(t) \/ Reap(t) \/ KernelExit(t)
  \/ Dispatcher
  \/ Tick

Spec == Init /\ [][Next]_vars

(* The running thread goes on, exiting threads reach the kernel, and time  *)
(* passes, strongly fair because the model stops it during a dispatch.  A  *)
(* budget makes every thread but main and idle return.                     *)
Fairness ==
  /\ WF_vars(Dispatcher \/ \E t \in Threads : UserCall(t) \/ Reap(t))
  /\ \A t \in Threads : WF_vars(KernelExit(t))
  /\ SF_vars(Tick)

FairSpec == Spec /\ Fairness

-----------------------------------------------------------------------------
Maybe(S) == S \cup {NoThread}

TypeOK ==
  /\ sch.state \in [Threads -> States]
  /\ sch.bq.bucket \in [Priorities -> Seq(Threads)] /\ sch.bq.bits \in SUBSET Priorities
  /\ sch.blocked \in Seq(Threads) /\ sch.sleeping \in Seq(Threads)
  /\ defunct \in Seq(Threads) /\ todo \in Seq(Threads)
  /\ prio \in [Threads -> Priorities] /\ old \in [Threads -> Priorities]
  /\ last \in [Threads -> Nat] /\ wake \in [Threads -> Nat] /\ now \in Nat
  /\ joiner \in [Threads -> Maybe(Threads)] /\ target \in [Threads -> Maybe(Threads)]
  /\ detached \in [Threads -> BOOLEAN] /\ exited \in [Threads -> BOOLEAN]
  /\ at \in [Threads -> {"user", "reaping", "locking"}]
  /\ left \in [Threads -> Nat]
  /\ cur \in Threads
  /\ phase \in {"run", "sleepers", "aging", "spin", "reap"}
  /\ level \in 0 .. IdlePriority + 1

(* "A node can only exist in one data structure at a time"                 *)
(* (documentation.md:212): the list a TCB is on is the one of its state,   *)
(* it is on it once, and in the bucket of its current priority.  (With the *)
(* types of the variables.)                                                *)
OneList ==
  /\ TypeOK
  /\ \A t \in Threads :
       /\ Queued(sch.bq, t) <=> state[t] \in {"READY", "RUNNING"}
       /\ Queued(sch.bq, t) => Level(sch.bq, t) = prio[t]
       /\ Contains(sch.blocked, t) <=> state[t] = "BLOCKED"
       /\ Contains(sch.sleeping, t) <=> state[t] = "SLEEPING"
       /\ Contains(defunct, t) => state[t] = "DEFUNCT" /\ detached[t]
  /\ NoDuplicates(sch.bq) /\ BitsSound(sch.bq) /\ IdlePriority \in sch.bq.bits
  /\ Once(sch.blocked) /\ Once(sch.sleeping) /\ Once(defunct)

(* Only cur_pthipth is RUNNING, and outside the dispatcher it is.          *)
OneRunning ==
  /\ \A t \in Threads : state[t] = "RUNNING" => t = cur
  /\ phase = "run" => state[cur] = "RUNNING"

(* A TCB is freed once its thread is gone from the kernel, and nothing     *)
(* still points to it: no list, no join in progress, no loop of the        *)
(* dispatcher, no blockedForJoin of a thread that will use it.             *)
NoDangling ==
  \A u \in Threads : state[u] = "freed" =>
    /\ exited[u] /\ cur # u
    /\ ~Queued(sch.bq, u) /\ ~Contains(sch.blocked, u) /\ ~Contains(sch.sleeping, u)
    /\ ~Contains(defunct, u) /\ ~Contains(todo, u)
    /\ \A t \in Threads :
         /\ at[t] = "reaping" => target[t] # u
         /\ joiner[t] = u => state[t] \in {"DEFUNCT", "freed"}

(* A blocked thread waits for exactly the live thread that will wake it,   *)
(* and when it runs again that thread has finished: join never returns     *)
(* early, and never waits for a thread whose exit is past.                 *)
JoinsPaired ==
  \A t \in Threads : at[t] = "reaping" =>
    IF state[t] = "BLOCKED"
    THEN \A u \in Threads : joiner[u] = t /\ HasTCB(u) /\ state[u] # "DEFUNCT" <=> u = target[t]
    ELSE state[target[t]] = "DEFUNCT"

(* The scheduler "select[s] the next runnable thread" by priority          *)
(* (documentation.md:158, 177): no READY thread has a higher priority than *)
(* the one that is dispatched.                                             *)
PicksHighest ==
  [][\A t \in Threads : Select /\ state'[t] = "READY" => prio[cur'] <= prio[t]]_vars

(* "When the target thread finishes, the current thread is resumed"        *)
(* (documentation.md:48).                                                  *)
JoinerResumes == \A t \in Threads : at[t] = "reaping" ~> at[t] = "user"

(* A sleeper runs again.                                                   *)
SleeperRuns == \A t \in Threads : state[t] = "SLEEPING" ~> state[t] = "RUNNING"

(* The TCB of a detached thread that has exited is reclaimed by a later    *)
(* dispatch.                                                               *)
DetachedReclaimed ==
  \A t \in Threads : detached[t] /\ state[t] = "DEFUNCT" ~> state[t] = "freed"

(* Every call of the dispatcher, made under global_futex, ends.            *)
DispatchEnds == phase # "run" ~> phase = "run"
=============================================================================
