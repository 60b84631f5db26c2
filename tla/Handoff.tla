------------------------------ MODULE Handoff -------------------------------
(***************************************************************************)
(* How one kernel thread hands the processor to another: global_futex      *)
(* around every call, a sched_futex per thread to park on, cur_pthipth set *)
(* by the dispatcher for its successor (one variable for all threads: the  *)
(* clone in pthipth_create.c:61 sets up no thread-local storage).  Calls   *)
(* interleave instruction by instruction through Futex.  What the calls do *)
(* to lists and priorities is left to Scheduler: here a call moves threads *)
(* into or out of the set `ready`, and the scheduler picks any of them.    *)
(***************************************************************************)
EXTENDS Futex

CONSTANTS Main, IdleThread,
          Global,              \* global_futex; t's sched_futex is called t
          Ops                  \* the kinds of calls that are made

ASSUME HandoffAssumption ==
  /\ Main \in Threads /\ IdleThread \in Threads /\ Main # IdleThread
  /\ Global \notin Threads /\ Futexes = Threads \cup {Global}
  /\ Ops \subseteq {"yield", "block", "exit", "wake", "create", "join", "detach"}
  /\ "yield" \in Ops

VARIABLES
  pc,      \* where t is in the library, between its futex calls
  then,    \* then[t]: what t does after it has released global_futex
  call,    \* the call t is in, [op, arg]; "free" is the second half of a join
  self,    \* the local variable `self`, read from cur_pthipth
  ready,   \* the threads in the bucket queue
  freed,   \* the TCBs that were freed, their sched_futex with them
  cur      \* cur_pthipth

callVars == <<call, self, ready, freed, cur>>
vars == <<futexVars, pc, then, callVars>>

Init ==
  /\ count = [f \in Futexes |-> IF f \in {Global, Main} THEN 1 ELSE 0]
  /\ fpc = [t \in Threads |-> "idle"]
  /\ fx = [t \in Threads |-> Global]
  /\ val = [t \in Threads |-> 0]
  /\ woken = [t \in Threads |-> FALSE]
  /\ pc = [t \in Threads |-> CASE t = Main -> "user" [] t = IdleThread -> "start" [] OTHER -> "none"]
  /\ then = [t \in Threads |-> "user"]
  /\ call = [t \in Threads |-> [op |-> "yield", arg |-> t]]
  /\ self = [t \in Threads |-> t]
  /\ ready = {Main, IdleThread}
  /\ freed = {}
  /\ cur = Main

Goto(t, l) == pc' = [pc EXCEPT ![t] = l]

At(t, l) == pc[t] = l /\ Idle(t)

(* futex_up(&global_futex), then on to l.                                  *)
Unlock(t, l) ==
  /\ UpStart(t, Global)
  /\ Goto(t, "unlock")
  /\ then' = [then EXCEPT ![t] = l]

-----------------------------------------------------------------------------
(* A call begins: pthipth_create clones first, the others wait for         *)
(* global_futex at once.  Only a blocked thread is woken.  A thread that   *)
(* has called exit may be joined or detached while it is still on its way  *)
(* out; a join of another one is a block.                                  *)
Admissible(t, op, u) ==
  \/ op \in {"block", "exit"} /\ t # IdleThread /\ u = t
  \/ op = "yield" /\ u = t
  \/ op = "create" /\ pc[u] = "none"
  \/ op = "wake" /\ pc[u] \notin {"none", "gone"} /\ u \notin ready /\ call[u].op # "exit"
  \/ op \in {"join", "detach"} /\ u # t /\ call[u].op = "exit" /\ u \notin freed

Begin(t, op, u) ==
  /\ At(t, "user")
  /\ t = IdleThread => op = "yield"
  /\ Admissible(t, op, u)
  /\ DownStart(t, Global)
  /\ pc' = [v \in Threads |-> IF v = t THEN "locked"
                              ELSE IF v = u /\ op = "create" THEN "start" ELSE pc[v]]
  /\ call' = [call EXCEPT ![t] = [op |-> op, arg |-> u]]
  /\ UNCHANGED <<then, self, ready, freed, cur>>

(* Under global_futex: everything but the switch itself, and the second    *)
(* half of a join, which frees its target.                                 *)
Change(t) ==
  LET op == call[t].op
      u  == call[t].arg
  IN
  /\ At(t, "locked") /\ op \in {"block", "wake", "create", "free"}
  /\ self' = [self EXCEPT ![t] = cur]
  /\ ready' = CASE op = "block" -> ready \ {cur}
                [] op \in {"wake", "create"} -> ready \cup {u}
                [] OTHER -> ready
  /\ freed' = IF op = "free" THEN freed \cup {u} ELSE freed
  /\ Unlock(t, IF op = "block" THEN "yield" ELSE "user")
  /\ call' = [call EXCEPT ![t] = [op |-> "yield", arg |-> t]]
  /\ UNCHANGED cur

(* pthipth_join and pthipth_detach see that the target is DEFUNCT and      *)
(* release global_futex.                                                   *)
SeeDefunct(t) ==
  /\ At(t, "locked") /\ call[t].op \in {"join", "detach"}
  /\ self' = [self EXCEPT ![t] = cur]
  /\ Unlock(t, "watch")
  /\ UNCHANGED <<call, ready, freed, cur>>

(* Mutant of Watch: tid_watch is not looked at.                            *)
WatchNot(t) ==
  LET u == call[t].arg IN
  /\ At(t, "watch")
  /\ IF call[t].op = "detach"
     THEN /\ freed' = freed \cup {u}
          /\ Goto(t, "user")
          /\ call' = [call EXCEPT ![t] = [op |-> "yield", arg |-> t]]
          /\ UNCHANGED futexVars
     ELSE /\ DownStart(t, Global)
          /\ Goto(t, "locked")
          /\ call' = [call EXCEPT ![t] = [op |-> "free", arg |-> u]]
          /\ UNCHANGED freed
  /\ UNCHANGED <<then, self, ready, cur>>

(* while (target->tid_watch != 0): the end of the loop. A detach frees the *)
(* target outside the lock, a join takes global_futex again.               *)
Watch(t) ==
  LET u == call[t].arg IN
  /\ At(t, "watch") /\ pc[u] = "gone"
  /\ IF call[t].op = "detach"
     THEN /\ freed' = freed \cup {u}
          /\ Goto(t, "user")
          /\ call' = [call EXCEPT ![t] = [op |-> "yield", arg |-> t]]
          /\ UNCHANGED futexVars
     ELSE /\ DownStart(t, Global)
          /\ Goto(t, "locked")
          /\ call' = [call EXCEPT ![t] = [op |-> "free", arg |-> u]]
          /\ UNCHANGED freed
  /\ UNCHANGED <<then, self, ready, cur>>

(* __pthipth_check_detach in the dispatcher: it frees the threads of       *)
(* defunct_state that are gone.  Which were detached is left open.         *)
Reaped == \E dead \in SUBSET {u \in Threads : pc[u] = "gone"} : freed' = freed \cup dead

(* Mutant of Switch: cur_pthipth is not set.                               *)
SwitchKeepsCur(t) ==
  /\ At(t, "locked") /\ call[t].op \in {"yield", "exit"}
  /\ self' = [self EXCEPT ![t] = cur]
  /\ ready' = IF call[t].op = "exit" THEN ready \ {cur} ELSE ready
  /\ \E next \in ready' :
       IF next = cur THEN Unlock(t, "user")
                     ELSE UpStart(t, next) /\ Goto(t, "upped") /\ UNCHANGED then
  /\ Reaped
  /\ UNCHANGED <<call, cur>>

(* __pthipth_dispatcher for a yielding or exiting thread; a thread that is *)
(* chosen itself goes on (pthipth_yield.c:57).                             *)
Switch(t) ==
  /\ At(t, "locked") /\ call[t].op \in {"yield", "exit"}
  /\ self' = [self EXCEPT ![t] = cur]
  /\ ready' = IF call[t].op = "exit" THEN ready \ {cur} ELSE ready
  /\ \E next \in ready' :
       /\ cur' = next
       /\ IF next = cur THEN Unlock(t, "user")
                        ELSE UpStart(t, next) /\ Goto(t, "upped") /\ UNCHANGED then
  /\ Reaped
  /\ UNCHANGED call

(* Mutant of Leave: global_futex is released before the own semaphore is   *)
(* drained.                                                                *)
LeaveUndrained(t) ==
  /\ At(t, "upped")
  /\ Unlock(t, IF call[t].op = "exit" THEN "gone" ELSE "park")
  /\ UNCHANGED callVars

(* After the wake-up of the successor: main takes back the initial 1 of    *)
(* its semaphore the first time it gets here, then the lock is released.   *)
Leave(t) ==
  /\ At(t, "upped")
  /\ IF call[t].op = "yield" /\ count[self[t]] > 0
     THEN DownStart(t, self[t]) /\ Goto(t, "drained") /\ UNCHANGED then
     ELSE Unlock(t, IF call[t].op = "exit" THEN "gone" ELSE "park")
  /\ UNCHANGED callVars

Drained(t) == At(t, "drained") /\ Unlock(t, "park") /\ UNCHANGED callVars

(* Released: back to user code, into SYS_exit, which clears tid_watch, to  *)
(* the loop on another thread's tid_watch, to the parking place, or, for a *)
(* thread that blocked itself, into pthipth_yield.                         *)
Released(t) ==
  /\ At(t, "unlock")
  /\ \/ then[t] \in {"user", "gone", "watch"} /\ Goto(t, then[t]) /\ UNCHANGED futexVars
     \/ then[t] = "park" /\ DownStart(t, self[t]) /\ Goto(t, "parked")
     \/ then[t] = "yield" /\ DownStart(t, Global) /\ Goto(t, "locked")
  /\ then' = [then EXCEPT ![t] = "user"]
  /\ UNCHANGED callVars

(* pthipth_yield returns.                                                  *)
Resume(t) == At(t, "parked") /\ Goto(t, "user") /\ UNCHANGED <<futexVars, then, callVars>>

(* __pthipth_wrapper                                                       *)
Start(t) ==
  /\ At(t, "start")
  /\ DownStart(t, t) /\ Goto(t, "starting")
  /\ UNCHANGED <<then, callVars>>

Started(t) ==
  /\ At(t, "starting")
  /\ Goto(t, "user")
  /\ cur' = t
  /\ UNCHANGED <<futexVars, then, call, self, ready, freed>>

-----------------------------------------------------------------------------
Library(t) ==
  \/ Change(t) \/ SeeDefunct(t) \/ Watch(t) \/ Switch(t) \/ Leave(t) \/ Drained(t)
  \/ Released(t) \/ Resume(t) \/ Start(t) \/ Started(t)
  \/ FutexStep(t) /\ UNCHANGED <<pc, then, callVars>>

Next == \E t \in Threads :
          \/ \E op \in Ops, u \in Threads : Begin(t, op, u)
          \/ Library(t)
          \/ SpuriousWake(t) /\ UNCHANGED <<pc, then, callVars>>

Spec == Init /\ [][Next]_vars

(* The kernel runs every runnable thread.                                  *)
FairSpec == Spec /\ \A t \in Threads : WF_vars(Library(t))

-----------------------------------------------------------------------------
TypeOK ==
  /\ FutexTypeOK
  /\ pc \in [Threads -> {"none", "start", "starting", "user", "locked", "upped", "drained",
                         "unlock", "watch", "parked", "gone"}]
  /\ then \in [Threads -> {"user", "gone", "watch", "park", "yield"}]
  /\ call \in [Threads -> [op : Ops \cup {"free"}, arg : Threads]]
  /\ self \in [Threads -> Threads]
  /\ ready \in SUBSET Threads /\ freed \in SUBSET Threads /\ cur \in Threads

(* Whoever evaluates __pthipth_selfptr(), in user code or in a call before *)
(* it switches, finds itself: cur_pthipth is never the successor's or a    *)
(* predecessor's TCB although all kernel threads share it.  (With the types *)
(* of the variables.)                                                      *)
SelfIsCaller ==
  /\ TypeOK
  /\ \A t \in Threads : pc[t] \in {"user", "locked"} => cur = t

(* t is between futex_down and futex_up of global_futex.                   *)
Holds(t) == At(t, "locked") \/ pc[t] \in {"upped", "drained"}

(* Lists, cur_pthipth and TCBs are touched by one thread at a time, also   *)
(* while one thread still leaves the dispatcher and its successor already  *)
(* runs.                                                                   *)
OneInLibrary == \A t, u \in Threads : Holds(t) /\ Holds(u) => t = u

(* Nobody sleeps on, exchanges or wakes the semaphore of a freed TCB, and  *)
(* no thread is freed before the kernel has cleared its tid_watch, which   *)
(* is in the TCB: neither by a join or detach that meets it on its way out *)
(* nor by a dispatcher.                                                    *)
NoUseAfterFree ==
  /\ \A t \in Threads : ~Idle(t) => fx[t] \notin freed
  /\ \A t \in freed : pc[t] = "gone"

(* No wake-up is banked: the semaphore of a thread that is not chosen is   *)
(* down, so that it stays parked until the dispatcher picks it.            *)
NoTokenBanked ==
  \A t \in Threads : pc[t] \in {"start", "starting", "parked"} /\ t # cur => count[t] <= 0

(* The hand-over arrives: after every call, switch or start, the thread    *)
(* that cur_pthipth names gets to run user code.                           *)
ChosenRuns == []<>(pc[cur] = "user")

B == INSTANCE Baton WITH holder <- cur, inUser <- {t \in Threads : pc[t] = "user"}

(* The hand-over implements the baton.                                     *)
ImplementsBaton == B!Spec
=============================================================================
