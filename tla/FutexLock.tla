----------------------------- MODULE FutexLock ------------------------------
(***************************************************************************)
(* Futexes used the way the library uses global_futex: initialised to 1,   *)
(* every thread brackets its critical sections with futex_down and         *)
(* futex_up and ignores what they return.                                  *)
(***************************************************************************)
EXTENDS Futex

CONSTANT NoOwner

ASSUME NoOwnerAssumption == NoOwner \notin Threads

VARIABLE op          \* op[t]: the last call t made, "down" or "up"

vars == <<futexVars, op>>

InSection(t) == op[t] = "down" /\ Idle(t)

(* From the exchange that took the count from 1 to 0, to the one or the    *)
(* store that sets it to 1 again.                                          *)
Owns(t, f) ==
  /\ fx[t] = f
  /\ \/ op[t] = "down" /\ fpc[t] \in {"idle", "settle"}
     \/ fpc[t] \in {"uload", "ucas", "ustore"}

Init ==
  /\ count = [f \in Futexes |-> 1]          \* futex_init(&global_futex, 1)
  /\ fpc = [t \in Threads |-> "idle"]
  /\ fx \in {[t \in Threads |-> f] : f \in Futexes}
  /\ val = [t \in Threads |-> 0]
  /\ woken = [t \in Threads |-> FALSE]
  /\ op = [t \in Threads |-> "up"]

Lock(t, f) ==
  /\ op[t] = "up"
  /\ DownStart(t, f)
  /\ op' = [op EXCEPT ![t] = "down"]

Unlock(t) ==
  /\ op[t] = "down"
  /\ UpStart(t, fx[t])
  /\ op' = [op EXCEPT ![t] = "up"]

Step(t) == FutexStep(t) /\ UNCHANGED op

Next == \E t \in Threads :
          \/ \E f \in Futexes : Lock(t, f)
          \/ Unlock(t)
          \/ Step(t)
          \/ SpuriousWake(t) /\ UNCHANGED op

Spec == Init /\ [][Next]_vars

(* The kernel runs every runnable thread, and every section ends.          *)
FairSpec == Spec /\ \A t \in Threads : WF_vars(Step(t)) /\ WF_vars(Unlock(t))

(* The application has a handler installed without SA_RESTART.             *)
SignalSpec ==
  Init /\ [][Next \/ \E t \in Threads : Interrupt(t) /\ UNCHANGED op]_vars

-----------------------------------------------------------------------------
TypeOK == FutexTypeOK /\ op \in [Threads -> {"down", "up"}]

(* Two threads are never between futex_down and futex_up of one futex:     *)
(* this is what makes every library call atomic (pthipth_yield.c:51).      *)
MutualExclusion ==
  \A t, u \in Threads : InSection(t) /\ InSection(u) /\ fx[t] = fx[u] => t = u

(* The lock is never leaked: count is 1 exactly when nobody owns it, so a  *)
(* count that a late store of -1 or a failed exchange left behind never    *)
(* locks everyone out.                                                     *)
CountMatchesOwner ==
  \A f \in Futexes : count[f] = 1 <=> \A t \in Threads : ~Owns(t, f)

(* Someone will make the sleepers of f move: an owner that must take the   *)
(* slow path of futex_up, a wake under way, or a woken thread that has not *)
(* slept again.                                                            *)
WakeComing(f) ==
  \/ count[f] = -1
  \/ \E u \in Threads :
       /\ fx[u] = f
       /\ \/ fpc[u] \in {"settle", "ustore", "uwake"}
          \/ woken[u] /\ fpc[u] \in {"load", "cas", "wait"}

(* No lost wakeup: a thread sleeps in FUTEX_WAIT only while a wake is due, *)
(* whatever the order of the exchange, the store of 1 and FUTEX_WAKE.      *)
NoLostWakeup == \A f \in Futexes : Sleepers(f) # {} => WakeComing(f)

(* Deadlock freedom of the lock: whoever waits, someone gets in.  (No      *)
(* thread is promised its own turn: a newcomer may overtake.)              *)
SomeoneEnters ==
  (\E t \in Threads : op[t] = "down" /\ ~Idle(t)) ~> (\E t \in Threads : InSection(t))

owner == [f \in Futexes |-> IF \E t \in Threads : Owns(t, f)
                            THEN CHOOSE t \in Threads : Owns(t, f)
                            ELSE NoOwner]

(* The instruction-level futex implements the atomic lock.                 *)
AL == INSTANCE AbstractLock
ImplementsLock == AL!Spec
=============================================================================
