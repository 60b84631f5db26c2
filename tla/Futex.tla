------------------------------- MODULE Futex -------------------------------
(***************************************************************************)
(* The user-space semaphore of futex.h, futex_inline.h and futex.c.        *)
(*                                                                         *)
(* Every atomic instruction and every futex(2) call of futex_down and      *)
(* futex_up is a step of its own, so that calls of different kernel        *)
(* threads interleave as they do on the hardware.  The module has no       *)
(* specification: a client starts a call with DownStart or UpStart, lets   *)
(* FutexStep run, and goes on when the thread is idle again.  FutexLock    *)
(* uses it as a lock, Handoff as the lock and the parking places of the    *)
(* scheduler.  A local variable that is dead has its initial value.        *)
(***************************************************************************)
EXTENDS Integers

CONSTANTS Threads,   \* the kernel threads (clone) that share the futexes
          Futexes    \* the futex_t objects

VARIABLES count,     \* count[f]: futex_t.count of f
          fpc,       \* fpc[t]: the next instruction of t inside a call
          fx,        \* fx[t]: the futex of t's current or last call
          val,       \* val[t]: the local variable `value`
          woken      \* woken[t]: the local variable `woken`

futexVars == <<count, fpc, fx, val, woken>>

(* "load".."settle" belong to futex_down, "uload".."uwake" to futex_up.    *)
FutexPCs == {"idle", "load", "cas", "wait", "asleep", "settle",
             "uload", "ucas", "ustore", "uwake"}

Idle(t) == fpc[t] = "idle"

(* The threads in the kernel's wait queue of futex f.                      *)
Sleepers(f) == {t \in Threads : fpc[t] = "asleep" /\ fx[t] = f}

FutexTypeOK ==
  /\ count \in [Futexes -> {-1, 0, 1, 2}]
  /\ fpc \in [Threads -> FutexPCs]
  /\ fx \in [Threads -> Futexes]
  /\ val \in [Threads -> {-1, 0, 1, 2}]
  /\ woken \in [Threads -> BOOLEAN]

-----------------------------------------------------------------------------
(* futex_down: `while ((value = __futex_down(..)) != 0)` around a wait.    *)

DownStart(t, f) ==
  /\ Idle(t)
  /\ fpc' = [fpc EXCEPT ![t] = "load"]
  /\ fx' = [fx EXCEPT ![t] = f]
  /\ woken' = [woken EXCEPT ![t] = FALSE]
  /\ UNCHANGED <<count, val>>

DownLoad(t) ==
  /\ fpc[t] = "load"
  /\ val' = [val EXCEPT ![t] = count[fx[t]]]
  /\ fpc' = [fpc EXCEPT ![t] = "cas"]
  /\ UNCHANGED <<count, fx, woken>>

(* Mutants of DownCas: a negative value is decremented like any other; the *)
(* semaphore counts as taken whenever a non-negative value was exchanged.  *)
DownCasNegative(t) ==
  LET f == fx[t] IN
  /\ fpc[t] = "cas"
  /\ UNCHANGED <<fx, woken>>
  /\ \/ /\ count[f] = val[t]
        /\ count' = [count EXCEPT ![f] = val[t] - 1]
        /\ val' = [val EXCEPT ![t] = val[t] - 1]
        /\ fpc' = [fpc EXCEPT ![t] = IF val[t] # 1 THEN "wait" ELSE "idle"]
     \/ /\ count[f] # val[t]
        /\ val' = [val EXCEPT ![t] = count[f]]
        /\ UNCHANGED <<count, fpc>>

DownCasAnyValue(t) ==
  LET f == fx[t] IN
  /\ fpc[t] = "cas"
  /\ UNCHANGED <<fx, woken>>
  /\ \/ /\ val[t] < 0
        /\ fpc' = [fpc EXCEPT ![t] = "wait"]
        /\ UNCHANGED <<count, val>>
     \/ /\ val[t] >= 0
        /\ count[f] = val[t]
        /\ count' = [count EXCEPT ![f] = val[t] - 1]
        /\ val' = [val EXCEPT ![t] = val[t] - 1]
        /\ fpc' = [fpc EXCEPT ![t] = IF woken[t] THEN "settle" ELSE "idle"]
     \/ /\ val[t] >= 0
        /\ count[f] # val[t]
        /\ val' = [val EXCEPT ![t] = count[f]]
        /\ UNCHANGED <<count, fpc>>

(* One turn of the compare-exchange loop of __futex_down.  A negative      *)
(* value is returned at once; a successful exchange returns value - 1,     *)
(* which is 0 exactly when the semaphore was taken; a failed exchange      *)
(* reloads value.  (A spurious failure of the weak exchange changes        *)
(* nothing, so it is a stuttering step.)                                   *)
DownCas(t) ==
  LET f == fx[t] IN
  /\ fpc[t] = "cas"
  /\ UNCHANGED <<fx, woken>>
  /\ \/ /\ val[t] < 0
        /\ fpc' = [fpc EXCEPT ![t] = "wait"]
        /\ UNCHANGED <<count, val>>
     \/ /\ val[t] >= 0
        /\ count[f] = val[t]
        /\ count' = [count EXCEPT ![f] = val[t] - 1]
        /\ val' = [val EXCEPT ![t] = val[t] - 1]
        /\ fpc' = [fpc EXCEPT ![t] = IF val[t] # 1 THEN "wait"
                                     ELSE IF woken[t] THEN "settle" ELSE "idle"]
     \/ /\ val[t] >= 0
        /\ count[f] # val[t]
        /\ val' = [val EXCEPT ![t] = count[f]]
        /\ UNCHANGED <<count, fpc>>

(* FUTEX_WAIT: the kernel compares count with value and either queues the  *)
(* caller or fails with EWOULDBLOCK, after which the outer loop retries.   *)
DownWait(t) ==
  /\ fpc[t] = "wait"
  /\ fpc' = [fpc EXCEPT ![t] = IF count[fx[t]] = val[t] THEN "asleep" ELSE "load"]
  /\ UNCHANGED <<count, fx, val, woken>>

(* Mutant of DownSettle: the store of -1 is forgotten.                     *)
DownSettleNoStore(t) ==
  /\ fpc[t] = "settle"
  /\ fpc' = [fpc EXCEPT ![t] = "idle"]
  /\ UNCHANGED <<count, fx, val, woken>>

(* "If we were woken, other threads might still be sleeping, so set to -1" *)
DownSettle(t) ==
  /\ fpc[t] = "settle"
  /\ count' = [count EXCEPT ![fx[t]] = -1]
  /\ woken' = [woken EXCEPT ![t] = FALSE]
  /\ fpc' = [fpc EXCEPT ![t] = "idle"]
  /\ UNCHANGED <<fx, val>>

-----------------------------------------------------------------------------
(* futex_up: one strong compare-exchange, and the slow path unless it      *)
(* changed 0 to 1.                                                         *)

UpStart(t, f) ==
  /\ Idle(t)
  /\ fpc' = [fpc EXCEPT ![t] = "uload"]
  /\ fx' = [fx EXCEPT ![t] = f]
  /\ UNCHANGED <<count, val, woken>>

UpLoad(t) ==
  /\ fpc[t] = "uload"
  /\ val' = [val EXCEPT ![t] = count[fx[t]]]
  /\ fpc' = [fpc EXCEPT ![t] = "ucas"]
  /\ UNCHANGED <<count, fx, woken>>

(* Mutant of UpCas: a failed exchange of 0 counts as the fast path.        *)
UpCasIgnoresFailure(t) ==
  LET f == fx[t] IN
  /\ fpc[t] = "ucas"
  /\ UNCHANGED <<fx, val, woken>>
  /\ count' = IF count[f] = val[t] THEN [count EXCEPT ![f] = val[t] + 1] ELSE count
  /\ fpc' = [fpc EXCEPT ![t] = IF val[t] = 0 THEN "idle" ELSE "ustore"]

UpCas(t) ==
  LET f == fx[t] IN
  /\ fpc[t] = "ucas"
  /\ UNCHANGED <<fx, val, woken>>
  /\ \/ /\ count[f] = val[t]
        /\ count' = [count EXCEPT ![f] = val[t] + 1]
        /\ fpc' = [fpc EXCEPT ![t] = IF val[t] = 0 THEN "idle" ELSE "ustore"]
     \/ /\ count[f] # val[t]
        /\ fpc' = [fpc EXCEPT ![t] = "ustore"]
        /\ UNCHANGED count

UpStore(t) ==
  /\ fpc[t] = "ustore"
  /\ count' = [count EXCEPT ![fx[t]] = 1]
  /\ val' = [val EXCEPT ![t] = 0]
  /\ fpc' = [fpc EXCEPT ![t] = "uwake"]
  /\ UNCHANGED <<fx, woken>>

(* FUTEX_WAKE of one waiter; which one is the kernel's choice.             *)
UpWake(t) ==
  LET f == fx[t] IN
  /\ fpc[t] = "uwake"
  /\ UNCHANGED <<count, fx, val>>
  /\ \/ /\ Sleepers(f) = {}
        /\ fpc' = [fpc EXCEPT ![t] = "idle"]
        /\ UNCHANGED woken
     \/ \E u \in Sleepers(f) :
          /\ fpc' = [fpc EXCEPT ![t] = "idle", ![u] = "load"]
          /\ woken' = [woken EXCEPT ![u] = TRUE]

-----------------------------------------------------------------------------
(* futex(2) may return 0 without a matching wake.                          *)
SpuriousWake(t) ==
  /\ fpc[t] = "asleep"
  /\ fpc' = [fpc EXCEPT ![t] = "load"]
  /\ woken' = [woken EXCEPT ![t] = TRUE]
  /\ UNCHANGED <<count, fx, val>>

(* A signal whose handler was installed without SA_RESTART ends the wait   *)
(* with EINTR: __futex_down_slow and futex_down return -1.                 *)
Interrupt(t) ==
  /\ fpc[t] = "asleep"
  /\ fpc' = [fpc EXCEPT ![t] = "idle"]
  /\ UNCHANGED <<count, fx, val, woken>>

(* The instructions t executes by itself once a call is started.           *)
FutexStep(t) ==
  \/ DownLoad(t) \/ DownCas(t) \/ DownWait(t) \/ DownSettle(t)
  \/ UpLoad(t) \/ UpCas(t) \/ UpStore(t) \/ UpWake(t)
=============================================================================
