-------------------------- MODULE FutexLock_proofs --------------------------
(***************************************************************************)
(* The futex is a correct lock for every set of threads and futexes.  The  *)
(* argument is the inductive invariant IInv: ownership is unique, count is *)
(* 1 exactly on a free futex, and a thread asleep has a wake coming.  What *)
(* the three need of the local variables is in LocalsOK.                   *)
(***************************************************************************)
EXTENDS FutexLock, TLAPS

UniqueOwner ==
  \A t, u \in Threads, f \in Futexes : Owns(t, f) /\ Owns(u, f) => t = u

(* The value compared by futex_up is never positive, a waiter compares     *)
(* with -1, and the kind of call agrees with the instruction.              *)
LocalsOK ==
  /\ \A f \in Futexes : count[f] <= 1
  /\ \A t \in Threads :
       /\ fpc[t] = "ucas" => val[t] \in {-1, 0}
       /\ fpc[t] = "cas" => val[t] \in {-1, 0, 1}
       /\ fpc[t] = "wait" => val[t] = -1
       /\ fpc[t] \in {"load", "cas", "wait", "asleep", "settle"} => op[t] = "down"
       /\ fpc[t] \in {"uload", "ucas", "ustore", "uwake"} => op[t] = "up"

IInv == TypeOK /\ LocalsOK /\ UniqueOwner /\ CountMatchesOwner /\ NoLostWakeup

-----------------------------------------------------------------------------
(* The initial states satisfy the inductive invariant: all counts are 1    *)
(* (futex_init) and nobody is inside a call.                               *)
LEMMA InitInv == Init => IInv
<1> SUFFICES ASSUME Init PROVE IInv
  OBVIOUS
<1> USE DEF Init
<1>1. TypeOK
  BY DEF TypeOK, FutexTypeOK, FutexPCs
<1>2. LocalsOK
  BY DEF LocalsOK
<1>3. \A t \in Threads, f \in Futexes : ~Owns(t, f)
  BY DEF Owns
<1>4. UniqueOwner /\ CountMatchesOwner
  BY <1>3 DEF UniqueOwner, CountMatchesOwner
<1>5. NoLostWakeup
  BY DEF NoLostWakeup, Sleepers
<1> QED BY <1>1, <1>2, <1>4, <1>5 DEF IInv

(* Every step of every thread preserves types and local variables.         *)
LEMMA LocalInv == IInv /\ [Next]_vars => TypeOK' /\ LocalsOK'
<1> SUFFICES ASSUME IInv, [Next]_vars PROVE TypeOK' /\ LocalsOK'
  OBVIOUS
<1> USE DEF IInv, TypeOK, FutexTypeOK, FutexPCs, LocalsOK
<1>1. CASE UNCHANGED vars
  BY <1>1 DEF vars, futexVars
<1>2. ASSUME NEW t \in Threads, NEW f \in Futexes, Lock(t, f)
      PROVE  TypeOK' /\ LocalsOK'
  BY <1>2 DEF Lock, DownStart, Idle
<1>3. ASSUME NEW t \in Threads, Unlock(t) PROVE TypeOK' /\ LocalsOK'
  BY <1>3 DEF Unlock, UpStart, Idle
<1>4. ASSUME NEW t \in Threads, SpuriousWake(t), UNCHANGED op
      PROVE  TypeOK' /\ LocalsOK'
  BY <1>4 DEF SpuriousWake
<1>5. ASSUME NEW t \in Threads, Step(t) PROVE TypeOK' /\ LocalsOK'
  <2> USE DEF Step
  <2>1. CASE DownLoad(t) BY <1>5, <2>1 DEF DownLoad
  <2>2. CASE DownCas(t) BY <1>5, <2>2 DEF DownCas
  <2>3. CASE DownWait(t) BY <1>5, <2>3 DEF DownWait
  <2>4. CASE DownSettle(t) BY <1>5, <2>4 DEF DownSettle
  <2>5. CASE UpLoad(t)
    <3>1. Owns(t, fx[t]) BY <2>5 DEF UpLoad, Owns
    <3>2. count[fx[t]] # 1 BY <3>1 DEF CountMatchesOwner
    <3> QED BY <1>5, <2>5, <3>2 DEF UpLoad
  <2>6. CASE UpCas(t) BY <1>5, <2>6 DEF UpCas
  <2>7. CASE UpStore(t) BY <1>5, <2>7 DEF UpStore
  <2>8. CASE UpWake(t)
    <3>1. CASE fpc' = [fpc EXCEPT ![t] = "idle"] /\ UNCHANGED woken
      BY <1>5, <2>8, <3>1 DEF UpWake
    <3>2. ASSUME NEW u \in Threads, fpc[u] = "asleep",
                 fpc' = [fpc EXCEPT ![t] = "idle", ![u] = "load"],
                 woken' = [woken EXCEPT ![u] = TRUE]
          PROVE  TypeOK' /\ LocalsOK'
      BY <1>5, <2>8, <3>2 DEF UpWake
    <3> QED BY <2>8, <3>1, <3>2 DEF UpWake, Sleepers
  <2> QED BY <1>5, <2>1, <2>2, <2>3, <2>4, <2>5, <2>6, <2>7, <2>8 DEF FutexStep
<1> QED BY <1>1, <1>2, <1>3, <1>4, <1>5 DEF Next

-----------------------------------------------------------------------------
(* What a step does to the ownership of the futexes: nothing, or the       *)
(* calling thread takes a free futex, or it frees the one it owns.         *)

Keeps ==
  /\ \A f \in Futexes : count'[f] = 1 <=> count[f] = 1
  /\ \A u \in Threads, f \in Futexes : Owns(u, f)' <=> Owns(u, f)

Takes(t, f) ==
  /\ count[f] = 1
  /\ \A g \in Futexes : count'[g] = 1 <=> count[g] = 1 /\ g # f
  /\ \A u \in Threads, g \in Futexes :
       Owns(u, g)' <=> Owns(u, g) \/ (u = t /\ g = f)

Frees(t, f) ==
  /\ Owns(t, f)
  /\ \A g \in Futexes : count'[g] = 1 <=> count[g] = 1 \/ g = f
  /\ \A u \in Threads, g \in Futexes : Owns(u, g)' <=> Owns(u, g) /\ u # t

Ownership == Keeps \/ \E t \in Threads, f \in Futexes : Takes(t, f) \/ Frees(t, f)

(* A step changes ownership at three places only: the exchange of 1 for 0  *)
(* in __futex_down, the exchange of 0 for 1 in futex_up and its store.     *)
LEMMA OwnershipStep == IInv /\ [Next]_vars => Ownership
<1> SUFFICES ASSUME IInv, [Next]_vars PROVE Ownership
  OBVIOUS
<1> USE DEF IInv, TypeOK, FutexTypeOK, FutexPCs, LocalsOK
<1>1. CASE UNCHANGED vars
  BY <1>1 DEF vars, futexVars, Ownership, Keeps, Owns
<1>2. ASSUME NEW t \in Threads, NEW f \in Futexes, Lock(t, f) PROVE Keeps
  BY <1>2 DEF Lock, DownStart, Idle, Keeps, Owns
<1>3. ASSUME NEW t \in Threads, Unlock(t) PROVE Keeps
  BY <1>3 DEF Unlock, UpStart, Idle, Keeps, Owns
<1>4. ASSUME NEW t \in Threads, SpuriousWake(t), UNCHANGED op PROVE Keeps
  BY <1>4 DEF SpuriousWake, Keeps, Owns
<1>5. ASSUME NEW t \in Threads, Step(t) PROVE Ownership
  <2> USE DEF Step
  <2> fx[t] \in Futexes
    OBVIOUS
  <2>1. CASE DownLoad(t)
    <3> Keeps BY <1>5, <2>1 DEF DownLoad, Keeps, Owns
    <3> QED BY DEF Ownership
  <2>2. CASE DownCas(t)
    <3>1. CASE val[t] = 1 /\ count[fx[t]] = 1
      <4> Takes(t, fx[t]) BY <1>5, <2>2, <3>1 DEF DownCas, Takes, Owns
      <4> QED BY DEF Ownership
    <3>2. CASE ~(val[t] = 1 /\ count[fx[t]] = 1)
      <4> Keeps BY <1>5, <2>2, <3>2 DEF DownCas, Keeps, Owns
      <4> QED BY DEF Ownership
    <3> QED BY <3>1, <3>2
  <2>3. CASE DownWait(t)
    <3> Keeps BY <1>5, <2>3 DEF DownWait, Keeps, Owns
    <3> QED BY DEF Ownership
  <2>4. CASE DownSettle(t)
    <3>1. Owns(t, fx[t]) BY <1>5, <2>4 DEF DownSettle, Owns
    <3>2. count[fx[t]] # 1 BY <3>1 DEF CountMatchesOwner
    <3> Keeps BY <1>5, <2>4, <3>2 DEF DownSettle, Keeps, Owns
    <3> QED BY DEF Ownership
  <2>5. CASE UpLoad(t)
    <3> Keeps BY <1>5, <2>5 DEF UpLoad, Keeps, Owns
    <3> QED BY DEF Ownership
  <2>6. CASE UpCas(t)
    <3>1. Owns(t, fx[t]) BY <1>5, <2>6 DEF UpCas, Owns
    <3>2. count[fx[t]] # 1 BY <3>1 DEF CountMatchesOwner
    <3>3. CASE val[t] = 0 /\ count[fx[t]] = 0
      <4> Frees(t, fx[t]) BY <1>5, <2>6, <3>1, <3>3 DEF UpCas, Frees, Owns
      <4> QED BY DEF Ownership
    <3>4. CASE ~(val[t] = 0 /\ count[fx[t]] = 0)
      <4> Keeps BY <1>5, <2>6, <3>2, <3>4 DEF UpCas, Keeps, Owns
      <4> QED BY DEF Ownership
    <3> QED BY <3>3, <3>4
  <2>7. CASE UpStore(t)
    <3>1. Owns(t, fx[t]) BY <1>5, <2>7 DEF UpStore, Owns
    <3> Frees(t, fx[t]) BY <1>5, <2>7, <3>1 DEF UpStore, Frees, Owns
    <3> QED BY DEF Ownership
  <2>8. CASE UpWake(t)
    <3> Keeps BY <1>5, <2>8 DEF UpWake, Sleepers, Keeps, Owns
    <3> QED BY DEF Ownership
  <2> QED BY <1>5, <2>1, <2>2, <2>3, <2>4, <2>5, <2>6, <2>7, <2>8 DEF FutexStep
<1> QED BY <1>1, <1>2, <1>3, <1>4, <1>5 DEF Next, Ownership

(* Ownership stays unique and agrees with the counts.                      *)
LEMMA OwnerInv == UniqueOwner /\ CountMatchesOwner /\ Ownership
                    => UniqueOwner' /\ CountMatchesOwner'
<1> SUFFICES ASSUME UniqueOwner, CountMatchesOwner, Ownership
             PROVE  UniqueOwner' /\ CountMatchesOwner'
  OBVIOUS
<1>1. CASE Keeps
  BY <1>1 DEF Keeps, UniqueOwner, CountMatchesOwner
<1>2. ASSUME NEW t \in Threads, NEW f \in Futexes, Takes(t, f)
      PROVE  UniqueOwner' /\ CountMatchesOwner'
  BY <1>2 DEF Takes, UniqueOwner, CountMatchesOwner
<1>3. ASSUME NEW t \in Threads, NEW f \in Futexes, Frees(t, f)
      PROVE  UniqueOwner' /\ CountMatchesOwner'
  <2>1. \A g \in Futexes : Owns(t, g) => g = f
    BY <1>3 DEF Frees, Owns
  <2> QED BY <1>3, <2>1 DEF Frees, UniqueOwner, CountMatchesOwner
<1> QED BY <1>1, <1>2, <1>3 DEF Ownership

-----------------------------------------------------------------------------
(* Whoever sleeps keeps having a wake coming: the owner's slow path, the   *)
(* store of 1, FUTEX_WAKE and the woken thread's own store of -1 hand the  *)
(* duty to wake from one to the next.                                      *)
LEMMA WakeInv == IInv /\ [Next]_vars => NoLostWakeup'
<1> SUFFICES ASSUME IInv, [Next]_vars PROVE NoLostWakeup'
  OBVIOUS
<1> USE DEF IInv, TypeOK, FutexTypeOK, FutexPCs, LocalsOK, NoLostWakeup,
            WakeComing, Sleepers
<1>1. CASE UNCHANGED vars
  BY <1>1 DEF vars, futexVars
<1>2. ASSUME NEW t \in Threads, NEW f \in Futexes, Lock(t, f) PROVE NoLostWakeup'
  BY <1>2 DEF Lock, DownStart, Idle
<1>3. ASSUME NEW t \in Threads, Unlock(t) PROVE NoLostWakeup'
  BY <1>3 DEF Unlock, UpStart, Idle
<1>4. ASSUME NEW t \in Threads, SpuriousWake(t), UNCHANGED op PROVE NoLostWakeup'
  BY <1>4 DEF SpuriousWake
<1>5. ASSUME NEW t \in Threads, Step(t) PROVE NoLostWakeup'
  <2> USE DEF Step
  <2>1. CASE DownLoad(t) BY <1>5, <2>1 DEF DownLoad
  <2>2. CASE DownCas(t) BY <1>5, <2>2 DEF DownCas
  <2>3. CASE DownWait(t) BY <1>5, <2>3 DEF DownWait
  <2>4. CASE DownSettle(t) BY <1>5, <2>4 DEF DownSettle
  <2>5. CASE UpLoad(t) BY <1>5, <2>5 DEF UpLoad
  <2>6. CASE UpCas(t) BY <1>5, <2>6 DEF UpCas
  <2>7. CASE UpStore(t) BY <1>5, <2>7 DEF UpStore
  <2>8. CASE UpWake(t) BY <1>5, <2>8 DEF UpWake
  <2> QED BY <1>5, <2>1, <2>2, <2>3, <2>4, <2>5, <2>6, <2>7, <2>8 DEF FutexStep
<1> QED BY <1>1, <1>2, <1>3, <1>4, <1>5 DEF Next

(* The inductive invariant holds in every state of every execution.        *)
THEOREM Invariance == Spec => []IInv
<1>1. IInv /\ [Next]_vars => IInv'
  BY LocalInv, OwnershipStep, OwnerInv, WakeInv DEF IInv
<1> QED BY InitInv, <1>1, PTL DEF Spec

(* Type correctness of the count and of the callers' locals.               *)
THEOREM TypeCorrect == Spec => []TypeOK
BY Invariance, PTL DEF IInv

(* global_futex admits one thread at a time into the library, whatever the *)
(* number of threads and however the exchanges interleave.                 *)
THEOREM Exclusion == Spec => []MutualExclusion
<1>1. IInv => MutualExclusion
  <2> SUFFICES ASSUME IInv, NEW t \in Threads, NEW u \in Threads,
                      InSection(t), InSection(u), fx[t] = fx[u]
               PROVE  t = u
    BY DEF MutualExclusion
  <2>1. fx[t] \in Futexes
    BY DEF IInv, TypeOK, FutexTypeOK
  <2>2. Owns(t, fx[t]) /\ Owns(u, fx[t])
    BY DEF InSection, Idle, Owns
  <2> QED BY <2>1, <2>2 DEF IInv, UniqueOwner
<1> QED BY Invariance, <1>1, PTL

(* A futex is never leaked: count is 1 exactly when no thread owns it.     *)
THEOREM NoLeak == Spec => []CountMatchesOwner
BY Invariance, PTL DEF IInv

(* No execution leaves a thread in FUTEX_WAIT with no wake coming.         *)
THEOREM WakeupsArrive == Spec => []NoLostWakeup
BY Invariance, PTL DEF IInv

-----------------------------------------------------------------------------
(* The owner computed by the refinement mapping is the unique owner.       *)
LEMMA OwnerIs ==
  ASSUME UniqueOwner, NEW f \in Futexes
  PROVE  /\ \A t \in Threads : Owns(t, f) => owner[f] = t
         /\ (\A t \in Threads : ~Owns(t, f)) => owner[f] = NoOwner
BY DEF UniqueOwner, owner

(* The instruction-level futex implements the atomic lock: every step is   *)
(* an Acquire, a Release or invisible.                                     *)
THEOREM Refinement == Spec => ImplementsLock
<1>1. Init => AL!Init
  <2> SUFFICES ASSUME Init PROVE AL!Init
    OBVIOUS
  <2>1. \A t \in Threads, f \in Futexes : ~Owns(t, f)
    BY DEF Init, Owns
  <2> QED BY <2>1 DEF AL!Init, owner
<1>2. IInv /\ IInv' /\ [Next]_vars => [AL!Next]_owner
  <2> SUFFICES ASSUME IInv, IInv', [Next]_vars PROVE AL!Next \/ owner' = owner
    BY DEF AL!Next
  <2> USE DEF IInv
  <2> DEFINE holder(f) == IF \E t \in Threads : Owns(t, f)
                          THEN CHOOSE t \in Threads : Owns(t, f) ELSE NoOwner
  <2>0. owner = [f \in Futexes |-> holder(f)] /\ owner' = [f \in Futexes |-> holder(f)']
    BY DEF owner
  <2>a. UniqueOwner /\ UniqueOwner'
    OBVIOUS
  <2>b. \A f \in Futexes : /\ \A t \in Threads : Owns(t, f) => owner[f] = t
                           /\ (\A t \in Threads : ~Owns(t, f)) => owner[f] = NoOwner
    BY <2>a, OwnerIs
  <2>c. \A f \in Futexes : /\ \A t \in Threads : Owns(t, f)' => owner'[f] = t
                           /\ (\A t \in Threads : ~Owns(t, f)') => owner'[f] = NoOwner
    BY <2>0, <2>a DEF UniqueOwner
  <2>1. CASE Keeps
    <3>1. \A f \in Futexes : owner'[f] = owner[f]
      BY <2>1, <2>b, <2>c DEF Keeps
    <3> QED BY <3>1, <2>0
  <2>2. ASSUME NEW t \in Threads, NEW f \in Futexes, Takes(t, f)
        PROVE  AL!Acquire(t, f)
    <3>1. \A u \in Threads : ~Owns(u, f)
      BY <2>2 DEF Takes, CountMatchesOwner
    <3>2. owner[f] = NoOwner
      BY <3>1, <2>b
    <3>3. \A g \in Futexes : owner'[g] = IF g = f THEN t ELSE owner[g]
      BY <2>2, <2>b, <2>c DEF Takes
    <3>4. owner' = [owner EXCEPT ![f] = t]
      BY <3>3, <2>0
    <3> QED BY <3>2, <3>4 DEF AL!Acquire
  <2>3. ASSUME NEW t \in Threads, NEW f \in Futexes, Frees(t, f)
        PROVE  AL!Release(t, f)
    <3>1. \A g \in Futexes : Owns(t, g) => g = f
      BY <2>3 DEF Frees, Owns
    <3>2. owner[f] = t
      BY <2>3, <2>b DEF Frees
    <3>3. \A u \in Threads : ~Owns(u, f)'
      BY <2>3, <2>a DEF Frees, UniqueOwner
    <3>4. \A g \in Futexes : owner'[g] = IF g = f THEN NoOwner ELSE owner[g]
      BY <2>3, <3>1, <3>3, <2>b, <2>c DEF Frees
    <3>5. owner' = [owner EXCEPT ![f] = NoOwner]
      BY <3>4, <2>0
    <3> QED BY <3>2, <3>5 DEF AL!Release
  <2> QED BY OwnershipStep, <2>1, <2>2, <2>3 DEF Ownership, AL!Next
<1> QED BY <1>1, <1>2, Invariance, PTL DEF Spec, ImplementsLock, AL!Spec
=============================================================================
