--------------------------- MODULE Handoff_proofs ---------------------------
(***************************************************************************)
(* The hand-over is right for every number of threads: one thread in the   *)
(* library, one in user code, cur_pthipth names it, no semaphore is used   *)
(* after its control block was freed, and no wake-up is banked.            *)
(***************************************************************************)
EXTENDS Handoff, TLAPS

(* Who has taken global_futex: from the exchange of 1 for 0 up to the      *)
(* exchange or store that sets it to 1 again.                              *)
Owns(t) ==
  \/ pc[t] = "locked" /\ fpc[t] \in {"idle", "settle"}
  \/ pc[t] \in {"upped", "drained"}
  \/ pc[t] = "unlock" /\ fpc[t] \in {"uload", "ucas", "ustore"}

GlobalOK ==
  /\ \A t, u \in Threads : Owns(t) /\ Owns(u) => t = u
  /\ count[Global] = 1 <=> \A t \in Threads : ~Owns(t)

Downs == {"idle", "load", "cas", "wait", "asleep", "settle"}
Ups   == {"idle", "uload", "ucas", "ustore", "uwake"}

(* Which semaphore a thread is at, and in which of its operations.         *)
PlacesOK ==
  \A t \in Threads :
    /\ pc[t] \in {"locked", "starting", "parked"} => fpc[t] \in Downs
    /\ pc[t] = "drained" => fpc[t] \in {"idle", "load", "cas"}
    /\ pc[t] \in {"upped", "unlock"} => fpc[t] \in Ups
    /\ pc[t] \in {"none", "start", "user", "watch", "gone"} => fpc[t] = "idle"
    /\ pc[t] \in {"locked", "unlock"} => fx[t] = Global
    /\ pc[t] \in {"starting", "parked", "drained"} => fx[t] = t
    /\ pc[t] = "upped" => fx[t] = cur

LocalsOK ==
  /\ \A f \in Futexes : count[f] <= 1
  /\ \A t \in Threads :
       /\ fpc[t] = "ucas" => val[t] \in {-1, 0}
       /\ fpc[t] = "cas" => val[t] \in {-1, 0, 1}
       /\ self[t] = t

(* t has the processor and is not on its way out.                          *)
Active(t) ==
  \/ pc[t] \in {"user", "locked", "watch"}
  \/ pc[t] = "unlock" /\ then[t] \in {"user", "watch", "yield"}

(* t has given up the processor, or has never had it.                      *)
Waits(t) ==
  \/ pc[t] \in {"none", "start", "starting", "parked"}
  \/ pc[t] = "unlock" /\ then[t] = "park"

(* t has taken the token of its own semaphore and is about to return.      *)
Taken(t) == pc[t] \in {"starting", "parked"} /\ fpc[t] \in {"idle", "settle"}

(* t has still to put the token into its successor's semaphore.            *)
Ahead(t) == pc[t] = "upped" /\ fpc[t] \in {"uload", "ucas", "ustore"}

(* There is one baton: the thread that has it, or is to have it, is cur.   *)
BatonOK ==
  /\ \A t \in Threads : Active(t) \/ Taken(t) => t = cur
  /\ \A t \in Threads : pc[t] \in {"upped", "drained"} => t # cur
  /\ \A t \in Threads : t # cur /\ Waits(t) => count[t] <= 0
  /\ \A t \in Threads : Ahead(t) => count[cur] <= 0 /\ Waits(cur) /\ ~Taken(cur)

(* Main's surplus token is still there when main takes it back.            *)
DrainOK ==
  \A t \in Threads : pc[t] = "drained" =>
    /\ fpc[t] = "idle" => count[t] <= 0
    /\ fpc[t] # "idle" => count[t] = 1 /\ ~woken[t]
    /\ fpc[t] = "cas" => val[t] = 1

Alive(t) ==
  /\ pc[t] \notin {"none", "gone"}
  /\ call[t].op = "exit" => pc[t] = "locked"

(* What is known of the argument of a call when global_futex is taken, and *)
(* that exit is the last call of a thread.                                 *)
CallsOK ==
  /\ \A t \in Threads :
       /\ pc[t] \in {"none", "user"} => call[t].op # "exit"
       /\ pc[t] = "upped" => call[t].op \in {"yield", "exit"}
       /\ pc[t] = "unlock" /\ then[t] = "gone" => call[t].op = "exit"
       /\ pc[t] = "unlock" /\ then[t] = "yield" => call[t].op = "yield"
       /\ pc[t] = "watch" \/ (pc[t] = "unlock" /\ then[t] = "watch") =>
            call[t].op \in {"join", "detach"}
       /\ pc[t] = "locked" /\ call[t].op \in {"wake", "create"} => Alive(call[t].arg)
       /\ pc[t] = "locked" /\ call[t].op = "free" => pc[call[t].arg] = "gone"
  /\ \A t \in ready \cup {cur} : Alive(t)
  /\ \A t \in freed : pc[t] = "gone"

IInv == TypeOK /\ GlobalOK /\ PlacesOK /\ LocalsOK /\ BatonOK /\ DrainOK /\ CallsOK

-----------------------------------------------------------------------------
(* The places of a thread in the library.                                 *)
Pcs == {"none", "start", "starting", "user", "locked", "upped", "drained",
        "unlock", "watch", "parked", "gone"}

(* To begin an operation of a semaphore is well typed.                     *)
LEMMA StartTyped ==
  ASSUME NEW t \in Threads, NEW f \in Futexes, FutexTypeOK, DownStart(t, f) \/ UpStart(t, f)
  PROVE  FutexTypeOK'
BY DEF FutexTypeOK, FutexPCs, DownStart, UpStart

(* The dispatcher reaps threads that are gone.                             *)
LEMMA ReapedGone ==
  ASSUME TypeOK, Reaped
  PROVE  freed' \in SUBSET Threads /\ \A u \in freed' : u \in freed \/ pc[u] = "gone"
BY DEF Reaped, TypeOK

(* Types.                                                                  *)
LEMMA TypesInv == IInv /\ [Next]_vars => TypeOK'
<1> SUFFICES ASSUME IInv, [Next]_vars PROVE TypeOK'
  OBVIOUS
<1> USE HandoffAssumption
        DEF IInv, TypeOK, FutexTypeOK, FutexPCs, LocalsOK
<1>1. CASE UNCHANGED vars
  BY <1>1 DEF vars, callVars, futexVars
<1>2. ASSUME NEW t \in Threads, NEW op \in Ops, NEW u \in Threads, Begin(t, op, u)
      PROVE  TypeOK'
  BY <1>2 DEF Begin, Admissible, DownStart, Idle, At
<1>3. ASSUME NEW t \in Threads, Change(t) PROVE TypeOK'
  BY <1>3 DEF Change, Unlock, UpStart, Idle, At, Goto
<1>4. ASSUME NEW t \in Threads, Switch(t) PROVE TypeOK'
  <2>1. freed' \in SUBSET Threads
    BY <1>4, ReapedGone DEF Switch
  <2>2. PICK next \in ready' :
          /\ cur' = next
          /\ IF next = cur THEN Unlock(t, "user")
                           ELSE UpStart(t, next) /\ Goto(t, "upped") /\ UNCHANGED then
    BY <1>4 DEF Switch
  <2>3. ready' \in SUBSET Threads /\ next \in Threads
    BY <1>4 DEF Switch
  <2>4. FutexTypeOK'
    BY <2>2, <2>3, StartTyped DEF Unlock
  <2>5. pc' \in [Threads -> Pcs] /\ then' \in [Threads -> {"user", "gone", "watch", "park", "yield"}]
    BY <2>2 DEF Unlock, Goto, Pcs
  <2>6. UNCHANGED call /\ self' = [self EXCEPT ![t] = cur]
    BY <1>4 DEF Switch
  <2> QED BY <2>1, <2>2, <2>3, <2>4, <2>5, <2>6 DEF Pcs
<1>5. ASSUME NEW t \in Threads, Leave(t) PROVE TypeOK'
  <2>1. self[t] = t BY DEF LocalsOK
  <2>2. FutexTypeOK' BY <1>5, <2>1, StartTyped DEF Leave, Unlock
  <2>3. pc' \in [Threads -> Pcs] /\ then' \in [Threads -> {"user", "gone", "watch", "park", "yield"}]
    BY <1>5 DEF Leave, Unlock, Goto, Pcs
  <2> QED BY <1>5, <2>2, <2>3 DEF Leave, callVars, Pcs
<1>6. ASSUME NEW t \in Threads, Drained(t) PROVE TypeOK'
  BY <1>6 DEF Drained, Unlock, UpStart, Idle, At, Goto, callVars
<1>7. ASSUME NEW t \in Threads, Released(t) PROVE TypeOK'
  <2>1. self[t] = t BY DEF LocalsOK
  <2>2. FutexTypeOK'
    <3>1. CASE UNCHANGED futexVars BY <3>1 DEF futexVars
    <3>2. CASE DownStart(t, t) \/ DownStart(t, Global) BY <3>2, StartTyped
    <3> QED BY <1>7, <2>1, <3>1, <3>2 DEF Released
  <2>3. pc' \in [Threads -> Pcs] /\ then' \in [Threads -> {"user", "gone", "watch", "park", "yield"}]
    BY <1>7 DEF Released, Goto, Pcs
  <2> QED BY <1>7, <2>2, <2>3 DEF Released, callVars, Pcs
<1>8. ASSUME NEW t \in Threads, Resume(t) PROVE TypeOK'
  BY <1>8 DEF Resume, Idle, At, Goto, callVars, futexVars
<1>9. ASSUME NEW t \in Threads, Start(t) PROVE TypeOK'
  BY <1>9 DEF Start, DownStart, Idle, At, Goto, callVars
<1>10. ASSUME NEW t \in Threads, Started(t) PROVE TypeOK'
  BY <1>10 DEF Started, Idle, At, Goto, callVars, futexVars
<1>11. ASSUME NEW t \in Threads, SpuriousWake(t), UNCHANGED <<pc, then, callVars>>
      PROVE  TypeOK'
  BY <1>11 DEF SpuriousWake, callVars
<1>12. ASSUME NEW t \in Threads, DownLoad(t), UNCHANGED <<pc, then, callVars>>
      PROVE  TypeOK'
  BY <1>12 DEF DownLoad, callVars
<1>13. ASSUME NEW t \in Threads, DownCas(t), UNCHANGED <<pc, then, callVars>>
      PROVE  TypeOK'
  BY <1>13 DEF DownCas, callVars
<1>14. ASSUME NEW t \in Threads, DownWait(t), UNCHANGED <<pc, then, callVars>>
      PROVE  TypeOK'
  BY <1>14 DEF DownWait, callVars
<1>15. ASSUME NEW t \in Threads, DownSettle(t), UNCHANGED <<pc, then, callVars>>
      PROVE  TypeOK'
  BY <1>15 DEF DownSettle, callVars
<1>16. ASSUME NEW t \in Threads, UpLoad(t), UNCHANGED <<pc, then, callVars>>
      PROVE  TypeOK'
  BY <1>16 DEF UpLoad, callVars
<1>17. ASSUME NEW t \in Threads, UpCas(t), UNCHANGED <<pc, then, callVars>>
      PROVE  TypeOK'
  BY <1>17 DEF UpCas, callVars
<1>18. ASSUME NEW t \in Threads, UpStore(t), UNCHANGED <<pc, then, callVars>>
      PROVE  TypeOK'
  BY <1>18 DEF UpStore, callVars
<1>19. ASSUME NEW t \in Threads, UpWake(t), UNCHANGED <<pc, then, callVars>>
      PROVE  TypeOK'
  <2>1. CASE Sleepers(fx[t]) = {}
    BY <1>19, <2>1 DEF UpWake, callVars, Sleepers
  <2>2. ASSUME NEW u \in Threads, fpc[u] = "asleep",
               fpc' = [fpc EXCEPT ![t] = "idle", ![u] = "load"],
               woken' = [woken EXCEPT ![u] = TRUE]
        PROVE  TypeOK'
    BY <1>19, <2>2 DEF UpWake, callVars
  <2> QED BY <1>19, <2>1, <2>2 DEF UpWake, Sleepers
<1>20. ASSUME NEW t \in Threads, SeeDefunct(t) PROVE TypeOK'
  BY <1>20 DEF SeeDefunct, Unlock, UpStart, Idle, At, Goto
<1>21. ASSUME NEW t \in Threads, Watch(t) PROVE TypeOK'
  <2>1. CASE call[t].op = "detach"
    BY <1>21, <2>1 DEF Watch, Idle, At, Goto, futexVars
  <2>2. CASE call[t].op # "detach"
    <3>1. /\ FutexTypeOK' /\ pc' = [pc EXCEPT ![t] = "locked"]
          /\ call' = [call EXCEPT ![t] = [op |-> "free", arg |-> call[t].arg]]
          /\ UNCHANGED <<then, self, ready, freed, cur>>
      BY <1>21, <2>2, StartTyped DEF Watch, Goto
    <3>2. call' \in [Threads -> [op : Ops \cup {"free"}, arg : Threads]]
      BY <3>1
    <3> HIDE DEF FutexTypeOK
    <3> QED BY <3>1, <3>2
  <2> QED BY <2>1, <2>2
<1> QED
  BY <1>1, <1>2, <1>3, <1>4, <1>5, <1>6, <1>7, <1>8, <1>9, <1>10, <1>11,
  <1>12, <1>13, <1>14, <1>15, <1>16, <1>17, <1>18, <1>19, <1>20, <1>21 DEF Next, Library,
  FutexStep

(* A thread is in the operation and at the semaphore that belong to its    *)
(* place in the library.                                                   *)
LEMMA PlacesInv == IInv /\ [Next]_vars => PlacesOK'
<1> SUFFICES ASSUME IInv, [Next]_vars PROVE PlacesOK'
  OBVIOUS
<1> USE HandoffAssumption
        DEF IInv, TypeOK, FutexTypeOK, FutexPCs, PlacesOK, LocalsOK,
        GlobalOK, Owns, BatonOK, Taken, DrainOK, Downs, Ups
<1>1. CASE UNCHANGED vars
  BY <1>1 DEF vars, callVars, futexVars
<1>2. ASSUME NEW t \in Threads, NEW op \in Ops, NEW u \in Threads, Begin(t, op, u)
      PROVE  PlacesOK'
  BY <1>2 DEF Begin, Admissible, DownStart, Idle, At
<1>3. ASSUME NEW t \in Threads, Change(t) PROVE PlacesOK'
  BY <1>3 DEF Change, Unlock, UpStart, Idle, At, Goto
<1>4. ASSUME NEW t \in Threads, Switch(t) PROVE PlacesOK'
  BY <1>4 DEF Switch, Unlock, UpStart, Idle, At, Goto
<1>5. ASSUME NEW t \in Threads, Leave(t) PROVE PlacesOK'
  BY <1>5 DEF Leave, DownStart, Unlock, UpStart, Idle, At, Goto, callVars
<1>6. ASSUME NEW t \in Threads, Drained(t) PROVE PlacesOK'
  BY <1>6 DEF Drained, Unlock, UpStart, Idle, At, Goto, callVars
<1>7. ASSUME NEW t \in Threads, Released(t) PROVE PlacesOK'
  BY <1>7 DEF Released, DownStart, Idle, At, Goto, callVars, futexVars
<1>8. ASSUME NEW t \in Threads, Resume(t) PROVE PlacesOK'
  BY <1>8 DEF Resume, Idle, At, Goto, callVars, futexVars
<1>9. ASSUME NEW t \in Threads, Start(t) PROVE PlacesOK'
  BY <1>9 DEF Start, DownStart, Idle, At, Goto, callVars
<1>10. ASSUME NEW t \in Threads, Started(t) PROVE PlacesOK'
  BY <1>10 DEF Started, Idle, At, Goto, callVars, futexVars
<1>11. ASSUME NEW t \in Threads, SpuriousWake(t), UNCHANGED <<pc, then, callVars>>
      PROVE  PlacesOK'
  BY <1>11 DEF SpuriousWake, callVars
<1>12. ASSUME NEW t \in Threads, DownLoad(t), UNCHANGED <<pc, then, callVars>>
      PROVE  PlacesOK'
  BY <1>12 DEF DownLoad, callVars
<1>13. ASSUME NEW t \in Threads, DownCas(t), UNCHANGED <<pc, then, callVars>>
      PROVE  PlacesOK'
  BY <1>13 DEF DownCas, callVars
<1>14. ASSUME NEW t \in Threads, DownWait(t), UNCHANGED <<pc, then, callVars>>
      PROVE  PlacesOK'
  BY <1>14 DEF DownWait, callVars
<1>15. ASSUME NEW t \in Threads, DownSettle(t), UNCHANGED <<pc, then, callVars>>
      PROVE  PlacesOK'
  BY <1>15 DEF DownSettle, callVars
<1>16. ASSUME NEW t \in Threads, UpLoad(t), UNCHANGED <<pc, then, callVars>>
      PROVE  PlacesOK'
  BY <1>16 DEF UpLoad, callVars
<1>17. ASSUME NEW t \in Threads, UpCas(t), UNCHANGED <<pc, then, callVars>>
      PROVE  PlacesOK'
  BY <1>17 DEF UpCas, callVars
<1>18. ASSUME NEW t \in Threads, UpStore(t), UNCHANGED <<pc, then, callVars>>
      PROVE  PlacesOK'
  BY <1>18 DEF UpStore, callVars
<1>19. ASSUME NEW t \in Threads, UpWake(t), UNCHANGED <<pc, then, callVars>>
      PROVE  PlacesOK'
  BY <1>19 DEF UpWake, callVars, Sleepers
<1>20. ASSUME NEW t \in Threads, SeeDefunct(t) PROVE PlacesOK'
  BY <1>20 DEF SeeDefunct, Unlock, UpStart, Idle, At, Goto
<1>21. ASSUME NEW t \in Threads, Watch(t) PROVE PlacesOK'
  <2>1. CASE call[t].op = "detach"
    BY <1>21, <2>1 DEF Watch, Idle, At, Goto, futexVars
  <2>2. CASE call[t].op # "detach"
    BY <1>21, <2>2 DEF Watch, DownStart, Idle, At, Goto
  <2> QED BY <2>1, <2>2
<1> QED
  BY <1>1, <1>2, <1>3, <1>4, <1>5, <1>6, <1>7, <1>8, <1>9, <1>10, <1>11,
  <1>12, <1>13, <1>14, <1>15, <1>16, <1>17, <1>18, <1>19, <1>20, <1>21 DEF Next, Library,
  FutexStep

(* No semaphore ever counts more than one.                                 *)
LEMMA LocalsInv == IInv /\ [Next]_vars => LocalsOK'
<1> SUFFICES ASSUME IInv, [Next]_vars PROVE LocalsOK'
  OBVIOUS
<1> USE HandoffAssumption
        DEF IInv, TypeOK, FutexTypeOK, FutexPCs, LocalsOK
<1>1. CASE UNCHANGED vars
  BY <1>1 DEF vars, callVars, futexVars
<1>2. ASSUME NEW t \in Threads, NEW op \in Ops, NEW u \in Threads, Begin(t, op, u)
      PROVE  LocalsOK'
  BY <1>2 DEF Begin, Admissible, DownStart, Idle, At
<1>3. ASSUME NEW t \in Threads, Change(t) PROVE LocalsOK'
  BY <1>3 DEF Change, Unlock, UpStart, Idle, At, Goto, BatonOK, Active
<1>4. ASSUME NEW t \in Threads, Switch(t) PROVE LocalsOK'
  BY <1>4 DEF Switch, Unlock, UpStart, Idle, At, Goto, BatonOK, Active
<1>5. ASSUME NEW t \in Threads, Leave(t) PROVE LocalsOK'
  BY <1>5 DEF Leave, DownStart, Unlock, UpStart, Idle, At, Goto, callVars
<1>6. ASSUME NEW t \in Threads, Drained(t) PROVE LocalsOK'
  BY <1>6 DEF Drained, Unlock, UpStart, Idle, At, Goto, callVars
<1>7. ASSUME NEW t \in Threads, Released(t) PROVE LocalsOK'
  BY <1>7 DEF Released, DownStart, Idle, At, Goto, callVars, futexVars
<1>8. ASSUME NEW t \in Threads, Resume(t) PROVE LocalsOK'
  BY <1>8 DEF Resume, Idle, At, Goto, callVars, futexVars
<1>9. ASSUME NEW t \in Threads, Start(t) PROVE LocalsOK'
  BY <1>9 DEF Start, DownStart, Idle, At, Goto, callVars
<1>10. ASSUME NEW t \in Threads, Started(t) PROVE LocalsOK'
  BY <1>10 DEF Started, Idle, At, Goto, callVars, futexVars
<1>11. ASSUME NEW t \in Threads, SpuriousWake(t), UNCHANGED <<pc, then, callVars>>
      PROVE  LocalsOK'
  BY <1>11 DEF SpuriousWake, callVars
<1>12. ASSUME NEW t \in Threads, DownLoad(t), UNCHANGED <<pc, then, callVars>>
      PROVE  LocalsOK'
  BY <1>12 DEF DownLoad, callVars
<1>13. ASSUME NEW t \in Threads, DownCas(t), UNCHANGED <<pc, then, callVars>>
      PROVE  LocalsOK'
  <2>1. CASE val[t] < 0 BY <1>13, <2>1 DEF DownCas, callVars
  <2>2. CASE val[t] >= 0 /\ count[fx[t]] = val[t]
    <3>1. /\ count' = [count EXCEPT ![fx[t]] = val[t] - 1] /\ val[t] \in Int /\ val[t] <= 1
          /\ UNCHANGED self
      BY <1>13, <2>2 DEF DownCas, callVars
    <3>2. \A f \in Futexes : count'[f] <= 1
      BY <3>1
    <3>3. /\ fpc' = [fpc EXCEPT ![t] = fpc'[t]] /\ fpc'[t] \in {"wait", "settle", "idle"}
          /\ val' = [val EXCEPT ![t] = val[t] - 1]
      BY <1>13, <2>2 DEF DownCas
    <3> QED BY <3>1, <3>2, <3>3
  <2>3. CASE val[t] >= 0 /\ count[fx[t]] # val[t] BY <1>13, <2>3 DEF DownCas, callVars
  <2> QED BY <1>13, <2>1, <2>2, <2>3 DEF DownCas
<1>14. ASSUME NEW t \in Threads, DownWait(t), UNCHANGED <<pc, then, callVars>>
      PROVE  LocalsOK'
  BY <1>14 DEF DownWait, callVars
<1>15. ASSUME NEW t \in Threads, DownSettle(t), UNCHANGED <<pc, then, callVars>>
      PROVE  LocalsOK'
  BY <1>15 DEF DownSettle, callVars
<1>16. ASSUME NEW t \in Threads, UpLoad(t), UNCHANGED <<pc, then, callVars>>
      PROVE  LocalsOK'
  <2>1. pc[t] \in {"upped", "unlock"}
    BY <1>16 DEF UpLoad, PlacesOK, Downs
  <2>2. count[fx[t]] \in {-1, 0}
    BY <1>16, <2>1 DEF UpLoad, PlacesOK, GlobalOK, Owns, BatonOK, Ahead
  <2> QED BY <1>16, <2>2 DEF UpLoad, callVars
<1>17. ASSUME NEW t \in Threads, UpCas(t), UNCHANGED <<pc, then, callVars>>
      PROVE  LocalsOK'
  BY <1>17 DEF UpCas, callVars
<1>18. ASSUME NEW t \in Threads, UpStore(t), UNCHANGED <<pc, then, callVars>>
      PROVE  LocalsOK'
  BY <1>18 DEF UpStore, callVars
<1>19. ASSUME NEW t \in Threads, UpWake(t), UNCHANGED <<pc, then, callVars>>
      PROVE  LocalsOK'
  BY <1>19 DEF UpWake, callVars, Sleepers
<1>20. ASSUME NEW t \in Threads, SeeDefunct(t) PROVE LocalsOK'
  BY <1>20 DEF SeeDefunct, Unlock, UpStart, Idle, At, Goto, BatonOK, Active
<1>21. ASSUME NEW t \in Threads, Watch(t) PROVE LocalsOK'
  <2>1. CASE call[t].op = "detach"
    BY <1>21, <2>1 DEF Watch, Idle, At, Goto, futexVars, BatonOK, Active
  <2>2. CASE call[t].op # "detach"
    BY <1>21, <2>2 DEF Watch, DownStart, Idle, At, Goto, BatonOK, Active
  <2> QED BY <2>1, <2>2
<1> QED
  BY <1>1, <1>2, <1>3, <1>4, <1>5, <1>6, <1>7, <1>8, <1>9, <1>10, <1>11,
  <1>12, <1>13, <1>14, <1>15, <1>16, <1>17, <1>18, <1>19, <1>20, <1>21 DEF Next, Library,
  FutexStep

(* global_futex has one owner and is up exactly if it has none.            *)
LEMMA GlobalInv == IInv /\ [Next]_vars => GlobalOK'
<1> SUFFICES ASSUME IInv, [Next]_vars PROVE GlobalOK'
  OBVIOUS
<1> USE HandoffAssumption
        DEF IInv, TypeOK, FutexTypeOK, FutexPCs, PlacesOK, GlobalOK, Owns,
        LocalsOK, Downs, Ups
<1>1. CASE UNCHANGED vars
  BY <1>1 DEF vars, callVars, futexVars
<1>2. ASSUME NEW t \in Threads, NEW op \in Ops, NEW u \in Threads, Begin(t, op, u)
      PROVE  GlobalOK'
  BY <1>2 DEF Begin, Admissible, DownStart, Idle, At
<1>3. ASSUME NEW t \in Threads, Change(t) PROVE GlobalOK'
  BY <1>3 DEF Change, Unlock, UpStart, Idle, At, Goto
<1>4. ASSUME NEW t \in Threads, Switch(t) PROVE GlobalOK'
  BY <1>4 DEF Switch, Unlock, UpStart, Idle, At, Goto
<1>5. ASSUME NEW t \in Threads, Leave(t) PROVE GlobalOK'
  BY <1>5 DEF Leave, DownStart, Unlock, UpStart, Idle, At, Goto, callVars
<1>6. ASSUME NEW t \in Threads, Drained(t) PROVE GlobalOK'
  BY <1>6 DEF Drained, Unlock, UpStart, Idle, At, Goto, callVars
<1>7. ASSUME NEW t \in Threads, Released(t) PROVE GlobalOK'
  BY SMTT(20), <1>7 DEF Released, DownStart, Idle, At, Goto, callVars, futexVars
<1>8. ASSUME NEW t \in Threads, Resume(t) PROVE GlobalOK'
  BY <1>8 DEF Resume, Idle, At, Goto, callVars, futexVars
<1>9. ASSUME NEW t \in Threads, Start(t) PROVE GlobalOK'
  BY <1>9 DEF Start, DownStart, Idle, At, Goto, callVars
<1>10. ASSUME NEW t \in Threads, Started(t) PROVE GlobalOK'
  BY <1>10 DEF Started, Idle, At, Goto, callVars, futexVars
<1>11. ASSUME NEW t \in Threads, SpuriousWake(t), UNCHANGED <<pc, then, callVars>>
      PROVE  GlobalOK'
  BY <1>11 DEF SpuriousWake, callVars
<1>12. ASSUME NEW t \in Threads, DownLoad(t), UNCHANGED <<pc, then, callVars>>
      PROVE  GlobalOK'
  BY <1>12 DEF DownLoad, callVars
<1>13. ASSUME NEW t \in Threads, DownCas(t), UNCHANGED <<pc, then, callVars>>
      PROVE  GlobalOK'
  BY <1>13 DEF DownCas, callVars
<1>14. ASSUME NEW t \in Threads, DownWait(t), UNCHANGED <<pc, then, callVars>>
      PROVE  GlobalOK'
  BY <1>14 DEF DownWait, callVars
<1>15. ASSUME NEW t \in Threads, DownSettle(t), UNCHANGED <<pc, then, callVars>>
      PROVE  GlobalOK'
  BY <1>15 DEF DownSettle, callVars
<1>16. ASSUME NEW t \in Threads, UpLoad(t), UNCHANGED <<pc, then, callVars>>
      PROVE  GlobalOK'
  BY <1>16 DEF UpLoad, callVars
<1>17. ASSUME NEW t \in Threads, UpCas(t), UNCHANGED <<pc, then, callVars>>
      PROVE  GlobalOK'
  <2>1. Owns(t) BY <1>17 DEF UpCas
  <2>2. count[Global] # 1 /\ \A u \in Threads : Owns(u) => u = t BY <2>1
  <2>3. CASE fx[t] = Global /\ count[Global] = 0 /\ val[t] = 0
    <3>1. pc[t] = "unlock" /\ count'[Global] = 1 /\ fpc' = [fpc EXCEPT ![t] = "idle"]
      <4>1. pc[t] \notin {"upped"} /\ fpc[t] = "ucas"
        BY <1>17, <2>3 DEF UpCas
      <4>2. pc[t] = "unlock"
        BY <2>1, <4>1
      <4>3. count' = [count EXCEPT ![Global] = 1] /\ fpc' = [fpc EXCEPT ![t] = "idle"]
        BY <1>17, <2>3 DEF UpCas
      <4> QED BY <4>2, <4>3
    <3>2. \A u \in Threads : ~Owns(u)' BY <1>17, <2>2, <3>1 DEF callVars
    <3> QED BY <3>1, <3>2
  <2>4. CASE ~(fx[t] = Global /\ count[Global] = 0 /\ val[t] = 0)
    <3>1. count'[Global] # 1 BY <1>17, <2>2, <2>4 DEF UpCas
    <3>2. \A u \in Threads : Owns(u)' <=> Owns(u) BY <1>17, <2>1, <2>4 DEF UpCas, callVars
    <3> QED BY <2>1, <2>2, <3>1, <3>2
  <2> QED BY <2>3, <2>4
<1>18. ASSUME NEW t \in Threads, UpStore(t), UNCHANGED <<pc, then, callVars>>
      PROVE  GlobalOK'
  BY <1>18 DEF UpStore, callVars
<1>19. ASSUME NEW t \in Threads, UpWake(t), UNCHANGED <<pc, then, callVars>>
      PROVE  GlobalOK'
  BY <1>19 DEF UpWake, callVars, Sleepers
<1>20. ASSUME NEW t \in Threads, SeeDefunct(t) PROVE GlobalOK'
  BY <1>20 DEF SeeDefunct, Unlock, UpStart, Idle, At, Goto
<1>21. ASSUME NEW t \in Threads, Watch(t) PROVE GlobalOK'
  <2>1. CASE call[t].op = "detach"
    BY <1>21, <2>1 DEF Watch, Idle, At, Goto, futexVars
  <2>2. CASE call[t].op # "detach"
    <3>1. /\ pc' = [pc EXCEPT ![t] = "locked"] /\ fpc' = [fpc EXCEPT ![t] = "load"]
          /\ UNCHANGED <<count, then>> /\ pc[t] = "watch"
      BY <1>21, <2>2 DEF Watch, DownStart, At, Goto
    <3>2. \A u \in Threads : Owns(u)' <=> Owns(u)
      BY <3>1
    <3> QED BY <3>1, <3>2
  <2> QED BY <2>1, <2>2
<1> QED
  BY <1>1, <1>2, <1>3, <1>4, <1>5, <1>6, <1>7, <1>8, <1>9, <1>10, <1>11,
  <1>12, <1>13, <1>14, <1>15, <1>16, <1>17, <1>18, <1>19, <1>20, <1>21 DEF Next, Library,
  FutexStep

(* The surplus token of main stays until main takes it.                    *)
LEMMA DrainInv == IInv /\ [Next]_vars => DrainOK'
<1> SUFFICES ASSUME IInv, [Next]_vars PROVE DrainOK'
  OBVIOUS
<1> USE HandoffAssumption
        DEF IInv, TypeOK, FutexTypeOK, FutexPCs, PlacesOK, LocalsOK,
        GlobalOK, Owns, DrainOK, BatonOK, Downs, Ups
<1>1. CASE UNCHANGED vars
  BY <1>1 DEF vars, callVars, futexVars
<1>2. ASSUME NEW t \in Threads, NEW op \in Ops, NEW u \in Threads, Begin(t, op, u)
      PROVE  DrainOK'
  BY <1>2 DEF Begin, Admissible, DownStart, Idle, At
<1>3. ASSUME NEW t \in Threads, Change(t) PROVE DrainOK'
  BY <1>3 DEF Change, Unlock, UpStart, Idle, At, Goto
<1>4. ASSUME NEW t \in Threads, Switch(t) PROVE DrainOK'
  BY <1>4 DEF Switch, Unlock, UpStart, Idle, At, Goto
<1>5. ASSUME NEW t \in Threads, Leave(t) PROVE DrainOK'
  <2>1. self[t] = t /\ t # cur
    BY <1>5 DEF LocalsOK, BatonOK, Leave, At
  <2>2. CASE call[t].op = "yield" /\ count[t] > 0
    BY <1>5, <2>1, <2>2 DEF Leave, DownStart, Unlock, UpStart, Idle, At, Goto, callVars
  <2>3. CASE ~(call[t].op = "yield" /\ count[t] > 0)
    BY <1>5, <2>1, <2>3 DEF Leave, DownStart, Unlock, UpStart, Idle, At, Goto, callVars
  <2> QED BY <2>2, <2>3
<1>6. ASSUME NEW t \in Threads, Drained(t) PROVE DrainOK'
  BY <1>6 DEF Drained, Unlock, UpStart, Idle, At, Goto, callVars
<1>7. ASSUME NEW t \in Threads, Released(t) PROVE DrainOK'
  BY <1>7 DEF Released, DownStart, Idle, At, Goto, callVars, futexVars
<1>8. ASSUME NEW t \in Threads, Resume(t) PROVE DrainOK'
  BY <1>8 DEF Resume, Idle, At, Goto, callVars, futexVars
<1>9. ASSUME NEW t \in Threads, Start(t) PROVE DrainOK'
  BY <1>9 DEF Start, DownStart, Idle, At, Goto, callVars
<1>10. ASSUME NEW t \in Threads, Started(t) PROVE DrainOK'
  BY <1>10 DEF Started, Idle, At, Goto, callVars, futexVars
<1>11. ASSUME NEW t \in Threads, SpuriousWake(t), UNCHANGED <<pc, then, callVars>>
      PROVE  DrainOK'
  BY <1>11 DEF SpuriousWake, callVars
<1>12. ASSUME NEW t \in Threads, DownLoad(t), UNCHANGED <<pc, then, callVars>>
      PROVE  DrainOK'
  BY <1>12 DEF DownLoad, callVars
<1>13. ASSUME NEW t \in Threads, DownCas(t), UNCHANGED <<pc, then, callVars>>
      PROVE  DrainOK'
  BY <1>13 DEF DownCas, callVars
<1>14. ASSUME NEW t \in Threads, DownWait(t), UNCHANGED <<pc, then, callVars>>
      PROVE  DrainOK'
  BY <1>14 DEF DownWait, callVars
<1>15. ASSUME NEW t \in Threads, DownSettle(t), UNCHANGED <<pc, then, callVars>>
      PROVE  DrainOK'
  BY <1>15 DEF DownSettle, callVars
<1>16. ASSUME NEW t \in Threads, UpLoad(t), UNCHANGED <<pc, then, callVars>>
      PROVE  DrainOK'
  BY <1>16 DEF UpLoad, callVars
<1>17. ASSUME NEW t \in Threads, UpCas(t), UNCHANGED <<pc, then, callVars>>
      PROVE  DrainOK'
  BY <1>17 DEF UpCas, callVars
<1>18. ASSUME NEW t \in Threads, UpStore(t), UNCHANGED <<pc, then, callVars>>
      PROVE  DrainOK'
  BY <1>18 DEF UpStore, callVars
<1>19. ASSUME NEW t \in Threads, UpWake(t), UNCHANGED <<pc, then, callVars>>
      PROVE  DrainOK'
  BY <1>19 DEF UpWake, callVars, Sleepers
<1>20. ASSUME NEW t \in Threads, SeeDefunct(t) PROVE DrainOK'
  BY <1>20 DEF SeeDefunct, Unlock, UpStart, Idle, At, Goto
<1>21. ASSUME NEW t \in Threads, Watch(t) PROVE DrainOK'
  <2>1. CASE call[t].op = "detach"
    BY <1>21, <2>1 DEF Watch, Idle, At, Goto, futexVars
  <2>2. CASE call[t].op # "detach"
    BY <1>21, <2>2 DEF Watch, DownStart, Idle, At, Goto
  <2> QED BY <2>1, <2>2
<1> QED
  BY <1>1, <1>2, <1>3, <1>4, <1>5, <1>6, <1>7, <1>8, <1>9, <1>10, <1>11,
  <1>12, <1>13, <1>14, <1>15, <1>16, <1>17, <1>18, <1>19, <1>20, <1>21 DEF Next, Library,
  FutexStep

(* Arguments of calls stay what they were when the call began.             *)
LEMMA CallsInv == IInv /\ [Next]_vars => CallsOK'
<1> SUFFICES ASSUME IInv, [Next]_vars PROVE CallsOK'
  OBVIOUS
<1> USE HandoffAssumption
        DEF IInv, TypeOK, FutexTypeOK, FutexPCs, CallsOK, Alive, BatonOK,
        Active, Taken, PlacesOK, LocalsOK, GlobalOK, Owns
<1>1. CASE UNCHANGED vars
  BY <1>1 DEF vars, callVars, futexVars
<1>2. ASSUME NEW t \in Threads, NEW op \in Ops, NEW u \in Threads, Begin(t, op, u)
      PROVE  CallsOK'
  BY <1>2 DEF Begin, Admissible, DownStart, Idle, At
<1>3. ASSUME NEW t \in Threads, Change(t) PROVE CallsOK'
  BY <1>3 DEF Change, Unlock, UpStart, Idle, At, Goto
<1>4. ASSUME NEW t \in Threads, Switch(t) PROVE CallsOK'
  <2>1. \A u \in freed' : u \in freed \/ pc[u] = "gone"
    BY <1>4, ReapedGone DEF Switch
  <2>2. PICK next \in ready' :
          /\ cur' = next
          /\ IF next = cur THEN Unlock(t, "user")
                           ELSE UpStart(t, next) /\ Goto(t, "upped") /\ UNCHANGED then
    BY <1>4 DEF Switch
  <2>3. /\ pc[t] = "locked" /\ t = cur /\ UNCHANGED call
        /\ call[t].op \in {"yield", "exit"}
        /\ ready' \subseteq ready /\ (call[t].op = "exit" => t \notin ready')
    BY <1>4 DEF Switch, At
  <2>4. /\ pc' = [pc EXCEPT ![t] = pc'[t]] /\ then' = [then EXCEPT ![t] = then'[t]]
        /\ \/ pc'[t] = "unlock" /\ then'[t] = "user" /\ next = t
           \/ pc'[t] = "upped" /\ next # t
    BY <2>2, <2>3 DEF Unlock, Goto
  <2>5. \A u \in Threads : u \in ready' \cup {next} => u \in ready /\ Alive(u)
    BY <2>2, <2>3
  <2>6. \A u \in Threads : u # t => (Alive(u)' <=> Alive(u))
    BY <2>3, <2>4
  <2>7. t \in ready' => Alive(t)'
    BY <2>3, <2>4, <2>5
  <2>8. \A u \in ready' \cup {cur'} : Alive(u)'
    <3>1. cur' \in ready' /\ ready' \subseteq Threads
      BY <2>2, <2>3
    <3>2. \A u \in ready' : Alive(u)
      BY <2>3
    <3> HIDE DEF Alive
    <3> QED BY <2>6, <2>7, <3>1, <3>2
  <2>9. \A u \in freed' : pc'[u] = "gone"
    <3>1. freed' \subseteq Threads /\ \A u \in freed' : pc[u] = "gone"
      BY <1>4, <2>1, ReapedGone DEF Switch
    <3> QED BY <2>3, <2>4, <3>1
  <2>10. \A u \in Threads : pc'[u] = "locked" => pc[u] = "locked" /\ u # t
    BY <2>4
  <2> QED BY <2>3, <2>4, <2>8, <2>9, <2>10
<1>5. ASSUME NEW t \in Threads, Leave(t) PROVE CallsOK'
  BY <1>5 DEF Leave, DownStart, Unlock, UpStart, Idle, At, Goto, callVars
<1>6. ASSUME NEW t \in Threads, Drained(t) PROVE CallsOK'
  BY <1>6 DEF Drained, Unlock, UpStart, Idle, At, Goto, callVars
<1>7. ASSUME NEW t \in Threads, Released(t) PROVE CallsOK'
  <2>1. CASE then[t] \in {"user", "gone", "watch"}
    BY <1>7, <2>1 DEF Released, DownStart, Idle, At, Goto, callVars, futexVars
  <2>2. CASE then[t] = "park"
    BY <1>7, <2>2 DEF Released, DownStart, Idle, At, Goto, callVars, futexVars
  <2>3. CASE then[t] = "yield"
    BY <1>7, <2>3 DEF Released, DownStart, Idle, At, Goto, callVars, futexVars
  <2> QED BY <2>1, <2>2, <2>3
<1>8. ASSUME NEW t \in Threads, Resume(t) PROVE CallsOK'
  BY <1>8 DEF Resume, Idle, At, Goto, callVars, futexVars
<1>9. ASSUME NEW t \in Threads, Start(t) PROVE CallsOK'
  BY <1>9 DEF Start, DownStart, Idle, At, Goto, callVars
<1>10. ASSUME NEW t \in Threads, Started(t) PROVE CallsOK'
  BY <1>10 DEF Started, Idle, At, Goto, callVars, futexVars
<1>11. ASSUME NEW t \in Threads, SpuriousWake(t), UNCHANGED <<pc, then, callVars>>
      PROVE  CallsOK'
  BY <1>11 DEF SpuriousWake, callVars
<1>12. ASSUME NEW t \in Threads, DownLoad(t), UNCHANGED <<pc, then, callVars>>
      PROVE  CallsOK'
  BY <1>12 DEF DownLoad, callVars
<1>13. ASSUME NEW t \in Threads, DownCas(t), UNCHANGED <<pc, then, callVars>>
      PROVE  CallsOK'
  BY <1>13 DEF DownCas, callVars
<1>14. ASSUME NEW t \in Threads, DownWait(t), UNCHANGED <<pc, then, callVars>>
      PROVE  CallsOK'
  BY <1>14 DEF DownWait, callVars
<1>15. ASSUME NEW t \in Threads, DownSettle(t), UNCHANGED <<pc, then, callVars>>
      PROVE  CallsOK'
  BY <1>15 DEF DownSettle, callVars
<1>16. ASSUME NEW t \in Threads, UpLoad(t), UNCHANGED <<pc, then, callVars>>
      PROVE  CallsOK'
  BY <1>16 DEF UpLoad, callVars
<1>17. ASSUME NEW t \in Threads, UpCas(t), UNCHANGED <<pc, then, callVars>>
      PROVE  CallsOK'
  BY <1>17 DEF UpCas, callVars
<1>18. ASSUME NEW t \in Threads, UpStore(t), UNCHANGED <<pc, then, callVars>>
      PROVE  CallsOK'
  BY <1>18 DEF UpStore, callVars
<1>19. ASSUME NEW t \in Threads, UpWake(t), UNCHANGED <<pc, then, callVars>>
      PROVE  CallsOK'
  BY <1>19 DEF UpWake, callVars, Sleepers
<1>20. ASSUME NEW t \in Threads, SeeDefunct(t) PROVE CallsOK'
  BY <1>20 DEF SeeDefunct, Unlock, UpStart, Idle, At, Goto
<1>21. ASSUME NEW t \in Threads, Watch(t) PROVE CallsOK'
  <2>1. CASE call[t].op = "detach"
    <3>1. /\ pc[t] = "watch" /\ pc[call[t].arg] = "gone" /\ call[t].arg \in Threads
          /\ pc' = [pc EXCEPT ![t] = "user"] /\ UNCHANGED <<then, ready, cur>>
          /\ freed' = freed \cup {call[t].arg}
          /\ call' = [call EXCEPT ![t] = [op |-> "yield", arg |-> t]]
      BY <1>21, <2>1 DEF Watch, At, Goto
    <3> QED BY <3>1
  <2>2. CASE call[t].op # "detach"
    <3>1. /\ pc[t] = "watch" /\ pc[call[t].arg] = "gone" /\ call[t].arg \in Threads
          /\ pc' = [pc EXCEPT ![t] = "locked"] /\ UNCHANGED <<then, ready, freed, cur>>
          /\ call' = [call EXCEPT ![t] = [op |-> "free", arg |-> call[t].arg]]
      BY <1>21, <2>2 DEF Watch, At, Goto
    <3> QED BY <3>1
  <2> QED BY <2>1, <2>2
<1> QED
  BY <1>1, <1>2, <1>3, <1>4, <1>5, <1>6, <1>7, <1>8, <1>9, <1>10, <1>11,
  <1>12, <1>13, <1>14, <1>15, <1>16, <1>17, <1>18, <1>19, <1>20, <1>21 DEF Next, Library,
  FutexStep

(* The baton is neither lost to two threads nor doubled.                   *)
LEMMA BatonInv == IInv /\ [Next]_vars => BatonOK'
<1> SUFFICES ASSUME IInv, [Next]_vars PROVE BatonOK'
  OBVIOUS
<1> USE HandoffAssumption
        DEF IInv, TypeOK, FutexTypeOK, FutexPCs, Active, Waits, Taken, Ahead,
        BatonOK
<1>1. CASE UNCHANGED vars
  BY <1>1 DEF vars, callVars, futexVars
<1>2. ASSUME NEW t \in Threads, NEW op \in Ops, NEW u \in Threads, Begin(t, op, u)
      PROVE  BatonOK'
  BY <1>2 DEF Begin, Admissible, DownStart, Idle, At, PlacesOK, Downs, Ups,
  LocalsOK, GlobalOK, Owns, DrainOK, CallsOK, Alive
<1>3. ASSUME NEW t \in Threads, Change(t) PROVE BatonOK'
  BY <1>3 DEF Change, Unlock, UpStart, Idle, At, Goto, PlacesOK, Downs, Ups,
  LocalsOK, GlobalOK, Owns, DrainOK, CallsOK, Alive
<1>4. ASSUME NEW t \in Threads, Switch(t) PROVE BatonOK'
  <2>1. /\ t = cur /\ pc[t] = "locked" /\ Idle(t) /\ Owns(t)
        /\ \A u \in Threads : u # t => ~Owns(u)
    BY <1>4 DEF Switch, At, Idle, GlobalOK, Owns
  <2>2. PICK next \in ready' :
          /\ cur' = next
          /\ IF next = cur THEN Unlock(t, "user")
                           ELSE UpStart(t, next) /\ Goto(t, "upped") /\ UNCHANGED then
    BY <1>4 DEF Switch
  <2>3. next \in ready /\ next \in Threads
    BY <1>4 DEF Switch
  <2>4. CASE next = cur
    BY <2>1, <2>2, <2>4 DEF Unlock, UpStart, Goto, Owns, Idle
  <2>5. CASE next # cur
    <3>1. Alive(next) /\ pc[next] \notin {"user", "locked"}
      BY <2>3, <2>5 DEF CallsOK
    <3>2. Waits(next) /\ ~Taken(next) /\ count[next] <= 0
      BY <2>1, <2>3, <2>5, <3>1 DEF CallsOK, Alive, Owns
    <3>3. /\ pc' = [pc EXCEPT ![t] = "upped"] /\ fpc' = [fpc EXCEPT ![t] = "uload"]
          /\ cur' = next /\ UNCHANGED <<then, count>>
      BY <2>2, <2>5 DEF UpStart, Goto
    <3>4. \A v \in Threads : Active(v)' \/ Taken(v)' => v = next
      BY <2>1, <3>3
    <3>5. \A v \in Threads : (pc[v] \in {"upped", "drained"})' => v # next
      BY <2>1, <2>5, <3>3 DEF Owns
    <3>6. \A v \in Threads : v # next /\ Waits(v)' => count'[v] <= 0
      BY <2>1, <3>3
    <3>7. count'[next] <= 0 /\ Waits(next)' /\ ~Taken(next)'
      BY <2>1, <2>3, <2>5, <3>2, <3>3
    <3> QED BY <3>3, <3>4, <3>5, <3>6, <3>7
  <2> QED BY <2>4, <2>5
<1>5. ASSUME NEW t \in Threads, Leave(t) PROVE BatonOK'
  <2>1. /\ self[t] = t /\ t # cur /\ pc[t] = "upped" /\ fpc[t] = "idle"
        /\ UNCHANGED <<count, cur>>
    BY <1>5 DEF LocalsOK, Leave, At, Idle, DownStart, Unlock, UpStart, callVars
  <2>2. /\ pc' = [pc EXCEPT ![t] = pc'[t]]
        /\ fpc' = [fpc EXCEPT ![t] = fpc'[t]]
        /\ then' = [then EXCEPT ![t] = then'[t]]
    BY <1>5, <2>1 DEF Leave, DownStart, Unlock, UpStart, Goto
  <2>3. call[t].op \in {"yield", "exit"} /\ count[t] \in {-1, 0, 1, 2}
    BY <2>1 DEF CallsOK
  <2>4. \/ pc'[t] = "drained"
        \/ pc'[t] = "unlock" /\ then'[t] = "gone"
        \/ pc'[t] = "unlock" /\ then'[t] = "park" /\ count[t] <= 0
    <3>1. CASE call[t].op = "yield" /\ count[t] > 0
      BY <1>5, <2>1, <3>1 DEF Leave, Goto
    <3>2. CASE ~(call[t].op = "yield" /\ count[t] > 0)
      BY <1>5, <2>1, <2>3, <3>2 DEF Leave, Unlock, Goto
    <3> QED BY <3>1, <3>2
  <2>5. ~Active(t)' /\ ~Taken(t)' /\ ~Ahead(t)' /\ (Waits(t)' => count[t] <= 0)
    BY <2>4
  <2>6. \A v \in Threads : v # t => /\ Active(v)' = Active(v) /\ Taken(v)' = Taken(v)
                                    /\ Ahead(v)' = Ahead(v) /\ Waits(v)' = Waits(v)
    BY <2>2
  <2> QED BY SMTT(20), <2>1, <2>2, <2>5, <2>6
<1>6. ASSUME NEW t \in Threads, Drained(t) PROVE BatonOK'
  BY <1>6 DEF Drained, Unlock, UpStart, Idle, At, Goto, callVars, PlacesOK,
  Downs, Ups, LocalsOK, GlobalOK, Owns, DrainOK, CallsOK, Alive
<1>7. ASSUME NEW t \in Threads, Released(t) PROVE BatonOK'
  BY <1>7 DEF Released, DownStart, Idle, At, Goto, callVars, futexVars,
  PlacesOK, Downs, Ups, LocalsOK, GlobalOK, Owns, DrainOK, CallsOK, Alive
<1>8. ASSUME NEW t \in Threads, Resume(t) PROVE BatonOK'
  BY <1>8 DEF Resume, Idle, At, Goto, callVars, futexVars, PlacesOK, Downs,
  Ups, LocalsOK, GlobalOK, Owns, DrainOK, CallsOK, Alive
<1>9. ASSUME NEW t \in Threads, Start(t) PROVE BatonOK'
  BY <1>9 DEF Start, DownStart, Idle, At, Goto, callVars, PlacesOK, Downs,
  Ups, LocalsOK, GlobalOK, Owns, DrainOK, CallsOK, Alive
<1>10. ASSUME NEW t \in Threads, Started(t) PROVE BatonOK'
  BY <1>10 DEF Started, Idle, At, Goto, callVars, futexVars, PlacesOK, Downs,
  Ups, LocalsOK, GlobalOK, Owns, DrainOK, CallsOK, Alive
<1>11. ASSUME NEW t \in Threads, SpuriousWake(t), UNCHANGED <<pc, then, callVars>>
      PROVE  BatonOK'
  BY <1>11 DEF SpuriousWake, callVars, PlacesOK, Downs, Ups, LocalsOK,
  GlobalOK, Owns, DrainOK, CallsOK, Alive
<1>12. ASSUME NEW t \in Threads, DownLoad(t), UNCHANGED <<pc, then, callVars>>
      PROVE  BatonOK'
  BY <1>12 DEF DownLoad, callVars, PlacesOK, Downs, Ups, LocalsOK, GlobalOK,
  Owns, DrainOK, CallsOK, Alive
<1>13. ASSUME NEW t \in Threads, DownCas(t), UNCHANGED <<pc, then, callVars>>
      PROVE  BatonOK'
  <2>1. CASE val[t] < 0
    BY <1>13, <2>1 DEF DownCas, callVars, PlacesOK, Downs, Ups
  <2>2. CASE val[t] >= 0 /\ count[fx[t]] # val[t]
    BY <1>13, <2>2 DEF DownCas, callVars, PlacesOK, Downs, Ups
  <2>3. CASE val[t] >= 0 /\ count[fx[t]] = val[t]
    <3>1. /\ val[t] \in {0, 1} /\ count[fx[t]] = val[t]
          /\ count' = [count EXCEPT ![fx[t]] = val[t] - 1]
          /\ fpc' = [fpc EXCEPT ![t] = fpc'[t]]
          /\ val[t] = 0 => fpc'[t] = "wait"
          /\ fpc'[t] \in {"wait", "settle", "idle"}
          /\ UNCHANGED <<pc, then, cur>>
      BY <1>13, <2>3 DEF LocalsOK, DownCas, callVars
    <3>2. \A v \in Threads : count'[v] <= 0 \/ count'[v] = count[v]
      BY <3>1
    <3>3. \A v \in Threads : /\ Active(v)' = Active(v) /\ Waits(v)' = Waits(v)
                             /\ Ahead(v)' => Ahead(v)
                             /\ v # t => Taken(v)' = Taken(v)
      BY <1>13, <3>1 DEF PlacesOK, Ups, DownCas
    <3>4. ASSUME Taken(t)' PROVE t = cur /\ \A v \in Threads : ~Ahead(v)
      <4>1. pc[t] \in {"starting", "parked"} /\ fx[t] = t /\ count[t] = 1
        BY <3>1, <3>4 DEF PlacesOK
      <4> QED BY <4>1
    <3> QED BY <3>1, <3>2, <3>3, <3>4
  <2> QED BY <2>1, <2>2, <2>3
<1>14. ASSUME NEW t \in Threads, DownWait(t), UNCHANGED <<pc, then, callVars>>
      PROVE  BatonOK'
  BY <1>14 DEF DownWait, callVars, PlacesOK, Downs, Ups, LocalsOK, GlobalOK,
  Owns, DrainOK, CallsOK, Alive
<1>15. ASSUME NEW t \in Threads, DownSettle(t), UNCHANGED <<pc, then, callVars>>
      PROVE  BatonOK'
  BY <1>15 DEF DownSettle, callVars, PlacesOK, Downs, Ups, LocalsOK,
  GlobalOK, Owns, DrainOK, CallsOK, Alive
<1>16. ASSUME NEW t \in Threads, UpLoad(t), UNCHANGED <<pc, then, callVars>>
      PROVE  BatonOK'
  BY <1>16 DEF UpLoad, callVars, PlacesOK, Downs, Ups, LocalsOK, GlobalOK,
  Owns, DrainOK, CallsOK, Alive
<1>17. ASSUME NEW t \in Threads, UpCas(t), UNCHANGED <<pc, then, callVars>>
      PROVE  BatonOK'
  <2>1. Owns(t) /\ \A v \in Threads : Ahead(v) => v = t
    BY <1>17 DEF UpCas, PlacesOK, Downs, GlobalOK, Owns
  <2>2. CASE pc[t] = "unlock"
    <3>1. fx[t] = Global /\ UNCHANGED <<pc, then, cur>>
      BY <1>17, <2>2 DEF PlacesOK, UpCas, callVars
    <3>2. /\ \A v \in Threads : count'[v] = count[v]
          /\ fpc' = [fpc EXCEPT ![t] = fpc'[t]]
      BY <1>17, <3>1 DEF UpCas
    <3> QED BY <2>2, <3>1, <3>2
  <2>3. CASE pc[t] = "upped"
    <3>1. fx[t] = cur /\ Ahead(t) /\ val[t] \in {-1, 0}
      BY <1>17, <2>3 DEF UpCas, PlacesOK, LocalsOK
    <3>2. /\ fpc' = [fpc EXCEPT ![t] = fpc'[t]] /\ fpc'[t] \in {"idle", "ustore"}
          /\ \A v \in Threads : v # cur => count'[v] = count[v]
          /\ fpc'[t] = "ustore" => count'[cur] <= 0
          /\ UNCHANGED <<pc, then, cur>>
      BY <1>17, <3>1 DEF UpCas, callVars
    <3> QED BY <2>1, <2>3, <3>1, <3>2
  <2> QED BY SMTT(20), <1>17, <2>2, <2>3 DEF UpCas, PlacesOK, Downs
<1>18. ASSUME NEW t \in Threads, UpStore(t), UNCHANGED <<pc, then, callVars>>
      PROVE  BatonOK'
  BY <1>18 DEF UpStore, callVars, PlacesOK, Downs, Ups, LocalsOK, GlobalOK,
  Owns, DrainOK, CallsOK, Alive
<1>19. ASSUME NEW t \in Threads, UpWake(t), UNCHANGED <<pc, then, callVars>>
      PROVE  BatonOK'
  <2>1. CASE Sleepers(fx[t]) = {}
    BY <1>19, <2>1 DEF PlacesOK, Downs, Ups, UpWake, callVars, Sleepers
  <2>2. ASSUME NEW u \in Threads, fpc[u] = "asleep",
               fpc' = [fpc EXCEPT ![t] = "idle", ![u] = "load"],
               woken' = [woken EXCEPT ![u] = TRUE]
        PROVE  BatonOK'
    <3>1. /\ fpc[t] = "uwake" /\ UNCHANGED <<count, pc, then, cur>>
          /\ pc[t] \in {"upped", "unlock"}
      BY <1>19, <2>2 DEF PlacesOK, Downs, UpWake, callVars
    <3>2. \A v \in Threads : /\ Active(v)' = Active(v) /\ Waits(v)' = Waits(v)
                             /\ Taken(v)' => Taken(v)
                             /\ Ahead(v)' => Ahead(v)
      BY <2>2, <3>1
    <3> QED BY <3>1, <3>2
  <2> QED BY <1>19, <2>1, <2>2 DEF PlacesOK, Downs, Ups, UpWake, Sleepers
<1>20. ASSUME NEW t \in Threads, SeeDefunct(t) PROVE BatonOK'
  BY <1>20 DEF SeeDefunct, Unlock, UpStart, Idle, At, Goto, PlacesOK, Downs, Ups,
  LocalsOK, GlobalOK, Owns, DrainOK, CallsOK, Alive
<1>21. ASSUME NEW t \in Threads, Watch(t) PROVE BatonOK'
  <2>1. CASE call[t].op = "detach"
    BY <1>21, <2>1 DEF Watch, Idle, At, Goto, futexVars, PlacesOK, Downs, Ups,
  LocalsOK, GlobalOK, Owns, DrainOK, CallsOK, Alive
  <2>2. CASE call[t].op # "detach"
    BY <1>21, <2>2 DEF Watch, DownStart, Idle, At, Goto, PlacesOK, Downs, Ups,
  LocalsOK, GlobalOK, Owns, DrainOK, CallsOK, Alive
  <2> QED BY <2>1, <2>2
<1> QED
  BY <1>1, <1>2, <1>3, <1>4, <1>5, <1>6, <1>7, <1>8, <1>9, <1>10, <1>11,
  <1>12, <1>13, <1>14, <1>15, <1>16, <1>17, <1>18, <1>19, <1>20, <1>21 DEF Next, Library,
  FutexStep

-----------------------------------------------------------------------------
(* The initial states satisfy the invariant: main runs, with the surplus   *)
(* token in its semaphore, and the idle thread is about to start.          *)
LEMMA InitInv == Init => IInv
<1> SUFFICES ASSUME Init PROVE IInv
  OBVIOUS
<1> USE HandoffAssumption
<1>1. pc[Main] = "user" /\ \A t \in Threads : t # Main => pc[t] \in {"start", "none"}
  BY DEF Init
<1>2. \A f \in Futexes : count[f] = IF f \in {Global, Main} THEN 1 ELSE 0
  BY DEF Init
<1>3. TypeOK
  <2>1. pc \in [Threads -> {"start", "user", "none"}]
    BY <1>1 DEF Init
  <2>2. FutexTypeOK
    BY DEF Init, FutexTypeOK, FutexPCs
  <2>3. call \in [Threads -> [op : Ops, arg : Threads]] /\ self \in [Threads -> Threads]
    BY DEF Init
  <2> QED BY <2>1, <2>2, <2>3 DEF Init, TypeOK
<1>4. LocalsOK
  <2>1. \A t \in Threads : fpc[t] = "idle" /\ self[t] = t BY DEF Init
  <2> QED BY <1>2, <2>1 DEF LocalsOK
<1>5. GlobalOK
  BY <1>1, <1>2 DEF GlobalOK, Owns
<1>6. PlacesOK /\ DrainOK
  BY <1>1 DEF Init, PlacesOK, DrainOK, Downs, Ups
<1>7. BatonOK
  <2>1. cur = Main /\ \A t \in Threads : t # Main => count[t] = 0
    BY <1>2 DEF Init
  <2> QED BY <1>1, <2>1 DEF BatonOK, Active, Waits, Taken, Ahead
<1>8. CallsOK
  BY <1>1 DEF Init, CallsOK, Alive
<1> QED BY <1>3, <1>4, <1>5, <1>6, <1>7, <1>8 DEF IInv

(* For any number of threads, and whatever calls they make, the invariant  *)
(* of the hand-over holds.                                                 *)
THEOREM HandoffInvariance == Spec => []IInv
<1>1. IInv /\ [Next]_vars => IInv'
  BY TypesInv, PlacesInv, LocalsInv, GlobalInv, DrainInv, CallsInv, BatonInv DEF IInv
<1> QED BY InitInv, <1>1, PTL DEF Spec

(* __pthipth_selfptr() gives the caller: cur_pthipth, which all kernel     *)
(* threads share, names the thread in user code, and the one in a call     *)
(* until it switches.                                                      *)
THEOREM CurIsCaller == Spec => []SelfIsCaller
<1>1. IInv => SelfIsCaller
  BY DEF IInv, BatonOK, Active, SelfIsCaller
<1> QED BY HandoffInvariance, <1>1, PTL

(* Lists, cur_pthipth and control blocks are touched by one thread at a    *)
(* time, the predecessor's way out of the dispatcher included.             *)
THEOREM LibraryExclusion == Spec => []OneInLibrary
<1>1. IInv => OneInLibrary
  BY DEF IInv, GlobalOK, Owns, OneInLibrary, Holds, At, Idle
<1> QED BY HandoffInvariance, <1>1, PTL

(* A control block that was freed is not used by a thread that is leaving, *)
(* waking a successor or asleep, and its thread has left the kernel,       *)
(* although a join or detach may begin while it is still on its way out    *)
(* and a detach frees outside global_futex.                                *)
THEOREM FreedUnused == Spec => []NoUseAfterFree
<1>1. IInv => NoUseAfterFree
  <2> SUFFICES ASSUME IInv, NEW t \in Threads, ~Idle(t) PROVE fx[t] \notin freed
    BY DEF NoUseAfterFree, IInv, CallsOK
  <2> USE HandoffAssumption DEF IInv, TypeOK, FutexTypeOK, Idle
  <2>1. fx[t] \in {Global, t, cur} /\ pc[t] # "gone"
    BY DEF PlacesOK
  <2>2. Global \notin freed /\ t \notin freed /\ cur \notin freed
    BY <2>1 DEF CallsOK, Alive
  <2> QED BY <2>1, <2>2
<1> QED BY HandoffInvariance, <1>1, PTL

(* Nobody is let go ahead of its turn: the semaphore of a parked or new    *)
(* thread is down until the dispatcher has chosen it.                      *)
THEOREM TokensSpent == Spec => []NoTokenBanked
<1>1. IInv => NoTokenBanked
  BY DEF IInv, BatonOK, Waits, NoTokenBanked
<1> QED BY HandoffInvariance, <1>1, PTL

-----------------------------------------------------------------------------
(* A step of a thread that neither switches nor enters or leaves user code *)
(* is none of the baton's.                                                 *)
LEMMA BatonStep == IInv /\ [Next]_vars => [B!Next]_<<cur, {t \in Threads : pc[t] = "user"}>>
<1> DEFINE inUser == {t \in Threads : pc[t] = "user"}
<1> SUFFICES ASSUME IInv, [Next]_vars PROVE [B!Next]_<<cur, inUser>>
  OBVIOUS
<1> USE HandoffAssumption DEF IInv, TypeOK
<1>1. \A t \in Threads : pc[t] \in {"user", "locked"} => t = cur
  BY DEF BatonOK, Active
<1>2. ASSUME UNCHANGED <<pc, cur>> PROVE [B!Next]_<<cur, inUser>>
  BY <1>2
<1>3. ASSUME NEW t \in Threads, NEW l, l # "user", pc[t] # "user",
             pc' = [pc EXCEPT ![t] = l], cur' = cur
      PROVE  [B!Next]_<<cur, inUser>>
  <2> inUser' = inUser BY <1>3
  <2> QED BY <1>3
<1>4. ASSUME NEW t \in Threads, t = cur, pc[t] # "user",
             pc' = [pc EXCEPT ![t] = "user"], cur' = cur
      PROVE  [B!Next]_<<cur, inUser>>
  <2> inUser = {} /\ inUser' = {cur} BY <1>1, <1>4
  <2> QED BY <1>4 DEF B!Next, B!Return
<1>5. ASSUME NEW t \in Threads, NEW op \in Ops, NEW u \in Threads, Begin(t, op, u)
      PROVE  [B!Next]_<<cur, inUser>>
  <2> t = cur /\ inUser = {cur} /\ inUser' = {}
    BY <1>1, <1>5 DEF Begin, At
  <2> QED BY <1>5 DEF Begin, B!Next, B!Call
<1>6. ASSUME NEW t \in Threads, Change(t) \/ SeeDefunct(t) PROVE [B!Next]_<<cur, inUser>>
  BY <1>3, <1>6 DEF Change, SeeDefunct, Unlock, Goto, At
<1>7. ASSUME NEW t \in Threads, Switch(t) PROVE [B!Next]_<<cur, inUser>>
  <2>1. PICK next \in Threads : cur' = next /\ (Goto(t, "unlock") \/ Goto(t, "upped"))
    BY <1>7 DEF Switch, Unlock
  <2>2. inUser = {} /\ inUser' = {}
    BY <1>1, <1>7, <2>1 DEF Switch, At, Goto
  <2> QED BY <2>1, <2>2 DEF B!Next, B!Pass
<1>8. ASSUME NEW t \in Threads, Leave(t) \/ Drained(t) \/ Start(t)
      PROVE  [B!Next]_<<cur, inUser>>
  BY <1>3, <1>8 DEF Leave, Drained, Start, Unlock, Goto, At, callVars
<1>9. ASSUME NEW t \in Threads, Released(t) PROVE [B!Next]_<<cur, inUser>>
  <2>1. CASE then[t] = "user"
    BY <1>4, <1>9, <2>1 DEF Released, Goto, At, callVars, BatonOK, Active
  <2>2. CASE then[t] # "user"
    BY <1>3, <1>9, <2>2 DEF Released, Goto, At, callVars
  <2> QED BY <2>1, <2>2
<1>10. ASSUME NEW t \in Threads, Resume(t) \/ Started(t) PROVE [B!Next]_<<cur, inUser>>
  BY <1>4, <1>10 DEF Resume, Started, Goto, At, Idle, callVars, BatonOK, Taken
<1>11. ASSUME UNCHANGED <<pc, then, callVars>> PROVE [B!Next]_<<cur, inUser>>
  BY <1>2, <1>11 DEF callVars
<1>12. ASSUME NEW t \in Threads, Watch(t) PROVE [B!Next]_<<cur, inUser>>
  BY <1>3, <1>4, <1>12 DEF Watch, Goto, At, BatonOK, Active
<1> QED
  BY <1>12, <1>2, <1>5, <1>6, <1>7, <1>8, <1>9, <1>10, <1>11
  DEF Next, Library, vars, callVars

(* The hand-over implements the baton: user code is run by its holder, and *)
(* passed on by nobody else.                                               *)
THEOREM HandoffIsBaton == Spec => ImplementsBaton
<1>1. Init => B!Init
  <2> SUFFICES ASSUME Init PROVE B!Init
    OBVIOUS
  <2>1. \A t \in Threads : pc[t] = "user" <=> t = Main
    BY HandoffAssumption DEF Init
  <2> QED BY <2>1, HandoffAssumption DEF Init, B!Init
<1> QED BY <1>1, BatonStep, HandoffInvariance, PTL DEF Spec, B!Spec, ImplementsBaton
=============================================================================
