---------------------------- MODULE ThreadLists -----------------------------
(***************************************************************************)
(* Which list a thread is on.  The record s has the state of every thread, *)
(* the bucket queue bq, and blocked_state and sleeping_state as sequences. *)
(* Operators only: Scheduler keeps such a record in its state, Lists shows *)
(* that the pointers of the code behave like it.                           *)
(***************************************************************************)
EXTENDS Buckets

(* Mutant of Leave: a sleeper stays in sleeping_state.                     *)
LeaveBlockedOnly(s, t) ==
  IF s.state[t] = "BLOCKED" THEN [s EXCEPT !.blocked = Without(@, t)] ELSE s

(* Out of the list of the old state.                                       *)
Leave(s, t) ==
  CASE s.state[t] = "BLOCKED"  -> [s EXCEPT !.blocked = Without(@, t)]
    [] s.state[t] = "SLEEPING" -> [s EXCEPT !.sleeping = Without(@, t)]
    [] OTHER                   -> s

(* Into that of the new one; p is the thread's priority.                   *)
Enter(s, t, to, p) ==
  CASE to = "BLOCKED"  -> [s EXCEPT !.bq = BqDelete(@, t), !.blocked = Append(@, t)]
    [] to = "SLEEPING" -> [s EXCEPT !.bq = BqDelete(@, t), !.sleeping = Append(@, t)]
    [] to = "DEFUNCT"  -> [s EXCEPT !.bq = BqDelete(@, t)]
    [] to = "READY" /\ s.state[t] # "RUNNING" -> [s EXCEPT !.bq = BqInsert(@, t, p)]
    [] OTHER -> s

SetState(s, t, to) == [s EXCEPT !.state[t] = to]

(* __pthipth_change_to_state                                               *)
StateChange(s, t, to, p) ==
  IF s.state[t] = to THEN s ELSE SetState(Enter(Leave(s, t), t, to, p), t, to)

Once(l) == \A i, j \in DOMAIN l : l[i] = l[j] => i = j
=============================================================================
