----------------------------- MODULE AgeHistory -----------------------------
(***************************************************************************)
(* Scheduler with two history variables that remember when each thread was *)
(* last cur_pthipth, and with which old_priority.  The code keeps no such  *)
(* record: it has last_selected, advanced when a thread is dispatched, when*)
(* it leaves and when its priority is raised, and ageing trusts it.        *)
(***************************************************************************)
EXTENDS Scheduler

VARIABLES
  ran,    \* ran[t]: the time at which t was last cur_pthipth
  basis   \* basis[t]: its old_priority then

ageHistory == <<ran, basis>>

(* A thread that does not exist yet waits for nothing.                     *)
AgeStart == ran = [t \in Threads |-> now] /\ basis = old

Recorded ==
  /\ ran' = [t \in Threads |-> IF t = cur' \/ state'[t] = "none" THEN now' ELSE ran[t]]
  /\ basis' = [t \in Threads |-> IF t = cur' \/ state'[t] = "none" THEN old'[t] ELSE basis[t]]

AgeSpec == Init /\ AgeStart /\ [][Next /\ Recorded]_<<vars, ageHistory>>

AgeFairSpec == AgeSpec /\ Fairness

(* Ageing pays for waiting, and once: since a thread last ran, and whatever*)
(* it had gained before, its priority has risen by no more than its        *)
(* aging_factor for every aging_time that has passed.                      *)
AgeEarned ==
  \A t \in Threads :
    /\ old[t] >= Highest
    /\ basis[t] - old[t] <= ((now - ran[t]) \div AgingTime[t]) * AgingFactor[t]
=============================================================================

