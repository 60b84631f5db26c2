-------------------------- MODULE BucketConstants ---------------------------
(* What the bucket queue is about, as a value and with pointers.           *)
EXTENDS Integers

CONSTANTS Threads,       \* the TCBs, the idle thread's included
          IdleThread,
          IdlePriority   \* IDLE_PRIORITY, the largest priority

ASSUME BucketAssumption == IdleThread \in Threads /\ IdlePriority \in Nat

Priorities == 0 .. IdlePriority
=============================================================================
