----------------------------- MODULE MCScheduler ----------------------------
(***************************************************************************)
(* The scheduler for TLC: a job with a short period and one with a long    *)
(* one, both with jitter, and a gate of one slot.                          *)
(***************************************************************************)
EXTENDS Scheduler

MCPeriod == [j \in Jobs |-> IF j = 1 THEN 2 ELSE 3]

MCJitter == [j \in Jobs |-> 2]
=============================================================================
