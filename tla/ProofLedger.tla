----------------------------- MODULE ProofLedger ----------------------------
(***************************************************************************)
(* What the proof timeline of a drill promises: a level's last_proven_at   *)
(* only moves forward, and only to the start of a run that was recorded as *)
(* a pass and in which that level passed.  Rows, steps, retention and      *)
(* processes do not appear; RunLifecycle.tla is shown to implement this.   *)
(***************************************************************************)
EXTENDS Integers

CONSTANT Levels

VARIABLES passes,   \* the passing verdicts ever recorded
          proof     \* last_proven_at of each level, 0 when never proven

Init == passes = {} /\ proof = [l \in Levels |-> 0]

Pass(v) ==
  /\ passes' = passes \cup {v}
  /\ UNCHANGED proof

Prove(v, l) ==
  /\ v \in passes /\ l \in v.passed /\ v.start > proof[l]
  /\ proof' = [proof EXCEPT ![l] = v.start]
  /\ UNCHANGED passes

Next == (\E v \in passes' : Pass(v)) \/ (\E v \in passes, l \in Levels : Prove(v, l))

Spec == Init /\ [][Next]_<<passes, proof>>
=============================================================================
