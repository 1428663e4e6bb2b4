---------------------------- MODULE SingleFlight ----------------------------
(***************************************************************************)
(* What the daemon's single-flight gate promises to everything above it:   *)
(* the drills being run and the slots that are free.  A run starts by      *)
(* taking exactly one slot, a run that ends leaves its slot taken for a    *)
(* while, and each slot comes back once, only after a run that had one is  *)
(* over: slots are neither lost, nor returned twice, nor returned early.   *)
(* Nothing is said here of tokens, marks, locks or goroutines; Gate.tla is *)
(* the mechanism and is shown to implement this.                           *)
(***************************************************************************)
EXTENDS Integers

CONSTANTS Drills,       \* the configured drills
          Concurrency   \* the number of runs the daemon carries out at once

VARIABLES running,      \* the drills a goroutine is carrying out a run of
          free,         \* the slots a run may start in
          owed          \* the slots of runs that are over, not yet returned

Init ==
  /\ running = {}
  /\ free = Concurrency
  /\ owed = 0

Start(d) ==
  /\ d \notin running
  /\ free > 0
  /\ running' = running \cup {d}
  /\ free' = free - 1
  /\ UNCHANGED owed

Finish(d) ==
  /\ d \in running
  /\ running' = running \ {d}
  /\ owed' = owed + 1
  /\ UNCHANGED free

Return ==
  /\ owed > 0
  /\ owed' = owed - 1
  /\ free' = free + 1
  /\ UNCHANGED running

Next == Return \/ \E d \in Drills : Start(d) \/ Finish(d)

Spec == Init /\ [][Next]_<<running, free, owed>>
=============================================================================
