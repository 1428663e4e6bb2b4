-------------------------------- MODULE Gate --------------------------------
(***************************************************************************)
(* The single-flight gate the scheduler and the API's "Run now" share      *)
(* (internal/scheduler/scheduler.go).  sem is a channel used as a bucket   *)
(* of Cap tokens, inflight the set of drills marked as running, and the    *)
(* mutex mu makes TryAcquire one step.  The release func is two steps: it  *)
(* deletes the mark under mu, and takes its token out of the channel after *)
(* mu is unlocked, so other goroutines run between the two.                *)
(*                                                                         *)
(* A goroutine of this module is one caller of TryAcquire: the scheduler's *)
(* dispatch or an API handler, with the run goroutine either of them       *)
(* starts when the claim succeeds.                                         *)
(***************************************************************************)
EXTENDS Integers, FiniteSets

CONSTANTS Drills,        \* the drills of the configuration
          Goroutines,    \* the callers of the gate
          Concurrency,   \* the configured number of concurrent runs
          NoDrill        \* what a goroutine without a claim has claimed

ASSUME GateAssumption ==
  /\ Concurrency \in Int
  /\ IsFiniteSet(Goroutines)
  /\ NoDrill \notin Drills

VARIABLES inflight,      \* Gate.inflight: the drills marked as running
          sem,           \* the number of tokens in Gate.sem
          pc,            \* where each goroutine is
          claim          \* the drill a goroutine claimed

vars == <<inflight, sem, pc, claim>>

\* NewGate raises a concurrency below 1 to 1.
Cap == IF Concurrency < 1 THEN 1 ELSE Concurrency

Places == {"idle", "running", "unmarked"}

Init ==
  /\ inflight = {}
  /\ sem = 0
  /\ pc = [g \in Goroutines |-> "idle"]
  /\ claim = [g \in Goroutines |-> NoDrill]

-----------------------------------------------------------------------------
\* Mutation: the look at the drill's own mark is missing.
AdmitsMarked(d) == sem < Cap

\* The condition under which TryAcquire returns ok: the drill has no mark,
\* and the non-blocking send finds room in the channel.
Admits(d) == d \notin inflight /\ sem < Cap

\* Mutation: a drill is admitted without its token.
TryAcquireNoToken(g, d) ==
  /\ pc[g] = "idle"
  /\ Admits(d)
  /\ inflight' = inflight \cup {d}
  /\ pc' = [pc EXCEPT ![g] = "running"]
  /\ claim' = [claim EXCEPT ![g] = d]
  /\ UNCHANGED sem

\* TryAcquire succeeds: token and mark are taken in one critical section, and
\* the caller starts the goroutine that carries out the run.
TryAcquire(g, d) ==
  /\ pc[g] = "idle"
  /\ Admits(d)
  /\ sem' = sem + 1
  /\ inflight' = inflight \cup {d}
  /\ pc' = [pc EXCEPT ![g] = "running"]
  /\ claim' = [claim EXCEPT ![g] = d]

\* Mutation: the release keeps the mark.
UnmarkKeepsMark(g) ==
  /\ pc[g] = "running"
  /\ pc' = [pc EXCEPT ![g] = "unmarked"]
  /\ UNCHANGED <<inflight, sem, claim>>

\* Mutation: the token goes back under mu as well, so it goes back twice.
UnmarkFreesToken(g) ==
  /\ pc[g] = "running"
  /\ inflight' = inflight \ {claim[g]}
  /\ sem' = sem - 1
  /\ pc' = [pc EXCEPT ![g] = "unmarked"]
  /\ UNCHANGED claim

\* The run is over and the deferred release deletes the mark under mu.
Unmark(g) ==
  /\ pc[g] = "running"
  /\ inflight' = inflight \ {claim[g]}
  /\ pc' = [pc EXCEPT ![g] = "unmarked"]
  /\ UNCHANGED <<sem, claim>>

\* The release takes its token back, outside mu.  The receive would block on
\* an empty channel.
FreeToken(g) ==
  /\ pc[g] = "unmarked"
  /\ sem > 0
  /\ sem' = sem - 1
  /\ pc' = [pc EXCEPT ![g] = "idle"]
  /\ claim' = [claim EXCEPT ![g] = NoDrill]
  /\ UNCHANGED inflight

Next ==
  \E g \in Goroutines :
    \/ \E d \in Drills : TryAcquire(g, d)
    \/ Unmark(g)
    \/ FreeToken(g)

Spec == Init /\ [][Next]_vars
-----------------------------------------------------------------------------
\* The goroutines that are carrying out a run, and the ones that hold a token.
Running == {g \in Goroutines : pc[g] = "running"}

Holders == {g \in Goroutines : pc[g] # "idle"}

RunningDrills == {claim[g] : g \in Running}

TypeOK ==
  /\ inflight \in SUBSET Drills
  /\ sem \in 0..Cap
  /\ pc \in [Goroutines -> Places]
  /\ claim \in [Goroutines -> Drills \cup {NoDrill}]

\* No drill is run twice at once, and never more than Cap runs are in
\* progress: the gate's contract (scheduler.go, "so concurrency > 1 still
\* never runs the same drill twice at once").
SingleFlightHeld ==
  /\ \A g, h \in Running : claim[g] = claim[h] => g = h
  /\ Cardinality(Running) =< Cap

\* A refusal is never spurious beyond the release window: the gate turns a
\* drill away only while that drill is being run or Cap goroutines hold a
\* token.  A leaked mark or token would refuse a drill with nothing running.
RefusalJustified ==
  \A d \in Drills :
    ~ Admits(d) => d \in RunningDrills \/ Cardinality(Holders) >= Cap

\* A release never blocks: the receive on the channel always finds a token,
\* so a run goroutine cannot hang in its deferred release (and hang the
\* scheduler's and the API's drain behind it).
ReleaseNeverBlocks == \A g \in Goroutines : pc[g] = "unmarked" => sem > 0

\* The goroutines between the two steps of a release.
Releasing == {g \in Goroutines : pc[g] = "unmarked"}

\* The mechanism implements the abstract gate, read off the goroutines that
\* are inside a run, the room in the channel and the half-done releases: every
\* run takes one slot, and the slot comes back once and only after the mark is
\* gone, although the two steps of a release interleave with other claims of
\* the same drill.
Abstract == INSTANCE SingleFlight WITH
              running <- RunningDrills, free <- Cap - sem,
              owed <- Cardinality(Releasing), Concurrency <- Cap

ImplementsSingleFlight == Abstract!Spec

\* The inductive invariant behind the safety properties: the marks are the
\* claimed drills of the running goroutines, no two of them equal, and the
\* tokens are counted by the goroutines that have not finished releasing.
GateInv ==
  /\ TypeOK
  /\ \A g \in Goroutines : pc[g] = "running" => claim[g] \in inflight
  /\ \A d \in inflight : \E g \in Running : claim[g] = d
  /\ \A g, h \in Running : claim[g] = claim[h] => g = h
  /\ sem = Cardinality(Holders)
=============================================================================
