------------------------------ MODULE Scheduler -----------------------------
(***************************************************************************)
(* The scheduler's loop in time (internal/scheduler/scheduler.go, Run):    *)
(* when a job fires, what a late wake-up does to it, and how long the loop *)
(* sleeps.  Time passes while the loop dispatches as well as while it      *)
(* sleeps, and it may jump (a suspended host, a slow loop).  The gate is   *)
(* abstracted to the set of drills being run (SingleFlight.tla).           *)
(***************************************************************************)
EXTENDS Integers, FiniteSets

CONSTANTS Jobs,          \* the jobs, numbered in configuration order
          Period,        \* the time between two slots of a job's schedule
          Jitter,        \* a job's jitter; delays are below it
          NeverSets,     \* the sets of jobs whose schedule may match no time
          Concurrency,   \* the gate's number of slots
          MaxTime        \* bound: the clock

ASSUME SchedulerAssumption ==
  /\ Jobs \subseteq Nat /\ IsFiniteSet(Jobs)
  /\ Period \in [Jobs -> Nat \ {0}] /\ Jitter \in [Jobs -> Nat]
  /\ NeverSets \subseteq SUBSET Jobs
  /\ Concurrency \in Nat \ {0} /\ MaxTime \in Nat

VARIABLES clock,
          loop,          \* where Run's loop is
          now,           \* the time the loop has read
          never,         \* the jobs whose schedule matches no time ("0 0 30 2 *")
          fire,          \* job.fire
          ready,         \* the due jobs not yet dispatched
          wakeAt,        \* when the timer of the select fires, NoTime when there is none
          running,       \* the drills the gate holds a slot for
          attempts       \* history: how often dispatch was called for a job that has slots

vars == <<clock, loop, now, never, fire, ready, wakeAt, running, attempts>>

\* Go's zero time, and the zero time plus a delay: both before every clock.
NoTime    == -2
LongSince == -1

\* Mutation: the slot at or after a time.
NextFrom(j, t) ==
  IF j \in never THEN NoTime ELSE ((t + Period[j] - 1) \div Period[j]) * Period[j]

\* schedule.Next: the first slot strictly after a time, or the zero time when cron
\* finds none.
NextSlot(j, t) == IF j \in never THEN NoTime ELSE (t \div Period[j] + 1) * Period[j]

\* A time and a delay.
Add(t, d) == IF t # NoTime THEN t + d ELSE IF d = 0 THEN NoTime ELSE LongSince

\* jitter: a delay in [0, max), none when max is not positive.
Delays(j) == 0..(IF Jitter[j] = 0 THEN 0 ELSE Jitter[j] - 1)

\* Mutation: the jitter brings a job forward.
FiresEarly(j, t) == {Add(NextSlot(j, t), -d) : d \in Delays(j)}

\* advance: the times a job may fire next.
Fires(j, t) == {Add(NextSlot(j, t), d) : d \in Delays(j)}

\* New advances every scheduled job from its own look at the clock.
Init ==
  /\ clock = 0
  /\ loop = "due"
  /\ now = 0
  /\ never \in NeverSets
  /\ fire \in {f \in [Jobs -> UNION {Fires(j, 0) : j \in Jobs}] : \A j \in Jobs : f[j] \in Fires(j, 0)}
  /\ ready = {}
  /\ wakeAt = 0
  /\ running = {}
  /\ attempts = [j \in Jobs |-> 0]

-----------------------------------------------------------------------------
\* Mutation: a job is due only after its time.
IsDueStrict(j) == fire[j] < clock

\* A job whose time has come.
IsDue(j) == fire[j] =< clock

\* due: the jobs whose time has come advance past now, so that a slot missed
\* while the loop was late is not replayed.
Due ==
  /\ loop = "due"
  /\ now' = clock
  /\ ready' = {j \in Jobs : IsDue(j)}
  /\ \E f \in [Jobs -> UNION {Fires(j, clock) \cup {fire[j]} : j \in Jobs}] :
       /\ \A j \in Jobs : IF IsDue(j) THEN f[j] \in Fires(j, clock) ELSE f[j] = fire[j]
       /\ fire' = f
  /\ loop' = "dispatch"
  /\ UNCHANGED <<clock, never, wakeAt, running, attempts>>

\* The gate.
Admits(j) == j \notin running /\ Cardinality(running) < Concurrency

\* Run walks the due jobs in configuration order.
IsFirstReady(j) == j \in ready /\ \A k \in ready : j =< k

\* dispatch: the drill starts, or is dropped until its next slot.
Dispatch(j) ==
  /\ loop = "dispatch" /\ IsFirstReady(j)
  /\ running' = IF Admits(j) THEN running \cup {j} ELSE running
  /\ attempts' = IF j \in never THEN attempts ELSE [attempts EXCEPT ![j] = @ + 1]
  /\ ready' = ready \ {j}
  /\ UNCHANGED <<clock, loop, now, never, fire, wakeAt>>

\* The jobs the search for the soonest fire ends with: it starts over after a job
\* whose time is zero.
Searched == {j \in Jobs : \A k \in Jobs : fire[k] = NoTime => k < j}

\* Mutation: the loop sleeps until the last of its jobs.
Latest(t) == \A j \in Searched : fire[j] =< t

\* The soonest fire.
Soonest(t) == \A j \in Searched : t =< fire[j]

\* The timer is set from the time read before the dispatches.
Sleep ==
  /\ loop = "dispatch" /\ ready = {}
  /\ \/ Searched = {} /\ wakeAt' = NoTime
     \/ \E j \in Searched :
          /\ Soonest(fire[j])
          /\ wakeAt' = clock + (IF fire[j] < now THEN 0 ELSE fire[j] - now)
  /\ loop' = "asleep"
  /\ UNCHANGED <<clock, now, never, fire, ready, running, attempts>>

Wake ==
  /\ loop = "asleep" /\ wakeAt # NoTime /\ wakeAt =< clock
  /\ loop' = "due"
  /\ UNCHANGED <<clock, now, never, fire, ready, wakeAt, running, attempts>>

\* The select takes ctx.Done().
Stop ==
  /\ loop = "asleep"
  /\ loop' = "stopped"
  /\ UNCHANGED <<clock, now, never, fire, ready, wakeAt, running, attempts>>

\* An API run claims the shared gate; a run ends.
RunNow(j) ==
  /\ Admits(j)
  /\ running' = running \cup {j}
  /\ UNCHANGED <<clock, loop, now, never, fire, ready, wakeAt, attempts>>

RunEnds(j) ==
  /\ j \in running
  /\ running' = running \ {j}
  /\ UNCHANGED <<clock, loop, now, never, fire, ready, wakeAt, attempts>>

\* Time passes, by any amount.
Tick ==
  /\ \E t \in (clock + 1)..MaxTime : clock' = t
  /\ UNCHANGED <<loop, now, never, fire, ready, wakeAt, running, attempts>>

Loop == Due \/ (\E j \in Jobs : Dispatch(j)) \/ Sleep \/ Wake

Next == Loop \/ Stop \/ Tick \/ \E j \in Jobs : RunNow(j) \/ RunEnds(j)

Spec == Init /\ [][Next]_vars

\* The loop steps when it can and time goes on.
FairSpec == Spec /\ WF_vars(Loop) /\ WF_vars(Tick)
-----------------------------------------------------------------------------
TypeOK ==
  /\ clock \in 0..MaxTime
  /\ loop \in {"due", "dispatch", "asleep", "stopped"}
  /\ now \in 0..MaxTime
  /\ never \in SUBSET Jobs
  /\ fire \in [Jobs -> Nat \cup {NoTime, LongSince}]
  /\ ready \in SUBSET Jobs
  /\ wakeAt \in Nat \cup {NoTime}
  /\ running \in SUBSET Jobs
  /\ attempts \in [Jobs -> Nat]

\* "downtime produces no backlog burst" (scheduler.go, due): whatever the delay
\* was, and whichever other schedules never match, a job is attempted at most
\* once for each of its slots that have come.
OncePerSlot == \A j \in Jobs \ never : attempts[j] =< clock \div Period[j]

\* With schedules that match, the loop never spins: it goes to sleep only with
\* every job in the future of the time it has read, and the timer is not already
\* over.
NeverSpins ==
  loop = "asleep" /\ never = {} /\ Jobs # {} => wakeAt > now /\ \A j \in Jobs : fire[j] > now

\* With schedules that match: the timer is relative to a clock read before the
\* dispatches, so a job may be overslept, but by no more than what they took.
OversleepsOnlyDispatches ==
  loop = "asleep" /\ never = {} => \A j \in Jobs : wakeAt - fire[j] =< clock - now

\* With schedules that match, a job whose time has come is attempted, unless the
\* daemon is stopped or the timer is beyond the clock's bound: no advance skips a
\* slot that is due.
OutOfTime == clock = MaxTime /\ loop = "asleep" /\ wakeAt > MaxTime

DueIsAttempted ==
  \A j \in Jobs, k \in 0..MaxTime :
    never = {} /\ fire[j] =< clock /\ attempts[j] = k
      ~> attempts[j] > k \/ loop = "stopped" \/ OutOfTime
=============================================================================
