--------------------------- MODULE SchedulerProofs --------------------------
(***************************************************************************)
(* The scheduler's loop for every set of jobs, every period and jitter and *)
(* every clock: no backlog burst, no spinning, a bounded oversleep; the    *)
(* last two as long as every schedule matches some time.                   *)
(***************************************************************************)
EXTENDS Scheduler, TLAPS

\* A later time has as many whole periods behind it, or more.
LEMMA DivMonotone ==
  ASSUME NEW p \in Nat \ {0}, NEW a \in Nat, NEW b \in Nat, a =< b
  PROVE  a \div p \in Nat /\ a \div p =< b \div p
  OBVIOUS

\* A time at or after the k-th slot has k whole periods behind it.
LEMMA DivOfSlot ==
  ASSUME NEW p \in Nat \ {0}, NEW k \in Nat, NEW a \in Nat, k * p =< a
  PROVE  k =< a \div p
  OBVIOUS

\* The slot after a time is after it.
LEMMA SlotAfter ==
  ASSUME NEW p \in Nat \ {0}, NEW t \in Nat
  PROVE  (t \div p + 1) * p \in Nat /\ (t \div p + 1) * p > t
  OBVIOUS

\* advance, whatever the delay drawn: a job whose schedule matches fires after
\* the time, at or after the next slot.
LEMMA FiresLater ==
  ASSUME NEW j \in Jobs \ never, NEW t \in Nat, NEW f \in Fires(j, t)
  PROVE  /\ f \in Nat \ {0}
         /\ f > t
         /\ t \div Period[j] < f \div Period[j]
  <1> DEFINE p == Period[j]
             slot == (t \div p + 1) * p
  <1>1. p \in Nat \ {0} /\ Jitter[j] \in Nat
    BY SchedulerAssumption
  <1>2. slot \in Nat /\ slot > t
    BY <1>1, SlotAfter
  <1>3. PICK d \in Delays(j) : f = Add(slot, d)
    BY DEF Fires, NextSlot
  <1>4. d \in Nat
    BY <1>1 DEF Delays
  <1>5. t \div p \in Nat /\ t \div p + 1 \in Nat
    BY <1>1, DivMonotone
  <1> HIDE DEF slot
  <1>6. f \in Nat /\ slot =< f
    BY <1>2, <1>3, <1>4 DEF Add, NoTime
  <1> USE DEF slot
  <1> HIDE DEF p
  <1>7. t \div p + 1 =< f \div p
    BY <1>1, <1>5, <1>6, DivOfSlot
  <1>8. f \div p \in Nat
    BY <1>1, <1>6, DivMonotone
  <1> QED
    BY <1>2, <1>5, <1>6, <1>7, <1>8 DEF p

\* The other jobs fire at the zero time or shortly after it.
LEMMA FiresNever ==
  ASSUME NEW j \in never, NEW t, NEW f \in Fires(j, t)
  PROVE  f \in {NoTime, LongSince}
  BY DEF Fires, NextSlot, Add

-----------------------------------------------------------------------------
\* A due job that is not yet dispatched is an attempt to come.
Pending(j) == IF j \in ready THEN 1 ELSE 0

\* The times of the loop: it has read the clock, and past due every job that has
\* slots is in the future of what it read.
LoopTimes ==
  /\ now =< clock
  /\ ready # {} => loop = "dispatch"
  /\ \A j \in Jobs \ never : /\ fire[j] \in Nat \ {0}
                             /\ loop \in {"dispatch", "asleep"} => fire[j] > now
  /\ loop = "asleep" /\ never = {} /\ Jobs # {} => wakeAt > now

\* Every attempt, made or to come, used up a slot of its own, and the time the
\* job fires next is at or after one more.
SlotsUsed ==
  \A j \in Jobs \ never :
    /\ attempts[j] + Pending(j) =< now \div Period[j]
    /\ attempts[j] + Pending(j) < fire[j] \div Period[j]

SchedulerInv ==
  /\ TypeOK
  /\ LoopTimes
  /\ SlotsUsed
  /\ OversleepsOnlyDispatches

-----------------------------------------------------------------------------
LEMMA InitSchedulerInv == Init => SchedulerInv
  <1> SUFFICES ASSUME Init PROVE SchedulerInv
    OBVIOUS
  <1>1. MaxTime \in Nat
    BY SchedulerAssumption
  <1>2. \A j \in Jobs \ never : /\ fire[j] \in Nat \ {0}
                                /\ 0 \div Period[j] < fire[j] \div Period[j]
    BY FiresLater DEF Init
  <1>3. \A j \in Jobs : 0 \div Period[j] = 0
    BY SchedulerAssumption
  <1>4. TypeOK
    <2>1. \A j \in Jobs \cap never : fire[j] \in {NoTime, LongSince}
      BY FiresNever DEF Init
    <2>2. fire \in [Jobs -> Nat \cup {NoTime, LongSince}]
      BY <1>2, <2>1 DEF Init
    <2>3. never \in SUBSET Jobs
      BY SchedulerAssumption DEF Init
    <2> QED
      BY <1>1, <2>2, <2>3 DEF Init, TypeOK
  <1>5. SlotsUsed
    BY <1>2, <1>3 DEF Init, SlotsUsed, Pending
  <1>6. LoopTimes
    BY <1>2 DEF Init, LoopTimes
  <1> QED
    BY <1>4, <1>5, <1>6 DEF Init, SchedulerInv, OversleepsOnlyDispatches

\* due: the jobs whose time has come turn their slot into an attempt to come
\* and move to a later one.
LEMMA DueSchedulerInv ==
  ASSUME SchedulerInv, Due
  PROVE  SchedulerInv'
  <1> USE DEF SchedulerInv
  <1>1. clock \in Nat /\ clock \in 0..MaxTime /\ ready = {}
    BY SchedulerAssumption DEF TypeOK, LoopTimes, Due
  <1>2. /\ DOMAIN fire' = Jobs
        /\ fire' = [j \in Jobs |-> fire'[j]]
        /\ \A j \in Jobs : IF IsDue(j) THEN fire'[j] \in Fires(j, clock) ELSE fire'[j] = fire[j]
    BY DEF Due
  <1>3. \A j \in Jobs \ never : /\ fire'[j] \in Nat \ {0}
                                /\ fire'[j] > clock
    BY <1>1, <1>2, FiresLater DEF LoopTimes, IsDue
  <1>4. TypeOK'
    <2>1. \A j \in Jobs \cap never : fire'[j] \in {NoTime, LongSince, fire[j]}
      BY <1>2, FiresNever
    <2>2. fire' \in [Jobs -> Nat \cup {NoTime, LongSince}]
      BY <1>2, <1>3, <2>1 DEF TypeOK
    <2> QED
      BY <1>1, <2>2 DEF TypeOK, Due
  <1>5. LoopTimes'
    BY <1>1, <1>3 DEF LoopTimes, Due
  <1>6. SlotsUsed'
    <2> SUFFICES ASSUME NEW j \in Jobs \ never
                 PROVE  /\ attempts[j] + Pending(j)' =< clock \div Period[j]
                        /\ attempts[j] + Pending(j)' < fire'[j] \div Period[j]
      BY DEF SlotsUsed, Due
    <2>1. Period[j] \in Nat \ {0} /\ attempts[j] \in Nat /\ fire[j] \in Nat /\ now \in Nat /\ now =< clock
      BY SchedulerAssumption DEF TypeOK, LoopTimes
    <2>2. /\ attempts[j] =< now \div Period[j]
          /\ attempts[j] < fire[j] \div Period[j]
      BY <1>1, <2>1 DEF SlotsUsed, Pending
    <2>3. /\ now \div Period[j] \in Nat /\ clock \div Period[j] \in Nat
          /\ now \div Period[j] =< clock \div Period[j]
      BY <1>1, <2>1, DivMonotone
    <2>4. CASE IsDue(j)
      <3>1. Pending(j)' = 1
        BY <2>4 DEF Pending, Due
      <3>2. fire[j] \div Period[j] \in Nat /\ fire[j] \div Period[j] =< clock \div Period[j]
        BY <1>1, <2>1, <2>4, DivMonotone DEF IsDue
      <3>3. clock \div Period[j] < fire'[j] \div Period[j]
        BY <1>1, <1>2, <2>4, FiresLater
      <3>4. fire'[j] \div Period[j] \in Nat
        BY <1>3, <2>1, DivMonotone
      <3> QED
        BY <2>1, <2>2, <2>3, <3>1, <3>2, <3>3, <3>4
    <2>5. CASE ~IsDue(j)
      <3>1. Pending(j)' = 0 /\ fire'[j] = fire[j]
        BY <1>2, <2>5 DEF Pending, Due
      <3> QED
        BY <2>1, <2>2, <2>3, <3>1
    <2> QED
      BY <2>4, <2>5
  <1>7. OversleepsOnlyDispatches'
    BY DEF OversleepsOnlyDispatches, Due
  <1> QED
    BY <1>4, <1>5, <1>6, <1>7

\* dispatch: the attempt to come is made.
LEMMA DispatchSchedulerInv ==
  ASSUME SchedulerInv, NEW d \in Jobs, Dispatch(d)
  PROVE  SchedulerInv'
  <1> USE DEF SchedulerInv
  <1>1. TypeOK'
    BY DEF TypeOK, Dispatch
  <1>2. LoopTimes'
    BY DEF LoopTimes, Dispatch
  <1>3. \A j \in Jobs \ never : attempts'[j] + Pending(j)' = attempts[j] + Pending(j)
    BY DEF TypeOK, Dispatch, IsFirstReady, Pending
  <1>4. SlotsUsed'
    BY <1>3 DEF SlotsUsed, Dispatch
  <1>5. OversleepsOnlyDispatches'
    BY DEF OversleepsOnlyDispatches, Dispatch
  <1> QED
    BY <1>1, <1>2, <1>4, <1>5

\* The timer covers the distance to the soonest fire from the time read, on top
\* of a clock that has gone on.
LEMMA SleepSchedulerInv ==
  ASSUME SchedulerInv, Sleep
  PROVE  SchedulerInv'
  <1> USE DEF SchedulerInv
  <1>1. /\ clock \in Nat /\ now \in Nat /\ now =< clock
        /\ \A j \in Jobs \ never : fire[j] \in Nat /\ fire[j] > now
    BY SchedulerAssumption DEF TypeOK, LoopTimes, Sleep
  <1>2. ASSUME never = {}, Jobs # {}
        PROVE  /\ wakeAt' > now
               /\ \A j \in Jobs : wakeAt' - fire[j] =< clock - now
    <2>1. Searched = Jobs
      BY <1>1, <1>2 DEF Searched, NoTime
    <2>2. PICK k \in Jobs : Soonest(fire[k]) /\ wakeAt' = clock + (fire[k] - now)
      BY <1>1, <1>2, <2>1 DEF Sleep
    <2> QED
      BY <1>1, <1>2, <2>1, <2>2 DEF Soonest
  <1>3. wakeAt' \in Nat \cup {NoTime}
    <2>1. \A j \in Jobs : fire[j] \in Int
      BY DEF TypeOK, NoTime, LongSince
    <2>2. ASSUME NEW j \in Searched,
                 wakeAt' = clock + (IF fire[j] < now THEN 0 ELSE fire[j] - now)
          PROVE  wakeAt' \in Nat
      BY <1>1, <2>1, <2>2 DEF Searched
    <2> QED
      BY <2>2 DEF Sleep
  <1>4. TypeOK'
    BY <1>3 DEF TypeOK, Sleep
  <1>5. LoopTimes'
    BY <1>1, <1>2 DEF LoopTimes, Sleep
  <1>6. SlotsUsed'
    BY DEF SlotsUsed, Sleep, Pending
  <1>7. OversleepsOnlyDispatches'
    BY <1>2 DEF OversleepsOnlyDispatches, Sleep
  <1> QED
    BY <1>4, <1>5, <1>6, <1>7

\* The other steps move the loop, the clock or the gate, and no job.
LEMMA OtherSchedulerInv ==
  ASSUME SchedulerInv,
         \/ Wake \/ Stop \/ Tick
         \/ \E j \in Jobs : RunNow(j) \/ RunEnds(j)
         \/ UNCHANGED vars
  PROVE  SchedulerInv'
  <1> USE DEF SchedulerInv
  <1>1. /\ UNCHANGED <<now, never, fire, ready, wakeAt, attempts>>
        /\ loop' \in {loop, "due", "stopped"} /\ (loop' # loop => loop = "asleep")
        /\ clock' \in 0..MaxTime /\ clock =< clock'
        /\ running' \in SUBSET Jobs
    <2>1. clock \in Nat /\ MaxTime \in Nat /\ clock \in 0..MaxTime
      BY SchedulerAssumption DEF TypeOK
    <2>2. CASE Wake \/ Stop
      BY <2>1, <2>2 DEF TypeOK, Wake, Stop
    <2>3. CASE Tick
      BY <2>1, <2>3 DEF TypeOK, Tick
    <2>4. CASE \E j \in Jobs : RunNow(j) \/ RunEnds(j)
      BY <2>1, <2>4 DEF TypeOK, RunNow, RunEnds
    <2>5. CASE UNCHANGED vars
      BY <2>1, <2>5 DEF TypeOK, vars
    <2> QED
      BY <2>2, <2>3, <2>4, <2>5
  <1>2. TypeOK'
    BY <1>1 DEF TypeOK
  <1>3. /\ now \in Nat /\ clock \in Nat /\ clock' \in Nat /\ wakeAt \in Int
        /\ \A j \in Jobs : fire[j] \in Int
    BY <1>1, SchedulerAssumption DEF TypeOK, NoTime, LongSince
  <1>4. LoopTimes'
    BY <1>1, <1>3 DEF LoopTimes
  <1>5. SlotsUsed'
    BY <1>1 DEF SlotsUsed, Pending
  <1>6. OversleepsOnlyDispatches'
    BY <1>1, <1>3 DEF OversleepsOnlyDispatches
  <1> QED
    BY <1>2, <1>4, <1>5, <1>6

\* SchedulerInv is inductive.
LEMMA SchedulerInvariant == Spec => []SchedulerInv
  <1>1. SchedulerInv /\ [Next]_vars => SchedulerInv'
    BY DueSchedulerInv, DispatchSchedulerInv, SleepSchedulerInv, OtherSchedulerInv DEF Next, Loop
  <1> QED
    BY <1>1, InitSchedulerInv, PTL DEF Spec

\* The loop's state stays well typed: the timer is never negative, although the
\* wait is a difference of two times and a schedule that matches nothing yields
\* the zero time.
THEOREM SchedulerTypeOK == Spec => []TypeOK
  BY SchedulerInvariant, PTL DEF SchedulerInv

-----------------------------------------------------------------------------
\* scheduler.go, due, "downtime produces no backlog burst": for any period and
\* jitter, however late the loop wakes and whichever other schedules match nothing,
\* a job is attempted at most once for each of its slots that have come.
THEOREM NoBacklogBurst == Spec => []OncePerSlot
  <1>1. SchedulerInv => OncePerSlot
    <2> SUFFICES ASSUME SchedulerInv, NEW j \in Jobs \ never
                 PROVE  attempts[j] =< clock \div Period[j]
      BY DEF OncePerSlot
    <2>1. /\ Period[j] \in Nat \ {0} /\ attempts[j] \in Nat
          /\ now \in Nat /\ clock \in Nat /\ now =< clock
      BY SchedulerAssumption DEF SchedulerInv, TypeOK, LoopTimes
    <2>2. attempts[j] + Pending(j) =< now \div Period[j] /\ Pending(j) \in Nat
      BY DEF SchedulerInv, SlotsUsed, Pending
    <2>3. /\ now \div Period[j] \in Nat /\ clock \div Period[j] \in Nat
          /\ now \div Period[j] =< clock \div Period[j]
      BY <2>1, DivMonotone
    <2> QED
      BY <2>1, <2>2, <2>3
  <1> QED
    BY <1>1, SchedulerInvariant, PTL

\* scheduler.go, Run: when every schedule matches, the loop never goes to sleep with a job that is due at the
\* time it read, nor on a timer that is already over, so it does not spin.
THEOREM LoopNeverSpins == Spec => []NeverSpins
  <1>1. SchedulerInv => NeverSpins
    BY DEF SchedulerInv, LoopTimes, NeverSpins
  <1> QED
    BY <1>1, SchedulerInvariant, PTL

\* scheduler.go, Run: the wait is counted from the time read before the
\* dispatches, so, when every schedule matches, no job is overslept by more than
\* they took.
THEOREM OversleepBounded == Spec => []OversleepsOnlyDispatches
  <1>1. SchedulerInv => OversleepsOnlyDispatches
    BY DEF SchedulerInv
  <1> QED
    BY <1>1, SchedulerInvariant, PTL
=============================================================================
