------------------------------- MODULE Alerter ------------------------------
(***************************************************************************)
(* The alerter of the daemon (cmd/redrill/notify.go) for one drill: what   *)
(* is sent after a run, when the proof SLA is missed, and in the weekly    *)
(* digest.  Two goroutines share the stale flag: the run goroutine         *)
(* (afterRun) and the sweeper (runSweeps).  Each holds the mutex only to   *)
(* read or write the flag and uses the store and the sender outside of it, *)
(* so the other one steps in between.                                      *)
(*                                                                         *)
(* A run is abstracted to the row it leaves and the proof it writes        *)
(* (RunLifecycle.tla has the run).  CLI runs write rows and proofs of the  *)
(* same drill and alert nobody.                                            *)
(***************************************************************************)
EXTENDS Integers, FiniteSets

CONSTANTS MaxProofAge,   \* max_proof_age, 0 when there is no SLA
          MaxCount,      \* retention.max_count, 0 when unset
          Week,          \* the ticks between two digest slots
          MaxRuns,       \* bound: rows ever created
          MaxTime,       \* bound: the clock
          MaxFaults,     \* bound: failed reads of the store
          MaxCrashes     \* bound: restarts of the daemon

ASSUME AlerterAssumption ==
  /\ MaxProofAge \in Nat /\ MaxCount \in Nat /\ Week \in Nat \ {0}
  /\ MaxRuns \in Nat /\ MaxTime \in Nat \ {0} /\ MaxFaults \in Nat
  /\ MaxCrashes \in Nat

VARIABLES
  lastId, result,    \* the runs table, as in RunLifecycle
  proof,             \* last_proven_at of the headline level, 0 when never
  clock, faults, crashes,
  stale,             \* alerter.stale of the drill
  digestMark,        \* alerter.digestMark
  runner,            \* where the run goroutine is
  own,               \* the id, start and verdict of the daemon's run
  seen,              \* afterRun: wasStale, and the previous verdict
  cli,               \* the id and start of a CLI run, id 0 when there is none
  sweeper,           \* where runSweeps is
  swept,             \* sweepStale: whether it found the drill stale
  digestAt,          \* maybeDigest: now
  \* History, for the properties only.
  alerts,            \* the events sent about bad runs
  episode,           \* a stale alert was raised and the SLA is missed ever since
  recovered,         \* afterRun has decided on a recover since that alert
  raised,            \* the flag was raised and no recover accounts for it
  cause,             \* the same, as it was when afterRun read the flag
  badRows,           \* the rows that turned bad and no recover accounts for
  digested           \* the last digest slot that was sent

store   == <<lastId, result, proof>>
after   == <<runner, own, seen>>
sweep   == <<sweeper, swept, digestAt>>
history == <<alerts, episode, recovered, raised, cause, badRows, digested>>
vars    == <<store, clock, faults, crashes, stale, digestMark, after, cli, sweep, history>>

RunIds   == 1..MaxRuns
Bad      == {"fail", "error"}
Verdicts == Bad \cup {"pass"}

Unread == [wasStale |-> FALSE, prev |-> "none"]

NoRun == [id |-> 0, start |-> 0, verdict |-> "none"]

\* Stale: missing or too old, if there is an SLA at all.
Stale(proven, now) == MaxProofAge > 0 /\ (proven = 0 \/ now - proven > MaxProofAge)

IsStale == Stale(proof, clock)

\* The digest slots and the last of them at or before a time, 0 when none.
Slots == {t \in 1..MaxTime : t % Week = 0}

LastSlot(t) == IF t < Week THEN 0 ELSE t - (t % Week)

Init ==
  /\ lastId = 0
  /\ result = [i \in RunIds |-> "absent"]
  /\ proof = 0
  /\ clock = 1
  /\ faults = 0 /\ crashes = 0
  /\ stale = FALSE
  /\ digestMark = clock
  /\ runner = "idle"
  /\ own = NoRun
  /\ seen = Unread
  /\ cli = NoRun
  /\ sweeper = "first"
  /\ swept = FALSE
  /\ digestAt = 0
  /\ alerts = {}
  /\ episode = FALSE /\ recovered = FALSE /\ raised = FALSE /\ cause = FALSE
  /\ badRows = {}
  /\ digested = 0

-----------------------------------------------------------------------------
\* The store.

Exists(i) == result[i] \notin {"absent", "pruned"}

\* Retention, as RunLifecycle.tla has it, by count.
Newer(i) == {j \in RunIds : j > i /\ Exists(j)}

Pruned(res) ==
  [i \in RunIds |-> IF MaxCount > 0 /\ Exists(i) /\ Cardinality(Newer(i)) >= MaxCount
                    THEN "pruned" ELSE res[i]]

CreateRow ==
  /\ lastId < MaxRuns
  /\ lastId' = lastId + 1
  /\ result' = [result EXCEPT ![lastId + 1] = "open"]

\* A run ends with a verdict.  The headline level is proven only by a pass, and
\* not by every pass: it may have been skipped.  Retention comes last, if the
\* run gets that far.
EndRow(r, verdict, proves, prunes) ==
  LET res == [result EXCEPT ![r.id] = verdict] IN
  /\ result[r.id] = "open"
  /\ proves => verdict = "pass"
  /\ proof' = IF proves /\ r.start > proof THEN r.start ELSE proof
  /\ result' = IF prunes THEN Pruned(res) ELSE res

\* A store read that fails.
Fault == faults < MaxFaults /\ faults' = faults + 1

\* The history of a step that decides on nothing.
Episode ==
  /\ episode' = (episode /\ IsStale')
  /\ recovered' = (recovered /\ IsStale')

BadRows == badRows' = badRows \cup {i \in RunIds : result[i] = "open" /\ result'[i] \in Bad}

Silent ==
  /\ Episode
  /\ BadRows
  /\ UNCHANGED <<alerts, raised, cause, digested>>

-----------------------------------------------------------------------------
\* The run goroutine.

RunStarts ==
  /\ runner = "idle"
  /\ CreateRow
  /\ own' = [id |-> lastId + 1, start |-> clock, verdict |-> "none"]
  /\ runner' = "running"
  /\ UNCHANGED <<proof, clock, faults, crashes, stale, digestMark, seen, cli, sweep>>
  /\ Silent

\* Run returns a result and runOnce goes on to afterRun.
RunEnds(verdict, proves) ==
  /\ runner = "running"
  /\ EndRow(own, verdict, proves, TRUE)
  /\ own' = [own EXCEPT !.verdict = verdict]
  /\ runner' = "flag"
  /\ UNCHANGED <<lastId, clock, faults, crashes, stale, digestMark, seen, cli, sweep>>
  /\ Silent

\* Run returns an error and runOnce returns without afterRun: the context
\* expired during a level or the store failed, and the deferred FinishRun has
\* put error in the row; or RecordProof failed after a pass.
RunAborts(verdict) ==
  /\ runner = "running"
  /\ EndRow(own, verdict, FALSE, FALSE)
  /\ own' = NoRun
  /\ runner' = "idle"
  /\ UNCHANGED <<lastId, clock, faults, crashes, stale, digestMark, seen, cli, sweep>>
  /\ Silent

\* The row was pruned under the run by a CLI run's retention: FinishRun and the
\* deferred one fail, and runOnce returns the error.
RunLosesRow ==
  /\ runner = "running" /\ result[own.id] # "open"
  /\ own' = NoRun
  /\ runner' = "idle"
  /\ UNCHANGED <<store, clock, faults, crashes, stale, digestMark, seen, cli, sweep>>
  /\ Silent

\* afterRun reads the flag under the mutex.
ReadFlag ==
  /\ runner = "flag"
  /\ seen' = [seen EXCEPT !.wasStale = stale]
  /\ runner' = "prev"
  /\ cause' = raised /\ raised' = FALSE
  /\ UNCHANGED <<store, clock, faults, crashes, stale, digestMark, own, cli, sweep, alerts,
                 badRows, digested>>
  /\ Episode

\* prevResult: of the two newest rows, the verdict of the first older than the
\* run; none if the read fails.
Newest(n) == {i \in RunIds : Exists(i) /\ Cardinality(Newer(i)) < n}

Candidates == {i \in Newest(2) : i < own.id /\ result[i] \in Verdicts}

PrevResult(prev) ==
  \/ Candidates = {} /\ prev = "none"
  \/ \E i \in Candidates : (\A j \in Candidates : j =< i) /\ prev = result[i]

ReadPrev ==
  /\ runner = "prev"
  /\ \/ UNCHANGED faults
        /\ \E prev \in Verdicts \cup {"none"} :
             PrevResult(prev) /\ seen' = [seen EXCEPT !.prev = prev]
     \/ Fault /\ seen' = [seen EXCEPT !.prev = "none"]
  /\ runner' = "classify"
  /\ UNCHANGED <<store, clock, crashes, stale, digestMark, own, cli, sweep>>
  /\ Silent

\* Mutation: an error is not worth an event.
ClassifyRunQuiet ==
  IF own.verdict = "fail" THEN "fail"
  ELSE IF own.verdict = "pass" /\ (seen.wasStale \/ seen.prev \in Bad) THEN "recover"
  ELSE "silent"

\* Mutation: a first pass counts as a recovery.
ClassifyRunFirst ==
  IF own.verdict \in Bad THEN own.verdict
  ELSE IF seen.wasStale \/ seen.prev # "pass" THEN "recover"
  ELSE "silent"

\* ClassifyRun.
ClassifyRun ==
  IF own.verdict \in Bad THEN own.verdict
  ELSE IF seen.wasStale \/ seen.prev \in Bad THEN "recover"
  ELSE "silent"

\* afterRun returns, or clears the flag of a drill that passed.
Classify ==
  /\ runner = "classify"
  /\ IF ClassifyRun = "silent"
     THEN runner' = "idle" /\ own' = NoRun /\ seen' = Unread /\ UNCHANGED stale
     ELSE /\ runner' = "send" /\ UNCHANGED <<own, seen>>
          /\ stale' = (stale /\ own.verdict # "pass")
  /\ cause' = FALSE /\ raised' = (raised \/ (cause /\ ClassifyRun # "recover"))
  /\ badRows' = {i \in badRows : ClassifyRun = "recover" => i > own.id}
  /\ recovered' = (episode /\ (recovered \/ ClassifyRun = "recover"))
  /\ UNCHANGED <<store, clock, faults, crashes, digestMark, cli, sweep, alerts, episode, digested>>

\* Dispatch, delivered or not.
SendRunEvent ==
  /\ runner = "send"
  /\ alerts' = alerts \cup {[run |-> i, event |-> e] : i \in {own.id}, e \in {ClassifyRun} \cap Bad}
  /\ runner' = "idle"
  /\ own' = NoRun
  /\ seen' = Unread
  /\ UNCHANGED <<store, clock, faults, crashes, stale, digestMark, cli, sweep, raised,
                 cause, badRows, digested>>
  /\ Episode

-----------------------------------------------------------------------------
\* The sweeper.

\* sweepStale reads the proof and the clock; a failed read looks like a drill
\* that was never proven.
ReadProof ==
  /\ sweeper \in {"first", "tick"}
  /\ \/ UNCHANGED faults /\ swept' = Stale(proof, clock)
     \/ Fault /\ swept' = Stale(0, clock)
  /\ sweeper' = IF sweeper = "first" THEN "firstFlag" ELSE "flag"
  /\ UNCHANGED <<store, clock, crashes, stale, digestMark, after, cli, digestAt>>
  /\ Silent

\* Mutation: the flag of a drill that is fresh again stays.
SweepFlagStays(already) ==
  /\ stale' = (stale \/ swept)
  /\ sweeper' = IF swept /\ ~ already
                THEN IF sweeper = "firstFlag" THEN "firstSend" ELSE "send"
                ELSE IF sweeper = "firstFlag" THEN "wait" ELSE "digest"

\* Mutation: the alert does not look at the flag.
SweepIgnoresFlag(already) ==
  /\ stale' = swept
  /\ sweeper' = IF swept
                THEN IF sweeper = "firstFlag" THEN "firstSend" ELSE "send"
                ELSE IF sweeper = "firstFlag" THEN "wait" ELSE "digest"

\* The flag follows what was read; only a drill that was not flagged alerts.
SweepFlag(already) ==
  /\ stale' = swept
  /\ sweeper' = IF swept /\ ~ already
                THEN IF sweeper = "firstFlag" THEN "firstSend" ELSE "send"
                ELSE IF sweeper = "firstFlag" THEN "wait" ELSE "digest"

\* The critical section of sweepStale.
MarkStale ==
  /\ sweeper \in {"firstFlag", "flag"}
  /\ SweepFlag(stale)
  /\ swept' = FALSE
  /\ raised' = (raised \/ (swept /\ ~ stale))
  /\ IF sweeper' \in {"firstSend", "send"}
     THEN episode' = IsStale /\ recovered' = FALSE
     ELSE UNCHANGED <<episode, recovered>>
  /\ UNCHANGED <<store, clock, faults, crashes, digestMark, after, cli, digestAt, alerts,
                 cause, badRows, digested>>

SendStale ==
  /\ sweeper \in {"firstSend", "send"}
  /\ sweeper' = IF sweeper = "firstSend" THEN "wait" ELSE "digest"
  /\ UNCHANGED <<store, clock, faults, crashes, stale, digestMark, after, cli, swept, digestAt>>
  /\ Silent

\* maybeDigest spends every slot up to now in one critical section.
DigestDue == \E t \in Slots : digestMark < t /\ t =< clock

MaybeDigest ==
  /\ sweeper = "digest"
  /\ IF DigestDue
     THEN digestMark' = clock /\ digestAt' = clock /\ sweeper' = "digestSend"
     ELSE sweeper' = "wait" /\ UNCHANGED <<digestMark, digestAt>>
  /\ UNCHANGED <<store, clock, faults, crashes, stale, after, cli, swept>>
  /\ Silent

SendDigest ==
  /\ sweeper = "digestSend"
  /\ digested' = LastSlot(digestAt)
  /\ sweeper' = "wait"
  /\ digestAt' = 0
  /\ UNCHANGED <<store, clock, faults, crashes, stale, digestMark, after, cli, swept, alerts,
                 raised, cause, badRows>>
  /\ Episode

\* The hourly ticker.
NextTick ==
  /\ sweeper = "wait"
  /\ sweeper' = "tick"
  /\ UNCHANGED <<store, clock, faults, crashes, stale, digestMark, after, cli, swept, digestAt>>
  /\ Silent

-----------------------------------------------------------------------------
\* The rest of the world.

CliStarts ==
  /\ cli = NoRun
  /\ CreateRow
  /\ cli' = [id |-> lastId + 1, start |-> clock, verdict |-> "none"]
  /\ UNCHANGED <<proof, clock, faults, crashes, stale, digestMark, after, sweep>>
  /\ Silent

\* Its Run returns a result, or an error as in RunAborts.
CliEnds(verdict, proves, prunes) ==
  /\ cli # NoRun
  /\ prunes \/ (verdict \in {"error", "pass"} /\ ~ proves)
  /\ EndRow(cli, verdict, proves, prunes)
  /\ cli' = NoRun
  /\ UNCHANGED <<lastId, clock, faults, crashes, stale, digestMark, after, sweep>>
  /\ Silent

\* The row was reaped or pruned under the CLI run, or its process was killed.
CliLosesRow ==
  /\ cli # NoRun
  /\ cli' = NoRun
  /\ UNCHANGED <<store, clock, faults, crashes, stale, digestMark, after, sweep>>
  /\ Silent

\* Mutation: a new alerter counts the digest slots from the beginning of time.
NewAlerterFromZero == stale' = FALSE /\ digestMark' = 0

\* newAlerter: no flag, and no digest for a slot that has passed.
NewAlerter == stale' = FALSE /\ digestMark' = clock

\* The daemon is killed and started again: MarkAbandonedRuns, a new alerter.
Restart ==
  /\ crashes < MaxCrashes /\ crashes' = crashes + 1
  /\ result' = [i \in RunIds |-> IF result[i] = "open" THEN "error" ELSE result[i]]
  /\ NewAlerter
  /\ runner' = "idle" /\ own' = NoRun
  /\ seen' = Unread
  /\ sweeper' = "first" /\ swept' = FALSE /\ digestAt' = 0
  /\ episode' = FALSE /\ recovered' = FALSE
  /\ raised' = FALSE /\ cause' = FALSE
  /\ BadRows
  /\ UNCHANGED <<lastId, proof, clock, faults, cli, alerts, digested>>

Tick ==
  /\ clock < MaxTime
  /\ clock' = clock + 1
  /\ UNCHANGED <<store, faults, crashes, stale, digestMark, after, cli, sweep>>
  /\ Silent

\* The steps the run goroutine takes by itself.
AfterRun == ReadFlag \/ ReadPrev \/ Classify \/ SendRunEvent

RunGoroutine ==
  \/ \E v \in Verdicts, b \in BOOLEAN : RunEnds(v, b)
  \/ \E v \in {"error", "pass"} : RunAborts(v)
  \/ RunLosesRow
  \/ AfterRun

Sweeper == ReadProof \/ MarkStale \/ SendStale \/ MaybeDigest \/ SendDigest \/ NextTick

Next ==
  \/ RunStarts
  \/ RunGoroutine
  \/ Sweeper
  \/ CliStarts
  \/ \E v \in Verdicts, b, c \in BOOLEAN : CliEnds(v, b, c)
  \/ CliLosesRow
  \/ Restart
  \/ Tick

Spec == Init /\ [][Next]_vars

\* The ticker keeps firing and afterRun, once called, goes on; no run is owed
\* an end, which without a timeout it need not have.
FairSpec == Spec /\ WF_vars(Sweeper) /\ WF_vars(AfterRun)
-----------------------------------------------------------------------------
StoreOK ==
  /\ lastId \in 0..MaxRuns
  /\ result \in [RunIds -> Verdicts \cup {"absent", "open", "pruned"}]
  /\ proof \in 0..MaxTime
  /\ clock \in 1..MaxTime
  /\ faults \in 0..MaxFaults
  /\ crashes \in 0..MaxCrashes

RunnerOK ==
  /\ runner \in {"idle", "running", "flag", "prev", "classify", "send"}
  /\ own \in [id : 0..MaxRuns, start : 0..MaxTime, verdict : Verdicts \cup {"none"}]
  /\ seen \in [wasStale : BOOLEAN, prev : Verdicts \cup {"none"}]
  /\ cli \in [id : 0..MaxRuns, start : 0..MaxTime, verdict : {"none"}]
  /\ runner # "idle" => own.id \in 1..lastId
  /\ runner \in {"flag", "prev", "classify", "send"} => own.verdict \in Verdicts
  /\ cli # NoRun => cli.id \in 1..lastId

SweeperOK ==
  /\ stale \in BOOLEAN
  /\ digestMark \in 0..MaxTime
  /\ sweeper \in {"first", "tick", "firstFlag", "flag", "firstSend", "send", "digest",
                  "digestSend", "wait"}
  /\ swept \in BOOLEAN
  /\ digestAt \in 0..MaxTime

HistoryOK ==
  /\ alerts \subseteq [run : RunIds, event : Bad]
  /\ episode \in BOOLEAN /\ recovered \in BOOLEAN /\ raised \in BOOLEAN /\ cause \in BOOLEAN
  /\ badRows \subseteq RunIds
  /\ digested \in 0..MaxTime

TypeOK == StoreOK /\ RunnerOK /\ SweeperOK /\ HistoryOK

\* The sweeper decides on a stale alert.
RaisesStale == MarkStale /\ sweeper' \in {"firstSend", "send"}

\* "a stale episode alerts once, not every tick" (notify.go), up to the passes
\* in between: while the SLA is missed without a break a second alert is raised
\* only if afterRun has decided on a recover since the first.
NoRepeatWithoutRecover == [][RaisesStale /\ IsStale /\ episode => recovered]_vars

\* The flag follows the SLA, whatever order afterRun's and the sweeper's
\* critical sections came in and whatever reads failed: a drill that misses it
\* without being flagged is flagged (again) or proven, and one that stays within
\* it is, in the end, not flagged any more.  The first is no more than that: a
\* pass without the headline level takes the flag of a drill that is still
\* stale (afterRun, notify.go) each time, and the next sweep raises it again.
FlagTracksSLA ==
  /\ IsStale /\ ~ stale ~> stale \/ ~ IsStale
  /\ <>[](~ IsStale) => <>[](~ stale)

\* A run that came back from the orchestrator with a bad verdict is alerted
\* about, unless the daemon is killed first.
BadRunAlerted ==
  \A i \in RunIds, v \in Bad, c \in 0..MaxCrashes :
    runner = "flag" /\ own.id = i /\ own.verdict = v /\ crashes = c
      ~> [run |-> i, event |-> v] \in alerts \/ crashes > c

\* A recovery is never announced out of the blue, nor twice for one trouble:
\* either a run before this one ended badly, or the sweeper raised the flag, and
\* no recovery was announced for that yet.
RecoverJustified ==
  [][Classify /\ ClassifyRun = "recover" =>
       cause \/ raised \/ \E i \in badRows : i < own.id]_vars

\* "at most once per slot", and "a restart cannot duplicate a digest"
\* (notify.go): every digest is for a later slot than the one before.
DigestOncePerSlot == [][SendDigest => digested' > digested]_vars

\* "that timeout is often why we're alerting" (notify.go, afterRun): when the
\* daemon's run has given its row a bad verdict and is over, an alert about it
\* was sent.
BadRowAlerted ==
  [][runner # "idle" /\ runner' = "idle" /\ result'[own.id] \in Bad /\ ~ Restart
     => \E a \in alerts' : a.run = own.id]_vars
=============================================================================
