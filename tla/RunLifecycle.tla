---------------------------- MODULE RunLifecycle ----------------------------
(***************************************************************************)
(* A run of one drill from its row to its proofs: the orchestrator         *)
(* (internal/orchestrate/orchestrate.go, Run) over the SQLite store        *)
(* (internal/store), carried out by the daemon and by `redrill run`        *)
(* processes that share the database file without sharing the gate.  Every *)
(* statement on the store is one step, because that is what SQLite makes   *)
(* atomic; between any two of them another process may step, the run's     *)
(* context may expire, a write may fail, or the process may be killed.     *)
(*                                                                         *)
(* The executor's answer for a level is nondeterministic, except that L2   *)
(* restores files and cannot pass outside the file-count tolerance.        *)
(***************************************************************************)
EXTENDS Integers, FiniteSets

CONSTANTS Procs,        \* the processes that run the drill
          Daemon,       \* the one of them that is `redrill serve`
          Levels,       \* the configured levels, of 1, 2 and 3
          FileCounts,   \* the file counts an L2 restore may yield
          Tolerance,    \* file_count_tolerance_pct
          MaxCount,     \* retention.max_count, 0 when unset
          MaxAge,       \* retention.max_age, 0 when unset
          MaxRuns,      \* bound: rows ever created
          MaxTime,      \* bound: the clock
          MaxFaults     \* bound: store statements that fail

ASSUME RunAssumption ==
  /\ Daemon \in Procs
  /\ Levels \in SUBSET (1..3) /\ Levels # {}
  /\ FileCounts \in SUBSET Nat
  /\ Tolerance \in Nat /\ MaxCount \in Nat /\ MaxAge \in Nat
  /\ MaxRuns \in Nat /\ MaxTime \in Nat \ {0} /\ MaxFaults \in Nat

VARIABLES
  \* The database.
  lastId,     \* the AUTOINCREMENT sequence of runs.id
  result,     \* runs.result, with "absent" and "pruned" for rows not there
  started,    \* runs.started_at
  files,      \* runs.files_restored
  steps,      \* run_steps: a level's recorded status
  proof,      \* drill_state.last_proven_at, 0 when never proven
  counter,    \* drill_counters.bytes_restored_total, in restored files
  \* The processes.
  pc,         \* where Run is
  ctx,        \* the run's context: "live" or "done"
  run,        \* runID
  start,      \* start, the run's logical clock
  end,        \* end, the clock of the retention
  selected,   \* the levels this run executes
  outcome,    \* result.Levels
  restored,   \* st.files
  baseline,   \* prevFileCount
  unproven,   \* the passed levels RecordProof has not written yet
  \* The world.
  clock, faults,
  \* History, for the properties only.
  verdicts    \* what FinishRun has recorded at the end of a run

db    == <<lastId, result, started, files, steps, proof, counter>>
local == <<ctx, run, start, end, selected, outcome, restored, baseline, unproven>>
vars  == <<db, pc, local, clock, faults, verdicts>>

RunIds   == 1..MaxRuns
Verdicts == {"pass", "fail", "error"}
Statuses == Verdicts \cup {"skipped"}
NoSteps  == [l \in Levels |-> "none"]

Init ==
  /\ lastId = 0
  /\ result = [i \in RunIds |-> "absent"]
  /\ started = [i \in RunIds |-> 0]
  /\ files = [i \in RunIds |-> 0]
  /\ steps = [i \in RunIds |-> NoSteps]
  /\ proof = [l \in Levels |-> 0]
  /\ counter = 0
  /\ pc = [p \in Procs |-> "idle"]
  /\ ctx = [p \in Procs |-> "live"]
  /\ run = [p \in Procs |-> 0]
  /\ start = [p \in Procs |-> 0]
  /\ end = [p \in Procs |-> 0]
  /\ selected = [p \in Procs |-> {}]
  /\ outcome = [p \in Procs |-> NoSteps]
  /\ restored = [p \in Procs |-> 0]
  /\ baseline = [p \in Procs |-> 0]
  /\ unproven = [p \in Procs |-> {}]
  /\ clock = 1
  /\ faults = 0
  /\ verdicts = {}

-----------------------------------------------------------------------------
\* Pure parts.

\* aggregateRun: fail dominates error dominates pass; nothing executed is an
\* error.
aggregateRun(out) ==
  LET seen == {out[l] : l \in Levels} IN
  IF seen \cap Verdicts = {} THEN "error"
  ELSE IF "fail" \in seen THEN "fail"
  ELSE IF "error" \in seen THEN "error"
  ELSE "pass"

\* selectLevels: all configured levels, or the one `--level` names.  The
\* daemon never filters.
selectLevels(p) == IF p = Daemon THEN {Levels} ELSE {Levels} \cup {{l} : l \in Levels}

\* A level that executed and did not pass short-circuits the ones above it.
shortCircuit(out) == \E l \in Levels : out[l] \in {"fail", "error"}

Todo(p) == {l \in selected[p] : outcome[p][l] = "none"}

\* The level runLevel is at: the highest with an outcome.
AtLevel(p, l) ==
  /\ outcome[p][l] # "none"
  /\ \A k \in Levels : k > l => outcome[p][k] = "none"

PassedLevels(out) == {l \in Levels : out[l] = "pass"}

\* FileCountTolerance: without a baseline it passes.
WithinTolerance(count, prev) ==
  prev = 0 \/ (IF count > prev THEN count - prev ELSE prev - count) * 100 =< Tolerance * prev

\* LastBaselineRun: the newest passing row that restored files.
BaselineRuns == {i \in RunIds : result[i] = "pass" /\ files[i] > 0}

LastBaselineRun == {i \in BaselineRuns : \A j \in BaselineRuns : j =< i}

PrevFileCount == IF BaselineRuns = {} THEN {0} ELSE {files[i] : i \in LastBaselineRun}

Exists(i) == result[i] \notin {"absent", "pruned"}

-----------------------------------------------------------------------------
\* A store statement fails: SQLITE_BUSY past the timeout, a full disk.
Fault == faults < MaxFaults /\ faults' = faults + 1

NoFault == UNCHANGED faults

Goto(p, where) == pc' = [pc EXCEPT ![p] = where]

\* Past the levels nothing reads these again; every later statement runs under
\* a context that is never cancelled.
Forget(p) ==
  /\ ctx' = [ctx EXCEPT ![p] = "live"]
  /\ selected' = [selected EXCEPT ![p] = {}]
  /\ outcome' = [outcome EXCEPT ![p] = NoSteps]
  /\ baseline' = [baseline EXCEPT ![p] = 0]

\* Run returns, or its process dies: its local variables are gone.
Leave(p, where) ==
  /\ Goto(p, where)
  /\ Forget(p)
  /\ run' = [run EXCEPT ![p] = 0]
  /\ start' = [start EXCEPT ![p] = 0]
  /\ end' = [end EXCEPT ![p] = 0]
  /\ restored' = [restored EXCEPT ![p] = 0]
  /\ unproven' = [unproven EXCEPT ![p] = {}]

\* A statement under the run's context fails when that is done, or by a fault.
Cancelled(p) == ctx[p] = "done" /\ NoFault

\* Run: the levels, the clock, then CreateRun.
Start(p) ==
  /\ pc[p] = "idle" /\ lastId < MaxRuns
  /\ \E s \in selectLevels(p) : selected' = [selected EXCEPT ![p] = s]
  /\ start' = [start EXCEPT ![p] = clock]
  /\ Goto(p, "create")
  /\ UNCHANGED <<db, ctx, run, end, outcome, restored, baseline, unproven, clock, faults,
                 verdicts>>

CreateRun(p) ==
  /\ pc[p] = "create" /\ ctx[p] = "live" /\ lastId < MaxRuns
  /\ lastId' = lastId + 1
  /\ result' = [result EXCEPT ![lastId + 1] = "open"]
  /\ started' = [started EXCEPT ![lastId + 1] = start[p]]
  /\ run' = [run EXCEPT ![p] = lastId + 1]
  /\ Goto(p, "baseline")
  /\ UNCHANGED <<files, steps, proof, counter, ctx, start, end, selected, outcome,
                 restored, baseline, unproven, clock, faults, verdicts>>

\* The run returns its error: no row, nothing to finalize.  (Out of ids is the
\* model's bound, not the program's.)
CreateRunFails(p) ==
  /\ pc[p] = "create"
  /\ Cancelled(p) \/ Fault \/ (lastId = MaxRuns /\ NoFault)
  /\ Leave(p, "idle")
  /\ UNCHANGED <<db, clock, verdicts>>

\* LastBaselineRun; a failed lookup degrades to no baseline.
ReadBaseline(p) ==
  /\ pc[p] = "baseline"
  /\ \/ /\ ctx[p] = "live" /\ NoFault
        /\ \E n \in PrevFileCount : baseline' = [baseline EXCEPT ![p] = n]
     \/ (Cancelled(p) \/ Fault) /\ baseline' = [baseline EXCEPT ![p] = 0]
  /\ Goto(p, "level")
  /\ UNCHANGED <<db, ctx, run, start, end, selected, outcome, restored, unproven,
                 clock, verdicts>>

\* runLevel up to the executor's answer: skipped when a lower level did not
\* pass, when the combination is unsupported or no sandbox runtime is there;
\* otherwise the verdict of the checks.
RunLevel(p) ==
  /\ pc[p] = "level"
  /\ \E l \in Todo(p), s \in Statuses, n \in FileCounts \cup {0} :
       /\ \A k \in Todo(p) : l =< k
       /\ shortCircuit(outcome[p]) => s = "skipped"
       /\ n > 0 => l = 2 /\ s # "skipped"
       /\ l = 2 /\ s = "pass" => WithinTolerance(n, baseline[p])
       /\ outcome' = [outcome EXCEPT ![p][l] = s]
       /\ restored' = [restored EXCEPT ![p] = @ + n]
  /\ Goto(p, "record")
  /\ UNCHANGED <<db, ctx, run, start, end, selected, baseline, unproven, clock, faults, verdicts>>

\* The evidence rows and the step row, under the run's context and, by foreign
\* key, only while the run's row is there.
RecordStep(p) ==
  /\ pc[p] = "record" /\ ctx[p] = "live" /\ Exists(run[p])
  /\ \E l \in Levels : AtLevel(p, l) /\ steps' = [steps EXCEPT ![run[p]][l] = outcome[p][l]]
  /\ Goto(p, IF Todo(p) = {} THEN "finish" ELSE "level")
  /\ UNCHANGED <<lastId, result, started, files, proof, counter, local, clock,
                 faults, verdicts>>

\* Mutation: a step that could not be written is logged and the run goes on.
RecordStepGoesOn(p) ==
  /\ pc[p] = "record"
  /\ Cancelled(p) \/ Fault \/ (~ Exists(run[p]) /\ NoFault)
  /\ Goto(p, IF Todo(p) = {} THEN "finish" ELSE "level")
  /\ UNCHANGED <<db, local, clock, verdicts>>

\* Run returns the error and leaves the row to the deferred FinishRun; what
\* the level restored is not yet in the totals.
RecordStepFails(p) ==
  /\ pc[p] = "record"
  /\ Cancelled(p) \/ Fault \/ (~ Exists(run[p]) /\ NoFault)
  /\ restored' = [restored EXCEPT ![p] = IF 2 \in Levels /\ AtLevel(p, 2) THEN 0 ELSE @]
  /\ Goto(p, "deferred")
  /\ Forget(p)
  /\ UNCHANGED <<db, run, start, end, unproven, clock, verdicts>>

\* Mutation: the UPDATE of FinishRun lacks "AND result IS NULL".
FinalizeAnyRow(p, verdict) ==
  /\ Exists(run[p])
  /\ result' = [result EXCEPT ![run[p]] = verdict]
  /\ files' = [files EXCEPT ![run[p]] = restored[p]]

\* The UPDATE of FinishRun takes effect only on a row without a verdict.
Finalize(p, verdict) ==
  /\ result[run[p]] = "open"
  /\ result' = [result EXCEPT ![run[p]] = verdict]
  /\ files' = [files EXCEPT ![run[p]] = restored[p]]

Verdict(p) == aggregateRun(outcome[p])

\* FinishRun at the end of the levels, whatever became of the context.
FinishRun(p) ==
  /\ pc[p] = "finish"
  /\ Finalize(p, Verdict(p))
  /\ end' = [end EXCEPT ![p] = clock]
  /\ unproven' = [unproven EXCEPT ![p] =
                    IF Verdict(p) = "pass" THEN PassedLevels(outcome[p]) ELSE {}]
  /\ verdicts' = verdicts \cup {[run |-> run[p], start |-> start[p], result |-> Verdict(p),
                                 levels |-> selected[p], passed |-> PassedLevels(outcome[p]),
                                 files |-> restored[p]]}
  /\ Goto(p, "count")
  /\ Forget(p)
  /\ UNCHANGED <<lastId, started, steps, proof, counter, run, start, restored, clock, faults>>

\* Mutation: the run goes on as if its verdict had been recorded.
FinishRunGoesOn(p) ==
  /\ pc[p] = "finish"
  /\ Fault \/ (result[run[p]] # "open" /\ NoFault)
  /\ end' = [end EXCEPT ![p] = clock]
  /\ unproven' = [unproven EXCEPT ![p] =
                    IF Verdict(p) = "pass" THEN PassedLevels(outcome[p]) ELSE {}]
  /\ Goto(p, "count")
  /\ Forget(p)
  /\ UNCHANGED <<db, run, start, restored, clock, verdicts>>

\* The row already has a verdict, or is gone, or the statement failed.
FinishRunFails(p) ==
  /\ pc[p] = "finish"
  /\ Fault \/ (result[run[p]] # "open" /\ NoFault)
  /\ Goto(p, "deferred")
  /\ Forget(p)
  /\ UNCHANGED <<db, run, start, end, restored, unproven, clock, verdicts>>

\* Mutation: there is no deferred FinishRun.
NoDeferredFinish(p) ==
  /\ pc[p] = "deferred"
  /\ Leave(p, "idle")
  /\ UNCHANGED <<db, clock, faults, verdicts>>

\* The deferred FinishRun of a run that returns an error; its own failure is
\* ignored.
DeferredFinish(p) ==
  /\ pc[p] = "deferred"
  /\ \/ Finalize(p, "error") /\ NoFault
     \/ result[run[p]] # "open" /\ NoFault /\ UNCHANGED <<result, files>>
     \/ Fault /\ UNCHANGED <<result, files>>
  /\ Leave(p, "idle")
  /\ UNCHANGED <<lastId, started, steps, proof, counter, clock, verdicts>>

\* AddBytesRestored, best effort.
AddBytesRestored(p) ==
  /\ pc[p] = "count"
  /\ \/ NoFault /\ counter' = counter + restored[p]
     \/ Fault /\ UNCHANGED counter
  /\ Goto(p, IF unproven[p] = {} THEN "prune" ELSE "prove")
  /\ UNCHANGED <<lastId, result, started, files, steps, proof, local, clock, verdicts>>

\* Mutation: the upsert of RecordProof lacks MAX.
RecordProofOverwrites(p) ==
  /\ pc[p] = "prove"
  /\ \E l \in unproven[p] :
       /\ \A k \in unproven[p] : l =< k
       /\ proof' = [proof EXCEPT ![l] = start[p]]
       /\ unproven' = [unproven EXCEPT ![p] = @ \ {l}]
       /\ Goto(p, IF unproven[p] = {l} THEN "prune" ELSE "prove")
  /\ UNCHANGED <<lastId, result, started, files, steps, counter, ctx, run, start, end,
                 selected, outcome, restored, baseline, clock, faults, verdicts>>

\* RecordProof of the next passed level: the later of the two times stays.
RecordProof(p) ==
  /\ pc[p] = "prove"
  /\ \E l \in unproven[p] :
       /\ \A k \in unproven[p] : l =< k
       /\ proof' = [proof EXCEPT ![l] = IF start[p] > @ THEN start[p] ELSE @]
       /\ unproven' = [unproven EXCEPT ![p] = @ \ {l}]
       /\ Goto(p, IF unproven[p] = {l} THEN "prune" ELSE "prove")
  /\ UNCHANGED <<lastId, result, started, files, steps, counter, ctx, run, start, end,
                 selected, outcome, restored, baseline, clock, faults, verdicts>>

\* Run returns the error of RecordProof: the verdict stands, the remaining
\* levels get no proof from this run, and nothing is pruned.
RecordProofFails(p) ==
  /\ pc[p] = "prove" /\ Fault
  /\ Leave(p, "idle")
  /\ UNCHANGED <<db, clock, verdicts>>

\* The rows Prune deletes: older than max_age, or not among the newest
\* max_count, finished or not.
Newer(i) == {j \in RunIds : j > i /\ Exists(j)}

Expired(i, now) ==
  /\ Exists(i)
  /\ \/ MaxAge > 0 /\ started[i] < now - MaxAge
     \/ MaxCount > 0 /\ Cardinality(Newer(i)) >= MaxCount

\* pruneRetention: deleting a row deletes its steps; drill_state stays.
PruneRetention(p) ==
  /\ pc[p] = "prune"
  /\ \/ /\ NoFault
        /\ result' = [i \in RunIds |-> IF Expired(i, end[p]) THEN "pruned" ELSE result[i]]
        /\ files' = [i \in RunIds |-> IF Expired(i, end[p]) THEN 0 ELSE files[i]]
        /\ steps' = [i \in RunIds |-> IF Expired(i, end[p]) THEN NoSteps ELSE steps[i]]
     \/ Fault /\ UNCHANGED <<result, files, steps>>
  /\ Leave(p, "idle")
  /\ UNCHANGED <<lastId, started, proof, counter, clock, verdicts>>

-----------------------------------------------------------------------------
\* The environment.

\* The drill's timeout, or the daemon's shutdown.
Cancel(p) ==
  /\ pc[p] \in {"create", "baseline", "level", "record", "finish"} /\ ctx[p] = "live"
  /\ ctx' = [ctx EXCEPT ![p] = "done"]
  /\ UNCHANGED <<db, pc, run, start, end, selected, outcome, restored, baseline,
                 unproven, clock, faults, verdicts>>

\* The process is killed.  A CLI process is gone; the daemon will be started
\* again by its supervisor.
Crash(p) ==
  /\ pc[p] # "down" /\ (pc[p] = "idle" => p = Daemon)
  /\ Leave(p, IF p = Daemon THEN "down" ELSE "idle")
  /\ UNCHANGED <<db, clock, faults, verdicts>>

\* Mutation: the daemon starts without looking for abandoned rows.
MarkNothing ==
  /\ pc[Daemon] = "down"
  /\ Goto(Daemon, "idle")
  /\ UNCHANGED <<db, local, clock, faults, verdicts>>

\* Daemon startup: MarkAbandonedRuns gives every row without a verdict the
\* verdict error, whoever created it.
MarkAbandonedRuns ==
  /\ pc[Daemon] = "down"
  /\ \/ NoFault /\ result' = [i \in RunIds |-> IF result[i] = "open" THEN "error" ELSE result[i]]
     \/ Fault /\ UNCHANGED result
  /\ Goto(Daemon, "idle")
  /\ UNCHANGED <<lastId, started, files, steps, proof, counter, local, clock, verdicts>>

Tick ==
  /\ clock < MaxTime
  /\ clock' = clock + 1
  /\ UNCHANGED <<db, pc, local, faults, verdicts>>

Step(p) ==
  \/ CreateRun(p)
  \/ CreateRunFails(p)
  \/ ReadBaseline(p)
  \/ RunLevel(p)
  \/ RecordStep(p)
  \/ RecordStepFails(p)
  \/ FinishRun(p)
  \/ FinishRunFails(p)
  \/ DeferredFinish(p)
  \/ AddBytesRestored(p)
  \/ RecordProof(p)
  \/ RecordProofFails(p)
  \/ PruneRetention(p)

Next ==
  \/ \E p \in Procs : Start(p) \/ Step(p) \/ Cancel(p) \/ Crash(p)
  \/ MarkAbandonedRuns
  \/ Tick

Spec == Init /\ [][Next]_vars

\* A run in progress keeps stepping, which takes a drill with a timeout (it is
\* optional, scheduler.go, dispatch) and an executor that returns when its
\* context is done; a daemon that is down is restarted by its supervisor.  No
\* run has to be started, and nothing has to fail or be killed.
Fairness == WF_vars(MarkAbandonedRuns) /\ \A p \in Procs : WF_vars(Step(p))

FairSpec == Spec /\ Fairness
-----------------------------------------------------------------------------
Places == {"idle", "create", "baseline", "level", "record", "finish", "deferred",
           "count", "prove", "prune", "down"}

TypeOK ==
  /\ lastId \in 0..MaxRuns
  /\ result \in [RunIds -> Verdicts \cup {"absent", "open", "pruned"}]
  /\ started \in [RunIds -> Nat]
  /\ files \in [RunIds -> Nat]
  /\ steps \in [RunIds -> [Levels -> Statuses \cup {"none"}]]
  /\ proof \in [Levels -> Nat]
  /\ counter \in Nat
  /\ pc \in [Procs -> Places]
  /\ ctx \in [Procs -> {"live", "done"}]
  /\ run \in [Procs -> 0..MaxRuns]
  /\ start \in [Procs -> Nat]
  /\ end \in [Procs -> Nat]
  /\ selected \in [Procs -> SUBSET Levels]
  /\ outcome \in [Procs -> [Levels -> Statuses \cup {"none"}]]
  /\ restored \in [Procs -> Nat]
  /\ baseline \in [Procs -> Nat]
  /\ unproven \in [Procs -> SUBSET Levels]
  /\ clock \in Nat
  /\ faults \in 0..MaxFaults
  /\ \A v \in verdicts : v.run \in 0..MaxRuns /\ v.start \in Nat /\ v.result \in Verdicts

\* A proof names a run that FinishRun recorded as a pass and in which that
\* level passed: a verdict that was lost (the row reaped or pruned under the
\* run, a failed statement) proves nothing (orchestrate.go, "Proofs advance
\* only when the whole run passes").
ProofBacked ==
  \A l \in Levels : proof[l] > 0 =>
    \E v \in verdicts : v.result = "pass" /\ v.start = proof[l] /\ l \in v.passed

\* "a recorded verdict is immutable" (store/runs.go, FinishRun): of two
\* processes and a reaper, whoever comes second changes nothing.
VerdictImmutable ==
  [][\A i \in RunIds : result[i] \in Verdicts => result'[i] \in {result[i], "pruned"}]_vars

RecordedLevels(i) == {l \in Levels : steps[i][l] # "none"}

\* The steps on disk tell the verdict: a row says pass or fail only if the
\* recorded steps of that run fold to it, and only after a FinishRun of that
\* run whose selected levels are, each and every one, the levels recorded
\* (runLevel returns the error of a step or evidence it could not write, and
\* Run gives up).  A pass with one level's step lost on the way would be a pass
\* nobody can check.
VerdictMatchesSteps ==
  \A i \in RunIds : result[i] \in {"pass", "fail"} =>
    /\ aggregateRun(steps[i]) = result[i]
    /\ \E v \in verdicts : /\ v.run = i /\ v.result = result[i]
                           /\ v.levels = RecordedLevels(i)

\* A run that ends by itself leaves its row with a verdict (or gone), whatever
\* failed or was cancelled on the way, unless the finalizing statement itself
\* failed (orchestrate.go, "never leaves a zombie run").
NoZombieRun ==
  [][\A p \in Procs :
       /\ pc[p] \notin {"idle", "down", "create"} /\ pc'[p] = "idle"
       /\ ~ Crash(p) /\ faults' = faults
       => result'[run[p]] # "open"]_vars

\* What the runs restored, added up over the rows.
Total(f) ==
  LET upTo[n \in 0..MaxRuns] == IF n = 0 THEN 0 ELSE upTo[n - 1] + f[n]
  IN  upTo[MaxRuns]

RecordedFiles ==
  [i \in RunIds |-> IF \E v \in verdicts : v.run = i
                      THEN (CHOOSE v \in verdicts : v.run = i).files ELSE 0]

\* The bytes counter never counts a restore twice, nor one whose run was not
\* finished by its own FinishRun (store/runs.go, "the Prometheus counter can't
\* regress"), however many rows retention has deleted since.
CounterWithinVerdicts == counter =< Total(RecordedFiles)

\* A row of the daemon is not open for ever: its run ends, or the daemon is
\* killed and the next start gives it a verdict; only a failed store statement
\* can leave it.
DaemonRowsSettle ==
  \A i \in RunIds :
    run[Daemon] = i /\ result[i] = "open" ~> result[i] # "open" \/ faults > 0

\* The proof timeline is the one of ProofLedger.
Passes == {v \in verdicts : v.result = "pass"}

Ledger == INSTANCE ProofLedger WITH passes <- Passes

ImplementsLedger == Ledger!Spec

\* The inductive invariant behind these.  A process past CreateRun is about a
\* row of its own:
InRow(p) == pc[p] \notin {"idle", "down", "create"}

RowInv ==
  /\ \A i \in RunIds : i > lastId => result[i] = "absent" /\ steps[i] = NoSteps
  /\ \A p \in Procs : InRow(p) => run[p] \in RunIds /\ run[p] =< lastId
  /\ \A p, q \in Procs : InRow(p) /\ InRow(q) /\ run[p] = run[q] => p = q
  /\ \A p \in Procs : pc[p] \in {"count", "prove", "prune"} => result[run[p]] # "open"

\* while its levels run, nobody else gives that row a pass or a fail, and the
\* recorded steps are the outcomes so far, but for the level being recorded;
InLevels(p) == pc[p] \in {"baseline", "level", "record", "finish"}

StepsOf(p) ==
  /\ InLevels(p) => result[run[p]] \in {"open", "error", "pruned"}
  /\ ~ InLevels(p) \/ pc[p] = "baseline" => outcome[p] = NoSteps
  /\ \A k, l \in Levels :
       /\ outcome[p][l] # "none" => l \in selected[p]
       /\ outcome[p][l] # "none" /\ k < l /\ k \in selected[p] => outcome[p][k] # "none"
  /\ pc[p] = "finish" => \A l \in selected[p] : outcome[p][l] # "none"
  /\ InLevels(p) /\ result[run[p]] = "open" =>
       \A l \in Levels : (pc[p] = "record" /\ AtLevel(p, l)) \/ steps[run[p]][l] = outcome[p][l]

StepsInv == \A p \in Procs : StepsOf(p)

\* and a proof still to be written belongs to a recorded pass.
PendingInv ==
  \A p \in Procs : unproven[p] # {} =>
    /\ pc[p] \in {"count", "prove"}
    /\ \E v \in Passes : v.start = start[p] /\ unproven[p] \subseteq v.passed

\* Of the recorded restores, one per row, the counter holds those whose run is
\* past AddBytesRestored or was killed before it.
CountedFiles ==
  [i \in RunIds |-> IF \E p \in Procs : pc[p] = "count" /\ run[p] = i
                      THEN 0 ELSE RecordedFiles[i]]

VerdictRows ==
  /\ \A v \in verdicts :
       v.run \in RunIds /\ v.files \in Nat /\ result[v.run] \notin {"absent", "open"}
  /\ \A v, w \in verdicts : v.run = w.run => v = w
  /\ \A p \in Procs : pc[p] = "count" =>
       \E v \in verdicts : v.run = run[p] /\ v.files = restored[p]

CountInv == VerdictRows /\ counter =< Total(CountedFiles)

RunInv ==
  TypeOK /\ RowInv /\ StepsInv /\ PendingInv /\ ProofBacked /\ VerdictMatchesSteps
=============================================================================
