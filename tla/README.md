# A TLA+ model of redrill

redrill runs restore drills against backups: on a schedule, on "Run now", or
from `redrill run`, it restores a backup, checks what came out, writes the
verdict with its evidence to SQLite, and keeps for each drill and level the time
it was last *proven*. A missed proof SLA, a failure and a recovery are notified.
What an operator trusts is small: a proof means a pass, a verdict is final, a
drill never runs twice at once, a stop loses nothing, a fail is the backup's
fault, an alert comes when it should, and what a page or an exit code says is
what was recorded. These modules model the code that has to make this true.

Every definition is a translation of the lines `PROJECT.json` names under
"map"; definitions under a comment starting with "Mutation:" are
plausible bugs that the properties are tested with, and part of no
specification.

## Inventory

| Part | State | Operations | Talks to |
| --- | --- | --- | --- |
| Gate (`internal/scheduler`) | `inflight` marks, tokens in `sem` | `TryAcquire`, the release func | scheduler and API call it |
| Scheduler loop (`internal/scheduler`) | per job the next `fire` | `due`, `advance`, `jitter`, `dispatch` | gate, run goroutines, `ctx` |
| Daemon (`cmd/redrill/serve.go`) | context, three WaitGroups, HTTP server, store handle | boot, trigger, signal, drain, close | all of the above |
| Orchestrator (`internal/orchestrate`) | locals of `Run`, the `finished` flag of its defer | the levels, steps, verdict, counter, proofs, retention | store, executor |
| Store (`internal/store`) | runs, run_steps, evidence, drill_state, drill_counters | one SQL statement per method | orchestrator, alerter, API; shared by processes |
| Schema migration (`internal/store/migrate.go`) | tables and columns, `schema_migrations` | read the version, one transaction per pending migration | every command that opens the store |
| Alerter (`cmd/redrill/notify.go`, `internal/notify`) | `stale` flags, `digestMark` | `afterRun`, `sweepStale`, `maybeDigest` | store, sender; two goroutines share it |
| CLI run (`cmd/redrill/main.go`) | the worst result so far | the orchestrator, without gate and alerter; exit code | the same database file |
| CLI status, history, report; `internal/report` | none | several reads, one page | the same database file |
| Executor, checks (`internal/exec`, `internal/checks`) | scratch directory of a run, the snapshot pin | level runners, preflight, folding of evidence, cleanup | drivers, sandbox; shares scratch and containers with other processes |
| Sandbox (`internal/sandbox`) | containers by label | start, readiness, exec, close, janitor | Docker |
| Drivers, mounts (`internal/driver`) | child processes, mount points | list, check, restore, mount | borg, restic, files |
| HTTP API, metrics (`internal/server`) | a token bucket for the trigger; no sessions | reads, trigger, scrape | store, gate |
| Config (`internal/config`) | the parsed file | rules per level block, the check catalog | its check kinds must be the ones the executor builds |
| Rendering, redaction, init, doctor, demo | none at run time | layout, prompts | - |

What is hard here:

- *Goroutines*: the scheduler, the HTTP handlers, run goroutines, sweeper and
  heartbeat meet at the gate, at the alerter's mutex and in the drain.
- *Processes*: the gate is in memory, so a daemon and a `redrill run` of the same
  drill do overlap on the database; their statements interleave, and each one's
  retention and the daemon's reaper work on the other's rows.
- *Cancellation*: a drill's timeout or the daemon's stop cancels some statements
  of a run (steps, evidence) and not others (`WithoutCancel`).
- *Crashes*: a kill between any two statements, followed by a restart.
- *A world that goes on*: backups are made and rotated while a run reads them,
  a mount child or a sandbox dies under the checks, and a daemon that starts reaps
  every scratch directory and container, also a live run's.
- *Pages without a transaction*: a page is several statements, and runs finish,
  prove and are pruned between them.
- *Two halves of one rule*: Validate and the executor are written apart and must
  agree about every check.
- *Time*: a clock read, then used after other work; jitter; a suspended host.

`PROJECT.json` lists these as hazards, each at its line, with the properties that
cover it.

What makes each part correct: the gate never admits a drill twice or more runs
than slots, and leaks neither mark nor token; the daemon's drain ends and leaves
the store quiet; a run's proofs are backed by its recorded verdict, that by its
recorded steps, and no row stays open; the alerter neither repeats itself nor
keeps silent; the loop fires each slot once at most and none is forgotten; the
executor blames the backup for its own trouble only where it cannot tell the two
apart, judges one backup per run, and leaves nothing behind; the schema is what its version rows say, and whoever
has the store open has the tables it uses; a configured check leaves evidence;
a page shows one run's verdict with that run's steps and calls a drill fresh only
on a recorded pass; the exit code is the worst drill's.

## Modules

| Module | What it is |
| --- | --- |
| `SingleFlight` | abstract: the drills being run and the slots that are free or owed, each taken and returned once |
| `Gate` | the gate's marks and tokens, release in two steps |
| `GateProofs` | proofs about `Gate`, refinement of `SingleFlight` |
| `Serve` | extends `Gate`: one life of the daemon around it |
| `ServeProofs` | proofs about `Serve` |
| `ProofLedger` | abstract: proofs move forward to recorded passes only |
| `RunLifecycle` | runs of one drill by several processes on one database |
| `RunLifecycleProofs` | proofs about it, refinement of `ProofLedger` |
| `Alerter` | run goroutine, sweeper, CLI and restart around the stale flag |
| `AlerterProofs` | proofs about `Alerter` |
| `Scheduler`, `MCScheduler` | the loop in time; two concrete schedules |
| `SchedulerProofs` | proofs about `Scheduler` |
| `Executor` | the levels of one run: source, scratch, mount child, container |
| `ExecutorProofs` | proofs about `Executor` |
| `Views` | extends `RunLifecycle`: the pages and the scrape, statement by statement |
| `ViewsProofs` | proofs about `Views`, on those of `RunLifecycle` |
| `Policy` | operators: which drill blocks are accepted, which checks are built, what a sample selects |
| `Startup`, `MCStartup` | extends `Policy`: processes that load, migrate and open; `redrill run` to its exit code; the drills TLC enumerates |
| `StartupProofs` | proofs about the schema, the configured checks and the exit code in `Startup` |

**Gate.** `inflight` and `sem` are the struct's fields; a goroutine is `idle`,
`running` (holds mark and token) or `unmarked` (mark deleted, token not yet
taken back: the code does the second outside the mutex). `TryAcquire` is one
step because the mutex covers it. The `sync.Once` around the release is the fact
that `Unmark` happens from `running` only. The abstract gate counts slots besides the
drills: a run takes one, and a run that is over owes it until the second step of its release.
So `ImplementsSingleFlight` says more than that no drill runs twice: a slot is
neither lost, nor returned twice, nor returned while its run goes on.

**Serve.** `phase` is where the main goroutine is in `serve`; `waited` the
WaitGroup a run goroutine is counted in; `handler` the HTTP handlers that have
not reached the gate yet, which may outlive `Shutdown`'s ten seconds; `row` what
a run goroutine still has to do with the store. A dispatch that the gate refuses
changes nothing and is no action. `Timed` are the drills with a timeout, which is
optional: the run of another drill may work until the daemon's signal.

**RunLifecycle.** The variables are the columns a run reads and writes, and the
locals of `Run` for each process. Each statement is a step: `CreateRun`,
`ReadBaseline`, `RecordStep` (the evidence rows and the step row of a level, one
step because any failure among them ends the run alike, and a reader that comes
between sees evidence of a level without its step, of which no page says anything),
`FinishRun`, `AddBytesRestored`, `RecordProof` per level, `PruneRetention`; every
one has a failing twin. `DeferredFinish` is the deferred finalizer. `Cancel`
is the timeout or the stop; it makes the statements under the run's context fail
and no other. `Crash` kills a process; the daemon restarts with
`MarkAbandonedRuns`. The executor's answer is any status, except what the
tolerance check rules out. The history variable `verdicts` keeps, with each verdict
of `FinishRun`, the levels the run had selected: a pass or fail on disk must have the step
of every one of them. Bytes are counted in files. Row ids are never reused
(`AUTOINCREMENT`), so a pruned row stays `pruned`.

**Alerter.** One drill; the flag, the two critical sections, and the store reads
between them are steps of the run goroutine and the sweeper. The end of a run is
one step here (its own steps are in `RunLifecycle`), with the ways in which `Run`
returns an error and `afterRun` is not reached. Time is read once with the proof
in a sweep; the code reads it just before. Delivery is not modelled: a failed
send is logged and changes no state. A pass that skipped the headline level takes the
flag of a drill that is still stale, as often as it comes, so no flag is promised to
stay: `FlagTracksSLA` says that a stale drill without its flag gets it (or is proven),
and that a drill that stays within its SLA is in the end not flagged.

**Scheduler.** A cron schedule is a period: only `Next` is used of it, the first
slot strictly after a time. A schedule may also match no time at all (`never`, such as
`0 0 30 2 *`): `Next` is then the zero time, the job is due at every look, the search for the
soonest time starts over behind it (`Searched`), and the loop has no timer, or with jitter one that
is over. `OncePerSlot` holds for the other jobs all the same; the other three properties are about
schedules that match. The clock moves at any point by any amount. The
gate is the set of drills being run, as in `SingleFlight`.

**Executor.** `pc` is where `RunStep` is, on the paths of the three engines and
levels, joined where the code is the same; `todo`, `level`, `pin` and `pinAt` are the
orchestrator's. A backup is a *version* under a *name*: a restic id is never reused, the name of
a borg archive only after the archive was deleted, a dump may be rewritten in place, and its mtime is
the version. A version is good or bad (`bad`); a check that reads a good one passes and one
that reads a bad one may fail (`Judge`). Bad is what a configured check or the load has to reject,
a dump from a newer postgres than the image included. Everything a level needs may be gone
when it looks: `View` says what is left of the tree, `Views` what one look at it finds (a
tree that is there may still answer with errors, or without some entries), `React`
what each kind of check makes of it, `NativeOutcomes` what the engines' own checks make of a lock or
a failing backend, and `SandboxSays` what a command in the container makes of a dead one, or
of being killed there. An exec check of L2 is a step of its own (`ExecScript`), since nothing bounds
it. The mount child, the mount and the two senders of signals (the
command's context, `Stop`) are steps of their own; so are `Sweep` and `Janitor` of
another daemon's start. Every return of an error is `Errs`, followed by the
deferred unmount, close and cleanup. `read`, `raced`, `blind` and `lost` are history
that the properties need: which versions the evidence is about, whether a name
changed between its stat and its read, whether the checks may have judged something else than
the backup, and whether a removal failed or an answer was lost. `blind` is set at the mishap, and
only there: a restic check that was hindered, a look at the tree that met errors, a child, tree,
container or server that went away while it was in use, a command hindered in the sandbox, and
checks on a database that is not the dump's. Settings that one step looks at (copy or mount,
native check or not, a missing runtime) are choices of that step. Sizes are left out: any
preflight or staging may refuse.

**Views.** A page is a list of statements, each a step: `DrillPage`, `ReportPage`,
`RunPage` and `ScrapePage` are the orders of the code. `page` holds what was read so far and
the time taken at the start; `exported` is what the last scrape showed of the bytes
counter. Every step of `RunLifecycle` may come between two statements. A reader
writes nothing, so one at a time stands for any number of them. A failed statement
ends a page (`Refused`) and leaves a sample out of a scrape (`SampleOmitted`).

**Policy.** A setting is a key with the way its value reads: set, switched off,
a threshold of zero, or bad. `Accepted` is Validate on one level block (levels are
validated one by one), written rule by rule from `internal/config`; `Built`, `Supported`
and `Statuses` are the executor's builders and what each check can answer.
An L3 may also end in the version trap (`VersionTrap`): a fail with the
evidence of the load alone. `CheckKinds` and `L2Builders`/`L3Builders` are written out twice, because the code
does: that they agree is what `NoCheckVanishes` is about. `Selected`, `Predictions` and
`Restored` are the sample, the size preflight is told, and what the engine then copies,
in files.

**Startup.** A process is where it is between `load` and `open`. SQLite's write
transaction is `tx`: while one process has written in it nobody else writes, and
what it wrote takes effect at `Commit` or never. `applied` is the migrations in the order
they took effect, `versions` the rows of `schema_migrations`. A release is the number
of migrations it knows, so a newer and an older binary meet on one file. `Creates` and `Drops`
are what the five migrations do to tables and columns (0003 drops the registry of sources and
drills), and `Uses` what the statements of a release name. Of the
configuration only the drill blocks are modelled: the rest of Validate is the choice
between `LoadRejects` and `LoadAccepts`. `Drills`, the drills a file may hold, is a constant with
blocks of any size; `MCDrills` of `MCStartup` is TLC's. `RunDrill` takes any accepted block on any
small snapshot to any outcome its checks can have, to an error before it comes to them, or at L3
to the version trap (the levels' own steps are in
`Executor`, the rows in `RunLifecycle`); `DrillDone` folds it into the exit code.
A process without a drill to run is status, history or report.

## Runs

| Run | Instance | Shows |
| --- | --- | --- |
| `serve` | 3 drills, one with a timeout, 3 goroutines, 2 slots | the gate's contract and refinement, the drain, liveness of stop and release |
| `run_overlap` | daemon and CLI, levels 1 and 2, 2 rows, retention of 1, 2 ticks | verdicts, steps, proofs under interleaving, cancellation, kills, reaping, pruning |
| `run_faults` | daemon and CLI, level 2, 2 rows, file counts 1 and 3 under a tolerance of 50%, one failing statement | no zombie rows, rows settle, the counter |
| `alerter` | 3 rows, 3 ticks, SLA 1, digest every 2 ticks, one restart | no repeated alerts, justified recovers, digests |
| `alerter_live` | 2 rows, one failed read, no restart | the flag follows the SLA, bad runs are alerted about |
| `scheduler` | periods 2 and 3, jitter 2, at most one schedule that never matches, one slot, 7 ticks | slots, sleeping, attempts |
| `executor` | 3 engines, L1 alone and L2 then L3, three sets of checks, 2 backups of which one is bad, one start of another daemon | blame, pin, cleanup, mount order, termination once the context is done |
| `run_readers` | one process, level 2, 2 rows, retention of 1 by count and age, SLA 1, 3 ticks | pages and scrapes between the statements of runs |
| `startup` | daemon and CLI, releases 1 to 3, one kill or failure, up to 2 drills, snapshots of up to 2 files, quota of 1 | schema versions and objects, checks and evidence, exit code, the daemon opens |
| `timeout_unalerted` | one row | violation, see below |
| `false_fail` | restic, L1 | violation |
| `empty_sample` | one release, one drill, quota of 1 | violation |

Why the bounds are enough. Three goroutines and two slots let one claim a drill
in the release window of a second while a third is refused; three drills make a
third concurrent run possible, so the refinement could fail. Two
processes are what the interleavings are between, and two rows with retention of one
let each process prune and reap under the other; the second level brings the
short circuit and partial steps. In the alerter three rows give a failure, a
recovery and a run after it, three ticks a proof that goes stale again, and two
digest slots are not needed: the danger is one slot on both sides of a restart.
Two jobs with periods that share some slots and not others, over seven ticks,
have late wakes past several slots of both. In the executor two levels are what
a pin is between (L2 and L3 both can set it, and `keep` leaves the files of one
under the other), either of two backups may be the bad one, a second backup is a newer one, a rewritten one or a second file
of the window, and one start of a daemon reaps at any moment of the run. For the readers
two rows are a run that is shown and one that ends or prunes it meanwhile, and with
retention of one and an SLA of one tick a proof goes stale and a row is deleted between
two statements of a page. Three releases over three migrations give every pair of
a reader of the version and a migrator ahead of it, and the third drops tables under an older
release; a snapshot of up to two files has files under the
include paths, beside them, both or none, and two drills are what an exit code
folds. L1 blocks have at most two settings, because the rules of Validate relate at most two, and L2 and
L3 blocks at most one check, because their checks are looked at one by one; the theorems have no such
bound. Symmetry is not used: liveness is
checked in most runs and the daemon is a distinguished process.

Deadlock is checked in `startup` and `run_readers`: a process can always be started
and a page asked for. The other systems may stop (all bounds reached, or the
daemon closed), so it is not checked there.

Fairness. `Serve`: the main goroutine, the sweeper and each run goroutine keep
stepping, which the Go scheduler guarantees; but a run whose executor is at work (`MayWorkForEver`) is
owed its end only when its drill has a timeout or the daemon's context is done. No request,
dispatch or signal is owed. `SignalEndsDaemon` so rests on executors that return once their context
is done; `Executor` shows that they do, but for an exec check.
`RunLifecycle`: a run keeps stepping, which takes a drill with a timeout and an executor that
returns once its context is done, and a killed daemon is started again (its
supervisor's job; without it nobody would settle its rows). `Alerter`: the ticker
fires and `afterRun`, once called, goes on; no run is owed an end. `Scheduler`: the loop steps and time goes on.
`Executor`: the run goes on where it waits for nobody. Where it waits for an engine, the sandbox or a
mount (`Waiting`) it is owed a step only once the context is done, because a timeout is optional
and without one nothing bounds these waits; an exec check is never owed its end, because
`CombinedOutput` waits for whoever holds its pipe, past the kill. A child that was sent SIGKILL exits; one
that ignores SIGTERM, an unmount that fails and a timeout that never comes are allowed. So `RunEnds`
is about runs whose context is done, and about the end of a mount in any run.
`Startup`: a process that is opening its store goes on, while nobody has to start
one or to accept its file; a process waiting for the writer is only owed a step
once the writer is done, which its own fairness or its end brings about. `Views`
needs none.

## Findings

Three runs state what a comment or the manual says and are violated by what the
code does; `PROJECT.json` quotes the sentences.

- `timeout_unalerted`: a timeout during a level makes the next step write fail,
  `Run` returns an error and `runOnce` returns before `afterRun`: error in the
  row, no event.
- `false_fail`: every positive exit of `restic check` is a fail, also the one of a check
  that could not do its work: it met the lock of a backup client, or a backend that failed after
  `Validate`. The other mishaps that the verdict does not tell from a bad backup are listed at
  `FailBlamesBackup`, which states what does hold: apart from them a fail is the backup's.
- `empty_sample`: a sample that selects nothing (`files: 0, newest: 0`, or include
  paths that match nothing) is accepted, predicts zero, passes preflight, and restores the
  whole snapshot, which is what the rule in Validate is there to exclude.

More things a reader of the code should know, which the models reproduce and
no run is about:

- A pass that skipped the headline level clears the stale flag (`notify.go:86`), so
  an unbroken stale episode alerts again after every such pass, with a recover in between.
- Retention by count can delete the last good run behind failed ones (`retention.go:16`);
  the file-count tolerance then compares with nothing and passes.
- A daemon that starts during a `redrill run` gives the live run's row the verdict
  error (`runs.go:142`); the run's own verdict and proofs are lost. It also removes the live run's
  files and container, and `path_exists` then fails on a good backup (`scratch.go:79`).
- A walk skips what it cannot read (`exec.go:889`), so a mount whose repository stops answering
  makes `min_total_bytes` a fail; and L3 checks run after a load that could not be completed
  (`l3.go:207`), where fail dominates error.
- A schedule that matches no time is accepted and makes its job due for ever (`scheduler.go:161`):
  without jitter the loop may be left without a timer, with jitter it spins.
- An exec check that leaves a process behind holding its output keeps its run, and the daemon's
  drain, waiting (`execcheck.go:30`).

## Proofs

The proofs hold for every number of drills, goroutines, slots, processes, rows,
levels, releases, backups, restarts and faults, every period and jitter, every set of schedules that
never match, and every set of drills (the constant `Drills`), with blocks of every size, from the assumptions named in the modules (`GateAssumption`,
`RunAssumption`, `ViewAssumption`, `StartupAssumption`, `SchedulerAssumption`,
`ExecutorAssumption`, `AlerterAssumption`): types of the constants, a finite
set of goroutines and of jobs, at most the five migrations there are, `NoDrill` outside the drills, the daemon among the processes, a
highest level, periods that are not zero. Every safety property that a passing run
checks is stated by a theorem, and TLC finds the inductive invariants true on the
instances of the runs.

*Gate.* That no drill runs twice is not inductive: one must know that a running
goroutine's drill is marked. `GateInv` says that the marks are exactly the drills
of the running goroutines, one each, and that the tokens are counted by the
goroutines not idle. The count is what makes the release window harmless: a
goroutine in it has no mark and still its token. From it follow
`SingleFlightSafe`, `RefusalSafe`, `ReleaseSafe`, and `GateRefinesSingleFlight`,
which maps the abstract state to the drills of the running goroutines, the room in the
channel and the number of half-done releases: that the latter are counted right at every step is
what `GateInv` has to give.

*Serve.* Each step of the daemon is a step of the gate or leaves it alone
(`DaemonUsesGate`), so it inherits the theorems. `StoreQuiet` and `DrainComplete`
need which phases imply a done context, and that a goroutine that holds
something is counted in a WaitGroup.

*RunLifecycle.* `RunInv` joins: a process past `CreateRun` owns its row and no two
own the same (`RowInv`); while the levels run nobody else can give the row a
pass or a fail, and the recorded steps are the outcomes so far, one for every selected level
already done, except for the level being recorded (`StepsInv`); a proof yet to be written belongs to a recorded
pass (`PendingInv`). Without `StepsInv` a verdict need not match its steps when
`FinishRun` writes it; without `PendingInv` a proof could be written after a
verdict was lost. From it: `ProofsAreBacked`, `VerdictsMatchSteps`,
`VerdictsAreImmutable`, `NoZombies`, and `RunsImplementLedger`. `CounterIsBacked` compares
the counter with a sum over the rows. `CountInv` says that a row has one verdict of
`FinishRun` at most, that a process about to count has recorded one with what it
restored, and that the counter is within the sum over the rows nobody is about to
count; a kill before `AddBytesRestored` only loses a restore. How that sum
changes when one row does (`TotalAdds`, `TotalGrows`) is shown by the least row at which it
would be wrong: the library's theorem that a set of naturals has a least element takes
a set, not an operator, and so replaces induction.

*Views.* Every step of `RunLifecycle` keeps what it keeps alone, so `RunInv` is taken over.
`ViewInv` adds that the headline time on a page is zero or that of a recorded pass
of the headline level (`HeadlineBacked`: the proof was backed when it was read, and
recorded passes are never taken back, though their rows are pruned); from it follows
`FreshIsBacked`. `ScrapeNeverRegresses` needs that the exported counter is not ahead of the
one on disk (`ExportedBehind`), which only grows. What a page says of itself holds at its end
only, so `PageInv` says for every kind of page what holds with so many statements to go
(`TodoKept`: what is left is an end of the kind's list): a pass or fail that was read is still the
row's, with its steps and evidence as far as they were read, or the row is pruned; the
listed proofs are at most those on disk, hence at most the headline proof read after
them; and without retention the scrape's passing run is there once a level is proven
(`PassedRows`: the row of a recorded pass says pass until it is pruned), and its last run is not
before it. It needs of the store that a verdict and the steps behind it are final and that proofs
only grow. From it: `ShownVerdictIsBacked` and `PagesAgree`.

*Startup.* That versions and schema agree is not inductive: a process must not run a
migration that is in effect, or one whose predecessor is not. `SchemaInv` adds, per
process (`MigratorOf`), who owns the transaction and what is in it, that in it the
next migration is the first that is not in effect, and that outside it a process is at most
one ahead of the schema; it may be any number behind, and then its SQL fails.
From it: `SchemaIsVersioned`, and with what each migration creates and drops `OpenStoreHasSchema`. `NoConfiguredCheckVanishes` and
`PassedCheckCouldFail` rest on `Policy` alone: `AcceptedIsBuilt` and `AcceptedCanFail` go through
the rules of Validate and the executor's builders level by level, for a block with any
number of settings, where TLC has two, so the theorems about `Spec` hold for any `Drills`. `ExitCodeTellsWorst` needs `CliInv`: the fold kept so far is
the worst of the results, nothing is kept from before the store was open, and the daemon
runs no drill this way.

*Scheduler.* An attempt count within the slots that have come is not inductive: `due` moves
a job before `dispatch` counts it. `SlotsUsed` counts the attempts made and those to come, and
says that the next firing lies at or after one slot more; with `advance` to the first slot after
the time read, plus jitter, a late loop uses up many slots and attempts once. From it
`NoBacklogBurst`; from `LoopTimes` (past `due` every job is in the future of the time
read) `LoopNeverSpins`; `OversleepBounded` is inductive with both. A job that never matches keeps a
time before every clock (`FiresNever`) and stays out of the counts of the others.

*Executor.* Five questions, one invariant `ExecutorInv`. `PlacesKept` says where a child, a
mount, a scratch directory and a container may be while the run is at a step: a child is always
on the way to the wait of `Stop`, a mount has a child or is about to be removed. It gives
`NoRemovalUnderMount` and `RunLeavesNothing`. `LevelsInOrder` says which version the run is about
(`Target`: the one pinned, or the one this level is about to pin) and that the names a level has
resolved are that one's; with `AboutTarget` it gives `OneVersionPerRun`. `EvidenceKept`, `TreeKept`
and `SandboxKept` say that a check that speaks looks at what the level has read, or is known not
to; `FailKept` and `PassKept` carry this from a check's answer to the folded status and the
recorded outcome, and give `FailIsTheBackup` and `PassHasRead`. In all of them a context that is
done is an excuse only until the record: a step is not recorded under one.

*Alerter.* `NoSecondDigest` needs that what was sent is behind `digestMark` and a digest on its way
is for a slot between the two (`DigestKept`). `NoRepeatedStaleAlert` needs that an episode keeps
the flag up until a recover is decided, and that a sweep between its read and its critical
section does not think otherwise (`EpisodeKept`). `NoUnjustifiedRecover` is the deepest: `FlagKept`
follows a flag that `afterRun` has read and lowered before it decides, and `RowsKept` and `BadRowsKept`
follow a bad row until a later run is over: retention leaves no hole among the rows
(`TableKept`), so of the two newest rows the one that is not the run's own is the last one before
it or a CLI run's after it.

The type invariants `TypeOK` of the modules are parts of these invariants and proved with them.

Only model-checked: all liveness (`SignalEndsDaemon`, `ClaimIsReturned`,
`DaemonRowsSettle`, `FlagTracksSLA`, `BadRunAlerted`, `DueIsAttempted`, `RunEnds`, `DaemonOpens`),
which the prover does not handle.

## Not modelled

- The parsing of the engines' output and the building of their arguments: text in,
  text out.
- The computations of the checks but for the tolerance (globs, entropy, the
  expressions of `expect`): functions of strings and floating-point numbers without state.
- Sizes in bytes: `Executor` lets any preflight or staging refuse, and
  `Startup` counts files.
- The rules of Validate for sources, server, notify and units; schedules' grammar.
- Authentication and the token bucket of the trigger: they decide whether a handler
  is reached, which the models leave open. There are no sessions.
- Rendering of messages, tables and reports, redaction, and delivery by the
  notification library: wording and network.
- `init`, `doctor` and `demo`: prompts and probes that keep no state of the running
  system.

`RunLifecycle` takes the executor's answer as any status, and the snapshot pin is in
`Executor`.

## Plan

1. Done: gate, daemon, run lifecycle, alerter, scheduler, executor, readers, policy and
   start-up; proofs of the safety properties of all of them.
2. `Checks`: the pure checks (globs, expectations, ages) as operators against
   reference definitions.
3. `Quota`: sizes in the executor, the limited writer.
