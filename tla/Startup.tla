------------------------------- MODULE Startup ------------------------------
(***************************************************************************)
(* From the command line to an open store, and for `redrill run` on to its *)
(* exit code.  Processes of one or of different releases start at any time *)
(* on one database file: each loads the configuration, brings the schema   *)
(* up to what its binary knows (internal/store/migrate.go: the version is  *)
(* read outside any transaction, then each pending migration is one), and  *)
(* goes on; any of them may be killed or fail at any statement.            *)
(*                                                                         *)
(* SQLite has one writer: a transaction that has written excludes every    *)
(* other write until it commits or rolls back, and nobody else sees what   *)
(* it wrote.                                                               *)
(***************************************************************************)
EXTENDS Policy, Sequences

CONSTANTS Procs,        \* the processes
          Daemon,       \* the one of them that is `redrill serve`
          MaxVersion,   \* bound: the schema versions of the releases about
          MaxFaults,    \* bound: statements of Open that fail, processes killed
          MaxDrills,    \* bound: the drills of `redrill run --all`
          MaxFiles,     \* bound: the files of a snapshot, here and there
          Quota,        \* scratch.max_bytes, in files, 0 when unset
          Drills        \* the drills a file may hold, one level block each

ASSUME StartupAssumption ==
  /\ Daemon \in Procs /\ "none" \notin Procs
  /\ MaxVersion \in 1..5 /\ MaxFaults \in Nat /\ MaxDrills \in Nat \ {0}
  /\ MaxFiles \in Nat /\ Quota \in Nat
  /\ \A d \in Drills : d.level \in {"l1", "l2", "l3"}

VARIABLES
  \* The database.
  applied,   \* the migrations whose SQL took effect, in that order
  versions,  \* the rows of schema_migrations
  tx,        \* the open write transaction, or none
  \* The processes.
  pc,        \* where a process is
  binary,    \* the newest migration its release has
  next,      \* the next migration it would apply
  left,      \* the drills `run` has still to run
  job,       \* the level being run and what it came to
  worst,     \* the exit code's result so far
  exit,      \* the last exit code
  results,   \* history: the results of this process's drills
  faults

schema == <<applied, versions, tx>>
cli    == <<left, job, worst, results>>
vars   == <<schema, pc, binary, next, cli, exit, faults>>

\* A transaction has run the migration's SQL or not, and inserted its row or
\* not.
Tx(p, sql, row) == [owner |-> p, sql |-> sql, row |-> row]
NoTx   == Tx("none", FALSE, FALSE)
NoJob == [result |-> "none"]
NoExit == 255
Signal == 137

Max0(S) == IF S = {} THEN 0 ELSE CHOOSE n \in S : \A k \in S : k =< n

Init ==
  /\ applied = <<>> /\ versions = {} /\ tx = NoTx
  /\ pc = [p \in Procs |-> "off"]
  /\ binary = [p \in Procs |-> 0]
  /\ next = [p \in Procs |-> 0]
  /\ left = [p \in Procs |-> 0]
  /\ job = [p \in Procs |-> NoJob]
  /\ worst = [p \in Procs |-> "pass"]
  /\ results = [p \in Procs |-> {}]
  /\ exit = [p \in Procs |-> NoExit]
  /\ faults = 0

-----------------------------------------------------------------------------
\* What each migration creates and drops: the tables of runs and the registry of
\* sources and drills (0001), which 0003 drops.
Creates(v) ==
  CASE v = 1 -> {"runs", "registry"}
    [] v = 2 -> {"files_restored"}
    [] v = 3 -> {"drill_counters"}
    [] v = 4 -> {"snapshot"}
    [] v = 5 -> {"snapshot_time"}

Drops(v) == IF v = 3 THEN {"registry"} ELSE {}

\* The tables and columns that are in the file.
Present ==
  {o \in UNION {Creates(applied[i]) : i \in DOMAIN applied} :
     \A i \in DOMAIN applied : o \notin Drops(applied[i])}

\* Those the statements of a release name: no code ever used the registry.
Uses(v) == (UNION {Creates(k) : k \in 1..v}) \ {"registry"}

AcceptedDrills == {d \in Drills : Accepted(d)}

Snapshots == [under : 0..MaxFiles, beside : 0..MaxFiles]
-----------------------------------------------------------------------------
Goto(p, where) == pc' = [pc EXCEPT ![p] = where]

\* The process ends, or dies: SQLite rolls back what it had not committed.
Leave(p, code) ==
  /\ Goto(p, "off")
  /\ binary' = [binary EXCEPT ![p] = 0]
  /\ next' = [next EXCEPT ![p] = 0]
  /\ left' = [left EXCEPT ![p] = 0]
  /\ job' = [job EXCEPT ![p] = NoJob]
  /\ worst' = [worst EXCEPT ![p] = "pass"]
  /\ exit' = [exit EXCEPT ![p] = code]
  /\ tx' = IF tx.owner = p THEN NoTx ELSE tx

\* A process of some release is started.
Launch(p) ==
  /\ pc[p] = "off"
  /\ Goto(p, "load")
  /\ \E v \in 1..MaxVersion : binary' = [binary EXCEPT ![p] = v]
  /\ exit' = [exit EXCEPT ![p] = NoExit]
  /\ results' = [results EXCEPT ![p] = {}]
  /\ UNCHANGED <<schema, next, left, job, worst, faults>>

\* config.Load finds fault with the file: exit 3 before the store is touched.
LoadRejects(p) ==
  /\ pc[p] = "load"
  /\ Leave(p, 3)
  /\ UNCHANGED <<applied, versions, results, faults>>

\* Which accepted drills the file holds makes no difference before they run,
\* and is chosen then.  selectDrills: the one named, or all; none for status,
\* history and report, which open the store to read it.
LoadAccepts(p) ==
  /\ pc[p] = "load"
  /\ Goto(p, "create")
  /\ \E n \in 0..MaxDrills : left' = [left EXCEPT ![p] = IF p = Daemon THEN 0 ELSE n]
  /\ UNCHANGED <<schema, binary, next, job, worst, exit, results, faults>>

\* --all without a drill, a name that is not there, or no name and no answer
\* (exit 2); a blank answer to the prompt (exit 0).
NothingSelected(p) ==
  /\ pc[p] = "load" /\ p # Daemon
  /\ \E code \in {0, 2} : Leave(p, code)
  /\ UNCHANGED <<applied, versions, results, faults>>

\* CREATE TABLE IF NOT EXISTS schema_migrations: whoever is in a transaction
\* has created it, so this never waits.
CreateTable(p) ==
  /\ pc[p] = "create"
  /\ Goto(p, "version")
  /\ UNCHANGED <<schema, binary, next, cli, exit, faults>>

\* Mutation: the version is read as 0 when it is not.
ReadVersionZero(p) ==
  /\ pc[p] = "version"
  /\ next' = [next EXCEPT ![p] = 1]
  /\ Goto(p, "migrate")
  /\ UNCHANGED <<schema, binary, cli, exit, faults>>

\* SELECT MAX(version): what is committed by now.
ReadVersion(p) ==
  /\ pc[p] = "version"
  /\ next' = [next EXCEPT ![p] = Max0(versions) + 1]
  /\ Goto(p, "migrate")
  /\ UNCHANGED <<schema, binary, cli, exit, faults>>

Pending(p) == pc[p] = "migrate" /\ next[p] =< binary[p]

InEffect(v) == \E i \in DOMAIN applied : applied[i] = v

\* Mutation: the SQL runs on its own, only the version row in a transaction.
ApplySQLAutocommit(p) ==
  /\ Pending(p) /\ tx = NoTx /\ ~ InEffect(next[p])
  /\ applied' = Append(applied, next[p])
  /\ tx' = Tx(p, FALSE, FALSE)
  /\ Goto(p, "insert")
  /\ UNCHANGED <<versions, binary, next, cli, exit, faults>>

\* applyMigration: the transaction and the migration's SQL.
ApplySQL(p) ==
  /\ Pending(p) /\ tx = NoTx /\ ~ InEffect(next[p])
  /\ tx' = Tx(p, TRUE, FALSE)
  /\ Goto(p, "insert")
  /\ UNCHANGED <<applied, versions, binary, next, cli, exit, faults>>

\* Another process applied it since the version was read: the SQL is not
\* repeatable (CREATE TABLE, DROP TABLE, ADD COLUMN) and fails, and so does
\* Open: exit 2.
ApplySQLFails(p) ==
  /\ Pending(p) /\ tx = NoTx /\ InEffect(next[p])
  /\ Leave(p, 2)
  /\ UNCHANGED <<applied, versions, results, faults>>

InsertVersion(p) ==
  /\ pc[p] = "insert"
  /\ tx' = Tx(p, tx.sql, TRUE)
  /\ Goto(p, "commit")
  /\ UNCHANGED <<applied, versions, binary, next, cli, exit, faults>>

Commit(p) ==
  /\ pc[p] = "commit"
  /\ applied' = IF tx.sql THEN Append(applied, next[p]) ELSE applied
  /\ versions' = IF tx.row THEN versions \cup {next[p]} ELSE versions
  /\ tx' = NoTx
  /\ next' = [next EXCEPT ![p] = @ + 1]
  /\ Goto(p, "migrate")
  /\ UNCHANGED <<binary, cli, exit, faults>>

\* Mutation: one migration short.
OpenedEarly(p) ==
  /\ pc[p] = "migrate" /\ next[p] >= binary[p]
  /\ Goto(p, "open")
  /\ UNCHANGED <<schema, binary, next, cli, exit, faults>>

\* Nothing is pending: the store is open.  A binary older than the schema goes
\* on too, whatever the newer migrations dropped.
Opened(p) ==
  /\ pc[p] = "migrate" /\ next[p] > binary[p]
  /\ Goto(p, "open")
  /\ UNCHANGED <<schema, binary, next, cli, exit, faults>>

\* A statement of Open fails (busy past the timeout, disk full): exit 2.
OpenFails(p) ==
  /\ pc[p] \in {"create", "version", "migrate", "insert", "commit"} /\ faults < MaxFaults
  /\ faults' = faults + 1
  /\ Leave(p, 2)
  /\ UNCHANGED <<applied, versions, results>>

Killed(p) ==
  /\ pc[p] # "off" /\ faults < MaxFaults
  /\ faults' = faults + 1
  /\ Leave(p, Signal)
  /\ UNCHANGED <<applied, versions, results>>

\* The daemon is told to stop.
Stop ==
  /\ pc[Daemon] = "open"
  /\ Leave(Daemon, 0)
  /\ UNCHANGED <<applied, versions, results, faults>>

Copies(d) == d.level = "l2" /\ d.restore.mode # "mount"

\* What a level of drill d comes to on a snapshot: the evidence of its checks,
\* the verdict, and whether more was copied than the quota admits.  A level that
\* does not get to its checks (an unreachable repository, a preflight that
\* refuses, a restore, mount or sandbox that fails) is an error without evidence
\* (errorStep), and an L3 may end in the version trap.
Outcomes(d, snap) ==
  {[drill |-> d, evidence |-> {}, over |-> FALSE, result |-> "error"]}
  \cup
  (IF d.level = "l3"
   THEN {[drill |-> d, evidence |-> VersionTrap, over |-> FALSE, result |-> "fail"]} ELSE {})
  \cup
  (IF ~ Copies(d) \/ Quota = 0 \/ \E n \in Predictions(d, snap) : n =< Quota
   THEN {[drill |-> d, evidence |-> ev, result |-> Aggregate(d, ev),
          over |-> Copies(d) /\ Quota > 0 /\ Restored(d, snap) > Quota] : ev \in Evidences(d)}
   ELSE {})

Jobs ==
  UNION {UNION {Outcomes(d, snap) : snap \in Snapshots} : d \in AcceptedDrills}

\* A level of a drill, up to its verdict.
RunDrill(p) ==
  /\ pc[p] = "open" /\ left[p] > 0
  /\ \E j \in Jobs : job' = [job EXCEPT ![p] = j]
  /\ Goto(p, "running")
  /\ UNCHANGED <<schema, binary, next, left, worst, exit, results, faults>>

\* Mutation: the last drill decides.
worseResultLast(a, b) == b

worseResult(a, b) ==
  IF "fail" \in {a, b} THEN "fail" ELSE IF "error" \in {a, b} THEN "error" ELSE "pass"

\* The run's own result, or error when Run returned one.
DrillDone(p) ==
  /\ pc[p] = "running"
  /\ \E r \in {job[p].result, "error"} :
       /\ worst' = [worst EXCEPT ![p] = worseResult(@, r)]
       /\ results' = [results EXCEPT ![p] = @ \cup {r}]
  /\ left' = [left EXCEPT ![p] = @ - 1]
  /\ job' = [job EXCEPT ![p] = NoJob]
  /\ Goto(p, "open")
  /\ UNCHANGED <<schema, binary, next, exit, faults>>

resultExit(r) == CASE r = "pass" -> 0 [] r = "fail" -> 1 [] r = "error" -> 2

RunReturns(p) ==
  /\ pc[p] = "open" /\ left[p] = 0 /\ results[p] # {}
  /\ Leave(p, resultExit(worst[p]))
  /\ UNCHANGED <<applied, versions, results, faults>>

\* status, history and report: no drill to run, only reads.
Reads(p) == p # Daemon /\ pc[p] = "open" /\ left[p] = 0 /\ results[p] = {}

ReadReturns(p) ==
  /\ Reads(p)
  /\ Leave(p, 0)
  /\ UNCHANGED <<applied, versions, results, faults>>

\* A read fails, or the report cannot be rendered or written.
ReadFails(p) ==
  /\ Reads(p) /\ faults < MaxFaults
  /\ faults' = faults + 1
  /\ Leave(p, 2)
  /\ UNCHANGED <<applied, versions, results>>

Opening(p) ==
  \/ LoadRejects(p) \/ LoadAccepts(p) \/ NothingSelected(p)
  \/ CreateTable(p) \/ ReadVersion(p)
  \/ ApplySQL(p) \/ ApplySQLFails(p) \/ InsertVersion(p) \/ Commit(p) \/ Opened(p)

Running(p) ==
  RunDrill(p) \/ DrillDone(p) \/ RunReturns(p) \/ ReadReturns(p) \/ ReadFails(p)

Next == Stop \/ \E p \in Procs : Launch(p) \/ Opening(p) \/ Running(p) \/ OpenFails(p) \/ Killed(p)

Spec == Init /\ [][Next]_vars

\* A process that is opening its store goes on; nobody has to start one.
FairSpec == Spec /\ \A p \in Procs : WF_vars(Opening(p))
-----------------------------------------------------------------------------
Places ==
  {"off", "load", "create", "version", "migrate", "insert", "commit", "open", "running"}

\* Each migration took effect once, in order, together with its row: whoever
\* else was migrating, and wherever a process was killed.  The next start
\* therefore neither repeats one nor leaves one out.
SchemaMatchesVersions ==
  applied = [i \in 1..Len(applied) |-> i] /\ versions = 1..Len(applied)

\* Whoever has the store open finds every table and column that the statements of
\* its release name, although the version was read long before, and although a
\* newer release may have dropped tables since (0003).
OpenHasSchema == \A p \in Procs : pc[p] \in {"open", "running"} => Uses(binary[p]) \subseteq Present

\* Of two processes that migrate at once one may lose and exit 2; a daemon that
\* keeps being started with a valid file gets its store in the end.
DaemonOpens == []<>(pc[Daemon] = "create") => []<>(pc[Daemon] = "open")

\* "A configured check must never vanish silently (it would let the level pass
\* while checking nothing)" (exec.go, l3.go): a check of an accepted drill that is
\* not switched off is supported at its level and leaves evidence there, unless
\* the level says for itself that it never got to its checks: an error without
\* evidence, or the fail of an L3 whose dump is too new for the image.
NoCheckVanishes ==
  \A p \in Procs : pc[p] = "running" =>
    \/ job[p].result = "error" /\ job[p].evidence = {}
    \/ job[p].result = "fail" /\ job[p].drill.level = "l3" /\ job[p].evidence = VersionTrap
    \/ \A s \in job[p].drill.block :
         \/ s.value = "off" \/ s.key = "read_data_subset_pct"
         \/ Supported(job[p].drill, s) /\ \E e \in job[p].evidence : e.of = s

\* "Without a check that can fail, the level would pass with zero evidence"
\* (config/drill.go): an L1 or L3 that passed ran a check that could have
\* failed, unless its one check is a minimum size of 0.
PassCouldHaveFailed ==
  \A p \in Procs :
    pc[p] = "running" /\ job[p].drill.level # "l2" /\ job[p].result = "pass" =>
      \E e \in job[p].evidence :
        e.of \in job[p].drill.block /\ (CanFail(e.of) \/ e.of.value = "zero")

\* The exit code of `redrill run` tells a hook the worst of its drills, in
\* whichever order they ran: 0 only when each of them passed, 1 as soon as one
\* failed.
ExitTellsWorst ==
  \A p \in Procs : pc[p] = "off" /\ results[p] # {} /\ exit[p] # Signal =>
    /\ (exit[p] = 0) = (results[p] = {"pass"})
    /\ (exit[p] = 1) = ("fail" \in results[p])

\* "An empty sample would silently restore the whole snapshot with a zero
\* preflight prediction, bypassing the quota's early refusal"
\* (config/drill.go), which Validate is there to exclude: a sampled restore
\* copies no more than the quota admits.
SampleWithinQuota ==
  \A p \in Procs :
    pc[p] = "running" /\ job[p].drill.level = "l2" /\ job[p].drill.restore.scope # "full"
    => ~ job[p].over

-----------------------------------------------------------------------------
\* The inductive invariant behind the two properties of the schema: where a
\* process is in migrate, and what it knows by then.
SchemaType ==
  /\ applied \in Seq(Nat)
  /\ pc \in [Procs -> Places]
  /\ binary \in [Procs -> Nat] /\ next \in [Procs -> Nat]

MigratorOf(p) ==
  /\ tx.owner = p => pc[p] \in {"insert", "commit"}
  /\ pc[p] = "insert" => tx = Tx(p, TRUE, FALSE)
  /\ pc[p] = "commit" => tx = Tx(p, TRUE, TRUE)
  /\ pc[p] \in {"insert", "commit"} => next[p] = Len(applied) + 1
  /\ pc[p] = "migrate" => next[p] \in 1..(Len(applied) + 1)
  /\ pc[p] \in {"open", "running"} => Len(applied) >= binary[p]

SchemaInv == SchemaType /\ SchemaMatchesVersions /\ \A p \in Procs : MigratorOf(p)
=============================================================================
