------------------------------ MODULE Executor ------------------------------
(***************************************************************************)
(* The levels of one run as internal/exec carries them out: what each      *)
(* level reads of a source that goes on changing, the scratch directory,   *)
(* FUSE child and container it works in, how it ends them, and how the     *)
(* evidence becomes pass, fail or error.  Around it: a drill's timeout, a  *)
(* kill of the process, and another `redrill serve` that starts meanwhile  *)
(* and reaps every scratch directory and container it finds.               *)
(*                                                                         *)
(* A backup has a version; a name holds one version at a time.  A restic   *)
(* snapshot id is never used again, the name of a borg archive only after  *)
(* the archive was deleted, and in a dump directory a file may be          *)
(* overwritten.  A version is good or bad, from the start (BadSets); bad   *)
(* is one that a configured check or the load has to reject, so also a     *)
(* dump from a newer postgres than the drill's image (the version trap).   *)
(* Sizes are left out: a quota or a full disk may refuse any restore.      *)
(* A setting that only one step looks at is chosen at that step.           *)
(***************************************************************************)
EXTENDS Integers, FiniteSets

CONSTANTS Engines,      \* the source types, of "dumpdir", "borg", "restic"
          Selections,   \* the sets of levels a run may be asked for
          CheckSets,    \* the sets of L2 checks a drill may configure
          BadSets,      \* the sets of versions that may be bad ones
          MaxVersion,   \* bound: backups ever made
          MaxBoots      \* bound: starts of another `redrill serve`

ASSUME ExecutorAssumption ==
  /\ Engines \subseteq {"dumpdir", "borg", "restic"}
  /\ Selections \subseteq (SUBSET (1..3) \ {{}})
  /\ BadSets \subseteq SUBSET (1..MaxVersion)
  /\ MaxVersion \in Nat \ {0} /\ MaxBoots \in Nat

VARIABLES
  \* Settings of the drill that several levels look at.
  engine, pick, keep,
  \* The source.
  file,       \* the version a name holds, 0 when there is none
  bad,        \* the versions, made or still to be made, that some check may find out
  latest,     \* the newest version made
  \* The run.
  pc, ctx,
  todo,       \* the levels still to do
  level,      \* the level being done
  pin, pinAt, \* levelState.pin and pinAt; a timestamp is a version
  snap, snapAt, \* StepResult.Snapshot and SnapshotTime
  ids,        \* the names this level reads
  evs,        \* the statuses of the evidence that is not yet folded
  walked,     \* what walkAggregates has seen
  status,     \* StepResult.Status
  out,        \* the outcome recorded for the level, "none" while it is being done
  \* What a level works in.
  scratch,    \* the run's scratch directory is there
  holds,      \* the versions restored into it
  dump,       \* the version staged for the sandbox, 0 when there is none
  child, fuse, sig, \* the mount child, the mount, the last signal sent to it
  box,        \* the run's container
  boots,      \* starts of another daemon so far
  booting,    \* one of them has swept and not yet run its janitor
  \* History, for the properties only.
  resolved,   \* the versions the level's names held when it resolved them
  read,       \* the versions the level's evidence is about
  raced,      \* the level read other versions than it had resolved
  blind,      \* the level's checks may have judged something else than the backup: see
              \* FailBlamesBackup
  lost        \* a removal failed, or an answer that named a resource was lost

settings == <<engine, pick, keep>>
source   == <<file, bad, latest>>
plan     == <<ctx, todo, level, pin, pinAt>>
step     == <<snap, snapAt, ids, evs, walked, status>>
daemon   == <<boots, booting>>
places   == <<scratch, holds, dump, child, fuse, sig, box>>
history  == <<resolved, read, raced, blind, lost>>
vars     == <<settings, source, pc, plan, step, out, places, daemon, history>>

Versions == 1..MaxVersion
Names    == Versions
NoName   == 0
Levels   == 1..3
Verdicts == {"pass", "fail", "error"}

isRepo == engine # "dumpdir"

Init ==
  /\ engine \in Engines
  /\ pick \in IF isRepo THEN {"latest"} ELSE {"latest", "all-matching-window"}
  /\ keep \in BOOLEAN
  /\ file = [n \in Names |-> IF n = 1 THEN 1 ELSE 0]
  /\ bad \in BadSets
  /\ latest = 1
  /\ pc = "level" /\ ctx = "live"
  /\ todo \in Selections
  /\ level = 0
  /\ pin = NoName /\ pinAt = 0
  /\ snap = NoName /\ snapAt = 0
  /\ ids = {}
  /\ evs = {} /\ walked = "nothing" /\ status = "none"
  /\ out = "none"
  /\ scratch = FALSE /\ holds = {} /\ dump = 0
  /\ child = "none" /\ fuse = "off" /\ sig = "none"
  /\ box = "none"
  /\ boots = 0 /\ booting = FALSE
  /\ resolved = {} /\ read = {}
  /\ raced = FALSE /\ blind = FALSE /\ lost = FALSE

Alive == pc \notin {"ended", "killed"}

-----------------------------------------------------------------------------
\* Pure parts.

\* aggregate: fail dominates error, error dominates pass.
aggregate(s) ==
  IF "fail" \in s THEN "fail" ELSE IF "error" \in s THEN "error" ELSE "pass"

Listed == {n \in Names : file[n] # 0}

\* The name ListSnapshots puts first.
IsNewest(n) == n \in Listed /\ \A m \in Listed : file[m] =< file[n]

\* The level reports the backup it resolved.
Report(n) == snap' = n /\ snapAt' = file[n]

\* What a check may say of versions it can read.
Judge(vs) == {"pass"} \cup IF \E v \in vs : v \in bad THEN {"fail"} ELSE {}

\* A call of a borg or restic process: subproc.ExecRunner reports a kill by the
\* context as its own error, never as an exit code.
EngineAnswers == isRepo => ctx = "live"

\* RunStep has returned, or its process is gone.
StepGone ==
  /\ snap' = NoName /\ snapAt' = 0 /\ ids' = {}
  /\ evs' = {} /\ walked' = "nothing" /\ status' = "none"
  /\ dump' = 0 /\ resolved' = {}

\* What the levels leave where another process can find it.
remains == <<scratch, holds, child, fuse, sig, box>>

-----------------------------------------------------------------------------
\* The source and the world.

\* A backup is made: a new snapshot or archive, a new dump, or an existing dump
\* rewritten.
Backup(n) ==
  /\ Alive /\ latest < MaxVersion
  /\ engine = "restic" => n = latest + 1
  /\ engine = "borg" => file[n] = 0
  /\ file' = [file EXCEPT ![n] = latest + 1]
  /\ latest' = latest + 1
  /\ UNCHANGED <<bad, settings, pc, plan, step, out, places, daemon, history>>

\* The source is rotated.
Rotate(n) ==
  /\ Alive /\ file[n] # 0
  /\ file' = [file EXCEPT ![n] = 0]
  /\ UNCHANGED <<bad, latest, settings, pc, plan, step, out, places, daemon, history>>

\* The drill's timeout, or the daemon's stop.  The runtime signals the process
\* group of a mount child at once (Cancel), and kills it after WaitDelay.
Expire ==
  /\ Alive /\ ctx = "live"
  /\ ctx' = "done"
  /\ UNCHANGED <<todo, level, pin, pinAt, settings, source, pc, step, out, places, daemon, history>>

\* The process is killed.  Its children are in groups of their own and live on.
Kill ==
  /\ Alive
  /\ pc' = "killed" /\ ctx' = "done"
  /\ todo' = {} /\ level' = 0 /\ pin' = NoName /\ pinAt' = 0
  /\ StepGone
  /\ out' = "none" /\ read' = {} /\ raced' = FALSE /\ blind' = FALSE
  /\ UNCHANGED <<settings, source, remains, daemon, lost>>

-----------------------------------------------------------------------------
\* The run, level by level.

\* A level starts.
NextLevel ==
  /\ pc = "level"
  /\ \E l \in todo : (\A k \in todo : l =< k) /\ level' = l /\ todo' = todo \ {l}
  /\ \/ UNCHANGED status /\ pc' = "validate"
     \/ \* No sandbox runtime: L3 is skipped.
        level' = 3 /\ status' = "skipped" /\ pc' = "record"
  /\ out' = "none" /\ read' = {} /\ raced' = FALSE /\ blind' = FALSE
  /\ UNCHANGED <<ctx, pin, pinAt, snap, snapAt, ids, evs, walked,
                 settings, source, places, daemon, resolved, lost>>

EndRun ==
  /\ pc = "level" /\ todo = {}
  /\ pc' = "ended"
  /\ UNCHANGED <<settings, source, plan, step, out, places, daemon, history>>

\* runLevel after RunStep: the first level to name a snapshot pins the rest, and
\* evidence and step are written under the run's context, so that nothing is
\* recorded once it is done and the run ends with an error.  A level that did
\* not pass short-circuits the ones above it.
Record ==
  /\ pc = "record"
  /\ IF pin = NoName THEN pin' = snap /\ pinAt' = snapAt ELSE UNCHANGED <<pin, pinAt>>
  /\ IF ctx = "done"
     THEN pc' = "ended" /\ UNCHANGED out
     ELSE /\ out' = status
          /\ pc' = IF status \in {"fail", "error"} THEN "ended" ELSE "level"
  /\ StepGone
  /\ UNCHANGED <<ctx, todo, level, settings, source, remains, daemon, read, raced, blind, lost>>

\* errorStep, before and after the scratch directory was made.
Errs(next) == status' = "error" /\ pc' = next

Validate ==
  /\ pc = "validate"
  /\ \/ Errs("record")
     \/ /\ EngineAnswers
        /\ pc' \in IF level = 1 THEN (IF isRepo THEN {"native", "list"} ELSE {"list"})
                   ELSE {"resolve"}
        /\ UNCHANGED status
  /\ UNCHANGED <<snap, snapAt, ids, evs, walked, settings, source, plan, out, places, daemon, history>>

-----------------------------------------------------------------------------
\* L1: nothing is restored.

\* Mutation: a positive exit of borg check, whichever it is, has found errors.
NativeOutcomesByExit(hindered) ==
  {"error"} \cup
  IF ctx = "done" THEN {}
  ELSE IF hindered THEN {"fail"}
  ELSE Judge({file[n] : n \in Listed})

\* A native check is hindered by a lock that a backup client holds (restic check
\* takes an exclusive one), a backend that fails or an engine that gives up.
\* borg check maps exit 1 to a failing report and the rest to an error; restic
\* check maps every positive exit to a failing report.
NativeOutcomes(hindered) ==
  {"error"} \cup
  IF ctx = "done" THEN {}
  ELSE IF hindered THEN (IF engine = "restic" THEN {"fail"} ELSE {})
  ELSE Judge({file[n] : n \in Listed})

\* The evidence is folded into the level's status.
Fold(e, next) == evs' = {} /\ status' = aggregate(e) /\ pc' = next

NativeCheck ==
  /\ pc = "native"
  /\ \E hindered \in BOOLEAN : \E s \in NativeOutcomes(hindered) :
       /\ blind' = (blind \/ (engine = "restic" /\ hindered /\ s = "fail"))
       /\ \/ Fold({s}, "record")
          \/ evs' = {s} /\ pc' = "list" /\ UNCHANGED status
  /\ read' = {file[n] : n \in Listed}
  /\ UNCHANGED <<snap, snapAt, ids, walked, resolved, raced, lost,
                 settings, source, plan, out, places, daemon>>

\* archiveChecks: age and size of the newest snapshot, which becomes the pin.
ListRepo ==
  /\ pc = "list" /\ isRepo
  /\ \/ \* The listing fails, or there is nothing to age-check; a missing size is
        \* no signal, and passes.
        /\ \E s \in {"error"} \cup (IF ctx = "live" /\ Listed = {} THEN {"pass"} ELSE {}) :
             Fold(evs \cup {s}, "record")
        /\ UNCHANGED <<snap, snapAt, resolved, read>>
     \/ \E n \in Names :
          /\ ctx = "live" /\ IsNewest(n)
          /\ Report(n)
          /\ resolved' = {file[n]}
          /\ read' = read \cup {file[n]}
          /\ \E s \in Judge({file[n]}) : Fold(evs \cup {s}, "record")
  /\ UNCHANGED <<ids, walked, raced, blind, lost,
                 settings, source, plan, out, places, daemon>>

\* ListSnapshots of a dump directory, and the dumps the setting picks.
ListDumps ==
  /\ pc = "list" /\ ~isRepo
  /\ \/ Errs("record") /\ UNCHANGED <<snap, snapAt, ids, resolved>>
     \/ \E n \in Names :
          /\ IsNewest(n)
          /\ Report(n)
          /\ ids' = IF pick = "latest" THEN {n} ELSE Listed
          /\ resolved' = {file[m] : m \in ids'}
          /\ pc' = "inspect" /\ UNCHANGED status
  /\ UNCHANGED <<evs, walked, read, raced, blind, lost,
                 settings, source, plan, out, places, daemon>>

\* The versions the level's names hold now; 0 for a name that is gone.
Now == {file[n] : n \in ids}

\* The L1 checks of the dumps, in place: a dump that is gone is an error.
InspectDumps ==
  /\ pc = "inspect"
  /\ read' = Now \ {0}
  /\ raced' = (raced \/ Now # resolved)
  /\ \E s \in Judge(Now \ {0}) \cup {"error"} :
       Fold({s} \cup IF 0 \in Now THEN {"error"} ELSE {}, "record")
  /\ UNCHANGED <<snap, snapAt, ids, walked, resolved, blind, lost,
                 settings, source, plan, out, places, daemon>>

-----------------------------------------------------------------------------
\* L2 and L3: which backup, and where it goes.

\* A window of dumps is listed again at L2, pin or not.
Pinned == pin # NoName /\ ~(level = 2 /\ pick = "all-matching-window")

\* Mutation: a dump is taken by its name alone.
pinnedDumpGone == file[pin] = 0

\* pinnedDumpChanged, and the stat before it.  A pin without a timestamp is not
\* compared.
pinnedDumpChanged == file[pin] = 0 \/ (pinAt # 0 /\ file[pin] # pinAt)

\* resolveSnapshot, and the stat of a pinned dump.  The size of a full restore
\* from a repository is asked for, and not knowing it is tolerated.
Resolve ==
  /\ pc = "resolve"
  /\ \/ /\ Errs("record")
        /\ UNCHANGED <<snap, snapAt, ids, resolved>>
     \/ /\ IF Pinned
           THEN /\ isRepo \/ ~pinnedDumpChanged
                /\ snap' = pin /\ snapAt' = 0 /\ ids' = {pin}
                /\ resolved' = IF isRepo THEN {pinAt} ELSE {file[pin]}
           ELSE \E n \in Names :
                  /\ EngineAnswers /\ IsNewest(n)
                  /\ Report(n)
                  /\ ids' = IF level = 2 /\ pick = "all-matching-window" THEN Listed ELSE {n}
                  /\ resolved' = {file[m] : m \in ids'}
        /\ pc' = "scratch" /\ UNCHANGED status
  /\ UNCHANGED <<evs, walked, read, raced, blind, lost,
                 settings, source, plan, out, places, daemon>>

\* newScratch; then the way the level and its mode take.
NewScratch ==
  /\ pc = "scratch"
  /\ \/ Errs("record") /\ UNCHANGED scratch
     \/ /\ scratch' = TRUE
        /\ pc' \in IF level = 2 THEN {"preflight"} \cup (IF isRepo THEN {"mount"} ELSE {})
                   ELSE IF isRepo THEN {"extract"} ELSE {"stage"}
        /\ UNCHANGED status
  /\ UNCHANGED <<snap, snapAt, ids, evs, walked, holds, dump, child, fuse, sig, box,
                 settings, source, plan, out, daemon, history>>

\* preflight: a refusal, for the quota or the free disk space, is an error.
Preflight ==
  /\ pc = "preflight"
  /\ \/ Errs("cleanup")
     \/ scratch /\ pc' = "restore" /\ UNCHANGED status
  /\ UNCHANGED <<snap, snapAt, ids, evs, walked,
                 settings, source, plan, out, places, daemon, history>>

\* Mutation: a restore that did not complete is checked all the same.
RestoreFailsOpen == pc' = "walk" /\ UNCHANGED status

\* A driver's Restore that returns an error.
RestoreFails == Errs("cleanup")

\* Restore of L2.  A scratch directory that was swept is missed by the copy of a
\* dump and by borg, and made again by restic's staging directory.
Restore ==
  /\ pc = "restore"
  /\ \/ RestoreFails /\ UNCHANGED <<scratch, holds, raced>>
     \/ /\ ctx = "live" /\ 0 \notin Now
        /\ scratch \/ engine = "restic"
        /\ scratch' = TRUE /\ holds' = Now
        /\ raced' = (raced \/ Now # resolved)
        /\ pc' = "walk" /\ UNCHANGED status
  /\ UNCHANGED <<snap, snapAt, ids, evs, walked, dump, child, fuse, sig, box,
                 resolved, read, blind, lost, settings, source, plan, out, daemon>>

-----------------------------------------------------------------------------
\* L2: the checks of the restored or mounted tree.

\* What there is of the tree.  A mount that is gone leaves the empty mountpoint,
\* or for restic no ids directory; a mount whose child died without unmounting
\* answers every call with an error.
View ==
  IF child = "none" THEN (IF scratch /\ holds # {} THEN "files" ELSE "missing")
  ELSE IF fuse = "live" /\ child = "serving" THEN "files"
  ELSE IF fuse = "off" THEN (IF engine = "restic" \/ ~scratch THEN "missing" ELSE "empty")
  ELSE "broken"

\* The versions in the tree.
Tree == IF View # "files" THEN {} ELSE IF child = "none" THEN holds ELSE resolved

\* What one look at it finds.  A tree that is there may answer some calls with
\* errors, or without entries it should have: the disk fails or, under a mount,
\* the repository cannot be reached or the snapshot was forgotten meanwhile.
Views == {View} \cup (IF View = "files" THEN {"faulty"} ELSE {})

\* walkAggregates: an entry that cannot be read is skipped, not reported.
Walk ==
  /\ pc = "walk"
  /\ \E v \in Views :
       /\ walked' = IF v \in {"files", "faulty"} THEN v ELSE "nothing"
       /\ blind' = (blind \/ v = "faulty")
  /\ read' = Tree
  /\ pc' = "check"
  /\ UNCHANGED <<snap, snapAt, ids, evs, status, resolved, raced, lost,
                 settings, source, plan, out, places, daemon>>

WalkKinds == {"min_total_bytes", "file_count_tolerance_pct", "newest_file_max_age"}

\* The totals are judged by what the walk saw: only a walk that saw no file at
\* all is an error, and only to newest_file_max_age.
ReactToWalk(k) ==
  IF walked = "files" THEN Judge(read)
  ELSE IF k # "newest_file_max_age" THEN {"pass", "fail"}
  ELSE {"error"} \cup (IF walked = "faulty" THEN {"pass", "fail"} ELSE {})

\* The other checks look at the tree themselves; a command runs in an empty one
\* and says what it likes of it.
ReactToTree(k, v) ==
  IF v = "files" THEN Judge(Tree)
  ELSE IF v = "faulty" THEN Verdicts
  ELSE IF v = "broken" THEN {"error"}
  ELSE IF k \in {"path_exists", "canary_file"} THEN {"fail"}
  ELSE IF k = "path_absent" THEN {"pass"}
  ELSE IF v = "missing" THEN {"error"} ELSE {"pass", "fail"}

\* The status a check may come to.  The entropy check is advisory.
React(k, v) ==
  IF k = "hash_match" THEN {"pass"}
  ELSE IF k \in WalkKinds THEN ReactToWalk(k)
  ELSE IF k = "entropy_anomaly" THEN ReactToTree(k, v) \ {"fail"}
  ELSE ReactToTree(k, v)

AfterChecks == IF child = "none" THEN "cleanup" ELSE "unmount"

\* finishL2, up to an exec check.
Check ==
  /\ pc = "check"
  /\ \E cs \in CheckSets :
       \E f \in [cs \ {"exec"} -> Verdicts], v \in [cs \ {"exec"} -> Views] :
         /\ \A k \in cs \ {"exec"} : f[k] \in React(k, v[k])
         /\ blind' = (blind \/ \E k \in cs \ {"exec"} : v[k] = "faulty")
         /\ IF "exec" \in cs
            THEN evs' = {f[k] : k \in cs \ {"exec"}} /\ pc' = "exec" /\ UNCHANGED status
            ELSE Fold({f[k] : k \in cs}, AfterChecks)
  /\ walked' = "nothing"
  /\ UNCHANGED <<snap, snapAt, ids, resolved, read, raced, lost,
                 settings, source, plan, out, places, daemon>>

\* ExecScript: the operator's command returns.  CombinedOutput waits for everyone
\* who holds its pipe, also after the context has killed the command.
ExecScript ==
  /\ pc = "exec"
  /\ \E v \in Views :
       /\ \E s \in (IF ctx = "done" THEN {"error"} ELSE ReactToTree("exec", v)) :
            Fold(evs \cup {s}, AfterChecks)
       /\ blind' = (blind \/ v = "faulty")
  /\ UNCHANGED <<snap, snapAt, ids, walked, resolved, read, raced, lost,
                 settings, source, plan, out, places, daemon>>

-----------------------------------------------------------------------------
\* The FUSE child of mount mode.

ChildAlive == child \in {"up", "serving"}

\* Mount: the child is started, or something before it fails.
StartMount ==
  /\ pc = "mount"
  /\ \/ Errs("remove") /\ UNCHANGED <<child, sig>>
     \/ /\ ctx = "live" /\ scratch
        /\ child' = "up" /\ sig' = "none"
        /\ pc' = "mounting" /\ UNCHANGED status
  /\ UNCHANGED <<snap, snapAt, ids, evs, walked, scratch, holds, dump, fuse, box,
                 settings, source, plan, out, daemon, history>>

\* StartMount's loop: serving, the child gone, or time up.  restic serves the
\* whole repository, and the snapshot may not be in it (idsEntry).
AwaitMount ==
  /\ pc = "mounting"
  /\ \/ /\ fuse = "live" /\ child = "serving"
        /\ IF 0 \in Now THEN Errs("unmount") ELSE pc' = "walk" /\ UNCHANGED status
        /\ UNCHANGED child
     \/ child = "exited" /\ child' = "none" /\ Errs("remove")
     \/ Errs("unmount") /\ UNCHANGED child
  /\ UNCHANGED <<snap, snapAt, ids, evs, walked, scratch, holds, dump, fuse, sig, box,
                 settings, source, plan, out, daemon, history>>

\* The child serves.  borg finds only an archive that is there, and serves what
\* the name holds by now.
ChildServes ==
  /\ child = "up" /\ scratch
  /\ child' = "serving" /\ fuse' = "live"
  /\ IF engine = "borg"
     THEN 0 \notin Now /\ resolved' = Now /\ raced' = (raced \/ Now # resolved)
     ELSE UNCHANGED <<resolved, raced>>
  /\ UNCHANGED <<scratch, holds, dump, sig, box, read, blind, lost,
                 settings, source, pc, plan, step, out, daemon>>

\* The child exits by itself because of a SIGTERM or because its mount is gone,
\* and then leaves no mount; killed or crashing it leaves a dead one.
ChildExits ==
  /\ ChildAlive
  /\ child' = "exited"
  /\ \/ (sig = "term" \/ (child = "serving" /\ fuse = "off")) /\ fuse' = "off"
     \/ fuse' = IF fuse = "live" THEN "dead" ELSE fuse
  /\ blind' = (blind \/ (pc \in {"walk", "check", "exec"} /\ sig = "none"))
  /\ UNCHANGED <<scratch, holds, dump, sig, box, resolved, read, raced, lost,
                 settings, source, pc, plan, step, out, daemon>>

\* The context of the child's command: SIGTERM to its group, a kill after
\* WaitDelay.
ContextSignals ==
  /\ ctx = "done" /\ Alive /\ ChildAlive
  /\ \/ sig = "none" /\ sig' = "term"
     \/ sig = "term" /\ sig' = "kill"
  /\ UNCHANGED <<scratch, holds, dump, child, fuse, box, settings, source, pc, plan, step, out, daemon, history>>

\* Stop begins with the unmount command.  borg's runs under the run's context,
\* the platform's tools under their own.
Unmount ==
  /\ pc = "unmount"
  /\ \/ fuse # "off" /\ (engine = "restic" \/ ctx = "live") /\ fuse' = "off"
     \/ UNCHANGED fuse
  /\ pc' = "grace"
  /\ UNCHANGED <<scratch, holds, dump, child, sig, box, settings, source, plan, step, out, daemon, history>>

\* Stop has received from m.done.
Reaped == child = "exited" /\ child' = "none" /\ sig' = "none" /\ pc' = "remove"

\* The grace period lapses and the child is signalled.
Escalate(s, next) == sig' = s /\ pc' = next /\ UNCHANGED child

\* Mutation: Stop gives up on a child that ignores SIGTERM.
StopGivesUp ==
  \/ pc = "grace" /\ (Reaped \/ Escalate("term", "terminating"))
  \/ pc = "terminating" /\ (Reaped \/ Escalate(sig, "remove"))

\* Mutation: Stop waits for a child that ignores SIGTERM.
StopWaits ==
  \/ pc = "grace" /\ (Reaped \/ Escalate("term", "terminating"))
  \/ pc = "terminating" /\ Reaped

\* Stop: wait, SIGTERM, wait, SIGKILL, wait.
StopChild ==
  \/ pc = "grace" /\ (Reaped \/ Escalate(IF sig = "kill" THEN sig ELSE "term", "terminating"))
  \/ pc = "terminating" /\ (Reaped \/ Escalate("kill", "killing"))
  \/ pc = "killing" /\ Reaped

Stop ==
  /\ StopChild
  /\ UNCHANGED <<scratch, holds, dump, fuse, box, settings, source, plan, step, out, daemon, history>>

-----------------------------------------------------------------------------
\* L3: stage the dump, boot the sandbox, load, check.

\* Restore of the dump at extract_path: no preflight.
Extract ==
  /\ pc = "extract"
  /\ \/ Errs("cleanup") /\ UNCHANGED <<scratch, holds, resolved, raced>>
     \/ /\ ctx = "live" /\ 0 \notin Now
        /\ scratch' = TRUE /\ holds' = holds \cup Now
        /\ resolved' = Now /\ raced' = (raced \/ Now # resolved)
        /\ pc' = "stage" /\ UNCHANGED status
  /\ UNCHANGED <<snap, snapAt, ids, evs, walked, dump, child, fuse, sig, box,
                 read, blind, lost, settings, source, plan, out, daemon>>

\* stageDump and the version trap of a plain dump.  The quota writer ends an
\* oversized dump with an error.
Stage ==
  /\ pc = "stage"
  /\ \/ Errs("cleanup") /\ UNCHANGED <<dump, evs, read, raced>>
     \/ /\ scratch
        /\ dump' \in IF isRepo THEN holds \cap resolved ELSE Now \ {0}
        /\ read' = {dump'}
        /\ raced' = (raced \/ {dump'} # resolved)
        /\ \/ pc' = "create" /\ UNCHANGED <<evs, status>>
           \/ dump' \in bad /\ Fold({"fail"}, "cleanup")
  /\ UNCHANGED <<snap, snapAt, ids, walked, scratch, holds, child, fuse, sig, box,
                 resolved, blind, lost, settings, source, plan, out, daemon>>

\* ensureImage and ContainerCreate.  An answer lost to the context leaves a
\* container nobody knows of.
CreateBox ==
  /\ pc = "create"
  /\ \/ Errs("cleanup") /\ UNCHANGED <<box, lost>>
     \/ Errs("cleanup") /\ box' = "created" /\ lost' = TRUE
     \/ ctx = "live" /\ box' = "created" /\ pc' = "boot" /\ UNCHANGED <<status, lost>>
  /\ UNCHANGED <<snap, snapAt, ids, evs, walked, scratch, holds, dump, child, fuse, sig,
                 resolved, read, raced, blind, settings, source, plan, out, daemon>>

\* Mutation: a sandbox that does not become ready is left to the caller.
BootFailsLeaky == Errs("cleanup")

\* Start returns an error after ContainerCreate: its cleanup is due.
BootFails == Errs("discard")

\* ContainerStart, waitReady, copyIn.
BootBox ==
  /\ pc = "boot"
  /\ \/ BootFails /\ UNCHANGED box
     \/ /\ ctx = "live" /\ scratch /\ box = "created"
        /\ box' = "up" /\ pc' = "load" /\ UNCHANGED status
  /\ UNCHANGED <<snap, snapAt, ids, evs, walked, scratch, holds, dump, child, fuse, sig,
                 settings, source, plan, out, daemon, history>>

\* The status of a command in the sandbox.  One that is hindered there (killed for
\* its memory, without a tool it needs) exits with a code that pg_restore's load
\* and the sql_no_error, tcp and exec checks take for a fail; one that ran when
\* the sandbox was taken away may be seen to have exited, or not to exist any
\* more.
SandboxSays(hindered) ==
  IF ctx = "done" THEN {"error"}
  ELSE IF box = "up" /\ ~hindered THEN Judge({dump}) \cup {"error"}
  ELSE {"error", "fail"}

\* loadDump, and before it the version trap of a custom dump.
Load ==
  /\ pc = "load"
  /\ \/ \E hindered \in BOOLEAN : \E s \in SandboxSays(hindered) :
          /\ evs' = {s} /\ pc' = "query" /\ UNCHANGED status
          /\ blind' = (blind \/ (hindered /\ s = "fail"))
     \/ /\ box = "up" /\ ctx = "live" /\ dump \in bad
        /\ Fold({"fail"}, "close") /\ UNCHANGED blind
  /\ UNCHANGED <<snap, snapAt, ids, walked, resolved, read, raced, lost,
                 settings, source, plan, out, places, daemon>>

\* The L3 checks, whatever came of the load.  They ask an empty database if the
\* dump was not loaded, and one the image made if the databases could not be
\* listed before the load (listDatabases, loadedDB).
Query ==
  /\ pc = "query"
  /\ \E misled \in (IF "error" \in evs THEN {TRUE} ELSE BOOLEAN) :
       /\ \E s \in SandboxSays(misled) \cup (IF misled /\ ctx = "live" THEN {"pass", "fail"} ELSE {}) :
            Fold(evs \cup {s}, "close")
       /\ blind' = (blind \/ misled)
  /\ UNCHANGED <<snap, snapAt, ids, walked, resolved, read, raced, lost,
                 settings, source, plan, out, places, daemon>>

\* Close force-removes the container, outside of the run's context; a removal
\* that fails is not tried again.
CloseBox ==
  /\ pc = "discard" \/ (pc = "close" /\ ~keep)
  /\ \/ box' = "none" /\ UNCHANGED lost
     \/ lost' = TRUE /\ UNCHANGED box
  /\ pc' = "cleanup"
  /\ UNCHANGED <<scratch, holds, dump, child, fuse, sig, resolved, read, raced, blind,
                 settings, source, plan, step, out, daemon>>

KeepBox ==
  /\ pc = "close" /\ keep
  /\ pc' = "cleanup"
  /\ UNCHANGED <<settings, source, plan, step, out, places, daemon, history>>

-----------------------------------------------------------------------------
\* Removal of the scratch directory.

\* RemoveAll does not get past a mountpoint.
RemoveAll ==
  IF fuse = "off" THEN scratch' = FALSE /\ holds' = {} ELSE UNCHANGED <<scratch, holds>>

\* cleanup, and cleanupUnless(keep) of the levels that copy.
Cleanup ==
  /\ pc = "remove" \/ (pc = "cleanup" /\ ~keep)
  /\ RemoveAll
  /\ lost' = (lost \/ fuse # "off")
  /\ pc' = "record"
  /\ UNCHANGED <<dump, child, fuse, sig, box, resolved, read, raced, blind,
                 settings, source, plan, step, out, daemon>>

KeepScratch ==
  /\ pc = "cleanup" /\ keep
  /\ pc' = "record"
  /\ UNCHANGED <<settings, source, plan, step, out, places, daemon, history>>

\* Where the tree of L2 comes to be and is looked at.
TreeSteps == {"restore", "walk", "check", "exec"}

\* Another serve starts: CleanStaleScratch unmounts what it can see at mnt (a
\* dead mount does not even answer the stat) and removes the directory.
Sweep ==
  /\ boots < MaxBoots /\ ~booting
  /\ boots' = boots + 1 /\ booting' = TRUE
  /\ \/ fuse # "dead" /\ fuse' = "off" /\ scratch' = FALSE /\ holds' = {}
     \/ fuse # "off" /\ UNCHANGED <<fuse, scratch, holds>>
  /\ blind' = (blind \/ (pc \in TreeSteps /\ (scratch \/ fuse # "off")))
  /\ UNCHANGED <<dump, child, sig, box, resolved, read, raced, lost,
                 settings, source, pc, plan, step, out>>

\* The same start: Janitor removes every container with the label.
Janitor ==
  /\ booting /\ booting' = FALSE
  /\ box' \in {box, "none"}
  /\ blind' = (blind \/ (pc \in {"load", "query"} /\ box # "none"))
  /\ UNCHANGED <<boots, scratch, holds, dump, child, fuse, sig, resolved, read, raced, lost,
                 settings, source, pc, plan, step, out>>

\* The database server in the container is killed or crashes.
BoxDies ==
  /\ Alive /\ box \in {"created", "up"}
  /\ box' = "dead"
  /\ blind' = (blind \/ pc \in {"load", "query"})
  /\ UNCHANGED <<scratch, holds, dump, child, fuse, sig, resolved, read, raced, lost,
                 settings, source, pc, plan, step, out, daemon>>

-----------------------------------------------------------------------------
Run ==
  \/ NextLevel \/ EndRun \/ Record \/ Validate
  \/ NativeCheck \/ ListRepo \/ ListDumps \/ InspectDumps
  \/ Resolve \/ NewScratch \/ Preflight \/ Restore \/ Walk \/ Check \/ ExecScript
  \/ StartMount \/ AwaitMount \/ Unmount \/ Stop
  \/ Extract \/ Stage \/ CreateBox \/ BootBox \/ Load \/ Query
  \/ CloseBox \/ KeepBox \/ Cleanup \/ KeepScratch

World ==
  \/ \E n \in Names : Backup(n) \/ Rotate(n)
  \/ Expire \/ Kill \/ Sweep \/ Janitor \/ BoxDies
  \/ ChildServes \/ ChildExits \/ ContextSignals

Next == Run \/ World

\* The steps that take as long as an engine, the sandbox or a mount takes to
\* answer.  A drill need not have a timeout, so only the end of the run's context
\* ends them for certain; nothing ends an exec check.
Waiting ==
  {"validate", "native", "list", "resolve", "restore", "extract", "mounting", "walk", "check",
   "create", "boot", "load", "query"}

\* The run goes on where it does not wait for another, and a killed child is gone
\* at some point.
Fairness ==
  /\ WF_vars(Run /\ pc # "exec" /\ (pc \in Waiting => ctx = "done"))
  /\ WF_vars(ChildExits /\ sig = "kill")

Spec == Init /\ [][Next]_vars /\ Fairness

-----------------------------------------------------------------------------
\* Properties.

\* Every variable has the values the code gives it, only versions that were made
\* are read, and the run's pin always comes with a timestamp (without one
\* pinnedDumpChanged compares nothing).
Made == 1..latest

SettingsOK ==
  engine \in Engines /\ pick \in {"latest", "all-matching-window"} /\ keep \in BOOLEAN

SourceOK ==
  /\ latest \in Versions
  /\ file \in [Names -> 0..latest]
  /\ bad \in BadSets

RunOK ==
  /\ pc \in {"level", "validate", "native", "list", "inspect", "resolve", "scratch", "preflight",
             "restore", "walk", "check", "exec", "mount", "mounting", "unmount", "grace",
             "terminating", "killing", "remove", "extract", "stage", "create", "boot", "discard", "load",
             "query", "close", "cleanup", "record", "ended", "killed"}
  /\ ctx \in {"live", "done"}
  /\ todo \subseteq Levels /\ level \in 0..3
  /\ pin \in 0..MaxVersion /\ pinAt \in 0..latest /\ (pin # NoName => pinAt # 0)

StepOK ==
  /\ snap \in 0..MaxVersion /\ snapAt \in 0..latest
  /\ ids \subseteq Names
  /\ evs \subseteq Verdicts /\ walked \in {"nothing", "files", "faulty"}
  /\ status \in Verdicts \cup {"none", "skipped"}
  /\ out \in Verdicts \cup {"none", "skipped"}

PlacesOK ==
  /\ scratch \in BOOLEAN /\ holds \subseteq Made /\ dump \in 0..latest
  /\ child \in {"none", "up", "serving", "exited"}
  /\ fuse \in {"off", "live", "dead"} /\ sig \in {"none", "term", "kill"}
  /\ box \in {"none", "created", "up", "dead"}
  /\ boots \in 0..MaxBoots /\ booting \in BOOLEAN

HistoryOK ==
  /\ resolved \subseteq Made /\ read \subseteq Made
  /\ raced \in BOOLEAN /\ blind \in BOOLEAN /\ lost \in BOOLEAN

TypeOK == SettingsOK /\ SourceOK /\ RunOK /\ StepOK /\ PlacesOK /\ HistoryOK

\* A recorded fail is the backup's fault, but for the mishaps that a verdict of
\* this code does not tell from it (blind): a restic check that could not do its
\* work, a tree that was taken away under the checks or answered them with
\* errors, a command that was hindered in the sandbox, a sandbox or database that
\* is not the one with the dump.  Everything else is never recorded as one, in
\* whichever order it comes: a timeout, a borg check that could not do its work,
\* a listing, restore, mount, extraction or sandbox that fails, a quota that
\* refuses, a backup that is gone (errorStep, subproc.ExecRunner, recordStep
\* under the run's context).
FailBlamesBackup ==
  out = "fail" /\ ~blind => \E v \in read : v \in bad

\* The documented meaning of fail, without exception: "The backup is the
\* problem" (README, Drill results).
FailMeansBackup ==
  out = "fail" => \E v \in read : v \in bad

\* A restore level passes only on the contents of a backup it has read.
PassReadBackup ==
  level > 1 /\ out = "pass" /\ ~blind => read # {}

\* One snapshot per run: every level that comes to a verdict about a dump or
\* snapshot read the version the first one pinned, although backups are made and
\* rotated meanwhile; except for a dump overwritten between a level's stat and
\* its read, a borg archive deleted and made again under its name, and a window
\* of dumps.
OneBackupPerRun ==
  out \in {"pass", "fail"} /\ ~raced /\ pick = "latest" /\ (level > 1 \/ ~isRepo)
    => read \subseteq {pinAt}

\* Nothing outlives a run that returns, whatever went wrong in it: no child, no
\* live mount, and without --keep no scratch directory and no container; except
\* for what a failed removal or a lost answer left.
NothingLeftBehind ==
  pc = "ended" =>
    /\ child = "none" /\ fuse # "live"
    /\ ~lost => fuse = "off" /\ (~keep => ~scratch /\ box = "none")

\* The scratch directory is never removed under a mount of the run that still
\* serves it.
NeverRemoveLiveMount == pc = "remove" => ~ChildAlive

\* A run whose context is done ends, unless it is stuck in an exec check; and a
\* level that has begun to unmount comes to its record, timeout or not, also with
\* a mount child that ignores SIGTERM and an unmount command that fails.
RunEnds ==
  /\ ctx = "done" ~> pc \in {"ended", "killed", "exec"}
  /\ pc = "unmount" ~> pc \in {"record", "killed"}

=============================================================================
