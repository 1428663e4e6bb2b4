--------------------------- MODULE ExecutorProofs ---------------------------
(***************************************************************************)
(* The levels of a run, for every engine, selection of levels, set of      *)
(* checks and number of backups made meanwhile: what a run that returns    *)
(* leaves behind, and what a recorded verdict is about.                    *)
(***************************************************************************)
EXTENDS Executor, TLAPS

-----------------------------------------------------------------------------
(***************************************************************************)
(* The places a level works in.                                            *)
(***************************************************************************)

\* Where a mount child may be running or waiting to be reaped.
MountSteps == {"mounting", "walk", "check", "exec", "unmount", "grace", "terminating", "killing"}

\* Where the level has not made its scratch directory, or has removed it.
BareSteps == {"level", "validate", "native", "list", "inspect", "resolve", "scratch",
              "record", "ended"}

\* Where a container of the run is expected.
BoxSteps == {"boot", "discard", "load", "query", "close", "killed"}

\* A child is always on the way to Stop's wait; a mount is served by a child, or
\* is about to be removed, or its removal has failed; the scratch directory and
\* the container are on the way to their cleanup.
PlacesKept ==
  /\ child # "none" => pc \in MountSteps \cup {"killed"}
  /\ fuse = "live" => child = "serving"
  /\ fuse # "off" => child # "none" \/ pc \in {"remove", "killed"} \/ lost
  /\ scratch /\ ~keep /\ ~lost => pc \notin BareSteps
  /\ box # "none" /\ ~keep /\ ~lost => pc \in BoxSteps

-----------------------------------------------------------------------------
(***************************************************************************)
(* The versions a level deals with.                                        *)
(***************************************************************************)

\* Where the names of the level are resolved and still to be used.
NamedSteps == {"inspect", "scratch", "preflight", "restore", "walk", "check", "exec", "mount",
               "mounting", "extract", "stage"}

\* The version the run is about: the one pinned, or the one that the record of
\* this level will pin.
Target == IF pin = NoName THEN snapAt ELSE pinAt

\* The levels come in order, and the first to name a backup pins it.
LevelsInOrder ==
  /\ \A l \in todo : l > level
  /\ pc \notin {"level", "ended", "killed"} => level > 0
  /\ pc \in {"native", "list", "inspect"} => level = 1
  /\ pin # NoName => level > 0 /\ (level = 1 => pc \in {"level", "ended"})
  /\ pc \in {"level", "ended"} => snap = NoName /\ snapAt = 0
  /\ pin = NoName => (snap = NoName <=> snapAt = 0)
  /\ pc \in NamedSteps => ids # {} /\ resolved # {}
  /\ pc \in NamedSteps /\ pick = "latest" => resolved = {Target} \/ raced

-----------------------------------------------------------------------------
(***************************************************************************)
(* The evidence of a level.                                                *)
(***************************************************************************)

\* Where no check of the level has said anything yet.
SilentSteps == {"level", "validate", "native", "inspect", "resolve", "scratch", "preflight",
                "restore", "walk", "check", "mount", "mounting", "extract", "stage",
                "create", "boot", "load"}

EvidenceKept ==
  /\ pc \in SilentSteps => evs = {} /\ status = "none"
  /\ pc = "native" => isRepo
  /\ pc \in {"list", "query", "exec"} => status = "none"
  /\ pc = "list" /\ ~isRepo => evs = {}
  /\ pc \notin {"level", "ended"} => out = "none"
  /\ pc \in {"validate", "resolve"} \/ (pc = "list" /\ ~isRepo) => read = {}

\* The checks of L2 look at the tree the level has restored or mounted, unless
\* it was taken away or the run's context is done.
TreeKept ==
  /\ sig # "none" => ctx = "done" \/ pc \in {"grace", "terminating", "killing", "killed"}
  /\ pc \in {"walk", "check", "exec"} =>
       /\ child # "up"
       /\ View # "files" => blind \/ ctx = "done"
       /\ child = "none" => holds = {} \/ holds = resolved \/ raced
  /\ pc \in {"check", "exec"} =>
       /\ Tree \subseteq read
       /\ read = {} => blind \/ ctx = "done"
  /\ pc = "check" /\ walked # "files" => blind \/ ctx = "done"

\* The sandbox of L3 holds the staged dump, unless it was taken away.
SandboxKept ==
  /\ pc \in {"create", "boot", "load", "query"} => read = {dump}
  /\ pc \in {"load", "query"} /\ box # "up" => blind

BadRead == \E v \in read : v \in bad

\* A failing check is about what was read; a context that is done keeps the
\* rest from being recorded.
FailKept ==
  /\ "fail" \in evs \/ status = "fail" => BadRead \/ blind \/ ctx = "done"
  /\ out = "fail" => BadRead \/ blind

\* So is the pass of a restore level.
PassKept ==
  /\ status = "pass" /\ level > 1 => read # {} \/ blind \/ ctx = "done"
  /\ out = "pass" /\ level > 1 => read # {} \/ blind

\* What was read is the version the run is about, unless it was overwritten
\* between the look at it and the read.
AboutTarget ==
  pick = "latest" /\ ~raced /\ (level > 1 \/ ~isRepo) => read \subseteq {Target}

ExecutorInv ==
  /\ TypeOK
  /\ PlacesKept
  /\ LevelsInOrder
  /\ EvidenceKept
  /\ TreeKept
  /\ SandboxKept
  /\ FailKept
  /\ PassKept
  /\ AboutTarget

-----------------------------------------------------------------------------
\* Versions are numbered from 1 up to the latest one.
LEMMA Bounds ==
  ASSUME SourceOK
  PROVE  /\ MaxVersion \in Nat /\ latest \in Nat /\ latest =< MaxVersion
         /\ Made \subseteq Names /\ Made = {v \in 0..latest : v # 0}
  BY ExecutorAssumption DEF SourceOK, Versions, Names, Made

\* What the names of a level hold.
LEMMA FileMade ==
  ASSUME SourceOK, NEW N \in SUBSET Names
  PROVE  /\ {file[n] : n \in N} \ {0} \subseteq Made
         /\ 0 \notin {file[n] : n \in N} => {file[n] : n \in N} \subseteq Made
  <1>1. \A n \in N : file[n] \in 0..latest
    BY DEF SourceOK
  <1> QED
    BY <1>1, Bounds

LEMMA ListedMade ==
  ASSUME SourceOK
  PROVE  Listed \subseteq Names /\ \A n \in Listed : file[n] \in Made
  BY Bounds DEF SourceOK, Listed

\* A name's version is reported, and the names of the level are resolved.
LEMMA ListDumpsDoes ==
  ASSUME TypeOK, ListDumps
  PROVE  /\ pc = "list" /\ ~isRepo
         /\ UNCHANGED <<evs, walked, read, raced, blind, lost, settings, source, plan, out, places, daemon>>
         /\ \/ status' = "error" /\ pc' = "record" /\ UNCHANGED <<snap, snapAt, ids, resolved>>
            \/ /\ pc' = "inspect" /\ status' = status
               /\ snap' \in Names /\ snapAt' \in Made
               /\ ids' \subseteq Names /\ ids' # {}
               /\ resolved' \subseteq Made /\ resolved' # {}
               /\ pick = "latest" => resolved' = {snapAt'}
  <1>1. CASE Errs("record") /\ UNCHANGED <<snap, snapAt, ids, resolved>>
    BY <1>1 DEF ListDumps, Errs
  <1>2. ASSUME NEW n \in Names, IsNewest(n), Report(n),
               ids' = IF pick = "latest" THEN {n} ELSE Listed,
               resolved' = {file[m] : m \in ids'}
        PROVE  /\ snap' \in Names /\ snapAt' \in Made
               /\ ids' \subseteq Names /\ ids' # {}
               /\ resolved' \subseteq Made /\ resolved' # {}
               /\ pick = "latest" => resolved' = {snapAt'}
    <2>1. n \in Listed /\ ids' \subseteq Listed /\ ids' # {} /\ snap' = n /\ snapAt' = file[n]
      BY <1>2 DEF IsNewest, Report
    <2>2. ids' \subseteq Names /\ snapAt' \in Made /\ \A m \in ids' : file[m] \in Made
      BY <2>1, ListedMade DEF TypeOK
    <2>3. resolved' \subseteq Made /\ resolved' # {}
      BY <1>2, <2>1, <2>2
    <2>4. pick = "latest" => resolved' = {snapAt'}
      BY <1>2, <2>1
    <2> QED
      BY <2>1, <2>2, <2>3, <2>4
  <1> QED
    BY <1>1, <1>2 DEF ListDumps

LEMMA ListRepoDoes ==
  ASSUME TypeOK, ListRepo
  PROVE  /\ pc = "list" /\ isRepo /\ pc' = "record" /\ evs' = {}
         /\ UNCHANGED <<ids, walked, raced, blind, lost, settings, source, plan, out, places, daemon>>
         /\ \E s \in Verdicts :
              /\ status' = aggregate(evs \cup {s})
              /\ \/ s # "fail" /\ UNCHANGED <<snap, snapAt, resolved, read>>
                 \/ /\ snap' \in Names /\ snapAt' \in Made
                    /\ resolved' = {snapAt'} /\ read' = read \cup {snapAt'}
                    /\ s \in Judge({snapAt'})
  <1>1. ASSUME NEW s \in {"error"} \cup (IF ctx = "live" /\ Listed = {} THEN {"pass"} ELSE {}),
               Fold(evs \cup {s}, "record"), UNCHANGED <<snap, snapAt, resolved, read>>
        PROVE  /\ s \in Verdicts /\ s # "fail"
               /\ pc' = "record" /\ evs' = {} /\ status' = aggregate(evs \cup {s})
    BY <1>1 DEF Fold, Verdicts
  <1>2. ASSUME NEW n \in Names, IsNewest(n), Report(n), resolved' = {file[n]},
               read' = read \cup {file[n]},
               NEW s \in Judge({file[n]}), Fold(evs \cup {s}, "record")
        PROVE  /\ s \in Verdicts
               /\ pc' = "record" /\ evs' = {} /\ status' = aggregate(evs \cup {s})
               /\ snap' \in Names /\ snapAt' \in Made
               /\ resolved' = {snapAt'} /\ read' = read \cup {snapAt'}
               /\ s \in Judge({snapAt'})
    <2>1. snap' = n /\ snapAt' = file[n] /\ snapAt' \in Made
      BY <1>2, ListedMade DEF IsNewest, Report, TypeOK
    <2>2. s \in Verdicts
      BY DEF Judge, Verdicts
    <2> QED
      BY <1>2, <2>1, <2>2 DEF Fold
  <1> QED
    BY <1>1, <1>2 DEF ListRepo

LEMMA ResolveDoes ==
  ASSUME TypeOK, Resolve
  PROVE  /\ pc = "resolve"
         /\ UNCHANGED <<evs, walked, read, raced, blind, lost, settings, source, plan, out, places, daemon>>
         /\ \/ status' = "error" /\ pc' = "record" /\ UNCHANGED <<snap, snapAt, ids, resolved>>
            \/ /\ pc' = "scratch" /\ status' = status
               /\ snap' \in Names /\ snapAt' \in 0..latest
               /\ pin = NoName => snapAt' # 0
               /\ ids' \subseteq Names /\ ids' # {}
               /\ resolved' \subseteq Made /\ resolved' # {}
               /\ pick = "latest" => resolved' = {IF pin = NoName THEN snapAt' ELSE pinAt}
  <1> USE DEF TypeOK
  <1>1. CASE Errs("record") /\ UNCHANGED <<snap, snapAt, ids, resolved>>
    BY <1>1 DEF Resolve, Errs
  <1>2. ASSUME Pinned, isRepo \/ ~pinnedDumpChanged, snap' = pin, snapAt' = 0, ids' = {pin},
               resolved' = IF isRepo THEN {pinAt} ELSE {file[pin]}
        PROVE  /\ snap' \in Names /\ snapAt' \in 0..latest
               /\ pin # NoName
               /\ ids' \subseteq Names /\ ids' # {}
               /\ resolved' = {pinAt} /\ resolved' \subseteq Made
    <2>1. pin \in Names /\ pin # NoName /\ pinAt # 0 /\ pinAt \in Made
      BY <1>2, Bounds DEF Pinned, RunOK, Names, Versions, NoName
    <2>2. ~isRepo => file[pin] = pinAt
      BY <1>2, <2>1 DEF pinnedDumpChanged
    <2>3. resolved' = {pinAt}
      BY <1>2, <2>2
    <2> QED
      BY <1>2, <2>1, <2>3, Bounds
  <1>3. ASSUME ~Pinned, NEW n \in Names, IsNewest(n), Report(n),
               ids' = IF level = 2 /\ pick = "all-matching-window" THEN Listed ELSE {n},
               resolved' = {file[m] : m \in ids'}
        PROVE  /\ snap' \in Names /\ snapAt' \in Made
               /\ pick = "latest" => pin = NoName /\ resolved' = {snapAt'}
               /\ ids' \subseteq Names /\ ids' # {}
               /\ resolved' \subseteq Made /\ resolved' # {}
    <2>1. n \in Listed /\ ids' \subseteq Listed /\ ids' # {} /\ snap' = n /\ snapAt' = file[n]
      BY <1>3 DEF IsNewest, Report
    <2>2. ids' \subseteq Names /\ snapAt' \in Made /\ \A m \in ids' : file[m] \in Made
      BY <2>1, ListedMade
    <2>3. resolved' \subseteq Made /\ resolved' # {}
      BY <1>3, <2>1, <2>2
    <2>4. pick = "latest" => pin = NoName /\ ids' = {n}
      BY <1>3 DEF Pinned
    <2> QED
      BY <1>3, <2>1, <2>2, <2>3, <2>4
  <1>4. Made \subseteq 0..latest /\ 0 \notin Made
    BY Bounds
  <1> QED
    BY <1>1, <1>2, <1>3, <1>4 DEF Resolve

\* The checks of L2 up to an exec check, and the exec check: what they may say of
\* what they may see.
LEMMA CheckDoes ==
  ASSUME Check
  PROVE  /\ pc = "check" /\ walked' = "nothing"
         /\ UNCHANGED <<snap, snapAt, ids, resolved, read, raced, lost, settings, source, plan, out,
                        places, daemon>>
         /\ blind' \in BOOLEAN /\ (blind => blind')
         /\ evs' \subseteq Verdicts
         /\ \/ pc' = "exec" /\ status' = status
            \/ pc' = AfterChecks /\ evs' = {} /\ status' \in Verdicts
         /\ "fail" \in evs' \/ (status' # status /\ status' = "fail") =>
              \E k, v : v \in Views /\ (v = "faulty" => blind') /\ "fail" \in React(k, v)
  <1>1. PICK cs \in CheckSets : \E f \in [cs \ {"exec"} -> Verdicts], v \in [cs \ {"exec"} -> Views] :
          /\ \A k \in cs \ {"exec"} : f[k] \in React(k, v[k])
          /\ blind' = (blind \/ \E k \in cs \ {"exec"} : v[k] = "faulty")
          /\ IF "exec" \in cs
             THEN evs' = {f[k] : k \in cs \ {"exec"}} /\ pc' = "exec" /\ UNCHANGED status
             ELSE Fold({f[k] : k \in cs}, AfterChecks)
    BY DEF Check
  <1> DEFINE C == cs \ {"exec"}
  <1>2. PICK f \in [C -> Verdicts], v \in [C -> Views] :
          /\ \A k \in C : f[k] \in React(k, v[k])
          /\ blind' = (blind \/ \E k \in C : v[k] = "faulty")
          /\ IF "exec" \in cs
             THEN evs' = {f[k] : k \in C} /\ pc' = "exec" /\ UNCHANGED status
             ELSE Fold({f[k] : k \in cs}, AfterChecks)
    BY <1>1
  <1>3. "exec" \notin cs => cs = C
    OBVIOUS
  <1>4. {f[k] : k \in C} \subseteq Verdicts
    BY <1>2
  <1>5. \A k \in C : v[k] \in Views /\ (v[k] = "faulty" => blind')
    BY <1>2
  <1>6. blind' \in BOOLEAN /\ (blind => blind')
    BY <1>2
  <1>7. "fail" \in {f[k] : k \in C} =>
          \E k, w : w \in Views /\ (w = "faulty" => blind') /\ "fail" \in React(k, w)
    BY <1>2, <1>5
  <1> HIDE DEF C
  <1>8. /\ evs' \subseteq Verdicts
        /\ \/ pc' = "exec" /\ status' = status
           \/ pc' = AfterChecks /\ evs' = {} /\ status' \in Verdicts
    BY <1>2, <1>3, <1>4 DEF Fold, aggregate, Verdicts
  <1>9. "fail" \in evs' \/ (status' # status /\ status' = "fail") => "fail" \in {f[k] : k \in C}
    BY <1>2, <1>3 DEF Fold, aggregate
  <1>10. /\ pc = "check" /\ walked' = "nothing"
         /\ UNCHANGED <<snap, snapAt, ids, resolved, read, raced, lost, settings, source, plan, out,
                        places, daemon>>
    BY DEF Check
  <1> QED
    BY <1>6, <1>7, <1>8, <1>9, <1>10

LEMMA ExecScriptDoes ==
  ASSUME ExecScript
  PROVE  /\ pc = "exec" /\ pc' = AfterChecks
         /\ UNCHANGED <<snap, snapAt, ids, walked, resolved, read, raced, lost, settings, source, plan,
                        out, places, daemon>>
         /\ blind' \in BOOLEAN /\ (blind => blind')
         /\ evs' = {} /\ status' \in Verdicts
         /\ status' = "fail" => \/ "fail" \in evs
                                \/ \E v \in Views : (v = "faulty" => blind') /\ "fail" \in ReactToTree("exec", v)
  <1>1. PICK v \in Views :
          /\ \E s \in (IF ctx = "done" THEN {"error"} ELSE ReactToTree("exec", v)) :
               Fold(evs \cup {s}, AfterChecks)
          /\ blind' = (blind \/ v = "faulty")
    BY DEF ExecScript
  <1>2. blind' \in BOOLEAN /\ (blind => blind') /\ (v = "faulty" => blind')
    BY <1>1
  <1>3. PICK s \in (IF ctx = "done" THEN {"error"} ELSE ReactToTree("exec", v)) :
          Fold(evs \cup {s}, AfterChecks)
    BY <1>1
  <1>4. /\ evs' = {} /\ pc' = AfterChecks /\ status' \in Verdicts
        /\ status' = "fail" => "fail" \in evs \/ s = "fail"
    BY <1>3 DEF Fold, aggregate, Verdicts
  <1>5. s = "fail" => "fail" \in ReactToTree("exec", v)
    BY <1>3
  <1>6. /\ pc = "exec"
        /\ UNCHANGED <<snap, snapAt, ids, walked, resolved, read, raced, lost, settings, source, plan,
                       out, places, daemon>>
    BY DEF ExecScript
  <1> QED
    BY <1>2, <1>4, <1>5, <1>6
-----------------------------------------------------------------------------
(***************************************************************************)
(* Type correctness, part by part.                                         *)
(***************************************************************************)

\* A run does not change its settings.
LEMMA StepSettingsOK ==
  ASSUME TypeOK, [Next]_vars
  PROVE  SettingsOK'
  <1> USE DEF TypeOK, SettingsOK, settings, source, plan, step, places, daemon,
          history, remains
  <1>1. CASE NextLevel \/ EndRun \/ Record \/ Validate
    BY <1>1 DEF NextLevel, EndRun, Record, Validate
  <1>2. CASE NativeCheck \/ ListRepo \/ ListDumps \/ InspectDumps
    BY <1>2, ListRepoDoes, ListDumpsDoes, Bounds DEF NativeCheck, InspectDumps
  <1>3. CASE Resolve \/ NewScratch \/ Preflight \/ Restore \/ Walk
    BY <1>3, ResolveDoes, Bounds DEF NewScratch, Preflight, Restore, Walk
  <1>c. CASE Check \/ ExecScript
    BY <1>c, CheckDoes, ExecScriptDoes DEF AfterChecks
  <1>4. CASE StartMount \/ AwaitMount \/ Unmount \/ Stop
    BY <1>4 DEF StartMount, AwaitMount, Unmount, Stop
  <1>5. CASE Extract \/ Stage \/ CreateBox \/ BootBox \/ Load \/ Query
    BY <1>5 DEF Extract, Stage, CreateBox, BootBox, Load, Query
  <1>6. CASE CloseBox \/ KeepBox \/ Cleanup \/ KeepScratch
    BY <1>6 DEF CloseBox, KeepBox, Cleanup, KeepScratch
  <1>7. CASE \E n \in Names : Backup(n) \/ Rotate(n)
    BY <1>7 DEF Backup, Rotate
  <1>8. CASE Expire \/ Kill \/ Sweep \/ Janitor \/ BoxDies
    BY <1>8 DEF Expire, Kill, Sweep, Janitor, BoxDies
  <1>9. CASE ChildServes \/ ChildExits \/ ContextSignals
    BY <1>9 DEF ChildServes, ChildExits, ContextSignals
  <1>10. CASE UNCHANGED vars
    BY <1>10 DEF vars
  <1> QED
    BY <1>1, <1>2, <1>3, <1>c, <1>4, <1>5, <1>6, <1>7, <1>8, <1>9, <1>10 DEF Next, Run, World

\* Backups are made one version after the other.
LEMMA StepSourceOK ==
  ASSUME TypeOK, [Next]_vars
  PROVE  SourceOK'
  <1> USE DEF TypeOK, SourceOK, Versions, Names, NoName, Levels, Verdicts,
          Made, settings, source, plan, step, places, daemon, history,
          remains
  <1>a. MaxVersion \in Nat /\ MaxBoots \in Nat /\ latest \in Nat /\ latest =< MaxVersion
    BY Bounds, ExecutorAssumption DEF TypeOK
  <1> USE <1>a
  <1>1. CASE NextLevel \/ EndRun \/ Record \/ Validate
    BY <1>1 DEF NextLevel, EndRun, Record, Validate
  <1>2. CASE NativeCheck \/ ListRepo \/ ListDumps \/ InspectDumps
    BY <1>2, ListRepoDoes, ListDumpsDoes, Bounds DEF NativeCheck, InspectDumps
  <1>3. CASE Resolve \/ NewScratch \/ Preflight \/ Restore \/ Walk
    BY <1>3, ResolveDoes, Bounds DEF NewScratch, Preflight, Restore, Walk
  <1>c. CASE Check \/ ExecScript
    BY <1>c, CheckDoes, ExecScriptDoes DEF AfterChecks
  <1>4. CASE StartMount \/ AwaitMount \/ Unmount \/ Stop
    BY <1>4 DEF StartMount, AwaitMount, Unmount, Stop
  <1>5. CASE Extract \/ Stage \/ CreateBox \/ BootBox \/ Load \/ Query
    BY <1>5 DEF Extract, Stage, CreateBox, BootBox, Load, Query
  <1>6. CASE CloseBox \/ KeepBox \/ Cleanup \/ KeepScratch
    BY <1>6 DEF CloseBox, KeepBox, Cleanup, KeepScratch
  <1>7. CASE \E n \in Names : Rotate(n)
    BY <1>7 DEF Rotate
  <1>8. CASE \E n \in Names : Backup(n)
    BY <1>8 DEF Backup
  <1>9. CASE Expire \/ Kill \/ Sweep \/ Janitor \/ BoxDies
    BY <1>9 DEF Expire, Kill, Sweep, Janitor, BoxDies
  <1>10. CASE ChildServes \/ ChildExits \/ ContextSignals
    BY <1>10 DEF ChildServes, ChildExits, ContextSignals
  <1>11. CASE UNCHANGED vars
    BY <1>11 DEF vars
  <1> QED
    BY <1>1, <1>2, <1>3, <1>c, <1>4, <1>5, <1>6, <1>7, <1>8, <1>9, <1>10, <1>11 DEF Next, Run, World

\* The pin of the run comes with its timestamp.
LEMMA StepRunOK ==
  ASSUME TypeOK, LevelsInOrder, [Next]_vars
  PROVE  RunOK'
  <1> USE DEF TypeOK, SourceOK, RunOK, StepOK, LevelsInOrder, Versions, Names,
          NoName, Levels, Verdicts, Made, settings, source, plan, step,
          places, daemon, history, remains
  <1>a. MaxVersion \in Nat /\ MaxBoots \in Nat /\ latest \in Nat /\ latest =< MaxVersion
    BY Bounds, ExecutorAssumption DEF TypeOK
  <1> USE <1>a
  <1>1. CASE EndRun \/ Validate
    BY <1>1 DEF EndRun, Validate, Errs
  <1>2. CASE NextLevel
    BY <1>2 DEF NextLevel
  <1>3. CASE Record
    BY <1>3 DEF Record
  <1>4. CASE NativeCheck \/ ListRepo \/ ListDumps \/ InspectDumps
    BY <1>4, ListRepoDoes, ListDumpsDoes, Bounds DEF NativeCheck, Fold, InspectDumps
  <1>5. CASE Resolve \/ NewScratch \/ Preflight \/ Restore \/ Walk
    BY <1>5, ResolveDoes, Bounds DEF NewScratch, Errs, Preflight, Restore,
        RestoreFails, Walk
  <1>c. CASE Check \/ ExecScript
    BY <1>c, CheckDoes, ExecScriptDoes DEF AfterChecks
  <1>6. CASE StartMount \/ AwaitMount \/ Unmount \/ Stop
    BY <1>6 DEF StartMount, Errs, AwaitMount, Unmount, Stop, StopChild, Reaped,
        Escalate
  <1>7. CASE Extract \/ Stage \/ CreateBox \/ BootBox \/ Load \/ Query
    BY <1>7 DEF Extract, Errs, Stage, Fold, CreateBox, BootBox, BootFails, Load,
        Query
  <1>8. CASE CloseBox \/ KeepBox \/ Cleanup \/ KeepScratch
    BY <1>8 DEF CloseBox, KeepBox, Cleanup, KeepScratch
  <1>9. CASE \E n \in Names : Rotate(n)
    BY <1>9 DEF Rotate
  <1>10. CASE \E n \in Names : Backup(n)
    BY <1>10 DEF Backup
  <1>11. CASE Expire \/ Sweep \/ Janitor \/ BoxDies
    BY <1>11 DEF Expire, Sweep, Janitor, BoxDies
  <1>12. CASE Kill
    BY <1>12 DEF Kill
  <1>13. CASE ChildServes \/ ChildExits \/ ContextSignals
    BY <1>13 DEF ChildServes, ChildExits, ContextSignals
  <1>14. CASE UNCHANGED vars
    BY <1>14 DEF vars
  <1> QED
    BY <1>1, <1>2, <1>3, <1>4, <1>5, <1>c, <1>6, <1>7, <1>8, <1>9, <1>10, <1>11, <1>12,
       <1>13, <1>14 DEF Next, Run, World

\* Resolving names keeps the step typed.
LEMMA NamingStepOK ==
  ASSUME TypeOK, ListDumps \/ ListRepo \/ Resolve
  PROVE  StepOK'
  <1>1. UNCHANGED <<walked, out, latest>> /\ evs' \in {evs, {}}
    BY ListDumpsDoes, ListRepoDoes, ResolveDoes DEF places, settings, source, plan
  <1>2. snap' \in Names \cup {snap}
    BY ListDumpsDoes, ListRepoDoes, ResolveDoes
  <1>3. snapAt' \in Made \cup 0..latest
    BY ListDumpsDoes, ListRepoDoes, ResolveDoes DEF TypeOK, StepOK
  <1>4. ids' \subseteq Names
    BY ListDumpsDoes, ListRepoDoes, ResolveDoes DEF TypeOK, StepOK
  <1>5. status' \in Verdicts \cup {status}
    BY ListDumpsDoes, ListRepoDoes, ResolveDoes DEF Verdicts, aggregate
  <1>6. snap' \in 0..MaxVersion /\ snapAt' \in 0..latest
    BY <1>2, <1>3, Bounds DEF TypeOK, StepOK, Names, Versions
  <1> QED
    BY <1>1, <1>4, <1>5, <1>6 DEF TypeOK, StepOK

\* Statuses stay in the vocabulary of the results.
LEMMA StepStepOK ==
  ASSUME TypeOK, [Next]_vars
  PROVE  StepOK'
  <1> USE DEF TypeOK, SourceOK, RunOK, StepOK, Versions, Names, NoName, Levels,
          Verdicts, Made, settings, source, plan, step, places, daemon,
          history, remains
  <1>a. MaxVersion \in Nat /\ MaxBoots \in Nat /\ latest \in Nat /\ latest =< MaxVersion
    BY Bounds, ExecutorAssumption DEF TypeOK
  <1> USE <1>a
  <1>1. CASE EndRun \/ Validate
    BY <1>1 DEF EndRun, Validate, Errs, EngineAnswers
  <1>2. CASE NextLevel
    BY <1>2 DEF NextLevel
  <1>3. CASE Record
    BY <1>3 DEF Record, StepGone
  <1>4. CASE NativeCheck
    BY <1>4 DEF NativeCheck, Listed, NativeOutcomes, Fold, aggregate, Judge
  <1>5. CASE ListRepo
    BY <1>5, NamingStepOK
  <1>6. CASE ListDumps
    BY <1>6, NamingStepOK
  <1>7. CASE InspectDumps
    BY <1>7 DEF InspectDumps, Now, Fold, aggregate, Judge
  <1>8. CASE NewScratch \/ Preflight \/ Restore
    BY <1>8 DEF NewScratch, Errs, Preflight, Restore, RestoreFails, Now
  <1>9. CASE Resolve
    BY <1>9, NamingStepOK
  <1>10. CASE Walk
    BY <1>10 DEF Walk, Tree, View
  <1>11. CASE Check \/ ExecScript
    BY <1>11, CheckDoes, ExecScriptDoes
  <1>12. CASE StartMount \/ AwaitMount \/ Unmount \/ Stop
    BY <1>12 DEF StartMount, Errs, AwaitMount, Now, Unmount, Stop, StopChild,
        Reaped, Escalate
  <1>13. CASE Extract \/ CreateBox \/ BootBox
    BY <1>13 DEF Extract, Errs, Now, CreateBox, BootBox, BootFails
  <1>14. CASE Stage
    BY <1>14 DEF Stage, Errs, Now, Fold, aggregate
  <1>15. CASE Load
    BY <1>15 DEF Load, SandboxSays, Fold, aggregate, Judge
  <1>16. CASE Query
    BY <1>16 DEF Query, SandboxSays, Fold, aggregate, Judge
  <1>17. CASE CloseBox \/ KeepBox \/ Cleanup \/ KeepScratch
    BY <1>17 DEF CloseBox, KeepBox, Cleanup, RemoveAll, KeepScratch
  <1>18. CASE \E n \in Names : Rotate(n)
    BY <1>18 DEF Rotate, Alive
  <1>19. CASE \E n \in Names : Backup(n)
    BY <1>19 DEF Backup, Alive
  <1>20. CASE Expire \/ Sweep \/ Janitor \/ BoxDies
    BY <1>20 DEF Expire, Alive, Sweep, Janitor, BoxDies
  <1>21. CASE Kill
    BY <1>21 DEF Kill, StepGone, Alive
  <1>22. CASE ChildServes \/ ChildExits \/ ContextSignals
    BY <1>22 DEF ChildServes, Now, ChildExits, ChildAlive, ContextSignals, Alive
  <1>23. CASE UNCHANGED vars
    BY <1>23 DEF vars
  <1> QED
    BY <1>1, <1>2, <1>3, <1>4, <1>5, <1>6, <1>7, <1>8, <1>9, <1>10, <1>11, <1>12,
       <1>13, <1>14, <1>15, <1>16, <1>17, <1>18, <1>19, <1>20, <1>21, <1>22, <1>23
       DEF Next, Run, World

\* What is restored or staged is a version that was made.
LEMMA StepPlacesOK ==
  ASSUME TypeOK, [Next]_vars
  PROVE  PlacesOK'
  <1> USE DEF TypeOK, PlacesOK, StepOK, HistoryOK, Made, settings, source, plan,
          step, places, daemon, history, remains
  <1>a. MaxVersion \in Nat /\ MaxBoots \in Nat /\ latest \in Nat /\ latest =< MaxVersion
    BY Bounds, ExecutorAssumption DEF TypeOK
  <1> USE <1>a
  <1>1. CASE NextLevel \/ EndRun \/ Validate
    BY <1>1 DEF NextLevel, EndRun, Validate, Errs
  <1>2. CASE Record
    BY <1>2 DEF Record, StepGone
  <1>3. CASE NativeCheck
    BY <1>3 DEF NativeCheck, Fold
  <1>4. CASE ListRepo
    BY <1>4 DEF ListRepo
  <1>5. CASE ListDumps
    BY <1>5 DEF ListDumps
  <1>6. CASE InspectDumps
    BY <1>6 DEF InspectDumps, Fold
  <1>7. CASE Preflight \/ Walk
    BY <1>7 DEF Preflight, Errs, Walk
  <1>8. CASE Resolve
    BY <1>8 DEF Resolve
  <1>9. CASE NewScratch
    BY <1>9 DEF NewScratch, Errs
  <1>10. CASE Restore
    <2>1. 0 \notin Now => Now \subseteq Made
      BY FileMade DEF Now
    <2> QED
      BY <1>10, <2>1 DEF Restore, RestoreFails, Errs
  <1>11. CASE Check \/ ExecScript
    BY <1>11, CheckDoes, ExecScriptDoes
  <1>12. CASE StartMount \/ AwaitMount \/ Unmount \/ Stop
    BY <1>12 DEF StartMount, Errs, AwaitMount, Unmount, Stop, StopChild, Reaped,
        Escalate
  <1>13. CASE CreateBox \/ BootBox \/ Load \/ Query
    BY <1>13 DEF CreateBox, Errs, BootBox, BootFails, Load, Fold, Query
  <1>14. CASE Extract
    <2>1. 0 \notin Now => Now \subseteq Made
      BY FileMade DEF Now
    <2> QED
      BY <1>14, <2>1 DEF Extract, Errs
  <1>15. CASE Stage
    <2>1. Now \ {0} \subseteq Made
      BY FileMade DEF Now
    <2>2. dump' \in {dump} \cup holds \cup (Now \ {0})
      BY <1>15 DEF Stage
    <2>3. dump' \in 0..latest
      BY <2>1, <2>2, Bounds
    <2> QED
      BY <1>15, <2>3 DEF Stage
  <1>16. CASE CloseBox \/ KeepBox \/ Cleanup \/ KeepScratch
    BY <1>16 DEF CloseBox, KeepBox, Cleanup, RemoveAll, KeepScratch
  <1>17. CASE \E n \in Names : Rotate(n)
    BY <1>17 DEF Rotate
  <1>b. CASE \E n \in Names : Backup(n)
    <2>1. latest' = latest + 1 /\ UNCHANGED <<places, daemon>>
      BY <1>b DEF Backup
    <2>2. Made \subseteq Made' /\ 0..latest \subseteq 0..latest'
      BY <1>a, <2>1
    <2> QED
      BY <2>1, <2>2
  <1>18. CASE Expire \/ Janitor \/ BoxDies
    BY <1>18 DEF Expire, Janitor, BoxDies
  <1>19. CASE Kill
    BY <1>19 DEF Kill, StepGone, Alive
  <1>20. CASE Sweep
    <2>1. boots' \in 0..MaxBoots
      BY <1>20 DEF Sweep
    <2>2. /\ scratch' \in BOOLEAN /\ booting' \in BOOLEAN
          /\ fuse' \in {"off", "live", "dead"}
      BY <1>20 DEF Sweep
    <2>3. holds' \in {holds, {}} /\ UNCHANGED <<dump, child, sig, box, latest>>
      BY <1>20 DEF Sweep
    <2> QED
      BY <2>1, <2>2, <2>3
  <1>21. CASE ChildServes \/ ChildExits \/ ContextSignals
    BY <1>21 DEF ChildServes, ChildExits, ContextSignals
  <1>22. CASE UNCHANGED vars
    BY <1>22 DEF vars
  <1> QED
    BY <1>1, <1>2, <1>3, <1>4, <1>5, <1>6, <1>7, <1>8, <1>9, <1>10, <1>11, <1>12,
       <1>13, <1>14, <1>15, <1>16, <1>17, <1>b, <1>18, <1>19, <1>20, <1>21, <1>22 DEF Next, Run, World

\* So is what is resolved and read.
LEMMA StepHistoryOK ==
  ASSUME TypeOK, [Next]_vars
  PROVE  HistoryOK'
  <1> USE DEF TypeOK, SourceOK, PlacesOK, StepOK, RunOK, HistoryOK, Versions, Names,
          NoName, Levels, Verdicts, Made, settings, source, plan, step,
          places, daemon, history, remains
  <1>a. MaxVersion \in Nat /\ MaxBoots \in Nat /\ latest \in Nat /\ latest =< MaxVersion
    BY Bounds, ExecutorAssumption DEF TypeOK
  <1> USE <1>a
  <1>1. CASE NextLevel \/ EndRun \/ Record \/ Validate
    BY <1>1 DEF NextLevel, EndRun, Record, StepGone, Validate, Errs
  <1>2. CASE NativeCheck
    BY <1>2 DEF NativeCheck, Listed, NativeOutcomes, Fold, aggregate, Judge
  <1>3. CASE ListRepo
    BY <1>3, ListRepoDoes, Bounds
  <1>4. CASE ListDumps
    BY <1>4, ListDumpsDoes, Bounds
  <1>5. CASE InspectDumps
    BY <1>5 DEF InspectDumps, Now, Fold, aggregate, Judge
  <1>6. CASE Resolve \/ NewScratch \/ Preflight \/ Restore \/ Walk
    BY <1>6, ResolveDoes, Bounds DEF NewScratch, Errs, Preflight, Restore,
        RestoreFails, Now, Walk, Tree, View
  <1>c. CASE Check \/ ExecScript
    BY <1>c, CheckDoes, ExecScriptDoes DEF AfterChecks
  <1>7. CASE StartMount \/ AwaitMount \/ Unmount \/ Stop
    BY <1>7 DEF StartMount, AwaitMount, Unmount, Stop
  <1>b. CASE Extract \/ ChildServes
    <2>1. 0 \notin Now => Now \subseteq Made
      BY FileMade DEF Now
    <2>2. \/ UNCHANGED <<resolved, raced>>
          \/ 0 \notin Now /\ resolved' = Now /\ raced' = (raced \/ Now # resolved)
      BY <1>b DEF Extract, ChildServes
    <2>3. resolved' \subseteq Made /\ raced' \in BOOLEAN
      BY <2>1, <2>2
    <2>4. UNCHANGED <<read, blind, lost, latest>>
      BY <1>b DEF Extract, ChildServes
    <2> QED
      BY <2>3, <2>4
  <1>8. CASE CreateBox \/ BootBox \/ Load \/ Query
    BY <1>8 DEF CreateBox, BootBox, Load, Query
  <1>9. CASE Stage
    <2>1. Now \ {0} \subseteq Made
      BY FileMade DEF Now
    <2>2. /\ read' \subseteq Made
          /\ UNCHANGED <<resolved, blind, lost, latest>>
      BY <1>9, <2>1 DEF Stage, Errs, Fold
    <2>3. raced' \in BOOLEAN
      BY <1>9 DEF Stage
    <2> QED
      BY <2>2, <2>3
  <1>10. CASE CloseBox \/ KeepBox \/ Cleanup \/ KeepScratch
    BY <1>10 DEF CloseBox, KeepBox, Cleanup, KeepScratch
  <1>11. CASE \E n \in Names : Rotate(n)
    BY <1>11 DEF Rotate
  <1>12. CASE \E n \in Names : Backup(n)
    BY <1>12 DEF Backup
  <1>13. CASE Expire \/ Kill \/ Sweep \/ Janitor \/ BoxDies
    BY <1>13 DEF Expire, Alive, Kill, StepGone, Sweep, Janitor, BoxDies
  <1>14. CASE ChildExits \/ ContextSignals
    BY <1>14 DEF ChildExits, ContextSignals
  <1>15. CASE UNCHANGED vars
    BY <1>15 DEF vars
  <1> QED
    BY <1>1, <1>2, <1>3, <1>4, <1>5, <1>6, <1>c, <1>7, <1>b, <1>8, <1>9, <1>10, <1>11, <1>12,
       <1>13, <1>14, <1>15 DEF Next, Run, World

-----------------------------------------------------------------------------
(***************************************************************************)
(* The other parts of the invariant.                                       *)
(***************************************************************************)

\* Every way out of a level passes the end of what it started.
LEMMA StepPlacesKept ==
  ASSUME PlacesKept, [Next]_vars
  PROVE  PlacesKept'
  <1> USE DEF PlacesKept, MountSteps, BareSteps, BoxSteps, settings, source, plan,
          step, places, daemon, history, remains
  <1>1. CASE NextLevel \/ EndRun \/ Record \/ Validate
    BY <1>1 DEF NextLevel, EndRun, Record, Validate
  <1>2. CASE NativeCheck \/ InspectDumps
    BY <1>2 DEF NativeCheck, InspectDumps
  <1>3. CASE ListRepo
    BY <1>3 DEF ListRepo, Listed, Fold, aggregate, Report, Judge, IsNewest
  <1>4. CASE ListDumps
    BY <1>4 DEF ListDumps, Listed, Errs, Report, IsNewest
  <1>5. CASE NewScratch \/ Preflight \/ Restore \/ Walk
    BY <1>5 DEF NewScratch, Errs, Preflight, Restore, RestoreFails, Now, Walk, Tree,
        View
  <1>c. CASE Check \/ ExecScript
    BY <1>c, CheckDoes, ExecScriptDoes DEF AfterChecks
  <1>6. CASE Resolve
    BY <1>6 DEF Resolve, Listed, Errs, Pinned, pinnedDumpChanged, Report, EngineAnswers, IsNewest
  <1>7. CASE StartMount \/ AwaitMount \/ Unmount \/ Stop
    BY <1>7 DEF StartMount, Errs, AwaitMount, Unmount, Stop, StopChild, Reaped,
        Escalate
  <1>8. CASE Extract \/ Stage \/ CreateBox \/ BootBox \/ Load \/ Query
    BY <1>8 DEF Extract, Errs, Stage, Fold, CreateBox, BootBox, BootFails, Load,
        Query
  <1>9. CASE KeepBox \/ KeepScratch
    BY <1>9 DEF KeepBox, KeepScratch
  <1>10. CASE CloseBox
    BY <1>10 DEF CloseBox
  <1>11. CASE Cleanup
    BY <1>11 DEF Cleanup, RemoveAll
  <1>12. CASE \E n \in Names : Backup(n) \/ Rotate(n)
    BY <1>12 DEF Backup, Rotate
  <1>13. CASE Expire \/ Kill \/ Sweep \/ Janitor \/ BoxDies
    BY <1>13 DEF Expire, Kill, Sweep, Janitor, BoxDies
  <1>14. CASE ChildServes \/ ChildExits \/ ContextSignals
    BY <1>14 DEF ChildServes, ChildExits, ChildAlive, ContextSignals, Alive
  <1>15. CASE UNCHANGED vars
    BY <1>15 DEF vars
  <1> QED
    BY <1>1, <1>2, <1>3, <1>4, <1>5, <1>c, <1>6, <1>7, <1>8, <1>9, <1>10, <1>11, <1>12,
       <1>13, <1>14, <1>15 DEF Next, Run, World

\* Levels in order, and names resolved to the pinned version.
LEMMA StepLevelsInOrder ==
  ASSUME TypeOK, LevelsInOrder, [Next]_vars
  PROVE  LevelsInOrder'
  <1> USE DEF LevelsInOrder, NamedSteps, Target, NoName, isRepo, settings, source,
          plan, step, places, daemon, history, remains
  <1>a. level \in Int /\ (\A l \in todo : l \in Int) /\ pin \in Int /\ 0 \notin Made
    BY Bounds DEF TypeOK, RunOK, Levels
  <1>b. 0 \notin Names
    BY DEF Names, Versions
  <1>1. CASE EndRun \/ Validate
    BY <1>1 DEF EndRun, Validate, Errs
  <1>2. CASE NextLevel
    <2>1. PICK l \in todo : (\A k \in todo : l =< k) /\ level' = l /\ todo' = todo \ {l}
      BY <1>2 DEF NextLevel
    <2>2. l > level /\ l > 0 /\ (\A k \in todo' : k > l)
      BY <1>a, <2>1 DEF TypeOK, RunOK, Levels
    <2>3. /\ pc = "level" /\ pc' \in {"validate", "record"}
          /\ UNCHANGED <<pin, pinAt, snap, snapAt>>
      BY <1>2 DEF NextLevel
    <2> QED
      BY <1>a, <2>1, <2>2, <2>3
  <1>3. CASE Record
    <2>1. /\ snap' = 0 /\ snapAt' = 0 /\ UNCHANGED <<todo, level>>
          /\ pc = "record" /\ pc' \in {"level", "ended"}
      BY <1>3 DEF Record, StepGone
    <2> QED
      BY <1>a, <2>1
  <1>4. CASE NativeCheck \/ InspectDumps
    BY <1>4 DEF NativeCheck, Fold, InspectDumps
  <1>5. CASE ListRepo
    <2>1. /\ pc = "list" /\ pc' = "record" /\ UNCHANGED <<todo, level, pin>>
          /\ UNCHANGED <<snap, snapAt>> \/ (snap' \in Names /\ snapAt' \in Made)
      BY <1>5, ListRepoDoes
    <2> QED
      BY <1>a, <1>b, <2>1
  <1>6. CASE ListDumps
    <2>1. pc = "list" /\ level = 1 /\ pin = NoName /\ UNCHANGED <<todo, level, pin, pick>>
      BY <1>6, ListDumpsDoes
    <2>2. \/ pc' = "record" /\ UNCHANGED <<snap, snapAt>>
          \/ /\ pc' = "inspect" /\ ids' # {} /\ resolved' # {}
             /\ snap' # 0 /\ snapAt' # 0
             /\ pick = "latest" => resolved' = {snapAt'}
      BY <1>6, <1>a, <1>b, ListDumpsDoes
    <2> QED
      BY <1>a, <2>1, <2>2
  <1>7. CASE NewScratch \/ Preflight \/ Restore \/ Walk
    BY <1>7 DEF NewScratch, Errs, Preflight, Restore, RestoreFails, Walk
  <1>c. CASE Check \/ ExecScript
    BY <1>c, CheckDoes, ExecScriptDoes DEF AfterChecks
  <1>8. CASE Resolve
    <2>1. pc = "resolve" /\ UNCHANGED <<todo, level, pin, pinAt, pick>>
      BY <1>8, ResolveDoes
    <2>2. \/ pc' = "record" /\ UNCHANGED <<snap, snapAt>>
          \/ /\ pc' = "scratch" /\ ids' # {} /\ resolved' # {}
             /\ snap' # 0 /\ (pin = NoName => snapAt' # 0)
             /\ pick = "latest" => resolved' = {IF pin = NoName THEN snapAt' ELSE pinAt}
      BY <1>8, <1>b, ResolveDoes
    <2> QED
      BY <1>a, <2>1, <2>2
  <1>9. CASE StartMount \/ AwaitMount \/ Unmount \/ Stop
    BY <1>9 DEF StartMount, Errs, AwaitMount, Unmount, Stop, StopChild, Reaped,
        Escalate
  <1>d. CASE Extract \/ ChildServes
    <2>1. /\ UNCHANGED <<todo, level, pin, pinAt, snap, snapAt, ids, pick>>
          /\ pc' = pc \/ (pc = "extract" /\ pc' \in {"cleanup", "stage"})
      BY <1>d DEF Extract, Errs, ChildServes
    <2>2. \/ UNCHANGED <<resolved, raced>>
          \/ resolved' = Now /\ raced' = (raced \/ Now # resolved)
      BY <1>d DEF Extract, ChildServes
    <2>3. ids # {} => Now # {}
      BY DEF Now
    <2>4. (raced => raced') /\ (resolved' = resolved \/ raced')
      BY <2>2
    <2>5. ids # {} /\ resolved # {} => resolved' # {}
      BY <2>2, <2>3
    <2> QED
      BY <2>1, <2>4, <2>5
  <1>10. CASE Stage \/ CreateBox \/ BootBox \/ Load \/ Query
    BY <1>10 DEF Errs, Stage, Fold, CreateBox, BootBox, BootFails, Load,
        Query
  <1>11. CASE CloseBox \/ KeepBox \/ Cleanup \/ KeepScratch
    BY <1>11 DEF CloseBox, KeepBox, Cleanup, KeepScratch
  <1>12. CASE \E n \in Names : Backup(n) \/ Rotate(n)
    BY <1>12 DEF Backup, Rotate
  <1>13. CASE Expire \/ Kill \/ Sweep \/ Janitor \/ BoxDies
    BY <1>13 DEF Expire, Alive, Kill, StepGone, Sweep, Janitor, BoxDies
  <1>14. CASE ChildExits \/ ContextSignals
    BY <1>14 DEF ChildExits, ContextSignals
  <1>15. CASE UNCHANGED vars
    BY <1>15 DEF vars
  <1> QED
    BY <1>1, <1>2, <1>3, <1>4, <1>5, <1>6, <1>7, <1>c, <1>8, <1>9, <1>d, <1>10, <1>11, <1>12,
       <1>13, <1>14, <1>15 DEF Next, Run, World

\* Statuses appear only where checks have run.
LEMMA StepEvidenceKept ==
  ASSUME TypeOK, EvidenceKept, [Next]_vars
  PROVE  EvidenceKept'
  <1> USE DEF EvidenceKept, SilentSteps, isRepo, settings, source, plan, step,
          places, daemon, history, remains
  <1>1. CASE NextLevel \/ EndRun \/ Record \/ Validate
    BY <1>1 DEF NextLevel, EndRun, Record, StepGone, Validate, Errs
  <1>2. CASE NativeCheck \/ ListRepo \/ ListDumps \/ InspectDumps
    BY <1>2, ListRepoDoes, ListDumpsDoes, Bounds DEF NativeCheck, Fold, InspectDumps
  <1>3. CASE Resolve \/ NewScratch \/ Preflight \/ Restore \/ Walk
    BY <1>3, ResolveDoes, Bounds DEF NewScratch, Errs, Preflight, Restore,
        RestoreFails, Walk
  <1>c. CASE Check \/ ExecScript
    BY <1>c, CheckDoes, ExecScriptDoes DEF AfterChecks
  <1>4. CASE StartMount \/ AwaitMount \/ Unmount \/ Stop
    BY <1>4 DEF StartMount, Errs, AwaitMount, Unmount, Stop, StopChild, Reaped,
        Escalate
  <1>5. CASE Extract \/ Stage \/ CreateBox \/ BootBox \/ Load \/ Query
    BY <1>5 DEF Extract, Errs, Stage, Fold, CreateBox, BootBox, BootFails, Load,
        Query
  <1>6. CASE CloseBox \/ KeepBox \/ Cleanup \/ KeepScratch
    BY <1>6 DEF CloseBox, KeepBox, Cleanup, KeepScratch
  <1>7. CASE \E n \in Names : Backup(n) \/ Rotate(n)
    BY <1>7 DEF Backup, Rotate
  <1>8. CASE Expire \/ Kill \/ Sweep \/ Janitor \/ BoxDies
    BY <1>8 DEF Expire, Kill, Sweep, Janitor, BoxDies
  <1>9. CASE ChildServes \/ ChildExits \/ ContextSignals
    BY <1>9 DEF ChildServes, ChildExits, ContextSignals
  <1>10. CASE UNCHANGED vars
    BY <1>10 DEF vars
  <1> QED
    BY <1>1, <1>2, <1>3, <1>c, <1>4, <1>5, <1>6, <1>7, <1>8, <1>9, <1>10 DEF Next, Run, World

\* The tree under the checks of L2.
LEMMA StepTreeKept ==
  ASSUME TypeOK, PlacesKept, LevelsInOrder, TreeKept, [Next]_vars
  PROVE  TreeKept'
  <1> USE DEF TreeKept, View, Tree, NamedSteps, settings, source, plan, step,
          places, daemon, history, remains
  <1>1. CASE NextLevel \/ EndRun \/ Record \/ Validate
    BY <1>1 DEF NextLevel, EndRun, Record, StepGone, Validate, Errs
  <1>2. CASE NativeCheck \/ ListRepo \/ ListDumps \/ InspectDumps
    BY <1>2, ListRepoDoes, ListDumpsDoes, Bounds DEF NativeCheck, Fold, InspectDumps
  <1>3. CASE Resolve \/ NewScratch \/ Preflight
    BY <1>3, ResolveDoes, Bounds DEF NewScratch, Errs, Preflight
  <1>c. CASE Check \/ ExecScript
    BY <1>c, CheckDoes, ExecScriptDoes DEF AfterChecks
  <1>4. CASE Restore
    <2>1. pc = "restore" /\ child = "none" /\ ids # {} /\ UNCHANGED <<child, sig, ctx, resolved>>
      BY <1>4 DEF Restore, PlacesKept, MountSteps, LevelsInOrder
    <2>2. Now # {}
      BY <2>1 DEF Now
    <2>3. \/ pc' = "cleanup"
          \/ pc' = "walk" /\ scratch' /\ holds' = Now /\ (holds' = resolved \/ raced')
      BY <1>4 DEF Restore, RestoreFails, Errs
    <2> QED
      BY <2>1, <2>2, <2>3
  <1>5. CASE Walk
    <2>1. /\ pc = "walk" /\ pc' = "check" /\ read' = Tree
          /\ UNCHANGED <<scratch, holds, child, fuse, sig, engine, ctx, raced, resolved>>
      BY <1>5 DEF Walk
    <2>a. (blind => blind') /\ (walked' # "files" => View # "files" \/ blind')
      BY <1>5 DEF Walk, Views
    <2>2. View = "files" => Tree # {}
      BY <2>1 DEF LevelsInOrder
    <2>3. Tree' = Tree /\ View' = View
      BY <2>1
    <2> HIDE DEF View, Tree
    <2> QED
      BY <2>1, <2>a, <2>2, <2>3
  <1>6. CASE StartMount \/ AwaitMount \/ Unmount \/ Stop
    BY <1>6 DEF StartMount, Errs, AwaitMount, Unmount, Stop, StopChild, Reaped,
        Escalate
  <1>7. CASE Extract \/ Stage \/ CreateBox \/ BootBox \/ Load \/ Query
    BY <1>7 DEF Extract, Errs, Stage, Fold, CreateBox, BootBox, BootFails, Load,
        Query
  <1>8. CASE CloseBox \/ KeepBox \/ Cleanup \/ KeepScratch
    BY <1>8 DEF CloseBox, KeepBox, Cleanup, KeepScratch
  <1>9. CASE \E n \in Names : Backup(n) \/ Rotate(n)
    BY <1>9 DEF Backup, Rotate
  <1>10. CASE Expire
    BY <1>10 DEF Expire
  <1>b. CASE BoxDies
    <2>1. /\ UNCHANGED <<pc, ctx, scratch, holds, child, fuse, sig, engine, raced, resolved, read, walked>>
          /\ blind => blind'
      BY <1>b DEF BoxDies
    <2>2. View' = View /\ Tree' = Tree
      BY <2>1
    <2> HIDE DEF View, Tree
    <2> QED
      BY <2>1, <2>2
  <1>11. CASE Kill
    BY <1>11 DEF Kill
  <1>12. CASE Sweep
    <2>1. /\ UNCHANGED <<pc, ctx, child, sig, engine, raced, resolved, read, walked>>
          /\ holds' \in {holds, {}}
      BY <1>12 DEF Sweep
    <2>2. blind => blind'
      BY <1>12 DEF Sweep
    <2>3. View' = "files" => View = "files" /\ Tree' = Tree
      BY <1>12, <2>1 DEF Sweep
    <2>4. pc \in {"walk", "check", "exec"} /\ View = "files" /\ View' # "files" => blind'
      BY <1>12, <2>1 DEF Sweep, TreeSteps
    <2>5. Tree' \subseteq Tree
      BY <2>3
    <2> HIDE DEF View, Tree
    <2> QED
      BY <2>1, <2>2, <2>3, <2>4, <2>5
  <1>13. CASE Janitor
    BY <1>13 DEF Janitor
  <1>14. CASE ChildServes \/ ChildExits \/ ContextSignals
    BY <1>14 DEF ChildServes, ChildExits, ChildAlive, ContextSignals, Alive
  <1>15. CASE UNCHANGED vars
    BY <1>15 DEF vars
  <1> QED
    BY <1>1, <1>2, <1>3, <1>c, <1>4, <1>5, <1>6, <1>7, <1>8, <1>9, <1>10, <1>b, <1>11, <1>12,
       <1>13, <1>14, <1>15 DEF Next, Run, World

\* The sandbox under the checks of L3.
LEMMA StepSandboxKept ==
  ASSUME TypeOK, SandboxKept, [Next]_vars
  PROVE  SandboxKept'
  <1> USE DEF SandboxKept, settings, source, plan, step, places, daemon, history,
          remains
  <1>1. CASE NextLevel \/ EndRun \/ Record \/ Validate
    BY <1>1 DEF NextLevel, EndRun, Record, StepGone, Validate, Errs
  <1>2. CASE NativeCheck \/ ListRepo \/ ListDumps \/ InspectDumps
    BY <1>2, ListRepoDoes, ListDumpsDoes, Bounds DEF NativeCheck, Fold, InspectDumps
  <1>3. CASE Resolve \/ NewScratch \/ Preflight \/ Restore \/ Walk
    BY <1>3, ResolveDoes, Bounds DEF NewScratch, Errs, Preflight, Restore,
        RestoreFails, Walk
  <1>c. CASE Check \/ ExecScript
    BY <1>c, CheckDoes, ExecScriptDoes DEF AfterChecks
  <1>4. CASE StartMount \/ AwaitMount \/ Unmount \/ Stop
    BY <1>4 DEF StartMount, Errs, AwaitMount, Unmount, Stop, StopChild, Reaped,
        Escalate
  <1>5. CASE Extract \/ Stage \/ CreateBox \/ BootBox \/ Load \/ Query
    BY <1>5 DEF Extract, Errs, Stage, Fold, CreateBox, BootBox, BootFails, Load,
        Query
  <1>6. CASE CloseBox \/ KeepBox \/ Cleanup \/ KeepScratch
    BY <1>6 DEF CloseBox, KeepBox, Cleanup, KeepScratch
  <1>7. CASE \E n \in Names : Backup(n) \/ Rotate(n)
    BY <1>7 DEF Backup, Rotate
  <1>8. CASE Expire \/ Kill \/ Sweep \/ Janitor \/ BoxDies
    BY <1>8 DEF Expire, Alive, Kill, StepGone, Sweep, Janitor, BoxDies
  <1>9. CASE ChildServes \/ ChildExits \/ ContextSignals
    BY <1>9 DEF ChildServes, ChildExits, ContextSignals
  <1>10. CASE UNCHANGED vars
    BY <1>10 DEF vars
  <1> QED
    BY <1>1, <1>2, <1>3, <1>c, <1>4, <1>5, <1>6, <1>7, <1>8, <1>9, <1>10 DEF Next, Run, World

\* Only a bad version makes a check that reads it fail, and only a failing check
\* makes the fold of the evidence fail.
LEMMA JudgeFails ==
  ASSUME NEW vs, "fail" \in Judge(vs)
  PROVE  \E v \in vs : v \in bad
  BY DEF Judge

LEMMA AggregateFails ==
  ASSUME NEW s
  PROVE  aggregate(s) = "fail" <=> "fail" \in s
  BY DEF aggregate

\* A check of the tree that fails has seen a bad version, or not the whole tree.
LEMMA TreeFails ==
  ASSUME TreeKept, pc \in {"check", "exec"}, NEW k, NEW v \in Views, "fail" \in ReactToTree(k, v)
  PROVE  BadRead \/ blind \/ ctx = "done" \/ v = "faulty"
  <1>1. "fail" \in Judge(Tree) => BadRead
    BY JudgeFails DEF BadRead, TreeKept
  <1>2. v \in {"files", "faulty"} \/ View # "files"
    BY DEF Views
  <1>3. View # "files" => blind \/ ctx = "done"
    BY DEF TreeKept
  <1>4. v = "files" => "fail" \in Judge(Tree)
    BY DEF ReactToTree
  <1> QED
    BY <1>1, <1>2, <1>3, <1>4

LEMMA ReactFails ==
  ASSUME TreeKept, pc = "check", NEW k, NEW v \in Views, "fail" \in React(k, v)
  PROVE  BadRead \/ blind \/ ctx = "done" \/ v = "faulty"
  <1>1. "fail" \in ReactToWalk(k) \/ "fail" \in ReactToTree(k, v)
    BY DEF React
  <1>2. "fail" \in ReactToWalk(k) => "fail" \in Judge(read) \/ walked # "files"
    BY DEF ReactToWalk
  <1>3. "fail" \in Judge(read) => BadRead
    BY JudgeFails DEF BadRead
  <1>4. walked # "files" => blind \/ ctx = "done"
    BY DEF TreeKept
  <1> QED
    BY <1>1, <1>2, <1>3, <1>4, TreeFails

\* A command in the sandbox that fails has loaded a bad dump, was hindered, or
\* lost its sandbox.
LEMMA SandboxFails ==
  ASSUME SandboxKept, pc \in {"load", "query"}, NEW h \in BOOLEAN, "fail" \in SandboxSays(h)
  PROVE  BadRead \/ blind \/ ctx = "done" \/ h
  <1>1. "fail" \in Judge({dump}) => BadRead
    BY JudgeFails DEF BadRead, SandboxKept
  <1>2. box # "up" => blind
    BY DEF SandboxKept
  <1>3. "fail" \in Judge({dump}) \/ box # "up" \/ h \/ ctx = "done"
    BY DEF SandboxSays
  <1> QED
    BY <1>1, <1>2, <1>3

\* A version that is bad stays bad.
LEMMA BadReadKept ==
  ASSUME [Next]_vars, read \subseteq read'
  PROVE  BadRead => BadRead'
  <1>1. UNCHANGED bad
    BY DEF Next, World, Run, vars, settings, source, plan, step, places,
        daemon, history, remains, NextLevel, EndRun, Record, Validate,
        NativeCheck, ListRepo, ListDumps, InspectDumps, Resolve, NewScratch,
        Preflight, Restore, Walk, Check, ExecScript, StartMount, AwaitMount, Unmount, Stop,
        Extract, Stage, CreateBox, BootBox, Load, Query, CloseBox, KeepBox,
        Cleanup, KeepScratch, Backup, Rotate, Expire, Kill, Sweep, Janitor, BoxDies,
        ChildServes, ChildExits, ContextSignals
  <1> QED
    BY <1>1 DEF BadRead

\* A fail comes from a bad version that was read, from checks that lost sight of
\* it, or is never recorded.
LEMMA StepFailKept ==
  ASSUME TypeOK, EvidenceKept, TreeKept, SandboxKept, FailKept, [Next]_vars
  PROVE  FailKept'
  <1> USE DEF FailKept, EvidenceKept, SilentSteps, settings, source, plan, step,
          places, daemon, history, remains
  <1> USE BadReadKept
  <1>1. CASE NextLevel \/ EndRun \/ Record \/ Validate
    BY <1>1 DEF NextLevel, EndRun, Record, StepGone, Validate, Errs
  <1>2. CASE ListDumps
    BY <1>2, ListDumpsDoes, Bounds
  <1>3. CASE NativeCheck
    <2>1. PICK h \in BOOLEAN : \E s \in NativeOutcomes(h) :
            /\ blind' = (blind \/ (engine = "restic" /\ h /\ s = "fail"))
            /\ \/ evs' = {} /\ status' = aggregate({s})
               \/ evs' = {s} /\ UNCHANGED status
      BY <1>3 DEF NativeCheck, Fold
    <2>a. PICK s \in NativeOutcomes(h) :
            /\ blind' = (blind \/ (engine = "restic" /\ h /\ s = "fail"))
            /\ \/ evs' = {} /\ status' = aggregate({s})
               \/ evs' = {s} /\ UNCHANGED status
      BY <2>1
    <2>2. /\ read' = {file[n] : n \in Listed} /\ UNCHANGED <<bad, ctx>>
          /\ pc = "native" /\ UNCHANGED out
      BY <1>3 DEF NativeCheck
    <2>3. s = "fail" => (engine = "restic" /\ h) \/ "fail" \in Judge({file[n] : n \in Listed})
      BY <2>a DEF NativeOutcomes
    <2>4. s = "fail" => (engine = "restic" /\ h) \/ BadRead'
      BY <2>2, <2>3, JudgeFails DEF BadRead
    <2>5. s = "fail" => blind' \/ BadRead'
      BY <2>a, <2>4
    <2>6. "fail" \in evs' \/ status' = "fail" => s = "fail"
      BY <2>a, <2>2, AggregateFails
    <2> QED
      BY <2>2, <2>5, <2>6
  <1>4. CASE ListRepo
    <2>1. PICK s \in Verdicts :
            /\ status' = aggregate(evs \cup {s})
            /\ \/ s # "fail" /\ UNCHANGED <<snap, snapAt, resolved, read>>
               \/ read' = read \cup {snapAt'} /\ s \in Judge({snapAt'})
      BY <1>4, ListRepoDoes
    <2>2. evs' = {} /\ UNCHANGED <<bad, ctx, blind, out>> /\ pc = "list"
      BY <1>4, ListRepoDoes
    <2>3. s = "fail" => BadRead'
      BY <2>1, <2>2, JudgeFails DEF BadRead
    <2>4. status' = "fail" => "fail" \in evs \/ s = "fail"
      BY <2>1, AggregateFails
    <2> QED
      BY <2>1, <2>2, <2>3, <2>4
  <1>5. CASE InspectDumps
    <2>1. PICK s \in Judge(Now \ {0}) \cup {"error"} :
            Fold({s} \cup IF 0 \in Now THEN {"error"} ELSE {}, "record")
      BY <1>5 DEF InspectDumps
    <2>2. read' = Now \ {0} /\ UNCHANGED <<bad, out>> /\ pc = "inspect"
      BY <1>5 DEF InspectDumps
    <2>3. evs' = {} /\ (status' = "fail" => "fail" \in Judge(Now \ {0}))
      BY <2>1, AggregateFails DEF Fold
    <2> QED
      BY <2>2, <2>3, JudgeFails DEF BadRead
  <1>6. CASE Resolve \/ NewScratch \/ Preflight \/ Restore \/ Walk
    BY <1>6, ResolveDoes, Bounds DEF NewScratch, Errs, Preflight, Restore,
        RestoreFails, Walk
  <1>7. CASE Check
    <2>1. /\ pc = "check" /\ UNCHANGED <<read, bad, ctx, out>> /\ (blind => blind')
          /\ "fail" \in evs' \/ status' = "fail" =>
               \E k, v : v \in Views /\ (v = "faulty" => blind') /\ "fail" \in React(k, v)
      BY <1>7, CheckDoes
    <2>2. "fail" \in evs' \/ status' = "fail" => BadRead \/ blind' \/ ctx = "done"
      BY <2>1, ReactFails
    <2> QED
      BY <2>1, <2>2
  <1>c. CASE ExecScript
    <2>1. /\ pc = "exec" /\ UNCHANGED <<read, bad, ctx, out>> /\ (blind => blind')
          /\ evs' = {}
          /\ status' = "fail" =>
               \/ "fail" \in evs
               \/ \E v \in Views : (v = "faulty" => blind') /\ "fail" \in ReactToTree("exec", v)
      BY <1>c, ExecScriptDoes
    <2>2. status' = "fail" => BadRead \/ blind' \/ ctx = "done"
      BY <2>1, TreeFails
    <2> QED
      BY <2>1, <2>2
  <1>8. CASE StartMount \/ AwaitMount \/ Unmount \/ Stop
    BY <1>8 DEF StartMount, Errs, AwaitMount, Unmount, Stop, StopChild, Reaped,
        Escalate
  <1>9. CASE Extract \/ CreateBox \/ BootBox
    BY <1>9 DEF Extract, Errs, CreateBox, BootBox, BootFails
  <1>10. CASE Stage
    <2>1. pc = "stage" /\ UNCHANGED <<bad, ctx, blind, out>>
      BY <1>10 DEF Stage
    <2>2. \/ read' = read /\ status' = "error" /\ evs' = evs
          \/ status' = status /\ evs' = evs
          \/ evs' = {} /\ BadRead'
      BY <1>10 DEF Stage, Errs, Fold, BadRead
    <2> QED
      BY <2>1, <2>2
  <1>11. CASE Load
    <2>1. /\ pc = "load" /\ UNCHANGED <<read, bad, ctx, out>>
          /\ \/ \E h \in BOOLEAN : \E s \in SandboxSays(h) :
                  evs' = {s} /\ status' = status /\ blind' = (blind \/ (h /\ s = "fail"))
             \/ dump \in bad /\ evs' = {} /\ UNCHANGED blind
      BY <1>11 DEF Load, Fold
    <2>2. CASE dump \in bad /\ evs' = {} /\ UNCHANGED blind
      <3>1. BadRead'
        BY <2>1, <2>2 DEF BadRead, SandboxKept
      <3> QED
        BY <2>1, <3>1
    <2>3. ASSUME NEW h \in BOOLEAN, NEW s \in SandboxSays(h),
                 evs' = {s}, status' = status, blind' = (blind \/ (h /\ s = "fail"))
          PROVE  FailKept'
      <3>1. s = "fail" => BadRead \/ blind' \/ ctx = "done"
        BY <2>1, <2>3, SandboxFails
      <3> QED
        BY <2>1, <2>3, <3>1
    <2> QED
      BY <2>1, <2>2, <2>3
  <1>12. CASE Query
    <2>1. /\ pc = "query" /\ UNCHANGED <<read, bad, ctx, out>>
          /\ evs' = {} /\ (blind => blind')
      BY <1>12 DEF Query, Fold
    <2>2. status' = "fail" => "fail" \in evs \/ "fail" \in SandboxSays(FALSE) \/ blind'
      BY <1>12, AggregateFails DEF Query, Fold
    <2>3. "fail" \in SandboxSays(FALSE) => BadRead \/ blind \/ ctx = "done"
      BY <2>1, SandboxFails
    <2> QED
      BY <2>1, <2>2, <2>3
  <1>13. CASE CloseBox \/ KeepBox \/ Cleanup \/ KeepScratch
    BY <1>13 DEF CloseBox, KeepBox, Cleanup, KeepScratch
  <1>14. CASE \E n \in Names : Backup(n) \/ Rotate(n)
    BY <1>14 DEF Backup, Rotate
  <1>15. CASE Expire \/ Kill \/ Sweep \/ Janitor \/ BoxDies
    BY <1>15 DEF Expire, Kill, Sweep, Janitor, BoxDies
  <1>16. CASE ChildServes \/ ChildExits \/ ContextSignals
    BY <1>16 DEF ChildServes, ChildExits, ContextSignals
  <1>17. CASE UNCHANGED vars
    BY <1>17 DEF vars
  <1> QED
    BY <1>1, <1>2, <1>3, <1>4, <1>5, <1>6, <1>7, <1>c, <1>8, <1>9, <1>10, <1>11, <1>12,
       <1>13, <1>14, <1>15, <1>16, <1>17 DEF Next, Run, World

\* A restore level does not pass on nothing.
LEMMA StepPassKept ==
  ASSUME TypeOK, LevelsInOrder, EvidenceKept, TreeKept, SandboxKept, PassKept, [Next]_vars
  PROVE  PassKept'
  <1> USE DEF PassKept, EvidenceKept, SilentSteps, LevelsInOrder, NamedSteps,
          TreeKept, SandboxKept, settings, source, plan, step, places, daemon,
          history, remains
  <1>1. CASE NextLevel \/ EndRun \/ Record \/ Validate
    BY <1>1 DEF NextLevel, EndRun, Record, StepGone, Validate, Errs
  <1>2. CASE NativeCheck \/ ListRepo \/ ListDumps \/ InspectDumps
    BY <1>2, ListRepoDoes, ListDumpsDoes, Bounds DEF NativeCheck, InspectDumps
  <1>3. CASE Resolve \/ NewScratch \/ Preflight \/ Restore \/ Walk
    BY <1>3, ResolveDoes, Bounds DEF NewScratch, Errs, Preflight, Restore,
        RestoreFails, Walk
  <1>c. CASE Check \/ ExecScript
    BY <1>c, CheckDoes, ExecScriptDoes DEF AfterChecks
  <1>4. CASE StartMount \/ AwaitMount \/ Unmount \/ Stop
    BY <1>4 DEF StartMount, Errs, AwaitMount, Unmount, Stop, StopChild, Reaped,
        Escalate
  <1>5. CASE Extract \/ Stage \/ CreateBox \/ BootBox \/ Load \/ Query
    BY <1>5 DEF Extract, Errs, Stage, Fold, CreateBox, BootBox, BootFails, Load,
        Query
  <1>6. CASE CloseBox \/ KeepBox \/ Cleanup \/ KeepScratch
    BY <1>6 DEF CloseBox, KeepBox, Cleanup, KeepScratch
  <1>7. CASE \E n \in Names : Backup(n) \/ Rotate(n)
    BY <1>7 DEF Backup, Rotate
  <1>8. CASE Expire \/ Kill \/ Sweep \/ Janitor \/ BoxDies
    BY <1>8 DEF Expire, Kill, Sweep, Janitor, BoxDies
  <1>9. CASE ChildServes \/ ChildExits \/ ContextSignals
    BY <1>9 DEF ChildServes, ChildExits, ContextSignals
  <1>10. CASE UNCHANGED vars
    BY <1>10 DEF vars
  <1> QED
    BY <1>1, <1>2, <1>3, <1>c, <1>4, <1>5, <1>6, <1>7, <1>8, <1>9, <1>10 DEF Next, Run, World

\* What a level reads is what the run is about.
LEMMA StepAboutTarget ==
  ASSUME TypeOK, LevelsInOrder, EvidenceKept, TreeKept, AboutTarget, [Next]_vars
  PROVE  AboutTarget'
  <1> USE DEF AboutTarget, Target, EvidenceKept, SilentSteps, LevelsInOrder,
          NamedSteps, NoName, isRepo, settings, source, plan, step, places, daemon,
          history, remains
  <1>1. CASE NextLevel \/ EndRun \/ Record \/ Validate
    BY <1>1 DEF NextLevel, EndRun, Record, StepGone, Validate, Errs
  <1>2. CASE NativeCheck
    BY <1>2 DEF NativeCheck
  <1>3. CASE ListRepo
    BY <1>3, ListRepoDoes, Bounds
  <1>4. CASE ListDumps
    BY <1>4, ListDumpsDoes, Bounds
  <1>5. CASE InspectDumps
    BY <1>5 DEF InspectDumps
  <1>6. CASE Resolve \/ NewScratch \/ Preflight \/ Restore
    BY <1>6, ResolveDoes, Bounds DEF NewScratch, Preflight, Restore
  <1>c. CASE Check \/ ExecScript
    BY <1>c, CheckDoes, ExecScriptDoes DEF AfterChecks
  <1>7. CASE Walk
    <2>1. /\ pc = "walk" /\ read' = Tree
          /\ UNCHANGED <<pick, raced, level, engine, pin, pinAt, snapAt>>
      BY <1>7 DEF Walk
    <2>2. pick = "latest" /\ ~raced => Tree \subseteq {Target}
      BY <2>1 DEF Tree, TreeKept
    <2> QED
      BY <2>1, <2>2
  <1>8. CASE StartMount \/ AwaitMount \/ Unmount \/ Stop
    BY <1>8 DEF StartMount, AwaitMount, Unmount, Stop
  <1>9. CASE Extract \/ Stage \/ CreateBox \/ BootBox \/ Load \/ Query
    BY <1>9 DEF Extract, Stage, CreateBox, BootBox, Load, Query
  <1>10. CASE CloseBox \/ KeepBox \/ Cleanup \/ KeepScratch
    BY <1>10 DEF CloseBox, KeepBox, Cleanup, KeepScratch
  <1>11. CASE \E n \in Names : Backup(n) \/ Rotate(n)
    BY <1>11 DEF Backup, Rotate
  <1>12. CASE Expire \/ Kill \/ Sweep \/ Janitor \/ BoxDies
    BY <1>12 DEF Expire, Kill, Sweep, Janitor, BoxDies
  <1>13. CASE ChildServes \/ ChildExits \/ ContextSignals
    BY <1>13 DEF ChildServes, ChildExits, ContextSignals
  <1>14. CASE UNCHANGED vars
    BY <1>14 DEF vars
  <1> QED
    BY <1>1, <1>2, <1>3, <1>4, <1>5, <1>6, <1>c, <1>7, <1>8, <1>9, <1>10, <1>11, <1>12,
       <1>13, <1>14 DEF Next, Run, World

-----------------------------------------------------------------------------
\* ExecutorInv holds at the start and no step breaks it.
LEMMA InitExecutorInv == Init => ExecutorInv
  <1> SUFFICES ASSUME Init PROVE ExecutorInv
    OBVIOUS
  <1>1. MaxVersion \in Nat /\ MaxVersion > 0 /\ MaxBoots \in Nat /\ todo \subseteq Levels
    BY ExecutorAssumption DEF Init, Levels
  <1>2. SettingsOK
    BY DEF Init, SettingsOK
  <1>3. SourceOK
    BY <1>1 DEF Init, SourceOK, Made, Versions, Names
  <1>4. RunOK /\ StepOK
    BY <1>1 DEF Init, RunOK, StepOK, NoName
  <1>5. PlacesOK /\ HistoryOK
    <2>1. dump \in 0..latest /\ boots \in 0..MaxBoots
      BY <1>1 DEF Init
    <2>2. /\ scratch \in BOOLEAN /\ booting \in BOOLEAN
          /\ raced \in BOOLEAN /\ blind \in BOOLEAN /\ lost \in BOOLEAN
      BY DEF Init
    <2> QED
      BY <2>1, <2>2 DEF Init, PlacesOK, HistoryOK
  <1>6. TypeOK
    BY <1>2, <1>3, <1>4, <1>5 DEF TypeOK
  <1>7. PlacesKept
    BY DEF Init, PlacesKept
  <1>8. LevelsInOrder
    BY <1>1 DEF Init, LevelsInOrder, NamedSteps, NoName, Levels
  <1>9. EvidenceKept /\ SandboxKept
    BY DEF Init, EvidenceKept, SandboxKept
  <1>10. TreeKept
    BY DEF Init, TreeKept
  <1>11. FailKept /\ PassKept /\ AboutTarget
    BY DEF Init, FailKept, PassKept, AboutTarget
  <1> QED
    BY <1>6, <1>7, <1>8, <1>9, <1>10, <1>11 DEF ExecutorInv

\* Part by part.
LEMMA NextExecutorInv == ExecutorInv /\ [Next]_vars => ExecutorInv'
  <1> SUFFICES ASSUME ExecutorInv, [Next]_vars PROVE ExecutorInv'
    OBVIOUS
  <1> USE DEF ExecutorInv
  <1>1. TypeOK'
    <2>1. SettingsOK' /\ SourceOK' /\ RunOK'
      BY StepSettingsOK, StepSourceOK, StepRunOK
    <2>2. StepOK' /\ PlacesOK' /\ HistoryOK'
      BY StepStepOK, StepPlacesOK, StepHistoryOK
    <2> QED
      BY <2>1, <2>2 DEF TypeOK
  <1>2. PlacesKept' /\ LevelsInOrder' /\ EvidenceKept'
    BY StepPlacesKept, StepLevelsInOrder, StepEvidenceKept
  <1>3. TreeKept' /\ SandboxKept'
    BY StepTreeKept, StepSandboxKept
  <1>4. FailKept' /\ PassKept' /\ AboutTarget'
    BY StepFailKept, StepPassKept, StepAboutTarget
  <1> QED
    BY <1>1, <1>2, <1>3, <1>4

LEMMA ExecutorInvariant == Spec => []ExecutorInv
  BY InitExecutorInv, NextExecutorInv, PTL DEF Spec

\* Every variable keeps its type, only versions that were made are read, and
\* the run's pin always has the timestamp that pinnedDumpChanged compares.
THEOREM ExecutorTypeOK == Spec => []TypeOK
  BY ExecutorInvariant, PTL DEF ExecutorInv

-----------------------------------------------------------------------------
\* subproc.MountProc.Stop and exec.mountAndCheck: the scratch directory is never
\* removed under a mount child that still runs, also with a context that is
\* done, a sweep by another daemon or an unmount command that fails.
THEOREM NoRemovalUnderMount == Spec => []NeverRemoveLiveMount
  <1>1. ExecutorInv => NeverRemoveLiveMount
    BY DEF ExecutorInv, PlacesKept, MountSteps, NeverRemoveLiveMount, ChildAlive
  <1> QED
    BY <1>1, ExecutorInvariant, PTL

\* A run that returns, on whatever path, leaves no child and no live mount, and
\* without --keep no scratch directory and no container, unless a removal
\* failed or the engine's answer was lost.
THEOREM RunLeavesNothing == Spec => []NothingLeftBehind
  <1>1. ExecutorInv => NothingLeftBehind
    BY DEF ExecutorInv, PlacesKept, MountSteps, BareSteps, BoxSteps, NothingLeftBehind
  <1> QED
    BY <1>1, ExecutorInvariant, PTL

\* errorStep, subproc.ExecRunner and the record under the run's context: a
\* recorded fail has read a bad backup, unless one of the mishaps happened that
\* the code does not tell from it: a positive exit of a restic check that could
\* not do its work, a tree swept away, unmounted or answering with errors under
\* the checks of L2, a sandbox that is gone, hindered or without the dump under
\* those of L3.
THEOREM FailIsTheBackup == Spec => []FailBlamesBackup
  <1>1. ExecutorInv => FailBlamesBackup
    BY DEF ExecutorInv, FailKept, BadRead, FailBlamesBackup
  <1> QED
    BY <1>1, ExecutorInvariant, PTL

\* finishL2 and runL3: a restore level that passes has read a backup, although
\* the walk skips what it cannot read and a drill may have no checks.
THEOREM PassHasRead == Spec => []PassReadBackup
  <1>1. ExecutorInv => PassReadBackup
    BY DEF ExecutorInv, PassKept, PassReadBackup
  <1> QED
    BY <1>1, ExecutorInvariant, PTL

\* runLevel's pin and pinnedDumpChanged: however many backups are made, rotated
\* or overwritten meanwhile, the verdicts of a run are about one version, unless
\* the name got another one between a level's look at it and its read.
THEOREM OneVersionPerRun == Spec => []OneBackupPerRun
  <1>1. ExecutorInv => OneBackupPerRun
    <2> SUFFICES ASSUME ExecutorInv, out \in {"pass", "fail"}, ~raced, pick = "latest",
                        level > 1 \/ ~isRepo
                 PROVE  read \subseteq {pinAt}
      BY DEF OneBackupPerRun
    <2>1. read \subseteq {Target} /\ pc \in {"level", "ended"}
      BY DEF ExecutorInv, AboutTarget, EvidenceKept
    <2>2. 0 \notin read
      BY Bounds DEF ExecutorInv, TypeOK, HistoryOK
    <2>3. pin = NoName => Target = 0
      BY <2>1 DEF ExecutorInv, LevelsInOrder, Target
    <2> QED
      BY <2>1, <2>2, <2>3 DEF Target
  <1> QED
    BY <1>1, ExecutorInvariant, PTL
=============================================================================
