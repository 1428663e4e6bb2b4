------------------------------- MODULE Policy -------------------------------
(***************************************************************************)
(* What a drill's block of the configuration file means: which blocks      *)
(* Validate accepts (internal/config), and which checks the executor       *)
(* builds from an accepted one, with the evidence they can give            *)
(* (internal/exec).  The two halves are written apart, in two packages; a  *)
(* check that one accepts and the other does not build would let a level   *)
(* pass while checking nothing.                                            *)
(*                                                                         *)
(* A setting is a key with how its value reads: "set", "off" (a boolean    *)
(* that is false), "zero" (a threshold of 0) or "bad" (empty, out of       *)
(* range, malformed).  Levels are validated one by one, so a drill here    *)
(* has one level block.                                                    *)
(***************************************************************************)
EXTENDS Integers, FiniteSets

Types == {"borg", "restic", "dumpdir"}

\* The keys of an L1 block, by source type.
RepoKeys == {"native_check", "snapshot_max_age", "size_anomaly_pct", "read_data_subset_pct"}
DumpKeys == {"file_min_bytes", "compression_test", "max_age"}

\* checkCatalog: the check kinds and the level each may appear at.
L2Kinds == {"path_exists", "path_absent", "canary_file", "hash_match", "newest_file_max_age",
            "file_count_tolerance_pct", "min_total_bytes", "file_count", "entropy_anomaly", "exec"}
L3Kinds == {"sql", "sql_no_error", "tcp", "exec"}

CheckKinds(level) == IF level = "l2" THEN L2Kinds ELSE L3Kinds

Booleans   == {"native_check", "compression_test", "hash_match", "entropy_anomaly"}
Thresholds == {"file_min_bytes", "min_total_bytes"}

\* The kinds whose validate function may find fault with the value; a size or
\* a duration that does not parse never gets there.
Validated ==
  {"size_anomaly_pct", "read_data_subset_pct", "path_exists", "path_absent", "canary_file",
   "file_count_tolerance_pct", "file_count", "sql", "sql_no_error", "tcp", "exec"}

Values(key) ==
  {"set"} \cup (IF key \in Booleans THEN {"off"} ELSE {})
          \cup (IF key \in Thresholds THEN {"zero"} ELSE {})
          \cup (IF key \in Validated THEN {"bad"} ELSE {})

Settings(keys) == UNION {[key : {k}, value : Values(k)] : k \in keys}

On(block, key) == \E s \in block : s.key = key /\ s.value # "off"
-----------------------------------------------------------------------------
\* Validate.

\* Mutation: a check that is switched off counts as configured.
hasVerdictCheckIfNamed(block) ==
  \E s \in block : s.key \notin {"size_anomaly_pct", "read_data_subset_pct"}

\* hasVerdictCheck: a check of the L1 block that can fail.
hasVerdictCheck(block) ==
  \E s \in block : s.key \notin {"size_anomaly_pct", "read_data_subset_pct"} /\ s.value # "off"

L1OK(block, type) ==
  /\ \A s \in block :
       /\ s.key \in (IF type = "dumpdir" THEN DumpKeys ELSE RepoKeys)
       /\ s.value # "bad"
       /\ s.key = "read_data_subset_pct" => type = "restic" /\ On(block, "native_check")
  /\ hasVerdictCheck(block)

CheckOK(s, level, type) ==
  /\ s.key \in CheckKinds(level)
  /\ s.value # "bad"
  /\ s.key = "hash_match" => type # "dumpdir"

\* The restore of an L2 block.  "" is an unset mode or scope; the sample is
\* unset, asks for no file, for one, or is negative.
Restores ==
  [mode : {"", "copy", "mount", "bad"}, scope : {"", "sample", "full", "bad"},
   sample : {"unset", "none", "one", "bad"}, include : BOOLEAN]

RestoreOK(r, type) ==
  \/ /\ r.mode \in {"", "copy"}
     /\ r.scope # "bad" /\ r.sample # "bad"
     /\ r.scope # "full" => r.sample # "unset" \/ r.include
  \/ /\ r.mode = "mount"
     /\ type # "dumpdir"
     /\ r.scope \in {"", "full"} /\ r.sample = "unset" /\ ~ r.include

L2OK(block, restore, type) ==
  /\ RestoreOK(restore, type)
  /\ \A s \in block :
       CheckOK(s, "l2", type) /\ (s.key = "hash_match" => restore.mode # "mount")

\* The sandbox block is complete or not; a repository needs extract_path.
L3OK(block, complete, extract, type) ==
  /\ complete
  /\ type # "dumpdir" => extract
  /\ block # {}
  /\ \A s \in block : CheckOK(s, "l3", type)

Accepted(d) ==
  CASE d.level = "l1" -> L1OK(d.block, d.type)
    [] d.level = "l2" -> L2OK(d.block, d.restore, d.type)
    [] d.level = "l3" -> L3OK(d.block, d.complete, d.extract, d.type)

-----------------------------------------------------------------------------
\* The executor.

\* The registries l2Builders and l3Builders.
L2Builders == {"path_exists", "path_absent", "canary_file", "hash_match", "newest_file_max_age",
               "min_total_bytes", "file_count_tolerance_pct", "exec", "file_count",
               "entropy_anomaly"}
L3Builders == {"sql", "sql_no_error", "exec", "tcp"}

\* Mutation: a kind without a builder is passed over.
BuiltSilently(d) ==
  CASE d.level = "l1" -> {s \in d.block : s.value # "off" /\ s.key # "read_data_subset_pct"}
    [] d.level = "l2" -> {s \in d.block : s.value = "set" /\ s.key \in L2Builders \ {"file_count"}}
    [] d.level = "l3" -> {s \in d.block : s.key \in L3Builders}

\* The evidence of loading the dump.
Load == [key |-> "load", value |-> "set"]

\* The settings that give a piece of evidence once the level gets to its checks:
\* l1Checks, runBorgL1 and runResticL1; finishL2; loadAndCheck, which adds that
\* of the load itself.
Built(d) ==
  CASE d.level = "l1" ->
         {s \in d.block : s.value # "off" /\ s.key \in (IF d.type = "dumpdir" THEN DumpKeys
                                                        ELSE RepoKeys \ {"read_data_subset_pct"})}
    [] d.level = "l2" ->
         {s \in d.block : ~ (s.value = "off" /\ s.key \in {"hash_match", "entropy_anomaly"})}
    [] d.level = "l3" -> d.block \cup {Load}

Supported(d, s) ==
  CASE d.level = "l1" -> TRUE
    [] d.level = "l2" -> s.key \in L2Builders
    [] d.level = "l3" -> s.key \in L3Builders \cup {"load"}

\* A check whose evidence can be a fail: not the advisory ones, not the record
\* of what the engine verified, not a minimum of nothing.
CanFail(s) ==
  s.key \notin {"size_anomaly_pct", "entropy_anomaly", "hash_match"} /\ s.value # "zero"

\* What a check can say once its level has got that far.
Statuses(d, s) ==
  IF ~ Supported(d, s) THEN {"error"}
  ELSE {"pass"}
       \cup (IF CanFail(s) THEN {"fail"} ELSE {})
       \cup (IF s.key \in {"hash_match", "min_total_bytes", "file_count_tolerance_pct"} THEN {}
             ELSE {"error"})

\* aggregate; an L1 without evidence is an error.
Aggregate(d, evidence) ==
  LET seen == {e.status : e \in evidence} IN
  IF "fail" \in seen THEN "fail"
  ELSE IF "error" \in seen \/ (d.level = "l1" /\ evidence = {}) THEN "error"
  ELSE "pass"

\* Evidences: one status for each built check.
Evidences(d) ==
  {{[of |-> s, status |-> f[s]] : s \in Built(d)} :
     f \in {g \in [Built(d) -> {"pass", "fail", "error"}] : \A s \in Built(d) : g[s] \in Statuses(d, s)}}

\* versionTrapResult: an L3 whose dump is from a newer postgres than the image
\* fails by the evidence of the load, and its checks are not run.
VersionTrap == {[of |-> Load, status |-> "fail"]}

\* A snapshot has some files under the include paths and some beside them.
AllOf(snap) == snap.under + snap.beside

\* selectSample: every file under an include path, and of the others as many as
\* the sample asks for.
Selected(r, snap) ==
  LET pool == IF r.include THEN snap.beside ELSE AllOf(snap) IN
  (IF r.include THEN snap.under ELSE 0) + (IF r.sample = "one" /\ pool > 0 THEN 1 ELSE 0)

\* What the preflight may be told: the size of a whole snapshot is best effort,
\* and 0 when the engine does not say; a dump is restored whole whatever the
\* scope.
Predictions(d, snap) ==
  IF d.type = "dumpdir" THEN {AllOf(snap)}
  ELSE IF d.restore.scope = "full" THEN {AllOf(snap), 0}
  ELSE {Selected(d.restore, snap)}

\* What Restore then copies: "empty means the whole snapshot"
\* (driver.Selection).
Restored(d, snap) ==
  IF d.type = "dumpdir" \/ d.restore.scope = "full" \/ Selected(d.restore, snap) = 0
  THEN AllOf(snap) ELSE Selected(d.restore, snap)
=============================================================================
