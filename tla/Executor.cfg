SPECIFICATION Spec
CONSTANTS
  Engines = {"dumpdir", "borg", "restic"}
  Selections = {{1}, {2, 3}}
  CheckSets = {{"path_exists", "min_total_bytes"}, {"path_absent", "hash_match"}, {"newest_file_max_age", "exec"}}
  BadSets = {{1}, {2}}
  MaxVersion = 2
  MaxBoots = 1
INVARIANTS FailBlamesBackup PassReadBackup OneBackupPerRun NothingLeftBehind NeverRemoveLiveMount
PROPERTY RunEnds
CHECK_DEADLOCK FALSE
