SPECIFICATION Spec
CONSTANTS
  Daemon = daemon
  Procs = {daemon, cli}
  Levels = {1, 2}
  FileCounts = {1}
  Tolerance = 50
  MaxCount = 1
  MaxAge = 0
  MaxRuns = 2
  MaxTime = 2
  MaxFaults = 0
INVARIANTS
  ProofBacked
  VerdictMatchesSteps
PROPERTIES
  VerdictImmutable
  ImplementsLedger
CHECK_DEADLOCK FALSE
