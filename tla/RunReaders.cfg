SPECIFICATION ViewSpec
CONSTANTS
  Daemon = daemon
  Procs = {daemon}
  Levels = {2}
  FileCounts = {1}
  Tolerance = 50
  MaxCount = 1
  MaxAge = 1
  MaxRuns = 2
  MaxTime = 3
  MaxFaults = 0
  MaxProofAge = 1
INVARIANTS
  ShownVerdictHasSteps
  ShownFreshIsBacked
  PageAgrees
PROPERTIES
  CounterNeverRegresses
