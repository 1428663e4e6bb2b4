SPECIFICATION FairSpec
CONSTANTS
  Daemon = daemon
  Procs = {daemon, cli}
  Levels = {2}
  FileCounts = {1, 3}
  Tolerance = 50
  MaxCount = 1
  MaxAge = 0
  MaxRuns = 2
  MaxTime = 1
  MaxFaults = 1
INVARIANTS
  CounterWithinVerdicts
PROPERTIES
  NoZombieRun
  DaemonRowsSettle
CHECK_DEADLOCK FALSE
