SPECIFICATION Spec
CONSTANTS
  Daemon = daemon
  Procs = {daemon, cli}
  MaxVersion = 1
  MaxFaults = 0
  MaxDrills = 1
  MaxFiles = 1
  Quota = 1
  Drills <- MCDrills
INVARIANTS
  SampleWithinQuota
CHECK_DEADLOCK FALSE
