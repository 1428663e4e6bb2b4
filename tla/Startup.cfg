SPECIFICATION FairSpec
CONSTANTS
  Daemon = daemon
  Procs = {daemon, cli}
  MaxVersion = 3
  MaxFaults = 1
  MaxDrills = 2
  MaxFiles = 1
  Quota = 1
  Drills <- MCDrills
INVARIANTS
  SchemaMatchesVersions
  OpenHasSchema
  NoCheckVanishes
  PassCouldHaveFailed
  ExitTellsWorst
PROPERTIES
  DaemonOpens
