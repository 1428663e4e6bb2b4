SPECIFICATION Spec
CONSTANTS
  Engines = {"restic"}
  Selections = {{1}}
  CheckSets = {}
  BadSets = {{}}
  MaxVersion = 2
  MaxBoots = 1
INVARIANT FailMeansBackup
CHECK_DEADLOCK FALSE
