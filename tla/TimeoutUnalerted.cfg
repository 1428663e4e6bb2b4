SPECIFICATION Spec
CONSTANTS
  MaxProofAge = 1
  MaxCount = 0
  Week = 4
  MaxRuns = 1
  MaxTime = 1
  MaxFaults = 0
  MaxCrashes = 0
PROPERTY BadRowAlerted
CHECK_DEADLOCK FALSE
