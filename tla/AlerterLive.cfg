SPECIFICATION FairSpec
CONSTANTS
  MaxProofAge = 1
  MaxCount = 2
  Week = 2
  MaxRuns = 2
  MaxTime = 3
  MaxFaults = 1
  MaxCrashes = 0
PROPERTIES
  FlagTracksSLA
  BadRunAlerted
CHECK_DEADLOCK FALSE
