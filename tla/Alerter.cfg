SPECIFICATION Spec
CONSTANTS
  MaxProofAge = 1
  MaxCount = 2
  Week = 2
  MaxRuns = 3
  MaxTime = 3
  MaxFaults = 0
  MaxCrashes = 1
PROPERTIES
  NoRepeatWithoutRecover
  RecoverJustified
  DigestOncePerSlot
CHECK_DEADLOCK FALSE
