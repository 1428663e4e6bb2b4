SPECIFICATION FairSpec
CONSTANTS
  Jobs = {1, 2}
  Period <- MCPeriod
  Jitter <- MCJitter
  NeverSets = {{}, {1}, {2}}
  Concurrency = 1
  MaxTime = 7
INVARIANTS
  OncePerSlot
  NeverSpins
  OversleepsOnlyDispatches
PROPERTY DueIsAttempted
CHECK_DEADLOCK FALSE
