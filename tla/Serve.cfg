SPECIFICATION ServeFairSpec
CONSTANTS
  Drills = {d1, d2, d3}
  Goroutines = {g1, g2, g3}
  Concurrency = 2
  NoDrill = NoDrill
  Timed = {d1}
INVARIANTS
  SingleFlightHeld
  RefusalJustified
  ReleaseNeverBlocks
  StoreQuietWhenClosed
  DrainedRunsHoldNothing
PROPERTIES
  ImplementsSingleFlight
  SignalEndsDaemon
  ClaimIsReturned
CHECK_DEADLOCK FALSE
