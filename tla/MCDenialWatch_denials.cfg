SPECIFICATION WatchSpec
CONSTANTS
  Workers = {w1}
  Requests <- WatchRequests
  Halts <- WatchHalts
  MaxApprovals = 1
  Window = 1
  MaxClock = 1
  MaxDecisions = 3
  DenialThreshold = 2
  DenialWindow = 0
  CanaryVendor = "canary"
  MaxRestarts = 1
INVARIANTS
  WatchTypeOK
  HaltsJustified
PROPERTIES
  RepeatedDenialsPaused
  CanaryTrips
