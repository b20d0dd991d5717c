SPECIFICATION Spec
CONSTANTS
  Runs = {r1, r2}
  MaxConcurrent = 1
  Backend = "redis"
  BreakerEnabled = FALSE
  StaleThreshold = 1
  Ttl = 2
  HeartbeatInterval = 1
  MaxLate = 0
  AgeCap = 3
  MaxPending = 2
  MaxFaults = 0
  MaxProcesses = 1
PROPERTIES OutcomeIsFinal
