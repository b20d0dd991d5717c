SPECIFICATION Spec
SYMMETRY Symmetry
CONSTANTS
  Runs = {r1, r2, r3}
  MaxConcurrent = 2
  Backend = "memory"
  BreakerEnabled = TRUE
  StaleThreshold = 2
  Ttl = 3
  HeartbeatInterval = 1
  MaxLate = 1
  AgeCap = 4
  MaxPending = 0
  MaxFaults = 0
  MaxProcesses = 2
INVARIANTS
  NoFalseStale
PROPERTIES
  CompletionRecorded ImplementsRunStatus
