SPECIFICATION FairSpec
CONSTANTS
  Runs = {r1, r2}
  MaxConcurrent = 1
  Backend = "redis"
  BreakerEnabled = TRUE
  StaleThreshold = 1
  Ttl = 2
  HeartbeatInterval = 1
  MaxLate = 0
  AgeCap = 3
  MaxPending = 1
  MaxFaults = 1
  MaxProcesses = 2
INVARIANTS
  SlotAccounting ConcurrencyBounded WorkerLostMeansOwnerGone
PROPERTIES
  SlotReturned LostRunReported
