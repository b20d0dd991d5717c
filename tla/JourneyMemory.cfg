SPECIFICATION Spec
CONSTANTS
  r1 = r1
  r2 = r2
  r3 = r3
  m1 = m1
  NoMarket = NoMarket
  Runs = {r1, r2, r3}
  DomainOf <- OneDomain
  MarketOf <- OneMarket
  Readers = {r3}
  Writers = {r1, r2, r3}
  Forward = {step}
  Recovery = {route}
  MaxSegments = 1
  MaxRecords = 2
  Sufficient = 2
  ScanLimit = 1
  FailureThreshold = 2
  MaxBuilt = 3
  MaxMishaps = 1
INVARIANTS EvidenceKept DecayJustified LookupComplete
PROPERTIES CapRestored
SYMMETRY Symmetry
