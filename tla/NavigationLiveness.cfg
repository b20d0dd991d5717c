SPECIFICATION FairSpec
CONSTANTS
  p1 = p1  p2 = p2  c1 = c1  c2 = c2  o1 = o1  o2 = o2
  Pages = {p1}
  Candidates = {c1}
  FormControls = {}
  Obstructions = {o1}
  NumCriteria = 1
  AllowedActions = {"click", "go_back", "wait", "stop_success"}
  MaxSteps = 3
  MaxBacktracks = 1
  AlternativeBudget = 1
  MaxStaleRetries = 1
  MaxReplans = 1
  MaxRestoreHops = 2
  PerAnchorHops = 1
  MaxConsentRetries = 1
  CandidateBudget = 1
  MaxBranchDepth = 1
  Ambiguous = {}
  TimeLimited = TRUE
  MaxSurfaces = 2
INVARIANTS
  SurfacesNested
PROPERTY Terminates
