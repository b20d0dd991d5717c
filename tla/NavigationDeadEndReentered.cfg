SPECIFICATION Spec
CONSTANTS
  p1 = p1  p2 = p2  c1 = c1  c2 = c2  o1 = o1  o2 = o2
  Pages = {p1, p2}
  Candidates = {c1}
  FormControls = {}
  Obstructions = {}
  NumCriteria = 1
  AllowedActions = {"click", "go_back", "stop_blocked"}
  MaxSteps = 7
  MaxBacktracks = 3
  AlternativeBudget = 1
  MaxStaleRetries = 0
  MaxReplans = 0
  MaxRestoreHops = 0
  PerAnchorHops = 0
  MaxConsentRetries = 0
  CandidateBudget = 2
  MaxBranchDepth = 2
  Ambiguous = {p1}
  TimeLimited = FALSE
  MaxSurfaces = 2
PROPERTY DeadEndNotReentered
