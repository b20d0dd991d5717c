SPECIFICATION Spec
CONSTANTS
  p1 = p1  p2 = p2  c1 = c1  c2 = c2  o1 = o1  o2 = o2
  Pages = {p1, p2}
  Candidates = {c1}
  FormControls = {c1}
  Obstructions = {}
  NumCriteria = 2
  AllowedActions = {"click", "fill_form", "go_back", "stop_success"}
  MaxSteps = 5
  MaxBacktracks = 2
  AlternativeBudget = 1
  MaxStaleRetries = 0
  MaxReplans = 1
  MaxRestoreHops = 2
  PerAnchorHops = 1
  MaxConsentRetries = 0
  CandidateBudget = 1
  MaxBranchDepth = 2
  Ambiguous = {p1}
  TimeLimited = FALSE
  MaxSurfaces = 0
SYMMETRY Interchangeable
INVARIANTS
  BudgetsRespected
  OnlyVerifiedPosition
  SubmissionGuarded
PROPERTY ImplementsTaskRun
