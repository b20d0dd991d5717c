\* Two acted steps and the evaluation of the third, on a site of three looks that changes once by itself.
SPECIFICATION Spec
CONSTANTS
  cta = cta  close = close  home = home  offers = offers  options = options
  AllowedActions = {"click", "navigate", "go_back", "wait", "fill_form", "stop_success", "stop_blocked"}
  Controls = {cta, close}
  ConsentPolicy = "reject_optional"
  Intents = {"grants_optional_consent", "not_consent_related"}
  ModelRetries = 1
  None = None
  Criteria <- MCCriteria
  Looks <- MCLooks
  InDomain = {home, offers}
  Closable = {close}
  MayClose = FALSE
  MaxRounds = 3
  MaxSteps = 2
  MaxMoves = 1
INVARIANTS EvidenceMatchesMilestones CreditFollowsAVerifiedClick VerdictsAreFresh NothingSentAfterCorrection
PROPERTIES MilestonesInOrder
CHECK_DEADLOCK FALSE
