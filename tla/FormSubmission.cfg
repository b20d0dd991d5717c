SPECIFICATION Spec
CONSTANTS
  phone = phone  model = model  zip = zip  offers = offers  processing = processing
  Fields = {phone}
  Required = {phone}
  Dealer = {}
  Phones = {phone}
  Selects = {}
  LivelyFields = {phone}
  LivelyGroups = {}
  MaxRetries = 2
  MaxSubmitAttempts = 2
  MaxPolls = 1
  MaxGateAttempts = 1
  FallbackFlag = TRUE
  BaseWindow = 1
  Extension = 2
  HardCap = 2
  ChallengeGap = 1
  RequestKinds <- LeadOnly
  Statuses = {200, 422}
  MaxRequests = 2
  MaxSignals = 1
  Groups = {offers}
  Purpose <- OnePurpose
  Recognised <- BothWays
  MarkedRequired = {}
  Reaches = {"actionable"}
  MaxRescans = 0
  MaxRereads = 0
INVARIANTS UndecidedOnlyWhenSpent ClickBudget OutcomeAgreesWithEvidence FallbackJustified
PROPERTIES SecondClickAfterRefusal
