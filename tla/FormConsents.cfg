SPECIFICATION Spec
CONSTANTS
  phone = phone  model = model  zip = zip  offers = offers  processing = processing
  Fields = {zip, model}
  Required = {zip, model}
  Dealer = {zip}
  Phones = {}
  Selects = {model}
  LivelyFields = {}
  LivelyGroups = {offers}
  MaxRetries = 1
  MaxSubmitAttempts = 2
  MaxPolls = 1
  MaxGateAttempts = 0
  FallbackFlag = TRUE
  BaseWindow = 0
  Extension = 1
  HardCap = 0
  ChallengeGap = 0
  RequestKinds <- LeadOnly
  Statuses = {422}
  MaxRequests = 0
  MaxSignals = 1
  Groups = {offers, processing}
  Purpose <- TwoPurposes
  Recognised <- BothWays
  MarkedRequired = {processing}
  Reaches = {"actionable", "obscured", "absent"}
  MaxRescans = 1
  MaxRereads = 1
INVARIANTS OptionalConsentGuarded
PROPERTIES Terminates
