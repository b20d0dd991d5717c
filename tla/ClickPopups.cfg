\* One click or two and up to two popups, in the kinds of run of MCTasks.
SPECIFICATION Spec
CONSTANTS
  w1 = w1
  w2 = w2
  main = main
  NoPage = NoPage
  Main = main
  Popups = {w1, w2}
  Tasks <- MCTasks
  Addresses = {"own", "foreign"}
  MaxAdopted = 1
  ExtendTrust = FALSE
  AcceptConsent = TRUE
  Resolver = TRUE
  Cap = 2
INVARIANTS ListenersMatchUse RequestsAccounted NoTagMeansNothingArrived
PROPERTIES ClicksReturn
CHECK_DEADLOCK FALSE
