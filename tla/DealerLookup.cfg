\* A lookup on four kinds of widget, with one request and up to three results.
SPECIFICATION Spec
CONSTANTS
  town = town  dealer = dealer  other = other  card = card  portal = portal  q1 = q1
  Results = {town, dealer, other, card, portal}
  Choices = {town, dealer, other, portal}
  InScope = {town, dealer, other, card}
  Lookups = {q1}
  Widgets <- MCWidgets
  StaleRefinds = 1
  FollowUps = 1
  MaxRetries = 2
  None = None
INVARIANTS SelectionsAdvance RepollsOnlyUntouched PopulatedByThisCall
PROPERTIES LookupReturns
CHECK_DEADLOCK FALSE
