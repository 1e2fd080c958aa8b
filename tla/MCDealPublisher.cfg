CONSTANTS
  d1 = d1 d2 = d2 d3 = d3
  Deals = {d1, d2, d3}
  MaxDealsPerMsg = 2
  Batching = TRUE
  MaxForce = 1
  MayCancel = {d1, d2}
  MayExpire = {d3}
  NodeFails = TRUE
  NoTimer = NoTimer
SPECIFICATION FairSpec
INVARIANTS
  TypeOK
  MessageWithinLimit
  PublishedOnce
  ResultMatchesMessage
  OneTimerArmed
PROPERTY TimerServesQueue
CHECK_DEADLOCK FALSE
