CONSTANTS
  d1 = d1 d2 = d2 d3 = d3
  Deals = {d1, d2}
  MaxDealsPerMsg = 2
  Batching = TRUE
  MaxForce = 0
  MayCancel = {d1}
  MayExpire = {}
  NodeFails = FALSE
  NoTimer = NoTimer
SPECIFICATION FairSpec
PROPERTY EveryDealPublished
CHECK_DEADLOCK FALSE
