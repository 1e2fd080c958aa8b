CONSTANTS
  r1 = r1
  r2 = r2
  o1 = o1
  o2 = o2
  o3 = o3
  Reqs = {r1, r2}
  Amt <- MCAmt
  MaxMsgs = 3
  MaxFundsCrash = 1
  StoreHonoursCtx = TRUE
  NodeFails = {"wait", "exec"}
  Ops = {o1, o2, o3}
  Settler = Settler
  Dirs = {"in", "out"}
  Lanes = {0, 1}
  Nonces = {1, 2}
  Amounts = {1, 2}
  MinDeltas = {1}
  Balance = 3
  MaxVCrash = 1
  Price = 1
  UnsealPrice = 1
  Interval = 2
  Increase = 0
  Size = 4
  Queued = 1
  MaxResend = 1
  RFails = {"load", "save", "transfer", "cancel"}
SPECIFICATION MCSpec
INVARIANTS
  ChargedOnce
  ConfirmedIsOnChain
  
  VouchersCovered
  SettlerRedeems
  BoundedExposure
  FundsCounted
PROPERTIES
  RequestsAnswered
  RetrievalFinishes
CHECK_DEADLOCK FALSE
