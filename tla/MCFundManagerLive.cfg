CONSTANTS
  r1 = r1 r2 = r2 f1 = f1 w1 = w1 w2 = w2 A = A B = B
  Reservations = {r1}
  Releases = {f1}
  Withdrawals = {w1, w2}
  RPC = {r1}
  Wallets = {A, B}
  Wallet <- MCWallet
  Amt <- MCAmt
  InitAvail = 2
  MaxMsgs = 3
  MaxCrash = 0
  StoreHonoursCtx = TRUE
  PushFails = {"withdraw"}
  ChainFails = {}
  QueryFails = FALSE
  WaitFails = FALSE
  MayStop = TRUE
  ExtLocks = {1}
  None = None
  Bg = Bg
SPECIFICATION FairSpec
PROPERTY EveryRequestAnswered
CHECK_DEADLOCK FALSE
