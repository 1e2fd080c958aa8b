CONSTANTS
  r1 = r1 r2 = r2 f1 = f1 w1 = w1 w2 = w2 A = A B = B
  Reservations = {r1, r2}
  Releases = {f1}
  Withdrawals = {w1}
  RPC = {r1, w1}
  Wallets = {A, B}
  Wallet <- MCWallet
  Amt <- MCAmt
  InitAvail = 2
  MaxMsgs = 4
  MaxCrash = 1
  StoreHonoursCtx = FALSE
  PushFails = {"add"}
  ChainFails = {"add"}
  QueryFails = TRUE
  WaitFails = TRUE
  MayStop = FALSE
  ExtLocks = {}
  None = None
  Bg = Bg
SPECIFICATION Spec
INVARIANTS
  TypeOK
  ReservedCoversGranted
  CallersAreCovered
  OneMessageInFlight
  ReservedIsBacked
CHECK_DEADLOCK FALSE
