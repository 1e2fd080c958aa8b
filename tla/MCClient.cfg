CONSTANTS
  None = None
  Missing = Missing
  EmptyAddr = EmptyAddr
  m1 = m1
  m2 = m2
  p1 = p1
  p2 = p2
  r1 = r1
  r2 = r2
  k1 = k1
  k2 = k2
  stranger = stranger
  worker1 = worker1
  worker2 = worker2
  SectorNumbers = {1, 2}
  Confidence = 2
  StartEpoch = 4
  EndEpoch = 6
  MaxHeight = 8
  MaxReorgs = 1
  MaxMessages = 3
  MaxStateErrors = 1
  StoredDeals = {1, 2, 3}
  Provider <- MCProvider
  PieceCID <- MCPieceCID
  Root <- MCRoot
  Label <- MCLabel
  Peerless = {3}
  Miners = {m1, m2}
  Pieces = {p1, p2}
  Payloads = {r1, r2}
  Cids = {c1}
  Addrs = {a1}
  MaxChannels = 2
  Roots = {r1}
  Importers = {i1}
  DealMakers = {u1, u2}
  ImportKinds = {"car", "file", "local", "gencar"}
  MaxImports = 2
  MaxReads = 3
  MaxImportFaults = 1
  RetrievalIds = {1}
  UnsubscribeWaits = FALSE
  Waiting = {w1, w2}
  Listener = listener
  Finals = {"Completed", "Cancelled"}
  MaxEvents = 2
  MaxWaits = 2
  Owner = owner
  WorkerAddrs = {worker1, worker2}
  Controls = {k1, k2}
  Multisigs = {owner}
  Miner = m1
  Configured <- MCConfigured
  DisableWorkerFallback = FALSE
  ConfigUsers <- MCConfigUsers
  AuthUsers <- MCAuthUsers
  PageLimit = 1
  Goods = {0, 1}
  MaxFunds = 1
  Sendings = {s1, s2}
  Deep = 1
  MaxPooled = 1
  MaxRefreshes = 1
  MaxMsgFaults = 1
  MaxChainChanges = 1
SPECIFICATION MCSpec
INVARIANTS   ImportServed 
PROPERTIES WaitsEnd
CHECK_DEADLOCK FALSE
