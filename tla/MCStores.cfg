CONSTANTS
  d1 = d1
  d2 = d2
  d3 = d3
  None = None
  Keys = {k1}
  InlineKeys = {k0}
  Callers = {c1, c2}
  StoreFaults = {"put", "open", "copy", "path", "crash"}
  MaxCalls = 3
  MaxMoves = 1
  MaxFaults = 1
  Deals = {d1, d2, d3}
  PieceSize <- MCPieceSize
  StartEpoch <- MCStartEpoch
  EndEpoch <- MCEndEpoch
  Price <- MCPrice
  Sectors = {1, 2}
  SectorSize = 8
  MaxBit = 3
  Specs <- MCSpecs
  DealEditors = {e1}
  Backends = {"badger", "mysql"}
  MaxRequests = 2
  MaxEdits = 1
  MaxSaveErrors = 1
  Stores = {far, s3}
  FsStores = {far}
  ReadOnlyStores = {}
  FarStores = {far}
  Payload = 3
  PieceLen = 4
  Buffers = {2}
  Savers = {s1}
  Loaders = {l1, l2}
  PieceFaults = {"save", "open", "crash", "remove", "register"}
  MaxPieceFaults = 1
  MaxLoads = 2
SPECIFICATION MCSpec
INVARIANTS PackedOnce SectorFilled 
PROPERTIES ImplementsAbstractStore CallsReturn
CHECK_DEADLOCK FALSE
