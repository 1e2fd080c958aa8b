CONSTANTS
  s1 = s1 s2 = s2 c1 = c1 i1 = i1 i2 = i2 a1 = a1 a2 = a2
  Streams = {s1, s2}
  Channels = {c1}
  Imports = {i1}
  Assigners = {a1, a2}
  Boot = Boot
  Tracker = Tracker
  Kinds = {"online", "offline", "published"}
  Races = {}
  Fails = {"reject", "send", "data", "reserve", "addmsg", "publish", "wait", "file", "release", "save"}
  MaxCrash = 2
  MaxPubs = 3
  NoDeal = NoDeal
  None = None
SPECIFICATION FairSpec
INVARIANTS
  TypeOK
  CollateralAccounted
  
  PublishedOnce
  
  StateFollowsChain
  
PROPERTIES
  NeverBack
  DealResolved
CHECK_DEADLOCK FALSE
