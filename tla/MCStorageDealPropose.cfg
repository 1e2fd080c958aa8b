CONSTANTS
  s1 = s1 s2 = s2 c1 = c1 i1 = i1 i2 = i2 a1 = a1 a2 = a2
  Streams = {s1, s2}
  Channels = {c1}
  Imports = {}
  Assigners = {}
  Boot = Boot
  Tracker = Tracker
  Kinds = {"online"}
  Races = {"overlap"}
  Fails = {}
  MaxCrash = 0
  MaxPubs = 2
  NoDeal = NoDeal
  None = None
SPECIFICATION FairSpec
PROPERTY ProposalKeepsDeal
CHECK_DEADLOCK FALSE
