CONSTANTS
  s1 = s1 s2 = s2 c1 = c1 i1 = i1 i2 = i2 a1 = a1 a2 = a2
  Streams = {s1}
  Channels = {c1}
  Imports = {i1, i2}
  Assigners = {a1}
  Boot = Boot
  Tracker = Tracker
  Kinds = {"offline"}
  Races = {"import"}
  Fails = {}
  MaxCrash = 0
  MaxPubs = 2
  NoDeal = NoDeal
  None = None
SPECIFICATION FairSpec
PROPERTY ImportKeepsPublished
CHECK_DEADLOCK FALSE
