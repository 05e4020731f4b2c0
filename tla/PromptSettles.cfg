SPECIFICATION FairSpec
CONSTANTS
  Sets = {"default", "other"}
  Default = "default"
  Texts = {t1, t2}
  Bundled = t1
  NoText = NoText
  NoSet = NoSet
  Operators = {o1, o2}
  Loop = Loop
  MaxRequests = 2
  MaxFlips = 2
  MaxFaults = 1
INVARIANTS TypeOK
PROPERTIES DesiredGoesLive  
