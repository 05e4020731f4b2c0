SPECIFICATION Spec
CONSTANTS
  Sets = {"default", "other"}
  Default = "default"
  Texts = {t1, t2}
  Bundled = t1
  NoText = NoText
  NoSet = NoSet
  Operators = {o1}
  Loop = Loop
  MaxRequests = 3
  MaxFlips = 0
  MaxFaults = 0
INVARIANTS GraphsAsSaved
