SPECIFICATION FairSpec
CONSTANTS
  Cams = {cam1}
  Loops = {agent}
  Operators = {r1, r2}
  MaxUuid = 6
  MaxRequests = 3
  MaxFaults = 1
  Tombstones = TRUE
  NewestLast = TRUE
PROPERTIES RegistersNew RestartsReturn
