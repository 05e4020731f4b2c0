SPECIFICATION FairSpec
CONSTANTS
  Cams = {cam1}
  Loops = {agent}
  Operators = {r1}
  MaxUuid = 3
  MaxRequests = 3
  MaxFaults = 0
  Tombstones = TRUE
  NewestLast = TRUE
PROPERTIES WantedStaysOnline
