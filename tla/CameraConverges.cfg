SPECIFICATION FairSpec
CONSTANTS
  Cams = {cam1}
  Loops = {agent}
  Operators = {r1, r2}
  MaxUuid = 6
  MaxRequests = 3
  MaxFaults = 1
  Tombstones = FALSE
  NewestLast = TRUE
INVARIANTS TypeOK
PROPERTIES NoForeignRemoval WantedStaysOnline OffStaysOffline WantedRecords
