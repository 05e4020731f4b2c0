SPECIFICATION FairSpec
CONSTANTS
  Rules = {rulesA, rulesB}
  Cooldowns = {0, 1}
  Requests = {r1}
  Loops = {l1, l2}
  NoPayload = NoPayload
  MaxSaves = 2
  MaxFaults = 1
PROPERTIES WorkerRunsLive
