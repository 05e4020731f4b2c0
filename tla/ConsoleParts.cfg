SPECIFICATION FairPartsSpec
CONSTANTS
  w1 = w1
  w2 = w2
  j1 = j1
  j2 = j2
  j3 = j3
  j4 = j4
  rulesA = rulesA
  rulesB = rulesB
  r1 = r1
  l1 = l1
  c1 = c1
  run1 = run1
  run2 = run2
  NoPayload = NoPayload
  Writers <- MCWriters
  Jobs <- MCJobs
  Rules <- MCRules
  Cooldowns <- MCCooldowns
  Requests <- MCRequests
  Loops <- MCLoops
  Cams <- MCCams
  Runs <- MCRuns
  Ttl = 2
  ReadTimeout = 1
  MaxConcurrent = 2
  MaxSaves = 2
  MaxFaults = 1
  RecoveryGiven <- MCRecovery
INVARIANTS PartsTypeOK NoIdlePlace OverrunIsBounded QuietRun
PROPERTIES PausesInTime ResumesInTime EveryCheckAnswers QueuedRuns StoredGoesLive RestartsSettle StopResumes DeadSensorsDegrade
