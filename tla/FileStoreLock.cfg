SPECIFICATION FairSpec
CONSTANTS
  console = console
  agent = agent
  edit = edit
  fill = fill
  seed = seed
  Pods <- TwoPods
  Calls <- ThreeCalls
  PodOf <- MadeIn3
  Fills = {fill}
  Entries = {edit, fill, seed}
  PidOf <- SamePid
  StaleAge = 2
  WaitLimit = 1
  MaxCrashes = 1
  Faults = {"open", "stamp", "read", "write", "release", "reclaim"}
  PromptHolder = TRUE
  PromptReclaim = TRUE
CHECK_DEADLOCK FALSE
INVARIANTS TypeOK MutualExclusion NoLostUpdate FailedMeansAbsent
PROPERTIES FillOnlyIntoEmpty AtomicSpec EveryCallSettles
