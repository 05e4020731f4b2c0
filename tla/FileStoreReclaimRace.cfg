SPECIFICATION Spec
CONSTANTS
  console = console
  agent = agent
  edit = edit
  fill = fill
  seed = seed
  Pods <- TwoPods
  Calls <- ThreeCalls
  PodOf <- MadeIn3
  Fills = {fill}
  Entries = {edit, fill, seed}
  PidOf <- SamePid
  StaleAge = 3
  WaitLimit = 1
  MaxCrashes = 1
  Faults = {}
  PromptHolder = TRUE
  PromptReclaim = FALSE
CHECK_DEADLOCK FALSE
INVARIANT NoLostUpdate
