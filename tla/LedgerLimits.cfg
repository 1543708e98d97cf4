SPECIFICATION FairSpec
CONSTANTS
  s1 = s1
  s2 = s2
  j1 = j1
  j2 = j2
  j3 = j3
  j4 = j4
  x = x
  y = y
  None = None
  Store = {s1}
  Job = {j1, j2, j3}
  Hash = {x}
  MaxConcurrent = 1
  MaxStoredJobs = 3
  MaxStoredOutputs = 2
  Cancellable = {}
  StoresCrash = FALSE
  PromptWorkers = TRUE
INVARIANT LimitsHold
PROPERTY EveryJobDecided
CHECK_DEADLOCK FALSE
