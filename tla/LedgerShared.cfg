SPECIFICATION Spec
CONSTANTS
  s1 = s1
  s2 = s2
  j1 = j1
  j2 = j2
  j3 = j3
  j4 = j4
  x = x
  y = y
  None = None
  Store = {s1, s2}
  Job = {j1, j2}
  Hash = {x, y}
  MaxConcurrent = 1
  MaxStoredJobs = 2
  MaxStoredOutputs = 2
  Cancellable = {j1, j2}
  StoresCrash = TRUE
  PromptWorkers = FALSE
SYMMETRY Symmetry
INVARIANT OutcomeHasOutput
PROPERTIES EarlyCancelPrevents KeepsOnce
CHECK_DEADLOCK FALSE
