SPECIFICATION FairSpec
CONSTANTS
  Profiles <- OneTunnel
  Hour = 3
  Confirmations = 2
  MaxRestarts = 2
  Cooldown = 1
  MaxCooldown = 2
  Stable = 1
  Tolerance = 1
  MaxBack = 2
  MaxFaults = 1
  a = a
  b = b
  c = c
  None = None
  Gen = {a, b, c}
  Old = a
  PolicyOf <- PolicyOfGen
  Faults = {"kill", "call", "drain", "start", "write"}
  Work = {"recovery", "deployment"}
INVARIANTS BudgetRespected IncidentsSettle ExposedIsKept
PROPERTIES KeepsTrying PolicyHolds
CHECK_DEADLOCK FALSE
