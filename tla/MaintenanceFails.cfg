SPECIFICATION FairSpec
CONSTANTS
  Profiles <- OneTunnel
  Hour = 3
  Confirmations = 2
  MaxRestarts = 2
  Cooldown = 1
  MaxCooldown = 2
  Stable = 1
  Tolerance = 1
  MaxBack = 2
  MaxFaults = 1
  a = a
  b = b
  c = c
  None = None
  Gen = {a, b, c}
  Old = a
  PolicyOf <- PolicyOfGen
  Faults = {"start"}
  Work = {"deployment"}
PROPERTY FailureRestores
CHECK_DEADLOCK FALSE
