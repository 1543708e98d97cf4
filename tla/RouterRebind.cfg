SPECIFICATION Spec
CONSTANTS
  a = a
  b = b
  c = c
  r1 = r1
  r2 = r2
  r3 = r3
  k = k
  None = None
  c1 = c1
  c2 = c2
  Gen = {a, b, c}
  Request = {r1}
  Launcher = {r1}
  Controller = {c1}
  Key = {k}
  KeyOf <- SharedKey
  Boot <- BootThree
  MaxAdmitted = 1
  MaxGenerations = 3
  MaxInc = 1
  MaxEpoch = 2
  BlindReadback = FALSE
INVARIANT MismatchMeansRestarted
CHECK_DEADLOCK FALSE
