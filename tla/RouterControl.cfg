SPECIFICATION Spec
CONSTANTS
  a = a
  b = b
  c = c
  r1 = r1
  r2 = r2
  r3 = r3
  k = k
  None = None
  c1 = c1
  c2 = c2
  Gen = {a, b}
  Request = {r1}
  Launcher = {r1}
  Controller = {c1, c2}
  Key = {k}
  KeyOf <- SharedKey
  Boot <- BootRunning
  MaxAdmitted = 2
  MaxGenerations = 2
  MaxInc = 1
  MaxEpoch = 2
  BlindReadback = TRUE
INVARIANTS RoutesAsOnDisk RequestsHonest
PROPERTIES AcknowledgedHolds NoLostUpdate
CHECK_DEADLOCK FALSE
SYMMETRY Symmetry
