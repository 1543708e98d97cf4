SPECIFICATION Spec
CONSTANTS
  Request = {r1, r2, r3, r4, r5}
  MaxConcurrent = 3
  ReservedControlSlots = 1
  ShellMaxConcurrent = 2
  ReservedInteractiveShellSlots = 1
  RemoteShellMaxConcurrent = 1
  MaxQueue = 2
SYMMETRY Symmetry
INVARIANTS CountersExact LimitsHold NoStartableWaiter
PROPERTIES NoOvertaking ControlFirst SettledIsFinal KeepsPromise
CHECK_DEADLOCK FALSE
