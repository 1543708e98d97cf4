SPECIFICATION CommandSpec
CONSTANTS
  Request = {r1, r2, r3}
  MaxConcurrent = 2
  ReservedControlSlots = 1
  ShellMaxConcurrent = 1
  ReservedInteractiveShellSlots = 0
  RemoteShellMaxConcurrent = 1
  MaxQueue = 2
PROPERTIES EveryWaitEnds
CHECK_DEADLOCK FALSE
