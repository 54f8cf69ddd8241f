SPECIFICATION Spec
CONSTANTS
  Buses = {b1, b2, b3}
  CountPioUarts = 5
  StateMachines = {0, 1, 2, 3}
  ProgramMemory = 32
  ProgramSize <- RealSizes
  StartDelay = 2
  InitTime = 1
  MaxTicks = 3
  None = None
INVARIANTS
  TypeOK
  NoGaps
  ServedUnlessShared
  NeverPanics
  UnreadyIfTooLate
SYMMETRY AllAlike
CHECK_DEADLOCK FALSE
