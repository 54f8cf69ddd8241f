SPECIFICATION Spec
CONSTANTS
  Buses = {b1, b2, b3, b4}
  CountPioUarts = 5
  StateMachines = {0, 1, 2, 3}
  ProgramMemory = 32
  ProgramSize <- RealSizes
  StartDelay = 2
  InitTime = 1
  MaxTicks = 0
  None = None
INVARIANTS
  StateMachineForEach
SYMMETRY AllAlike
CHECK_DEADLOCK FALSE
