SPECIFICATION FairSpec
CONSTANTS
  Count = 2
  BufferSize = 2
  FifoDepth = 1
  FrameSizes = {1, 2}
  MaxBytes <- FirstMore
INVARIANTS
  TypeOK
  NotStranded
PROPERTIES
  ImplementsLine
  EveryByteLeaves
  WritersReturn
CHECK_DEADLOCK FALSE
