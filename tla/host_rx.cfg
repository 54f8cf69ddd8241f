SPECIFICATION FairSpec
CONSTANTS
  Count = 1
  BufferSize = 1
  FifoDepth = 1
  MaxBytes = 3
INVARIANTS
  TypeOK
PROPERTIES
  ActivityShown
  LossReported
