SPECIFICATION FairSpec
CONSTANTS
  Count = 2
  BufferSize = 1
  FifoDepth = 1
  MaxBytes <- FirstMore
INVARIANTS
  TypeOK
PROPERTIES
  FreshAfterFlush
  ReadsInOrder
  LossReported
CHECK_DEADLOCK FALSE
