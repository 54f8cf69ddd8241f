SPECIFICATION Spec
CONSTANTS
  Count = 1
  BufferSize = 2
  FifoDepth = 1
  FrameSizes = {1, 2}
  MaxBytes <- One
INVARIANT TxDoneMeansSent
CHECK_DEADLOCK FALSE
