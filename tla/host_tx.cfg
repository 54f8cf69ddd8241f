SPECIFICATION FairSpec
CONSTANTS
  Frames <- ShortAndLong
  BufferSize = 4
  FifoDepth = 2
  MaxBytes = 9
INVARIANTS
  TypeOK
  WaitsForExcessOnly
  TxDoneTellsBuffer
PROPERTIES
  ImplementsLine
  EveryByteLeaves
  HostReturns
CHECK_DEADLOCK FALSE
