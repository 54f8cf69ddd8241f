SPECIFICATION FairSpec
CONSTANTS
  PacketSize = 3
  FifoDepth = 2
  QueueLength = 2
  Delay = 3
  TickRange = 10
  MaxLate = 1
  MaxUniverses = 4
INVARIANTS
  TypeOK
  OneUniverse
  NoSlotCut
  MissedAtWrapOnly
PROPERTIES
  Paced
  LastIsShown
CHECK_DEADLOCK FALSE
