SPECIFICATION Spec
CONSTANTS
  Slaves = {1, 247}
  Addresses = {7, 2056, 4104}
  Words <- EveryByte
  Flips = {1, 128}
  Garbage = {255}
CHECK_DEADLOCK FALSE
INVARIANTS
  TypeOK
  RequestUnderstood
  AnswerUnderstood
  DamagedNeverTaken
