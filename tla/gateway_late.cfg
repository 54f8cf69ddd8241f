SPECIFICATION Spec
CONSTANTS
  Slaves = {"s1", "s2"}
  Addresses = {"wide"}
  NarrowAddresses = {}
  Answers = {{}, {0}}
  Buses = {0}
  MaxUnits = 2
  Reads <- RegisterReads
  QueueLength = 1
  Commands <- NoCommands
  MaxCommands = 0
  MinDrops = FALSE
  PicoResets = FALSE
INVARIANT AnswerOfItsSlave
