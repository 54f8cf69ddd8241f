SPECIFICATION Spec
CONSTANTS
  Slaves = {"s1"}
  Addresses = {"wide", "narrow"}
  NarrowAddresses = {"narrow"}
  Answers = {{}, {0}}
  Buses = {0}
  MaxUnits = 2
  Reads <- MixedReads
  QueueLength = 2
  Commands <- NoCommands
  MaxCommands = 0
  MinDrops = TRUE
  PicoResets = TRUE
INVARIANTS
  TypeOK
  EspFollows
