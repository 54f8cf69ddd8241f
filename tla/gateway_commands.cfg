SPECIFICATION FairSpec
CONSTANTS
  Slaves = {"s1"}
  Addresses = {"wide"}
  NarrowAddresses = {}
  Answers = {{}}
  Buses = {0}
  MaxUnits = 2
  Reads <- OneRead
  QueueLength = 2
  Commands <- ValidAndInvalidWrite
  MaxCommands = 2
  MinDrops = TRUE
  PicoResets = TRUE
INVARIANTS
  QuietLineAnswersFresh
PROPERTIES
  ImplementsService
  CommandsLeave
  ReadsKeepRunning
  CommandsAnswered
