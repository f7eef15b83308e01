SPECIFICATION Spec
CONSTANTS
  Msgs = {m1}
  Clients = {c1, c2}
  NoObj = NoObj
  NoClient = NoClient
  MemQueueSize = 0
  MaxChannelConsumers = 1
  MaxRdyCount = 1
  MaxDecodes = 0
  MaxReturns = 0
  Commands = {}
  Ephemeral = TRUE
  EphemeralTopic = TRUE
  Deferring = FALSE
  Sampling = FALSE
  SendFails = FALSE
  BackendFails = FALSE
  CorruptRecords = FALSE
  Emptying = FALSE
  Pausing = FALSE
  ExitModes = {}
SYMMETRY Symmetry
INVARIANTS NoOrphanSubscriber
CHECK_DEADLOCK FALSE
