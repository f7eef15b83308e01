SPECIFICATION Spec
CONSTANTS
  Msgs = {m1, m2}
  Clients = {c1}
  NoObj = NoObj
  NoClient = NoClient
  MemQueueSize = 0
  MaxChannelConsumers = 0
  MaxRdyCount = 2
  MaxDecodes = 2
  MaxReturns = 0
  Commands = {"FIN"}
  Ephemeral = FALSE
  EphemeralTopic = FALSE
  Deferring = FALSE
  Sampling = FALSE
  SendFails = FALSE
  BackendFails = FALSE
  CorruptRecords = FALSE
  Emptying = FALSE
  Pausing = FALSE
  ExitModes = {}
SYMMETRY Symmetry
INVARIANTS TimeoutCovered
