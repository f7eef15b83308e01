SPECIFICATION Spec
CONSTANTS
  Msgs = {m1, m2}
  Clients = {c1}
  NoObj = NoObj
  NoClient = NoClient
  MemQueueSize = 2
  MaxChannelConsumers = 0
  MaxRdyCount = 1
  MaxDecodes = 0
  MaxReturns = 1
  Commands = {"FIN", "REQ", "DEFER", "TOUCH", "CLS"}
  Ephemeral = FALSE
  EphemeralTopic = FALSE
  Deferring = FALSE
  Sampling = FALSE
  SendFails = FALSE
  BackendFails = FALSE
  CorruptRecords = FALSE
  Emptying = FALSE
  Pausing = TRUE
  ExitModes = {}
SYMMETRY Symmetry
INVARIANTS TypeOK ExactlyOnePlace RemovesOwnEntry TimeoutCovered CountExact NoLostWakeup RdyRespected
