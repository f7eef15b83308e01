SPECIFICATION Spec
CONSTANTS
  Msgs = {m1}
  Clients = {c1}
  NoObj = NoObj
  NoClient = NoClient
  MemQueueSize = 1
  MaxChannelConsumers = 0
  MaxRdyCount = 2
  MaxDecodes = 1
  MaxReturns = 1
  Commands = {"FIN", "REQ", "DEFER"}
  Ephemeral = FALSE
  EphemeralTopic = FALSE
  Deferring = TRUE
  Sampling = TRUE
  SendFails = TRUE
  BackendFails = FALSE
  CorruptRecords = TRUE
  Emptying = TRUE
  Pausing = FALSE
  ExitModes = {"close", "delete"}
INVARIANTS ExactlyOnePlace QuietCloseKeepsAll
CHECK_DEADLOCK FALSE
