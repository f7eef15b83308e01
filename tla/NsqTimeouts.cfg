SPECIFICATION FairSpec
CONSTANTS
  Msgs = {m1}
  Clients = {c1}
  NoObj = NoObj
  NoClient = NoClient
  MemQueueSize = 1
  MaxChannelConsumers = 0
  MaxRdyCount = 1
  MaxDecodes = 1
  MaxReturns = 1
  Commands = {"FIN", "REQ", "DEFER"}
  Ephemeral = FALSE
  EphemeralTopic = FALSE
  Deferring = TRUE
  Sampling = FALSE
  SendFails = TRUE
  BackendFails = TRUE
  CorruptRecords = TRUE
  Emptying = FALSE
  Pausing = FALSE
  ExitModes = {}
INVARIANTS ExactlyOnePlace
PROPERTY GoneClientReturns DeferredReturns
