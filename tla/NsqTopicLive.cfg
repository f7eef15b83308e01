SPECIFICATION FairSpec
CONSTANTS
  NMsgs = 1
  Names = {n1}
  MaxChans = 2
  Publishers = {p1}
  Callers = {c1, c2}
  MaxCalls = 3
  Calls = {"get", "delete", "pause"}
  MemQueueSize = 1
  BackendFails = FALSE
  ExitModes = {"close"}
PROPERTY CallsReturn Drains
CHECK_DEADLOCK FALSE
