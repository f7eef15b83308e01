SPECIFICATION Spec
CONSTANTS
  NMsgs = 2
  Names = {n1, n2}
  MaxChans = 3
  Publishers = {p1}
  Callers = {c1, c2}
  MaxCalls = 3
  Calls = {"get", "delete", "pause", "empty"}
  MemQueueSize = 1
  BackendFails = TRUE
  ExitModes = {"close", "delete"}
SYMMETRY Symmetry
INVARIANTS TypeOK PumpSeesMap NoMissedChannel DeferralKept CountIsAccepted Accounted DeleteLeavesNothing
PROPERTY LostOnlyUnderDelete
