SPECIFICATION Spec
CONSTANTS
  Names = {"t1"}
  Channels = {"c1"}
  Handlers = {"h1", "h2"}
  Deleters = {"h1", "h2"}
  MaxGen = 2
  MaxRequests = 3
  MaxKills = 0
  MaxFails = 0
INVARIANT OldGoneFirst
CHECK_DEADLOCK FALSE
