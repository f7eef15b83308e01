SPECIFICATION FairSpec
CONSTANTS
  Names = {"t1"}
  Channels = {"c1"}
  Handlers = {"h1", "h2"}
  Deleters = {"h1"}
  MaxGen = 2
  MaxRequests = 4
  MaxKills = 1
  MaxFails = 1
INVARIANTS TypeOK QuietFileExact PauseUndoneOnlyByFailedWrite OldGoneFirst
PROPERTY RequestsReturn ChannelReachesFile
CHECK_DEADLOCK FALSE
