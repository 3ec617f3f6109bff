CONSTANTS
  Retry = TRUE
  InitDelay = 2
  MaxDelay = 5
  Answers = {"ok", "refused", "self"}
  MaxCalls = 4
SPECIFICATION FairSpec
CHECK_DEADLOCK FALSE
INVARIANTS SocketsAccounted OneConnectIsSafe StopEndsAttempts
PROPERTY ConnectIsAnswered
