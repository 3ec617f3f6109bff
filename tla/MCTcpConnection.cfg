CONSTANTS
  Size = 2
  MaxFunctors = 1
  UserCalls = {"send", "shutdown", "forceClose", "delayedClose", "stopRead"}
  ReplyCalls = {"send", "startRead"}
  MaxSends <- MCMaxSends
SPECIFICATION FairSpec
CHECK_DEADLOCK FALSE
INVARIANTS StreamInOrder OutputWatched CallbacksPaired RemovedBeforeFreed
PROPERTIES ShutdownOnlyWhenDrained ShutdownCompletes ClosesForGood
