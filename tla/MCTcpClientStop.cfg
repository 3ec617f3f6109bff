CONSTANTS
  Retry = TRUE
  InitDelay = 2
  MaxDelay = 5
  Answers = {"ok", "refused"}
  MaxCalls = 2
SPECIFICATION Spec
CHECK_DEADLOCK FALSE
INVARIANT StopIsFinal
