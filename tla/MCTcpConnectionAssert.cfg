CONSTANTS
  Size = 1
  MaxFunctors = 1
  UserCalls = {"shutdown"}
  ReplyCalls = {}
  MaxSends <- MCMaxSends
SPECIFICATION Spec
CHECK_DEADLOCK FALSE
INVARIANT AssertionsHold
