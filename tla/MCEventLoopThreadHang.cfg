SPECIFICATION FairSpec
CONSTANTS
  QuitsItself = FALSE
  MaxPending = 2
PROPERTY DestructorReturns
