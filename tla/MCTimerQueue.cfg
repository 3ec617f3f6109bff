SPECIFICATION FairSpec
CONSTANTS
  Timers = {once, again, other}
  Repeating = {again, other}
  Cancellable = {once, again}
  MaxDelay = 2
  MaxInbox = 1
INVARIANTS ActiveIsQueued OneOwner EarliestIsArmed CancelHolds
PROPERTY TimersFire
