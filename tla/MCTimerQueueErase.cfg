SPECIFICATION Spec
CONSTANTS
  Timers = {once, again, other}
  Repeating = {again}
  Cancellable = {once, again}
  MaxDelay = 2
  MaxInbox = 2
INVARIANT SameSize
