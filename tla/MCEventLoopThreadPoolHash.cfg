SPECIFICATION Spec
CONSTANTS
  MaxLoops = 4
  MaxRounds = 2
  Hashes = {0, 1, 5, 6}
INVARIANT HashInRange
