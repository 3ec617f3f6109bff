SPECIFICATION FairServerSpec
CONSTANTS
  MaxLoops = 2
  MaxRounds = 4
  Hashes = {0}
  MaxConns = 3
  MaxFds = 3
CHECK_DEADLOCK FALSE
INVARIANTS Balanced EndsOnce HeldWhileOpen
PROPERTIES BacklogMoves ClosedIsFreed
