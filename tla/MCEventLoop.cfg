SPECIFICATION FairSpec
CONSTANTS
  Clients = {c1, c2}
  Owner = owner
  Tasks = {k1, k2, k3}
  NoTask = none
INVARIANTS NoLostWakeup NoLostQuit
PROPERTIES Fifo PushedFunctorRuns QuitEndsLoop
