SPECIFICATION ContainersSpec
CONSTANTS
  Channels = {1, 2, 3}
  Events = {"in", "out"}
  InitEvents = 1
  MaxEvents = 2
  Byte = {0, 1}
  Nul = 0
  CheapPrepend = 1
  InitialSize = 2
  ExtraSize = 2
  MaxLen = 3
  MaxSize = 7
  Keys = {1, 2, 3, 4, 5, 6, 7, 8}
  NumPages = 5
  Classes = {1, 2}
  Chunks <- MCChunks
  Reserved <- MCReserved
  Handles = {h1, h2, h3, h4}
SYMMETRY HandleSymmetry
CHECK_DEADLOCK FALSE
INVARIANTS BufferSound RbSound SlabSound
PROPERTY PollersWatch
