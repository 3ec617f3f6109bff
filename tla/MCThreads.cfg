SPECIFICATION ThreadsSpec
CONSTANTS
  QuitsItself = TRUE
  MaxPending = 2
  PoolSize = 2
  Callers = {c1, c2}
  Tasks = {k1, k2, k3, k4}
  NoTask = noTask
  MaxQueueSize = 2
  BufferLines = 2
  MaxToWrite = 3
  KeptBuffers = 2
  MaxLines = 14
  NoBuffer = null
  Coroutines = {1, 2, 3, 4}
  NoCoroutine = 0
  ThWorkers = {w1, w2}
  ThUsers = {u1, u2}
  Jobs = {j1, j2}
  NoJob = noJob
  Nobody = nobody
INVARIANTS StartLoopHonest PoolSound LoggingSound NoOvertaking
PROPERTIES ThreadReturns QueuedFunctorsRun PoolProgress LinesGetWritten
  StopComesBack ThpoolSound
