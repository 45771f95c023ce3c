SPECIFICATION ServerSpec
CONSTANTS
  Conns = {a1, r1}
  Registered = {r1}
  Workers = {w1}
  Calls = {"Shutdown"}
  QueueCap = 1
  NoConn = NoConn
  NoWorker = NoWorker
PROPERTIES
  SignalEndsServer
  ShutdownEndsHandlers
  CancelEndsLoops
CHECK_DEADLOCK FALSE
