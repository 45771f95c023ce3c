SPECIFICATION Spec
CONSTANTS
  Conns = {a1, r1}
  Registered = {r1}
  Workers = {w1, w2}
  Calls = {"Shutdown", "WorkerStop", "Unregister", "Stop"}
  QueueCap = 1
  NoConn = NoConn
  NoWorker = NoWorker
SYMMETRY MCSymmetry
INVARIANTS
  NoOpenHandlerAfterSweep
  CountersMatchHandlers
  OpenConnectionHasOwner
  ExitedWorkerStrandsNothing
CHECK_DEADLOCK FALSE
