SPECIFICATION FairSpec
CONSTANTS
  Conns = {"c1", "c2"}
  Arrays = {a1, a2, a3, a4, a5, a6}
  Frames = {f1, f2, f3, f4}
  None = None
  Classes <- MCClasses
  HeaderSize = 1
  MaxStreamSize = 5
  Threshold <- MCThreshold
  Scripts <- MCScripts
  MaxPublishes <- MCPublishes
INVARIANTS
  PoolExclusive
  DispatchedIntact
  WholeStreamDispatched
  RepliesArriveWhole
PROPERTIES
  ImplementsMessageStream
  ConnectionEnds
CHECK_DEADLOCK FALSE
