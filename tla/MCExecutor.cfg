SPECIFICATION FairSpec
CONSTANTS
  t1 = t1
  t2 = t2
  f1 = f1
  w1 = w1
  w2 = w2
  NoJob = NoJob
  Tasks = {t1, t2}
  Futures = {f1}
  Workers = {w1, w2}
  Nested <- MCNested
INVARIANTS
  RunsAtMostOnce
PROPERTIES
  OutcomeStable
  EverythingResolves
  StopEndsWorkers
CHECK_DEADLOCK FALSE
