SPECIFICATION Spec
CONSTANTS
  Modes = {TRUE, FALSE}
  CacheSize = 2
  MaxSeq = 3
  MaxEpoch = 1
  MaxLinks = 2
INVARIANTS
  NothingSkippedInEpoch
  RepeatsNeedLowering
PROPERTY
  ReplayCoversMissed
CHECK_DEADLOCK FALSE
