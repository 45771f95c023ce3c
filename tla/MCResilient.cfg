SPECIFICATION FairSpec
CONSTANTS
  Threads = {t1, t2}
  Links = {l1, l2, l3}
  Topics = {x1}
  MaxOps = 1
  NoLink = NoLink
  NoTopic = NoTopic
INVARIANT ListMatchesServer
PROPERTY CloseLeavesNothing
CHECK_DEADLOCK FALSE
