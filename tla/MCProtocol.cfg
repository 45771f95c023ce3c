SPECIFICATION Spec
CONSTANTS
  Conns = {c1, c2}
  Tokens = {t1}
  Topics = {x1}
  Publishers = {p1}
  NoToken = NoToken
  NoConn = NoConn
  NoTopic = NoTopic
  Strict = FALSE
  HelloFirst = TRUE
  CacheSize = 1
  CacheBudget = 2
  Sizes = {1, 3}
  SeqSpace = 100
  MaxPublish = 2
  Watched = {c2}
INVARIANTS
  SessionIndex
  RecordedTopicIsServed
  CacheAccounted
  DeliveredAtMostOnce
CHECK_DEADLOCK FALSE
