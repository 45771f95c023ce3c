SPECIFICATION Spec
CONSTANTS
  Conns = {c1, c2}
  Tokens = {t1}
  Topics = {x1}
  Publishers = {p1}
  NoToken = NoToken
  NoConn = NoConn
  NoTopic = NoTopic
  Strict = TRUE
  HelloFirst = TRUE
  CacheSize = 2
  CacheBudget = 2
  Sizes = {1}
  SeqSpace = 100
  MaxPublish = 1
  Watched = {c2}
INVARIANTS
  ResumedMissesNothing
CHECK_DEADLOCK FALSE
