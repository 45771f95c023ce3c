SPECIFICATION FairSpec
CONSTANTS
  Conns = {c1, c2}
  Tokens = {t1, t2}
  Topics = {x1}
  Publishers = {p1}
  NoToken = NoToken
  NoConn = NoConn
  NoTopic = NoTopic
  Strict = TRUE
  HelloFirst = FALSE
  CacheSize = 1
  CacheBudget = 2
  Sizes = {1}
  SeqSpace = 100
  MaxPublish = 0
  Watched = {}
PROPERTIES
  TokenNeverReplaced
  VanishedSubscriberLeaves
CHECK_DEADLOCK FALSE
