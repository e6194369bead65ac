SPECIFICATION FairSpec
CONSTANTS
  w1 = w1
  w2 = w2
  t1 = t1
  t2 = t2
  t3 = t3
  NoOne = NoOne
  Trajectories = {t1, t2, t3}
  Workers = {w1, w2}
  Home <- MCHome
  Servers = {s1, s2}
  CacheSize = 1
  RateLimit = 2
  NumWorkers = 2
  Endless = {t3}
  MaxTurns = 1
INVARIANTS StdoutIsOwn TokensConserved SessionsAreSound
PROPERTIES StickySession OthersFinish
CHECK_DEADLOCK FALSE
