SPECIFICATION Spec
CONSTANTS
  Servers = {s1, s2}
  Threads = {w1, w2}
  MAX_WORKERS = 2
  POOL = 1
  QUERY_TIMEOUT = 1
  QUERY_CACHE_TTL = 2
  MAX_CACHE = 1
  MaxDelay = 1
INVARIANTS
  SlotsAccounted
  ServedIsFresh
  PageWait
PROPERTY
  EveryRequestEnds
