SPECIFICATION FairSpec
CONSTANTS
  Paths = {p1, p2}
  Requests = {r1, r2}
  CacheLimit = 1
  TTL = 2
  FetchLimit = 2
INVARIANTS TypeOK CacheBounded AnswersRecent
PROPERTIES EveryRequestAnswered
