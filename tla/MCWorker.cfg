SPECIFICATION FairSpec
CONSTANTS
  Dispatcher = Dispatcher
  NULL = NULL
  Endpoint = {e1, e2}
  Slot = {s1, s2}
  Thread = {evaluator}
  PoolSize = 3
  HeartbeatMaxAge = 3
  MaxFaults = 2
INVARIANTS TypeOK LoopWaitsOnlyForThreads AtMostOneLateCheck OneHiccupIsTolerated
PROPERTIES JobsFollowRegistry ChecksKeepComing
