SPECIFICATION FairSpec
CONSTANTS
  Lines = {l1}
  Conns = {c1, c2}
  Instances = {i1, i2}
  First = i1
  Host <- MCHost
  BacklogLimit = 1
  Faults = {"redis", "refuse", "redeliver", "restart"}
  MaxFaults = 1
INVARIANTS TypeOK SubscriptionFollowsStreams ViewersReachable OwedKept RepeatsBounded
CHECK_DEADLOCK FALSE
PROPERTIES OwedLinesArrive ReportEndsStreams
