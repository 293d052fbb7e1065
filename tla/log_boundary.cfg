SPECIFICATION Spec
CONSTANTS
  Lines = {l1}
  Conns = {c1}
  Instances = {i1}
  First = i1
  Host <- MCHost
  BacklogLimit = 1
  Faults = {}
  MaxFaults = 0
INVARIANTS NothingLostOrDuplicated
CHECK_DEADLOCK FALSE
