SPECIFICATION FairSpec
CONSTANTS
  Jobs = {j1}
  Nodes = {n1}
  NoNode = NoNode
  Events <- MCEvents
  Pollers = {p1, p2}
  BatchLimit = 1
  MaxEvents = 2
  Faults = {"abort", "close", "restart"}
  MaxFaults = 1
INVARIANTS TypeOK HandedBeforeMarked HandedInOrder CopiesBounded
PROPERTIES EveryEventSettled
CHECK_DEADLOCK FALSE
