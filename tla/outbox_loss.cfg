SPECIFICATION Spec
CONSTANTS
  Jobs = {j1}
  Nodes = {n1}
  NoNode = NoNode
  Events <- MCEvents
  Pollers = {p1}
  BatchLimit = 1
  MaxEvents = 1
  Faults = {"restart"}
  MaxFaults = 1
INVARIANTS NoEventLoss
CHECK_DEADLOCK FALSE
