SPECIFICATION FairServiceSpec
CONSTANTS
  Jobs = {j1}
  Nodes = {n1, n2}
  NoNode = NoNode
  Requests = {r1}
  Msgs = {m1}
  ReportKinds = {}
  MaxEvents = 2
  Pollers = {p1}
  BatchLimit = 2
  Faults = {"abort"}
  MaxFaults = 1
INVARIANTS ServiceTypeOK CancelGoesToTaker
PROPERTIES ImplementsPublisher CancelReachesTaker
