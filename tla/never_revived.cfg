SPECIFICATION Spec
CONSTANTS
  Jobs = {j1}
  Nodes = {n1}
  NoNode = NoNode
  Requests = {r1}
  Msgs = {m1}
  ReportKinds = {}
  MaxEvents = 2
PROPERTIES NeverRevived
