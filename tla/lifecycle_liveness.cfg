SPECIFICATION FairSpec
CONSTANTS
  Jobs = {j1}
  Nodes = {n1}
  NoNode = NoNode
  Requests = {r1}
  Msgs = {m1, m2}
  ReportKinds = {"completed", "failed", "cancelled", "timeout", "other"}
  MaxEvents = 2
PROPERTIES WorkerResultRecorded
