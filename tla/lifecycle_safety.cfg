SPECIFICATION Spec
CONSTANTS
  Jobs = {j1}
  Nodes = {n1}
  NoNode = NoNode
  Requests = {r1, r2}
  Msgs = {m1, m2}
  ReportKinds = {"cancelled", "timeout"}
  MaxEvents = 3
SYMMETRY RequestMsgSymmetry
INVARIANTS TypeOK IInv EventLogWellFormed StatusMatchesNewestEvent NoCancelBeforeCommit
PROPERTIES LostUpdatesShow CancellationSticks SettledIsFinal
