SPECIFICATION Spec
CONSTANTS
  Keys = {k1}
  NoKey = NoKey
  Staging = {}
  JobIds = {j1, j2}
  NoJob = NoJob
  Requests = {r1, r2}
INVARIANTS NoDuplicateJobs
