SPECIFICATION Spec
CONSTANTS
  Keys = {k1, k2}
  NoKey = NoKey
  Staging = {k1}
  JobIds = {j1, j2, j3, j4}
  NoJob = NoJob
  Requests = {r1, r2, r3}
SYMMETRY JobRequestSymmetry
INVARIANTS TypeOK AnswersAgree
PROPERTIES KeyCloses ImplementsIdempotentCreate
