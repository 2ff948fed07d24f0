\* Two calls of one carrier about one operation, a repeated webhook, a restart and
\* a failure.
SPECIFICATION Spec
CONSTANTS
  c1 = c1
  c2 = c2
  o1 = o1
  o2 = o2
  n1 = n1
  n2 = n2
  Calls = {c1, c2}
  Operations = {o1}
  Copies = {n1, n2}
  First = n1
  MaxRepeats = 1
  MaxCommitments = 3
  MaxRestarts = 1
  MaxGlitches = 1
SYMMETRY Interchangeable
INVARIANTS OneCallPerOperation RecordingsAreEvidence
  RecoveryReplacesItsCommitment
CHECK_DEADLOCK FALSE
