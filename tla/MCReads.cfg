\* One carrier and one client that reads the operation once, at any moment of a
\* history long enough to escalate, to approve a second mandate and to recover
\* under it; a limit of rows that such a history passes.
SPECIFICATION ReadsSpec
CONSTANTS
  c1 = c1
  Calls <- OneCall
  Priority <- PriorityOfOne
  Terms <- TwoTerms
  MandateTerms <- ThreeMandates
  PickupDate = 1
  Coordinators = {op}
  NoOne = NoOne
  DocumentKinds = {}
  RowLimit = 7
  RecoveryValidity = 1
  MaxVersion = 7
  MaxNow = 0
INVARIANTS
  StatusReflectsRows
  CurrentAnswersAreWhole
PROPERTIES
  EscalationFreezesAgreement
  KeepsPromise
\* The bounds stop the operation, and with it the client.
CHECK_DEADLOCK FALSE
