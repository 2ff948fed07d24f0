\* Two carriers, prices and windows on both sides of the narrow mandate, quotes
\* that expire.
SPECIFICATION RecordsSpec
CONSTANTS
  c1 = c1
  c2 = c2
  Calls <- TwoCalls
  Priority <- PriorityOfTwo
  Terms <- ThreeTerms
  MandateTerms <- TwoMandates
  PickupDate = 1
  Coordinators = {op}
  NoOne = NoOne
  DocumentKinds = {"recap"}
  RowLimit = 100
  RecoveryValidity = 1
  MaxVersion = 6
  MaxNow = 1
INVARIANTS
  OneWinnerChain
  TermsInsideMandate
  RowsAreAccepted
  RowsAreExplained
  AuditExplainsHistory
PROPERTIES
  LiveWinnerOnlyImproves
\* An operation no carrier can serve rests for good, and the bounds stop the rest.
CHECK_DEADLOCK FALSE
