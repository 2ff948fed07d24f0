\* The page and another client take over a call and its next attempt, with a restart,
\* failures and callbacks in any order.
SPECIFICATION Spec
CONSTANTS
  r1 = r1
  r2 = r2
  kPage = kPage
  kOther = kOther
  Requests = {r1, r2}
  Keys = {kPage, kOther}
  ControlKey = kPage
  Nobody = nobody
  MaxCalls = 2
  MaxEvents = 2
  MaxRestarts = 1
  MaxGlitches = 2
SYMMETRY Interchangeable
INVARIANTS OneCoordinator FencedBeforeProvider
PROPERTIES OutcomeIsFinal
CHECK_DEADLOCK FALSE
