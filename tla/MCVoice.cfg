\* Three sessions of the page, two tool requests and text controls beside them.
SPECIFICATION Spec
CONSTANTS
  c1 = c1
  c2 = c2
  Calls = {c1, c2}
  MaxGenerations = 3
  MaxVersion = 4
  MaxGlitches = 3
INVARIANTS OnlyCurrentListens ShownAsItIs
PROPERTIES QuietUntilReconciled ReconciliationEnds
CHECK_DEADLOCK FALSE
