\* One takeover of a call with its bridge, and a second call after a restart.
SPECIFICATION TakeoverSpec
CONSTANTS
  r1 = r1
  r2 = r2
  kPage = kPage
  kOther = kOther
  Requests = {r1}
  Keys = {kPage}
  ControlKey = kPage
  Nobody = nobody
  MaxCalls = 2
  MaxEvents = 0
  MaxRestarts = 1
  MaxGlitches = 1
INVARIANTS OneLateOutput
PROPERTIES RequestsAreAnswered RevocationIsHeard
CHECK_DEADLOCK FALSE
