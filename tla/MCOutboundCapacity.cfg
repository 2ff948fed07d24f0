\* One slot for two calls, while time passes and callbacks come in any order; no
\* symmetry, for the liveness property.
SPECIFICATION FairSpec
CONSTANTS
  Requests = {r1, r2}
  Keys = {k1, k2}
  Sessions = {s1, s2}
  Correlations = {x1}
  MaxActive = 1
  MaxAttempts = 1
  MaxEvents = 2
  MaxNow = 1
  MaxRestarts = 1
INVARIANTS
  CapacityHolds
  StatusIsNewestSeen
PROPERTIES
  SlotsAreFreed
\* Every request was sent and every bound is reached.
CHECK_DEADLOCK FALSE
