\* Retries, lost answers, callbacks in any order and a restart; two keys, two sessions.
SPECIFICATION Spec
CONSTANTS
  Requests = {r1, r2, r3}
  Keys = {k1, k2}
  Sessions = {s1, s2}
  Correlations = {x1}
  MaxActive = 2
  MaxAttempts = 2
  MaxEvents = 2
  MaxNow = 0
  MaxRestarts = 1
SYMMETRY Symmetry
INVARIANTS
  OneCallPerKey
  FailureIsDefinitive
  AnswersAreKept
  SessionsApart
\* Every request was sent and every bound is reached.
CHECK_DEADLOCK FALSE
