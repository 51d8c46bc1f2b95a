SPECIFICATION Spec
CONSTANTS
  t1 = t1
  t2 = t2
  start1 = start1
  start2 = start2
  follow1 = follow1
  follow2 = follow2
  cancel1 = cancel1
  cancel2 = cancel2
  w1 = w1
  w2 = w2
  Tasks = {t1, t2}
  Starts = {start1, start2}
  FollowUps = {}
  Cancels = {}
  Slots = {w1, w2}
  MaxAttempts = 2
  MaxVersions = 1
  MaxFaults = 0
  PersonTargets = {}
  BackoffCoversHandler = TRUE
SYMMETRY Symmetry
INVARIANTS
  NoConcurrentAttempts
PROPERTIES
  StartedOnce
\* The calls are made once each; then the system is at rest.
CHECK_DEADLOCK FALSE
