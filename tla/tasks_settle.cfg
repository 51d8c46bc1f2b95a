SPECIFICATION FairSpec
CONSTANTS
  t1 = t1
  t2 = t2
  start1 = start1
  start2 = start2
  follow1 = follow1
  follow2 = follow2
  cancel1 = cancel1
  cancel2 = cancel2
  w1 = w1
  w2 = w2
  Tasks = {t1}
  Starts = {start1}
  FollowUps = {follow1}
  Cancels = {}
  Slots = {w1}
  MaxAttempts = 2
  MaxVersions = 2
  MaxFaults = 2
  PersonTargets = {"ARCHIVED"}
  BackoffCoversHandler = TRUE
PROPERTIES
  EveryTaskSettles
\* The calls are made once each; then the system is at rest.
CHECK_DEADLOCK FALSE
