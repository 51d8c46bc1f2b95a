SPECIFICATION Spec
CONSTANTS
  client1 = client1
  client2 = client2
  client3 = client3
  key1 = key1
  Clients = {client1, client2, client3}
  Scenarios <- MCScenarios
  MaxRequests = 2
  MaxFailures = 2
  LockTime = 1
  SessionTtl = 1
  MaxTime = 3
  MaxPassword = 3
  Credentials = {key1}
  RateLimit = 1
  Window = 0
  CredentialTtl = 1
  Tools = {"list_projects", "upload_prd"}
  WriteModes = {TRUE, FALSE}
  MaxFaults = 1
INVARIANTS
  TypeOK
  NoSessionOutlivesChange
  RateOvershootBounded
\* Every client makes its requests; then nothing is left to do.
CHECK_DEADLOCK FALSE
