SPECIFICATION Spec
CONSTANTS
  project1 = project1
  project2 = project2
  name1 = name1
  name2 = name2
  file1 = file1
  file2 = file2
  create1 = create1
  create2 = create2
  connect1 = connect1
  hook1 = hook1
  hook2 = hook2
  delivery1 = delivery1
  delivery2 = delivery2
  Projects = {project1, project2}
  Names = {name1, name2}
  Existing = {name1}
  Files <- MCFiles
  Creates = {create1, create2}
  Connects = {connect1}
  Hooks = {hook1, hook2}
  Deliveries = {delivery1, delivery2}
  Malformed = {delivery2}
  Adapters = {"FAKE", "GITHUB_APP"}
  PersonTargets = {"PRD_LOCKED", "REPO_BOOTSTRAPPING", "REPO_READY", "REJECTED", "ARCHIVED"}
  MaxMishaps = 2
  Scenarios <- MCScenarios
INVARIANTS
  TypeOK
  
  CreatedIsBootstrapped
  AnsweredHasTask
  DeliveryAppliedOnce
PROPERTY BootstrappingEnds
\* The requests are made once each; then the system is at rest.
CHECK_DEADLOCK FALSE
