SPECIFICATION RunSpec
CONSTANTS
  Setups <- MCSetups
  PageSize = 2
  Files = {"app/Main.kt", "app/keys/a.jks", "infra/prod.yml"}
  Folder <- MCFolder
  Sliced <- MCSliced
  AllowedPaths = {"app/Main.kt", "app/keys/", "app/keys/a.jks"}
  DeniedPaths = {"app/keys/a.jks", "/Main.kt", "/keys/a.jks"}
  Plans <- MCPlans
INVARIANTS
  TypeOK
  SuccessIsComplete
  ChildStopped
  PullRequestHoldsCheckedWork
PROPERTIES
  ImplementsDelivery
  ExecutionSettles
\* A run is executed and delivered once; then everything is at rest.
CHECK_DEADLOCK FALSE
