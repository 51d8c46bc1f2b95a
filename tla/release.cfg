SPECIFICATION Spec
CONSTANTS
  test1 = test1
  scan1 = scan1
  build1 = build1
  accept1 = accept1
  accept2 = accept2
  candidate1 = candidate1
  approval1 = approval1
  approval2 = approval2
  signing1 = signing1
  pipeline1 = pipeline1
  Tests = {test1}
  Scans = {scan1}
  Builds = {build1}
  Accepts = {accept1}
  Candidates = {candidate1}
  Approvals = {approval1, approval2}
  Signings = {signing1}
  Pipelines = {pipeline1}
  TestReports <- MCTests
  ScanReports <- MCScans
  BuildReports <- MCBuilds
  PipelineRuns <- MCRuns
  ApprovalEnabled = TRUE
  PersonTargets = {"RELEASE_CANDIDATE"}
  MaxTime = 1
  MaxPrds = 2
  MaxRows = 1
  MaxConcurrent = 2
SYMMETRY Interchangeable
INVARIANTS
  TypeOK
  ReleaseEvidence
  
  StatusBackedByRelease
  PipelineCandidateClean
PROPERTY BlockedStaysBlocked
\* The calls are made once each; then the system is at rest.
CHECK_DEADLOCK FALSE
