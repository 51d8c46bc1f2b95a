SPECIFICATION Spec
CONSTANTS
  upload1 = upload1
  upload2 = upload2
  review1 = review1
  approval1 = approval1
  approval2 = approval2
  lock1 = lock1
  note1 = note1
  note2 = note2
  prepare1 = prepare1
  prepare2 = prepare2
  decision1 = decision1
  Uploads = {upload1, upload2}
  Reviews = {review1}
  Approvals = {approval1, approval2}
  Locks = {lock1}
  Notes = {note1, note2}
  Prepares = {prepare1, prepare2}
  Documents <- MCDocuments
  LogicalIds = {decision1}
  ApprovalModes = {TRUE, FALSE}
  PersonTargets = {"PRD_LOCKED", "REPO_READY"}
  MaxPersonMoves = 1
  MaxCalls = 3
SYMMETRY Interchangeable
INVARIANTS
  TypeOK
  LockedWasApproved
  ProjectLockHasVersion
  SnapshotFaithful
  CriteriaTraceToScope
  TasksCarryLockedPrd
  UploadTakesEffect
\* The calls are made once each; then the project is at rest.
CHECK_DEADLOCK FALSE
