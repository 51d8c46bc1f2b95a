---------------------------- MODULE PrdLifecycle ----------------------------
(***************************************************************************)
(* The PRD versions of one project, from upload to lock, with the two      *)
(* things they are tied to: the project's status, and the decision records *)
(* and constraints a lock takes a snapshot of.  PrdService, together with  *)
(* the DecisionsService that writes the records and the part of the        *)
(* TasksService that turns a locked version into an IMPLEMENT_PRD task.    *)
(*                                                                         *)
(* Every await of a call is a step of its own.  A call that its very first *)
(* read refuses has changed nothing and is left out.  The repository the   *)
(* tasks need is taken as connected.                                       *)
(***************************************************************************)
EXTENDS Naturals, Sequences, FiniteSets, FiniteSetsExt, ProjectStates, PrdDocument

CONSTANTS
  Uploads, Reviews, Approvals, Locks, \* calls of upload, requestReview, approve, lock
  Notes,          \* calls of createConstraint, reviseConstraint and the like
  Prepares,       \* calls of prepareFromLockedPrd
  Documents,      \* the documents people upload
  LogicalIds,     \* the decisions and constraints of the project
  ApprovalModes,  \* values of APPROVAL_WORKFLOW_ENABLED
  PersonTargets,  \* statuses that people move the project to themselves
  MaxPersonMoves, \* bound on such moves
  MaxCalls        \* bound on the calls made in one behaviour

Calls == Uploads \cup Reviews \cup Approvals \cup Locks \cup Notes \cup Prepares

ASSUME ModesAssumption == ApprovalModes \subseteq BOOLEAN
ASSUME DocumentsAssumption == Documents # {} /\ \A d \in Documents : Accepted(d) \in BOOLEAN
ASSUME LogicalIdsAssumption == LogicalIds # {}
\* transitionProjectSchema admits the statuses of the enum only.
ASSUME PersonAssumption == PersonTargets \subseteq ProjectStatuses
ASSUME DisjointCalls == Uploads \cap (Notes \cup Prepares) = {}

VARIABLES
  approvalEnabled, \* the process's APPROVAL_WORKFLOW_ENABLED
  project,         \* Project.status
  prds,            \* PrdVersion rows: prds[n] is version n
  records,         \* ACTIVE DecisionRecord and CeoConstraint rows
  tasks,           \* IMPLEMENT_PRD tasks: who made it, the version in the key, the one carried
  call,            \* each call's progress and locals
  moves,           \* moves made by people so far
  byHand           \* history: a person moved to PRD_LOCKED with no version in force

vars == <<approvalEnabled, project, prds, records, tasks, call, moves, byHand>>

\* HOLD stands for every action that decides nothing.
Actions == {"APPROVE", "CONDITIONAL_APPROVE", "REQUEST_REVISION", "REJECT", "HOLD"}
PrdStatuses == {"DRAFT", "IN_REVIEW", "REVISION_REQUIRED", "APPROVED", "LOCKED",
                "REJECTED", "SUPERSEDED"}
editableStatuses ==
  {"IDEA", "RESEARCHING", "PRD_DRAFT", "REVISION_REQUIRED", "REJECTED", "PRD_LOCKED"}
draftedByUpload == editableStatuses \ {"PRD_DRAFT", "PRD_LOCKED"}
autoLockable == {"DRAFT", "IN_REVIEW", "REVISION_REQUIRED", "APPROVED"}

NoRecord == [logicalId |-> CHOOSE l \in LogicalIds : TRUE, versionNumber |-> 0]
NoCall == [at |-> "idle", prd |-> 0, submit |-> FALSE, doc |-> CHOOSE d \in Documents : TRUE,
           action |-> "HOLD", to |-> "IDEA", then |-> "done",
           snapshot |-> {}, superseded |-> {}, record |-> NoRecord, locked |-> 0]

Init ==
  /\ approvalEnabled \in ApprovalModes
  /\ project = "IDEA"
  /\ prds = <<>>
  /\ records = {}
  /\ tasks = {}
  /\ call = [c \in Calls |-> NoCall]
  /\ moves = 0
  /\ byHand = FALSE

-----------------------------------------------------------------------------
Versions == DOMAIN prds
At(c, at) == call[c].at = at
LockedVersions == {n \in Versions : prds[n].status = "LOCKED"}
\* A call that is over forgets its locals, but for the version it was about.
Over == {"done", "refused"}
Goes(c, at) ==
  call' = [call EXCEPT ![c] = IF at \in Over THEN [NoCall EXCEPT !.at = at, !.prd = call[c].prd]
                              ELSE [call[c] EXCEPT !.at = at]]
Made == {c \in Calls : ~At(c, "idle")}
Own(c) == prds[call[c].prd]
\* transitionSystem(to), after which the call continues at next.
Moving(c, to, next) ==
  call' = [call EXCEPT ![c].at = "moving", ![c].to = to, ![c].then = next]
OnlyCalls == UNCHANGED <<approvalEnabled, project, prds, records, tasks, moves, byHand>>
OnlyPrds == UNCHANGED <<approvalEnabled, project, records, tasks, moves, byHand>>

(* transitionSystem: nothing to do when the project is there already; a    *)
(* refusal is thrown through the caller, whose earlier writes stay.        *)
MoveReads(c) ==
  /\ At(c, "moving")
  /\ Goes(c, CASE project = call[c].to                      -> call[c].then
               [] canTransitionProject(project, call[c].to) -> "writing"
               [] OTHER                                     -> "refused")
  /\ OnlyCalls

MoveWrites(c) ==
  /\ At(c, "writing")
  /\ project' = call[c].to
  /\ Goes(c, call[c].then)
  /\ UNCHANGED <<approvalEnabled, prds, records, tasks, moves, byHand>>

-----------------------------------------------------------------------------
(* upload *)

UploadChecks(c) ==
  /\ At(c, "idle")
  /\ project \in editableStatuses
  /\ \E doc \in Documents, submit \in BOOLEAN :
       /\ Accepted(doc)
       /\ submit => approvalEnabled \* looked at in that mode only
       /\ call' = [call EXCEPT ![c].at = "numbering", ![c].doc = doc, ![c].submit = submit]
  /\ OnlyCalls

UploadNumbers(c) ==
  /\ At(c, "numbering")
  /\ call' = [call EXCEPT ![c].at = "creating", ![c].prd = Len(prds) + 1]
  /\ OnlyCalls

\* A fresh row; known is what the record tables held at its createdAt.
Draft(doc) == [status |-> "DRAFT", doc |-> doc, approved |-> FALSE, approvals |-> {},
               snapshot |-> {}, known |-> records]

\* (projectId, versionNumber) is unique: of two uploads with one number one fails.
UploadCreates(c) ==
  /\ At(c, "creating")
  /\ IF call[c].prd \in Versions
       THEN Goes(c, "refused") /\ UNCHANGED prds
       ELSE prds' = Append(prds, Draft(call[c].doc)) /\ Goes(c, "created")
  /\ OnlyPrds

\* Mutant: only an upload that is submitted for review is taken further.
AfterUploadForReview(c) == IF call[c].submit THEN "review" ELSE "done"

AfterUpload(c) ==
  CASE ~approvalEnabled                  -> "autoLock"
    [] approvalEnabled /\ call[c].submit -> "review"
    [] OTHER                             -> "done"

UploadMoves(c) ==
  /\ At(c, "created")
  /\ IF project \in draftedByUpload
       THEN Moving(c, "PRD_DRAFT", AfterUpload(c))
       ELSE Goes(c, AfterUpload(c))
  /\ OnlyCalls

-----------------------------------------------------------------------------
(* requestReview, called by itself or at the end of an upload *)

RequestsReview(c) ==
  /\ At(c, "idle")
  /\ \E n \in Versions :
       call' = [call EXCEPT ![c].at = IF approvalEnabled THEN "review" ELSE "autoLock",
                            ![c].prd = n]
  /\ OnlyCalls

ReviewReads(c) ==
  /\ At(c, "review")
  /\ Goes(c, IF Own(c).status \in {"DRAFT", "REVISION_REQUIRED"} THEN "reviewing" ELSE "refused")
  /\ OnlyCalls

ReviewWrites(c) ==
  /\ At(c, "reviewing")
  /\ prds' = [prds EXCEPT ![call[c].prd].status = "IN_REVIEW"]
  /\ Moving(c, "PRD_REVIEW", "done")
  /\ OnlyPrds

-----------------------------------------------------------------------------
(* approve; APPROVE goes on to lock *)

ApproveReads(c) ==
  /\ At(c, "idle")
  /\ approvalEnabled
  /\ \E n \in Versions, action \in Actions :
       /\ prds[n].status = "IN_REVIEW"
       /\ call' = [call EXCEPT ![c].at = "deciding", ![c].prd = n, ![c].action = action]
  /\ OnlyCalls

\* Mutant: an action that is none of the three becomes the version's status.
DecidedByName(action) == IF action = "APPROVE" THEN "APPROVED" ELSE action

\* What an action makes of the version.
Decided(action) ==
  CASE action = "APPROVE"                                     -> "APPROVED"
    [] action \in {"CONDITIONAL_APPROVE", "REQUEST_REVISION"} -> "REVISION_REQUIRED"
    [] action = "REJECT"                                      -> "REJECTED"
    [] OTHER                                                  -> "IN_REVIEW"

\* One transaction: the Approval row and the version, whatever it has become.
ApproveWrites(c) ==
  LET action == call[c].action IN
  /\ At(c, "deciding")
  /\ prds' = [prds EXCEPT ![call[c].prd] =
                [Own(c) EXCEPT !.status = Decided(action), !.approvals = @ \cup {action},
                               !.approved = (action = "APPROVE")]]
  /\ CASE action = "APPROVE" -> Moving(c, "PRD_APPROVED", "lock")
       [] Decided(action) = "IN_REVIEW" -> Goes(c, "done")
       [] OTHER -> Moving(c, Decided(action), "done")
  /\ OnlyPrds

-----------------------------------------------------------------------------
(* lock and autoLock *)

RequestsLock(c) ==
  /\ At(c, "idle")
  /\ \E n \in Versions :
       call' = [call EXCEPT ![c].at = IF approvalEnabled THEN "lock" ELSE "autoLock", ![c].prd = n]
  /\ OnlyCalls

\* Mutant: the version is locked without looking at its approval.
LockableUnasked(prd) == TRUE

Lockable(prd) == prd.status = "APPROVED" /\ prd.approved

LockReads(c) ==
  /\ At(c, "lock")
  /\ Goes(c, CASE Own(c).status = "LOCKED" -> "done"
               [] Lockable(Own(c))         -> "snapshot"
               [] OTHER                    -> "refused")
  /\ OnlyCalls

\* Mutant: the records come oldest first, and the first of each is taken.
oldestByLogicalId(rows) ==
  {r \in rows : \A s \in rows : s.logicalId = r.logicalId => r.versionNumber <= s.versionNumber}

\* Newest first, latestByLogicalId keeps the first row of each logical id.
latestByLogicalId(rows) ==
  {r \in rows : \A s \in rows : s.logicalId = r.logicalId => r.versionNumber >= s.versionNumber}

TakesSnapshot(c) ==
  /\ At(c, "snapshot")
  /\ call' = [call EXCEPT ![c].at = IF approvalEnabled THEN "locking" ELSE "superseding",
                          ![c].snapshot = latestByLogicalId(records)]
  /\ OnlyCalls

LockedWith(prd, snapshot) == [prd EXCEPT !.status = "LOCKED", !.snapshot = snapshot]

\* Nothing is said of the versions that are LOCKED already.
LockWrites(c) ==
  /\ At(c, "locking")
  /\ prds' = [prds EXCEPT ![call[c].prd] = LockedWith(@, call[c].snapshot)]
  /\ Moving(c, "PRD_LOCKED", "done")
  /\ OnlyPrds

AutoLockReads(c) ==
  /\ At(c, "autoLock")
  /\ Goes(c, CASE Own(c).status = "LOCKED"      -> "done"
               [] Own(c).status \in autoLockable -> "snapshot"
               [] OTHER                          -> "refused")
  /\ OnlyCalls

(* autoLock's transaction, READ COMMITTED: first the rows its updateMany   *)
(* finds LOCKED, then, at the commit, they are SUPERSEDED and its own is   *)
(* LOCKED.  What another transaction locks in between it does not see.     *)
Supersedes(c) ==
  /\ At(c, "superseding")
  /\ call' = [call EXCEPT ![c].at = "autoLocking",
                          ![c].superseded = LockedVersions \ {call[c].prd}]
  /\ OnlyCalls

\* Mutant: the transaction supersedes the others but does not lock its own.
AutoLockedWithout(c) ==
  [n \in Versions |-> IF n \in call[c].superseded /\ prds[n].status = "LOCKED"
                        THEN [prds[n] EXCEPT !.status = "SUPERSEDED"] ELSE prds[n]]

AutoLocked(c) ==
  [n \in Versions |->
     CASE n = call[c].prd -> LockedWith([prds[n] EXCEPT !.approved = TRUE], call[c].snapshot)
       [] n # call[c].prd /\ n \in call[c].superseded /\ prds[n].status = "LOCKED"
                          -> [prds[n] EXCEPT !.status = "SUPERSEDED"]
       [] OTHER           -> prds[n]]

AutoLocks(c) ==
  /\ At(c, "autoLocking")
  /\ prds' = AutoLocked(c)
  /\ Goes(c, "settling")
  /\ OnlyPrds

AutoApproves(c) ==
  /\ At(c, "settling")
  /\ IF project = "PRD_REVIEW" THEN Moving(c, "PRD_APPROVED", "settled") ELSE Goes(c, "settled")
  /\ OnlyCalls

AutoSettles(c) ==
  /\ At(c, "settled")
  /\ IF project \in {"PRD_DRAFT", "PRD_APPROVED"}
       THEN Moving(c, "PRD_LOCKED", "done")
       ELSE Goes(c, "done")
  /\ OnlyCalls

-----------------------------------------------------------------------------
(* createConstraint and createDecision: number the new version, then insert *)

Newest(l) == Max({0} \cup {r.versionNumber : r \in {s \in records : s.logicalId = l}})

NoteNumbers(c) ==
  /\ At(c, "idle")
  /\ \E l \in LogicalIds :
       call' = [call EXCEPT ![c].at = "noting",
                            ![c].record = [logicalId |-> l, versionNumber |-> Newest(l) + 1]]
  /\ OnlyCalls

\* (logicalId, versionNumber) is unique.
NoteInserts(c) ==
  /\ At(c, "noting")
  /\ Goes(c, IF call[c].record \in records THEN "refused" ELSE "done")
  /\ records' = records \cup {call[c].record}
  /\ UNCHANGED <<approvalEnabled, project, prds, tasks, moves, byHand>>

-----------------------------------------------------------------------------
(* prepareFromLockedPrd, and create, which looks for the locked version again *)

\* Mutant: the newest version, locked or not.
NewestVersion == Len(prds)

\* findFirst, LOCKED, by descending versionNumber.
lockedPrd == Max(LockedVersions)

\* Mutant: the table has no unique key, only the reads look for a duplicate.
NoUniqueKey(key) == TRUE

\* idempotencyKey is @unique.
KeyIsFree(key) == \A t \in tasks : t.key # key

PrepareReads(c) ==
  /\ At(c, "idle")
  /\ LockedVersions # {}
  /\ prds[lockedPrd].doc.criteria # <<>>
  /\ \A t \in tasks : t.key # lockedPrd
  /\ call' = [call EXCEPT ![c].at = "checking", ![c].prd = lockedPrd]
  /\ OnlyCalls

(* taskInputSchema, of what a version can get wrong: a criterion of a task *)
(* has at most 3000 characters, where a PRD's may be longer.               *)
taskInputSchema(doc) == doc.longest <= 3000

(* create refuses what its schema does, returns an existing task, or       *)
(* refuses when the project is not ready.                                  *)
CreateReads(c) ==
  /\ At(c, "checking")
  /\ IF /\ taskInputSchema(Own(c).doc)
        /\ \A t \in tasks : t.key # call[c].prd
        /\ project \in taskReadyStatuses
        /\ LockedVersions # {}
       THEN call' = [call EXCEPT ![c].at = "inserting", ![c].locked = lockedPrd]
       ELSE Goes(c, "refused")
  /\ OnlyCalls

CreateInserts(c) ==
  /\ At(c, "inserting")
  /\ IF KeyIsFree(call[c].prd)
       THEN /\ tasks' = tasks \cup {[by |-> c, key |-> call[c].prd, carried |-> call[c].locked]}
            /\ Goes(c, "done")
       ELSE Goes(c, "refused") /\ UNCHANGED tasks
  /\ UNCHANGED <<approvalEnabled, project, prds, records, moves, byHand>>

-----------------------------------------------------------------------------
\* ProjectsService.transition, in one step: people act between the calls.
PersonMoves ==
  /\ moves < MaxPersonMoves
  /\ \E to \in PersonTargets :
       /\ canTransitionProject(project, to)
       /\ project' = to
       /\ byHand' = (byHand \/ (to = "PRD_LOCKED" /\ LockedVersions = {}))
  /\ moves' = moves + 1
  /\ UNCHANGED <<approvalEnabled, prds, records, tasks, call>>

\* A step of a call that has begun.
Proceeds(c) ==
  \/ UploadNumbers(c) \/ UploadCreates(c) \/ UploadMoves(c)
  \/ ReviewReads(c) \/ ReviewWrites(c) \/ ApproveWrites(c)
  \/ LockReads(c) \/ TakesSnapshot(c) \/ LockWrites(c)
  \/ AutoLockReads(c) \/ Supersedes(c) \/ AutoLocks(c) \/ AutoApproves(c) \/ AutoSettles(c)
  \/ NoteInserts(c) \/ CreateReads(c) \/ CreateInserts(c)
  \/ MoveReads(c) \/ MoveWrites(c)

Begins(c) ==
  \/ c \in Uploads /\ UploadChecks(c)
  \/ c \in Reviews /\ RequestsReview(c)
  \/ c \in Approvals /\ ApproveReads(c)
  \/ c \in Locks /\ RequestsLock(c)
  \/ c \in Notes /\ NoteNumbers(c)
  \/ c \in Prepares /\ PrepareReads(c)

Next ==
  \/ PersonMoves
  \/ Cardinality(Made) < MaxCalls /\ \E c \in Calls : Begins(c)
  \/ \E c \in Calls : Proceeds(c)

Spec == Init /\ [][Next]_vars

-----------------------------------------------------------------------------
Record == [logicalId : LogicalIds, versionNumber : Nat]
Places == {"idle", "numbering", "creating", "created", "review", "reviewing", "deciding",
           "lock", "autoLock", "snapshot", "locking", "superseding", "autoLocking",
           "settling", "settled", "noting", "checking", "inserting",
           "moving", "writing", "done", "refused"}

TypeOK ==
  /\ approvalEnabled \in BOOLEAN
  /\ project \in ProjectStatuses
  /\ prds \in Seq([status : PrdStatuses, doc : Documents, approved : BOOLEAN,
                   approvals : SUBSET Actions, snapshot : SUBSET Record, known : SUBSET Record])
  /\ records \subseteq Record
  /\ tasks \subseteq [by : Calls, key : Versions, carried : Versions]
  /\ call \in [Calls -> [at : Places, prd : Nat, submit : BOOLEAN, doc : Documents,
                         action : Actions, to : ProjectStatuses, then : Places,
                         snapshot : SUBSET Record, superseded : SUBSET Versions,
                         record : Record, locked : Nat]]
  /\ moves \in Nat
  /\ byHand \in BOOLEAN

(* With the approval workflow on, no interleaving of reviews, decisions    *)
(* and locks puts a version in force that the CEO has never approved.      *)
LockedWasApproved ==
  approvalEnabled => \A n \in LockedVersions : "APPROVE" \in prds[n].approvals

(* With automatic locking a project that has come as far as PRD_LOCKED has *)
(* a version in force, whatever uploads run against each other: superseding*)
(* and locking are one transaction, and the project follows it.  The one   *)
(* way around is the CEO's or PM's own: transition asks the table only, and*)
(* lets them move a project to PRD_LOCKED that has no version in force.    *)
AfterLock == {"PRD_LOCKED", "REPO_BOOTSTRAPPING"} \cup taskReadyStatuses
ProjectLockHasVersion ==
  ~approvalEnabled /\ project \in AfterLock => LockedVersions # {} \/ byHand

(* A lock's snapshot holds one version of each decision and constraint, and*)
(* none older than what was recorded when the PRD version was created,     *)
(* though the records are read well before the lock is written.            *)
SnapshotFaithful ==
  \A n \in LockedVersions :
    /\ \A r, s \in prds[n].snapshot : r.logicalId = s.logicalId => r = s
    /\ \A k \in prds[n].known : \E r \in prds[n].snapshot :
         r.logicalId = k.logicalId /\ r.versionNumber >= k.versionNumber

(* What Codex is told to fulfil traces back to the product's scope: each   *)
(* acceptance criterion of a version that may be locked leads, through the *)
(* requirements it names, to features in scope and screens that exist, and *)
(* the criteria are never empty.  (They may still be too long for a task:  *)
(* taskInputSchema allows a criterion 3000 characters, a JSON PRD has      *)
(* room for 9300 and a Markdown one sets no limit; create then refuses a   *)
(* version that is in force.)                                              *)
CriteriaTraceToScope ==
  \A n \in Versions : LET doc == prds[n].doc IN
    /\ doc.criteria # <<>>
    /\ doc.format = "JSON" =>
         \A a \in Range(doc.criteria) :
           \E r \in Range(doc.requirements) :
             r.id \in a.requirements /\ r.feature \in IdsOf(doc.features)
               /\ r.screens \cap IdsOf(doc.screens) # {}

(* A task prepared from the PRD is the only one for the version its key    *)
(* names, however many preparations pass the check for a duplicate at once.*)
(* With automatic locking both the version in the key and the one carried  *)
(* have been in force; with the approval workflow a requested revision may *)
(* take a version out of force again between the reads of a preparation.   *)
TasksCarryLockedPrd ==
  /\ \A t, u \in tasks : t.key = u.key => t = u
  /\ ~approvalEnabled =>
       \A t \in tasks : {prds[t.key].status, prds[t.carried].status} \subseteq {"LOCKED", "SUPERSEDED"}

(* With automatic locking an upload that answers without an error has had  *)
(* its version put in force (and perhaps superseded by now), even when     *)
(* another call locks or supersedes the version half way through.  That    *)
(* holds of uploads through the MCP tools too, as upload does not ask where*)
(* it was called from: docs/api/mcp.md:73, "an uploaded PRD is not approved*)
(* or locked automatically", is not what the code does in this mode.       *)
UploadTakesEffect ==
  \A c \in Uploads :
    ~approvalEnabled /\ At(c, "done") =>
      call[c].prd \in Versions /\ Own(c).status \in {"LOCKED", "SUPERSEDED"}
=============================================================================
