------------------------- MODULE PrdLifecycleProofs -------------------------
(***************************************************************************)
(* What the PRD versions of a project promise for any number of calls,     *)
(* documents, decisions and moves by people.                               *)
(*                                                                         *)
(* A call decides on what it has read and writes later.  That is sound     *)
(* because nothing a call relies on is ever taken back: a version keeps its*)
(* document and the records it was created with, approvals and records are *)
(* only added, and with automatic locking a version that has been in force *)
(* stays LOCKED or SUPERSEDED (Grows).  So each call's knowledge (CallOk)  *)
(* survives the steps of all the others.                                   *)
(***************************************************************************)
EXTENDS PrdLifecycle, MaximumLemmas, SequenceTheorems, TLAPS

PrdRow == [status : PrdStatuses, doc : Documents, approved : BOOLEAN,
           approvals : SUBSET Actions, snapshot : SUBSET Record, known : SUBSET Record]
CallRow == [at : Places, prd : Nat, submit : BOOLEAN, doc : Documents,
            action : Actions, to : ProjectStatuses, then : Places,
            snapshot : SUBSET Record, superseded : SUBSET Nat,
            record : Record, locked : Nat]

\* The types, without those that depend on how many versions there are.
Typed ==
  /\ approvalEnabled \in BOOLEAN
  /\ project \in ProjectStatuses
  /\ prds \in Seq(PrdRow)
  /\ records \subseteq Record
  /\ call \in [Calls -> CallRow]
  /\ moves \in Nat

InForce(n) == prds[n].status \in {"LOCKED", "SUPERSEDED"}

\* What SnapshotFaithful asks of a snapshot for a version that knew these records.
Faithful(snapshot, known) ==
  /\ \A r, s \in snapshot : r.logicalId = s.logicalId => r = s
  /\ \A k \in known : \E r \in snapshot :
       r.logicalId = k.logicalId /\ r.versionNumber >= k.versionNumber

-----------------------------------------------------------------------------
(* What a call knows, by where it is.                                      *)

Changing == {"moving", "writing"}
Approving == {"review", "reviewing", "deciding", "lock", "locking"}
Automatic == {"autoLock", "superseding", "autoLocking", "settling", "settled"}
Owning == Changing \cup Approving \cup Automatic \cup {"created", "snapshot", "checking", "inserting"}

\* Where a call goes on when the project has moved.
Ahead(c) == IF call[c].at \in Changing THEN call[c].then ELSE call[c].at

\* Its versions exist, and it is where its operation and the mode can bring it.
CallPlaced(c) ==
  /\ call[c].at \in Owning => call[c].prd \in Versions
  /\ At(c, "creating") => call[c].prd \in Versions \cup {Len(prds) + 1}
  /\ At(c, "inserting") => call[c].locked \in Versions
  /\ call[c].superseded \subseteq Versions
  /\ call[c].at \in Changing => call[c].then \in {"review", "autoLock", "lock", "settled", "done"}
  /\ c \in Uploads => call[c].at \notin {"noting", "checking", "inserting"}
  /\ c \in Uploads /\ At(c, "done") => call[c].prd \in Versions
  /\ call[c].at \in {"numbering", "creating"} => Accepted(call[c].doc)
  /\ IF approvalEnabled THEN Ahead(c) \notin Automatic ELSE Ahead(c) \notin Approving

\* With automatic locking: what it moves the project for is in force.
Settling(c) ==
  \/ Ahead(c) \in {"settling", "settled"}
  \/ call[c].at \in Changing /\ call[c].then = "done"
  \/ call[c].at \in {"checking", "inserting"}
  \/ c \in Uploads /\ At(c, "done")

CallSettles(c) ==
  ~approvalEnabled =>
    /\ Settling(c) => InForce(call[c].prd)
    /\ At(c, "inserting") => InForce(call[c].locked)
    /\ call[c].at \in Changing =>
         call[c].to \in {"PRD_DRAFT", "PRD_APPROVED"} \/ (call[c].to = "PRD_LOCKED" /\ call[c].then = "done")

\* What it is about to lock has been approved, and its snapshot is good for it.
CallLocks(c) ==
  /\ approvalEnabled /\ call[c].at \in {"snapshot", "locking"} => "APPROVE" \in Own(c).approvals
  /\ call[c].at \in {"locking", "superseding", "autoLocking"} => Faithful(call[c].snapshot, Own(c).known)

CallOk(c) == CallPlaced(c) /\ CallSettles(c) /\ CallLocks(c)

-----------------------------------------------------------------------------
(* What the rows say.                                                      *)

RowOk(n) ==
  /\ Accepted(prds[n].doc)
  /\ prds[n].known \subseteq records
  /\ approvalEnabled /\ (prds[n].approved \/ prds[n].status = "LOCKED") => "APPROVE" \in prds[n].approvals
  /\ prds[n].status = "LOCKED" => Faithful(prds[n].snapshot, prds[n].known)

RecordsBounded == \E bound \in Nat : \A r \in records : r.versionNumber <= bound

TasksOk ==
  /\ \A t \in tasks : t \in [by : Calls, key : Versions, carried : Versions]
  /\ \A t, u \in tasks : t.key = u.key => t = u
  /\ ~approvalEnabled => \A t \in tasks : InForce(t.key) /\ InForce(t.carried)

\* Superseding always leaves a successor.
ForceKept == ~approvalEnabled => ((\E n \in Versions : InForce(n)) => LockedVersions # {})

PrdInv ==
  /\ Typed
  /\ \A c \in Calls : CallOk(c)
  /\ \A n \in Versions : RowOk(n)
  /\ RecordsBounded
  /\ TasksOk
  /\ ForceKept

\* The statuses a project reaches by PRD_LOCKED only.
Beyond == AfterLock \cup {"DEVELOPMENT_QUEUED", "DEVELOPING", "SIGNED", "RELEASED"}
ProjectInv ==
  /\ byHand \in BOOLEAN
  /\ ~approvalEnabled /\ project \in Beyond => LockedVersions # {} \/ byHand

-----------------------------------------------------------------------------
(* Frames.                                                                 *)

(* The row every call starts from, and a finished one goes back to.        *)
LEMMA FirstRow ==
  /\ NoCall \in CallRow /\ NoCall.at = "idle" /\ NoCall.superseded = {}
  /\ NoCall.prd = 0 /\ NoCall.then = "done"
<1>1. (CHOOSE d \in Documents : TRUE) \in Documents /\ (CHOOSE l \in LogicalIds : TRUE) \in LogicalIds
  BY DocumentsAssumption, LogicalIdsAssumption
<1>2. NoRecord \in Record
  BY <1>1 DEF NoRecord, Record
<1>3. "IDEA" \in ProjectStatuses
  BY DEF ProjectStatuses, allowedProjectTransitions
<1> QED
  BY <1>1, <1>2, <1>3 DEF NoCall, CallRow, Places, Actions

(* The statuses the calls move the project to.                             *)
LEMMA MoveTargets ==
  {"PRD_DRAFT", "PRD_REVIEW", "PRD_APPROVED", "PRD_LOCKED", "REVISION_REQUIRED", "REJECTED"}
    \subseteq ProjectStatuses
  BY DEF ProjectStatuses, allowedProjectTransitions

(* A project without versions satisfies the invariant. *)
LEMMA InitPrdInv == Init => PrdInv
<1> SUFFICES ASSUME Init PROVE PrdInv
  OBVIOUS
<1>1. Typed
  BY FirstRow, ModesAssumption, EmptySeq DEF Init, Typed, ProjectStatuses, allowedProjectTransitions
<1>2. Versions = {}
  BY DEF Init, Versions
<1>3. \A c \in Calls : CallOk(c)
  BY FirstRow DEF Init, CallOk, CallPlaced, CallSettles, CallLocks, Settling, Ahead, At, Changing,
                  Approving, Automatic, Owning
<1>4. RecordsBounded
  BY DEF Init, RecordsBounded
<1> QED
  BY <1>1, <1>2, <1>3, <1>4 DEF Init, PrdInv, TasksOk, ForceKept

(* What no step takes back.                                                *)
Grows ==
  /\ approvalEnabled' = approvalEnabled
  /\ records \subseteq records'
  /\ Versions \subseteq Versions'
  /\ Len(prds) + 1 \in Versions' \/ Len(prds') = Len(prds)
  /\ \A n \in Versions :
       /\ prds'[n].known = prds[n].known
       /\ prds[n].approvals \subseteq prds'[n].approvals
       /\ ~approvalEnabled /\ InForce(n) => prds'[n].status \in {"LOCKED", "SUPERSEDED"}

(* What a call knows survives the steps of the others.                     *)
LEMMA OthersKeep ==
  ASSUME Grows, NEW d \in Calls, CallOk(d), call'[d] = call[d]
  PROVE  CallOk(d)'
<1>1. /\ call[d].prd \in Versions => call[d].prd \in Versions'
      /\ call[d].prd \in Versions \cup {Len(prds) + 1} => call[d].prd \in Versions' \cup {Len(prds') + 1}
      /\ call[d].locked \in Versions => call[d].locked \in Versions'
      /\ call[d].superseded \subseteq Versions => call[d].superseded \subseteq Versions'
  BY DEF Grows
<1>2. CallPlaced(d)'
  BY <1>1 DEF CallOk, CallPlaced, Grows, At, Ahead
<1>3. CallSettles(d)'
  <2>1. Settling(d)' <=> Settling(d)
    BY DEF Settling, Ahead, At
  <2>2. Settling(d) /\ ~approvalEnabled => call[d].prd \in Versions
    BY DEF CallOk, CallPlaced, Settling, Ahead, Owning, Changing, Automatic, At
  <2>3. At(d, "inserting") => call[d].locked \in Versions
    BY DEF CallOk, CallPlaced
  <2> QED
    BY <2>1, <2>2, <2>3 DEF CallOk, CallSettles, Grows, At, InForce
<1>4. CallLocks(d)'
  <2>1. call[d].at \in {"snapshot", "locking", "superseding", "autoLocking"} => call[d].prd \in Versions
    BY DEF CallOk, CallPlaced, Owning, Approving, Automatic
  <2> QED
    BY <2>1 DEF CallOk, CallLocks, Grows, Own
<1> QED
  BY <1>2, <1>3, <1>4 DEF CallOk

(* What other calls know stays true, since nothing stored is taken back. *)
LEMMA OneCallMoves ==
  ASSUME PrdInv, Grows, NEW c \in Calls, \A d \in Calls : d # c => call'[d] = call[d], CallOk(c)'
  PROVE  \A d \in Calls : CallOk(d)'
<1> SUFFICES ASSUME NEW d \in Calls PROVE CallOk(d)'
  OBVIOUS
<1>1. CASE d # c
  BY <1>1, OthersKeep DEF PrdInv
<1>2. CASE d = c
  BY <1>2 DEF CallOk, CallPlaced, CallSettles, CallLocks, Settling, Ahead, At, Own, InForce
<1> QED
  BY <1>1, <1>2

(* A step that leaves the rows alone.                                      *)
LEMMA CallStep ==
  ASSUME PrdInv, NEW c \in Calls, UNCHANGED <<approvalEnabled, prds, records, tasks>>,
         project' \in ProjectStatuses, moves' \in Nat,
         call' \in [Calls -> CallRow], \A d \in Calls : d # c => call'[d] = call[d], CallOk(c)'
  PROVE  PrdInv' /\ Grows
<1>1. Grows
  BY DEF Grows, Versions, InForce
<1>2. \A d \in Calls : CallOk(d)'
  BY <1>1, OneCallMoves
<1>3. (\A n \in Versions : RowOk(n))' /\ RecordsBounded' /\ TasksOk' /\ ForceKept'
  BY DEF PrdInv, RowOk, RecordsBounded, TasksOk, ForceKept, InForce, Versions, LockedVersions
<1>4. Typed'
  BY DEF PrdInv, Typed
<1> QED
  BY <1>1, <1>2, <1>3, <1>4 DEF PrdInv

(* What the invariant says of one call. *)
LEMMA CallFits == ASSUME PrdInv, NEW c \in Calls PROVE call[c] \in CallRow /\ CallOk(c) /\ Typed
  BY DEF PrdInv, Typed

(* Goes: a call that is over keeps only the version it was about.          *)
LEMMA GoesTo ==
  ASSUME PrdInv, NEW c \in Calls, NEW place \in Places, Goes(c, place)
  PROVE  /\ call' \in [Calls -> CallRow] /\ \A d \in Calls : d # c => call'[d] = call[d]
         /\ call'[c].at = place /\ call'[c].prd = call[c].prd
         /\ place \in Over => call'[c].superseded = {}
         /\ place \notin Over =>
              /\ call'[c].superseded = call[c].superseded /\ call'[c].doc = call[c].doc
              /\ call'[c].then = call[c].then /\ call'[c].to = call[c].to
              /\ call'[c].snapshot = call[c].snapshot /\ call'[c].locked = call[c].locked
<1>1. call \in [Calls -> CallRow] /\ call[c] \in CallRow
  BY DEF PrdInv, Typed
<1>2. CASE place \in Over
  <2>1. call' = [call EXCEPT ![c] = [NoCall EXCEPT !.at = place, !.prd = call[c].prd]]
    BY <1>2 DEF Goes
  <2> QED
    BY <1>1, <1>2, <2>1, FirstRow DEF CallRow
<1>3. CASE place \notin Over
  <2>1. call' = [call EXCEPT ![c] = [call[c] EXCEPT !.at = place]]
    BY <1>3 DEF Goes
  <2> QED
    BY <1>1, <1>3, <2>1 DEF CallRow
<1> QED
  BY <1>2, <1>3

-----------------------------------------------------------------------------
(* The steps that only read.                                               *)

(* A reading step that goes to a place where its call fits.                *)
LEMMA GoingStep ==
  ASSUME PrdInv, NEW c \in Calls, NEW place \in Places, Goes(c, place),
         UNCHANGED <<approvalEnabled, prds, records, tasks>>,
         project' \in ProjectStatuses, moves' \in Nat,
         call'[c].at = place /\ call'[c].prd = call[c].prd /\ (call'[c].superseded \subseteq Versions)
           => CallOk(c)'
  PROVE  PrdInv' /\ Grows
<1>1. call[c].superseded \subseteq Versions
  BY CallFits DEF CallOk, CallPlaced
<1>2. call' \in [Calls -> CallRow] /\ \A d \in Calls : d # c => call'[d] = call[d]
  BY GoesTo
<1>3. call'[c].at = place /\ call'[c].prd = call[c].prd /\ (call'[c].superseded \subseteq Versions)
  BY <1>1, GoesTo
<1>4. CallOk(c)'
  BY <1>3
<1> QED
  BY <1>2, <1>4, CallStep

(* A refused call knows nothing.                                           *)
LEMMA RefusedStep ==
  ASSUME PrdInv, NEW c \in Calls, Goes(c, "refused"),
         UNCHANGED <<approvalEnabled, project, prds, records, tasks, moves>>
  PROVE  PrdInv' /\ Grows
<1>1. project' \in ProjectStatuses /\ moves' \in Nat
  BY DEF PrdInv, Typed
<1>2. call'[c].at = "refused" /\ (call'[c].superseded \subseteq Versions) => CallOk(c)'
  BY DEF CallOk, CallPlaced, CallSettles, CallLocks, Settling, Ahead, At, Owning, Changing,
         Approving, Automatic, Versions
<1>3. "refused" \in Places
  BY DEF Places
<1> QED
  BY <1>1, <1>2, <1>3, GoingStep

(* transitionSystem hands its caller on, to where the caller said.         *)
LEMMA HandsOn ==
  ASSUME PrdInv, NEW c \in Calls, call[c].at \in Changing, Goes(c, call[c].then),
         UNCHANGED <<approvalEnabled, prds, records, tasks>>,
         project' \in ProjectStatuses, moves' \in Nat
  PROVE  PrdInv' /\ Grows
<1>1. CallOk(c) /\ call[c].then \in {"review", "autoLock", "lock", "settled", "done"}
  BY CallFits DEF CallOk, CallPlaced
<1>2. call[c].then \in Places
  BY <1>1 DEF Places
<1>3. ASSUME call'[c].at = call[c].then, call'[c].prd = call[c].prd, call'[c].superseded \subseteq Versions
      PROVE  CallOk(c)'
  <2>1. CallPlaced(c)'
    BY <1>1, <1>3 DEF CallOk, CallPlaced, Ahead, At, Owning, Changing, Approving, Automatic, Versions
  <2>2. CallSettles(c)'
    BY <1>1, <1>3 DEF CallOk, CallSettles, Settling, Ahead, At, Changing, InForce
  <2>3. CallLocks(c)'
    BY <1>1, <1>3 DEF CallLocks
  <2> QED
    BY <2>1, <2>2, <2>3 DEF CallOk
<1> QED
  BY <1>2, <1>3, GoingStep

(* transitionSystem, its read and its update. *)
LEMMA MovingSteps ==
  ASSUME PrdInv, NEW c \in Calls, MoveReads(c) \/ MoveWrites(c)
  PROVE  PrdInv' /\ Grows
<1>0. call[c] \in CallRow /\ CallOk(c) /\ Typed
  BY CallFits
<1>1. CASE MoveWrites(c)
  <2>1. project' \in ProjectStatuses /\ moves' \in Nat
    BY <1>0, <1>1 DEF MoveWrites, CallRow, Typed
  <2> QED
    BY <1>1, <2>1, HandsOn DEF MoveWrites, At, Changing
<1>2. CASE MoveReads(c)
  <2>1. project' \in ProjectStatuses /\ moves' \in Nat /\ UNCHANGED <<approvalEnabled, prds, records, tasks>>
    BY <1>0, <1>2 DEF MoveReads, OnlyCalls, Typed
  <2>2. CASE Goes(c, call[c].then)
    BY <1>2, <2>1, <2>2, HandsOn DEF MoveReads, At, Changing
  <2>3. CASE Goes(c, "refused")
    BY <1>2, <2>3, RefusedStep DEF MoveReads, OnlyCalls
  <2>4. CASE Goes(c, "writing")
    <3>1. /\ call' \in [Calls -> CallRow] /\ \A d \in Calls : d # c => call'[d] = call[d]
          /\ call'[c].at = "writing" /\ call'[c].prd = call[c].prd /\ call'[c].superseded = call[c].superseded
          /\ call'[c].then = call[c].then /\ call'[c].to = call[c].to
      BY <2>4, GoesTo DEF Places, Over
    <3>2. call[c].at = "moving"
      BY <1>2 DEF MoveReads, At
    <3>3. CallOk(c)'
      BY <1>0, <2>1, <3>1, <3>2 DEF CallOk, CallPlaced, CallSettles, CallLocks, Settling, Ahead, At, Owning,
         Changing, Versions, InForce
    <3> QED
      BY <2>1, <3>1, <3>3, CallStep
  <2> QED
    BY <1>2, <2>2, <2>3, <2>4 DEF MoveReads
<1> QED
  BY <1>1, <1>2

\* A call begins, or takes down what it has read: its row is rewritten in place.
Rewrites(c, row) == call' = [call EXCEPT ![c] = row]

(* An await of a call that only changes the call's own locals. *)
LEMMA RewritingStep ==
  ASSUME PrdInv, NEW c \in Calls, NEW row \in CallRow, Rewrites(c, row), OnlyCalls,
         call'[c] = row => CallOk(c)'
  PROVE  PrdInv' /\ Grows
<1>1. call' \in [Calls -> CallRow] /\ call'[c] = row /\ \A d \in Calls : d # c => call'[d] = call[d]
  BY DEF PrdInv, Typed, Rewrites
<1>2. /\ UNCHANGED <<approvalEnabled, prds, records, tasks>>
      /\ project' \in ProjectStatuses /\ moves' \in Nat
  BY DEF PrdInv, Typed, OnlyCalls
<1> QED
  BY <1>1, <1>2, CallStep

(* upload before its insert, and its move of the project after it. *)
LEMMA UploadReads ==
  ASSUME PrdInv, NEW c \in Calls,
         \/ c \in Uploads /\ UploadChecks(c)
         \/ UploadNumbers(c)
         \/ UploadMoves(c)
  PROVE  PrdInv' /\ Grows
<1> USE DEF CallOk, CallPlaced, CallSettles, CallLocks, Settling, Ahead, At, Owning, Changing,
            Approving, Automatic, Versions
<1>0. call[c] \in CallRow /\ CallOk(c) /\ Typed
  BY CallFits
<1>1. CASE c \in Uploads /\ UploadChecks(c)
  <2>1. PICK doc \in Documents, submit \in BOOLEAN :
          /\ Accepted(doc)
          /\ call' = [call EXCEPT ![c].at = "numbering", ![c].doc = doc, ![c].submit = submit]
    BY <1>1 DEF UploadChecks
  <2> DEFINE row == [call[c] EXCEPT !.at = "numbering", !.doc = doc, !.submit = submit]
  <2>2. row \in CallRow /\ Rewrites(c, row)
    BY <1>0, <2>1 DEF CallRow, Places, Rewrites, Typed
  <2>3. row.at = "numbering" /\ row.doc = doc /\ row.superseded = call[c].superseded
    BY <1>0 DEF CallRow
  <2> HIDE DEF row
  <2>4. call'[c] = row => CallOk(c)'
    BY <1>0, <1>1, <2>1, <2>3 DEF OnlyCalls, UploadChecks
  <2> QED
    BY <1>1, <2>2, <2>4, RewritingStep DEF UploadChecks
<1>2. CASE UploadNumbers(c)
  <2> DEFINE row == [call[c] EXCEPT !.at = "creating", !.prd = Len(prds) + 1]
  <2>1. Len(prds) + 1 \in Nat
    BY <1>0, LenProperties DEF Typed
  <2>2. row \in CallRow /\ Rewrites(c, row)
    BY <1>0, <1>2, <2>1 DEF CallRow, Places, Rewrites, Typed, UploadNumbers
  <2>3. row.at = "creating" /\ row.prd = Len(prds) + 1 /\ row.doc = call[c].doc /\ row.superseded = call[c].superseded
    BY <1>0 DEF CallRow
  <2> HIDE DEF row
  <2>4. call'[c] = row => CallOk(c)'
    BY <1>0, <1>2, <2>3 DEF OnlyCalls, UploadNumbers
  <2> QED
    BY <1>2, <2>2, <2>4, RewritingStep DEF UploadNumbers
<1>3. CASE UploadMoves(c)
  <2>0. /\ AfterUpload(c) \in {"autoLock", "review", "done"}
        /\ IF approvalEnabled THEN AfterUpload(c) # "autoLock" ELSE AfterUpload(c) = "autoLock"
        /\ UNCHANGED <<approvalEnabled, project, prds, records, tasks, moves>>
    BY <1>0, <1>3 DEF AfterUpload, Typed, UploadMoves, OnlyCalls
  <2>1. CASE Moving(c, "PRD_DRAFT", AfterUpload(c))
    <3> DEFINE row == [call[c] EXCEPT !.at = "moving", !.to = "PRD_DRAFT", !.then = AfterUpload(c)]
    <3>1. AfterUpload(c) \in Places
      BY <2>0 DEF Places
    <3>2. row \in CallRow /\ Rewrites(c, row)
      BY <1>0, <2>1, <3>1, MoveTargets DEF CallRow, Places, Rewrites, Typed, Moving
    <3>3. /\ row.at = "moving" /\ row.prd = call[c].prd /\ row.superseded = call[c].superseded
          /\ row.to = "PRD_DRAFT" /\ row.then = AfterUpload(c)
      BY <1>0 DEF CallRow
    <3> HIDE DEF row
    <3>4. call'[c] = row => CallOk(c)'
      BY <1>0, <1>3, <2>0, <3>3 DEF UploadMoves
    <3> QED
      BY <1>3, <3>2, <3>4, RewritingStep DEF UploadMoves
  <2>2. CASE Goes(c, AfterUpload(c))
    <3>1. project' \in ProjectStatuses /\ moves' \in Nat /\ AfterUpload(c) \in Places
      BY <1>0, <2>0 DEF Typed, Places
    <3>2. call'[c].at = AfterUpload(c) /\ call'[c].prd = call[c].prd /\ (call'[c].superseded \subseteq Versions)
             => CallOk(c)'
      BY <1>0, <1>3, <2>0 DEF UploadMoves
    <3> QED
      BY <2>0, <2>2, <3>1, <3>2, GoingStep
  <2> QED
    BY <1>3, <2>1, <2>2 DEF UploadMoves
<1> QED
  BY <1>1, <1>2, <1>3

(* requestReview, approve, lock: how they begin.                           *)
LEMMA RequestSteps ==
  ASSUME PrdInv, NEW c \in Calls, RequestsReview(c) \/ ApproveReads(c) \/ RequestsLock(c)
  PROVE  PrdInv' /\ Grows
<1> USE DEF CallOk, CallPlaced, CallSettles, CallLocks, Settling, Ahead, At, Owning, Changing,
            Approving, Automatic, Versions
<1>0. call[c] \in CallRow /\ CallOk(c) /\ Typed
  BY CallFits
<1>1. ASSUME NEW place \in {"review", "deciding", "lock", "autoLock"}, NEW n \in Versions, NEW action \in Actions,
             IF approvalEnabled THEN place # "autoLock" ELSE place = "autoLock",
             call' = [call EXCEPT ![c] = [call[c] EXCEPT !.at = place, !.prd = n, !.action = action]],
             OnlyCalls
      PROVE  PrdInv' /\ Grows
  <2> DEFINE row == [call[c] EXCEPT !.at = place, !.prd = n, !.action = action]
  <2>1. n \in Nat
    BY <1>0, LenProperties DEF Typed
  <2>2. row \in CallRow /\ Rewrites(c, row)
    BY <1>0, <1>1, <2>1 DEF CallRow, Places, Rewrites
  <2>3. row.at = place /\ row.prd = n /\ row.superseded = call[c].superseded
    BY <1>0 DEF CallRow
  <2> HIDE DEF row
  <2>4. call'[c] = row => CallOk(c)'
    BY <1>0, <1>1, <2>3 DEF OnlyCalls
  <2> QED
    BY <1>1, <2>2, <2>4, RewritingStep
<1>2. approvalEnabled \in BOOLEAN /\ call[c].action \in Actions
  BY <1>0 DEF Typed, CallRow
<1>3. CASE RequestsReview(c) \/ RequestsLock(c)
  <2>1. PICK place \in {"review", "lock", "autoLock"}, n \in Versions :
          /\ IF approvalEnabled THEN place # "autoLock" ELSE place = "autoLock"
          /\ call' = [call EXCEPT ![c].at = place, ![c].prd = n]
    BY <1>3 DEF RequestsReview, RequestsLock
  <2>2. call' = [call EXCEPT ![c] = [call[c] EXCEPT !.at = place, !.prd = n, !.action = call[c].action]]
    BY <1>0, <2>1 DEF CallRow, Typed
  <2>3. OnlyCalls
    BY <1>3 DEF RequestsReview, RequestsLock
  <2> HIDE DEF OnlyCalls
  <2>4. place \in {"review", "deciding", "lock", "autoLock"}
    OBVIOUS
  <2> QED
    BY <1>1, <1>2, <2>1, <2>2, <2>3, <2>4
<1>4. CASE ApproveReads(c)
  <2>1. PICK n \in Versions, action \in Actions :
          call' = [call EXCEPT ![c].at = "deciding", ![c].prd = n, ![c].action = action]
    BY <1>4 DEF ApproveReads
  <2>2. call' = [call EXCEPT ![c] = [call[c] EXCEPT !.at = "deciding", !.prd = n, !.action = action]]
    BY <1>0, <2>1 DEF CallRow, Typed
  <2> QED
    BY <1>1, <1>4, <2>2 DEF ApproveReads
<1> QED
  BY <1>3, <1>4

(* The locks and the review look at their version.                         *)
LEMMA OwnRead ==
  ASSUME PrdInv, NEW c \in Calls, ReviewReads(c) \/ LockReads(c) \/ AutoLockReads(c)
  PROVE  PrdInv' /\ Grows
<1> USE DEF CallOk, CallPlaced, CallSettles, CallLocks, Settling, Ahead, At, Owning, Changing,
            Approving, Automatic, Versions
<1>0. call[c] \in CallRow /\ CallOk(c) /\ Typed
  BY CallFits
<1>1. /\ project' \in ProjectStatuses /\ moves' \in Nat /\ {"reviewing", "snapshot", "done"} \subseteq Places
      /\ UNCHANGED <<approvalEnabled, project, prds, records, tasks, moves>>
  BY <1>0 DEF ReviewReads, LockReads, AutoLockReads, OnlyCalls, Typed, Places
<1>2. call[c].prd \in Versions /\ RowOk(call[c].prd)
  BY <1>0 DEF ReviewReads, LockReads, AutoLockReads, PrdInv
<1>3. CASE ReviewReads(c) /\ Goes(c, "reviewing")
  <2>1. call'[c].at = "reviewing" /\ call'[c].prd = call[c].prd /\ (call'[c].superseded \subseteq Versions)
           => CallOk(c)'
    BY <1>0, <1>1, <1>2, <1>3 DEF ReviewReads
  <2> QED
    BY <1>1, <1>3, <2>1, GoingStep
<1>4. CASE LockReads(c) /\ Goes(c, "snapshot") /\ Lockable(Own(c))
  <2>1. approvalEnabled
    BY <1>0, <1>4 DEF LockReads
  <2>2. call'[c].at = "snapshot" /\ call'[c].prd = call[c].prd /\ (call'[c].superseded \subseteq Versions)
           => CallOk(c)'
    BY <1>0, <1>1, <1>2, <1>4, <2>1 DEF LockReads, Lockable, RowOk, Own
  <2> QED
    BY <1>1, <1>4, <2>2, GoingStep
<1>5. CASE AutoLockReads(c) /\ Goes(c, "snapshot")
  <2>1. ~approvalEnabled
    BY <1>0, <1>5 DEF AutoLockReads
  <2>2. call'[c].at = "snapshot" /\ call'[c].prd = call[c].prd /\ (call'[c].superseded \subseteq Versions)
           => CallOk(c)'
    BY <1>0, <1>1, <1>2, <1>5, <2>1 DEF AutoLockReads
  <2> QED
    BY <1>1, <1>5, <2>2, GoingStep
<1>6. CASE (LockReads(c) \/ AutoLockReads(c)) /\ Own(c).status = "LOCKED" /\ Goes(c, "done")
  <2>1. call'[c].at = "done" /\ call'[c].prd = call[c].prd /\ (call'[c].superseded \subseteq Versions)
           => CallOk(c)'
    BY <1>0, <1>1, <1>2, <1>6 DEF LockReads, AutoLockReads, InForce, Own
  <2> QED
    BY <1>1, <1>6, <2>1, GoingStep
<1>7. CASE Goes(c, "refused")
  BY <1>1, <1>7, RefusedStep
<1> QED
  BY <1>3, <1>4, <1>5, <1>6, <1>7 DEF ReviewReads, LockReads, AutoLockReads

-----------------------------------------------------------------------------
(* latestByLogicalId, lockedPrd and the number of a new record.            *)

(* The snapshot taken of the records is good for all of them.              *)
LEMMA LatestIsFaithful ==
  ASSUME records \subseteq Record, RecordsBounded
  PROVE  /\ latestByLogicalId(records) \in SUBSET records
         /\ Faithful(latestByLogicalId(records), records)
<1>1. ASSUME NEW r \in latestByLogicalId(records), NEW s \in latestByLogicalId(records),
             r.logicalId = s.logicalId
      PROVE  r = s
  <2>1. r \in Record /\ s \in Record
    BY DEF latestByLogicalId
  <2>2. r.versionNumber >= s.versionNumber /\ s.versionNumber >= r.versionNumber
    BY <1>1 DEF latestByLogicalId
  <2> QED
    BY <1>1, <2>1, <2>2 DEF Record
<1>2. ASSUME NEW k \in records
      PROVE  \E r \in latestByLogicalId(records) :
               r.logicalId = k.logicalId /\ r.versionNumber >= k.versionNumber
  <2> DEFINE numbers == {r.versionNumber : r \in {s \in records : s.logicalId = k.logicalId}}
  <2>1. PICK bound \in Nat : \A r \in records : r.versionNumber <= bound
    BY DEF RecordsBounded
  <2>2. numbers \in SUBSET Nat /\ k.versionNumber \in numbers /\ \A v \in numbers : v <= bound
    BY <2>1 DEF Record
  <2>3. Max(numbers) \in numbers /\ \A v \in numbers : Max(numbers) >= v
    <3> HIDE DEF numbers
    <3> QED
      BY <2>2, MaxIsGreatest
  <2>4. PICK r \in records : r.logicalId = k.logicalId /\ r.versionNumber = Max(numbers)
    BY <2>3
  <2>5. r \in latestByLogicalId(records)
    BY <2>3, <2>4 DEF latestByLogicalId
  <2> QED
    BY <2>2, <2>3, <2>4, <2>5
<1> QED
  BY <1>1, <1>2 DEF Faithful, latestByLogicalId

(* Among the LOCKED versions the newest is found.                          *)
LEMMA LockedPrdIsOne ==
  ASSUME Typed, LockedVersions # {}
  PROVE  lockedPrd \in Versions /\ prds[lockedPrd].status = "LOCKED"
<1>1. Len(prds) \in Nat /\ Versions = 1 .. Len(prds)
  BY LenProperties DEF Typed, Versions
<1>2. LockedVersions \in SUBSET Nat /\ \A v \in LockedVersions : v <= Len(prds)
  BY <1>1 DEF LockedVersions
<1>3. Max(LockedVersions) \in LockedVersions
  BY <1>1, <1>2, MaxIsGreatest
<1> QED
  BY <1>3 DEF LockedVersions, lockedPrd

(* The newest version of a decision is a number, 0 when there is none. *)
LEMMA NewestIsNumber == ASSUME PrdInv, NEW l \in LogicalIds PROVE Newest(l) \in Nat
<1> DEFINE numbers == {0} \cup {r.versionNumber : r \in {s \in records : s.logicalId = l}}
<1>1. PICK bound \in Nat : \A r \in records : r.versionNumber <= bound
  BY DEF PrdInv, RecordsBounded
<1>2. numbers \in SUBSET Nat /\ numbers # {} /\ \A v \in numbers : v <= bound
  BY <1>1 DEF PrdInv, Typed, Record
<1>3. Max(numbers) \in numbers
  <2> HIDE DEF numbers
  <2> QED
    BY <1>2, MaxIsGreatest
<1> QED
  BY <1>2, <1>3 DEF Newest

-----------------------------------------------------------------------------
(* Taking down what was read.                                              *)

LEMMA SnapshotSteps ==
  ASSUME PrdInv, NEW c \in Calls, TakesSnapshot(c) \/ Supersedes(c)
  PROVE  PrdInv' /\ Grows
<1> USE DEF CallOk, CallPlaced, CallSettles, CallLocks, Settling, Ahead, At, Owning, Changing,
            Approving, Automatic, Versions
<1>0. call[c] \in CallRow /\ CallOk(c) /\ Typed
  BY CallFits
<1>1. call[c].prd \in Versions /\ Own(c).known \subseteq records
  BY <1>0 DEF TakesSnapshot, Supersedes, PrdInv, RowOk, Own
<1>2. CASE TakesSnapshot(c)
  <2>1. PICK place \in {"locking", "superseding"} :
          /\ place = IF approvalEnabled THEN "locking" ELSE "superseding"
          /\ call' = [call EXCEPT ![c].at = place, ![c].snapshot = latestByLogicalId(records)]
    BY <1>2 DEF TakesSnapshot
  <2>2. PICK snapshot \in SUBSET Record :
          snapshot = latestByLogicalId(records) /\ Faithful(snapshot, Own(c).known)
    BY <1>0, <1>1, LatestIsFaithful DEF Typed, PrdInv, Faithful
  <2> DEFINE row == [call[c] EXCEPT !.at = place, !.snapshot = snapshot]
  <2>3. row \in CallRow /\ Rewrites(c, row)
    BY <1>0, <2>1, <2>2 DEF CallRow, Places, Rewrites, Typed
  <2>4. row.at = place /\ row.snapshot = snapshot /\ row.prd = call[c].prd /\ row.superseded = call[c].superseded
    BY <1>0 DEF CallRow
  <2> HIDE DEF row
  <2>5. call'[c] = row => CallOk(c)'
    BY <1>0, <1>1, <1>2, <2>1, <2>2, <2>4 DEF OnlyCalls, TakesSnapshot, Own
  <2> QED
    BY <1>2, <2>3, <2>5, RewritingStep DEF TakesSnapshot
<1>3. CASE Supersedes(c)
  <2> DEFINE locked == LockedVersions \ {call[c].prd}
             row == [call[c] EXCEPT !.at = "autoLocking", !.superseded = locked]
  <2>1. locked \in SUBSET Versions /\ locked \in SUBSET Nat
    BY <1>0, LenProperties DEF Typed, LockedVersions
  <2>2. row \in CallRow /\ Rewrites(c, row)
    BY <1>0, <1>3, <2>1 DEF CallRow, Places, Rewrites, Typed, Supersedes
  <2>3. row.at = "autoLocking" /\ row.snapshot = call[c].snapshot /\ row.prd = call[c].prd /\ row.superseded = locked
    BY <1>0 DEF CallRow
  <2> HIDE DEF row, locked
  <2>4. call'[c] = row => CallOk(c)'
    BY <1>0, <1>1, <1>3, <2>1, <2>3 DEF OnlyCalls, Supersedes, Own
  <2> QED
    BY <1>3, <2>2, <2>4, RewritingStep DEF Supersedes
<1> QED
  BY <1>2, <1>3

(* What is left of autoLock: the project follows.                          *)
LEMMA SettlingSteps ==
  ASSUME PrdInv, NEW c \in Calls, AutoApproves(c) \/ AutoSettles(c)
  PROVE  PrdInv' /\ Grows
<1> USE DEF CallOk, CallPlaced, CallSettles, CallLocks, Settling, Ahead, At, Owning, Changing,
            Approving, Automatic, Versions
<1>0. call[c] \in CallRow /\ CallOk(c) /\ Typed
  BY CallFits
<1>1. /\ call[c].at \in {"settling", "settled"} /\ ~approvalEnabled /\ call[c].prd \in Versions
      /\ UNCHANGED <<approvalEnabled, project, prds, records, tasks, moves, byHand>>
      /\ project' \in ProjectStatuses /\ moves' \in Nat
  BY <1>0 DEF AutoApproves, AutoSettles, OnlyCalls, Typed
<1>2. ASSUME NEW to, NEW then, (to = "PRD_APPROVED" /\ then = "settled") \/ (to = "PRD_LOCKED" /\ then = "done"),
             Moving(c, to, then)
      PROVE  PrdInv' /\ Grows
  <2> DEFINE row == [call[c] EXCEPT !.at = "moving", !.to = to, !.then = then]
  <2>1. to \in ProjectStatuses /\ then \in Places /\ "moving" \in Places
    BY <1>2, MoveTargets DEF Places
  <2>2. row \in CallRow /\ Rewrites(c, row)
    BY <1>0, <1>2, <2>1 DEF CallRow, Rewrites, Typed, Moving
  <2>3. /\ row.at = "moving" /\ row.prd = call[c].prd /\ row.superseded = call[c].superseded
        /\ row.to = to /\ row.then = then
    BY <1>0 DEF CallRow
  <2> HIDE DEF row
  <2>4. call'[c] = row => CallOk(c)'
    BY <1>0, <1>1, <1>2, <2>3 DEF InForce
  <2> QED
    BY <1>1, <2>2, <2>4, RewritingStep DEF OnlyCalls
<1>3. ASSUME NEW place \in {"settled", "done"}, Goes(c, place) PROVE PrdInv' /\ Grows
  <2>1. call'[c].at = place /\ call'[c].prd = call[c].prd /\ (call'[c].superseded \subseteq Versions)
           => CallOk(c)'
    BY <1>0, <1>1, <1>3 DEF InForce
  <2>2. place \in Places
    BY DEF Places
  <2> QED
    BY <1>1, <1>3, <2>1, <2>2, GoingStep
<1>4. CASE AutoApproves(c)
  <2>1. Moving(c, "PRD_APPROVED", "settled") \/ Goes(c, "settled")
    BY <1>4 DEF AutoApproves
  <2>2. CASE Moving(c, "PRD_APPROVED", "settled")
    BY <1>2, <2>2
  <2>3. CASE Goes(c, "settled")
    BY <1>3, <2>3
  <2> QED
    BY <2>1, <2>2, <2>3
<1>5. CASE AutoSettles(c)
  <2>1. Moving(c, "PRD_LOCKED", "done") \/ Goes(c, "done")
    BY <1>5 DEF AutoSettles
  <2>2. CASE Moving(c, "PRD_LOCKED", "done")
    BY <1>2, <2>2
  <2>3. CASE Goes(c, "done")
    BY <1>3, <2>3
  <2> QED
    BY <2>1, <2>2, <2>3
<1> QED
  BY <1>4, <1>5

(* The records and the task: numbering, and looking for the locked version.*)
LEMMA OtherReads ==
  ASSUME PrdInv, NEW c \in Calls,
         (c \in Notes /\ NoteNumbers(c)) \/ (c \in Prepares /\ PrepareReads(c)) \/ CreateReads(c)
  PROVE  PrdInv' /\ Grows
<1> USE DEF CallOk, CallPlaced, CallSettles, CallLocks, Settling, Ahead, At, Owning, Changing,
            Approving, Automatic, Versions
<1>0. call[c] \in CallRow /\ CallOk(c) /\ Typed
  BY CallFits
<1>1. ASSUME c \in Notes, NoteNumbers(c) PROVE PrdInv' /\ Grows
  <2>1. PICK l \in LogicalIds :
          call' = [call EXCEPT ![c].at = "noting",
                     ![c].record = [logicalId |-> l, versionNumber |-> Newest(l) + 1]]
    BY <1>1 DEF NoteNumbers
  <2>2. PICK record \in Record : record = [logicalId |-> l, versionNumber |-> Newest(l) + 1]
    <3>1. Newest(l) + 1 \in Nat
      BY NewestIsNumber
    <3>2. [logicalId |-> l, versionNumber |-> Newest(l) + 1] \in Record
      BY <3>1 DEF Record
    <3> QED
      BY <3>2
  <2> DEFINE row == [call[c] EXCEPT !.at = "noting", !.record = record]
  <2>3. row \in CallRow /\ Rewrites(c, row)
    BY <1>0, <2>1, <2>2 DEF CallRow, Places, Rewrites, Typed
  <2>4. row.at = "noting" /\ row.superseded = call[c].superseded
    BY <1>0 DEF CallRow
  <2> HIDE DEF row
  <2>5. c \notin Uploads
    BY <1>1, DisjointCalls
  <2>6. call'[c] = row => CallOk(c)'
    BY <1>0, <1>1, <2>4, <2>5 DEF OnlyCalls, NoteNumbers
  <2> QED
    BY <1>1, <2>3, <2>6, RewritingStep DEF NoteNumbers
<1>2. ASSUME c \in Prepares, PrepareReads(c) PROVE PrdInv' /\ Grows
  <2>1. PICK n \in Versions : n = lockedPrd /\ prds[n].status = "LOCKED" /\ n \in Nat
    BY <1>0, <1>2, LockedPrdIsOne, LenProperties DEF PrepareReads, Typed
  <2> DEFINE row == [call[c] EXCEPT !.at = "checking", !.prd = n]
  <2>2. row \in CallRow /\ Rewrites(c, row)
    BY <1>0, <1>2, <2>1 DEF CallRow, Places, Rewrites, Typed, PrepareReads
  <2>3. row.at = "checking" /\ row.prd = n /\ row.superseded = call[c].superseded
    BY <1>0 DEF CallRow
  <2> HIDE DEF row
  <2>4. c \notin Uploads
    BY <1>2, DisjointCalls
  <2>5. call'[c] = row => CallOk(c)'
    BY <1>0, <1>2, <2>1, <2>3, <2>4 DEF OnlyCalls, PrepareReads, InForce
  <2> QED
    BY <1>2, <2>2, <2>5, RewritingStep DEF PrepareReads
<1>3. CASE CreateReads(c)
  <2>1. CASE Goes(c, "refused")
    BY <1>3, <2>1, RefusedStep DEF CreateReads, OnlyCalls
  <2>2. CASE /\ LockedVersions # {}
             /\ call' = [call EXCEPT ![c].at = "inserting", ![c].locked = lockedPrd]
    <3>1. PICK n \in Versions : n = lockedPrd /\ prds[n].status = "LOCKED" /\ n \in Nat
      BY <1>0, <2>2, LockedPrdIsOne, LenProperties DEF Typed
    <3> DEFINE row == [call[c] EXCEPT !.at = "inserting", !.locked = n]
    <3>2. row \in CallRow /\ Rewrites(c, row)
      BY <1>0, <2>2, <3>1 DEF CallRow, Places, Rewrites, Typed
    <3>3. row.at = "inserting" /\ row.prd = call[c].prd /\ row.locked = n /\ row.superseded = call[c].superseded
      BY <1>0 DEF CallRow
    <3> HIDE DEF row
    <3>4. call'[c] = row => CallOk(c)'
      BY <1>0, <1>3, <3>1, <3>3 DEF OnlyCalls, CreateReads, InForce
    <3> QED
      BY <1>3, <3>2, <3>4, RewritingStep DEF CreateReads
  <2> QED
    BY <1>3, <2>1, <2>2 DEF CreateReads
<1> QED
  BY <1>1, <1>2, <1>3

-----------------------------------------------------------------------------
(* The steps that write rows.                                              *)

(* A step that writes PRD versions.                                        *)
LEMMA PrdsStep ==
  ASSUME PrdInv, NEW c \in Calls, Grows, UNCHANGED <<project, records, tasks, moves>>,
         prds' \in Seq(PrdRow), call' \in [Calls -> CallRow],
         \A d \in Calls : d # c => call'[d] = call[d], CallOk(c)',
         \A n \in Versions' : RowOk(n)', ForceKept'
  PROVE  PrdInv' /\ Grows
<1>1. \A d \in Calls : CallOk(d)'
  BY OneCallMoves
<1>2. Typed' /\ RecordsBounded'
  BY DEF PrdInv, Typed, RecordsBounded, Grows
<1>3. TasksOk'
  BY DEF PrdInv, TasksOk, Grows, InForce
<1> QED
  BY <1>1, <1>2, <1>3 DEF PrdInv

(* A version is rewritten in approval mode: it keeps its document, and what*)
(* it says of its approvals is true.                                       *)
LEMMA OneRowStep ==
  ASSUME PrdInv, NEW c \in Calls, NEW n \in Versions, NEW row \in PrdRow, approvalEnabled,
         prds' = [prds EXCEPT ![n] = row], UNCHANGED <<approvalEnabled, project, records, tasks, moves>>,
         row.doc = prds[n].doc, row.known = prds[n].known, prds[n].approvals \subseteq row.approvals,
         row.approved \/ row.status = "LOCKED" => "APPROVE" \in row.approvals,
         row.status = "LOCKED" => Faithful(row.snapshot, row.known),
         call' \in [Calls -> CallRow], \A d \in Calls : d # c => call'[d] = call[d],
         Versions' = Versions => CallOk(c)'
  PROVE  PrdInv' /\ Grows
<1>1. prds \in Seq(PrdRow) /\ Versions = 1 .. Len(prds) /\ Len(prds) \in Nat
  BY LenProperties DEF PrdInv, Typed, Versions
<1>2. /\ prds' \in Seq(PrdRow) /\ Len(prds') = Len(prds)
      /\ \A m \in Versions : prds'[m] = IF m = n THEN row ELSE prds[m]
  BY <1>1, ExceptSeq
<1>3. Versions' = Versions
  BY <1>1, <1>2, LenProperties DEF Versions
<1>4. Grows
  BY <1>2, <1>3 DEF Grows
<1>5. \A m \in Versions' : RowOk(m)'
  <2> SUFFICES ASSUME NEW m \in Versions PROVE RowOk(m)'
    BY <1>3
  <2>1. RowOk(m) /\ RowOk(n)
    BY DEF PrdInv
  <2>2. prds'[m] = IF m = n THEN row ELSE prds[m]
    BY <1>2
  <2> QED
    BY <2>1, <2>2 DEF RowOk
<1>6. ForceKept'
  BY DEF ForceKept
<1> QED
  BY <1>2, <1>3, <1>4, <1>5, <1>6, PrdsStep

(* The insert of a version takes the next position, or fails on a taken number. *)
LEMMA UploadCreatesStep ==
  ASSUME PrdInv, NEW c \in Calls, UploadCreates(c)
  PROVE  PrdInv' /\ Grows
<1> USE DEF CallOk, CallPlaced, CallSettles, CallLocks, Settling, Ahead, At, Owning, Changing,
            Approving, Automatic
<1>0. call[c] \in CallRow /\ CallOk(c) /\ Typed
  BY CallFits
<1>1. CASE Goes(c, "refused") /\ UNCHANGED prds
  BY <1>1, RefusedStep DEF UploadCreates, OnlyPrds
<1>2. CASE call[c].prd \notin Versions /\ prds' = Append(prds, Draft(call[c].doc)) /\ Goes(c, "created")
  <2>1. Draft(call[c].doc) \in PrdRow
    BY <1>0 DEF Draft, PrdRow, CallRow, Typed, PrdStatuses
  <2>2. /\ prds' \in Seq(PrdRow) /\ Len(prds) \in Nat /\ Len(prds') = Len(prds) + 1
        /\ \A m \in 1 .. Len(prds) : prds'[m] = prds[m]
        /\ prds'[Len(prds) + 1] = Draft(call[c].doc)
    BY <1>0, <1>2, <2>1, AppendProperties, LenProperties DEF Typed
  <2>3. Versions = 1 .. Len(prds) /\ Versions' = Versions \cup {Len(prds) + 1}
    BY <1>0, <2>2, LenProperties DEF Versions, Typed
  <2>4. UNCHANGED <<approvalEnabled, project, records, tasks, moves>>
    BY <1>2 DEF UploadCreates, OnlyPrds
  <2>5. Grows
    BY <2>2, <2>3, <2>4 DEF Grows, InForce
  <2>6. \A n \in Versions' : RowOk(n)'
    <3>1. ASSUME NEW n \in Versions PROVE RowOk(n)'
      <4>1. RowOk(n) /\ prds'[n] = prds[n]
        BY <2>2, <2>3 DEF PrdInv
      <4> QED
        BY <2>4, <4>1 DEF RowOk
    <3>2. ASSUME NEW n, n = Len(prds) + 1 PROVE RowOk(n)'
      <4>1. Accepted(call[c].doc)
        BY <1>0, <1>2 DEF UploadCreates
      <4>2. prds'[n] = Draft(call[c].doc)
        BY <2>2, <3>2
      <4> QED
        BY <2>4, <4>1, <4>2 DEF RowOk, Draft
    <3> QED
      BY <2>3, <3>1, <3>2
  <2>7. ForceKept'
    <3>1. \A n \in Versions' : InForce(n)' => n \in Versions /\ InForce(n)
      BY <2>2, <2>3 DEF InForce, Draft
    <3>2. LockedVersions \subseteq LockedVersions'
      BY <2>2, <2>3 DEF LockedVersions
    <3> QED
      BY <2>4, <3>1, <3>2 DEF PrdInv, ForceKept
  <2>8. /\ call' \in [Calls -> CallRow] /\ \A d \in Calls : d # c => call'[d] = call[d]
        /\ call'[c].at = "created" /\ call'[c].prd = call[c].prd
        /\ call'[c].superseded = call[c].superseded
    BY <1>2, GoesTo DEF Places, Over
  <2>9. CallOk(c)'
    BY <1>0, <1>2, <2>3, <2>4, <2>8 DEF UploadCreates
  <2> QED
    BY <2>2, <2>4, <2>5, <2>6, <2>7, <2>8, <2>9, PrdsStep
<1> QED
  BY <1>1, <1>2 DEF UploadCreates

(* requestReview, approve and lock write their version.                    *)
LEMMA ApprovingWrites ==
  ASSUME PrdInv, NEW c \in Calls, ReviewWrites(c) \/ ApproveWrites(c) \/ LockWrites(c)
  PROVE  PrdInv' /\ Grows
<1> USE DEF CallOk, CallPlaced, CallSettles, CallLocks, Settling, Ahead, At, Owning, Changing,
            Approving, Automatic
<1>0. call[c] \in CallRow /\ CallOk(c) /\ Typed
  BY CallFits
<1>1. PICK n \in Versions : n = call[c].prd
  BY <1>0 DEF ReviewWrites, ApproveWrites, LockWrites
<1>2. approvalEnabled /\ UNCHANGED <<approvalEnabled, project, records, tasks, moves>>
  BY <1>0 DEF ReviewWrites, ApproveWrites, LockWrites, OnlyPrds
<1>3. prds[n] \in PrdRow /\ RowOk(n)
  BY <1>0, ElementOfSeq, LenProperties DEF Typed, Versions, PrdInv
<1>4. ASSUME NEW to \in {"PRD_REVIEW", "PRD_APPROVED", "PRD_LOCKED", "REVISION_REQUIRED", "REJECTED"},
             NEW then \in {"done", "lock"}, Moving(c, to, then)
      PROVE  /\ call' \in [Calls -> CallRow] /\ \A d \in Calls : d # c => call'[d] = call[d]
             /\ Versions' = Versions => CallOk(c)'
  <2> DEFINE row == [call[c] EXCEPT !.at = "moving", !.to = to, !.then = then]
  <2>1. to \in ProjectStatuses /\ then \in Places /\ "moving" \in Places
    BY MoveTargets DEF Places
  <2>2. row \in CallRow /\ call' = [call EXCEPT ![c] = row]
    BY <1>0, <1>4, <2>1 DEF CallRow, Typed, Moving
  <2>3. /\ row.at = "moving" /\ row.prd = call[c].prd /\ row.superseded = call[c].superseded
        /\ row.to = to /\ row.then = then
    BY <1>0 DEF CallRow
  <2> HIDE DEF row
  <2>4. call' \in [Calls -> CallRow] /\ call'[c] = row /\ \A d \in Calls : d # c => call'[d] = call[d]
    BY <1>0, <2>2 DEF Typed
  <2>5. Versions' = Versions => CallOk(c)'
    BY <1>0, <1>1, <1>2, <2>3, <2>4
  <2> QED
    BY <2>4, <2>5
<1>5. CASE ReviewWrites(c)
  <2> DEFINE row == [prds[n] EXCEPT !.status = "IN_REVIEW"]
  <2>1. row \in PrdRow /\ prds' = [prds EXCEPT ![n] = row]
    BY <1>0, <1>1, <1>3, <1>5 DEF PrdRow, PrdStatuses, ReviewWrites, Typed
  <2>2. /\ row.status = "IN_REVIEW" /\ row.doc = prds[n].doc /\ row.known = prds[n].known
        /\ row.approvals = prds[n].approvals /\ row.approved = prds[n].approved
    BY <1>3 DEF PrdRow
  <2> HIDE DEF row
  <2>3. row.approved => "APPROVE" \in row.approvals
    BY <1>2, <1>3, <2>2 DEF RowOk
  <2>4. Moving(c, "PRD_REVIEW", "done")
    BY <1>5 DEF ReviewWrites
  <2> QED
    BY <1>2, <1>4, <2>1, <2>2, <2>3, <2>4, OneRowStep
<1>6. CASE LockWrites(c)
  <2> DEFINE row == LockedWith(prds[n], call[c].snapshot)
  <2>1. row \in PrdRow /\ prds' = [prds EXCEPT ![n] = row]
    BY <1>0, <1>1, <1>3, <1>6 DEF PrdRow, PrdStatuses, LockWrites, LockedWith, Typed, CallRow
  <2>2. /\ row.status = "LOCKED" /\ row.doc = prds[n].doc /\ row.known = prds[n].known
        /\ row.approvals = prds[n].approvals /\ row.snapshot = call[c].snapshot
    BY <1>3 DEF PrdRow, LockedWith
  <2> HIDE DEF row
  <2>3. "APPROVE" \in row.approvals /\ Faithful(row.snapshot, row.known)
    BY <1>0, <1>1, <1>2, <1>6, <2>2 DEF LockWrites, Own
  <2>4. Moving(c, "PRD_LOCKED", "done")
    BY <1>6 DEF LockWrites
  <2> QED
    BY <1>2, <1>4, <2>1, <2>2, <2>3, <2>4, OneRowStep
<1>7. CASE ApproveWrites(c)
  <2>0. PICK action \in Actions : action = call[c].action
    BY <1>0 DEF CallRow
  <2> DEFINE row == [prds[n] EXCEPT !.status = Decided(action), !.approvals = prds[n].approvals \cup {action},
                                    !.approved = (action = "APPROVE")]
  <2>1. /\ Decided(action) \in {"APPROVED", "REVISION_REQUIRED", "REJECTED", "IN_REVIEW"}
        /\ action = "APPROVE" \/ Decided(action) # "APPROVED"
    BY DEF Decided
  <2>2. row \in PrdRow /\ prds' = [prds EXCEPT ![n] = row]
    <3>1. Decided(action) \in PrdStatuses /\ prds[n].approvals \cup {action} \in SUBSET Actions
          /\ (action = "APPROVE") \in BOOLEAN
      BY <1>3, <2>1 DEF PrdRow, PrdStatuses
    <3>2. row \in PrdRow
      BY <1>3, <3>1 DEF PrdRow
    <3>3. prds' = [prds EXCEPT ![n] = row]
      BY <1>1, <1>7, <2>0 DEF ApproveWrites, Own
    <3> QED
      BY <3>2, <3>3
  <2>3. /\ row.status = Decided(action) /\ row.doc = prds[n].doc /\ row.known = prds[n].known
        /\ row.approvals = prds[n].approvals \cup {action} /\ row.approved = (action = "APPROVE")
    BY <1>3 DEF PrdRow
  <2> HIDE DEF row
  <2>4. /\ row.approved \/ row.status = "LOCKED" => "APPROVE" \in row.approvals
        /\ row.status # "LOCKED" /\ prds[n].approvals \subseteq row.approvals
    BY <2>1, <2>3
  <2>5. CASE Goes(c, "done")
    <3>1. /\ call' \in [Calls -> CallRow] /\ \A d \in Calls : d # c => call'[d] = call[d]
          /\ call'[c].at = "done" /\ call'[c].prd = call[c].prd /\ call'[c].superseded = {}
      BY <2>5, GoesTo DEF Places, Over
    <3>2. Versions' = Versions => CallOk(c)'
      BY <1>0, <1>1, <1>2, <3>1
    <3> QED
      BY <1>2, <2>2, <2>3, <2>4, <3>1, <3>2, OneRowStep
  <2>6. ASSUME NEW to \in {"PRD_REVIEW", "PRD_APPROVED", "PRD_LOCKED", "REVISION_REQUIRED", "REJECTED"},
               NEW then \in {"done", "lock"}, Moving(c, to, then)
        PROVE  PrdInv' /\ Grows
    BY <1>2, <1>4, <2>2, <2>3, <2>4, <2>6, OneRowStep
  <2>7. \/ Moving(c, "PRD_APPROVED", "lock")
        \/ Goes(c, "done")
        \/ Decided(action) \in {"REVISION_REQUIRED", "REJECTED"} /\ Moving(c, Decided(action), "done")
    BY <1>7, <2>0, <2>1 DEF ApproveWrites
  <2> QED
    BY <2>5, <2>6, <2>7
<1> QED
  BY <1>5, <1>6, <1>7

(* autoLock's transaction: superseding leaves a successor.                 *)
LEMMA AutoLocksStep ==
  ASSUME PrdInv, NEW c \in Calls, AutoLocks(c)
  PROVE  PrdInv' /\ Grows
<1> USE DEF CallOk, CallPlaced, CallSettles, CallLocks, Settling, Ahead, At, Owning, Changing,
            Approving, Automatic
<1>0. call[c] \in CallRow /\ CallOk(c) /\ Typed
  BY CallFits
<1>1. PICK own \in Versions : own = call[c].prd
  BY <1>0 DEF AutoLocks
<1>2. ~approvalEnabled /\ UNCHANGED <<approvalEnabled, project, records, tasks, moves>>
  BY <1>0 DEF AutoLocks, OnlyPrds
<1>3. Len(prds) \in Nat /\ Versions = 1 .. Len(prds) /\ \A n \in Versions : prds[n] \in PrdRow
  BY <1>0, ElementOfSeq, LenProperties DEF Typed, Versions
<1> DEFINE row(n) ==
      CASE n = own -> LockedWith([prds[n] EXCEPT !.approved = TRUE], call[c].snapshot)
        [] n # own /\ n \in call[c].superseded /\ prds[n].status = "LOCKED"
             -> [prds[n] EXCEPT !.status = "SUPERSEDED"]
        [] OTHER -> prds[n]
<1>4. \A n \in Versions : row(n) \in PrdRow
  <2> SUFFICES ASSUME NEW n \in Versions PROVE row(n) \in PrdRow
    OBVIOUS
  <2>1. LockedWith([prds[n] EXCEPT !.approved = TRUE], call[c].snapshot) \in PrdRow
    <3>1. PICK approved \in PrdRow : approved = [prds[n] EXCEPT !.approved = TRUE]
      BY <1>3 DEF PrdRow
    <3>2. call[c].snapshot \in SUBSET Record
      BY <1>0 DEF CallRow
    <3>3. LockedWith(approved, call[c].snapshot) \in PrdRow
      BY <3>2 DEF LockedWith, PrdRow, PrdStatuses
    <3> QED
      BY <3>1, <3>3
  <2>2. [prds[n] EXCEPT !.status = "SUPERSEDED"] \in PrdRow
    BY <1>3 DEF PrdRow, PrdStatuses
  <2> QED
    BY <1>3, <2>1, <2>2
<1>5. \A n \in Versions :
        /\ row(n).doc = prds[n].doc /\ row(n).known = prds[n].known /\ row(n).approvals = prds[n].approvals
        /\ n = own => row(n).status = "LOCKED" /\ row(n).snapshot = call[c].snapshot
        /\ n # own => /\ row(n).snapshot = prds[n].snapshot
                      /\ \/ row(n).status = prds[n].status
                         \/ row(n).status = "SUPERSEDED" /\ prds[n].status = "LOCKED"
  BY <1>3 DEF LockedWith, PrdRow
<1>6. prds' = [n \in 1 .. Len(prds) |-> row(n)]
  BY <1>1, <1>3 DEF AutoLocks, AutoLocked
<1> HIDE DEF row
<1>7. prds' \in Seq(PrdRow) /\ Versions' = Versions /\ Len(prds') = Len(prds) /\ \A n \in Versions : prds'[n] = row(n)
  <2>1. [n \in 1 .. Len(prds) |-> row(n)] \in Seq(PrdRow)
    BY <1>3, <1>4, IsASeq
  <2>2. DOMAIN prds' = 1 .. Len(prds')
    BY <1>6, <2>1, LenProperties
  <2> QED
    BY <1>3, <1>6, <2>1, <2>2, LenProperties DEF Versions
<1>8. Grows
  BY <1>2, <1>5, <1>7 DEF Grows, InForce
<1>9. \A n \in Versions' : RowOk(n)'
  <2> SUFFICES ASSUME NEW n \in Versions PROVE RowOk(n)'
    BY <1>7
  <2>1. RowOk(n)
    BY DEF PrdInv
  <2>2. CASE n = own
    <3>1. Faithful(call[c].snapshot, prds[n].known)
      BY <1>0, <1>1, <2>2 DEF AutoLocks, Own
    <3> QED
      BY <1>2, <1>5, <1>7, <2>1, <2>2, <3>1 DEF RowOk
  <2>3. CASE n # own
    BY <1>2, <1>5, <1>7, <2>1, <2>3 DEF RowOk
  <2> QED
    BY <2>2, <2>3
<1>10. own \in LockedVersions'
  BY <1>5, <1>7 DEF LockedVersions
<1>11. ForceKept'
  BY <1>10 DEF ForceKept
<1>12. /\ call' \in [Calls -> CallRow] /\ \A d \in Calls : d # c => call'[d] = call[d]
       /\ call'[c].at = "settling" /\ call'[c].prd = call[c].prd
       /\ call'[c].superseded = call[c].superseded
  <2>1. Goes(c, "settling")
    BY DEF AutoLocks
  <2> QED
    BY <2>1, GoesTo DEF Places, Over
<1>13. CallOk(c)'
  BY <1>0, <1>1, <1>2, <1>5, <1>7, <1>12 DEF InForce
<1> QED
  BY <1>2, <1>7, <1>8, <1>9, <1>11, <1>12, <1>13, PrdsStep

(* The inserts of a decision and of a prepared task. *)
LEMMA InsertingSteps ==
  ASSUME PrdInv, NEW c \in Calls, NoteInserts(c) \/ CreateInserts(c)
  PROVE  PrdInv' /\ Grows
<1> USE DEF CallOk, CallPlaced, CallSettles, CallLocks, Settling, Ahead, At, Owning, Changing,
            Approving, Automatic, Versions
<1>0. call[c] \in CallRow /\ CallOk(c) /\ Typed
  BY CallFits
<1>1. CASE NoteInserts(c)
  <2>1. UNCHANGED <<approvalEnabled, project, prds, tasks, moves>> /\ c \notin Uploads
    BY <1>0, <1>1 DEF NoteInserts
  <2>2. records' = records \cup {call[c].record} /\ call[c].record \in Record
    BY <1>0, <1>1 DEF NoteInserts, CallRow
  <2>3. /\ call' \in [Calls -> CallRow] /\ \A d \in Calls : d # c => call'[d] = call[d]
        /\ call'[c].at \in Over /\ call'[c].superseded = {}
    <3>1. PICK place \in Over : Goes(c, place)
      BY <1>1 DEF NoteInserts, Over
    <3> QED
      BY <3>1, GoesTo DEF Over, Places
  <2>4. CallOk(c)'
    BY <2>1, <2>3 DEF Over
  <2>5. Grows
    BY <2>1, <2>2 DEF Grows, InForce
  <2>6. RecordsBounded'
    <3>1. PICK bound \in Nat : \A r \in records : r.versionNumber <= bound
      BY DEF PrdInv, RecordsBounded
    <3>2. PICK number \in Nat : number = call[c].record.versionNumber
      BY <2>2 DEF Record
    <3>3. \A r \in records : r.versionNumber <= bound + number
      <4> SUFFICES ASSUME NEW r \in records PROVE r.versionNumber <= bound + number
        OBVIOUS
      <4>1. r.versionNumber \in Nat
        BY <1>0 DEF Typed, Record
      <4> QED
        BY <3>1, <4>1
    <3>4. number <= bound + number
      OBVIOUS
    <3>5. \A r \in records' : r.versionNumber <= bound + number
      BY <2>2, <3>2, <3>3, <3>4
    <3> QED
      BY <3>5 DEF RecordsBounded
  <2>7. (\A n \in Versions : RowOk(n))' /\ TasksOk' /\ ForceKept'
    BY <2>1, <2>2 DEF PrdInv, RowOk, TasksOk, ForceKept, InForce, LockedVersions
  <2>8. Typed'
    BY <1>0, <2>1, <2>2, <2>3 DEF Typed
  <2>9. \A d \in Calls : CallOk(d)'
    BY <2>3, <2>4, <2>5, OneCallMoves
  <2> QED
    BY <2>5, <2>6, <2>7, <2>8, <2>9 DEF PrdInv
<1>2. CASE CreateInserts(c)
  <2>1. UNCHANGED <<approvalEnabled, project, prds, records, moves>> /\ c \notin Uploads
    BY <1>0, <1>2 DEF CreateInserts
  <2>2. /\ call' \in [Calls -> CallRow] /\ \A d \in Calls : d # c => call'[d] = call[d]
        /\ call'[c].at \in Over /\ call'[c].superseded = {}
    <3>1. PICK place \in Over : Goes(c, place)
      BY <1>2 DEF CreateInserts, Over
    <3> QED
      BY <3>1, GoesTo DEF Over, Places
  <2>3. CallOk(c)'
    BY <2>1, <2>2 DEF Over
  <2>4. Grows
    BY <2>1 DEF Grows, InForce
  <2>5. TasksOk'
    <3>1. /\ call[c].prd \in Versions /\ call[c].locked \in Versions
          /\ ~approvalEnabled => InForce(call[c].prd) /\ InForce(call[c].locked)
      BY <1>0, <1>2 DEF CreateInserts
    <3>2. CASE tasks' = tasks
      BY <2>1, <3>2 DEF PrdInv, TasksOk, InForce
    <3>3. CASE /\ \A t \in tasks : t.key # call[c].prd
               /\ tasks' = tasks \cup {[by |-> c, key |-> call[c].prd, carried |-> call[c].locked]}
      BY <2>1, <3>1, <3>3 DEF PrdInv, TasksOk, InForce
    <3> QED
      BY <1>2, <3>2, <3>3 DEF CreateInserts, KeyIsFree
  <2>6. (\A n \in Versions : RowOk(n))' /\ RecordsBounded' /\ ForceKept'
    BY <2>1 DEF PrdInv, RowOk, RecordsBounded, ForceKept, InForce, LockedVersions
  <2>7. Typed'
    BY <1>0, <2>1, <2>2 DEF Typed
  <2>8. \A d \in Calls : CallOk(d)'
    BY <2>2, <2>3, <2>4, OneCallMoves
  <2> QED
    BY <2>4, <2>5, <2>6, <2>7, <2>8 DEF PrdInv
<1> QED
  BY <1>1, <1>2

(* A person's transition is about the project alone. *)
LEMMA PersonMovesStep ==
  ASSUME PrdInv, project' \in ProjectStatuses, moves' \in Nat,
         UNCHANGED <<approvalEnabled, prds, records, tasks, call>>
  PROVE  PrdInv' /\ Grows
<1>1. Typed' /\ RecordsBounded' /\ TasksOk' /\ ForceKept' /\ (\A n \in Versions : RowOk(n))'
  BY DEF PrdInv, Typed, RecordsBounded, TasksOk, ForceKept, RowOk, InForce, Versions, LockedVersions
<1>2. \A d \in Calls : CallOk(d)'
  BY DEF PrdInv, CallOk, CallPlaced, CallSettles, CallLocks, Settling, Ahead, At, Own, InForce, Versions
<1>3. Grows
  BY DEF Grows, Versions, InForce
<1> QED
  BY <1>1, <1>2, <1>3 DEF PrdInv

(* One case per action of Next. *)
LEMMA StepKeepsPrdInv == ASSUME PrdInv, [Next]_vars PROVE PrdInv' /\ Grows
<1>1. ASSUME NEW c \in Calls, Begins(c) PROVE PrdInv' /\ Grows
  BY <1>1, UploadReads, RequestSteps, OtherReads DEF Begins
<1>2. ASSUME NEW c \in Calls, Proceeds(c) PROVE PrdInv' /\ Grows
  BY <1>2, UploadReads, UploadCreatesStep, OwnRead, ApprovingWrites, SnapshotSteps, AutoLocksStep,
     SettlingSteps, InsertingSteps, OtherReads, MovingSteps DEF Proceeds
<1>3. CASE PersonMoves
  <2>1. project' \in ProjectStatuses /\ moves' \in Nat
    BY <1>3, PersonAssumption DEF PersonMoves, PrdInv, Typed
  <2> QED
    BY <1>3, <2>1, PersonMovesStep DEF PersonMoves
<1>4. CASE UNCHANGED vars
  BY <1>4, PersonMovesStep DEF vars, PrdInv, Typed
<1> QED
  BY <1>1, <1>2, <1>3, <1>4 DEF Next

(* Every call's knowledge holds in every state, whatever the others do.    *)
THEOREM PrdInvHolds == Spec => []PrdInv
  BY InitPrdInv, StepKeepsPrdInv, PTL DEF Spec

-----------------------------------------------------------------------------
(* From the statuses before PRD_LOCKED the table leads beyond it by        *)
(* PRD_LOCKED only.                                                        *)
LEMMA OnlyByPrdLocked ==
  ASSUME NEW from \in ProjectStatuses, NEW to, canTransitionProject(from, to), to \in Beyond, from \notin Beyond
  PROVE  to = "PRD_LOCKED"
BY DEF ProjectStatuses, canTransitionProject, allowedProjectTransitions, Beyond, AfterLock, taskReadyStatuses

(* With automatic locking a version in force is only ever replaced by one. *)
LEMMA LockedStaysSome ==
  ASSUME PrdInv, PrdInv', ~approvalEnabled, Grows, LockedVersions # {}
  PROVE  LockedVersions' # {}
<1>1. PICK n \in Versions : InForce(n)
  BY DEF LockedVersions, InForce
<1>2. n \in Versions' /\ InForce(n)'
  BY <1>1 DEF Grows, InForce
<1> QED
  BY <1>2 DEF Grows, PrdInv, ForceKept

(* Only autoLock and lock move the project to PRD_LOCKED, each after its   *)
(* version, but for the moves by hand that byHand remembers.               *)
LEMMA StepKeepsProjectInv ==
  ASSUME PrdInv, PrdInv', ProjectInv, [Next]_vars
  PROVE  ProjectInv'
<1>1. Grows
  BY StepKeepsPrdInv
<1>2. CASE project' = project /\ byHand' = byHand
  BY <1>1, <1>2, LockedStaysSome DEF ProjectInv, Grows
<1>3. CASE PersonMoves
  <2>1. /\ canTransitionProject(project, project')
        /\ byHand' = (byHand \/ (project' = "PRD_LOCKED" /\ LockedVersions = {}))
    BY <1>3 DEF PersonMoves
  <2>2. byHand' \in BOOLEAN /\ (byHand => byHand')
    BY <2>1 DEF ProjectInv
  <2>3. ASSUME ~approvalEnabled, project' \in Beyond PROVE LockedVersions # {} \/ byHand'
    <3>1. CASE project' = "PRD_LOCKED"
      BY <2>1, <3>1
    <3>2. CASE project' # "PRD_LOCKED"
      <4>1. project \in Beyond
        BY <2>1, <2>3, <3>2, OnlyByPrdLocked DEF PrdInv, Typed
      <4> QED
        BY <2>2, <2>3, <4>1 DEF ProjectInv
    <3> QED
      BY <3>1, <3>2
  <2> QED
    BY <1>1, <2>2, <2>3, LockedStaysSome DEF ProjectInv, Grows
<1>4. ASSUME NEW c \in Calls, MoveWrites(c) PROVE ProjectInv'
  <2>1. call[c].at \in Changing /\ project' = call[c].to /\ CallOk(c) /\ byHand' = byHand
    BY <1>4, CallFits DEF MoveWrites, At, Changing
  <2>2. ASSUME ~approvalEnabled, project' \in Beyond PROVE LockedVersions' # {}
    <3>1. call[c].to \notin {"PRD_DRAFT", "PRD_APPROVED"}
      BY <2>1, <2>2 DEF Beyond, AfterLock, taskReadyStatuses
    <3>2. call[c].prd \in Versions /\ InForce(call[c].prd)
      BY <2>1, <2>2, <3>1 DEF CallOk, CallPlaced, CallSettles, Settling, Owning
    <3>3. LockedVersions # {}
      BY <2>2, <3>2 DEF PrdInv, ForceKept
    <3> QED
      BY <1>1, <2>2, <3>3, LockedStaysSome
  <2> QED
    BY <1>1, <2>1, <2>2 DEF ProjectInv, Grows
<1>5. ASSUME NEW c \in Calls, Begins(c) \/ Proceeds(c), ~MoveWrites(c)
      PROVE  project' = project /\ byHand' = byHand
  <2>1. CASE Begins(c)
    BY <2>1 DEF Begins, UploadChecks, RequestsReview, ApproveReads, RequestsLock, NoteNumbers,
                PrepareReads, OnlyCalls
  <2>2. CASE Proceeds(c)
    BY <1>5, <2>2 DEF Proceeds, UploadNumbers, UploadCreates, UploadMoves, ReviewReads, ReviewWrites,
       ApproveWrites, LockReads, TakesSnapshot, LockWrites, AutoLockReads, Supersedes, AutoLocks,
       AutoApproves, AutoSettles, NoteInserts, CreateReads, CreateInserts, MoveReads, OnlyCalls, OnlyPrds
  <2> QED
    BY <1>5, <2>1, <2>2
<1>6. CASE UNCHANGED vars
  BY <1>2, <1>6 DEF vars
<1> QED
  BY <1>2, <1>3, <1>4, <1>5, <1>6 DEF Next

(* How far the project has come is backed by a version or by a person.     *)
THEOREM ProjectInvHolds == Spec => []ProjectInv
<1>1. Init => ProjectInv
  BY DEF Init, ProjectInv, Beyond, AfterLock, taskReadyStatuses
<1>2. PrdInv /\ PrdInv' /\ ProjectInv /\ [Next]_vars => ProjectInv'
  BY StepKeepsProjectInv
<1> QED
  BY <1>1, <1>2, PrdInvHolds, PTL DEF Spec

-----------------------------------------------------------------------------
(* Every variable keeps its type, and no call or task ever names a version *)
(* that does not exist.                                                    *)
THEOREM PrdTypeCorrect == Spec => []TypeOK
<1>1. PrdInv /\ ProjectInv => TypeOK
  <2> SUFFICES ASSUME PrdInv, ProjectInv PROVE TypeOK
    OBVIOUS
  <2>1. Typed /\ \A t \in tasks : t \in [by : Calls, key : Versions, carried : Versions]
    BY DEF PrdInv, TasksOk
  <2>2. \A c \in Calls : call[c] \in CallRow /\ call[c].superseded \subseteq Versions
    BY CallFits DEF CallOk, CallPlaced
  <2> QED
    BY <2>1, <2>2 DEF Typed, TypeOK, PrdRow, CallRow, ProjectInv
<1> QED
  BY <1>1, PrdInvHolds, ProjectInvHolds, PTL

(* With the approval workflow on, a version in force has been approved,    *)
(* whatever decisions and locks race for it.                               *)
THEOREM NothingLockedUnapproved == Spec => []LockedWasApproved
<1>1. PrdInv => LockedWasApproved
  BY DEF PrdInv, LockedWasApproved, LockedVersions, RowOk
<1> QED
  BY <1>1, PrdInvHolds, PTL

(* The snapshot of a version in force is good for what was on record when  *)
(* the version was created.                                                *)
THEOREM SnapshotsFaithful == Spec => []SnapshotFaithful
<1>1. PrdInv => SnapshotFaithful
  BY DEF PrdInv, SnapshotFaithful, LockedVersions, RowOk, Faithful
<1> QED
  BY <1>1, PrdInvHolds, PTL

(* A task carries versions that have been in force, and there is one for   *)
(* each key, however many calls prepare them at once.                      *)
THEOREM TasksCarryLocked == Spec => []TasksCarryLockedPrd
<1>1. PrdInv => TasksCarryLockedPrd
  BY DEF PrdInv, TasksCarryLockedPrd, TasksOk, InForce
<1> QED
  BY <1>1, PrdInvHolds, PTL

(* An upload that is answered without an error has been put in force.      *)
THEOREM UploadsTakeEffect == Spec => []UploadTakesEffect
<1>1. PrdInv => UploadTakesEffect
  BY DEF PrdInv, UploadTakesEffect, CallOk, CallPlaced, CallSettles, Settling, InForce, Own, Calls
<1> QED
  BY <1>1, PrdInvHolds, PTL

(* What the validation of a document is for: in a JSON document each       *)
(* criterion leads to a feature in scope and a screen that exists.         *)
LEMMA AcceptedTraces ==
  ASSUME NEW doc, Accepted(doc)
  PROVE  /\ doc.criteria # <<>>
         /\ doc.format = "JSON" =>
              \A a \in Range(doc.criteria) :
                \E r \in Range(doc.requirements) :
                  r.id \in a.requirements /\ r.feature \in IdsOf(doc.features)
                    /\ r.screens \cap IdsOf(doc.screens) # {}
<1>1. CASE doc.format # "JSON"
  BY <1>1 DEF Accepted
<1>2. CASE doc.format = "JSON"
  <2>1. prdJsonSchema(doc)
    BY <1>2 DEF Accepted
  <2>2. doc.criteria # <<>> /\ RequirementsResolve(doc) /\ CriteriaResolve(doc)
    BY <2>1 DEF prdJsonSchema
  <2>3. ASSUME NEW a \in Range(doc.criteria)
        PROVE  \E r \in Range(doc.requirements) :
                 r.id \in a.requirements /\ r.feature \in IdsOf(doc.features)
                   /\ r.screens \cap IdsOf(doc.screens) # {}
    <3>1. PICK id \in a.requirements : id \in IdsOf(doc.requirements)
      BY <2>2 DEF CriteriaResolve
    <3>2. PICK i \in DOMAIN doc.requirements : doc.requirements[i].id = id
      BY <3>1 DEF IdsOf
    <3>3. doc.requirements[i] \in Range(doc.requirements)
      BY DEF Range
    <3> QED
      BY <2>2, <3>2, <3>3 DEF RequirementsResolve
  <2> QED
    BY <2>2, <2>3
<1> QED
  BY <1>1, <1>2

(* Every version's criteria are there and trace to the product's scope,    *)
(* whatever documents people upload.                                       *)
THEOREM CriteriaAlwaysTrace == Spec => []CriteriaTraceToScope
<1>1. PrdInv => CriteriaTraceToScope
  BY AcceptedTraces DEF PrdInv, RowOk, CriteriaTraceToScope
<1> QED
  BY <1>1, PrdInvHolds, PTL

(* With automatic locking a project that has come as far as PRD_LOCKED has *)
(* a version in force, however uploads supersede each other's, unless a    *)
(* person moved it to PRD_LOCKED by hand when it had none.                 *)
THEOREM LockedProjectHasVersion == Spec => []ProjectLockHasVersion
<1>1. ProjectInv => ProjectLockHasVersion
  BY DEF ProjectInv, ProjectLockHasVersion, Beyond
<1> QED
  BY <1>1, ProjectInvHolds, PTL
=============================================================================
