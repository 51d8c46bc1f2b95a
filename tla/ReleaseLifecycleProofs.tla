----------------------- MODULE ReleaseLifecycleProofs -----------------------
(***************************************************************************)
(* What an approved release promises for any number of calls, reports,     *)
(* pipeline runs, accepted risks and newer PRDs.                           *)
(*                                                                         *)
(* A gate is computed from rows read at different times and decided on     *)
(* later.  What it found stays true because tests, scans and builds are    *)
(* never changed, acceptances are never withdrawn (whether one has expired *)
(* is asked for the time of the gate), and the locked version only grows   *)
(* (Grows).  Two reads of the locked version may differ, but in a known    *)
(* order: a candidate names a version at least as new as its build's, and  *)
(* the gate of its approval reads one at least as new as the candidate's.  *)
(***************************************************************************)
EXTENDS ReleaseLifecycle, SequenceTheorems, TLAPS

TestRow == [commit : Commits, status : Outcomes, failures : BOOLEAN, criteria : BOOLEAN]
ScanRow == [commit : Commits, status : Outcomes, sbom : BOOLEAN, findings : SUBSET AnyFinding]
BuildRow == [commit : Commits, status : {"SUCCEEDED", "FAILED"}, artifact : BOOLEAN, prd : Nat]
ReleaseRow == [build : Nat, test : Nat, scan : Nat, prd : Nat,
               status : {"CANDIDATE", "GATE_BLOCKED", "APPROVED"}, gateAt : Nat, version : Nat,
               approved : BOOLEAN, runs : SUBSET PipelineRuns]
Places == {"idle", "recordTest", "recordScan", "recordBuild", "accepting", "gate", "gateRisks",
           "creating", "approving", "signing", "recording", "gating", "moving", "writing",
           "done", "refused"}
CallRow == [at : Places, goals : Seq(ProjectStatuses), release : Nat, version : Nat, build : Nat,
            test : Nat, scan : Nat, seen : Nat, own : Nat, gate : [passed : BOOLEAN, at : Nat],
            then : Places, rule : Rules \cup {""}, expires : Nat, runs : SUBSET PipelineRuns]

Typed ==
  /\ project \in ProjectStatuses /\ byHand \in BOOLEAN
  /\ locked \in 1 .. MaxPrds
  /\ now \in 0 .. MaxTime
  /\ tests \in Seq(TestRow) /\ scans \in Seq(ScanRow) /\ builds \in Seq(BuildRow)
  /\ releases \in Seq(ReleaseRow)
  /\ call \in [Calls -> CallRow]

-----------------------------------------------------------------------------
(* What the rows say.                                                      *)

\* The evidence a gate computed at this time has found for a build.
Proven(b, t, s, at) ==
  /\ builds[b].commit = tests[t].commit /\ builds[b].commit = scans[s].commit
  /\ tests[t].status = "PASSED" /\ tests[t].criteria /\ ~tests[t].failures
  /\ scans[s].status = "PASSED" /\ scans[s].sbom
  /\ builds[b].status = "SUCCEEDED" /\ builds[b].artifact
  /\ \A f \in scans[s].findings : f.severity # "CRITICAL"
  /\ \A f \in High(scans[s]) : \E a \in AcceptanceOf(s, f.rule) : a.expiresAt > at

\* A run none of whose tools has anything to say, or one without tools.
Clean(run) ==
  \/ run.fake
  \/ /\ \A c \in Commands : run.exit[c] = "ok"
     /\ run.emulator /\ run.spdx /\ "APK" \in run.found /\ run.manifests # {}
     /\ \A f \in builtInSecurityScan(run) : f.severity \in {"MEDIUM", "LOW", "INFO"}

ReleaseOk(r) ==
  /\ r.test \in DOMAIN tests /\ r.scan \in DOMAIN scans /\ r.build \in DOMAIN builds
  /\ r.prd \in 1 .. locked /\ r.gateAt <= now /\ r.version >= 1
  /\ builds[r.build].prd <= r.prd
  /\ r.status \in {"CANDIDATE", "APPROVED"} => Proven(r.build, r.test, r.scan, r.gateAt)
  /\ r.approved => r.prd = builds[r.build].prd
  /\ r.status = "CANDIDATE" => \A run \in r.runs : Clean(run)

AcceptanceOk(a) == a.scan \in DOMAIN scans /\ a.expiresAt \in 1 .. Never

\* What stays true of the releases once it is.
SomeApproved == \E n \in DOMAIN releases : releases[n].approved
SomePassed == \E n \in DOMAIN releases : releases[n].status = "CANDIDATE" \/ releases[n].version > 1

Backed(status) ==
  /\ status = "FINAL_APPROVAL" => SomeApproved
  /\ status = "RELEASE_CANDIDATE" => SomePassed

-----------------------------------------------------------------------------
(* What a call knows, by where it is.                                      *)

Gating == {"gate", "gateRisks", "creating", "approving", "signing"}

\* Its rows exist, and it decides what its operation asked the gate for.
CallPlaced(k) ==
  /\ k.at = "idle" => k = NoCall
  /\ k.at \in Gating <=> k.then # "done"
  /\ k.then \in {"creating", "approving", "signing", "done"}
  /\ k.at \in {"creating", "approving", "signing"} => k.then = k.at
  /\ k.at \in Gating \cup {"gating"} =>
       k.build \in DOMAIN builds /\ k.test \in DOMAIN tests /\ k.scan \in DOMAIN scans
  /\ k.at = "accepting" => k.scan \in DOMAIN scans /\ k.expires \in 1 .. Never
  /\ k.at = "writing" => k.goals # <<>>
  /\ \A i \in DOMAIN k.goals : Backed(k.goals[i])
  /\ k.at \in {"recordTest", "recordScan"} =>
       \A i \in DOMAIN k.goals : k.goals[i] \in {"QA_TESTING", "SECURITY_REVIEW"}

\* The versions of the PRD it has read, in the order it read them.
CallReadsPrds(k) ==
  /\ k.own <= locked /\ k.gate.at <= now
  /\ k.at \in {"recordBuild", "recording", "gating"} => k.own >= 1
  /\ k.then = "creating" => k.own = 0 \/ builds[k.build].prd <= k.own
  /\ k.then \in {"approving", "signing"} =>
       /\ k.release \in DOMAIN releases
       /\ LET r == releases[k.release] IN
            /\ r.build = k.build /\ r.test = k.test /\ r.scan = k.scan
            /\ k.at # "gate" => r.prd <= k.seen

\* What its gate found.
CallGate(k) ==
  k.at \in {"creating", "approving", "signing"} /\ k.gate.passed =>
    Proven(k.build, k.test, k.scan, k.gate.at) /\ builds[k.build].prd = k.seen

\* The pipeline's own rows come from its run.
RunsRows(run, k) ==
  /\ tests[k.test].status = "PASSED" => runAndroidPipeline(run).testStatus = "PASSED"
  /\ scans[k.scan].status = runAndroidPipeline(run).securityStatus
  /\ scans[k.scan].findings = runAndroidPipeline(run).findings
  /\ builds[k.build].status = runAndroidPipeline(run).buildStatus
  /\ builds[k.build].prd = k.own

CallRuns(k) ==
  k.at \in {"recording", "gating"} =>
    \E run \in PipelineRuns : k.runs = {run} /\ (k.at = "gating" => RunsRows(run, k))

CallOk(k) == CallPlaced(k) /\ CallReadsPrds(k) /\ CallGate(k) /\ CallRuns(k)

ReleaseInv ==
  /\ Typed
  /\ \A c \in Calls : CallOk(call[c])
  /\ \A n \in DOMAIN releases : ReleaseOk(releases[n])
  /\ \A b \in DOMAIN builds : builds[b].prd \in 1 .. locked
  /\ \A a \in acceptances : AcceptanceOk(a)
  /\ ~byHand => Backed(project)

-----------------------------------------------------------------------------
(* Frames.                                                                 *)

(* What a sequence is after a row has been added to it.                    *)
LEMMA RowAdded ==
  ASSUME NEW S, NEW s \in Seq(S), NEW e \in S
  PROVE  /\ Append(s, e) \in Seq(S)
         /\ DOMAIN s = 1 .. Len(s) /\ DOMAIN Append(s, e) = 1 .. (Len(s) + 1) /\ Len(s) \in Nat
         /\ \A i \in DOMAIN s : Append(s, e)[i] = s[i]
         /\ Append(s, e)[Len(s) + 1] = e
  BY AppendProperties, LenProperties

(* A row of a table is a row.                                              *)
LEMMA RowTyped == ASSUME NEW S, NEW s \in Seq(S), NEW i \in DOMAIN s PROVE s[i] \in S
  BY ElementOfSeq, LenProperties

(* The call every operation starts from, and a finished one goes back to.  *)
LEMMA FirstCall ==
  /\ NoCall \in CallRow /\ NoCall.at = "idle" /\ NoCall.then = "done" /\ NoCall.goals = <<>>
  /\ NoCall.own = 0 /\ NoCall.gate.at = 0 /\ NoCall.gate.passed = FALSE
<1>1. <<>> \in Seq(ProjectStatuses)
  BY EmptySeq
<1>2. [passed |-> FALSE, at |-> 0] \in [passed : BOOLEAN, at : Nat]
  OBVIOUS
<1> QED
  BY <1>1, <1>2 DEF NoCall, NoReport, CallRow, Places

(* Empty tables satisfy the invariant. *)
LEMMA InitReleaseInv == Init => ReleaseInv
<1> SUFFICES ASSUME Init PROVE ReleaseInv
  OBVIOUS
<1>1. Typed
  <2>1. project \in ProjectStatuses /\ byHand \in BOOLEAN
    BY DEF Init, ProjectStatuses, allowedProjectTransitions
  <2>2. locked \in 1 .. MaxPrds /\ now \in 0 .. MaxTime
    BY BoundsAssumption DEF Init
  <2>3. /\ tests \in Seq(TestRow) /\ scans \in Seq(ScanRow) /\ builds \in Seq(BuildRow)
        /\ releases \in Seq(ReleaseRow) /\ call \in [Calls -> CallRow]
    BY FirstCall, EmptySeq DEF Init
  <2> QED
    BY <2>1, <2>2, <2>3 DEF Typed
<1>2. \A c \in Calls : CallOk(call[c])
  BY FirstCall DEF Init, CallOk, CallPlaced, CallReadsPrds, CallGate, CallRuns, Gating
<1>3. DOMAIN releases = {} /\ DOMAIN builds = {} /\ acceptances = {}
  BY DEF Init
<1> QED
  BY <1>1, <1>2, <1>3 DEF Init, ReleaseInv, Backed

(* What no step takes back.                                                *)
Grows ==
  /\ locked <= locked' /\ now <= now'
  /\ \A i \in DOMAIN tests : i \in DOMAIN tests' /\ tests'[i] = tests[i]
  /\ \A i \in DOMAIN scans : i \in DOMAIN scans' /\ scans'[i] = scans[i]
  /\ \A i \in DOMAIN builds : i \in DOMAIN builds' /\ builds'[i] = builds[i]
  /\ acceptances \subseteq acceptances'
  /\ \A n \in DOMAIN releases :
       /\ n \in DOMAIN releases'
       /\ releases'[n].build = releases[n].build /\ releases'[n].test = releases[n].test
       /\ releases'[n].scan = releases[n].scan /\ releases'[n].prd = releases[n].prd
       /\ releases[n].approved => releases'[n].approved
       /\ releases[n].status = "GATE_BLOCKED" => releases'[n].status = "GATE_BLOCKED"
       /\ \/ releases'[n].status = releases[n].status /\ releases'[n].version = releases[n].version
          \/ releases'[n].version > releases[n].version

(* The evidence for a build does not go away.                              *)
LEMMA ProvenStays ==
  ASSUME Grows, NEW b \in DOMAIN builds, NEW t \in DOMAIN tests, NEW s \in DOMAIN scans, NEW at,
         Proven(b, t, s, at)
  PROVE  Proven(b, t, s, at)'
  BY DEF Grows, Proven, AcceptanceOf, High

(* What the project's status rests on does not go away.                    *)
LEMMA BackedStays ==
  ASSUME Grows, Typed, Typed', \A n \in DOMAIN releases : ReleaseOk(releases[n]), NEW status, Backed(status)
  PROVE  Backed(status)'
<1>1. \A n \in DOMAIN releases : releases[n].version \in Nat /\ releases[n].version >= 1
  <2>1. \A n \in DOMAIN releases : releases[n] \in ReleaseRow
    BY RowTyped DEF Typed
  <2> QED
    BY <2>1 DEF ReleaseRow, ReleaseOk
<1>2. \A n \in DOMAIN releases' : releases'[n].version \in Nat
  <2>1. \A n \in DOMAIN releases' : releases'[n] \in ReleaseRow
    BY RowTyped DEF Typed
  <2> QED
    BY <2>1 DEF ReleaseRow
<1>3. SomeApproved => SomeApproved'
  BY DEF Grows, SomeApproved
<1>4. SomePassed => SomePassed'
  <2> SUFFICES ASSUME NEW n \in DOMAIN releases,
                      releases[n].status = "CANDIDATE" \/ releases[n].version > 1
               PROVE  SomePassed'
    BY DEF SomePassed
  <2>1. n \in DOMAIN releases'
    BY DEF Grows
  <2>2. releases'[n].status = "CANDIDATE" \/ releases'[n].version > 1
    BY <1>1, <1>2, <2>1 DEF Grows
  <2> QED
    BY <2>1, <2>2 DEF SomePassed
<1> QED
  BY <1>3, <1>4 DEF Backed

(* What a call knows survives the steps of the others.                     *)
LEMMA OthersKeep ==
  ASSUME ReleaseInv, Typed', Grows, NEW k \in CallRow, CallOk(k)
  PROVE  CallOk(k)'
<1>0. locked \in Nat /\ locked' \in Nat /\ now \in Nat /\ now' \in Nat
  BY BoundsAssumption DEF ReleaseInv, Typed
<1>1. CallPlaced(k)'
  BY BackedStays DEF ReleaseInv, CallOk, CallPlaced, Grows, Gating
<1>2. CallReadsPrds(k)'
  <2>1. k.own \in Nat /\ k.gate.at \in Nat
    BY DEF CallRow
  <2>2. k.own <= locked' /\ k.gate.at <= now'
    BY <1>0, <2>1 DEF CallOk, CallReadsPrds, Grows
  <2>3. k.then # "done" => k.build \in DOMAIN builds
    BY DEF CallOk, CallPlaced
  <2> QED
    BY <2>2, <2>3 DEF CallOk, CallReadsPrds, Grows
<1>3. CallGate(k)'
  BY ProvenStays DEF CallOk, CallPlaced, CallGate, Grows, Gating
<1>4. CallRuns(k)'
  BY DEF CallOk, CallPlaced, CallRuns, RunsRows, Grows, Gating
<1> QED
  BY <1>1, <1>2, <1>3, <1>4 DEF CallOk

(* A release that is left alone stays well-founded.                        *)
LEMMA ReleaseStays ==
  ASSUME ReleaseInv, Typed', Grows, NEW n \in DOMAIN releases, releases'[n] = releases[n]
  PROVE  ReleaseOk(releases[n])'
<1>0. locked \in Nat /\ locked' \in Nat /\ now \in Nat /\ now' \in Nat
  BY BoundsAssumption DEF ReleaseInv, Typed
<1>1. releases[n] \in ReleaseRow /\ ReleaseOk(releases[n])
  BY RowTyped DEF ReleaseInv, Typed
<1>2. PICK r \in ReleaseRow : r = releases[n]
  BY <1>1
<1>3. Proven(r.build, r.test, r.scan, r.gateAt) => Proven(r.build, r.test, r.scan, r.gateAt)'
  BY <1>1, <1>2, ProvenStays DEF ReleaseOk
<1> QED
  BY <1>0, <1>1, <1>2, <1>3 DEF ReleaseOk, Grows, ReleaseRow

(* A step keeps the invariant when what it adds or changes is as it should *)
(* be.                                                                     *)
LEMMA StepKeeps ==
  ASSUME ReleaseInv, Typed', Grows,
         \A d \in Calls : call'[d] = call[d] \/ CallOk(call[d])',
         \A n \in DOMAIN releases' : (n \in DOMAIN releases /\ releases'[n] = releases[n]) \/ ReleaseOk(releases[n])',
         \A b \in DOMAIN builds' : b \in DOMAIN builds \/ builds'[b].prd \in 1 .. locked',
         \A a \in acceptances' : a \in acceptances \/ AcceptanceOk(a)',
         UNCHANGED <<project, byHand>> \/ (~byHand' => Backed(project)')
  PROVE  ReleaseInv' /\ Grows
<1>0. locked \in Nat /\ locked' \in Nat
  BY BoundsAssumption DEF ReleaseInv, Typed
<1>1. ASSUME NEW d \in Calls PROVE CallOk(call[d])'
  <2>1. call[d] \in CallRow /\ CallOk(call[d])
    BY DEF ReleaseInv, Typed
  <2>2. PICK k \in CallRow : k = call[d]
    BY <2>1
  <2>3. CallOk(k)'
    BY <2>1, <2>2, OthersKeep
  <2>4. CASE call'[d] = call[d]
    BY <2>2, <2>3, <2>4 DEF CallOk, CallPlaced, CallReadsPrds, CallGate, CallRuns
  <2> QED
    BY <2>4
<1>2. \A n \in DOMAIN releases' : ReleaseOk(releases[n])'
  BY ReleaseStays
<1>3. \A b \in DOMAIN builds' : builds'[b].prd \in 1 .. locked'
  <2> SUFFICES ASSUME NEW b \in DOMAIN builds PROVE builds'[b].prd \in 1 .. locked'
    OBVIOUS
  <2>1. builds'[b] = builds[b] /\ builds[b].prd \in 1 .. locked
    BY DEF Grows, ReleaseInv
  <2> QED
    BY <1>0, <2>1 DEF Grows
<1>4. \A a \in acceptances' : AcceptanceOk(a)'
  BY DEF Grows, ReleaseInv, AcceptanceOk
<1>5. (~byHand => Backed(project))'
  <2> SUFFICES ASSUME UNCHANGED <<project, byHand>>, ~byHand PROVE Backed(project)'
    OBVIOUS
  <2>1. PICK status : status = project
    OBVIOUS
  <2>2. Backed(status)'
    BY <2>1, BackedStays DEF ReleaseInv, Backed
  <2> QED
    BY <2>1, <2>2 DEF Backed
<1> QED
  BY <1>1, <1>2, <1>3, <1>4, <1>5 DEF ReleaseInv

(* A step that only moves one call on.                                     *)
LEMMA CallStep ==
  ASSUME ReleaseInv, NEW c \in Calls, OnlyCalls, NEW row \in CallRow,
         call' = [call EXCEPT ![c] = row], CallOk(row)
  PROVE  ReleaseInv' /\ Grows
<1>1. Typed'
  BY DEF ReleaseInv, Typed, OnlyCalls, rows
<1>2. Grows
  BY DEF Grows, OnlyCalls, rows, ReleaseInv, Typed
<1>3. \A d \in Calls : call'[d] = call[d] \/ CallOk(call[d])'
  <2>1. CallOk(row)'
    BY <1>1, <1>2, OthersKeep
  <2>2. call'[c] = row
    BY DEF ReleaseInv, Typed
  <2>3. CallOk(call[c])'
    BY <2>1, <2>2 DEF CallOk, CallPlaced, CallReadsPrds, CallGate, CallRuns
  <2>4. \A d \in Calls : d # c => call'[d] = call[d]
    BY DEF ReleaseInv, Typed
  <2> QED
    BY <2>3, <2>4
<1> QED
  BY <1>1, <1>2, <1>3, StepKeeps DEF OnlyCalls, rows

(* What the invariant says of one call. *)
LEMMA CallFits == ASSUME ReleaseInv, NEW c \in Calls PROVE call[c] \in CallRow /\ CallOk(call[c]) /\ Typed
  BY DEF ReleaseInv, Typed

(* A call that is over knows nothing.                                      *)
LEMMA GoesOver ==
  ASSUME ReleaseInv, NEW c \in Calls, NEW place \in Over, Goes(c, place), locked' \in Nat, now' \in Nat
  PROVE  /\ call' \in [Calls -> CallRow] /\ \A d \in Calls : d # c => call'[d] = call[d]
         /\ CallOk(call[c])'
<1>1. call \in [Calls -> CallRow]
  BY DEF ReleaseInv, Typed
<1>2. call' = [call EXCEPT ![c] = [NoCall EXCEPT !.at = place]]
  BY DEF Goes
<1> DEFINE row == [NoCall EXCEPT !.at = place]
<1>3. row \in CallRow
  BY FirstCall DEF CallRow, Places, Over
<1>4. /\ row.at \in Over /\ row.then = "done" /\ row.goals = <<>> /\ row.own = 0 /\ row.gate.at = 0
  BY FirstCall DEF CallRow
<1> HIDE DEF row
<1>5. call'[c] = row
  BY <1>1, <1>2 DEF row
<1>6. CallOk(call[c])'
  BY <1>4, <1>5 DEF CallOk, CallPlaced, CallReadsPrds, CallGate, CallRuns, Gating, Over
<1> QED
  BY <1>1, <1>2, <1>3, <1>6 DEF row

(* A call that sets out to move the project knows what that rests on.      *)
LEMMA PursuesTo ==
  ASSUME ReleaseInv, NEW c \in Calls, NEW goals \in Seq(ProjectStatuses), Pursues(c, goals),
         \A i \in DOMAIN goals : Backed(goals[i])', locked' \in Nat, now' \in Nat
  PROVE  /\ call' \in [Calls -> CallRow] /\ \A d \in Calls : d # c => call'[d] = call[d]
         /\ CallOk(call[c])'
<1>1. call \in [Calls -> CallRow]
  BY DEF ReleaseInv, Typed
<1>2. call' = [call EXCEPT ![c] = [NoCall EXCEPT !.at = "moving", !.goals = goals]]
  BY DEF Pursues
<1> DEFINE row == [NoCall EXCEPT !.at = "moving", !.goals = goals]
<1>3. row \in CallRow
  BY FirstCall DEF CallRow, Places
<1>4. /\ row.at = "moving" /\ row.then = "done" /\ row.goals = goals /\ row.own = 0 /\ row.gate.at = 0
  BY FirstCall DEF CallRow
<1> HIDE DEF row
<1>5. call'[c] = row
  BY <1>1, <1>2 DEF row
<1>6. CallOk(call[c])'
  BY <1>4, <1>5 DEF CallOk, CallPlaced, CallReadsPrds, CallGate, CallRuns, Gating
<1> QED
  BY <1>1, <1>2, <1>3, <1>6 DEF row

-----------------------------------------------------------------------------
(* The steps that only read.                                               *)

(* How the operations begin.                                               *)
LEMMA RecordsBegin ==
  ASSUME ReleaseInv, NEW c \in Calls, TestReads(c) \/ ScanReads(c) \/ BuildReads(c)
  PROVE  ReleaseInv' /\ Grows
<1>0. call[c] = NoCall /\ Typed
  BY CallFits DEF CallOk, CallPlaced, TestReads, ScanReads, BuildReads, At
<1>1. locked \in Nat /\ locked >= 1 /\ now \in Nat
  BY <1>0, BoundsAssumption DEF Typed
<1>2. ASSUME NEW place \in {"recordTest", "recordScan"}, NEW goals \in {<<>>, <<"QA_TESTING">>, <<"SECURITY_REVIEW">>},
             call' = [call EXCEPT ![c] = [call[c] EXCEPT !.at = place, !.goals = goals]], OnlyCalls
      PROVE  ReleaseInv' /\ Grows
  <2> DEFINE row == [NoCall EXCEPT !.at = place, !.goals = goals]
  <2>1. "QA_TESTING" \in ProjectStatuses /\ "SECURITY_REVIEW" \in ProjectStatuses
    BY DEF ProjectStatuses, allowedProjectTransitions
  <2>2. goals \in Seq(ProjectStatuses)
    <3>1. <<"QA_TESTING">> \in Seq(ProjectStatuses) /\ <<"SECURITY_REVIEW">> \in Seq(ProjectStatuses)
      BY <2>1
    <3> QED
      BY <3>1, EmptySeq
  <2>3. row \in CallRow
    BY <2>2, FirstCall DEF CallRow, Places
  <2>4. /\ row.at = place /\ row.then = "done" /\ row.goals = goals /\ row.own = 0 /\ row.gate.at = 0
    BY FirstCall DEF CallRow
  <2>5. call' = [call EXCEPT ![c] = row]
    BY <1>0, <1>2
  <2> HIDE DEF row
  <2>6. \A i \in DOMAIN goals : goals[i] \in {"QA_TESTING", "SECURITY_REVIEW"}
    OBVIOUS
  <2>7. CallOk(row)
    BY <1>1, <2>4, <2>6 DEF CallOk, CallPlaced, CallReadsPrds, CallGate, CallRuns, Gating, Backed
  <2> QED
    BY <1>2, <2>3, <2>5, <2>7, CallStep
<1>3. CASE TestReads(c)
  BY <1>2, <1>3 DEF TestReads
<1>4. CASE ScanReads(c)
  BY <1>2, <1>4 DEF ScanReads
<1>5. CASE BuildReads(c)
  <2> DEFINE row == [NoCall EXCEPT !.at = "recordBuild", !.own = locked]
  <2>1. row \in CallRow
    BY <1>1, FirstCall DEF CallRow, Places
  <2>2. /\ row.at = "recordBuild" /\ row.then = "done" /\ row.goals = <<>> /\ row.own = locked /\ row.gate.at = 0
    BY FirstCall DEF CallRow
  <2>3. call' = [call EXCEPT ![c] = row]
    BY <1>0, <1>5 DEF BuildReads
  <2> HIDE DEF row
  <2>4. CallOk(row)
    BY <1>1, <2>2 DEF CallOk, CallPlaced, CallReadsPrds, CallGate, CallRuns, Gating
  <2> QED
    BY <1>5, <2>1, <2>3, <2>4, CallStep DEF BuildReads
<1> QED
  BY <1>3, <1>4, <1>5 DEF TestReads, ScanReads, BuildReads

(* acceptRisk's read of the scan it accepts a risk of. *)
LEMMA AcceptBegins ==
  ASSUME ReleaseInv, NEW c \in Calls, AcceptReads(c)
  PROVE  ReleaseInv' /\ Grows
<1>0. call[c] = NoCall /\ Typed
  BY CallFits DEF CallOk, CallPlaced, AcceptReads, At
<1>1. locked \in Nat /\ now \in Nat /\ MaxTime \in Nat
  BY <1>0, BoundsAssumption DEF Typed
<1>9. PICK s \in DOMAIN scans : \E f \in scans[s].findings, expires \in (now + 1) .. Never :
        call' = [call EXCEPT ![c].at = "accepting", ![c].scan = s, ![c].rule = f.rule,
                             ![c].expires = expires]
  BY DEF AcceptReads
<1>2. PICK f \in scans[s].findings, expires \in (now + 1) .. Never :
        call' = [call EXCEPT ![c].at = "accepting", ![c].scan = s, ![c].rule = f.rule,
                             ![c].expires = expires]
  BY <1>9
<1>3. s \in Nat /\ f.rule \in Rules /\ expires \in Nat /\ expires \in 1 .. Never
  <2>1. scans[s] \in ScanRow /\ s \in Nat
    BY <1>0, RowTyped, LenProperties DEF Typed
  <2>2. f \in AnyFinding
    BY <2>1 DEF ScanRow
  <2> QED
    BY <1>1, <2>1, <2>2 DEF AnyFinding, Never
<1>4. PICK rule \in Rules : rule = f.rule
  BY <1>3
<1> DEFINE row == [NoCall EXCEPT !.at = "accepting", !.scan = s, !.rule = rule, !.expires = expires]
<1>5. row \in CallRow
  BY <1>3, FirstCall DEF CallRow, Places
<1>6. /\ row.at = "accepting" /\ row.then = "done" /\ row.goals = <<>> /\ row.own = 0 /\ row.gate.at = 0
      /\ row.scan = s /\ row.expires = expires
  BY FirstCall DEF CallRow
<1>7. call' = [call EXCEPT ![c] = row]
  BY <1>0, <1>2, <1>4 DEF Typed
<1> HIDE DEF row
<1>8. CallOk(row)
  BY <1>1, <1>3, <1>6 DEF CallOk, CallPlaced, CallReadsPrds, CallGate, CallRuns, Gating
<1> QED
  BY <1>5, <1>7, <1>8, CallStep DEF AcceptReads

(* The worker's pipeline starts with a task of some locked version. *)
LEMMA PipelineBeginsStep ==
  ASSUME ReleaseInv, NEW c \in Calls, PipelineBegins(c)
  PROVE  ReleaseInv' /\ Grows
<1>0. call[c] = NoCall /\ Typed
  BY CallFits DEF CallOk, CallPlaced, PipelineBegins, At
<1>1. locked \in Nat /\ now \in Nat
  BY <1>0, BoundsAssumption DEF Typed
<1>2. PICK run \in PipelineRuns, prd \in 1 .. locked, evidence \in BOOLEAN :
        call' = [call EXCEPT ![c].at = "recording", ![c].runs = {run}, ![c].own = prd,
                             ![c].gate.passed = evidence]
  BY DEF PipelineBegins
<1>3. prd \in Nat /\ prd >= 1 /\ prd <= locked
  BY <1>1
<1> DEFINE gate == [passed |-> evidence, at |-> 0]
<1> DEFINE row == [NoCall EXCEPT !.at = "recording", !.runs = {run}, !.own = prd, !.gate = gate]
<1>4. gate \in [passed : BOOLEAN, at : Nat] /\ gate.at = 0
  OBVIOUS
<1>5. [NoCall.gate EXCEPT !.passed = evidence] = gate
  BY DEF NoCall, NoReport
<1>6. call' = [call EXCEPT ![c] = row]
  BY <1>0, <1>2, <1>5, FirstCall DEF Typed, CallRow
<1> HIDE DEF gate
<1>7. row \in CallRow
  BY <1>3, <1>4, FirstCall DEF CallRow, Places
<1>8. /\ row.at = "recording" /\ row.then = "done" /\ row.goals = <<>> /\ row.own = prd /\ row.gate = gate
      /\ row.runs = {run}
  BY FirstCall DEF CallRow
<1> HIDE DEF row
<1>9. CallOk(row)
  BY <1>1, <1>3, <1>4, <1>8 DEF CallOk, CallPlaced, CallReadsPrds, CallGate, CallRuns, Gating
<1> QED
  BY <1>6, <1>7, <1>9, CallStep DEF PipelineBegins

(* The operations that ask the gate.                                       *)
LEMMA GateBegins ==
  ASSUME ReleaseInv, NEW c \in Calls, CandidateReads(c) \/ ApproveReads(c) \/ SignReads(c)
  PROVE  ReleaseInv' /\ Grows
<1>0. call[c] = NoCall /\ Typed /\ OnlyCalls
  BY CallFits DEF CallOk, CallPlaced, CandidateReads, ApproveReads, SignReads, At
<1>1. locked \in Nat /\ now \in Nat
  BY <1>0, BoundsAssumption DEF Typed
<1>2. CASE CandidateReads(c)
  <2>1. PICK b \in DOMAIN builds, t \in DOMAIN tests, s \in DOMAIN scans :
          call' = [call EXCEPT ![c].at = "gate", ![c].build = b, ![c].test = t, ![c].scan = s,
                               ![c].then = "creating"]
    BY <1>2 DEF CandidateReads
  <2>2. b \in Nat /\ t \in Nat /\ s \in Nat
    BY <1>0, LenProperties DEF Typed
  <2> DEFINE row == [NoCall EXCEPT !.at = "gate", !.build = b, !.test = t, !.scan = s, !.then = "creating"]
  <2>3. row \in CallRow
    BY <2>2, FirstCall DEF CallRow, Places
  <2>4. /\ row.at = "gate" /\ row.then = "creating" /\ row.goals = <<>> /\ row.own = 0 /\ row.gate.at = 0
        /\ row.build = b /\ row.test = t /\ row.scan = s
    BY FirstCall DEF CallRow
  <2>5. call' = [call EXCEPT ![c] = row]
    BY <1>0, <2>1 DEF Typed
  <2> HIDE DEF row
  <2>6. CallOk(row)
    BY <1>1, <2>4 DEF CallOk, CallPlaced, CallReadsPrds, CallGate, CallRuns, Gating
  <2> QED
    BY <1>0, <2>3, <2>5, <2>6, CallStep
<1>3. CASE ApproveReads(c) \/ SignReads(c)
  <2>1. PICK n \in DOMAIN releases, next \in {"approving", "signing"} : GateFor(c, n, next)
    BY <1>3 DEF ApproveReads, SignReads
  <2>2. releases[n] \in ReleaseRow /\ ReleaseOk(releases[n]) /\ n \in Nat
    BY <1>0, RowTyped, LenProperties DEF Typed, ReleaseInv
  <2>3. PICK r \in ReleaseRow : r = releases[n]
    BY <2>2
  <2>4. /\ r.version \in Nat /\ r.build \in Nat /\ r.test \in Nat /\ r.scan \in Nat
        /\ r.test \in DOMAIN tests /\ r.scan \in DOMAIN scans /\ r.build \in DOMAIN builds
    BY <2>2, <2>3 DEF ReleaseRow, ReleaseOk
  <2> DEFINE row == [NoCall EXCEPT !.at = "gate", !.then = next, !.release = n, !.version = r.version,
                                   !.build = r.build, !.test = r.test, !.scan = r.scan]
  <2>5. row \in CallRow
    BY <2>2, <2>4, FirstCall DEF CallRow, Places
  <2>6. /\ row.at = "gate" /\ row.then = next /\ row.goals = <<>> /\ row.own = 0 /\ row.gate.at = 0
        /\ row.release = n /\ row.build = r.build /\ row.test = r.test /\ row.scan = r.scan
    BY FirstCall DEF CallRow
  <2>7. call' = [call EXCEPT ![c] = row]
    BY <1>0, <2>1, <2>3 DEF Typed, GateFor
  <2> HIDE DEF row
  <2>8. CallOk(row)
    BY <1>1, <2>3, <2>4, <2>6 DEF CallOk, CallPlaced, CallReadsPrds, CallGate, CallRuns, Gating
  <2> QED
    BY <1>0, <2>5, <2>7, <2>8, CallStep
<1> QED
  BY <1>2, <1>3

(* The gate's first reads, and the other read of the locked PRD.           *)
LEMMA PrdReads ==
  ASSUME ReleaseInv, NEW c \in Calls, GateReads(c) \/ OwnPrdReads(c)
  PROVE  ReleaseInv' /\ Grows
<1>0. call[c] \in CallRow /\ CallOk(call[c]) /\ Typed /\ OnlyCalls
  BY CallFits DEF GateReads, OwnPrdReads
<1>1. locked \in Nat /\ now \in Nat
  BY <1>0, BoundsAssumption DEF Typed
<1>2. PICK k \in CallRow : k = call[c]
  BY <1>0
<1>3. CASE GateReads(c)
  <2> DEFINE row == [k EXCEPT !.at = "gateRisks", !.seen = locked]
  <2>1. row \in CallRow
    BY <1>1 DEF CallRow, Places
  <2>2. /\ row.at = "gateRisks" /\ row.then = k.then /\ row.goals = k.goals /\ row.own = k.own
        /\ row.gate = k.gate /\ row.build = k.build /\ row.test = k.test /\ row.scan = k.scan
        /\ row.release = k.release /\ row.seen = locked
    BY DEF CallRow
  <2>3. call' = [call EXCEPT ![c] = row]
    BY <1>0, <1>2, <1>3 DEF Typed, GateReads
  <2>4. k.then \in {"approving", "signing"} => releases[k.release].prd <= locked
    <3> SUFFICES ASSUME k.then \in {"approving", "signing"} PROVE releases[k.release].prd <= locked
      OBVIOUS
    <3>1. ReleaseOk(releases[k.release])
      BY <1>0, <1>2 DEF ReleaseInv, CallOk, CallReadsPrds
    <3> QED
      BY <1>1, <3>1 DEF ReleaseOk
  <2> HIDE DEF row
  <2>5. CallOk(row)
    BY <1>0, <1>2, <1>3, <2>2, <2>4 DEF CallOk, CallPlaced, CallReadsPrds, CallGate, CallRuns, Gating, GateReads, At
  <2> QED
    BY <1>0, <2>1, <2>3, <2>5, CallStep
<1>4. CASE OwnPrdReads(c)
  <2> DEFINE row == [k EXCEPT !.own = locked]
  <2>1. row \in CallRow
    BY <1>1 DEF CallRow
  <2>2. /\ row.at = k.at /\ row.then = k.then /\ row.goals = k.goals /\ row.own = locked
        /\ row.gate = k.gate /\ row.build = k.build /\ row.test = k.test /\ row.scan = k.scan
        /\ row.release = k.release /\ row.seen = k.seen
    BY DEF CallRow
  <2>3. call' = [call EXCEPT ![c] = row]
    BY <1>0, <1>2, <1>4 DEF Typed, OwnPrdReads
  <2>4. k.then = "creating" /\ k.build \in DOMAIN builds /\ k.at \in Gating
    BY <1>0, <1>2, <1>4 DEF OwnPrdReads, CallOk, CallPlaced
  <2>5. builds[k.build].prd <= locked
    BY <1>1, <2>4 DEF ReleaseInv
  <2> HIDE DEF row
  <2>6. CallOk(row)
    BY <1>0, <1>1, <1>2, <2>2, <2>4, <2>5 DEF CallOk, CallPlaced, CallReadsPrds, CallGate, CallRuns, Gating
  <2> QED
    BY <1>0, <2>1, <2>3, <2>6, CallStep
<1> QED
  BY <1>3, <1>4

(* A gate that passes has seen the evidence its call then relies on.       *)
LEMMA GateReportsStep ==
  ASSUME ReleaseInv, NEW c \in Calls, GateReports(c)
  PROVE  ReleaseInv' /\ Grows
<1>0. call[c] \in CallRow /\ CallOk(call[c]) /\ Typed /\ OnlyCalls
  BY CallFits DEF GateReports
<1>1. locked \in Nat /\ now \in Nat
  BY <1>0, BoundsAssumption DEF Typed
<1>2. PICK k \in CallRow : k = call[c]
  BY <1>0
<1>15. PICK open : open = {f \in High(scans[k.scan]) : ~ActivelyAccepted(k.scan, f)}
  OBVIOUS
<1> DEFINE verdict == evaluateReleaseGate(builds[k.build], tests[k.test], scans[k.scan], k.seen, open)
<1>3. verdict \in BOOLEAN
  BY DEF evaluateReleaseGate
<1>4. verdict => Proven(k.build, k.test, k.scan, now) /\ builds[k.build].prd = k.seen
  <2> SUFFICES ASSUME verdict PROVE Proven(k.build, k.test, k.scan, now) /\ builds[k.build].prd = k.seen
    OBVIOUS
  <2>1. \A f \in High(scans[k.scan]) : f \in open \/ ActivelyAccepted(k.scan, f)
    BY <1>15
  <2>2. evaluateReleaseGate(builds[k.build], tests[k.test], scans[k.scan], k.seen, open)
    OBVIOUS
  <2> HIDE DEF verdict
  <2>3. \A f \in High(scans[k.scan]) : \E a \in AcceptanceOf(k.scan, f.rule) : a.expiresAt > now
    BY <2>1, <2>2 DEF evaluateReleaseGate, ActivelyAccepted
  <2> QED
    BY <2>2, <2>3 DEF evaluateReleaseGate, Proven, commitMatches, prdHashMatches
<1>5. call' = [call EXCEPT ![c].at = k.then, ![c].gate = [passed |-> verdict, at |-> now]]
  BY <1>2, <1>15 DEF GateReports
<1> HIDE DEF verdict
<1>6. PICK passed \in BOOLEAN : passed = verdict
  BY <1>3
<1> DEFINE row == [k EXCEPT !.at = k.then, !.gate = [passed |-> passed, at |-> now]]
<1>7. k.then \in {"creating", "approving", "signing"}
  BY <1>0, <1>2 DEF GateReports, At, CallOk, CallPlaced, Gating
<1>8. row \in CallRow
  BY <1>1, <1>7 DEF CallRow, Places
<1>9. /\ row.at = k.then /\ row.then = k.then /\ row.goals = k.goals /\ row.own = k.own
      /\ row.gate.passed = passed /\ row.gate.at = now
      /\ row.build = k.build /\ row.test = k.test /\ row.scan = k.scan
      /\ row.release = k.release /\ row.seen = k.seen
  BY DEF CallRow
<1>10. call' = [call EXCEPT ![c] = row]
  BY <1>0, <1>2, <1>5, <1>6 DEF Typed
<1> HIDE DEF row
<1>11. k.at = "gateRisks"
  BY <1>2 DEF GateReports, At
<1>12. CallPlaced(row)
  BY <1>0, <1>2, <1>7, <1>9, <1>11 DEF CallOk, CallPlaced, Gating
<1>13. CallReadsPrds(row)
  BY <1>0, <1>1, <1>2, <1>7, <1>9, <1>11 DEF CallOk, CallReadsPrds
<1>14. CallGate(row) /\ CallRuns(row)
  BY <1>4, <1>6, <1>7, <1>9 DEF CallGate, CallRuns
<1> QED
  BY <1>0, <1>8, <1>10, <1>12, <1>13, <1>14, CallStep DEF CallOk

-----------------------------------------------------------------------------
(* The moves of the project.                                               *)

LEMMA MovingSteps ==
  ASSUME ReleaseInv, NEW c \in Calls, MoveReads(c) \/ MoveWrites(c)
  PROVE  ReleaseInv' /\ Grows
<1>0. call[c] \in CallRow /\ CallOk(call[c]) /\ Typed /\ call \in [Calls -> CallRow]
  BY CallFits DEF Typed
<1>1. locked \in Nat /\ now \in Nat
  BY <1>0, BoundsAssumption DEF Typed
<1>2. PICK k \in CallRow : k = call[c]
  BY <1>0
<1>3. k.goals \in Seq(ProjectStatuses) /\ \A i \in DOMAIN k.goals : Backed(k.goals[i])
  BY <1>0, <1>2 DEF CallRow, CallOk, CallPlaced
<1>4. ASSUME k.goals # <<>>
      PROVE  /\ Head(k.goals) \in ProjectStatuses /\ Backed(Head(k.goals))
             /\ Tail(k.goals) \in Seq(ProjectStatuses)
             /\ \A i \in DOMAIN Tail(k.goals) : Backed(Tail(k.goals)[i])
  <2>1. Head(k.goals) = k.goals[1] /\ 1 \in DOMAIN k.goals /\ Head(k.goals) \in ProjectStatuses
    BY <1>3, <1>4, HeadTailProperties, EmptySeq, LenProperties
  <2>2. /\ Tail(k.goals) \in Seq(ProjectStatuses) /\ Len(k.goals) \in Nat
        /\ DOMAIN Tail(k.goals) = 1 .. (Len(k.goals) - 1) /\ DOMAIN k.goals = 1 .. Len(k.goals)
        /\ \A i \in 1 .. (Len(k.goals) - 1) : Tail(k.goals)[i] = k.goals[i + 1]
    BY <1>3, <1>4, HeadTailProperties, LenProperties
  <2> QED
    BY <1>3, <2>1, <2>2
<1>5. CASE MoveWrites(c)
  <2>1. k.goals # <<>>
    BY <1>0, <1>2, <1>5 DEF MoveWrites, At, CallOk, CallPlaced
  <2>2. /\ project' = Head(k.goals) /\ byHand' = FALSE /\ Pursues(c, Tail(k.goals))
        /\ UNCHANGED <<locked, now, tests, scans, builds, releases, acceptances, signings>>
    BY <1>2, <1>5 DEF MoveWrites, rows
  <2>3. \A status : Backed(status) => Backed(status)'
    BY <2>2 DEF Backed, SomeApproved, SomePassed
  <2>4. /\ call' \in [Calls -> CallRow] /\ \A d \in Calls : d # c => call'[d] = call[d]
        /\ CallOk(call[c])'
    BY <1>1, <1>4, <2>1, <2>2, <2>3, PursuesTo
  <2>5. Typed'
    BY <1>0, <1>4, <2>1, <2>2, <2>4 DEF Typed
  <2>6. Grows
    BY <1>1, <2>2 DEF Grows
  <2>7. Backed(project)'
    <3>1. Backed(Head(k.goals))
      BY <1>4, <2>1
    <3> QED
      BY <2>2, <3>1 DEF Backed, SomeApproved, SomePassed
  <2> QED
    BY <2>2, <2>4, <2>5, <2>6, <2>7, StepKeeps
<1>6. CASE MoveReads(c)
  <2>0. OnlyCalls /\ At(c, "moving")
    BY <1>6 DEF MoveReads
  <2>1. UNCHANGED <<project, byHand, locked, now, tests, scans, builds, releases, acceptances, signings>>
    BY <2>0 DEF OnlyCalls, rows
  <2>2. \/ Goes(c, "done") \/ Goes(c, "refused")
        \/ k.goals # <<>> /\ Pursues(c, Tail(k.goals))
        \/ k.goals # <<>> /\ Goes(c, "writing")
    BY <1>2, <1>6 DEF MoveReads
  <2>3. ASSUME call' \in [Calls -> CallRow], \A d \in Calls : d # c => call'[d] = call[d], CallOk(call[c])'
        PROVE  ReleaseInv' /\ Grows
    <3>1. Typed'
      BY <1>0, <2>1, <2>3 DEF Typed
    <3>2. Grows
      BY <1>1, <2>1 DEF Grows
    <3> QED
      BY <2>1, <2>3, <3>1, <3>2, StepKeeps
  <2>4. CASE Goes(c, "done") \/ Goes(c, "refused")
    BY <1>1, <2>1, <2>3, <2>4, GoesOver DEF Over
  <2>5. CASE k.goals # <<>> /\ Pursues(c, Tail(k.goals))
    <3>1. \A status : Backed(status) => Backed(status)'
      BY <2>1 DEF Backed, SomeApproved, SomePassed
    <3> QED
      BY <1>1, <1>4, <2>1, <2>3, <2>5, <3>1, PursuesTo
  <2>6. CASE k.goals # <<>> /\ Goes(c, "writing")
    <3> DEFINE row == [k EXCEPT !.at = "writing"]
    <3>1. row \in CallRow
      BY DEF CallRow, Places
    <3>2. /\ row.at = "writing" /\ row.then = k.then /\ row.goals = k.goals /\ row.own = k.own
          /\ row.gate = k.gate /\ row.build = k.build
      BY DEF CallRow
    <3>3. call' = [call EXCEPT ![c] = row]
      BY <1>2, <2>6 DEF Goes, Over
    <3> HIDE DEF row
    <3>4. k.then = "done"
      BY <1>0, <1>2, <2>0 DEF At, CallOk, CallPlaced, Gating
    <3>5. CallOk(row)
      BY <1>0, <1>2, <2>0, <2>6, <3>2, <3>4 DEF CallOk, CallPlaced, CallReadsPrds, CallGate, CallRuns, Gating
    <3> QED
      BY <2>0, <3>1, <3>3, <3>5, CallStep
  <2> QED
    BY <2>2, <2>4, <2>5, <2>6
<1> QED
  BY <1>5, <1>6

-----------------------------------------------------------------------------
(* The steps that write rows.                                              *)

Added(table, grown, Row) == grown = table \/ \E row \in Row : grown = Append(table, row)

(* What a table that is added to still holds.                              *)
LEMMA AddedKeeps ==
  ASSUME NEW Row, NEW table \in Seq(Row), NEW grown, Added(table, grown, Row)
  PROVE  grown \in Seq(Row) /\ \A i \in DOMAIN table : i \in DOMAIN grown /\ grown[i] = table[i]
<1>1. CASE grown = table
  BY <1>1
<1>2. ASSUME NEW row \in Row, grown = Append(table, row)
      PROVE  grown \in Seq(Row) /\ \A i \in DOMAIN table : i \in DOMAIN grown /\ grown[i] = table[i]
  <2>1. Len(table) \in Nat
    BY LenProperties
  <2> QED
    BY <1>2, <2>1, RowAdded
<1> QED
  BY <1>1, <1>2 DEF Added

(* A step that records tests, scans or builds.                             *)
LEMMA RecordingGrows ==
  ASSUME ReleaseInv, ProjectSame, UNCHANGED <<releases, acceptances>>,
         Added(tests, tests', TestRow), Added(scans, scans', ScanRow), Added(builds, builds', BuildRow)
  PROVE  /\ Grows /\ tests' \in Seq(TestRow) /\ scans' \in Seq(ScanRow) /\ builds' \in Seq(BuildRow)
         /\ locked' \in Nat /\ now' \in Nat
<1>1. /\ tests \in Seq(TestRow) /\ scans \in Seq(ScanRow) /\ builds \in Seq(BuildRow)
      /\ locked \in Nat /\ now \in Nat
  BY BoundsAssumption DEF ReleaseInv, Typed
<1>2. tests' \in Seq(TestRow) /\ \A i \in DOMAIN tests : i \in DOMAIN tests' /\ tests'[i] = tests[i]
  BY <1>1, AddedKeeps
<1>3. scans' \in Seq(ScanRow) /\ \A i \in DOMAIN scans : i \in DOMAIN scans' /\ scans'[i] = scans[i]
  BY <1>1, AddedKeeps
<1>4. builds' \in Seq(BuildRow) /\ \A i \in DOMAIN builds : i \in DOMAIN builds' /\ builds'[i] = builds[i]
  BY <1>1, AddedKeeps
<1> QED
  BY <1>1, <1>2, <1>3, <1>4 DEF Grows, ProjectSame

(* Rows are appended and nothing else but the call itself changes. *)
LEMMA RecordStep ==
  ASSUME ReleaseInv, NEW c \in Calls, ProjectSame, UNCHANGED <<releases, acceptances>>,
         Added(tests, tests', TestRow), Added(scans, scans', ScanRow), Added(builds, builds', BuildRow),
         \A b \in DOMAIN builds' : b \in DOMAIN builds \/ builds'[b].prd \in 1 .. locked,
         call' \in [Calls -> CallRow], \A d \in Calls : d # c => call'[d] = call[d], CallOk(call[c])'
  PROVE  ReleaseInv' /\ Grows
<1>1. /\ Grows /\ tests' \in Seq(TestRow) /\ scans' \in Seq(ScanRow) /\ builds' \in Seq(BuildRow)
  BY RecordingGrows
<1>2. Typed'
  BY <1>1 DEF ReleaseInv, Typed, ProjectSame
<1> QED
  BY <1>1, <1>2, StepKeeps DEF ProjectSame

(* recordTest and recordSecurityScan append one row each. *)
LEMMA ReportSteps ==
  ASSUME ReleaseInv, NEW c \in Calls, TestRecords(c) \/ ScanRecords(c)
  PROVE  ReleaseInv' /\ Grows
<1>0. /\ call[c] \in CallRow /\ CallOk(call[c]) /\ Typed /\ ProjectSame /\ UNCHANGED <<releases, acceptances, builds>>
      /\ call[c].at \in {"recordTest", "recordScan"}
  BY CallFits DEF TestRecords, ScanRecords, At
<1>1. locked' \in Nat /\ now' \in Nat
  BY <1>0, BoundsAssumption DEF Typed, ProjectSame
<1>2. call[c].goals \in Seq(ProjectStatuses)
      /\ \A i \in DOMAIN call[c].goals : call[c].goals[i] \in {"QA_TESTING", "SECURITY_REVIEW"}
  BY <1>0 DEF CallRow, CallOk, CallPlaced
<1>3. PICK goals \in Seq(ProjectStatuses) : goals = call[c].goals
  BY <1>2
<1>4. ASSUME Goes(c, "refused") \/ Pursues(c, goals) \/ Pursues(c, <<>>),
             Added(tests, tests', TestRow), Added(scans, scans', ScanRow)
      PROVE  ReleaseInv' /\ Grows
  <2>1. \A i \in DOMAIN goals : Backed(goals[i])'
    BY <1>2, <1>3 DEF Backed
  <2>2. /\ call' \in [Calls -> CallRow] /\ \A d \in Calls : d # c => call'[d] = call[d]
        /\ CallOk(call[c])'
    <3>1. CASE Goes(c, "refused")
      BY <1>1, <3>1, GoesOver DEF Over
    <3>2. CASE Pursues(c, goals)
      BY <1>1, <2>1, <3>2, PursuesTo
    <3>3. CASE Pursues(c, <<>>)
      <4>1. <<>> \in Seq(ProjectStatuses) /\ \A i \in DOMAIN <<>> : Backed(<<>>[i])'
        BY EmptySeq
      <4> QED
        BY <1>1, <3>3, <4>1, PursuesTo
    <3> QED
      BY <1>4, <3>1, <3>2, <3>3
  <2>3. Added(builds, builds', BuildRow) /\ \A b \in DOMAIN builds' : b \in DOMAIN builds
    BY <1>0 DEF Added
  <2> QED
    BY <1>0, <1>4, <2>2, <2>3, RecordStep
<1>5. CASE TestRecords(c)
  <2>1. PICK report \in TestReports :
          IF report.status = "PASSED" /\ report.failures
            THEN Goes(c, "refused") /\ UNCHANGED tests
            ELSE /\ tests' = Append(tests, report)
                 /\ Pursues(c, IF report.status = "PASSED" THEN call[c].goals ELSE <<>>)
    BY <1>5 DEF TestRecords
  <2>2. report \in TestRow
    BY ReportsAssumption DEF TestRow
  <2>3. Added(tests, tests', TestRow) /\ Added(scans, scans', ScanRow)
    BY <1>5, <2>1, <2>2 DEF Added, TestRecords
  <2> QED
    BY <1>3, <1>4, <2>1, <2>3
<1>6. CASE ScanRecords(c)
  <2>1. PICK report \in ScanReports :
          /\ scans' = Append(scans, report)
          /\ Pursues(c, IF report.status = "PASSED" THEN call[c].goals ELSE <<>>)
    BY <1>6 DEF ScanRecords
  <2>2. report \in ScanRow
    BY ReportsAssumption DEF ScanRow
  <2>3. Added(tests, tests', TestRow) /\ Added(scans, scans', ScanRow)
    BY <1>6, <2>1, <2>2 DEF Added, ScanRecords
  <2> QED
    BY <1>3, <1>4, <2>1, <2>3
<1> QED
  BY <1>5, <1>6

(* recordBuild appends one row that names a locked version. *)
LEMMA BuildRecordsStep ==
  ASSUME ReleaseInv, NEW c \in Calls, BuildRecords(c)
  PROVE  ReleaseInv' /\ Grows
<1>0. /\ call[c] \in CallRow /\ CallOk(call[c]) /\ Typed /\ ProjectSame
      /\ UNCHANGED <<tests, scans, releases, acceptances>> /\ Goes(c, "done")
  BY CallFits DEF BuildRecords
<1>1. locked \in Nat /\ now \in Nat /\ locked' \in Nat /\ now' \in Nat
  BY <1>0, BoundsAssumption DEF Typed, ProjectSame
<1>2. PICK own \in 1 .. locked : own = call[c].own
  <2>1. call[c].own \in Nat
    BY <1>0 DEF CallRow
  <2>2. call[c].own >= 1 /\ call[c].own <= locked
    BY <1>0 DEF BuildRecords, At, CallOk, CallReadsPrds
  <2> QED
    BY <1>1, <2>1, <2>2
<1>3. PICK report \in BuildReports :
        builds' = Append(builds, [commit |-> report.commit, status |-> report.status,
                                  artifact |-> report.artifact, prd |-> own])
  BY <1>2 DEF BuildRecords
<1>4. PICK row \in BuildRow : row.prd = own /\ builds' = Append(builds, row)
  <2>1. own \in Nat
    BY <1>1
  <2> DEFINE row == [commit |-> report.commit, status |-> report.status, artifact |-> report.artifact, prd |-> own]
  <2>2. row \in BuildRow /\ row.prd = own
    BY <2>1, ReportsAssumption DEF BuildRow
  <2> QED
    BY <1>3, <2>2
<1>5. \A b \in DOMAIN builds' : b \in DOMAIN builds \/ builds'[b].prd \in 1 .. locked
  BY <1>0, <1>4, RowAdded DEF Typed
<1>6. Added(tests, tests', TestRow) /\ Added(scans, scans', ScanRow) /\ Added(builds, builds', BuildRow)
  BY <1>0, <1>4 DEF Added
<1>7. /\ call' \in [Calls -> CallRow] /\ \A d \in Calls : d # c => call'[d] = call[d]
      /\ CallOk(call[c])'
  BY <1>0, <1>1, GoesOver DEF Over
<1> QED
  BY <1>0, <1>5, <1>6, <1>7, RecordStep

(* acceptRisk adds an acceptance; the ones on record stay. *)
LEMMA AcceptWritesStep ==
  ASSUME ReleaseInv, NEW c \in Calls, AcceptWrites(c)
  PROVE  ReleaseInv' /\ Grows
<1>0. /\ CallOk(call[c]) /\ Typed /\ ProjectSame /\ Goes(c, "done")
      /\ UNCHANGED <<tests, scans, builds, releases>>
  BY CallFits DEF AcceptWrites
<1>1. locked \in Nat /\ now \in Nat /\ locked' \in Nat /\ now' \in Nat
  BY <1>0, BoundsAssumption DEF Typed, ProjectSame
<1>2. /\ call' \in [Calls -> CallRow] /\ \A d \in Calls : d # c => call'[d] = call[d]
      /\ CallOk(call[c])'
  BY <1>0, <1>1, GoesOver DEF Over
<1>3. Typed'
  BY <1>0, <1>2 DEF Typed, ProjectSame
<1>4. Grows
  BY <1>0, <1>1 DEF Grows, ProjectSame, AcceptWrites
<1>5. \A a \in acceptances' : a \in acceptances \/ AcceptanceOk(a)'
  BY <1>0 DEF AcceptWrites, At, CallOk, CallPlaced, AcceptanceOk
<1> QED
  BY <1>0, <1>2, <1>3, <1>4, <1>5, StepKeeps DEF ProjectSame

(* A step that writes one release.                                         *)
LEMMA ReleaseStep ==
  ASSUME ReleaseInv, NEW c \in Calls, ProjectSame, UNCHANGED <<tests, scans, builds, acceptances>>,
         Grows, releases' \in Seq(ReleaseRow),
         \A n \in DOMAIN releases' :
           (n \in DOMAIN releases /\ releases'[n] = releases[n]) \/ ReleaseOk(releases'[n]),
         call' \in [Calls -> CallRow], \A d \in Calls : d # c => call'[d] = call[d], CallOk(call[c])'
  PROVE  ReleaseInv' /\ Grows
<1>1. Typed'
  BY DEF ReleaseInv, Typed, ProjectSame
<1>2. \A n \in DOMAIN releases' :
        (n \in DOMAIN releases /\ releases'[n] = releases[n]) \/ ReleaseOk(releases[n])'
  BY DEF ReleaseOk, Proven, AcceptanceOf, High, ProjectSame
<1> QED
  BY <1>1, <1>2, StepKeeps DEF ProjectSame

(* A new release.                                                          *)
LEMMA ReleaseAdded ==
  ASSUME ReleaseInv, ProjectSame, UNCHANGED <<tests, scans, builds, acceptances>>,
         NEW row \in ReleaseRow, ReleaseOk(row), releases' = Append(releases, row)
  PROVE  /\ Grows /\ releases' \in Seq(ReleaseRow)
         /\ \A n \in DOMAIN releases' :
              (n \in DOMAIN releases /\ releases'[n] = releases[n]) \/ ReleaseOk(releases'[n])
         /\ row.status = "CANDIDATE" => SomePassed'
<1>1. releases \in Seq(ReleaseRow) /\ locked \in Nat /\ now \in Nat
  BY BoundsAssumption DEF ReleaseInv, Typed
<1>2. /\ releases' \in Seq(ReleaseRow) /\ DOMAIN releases = 1 .. Len(releases)
      /\ DOMAIN releases' = 1 .. (Len(releases) + 1) /\ Len(releases) \in Nat
      /\ \A i \in DOMAIN releases : releases'[i] = releases[i]
      /\ releases'[Len(releases) + 1] = row
  BY <1>1, RowAdded
<1>3. Grows
  BY <1>1, <1>2 DEF Grows, ProjectSame
<1>4. row.status = "CANDIDATE" => SomePassed'
  BY <1>2 DEF SomePassed
<1> QED
  BY <1>2, <1>3, <1>4

(* A release that is decided on: its evidence stays, its version is new.   *)
LEMMA ReleaseDecided ==
  ASSUME ReleaseInv, ProjectSame, UNCHANGED <<tests, scans, builds, acceptances>>,
         NEW n \in DOMAIN releases, NEW row \in ReleaseRow, ReleaseOk(row),
         releases' = [releases EXCEPT ![n] = row],
         row.build = releases[n].build, row.test = releases[n].test, row.scan = releases[n].scan,
         row.prd = releases[n].prd, releases[n].approved => row.approved,
         releases[n].status = "GATE_BLOCKED" => row.status = "GATE_BLOCKED",
         row.version = releases[n].version + 1
  PROVE  /\ Grows /\ releases' \in Seq(ReleaseRow)
         /\ \A m \in DOMAIN releases' :
              (m \in DOMAIN releases /\ releases'[m] = releases[m]) \/ ReleaseOk(releases'[m])
         /\ row.approved => SomeApproved'
<1>1. releases \in Seq(ReleaseRow) /\ locked \in Nat /\ now \in Nat
  BY BoundsAssumption DEF ReleaseInv, Typed
<1>2. releases[n].version \in Nat
  <2>1. releases[n] \in ReleaseRow
    BY <1>1, RowTyped
  <2> QED
    BY <2>1 DEF ReleaseRow
<1>3. /\ releases' \in Seq(ReleaseRow) /\ DOMAIN releases' = DOMAIN releases
      /\ releases'[n] = row /\ \A m \in DOMAIN releases : m # n => releases'[m] = releases[m]
  BY <1>1, ExceptSeq
<1>4. row.version > releases[n].version
  BY <1>2
<1>5. Grows
  BY <1>1, <1>3, <1>4 DEF Grows, ProjectSame
<1>6. row.approved => SomeApproved'
  BY <1>3 DEF SomeApproved
<1> QED
  BY <1>3, <1>5, <1>6

(* createReleaseCandidate writes what its gate came to, CANDIDATE or BLOCKED. *)
LEMMA CandidateStep ==
  ASSUME ReleaseInv, NEW c \in Calls, CandidateWrites(c)
  PROVE  ReleaseInv' /\ Grows
<1>0. /\ call[c] \in CallRow /\ CallOk(call[c]) /\ Typed /\ ProjectSame
      /\ UNCHANGED <<tests, scans, builds, acceptances>>
  BY CallFits DEF CandidateWrites
<1>1. locked \in Nat /\ now \in Nat /\ locked' \in Nat /\ now' \in Nat
  BY <1>0, BoundsAssumption DEF Typed, ProjectSame
<1>2. PICK k \in CallRow : k = call[c]
  BY <1>0
<1>3. /\ k.build \in Nat /\ k.test \in Nat /\ k.scan \in Nat /\ k.own \in Nat /\ k.own # 0
      /\ k.gate.at \in Nat /\ k.gate.passed \in BOOLEAN
      /\ k.at = "creating"
  BY <1>2 DEF CallRow, CandidateWrites, At
<1> DEFINE row == [build |-> k.build, test |-> k.test, scan |-> k.scan, prd |-> k.own,
                   status |-> GateStatus(k.gate.passed), gateAt |-> k.gate.at, version |-> 1,
                   approved |-> FALSE, runs |-> {}]
<1>4. GateStatus(k.gate.passed) \in {"CANDIDATE", "GATE_BLOCKED"}
      /\ (GateStatus(k.gate.passed) = "CANDIDATE" <=> k.gate.passed)
  BY <1>3 DEF GateStatus
<1>5. row \in ReleaseRow
  BY <1>3, <1>4 DEF ReleaseRow
<1>6. /\ row.build = k.build /\ row.test = k.test /\ row.scan = k.scan /\ row.prd = k.own
      /\ row.status \in {"CANDIDATE", "GATE_BLOCKED"} /\ (row.status = "CANDIDATE" <=> k.gate.passed)
      /\ row.gateAt = k.gate.at /\ row.version = 1 /\ row.approved = FALSE /\ row.runs = {}
  BY <1>4
<1>7. releases' = Append(releases, row)
  BY <1>2 DEF CandidateWrites
<1> HIDE DEF row
<1>8. ReleaseOk(row)
  <2>1. /\ k.build \in DOMAIN builds /\ k.test \in DOMAIN tests /\ k.scan \in DOMAIN scans /\ k.then = "creating"
    BY <1>0, <1>2, <1>3 DEF CallOk, CallPlaced, Gating
  <2>2. k.own \in 1 .. locked /\ k.gate.at <= now /\ builds[k.build].prd <= k.own
    BY <1>0, <1>1, <1>2, <1>3, <2>1 DEF CallOk, CallReadsPrds
  <2>3. k.gate.passed => Proven(k.build, k.test, k.scan, k.gate.at)
    BY <1>0, <1>2, <1>3 DEF CallOk, CallGate
  <2> QED
    BY <1>6, <2>1, <2>2, <2>3 DEF ReleaseOk
<1>9. /\ Grows /\ releases' \in Seq(ReleaseRow)
      /\ \A n \in DOMAIN releases' :
           (n \in DOMAIN releases /\ releases'[n] = releases[n]) \/ ReleaseOk(releases'[n])
      /\ row.status = "CANDIDATE" => SomePassed'
  BY <1>0, <1>5, <1>7, <1>8, ReleaseAdded
<1>10. PICK goals \in {<<>>, <<"RELEASE_CANDIDATE">>} :
         goals = IF k.gate.passed THEN <<"RELEASE_CANDIDATE">> ELSE <<>>
  OBVIOUS
<1>11. goals \in Seq(ProjectStatuses)
  <2>1. <<"RELEASE_CANDIDATE">> \in Seq(ProjectStatuses)
    BY DEF ProjectStatuses, allowedProjectTransitions
  <2> QED
    BY <2>1, EmptySeq
<1>12. \A i \in DOMAIN goals : Backed(goals[i])'
  BY <1>6, <1>9, <1>10 DEF Backed
<1>13. Pursues(c, goals)
  BY <1>2, <1>10 DEF CandidateWrites
<1>14. /\ call' \in [Calls -> CallRow] /\ \A d \in Calls : d # c => call'[d] = call[d]
       /\ CallOk(call[c])'
  BY <1>1, <1>11, <1>12, <1>13, PursuesTo
<1> QED
  BY <1>0, <1>9, <1>14, ReleaseStep

(* Two approvals of one release: whichever comes second finds another      *)
(* version of the row.                                                     *)
LEMMA ApprovingSteps ==
  ASSUME ReleaseInv, NEW c \in Calls, ApproveBlocks(c) \/ ApproveWrites(c)
  PROVE  ReleaseInv' /\ Grows
<1>0. /\ call[c] \in CallRow /\ CallOk(call[c]) /\ Typed /\ ProjectSame
      /\ UNCHANGED <<tests, scans, builds, acceptances>>
  BY CallFits DEF ApproveBlocks, ApproveWrites
<1>1. locked \in Nat /\ now \in Nat /\ locked' \in Nat /\ now' \in Nat
  BY <1>0, BoundsAssumption DEF Typed, ProjectSame
<1>2. PICK k \in CallRow : k = call[c]
  BY <1>0
<1>3. k.at = "approving" /\ k.then = "approving" /\ k.gate.at \in Nat /\ k.seen \in Nat
  BY <1>0, <1>2 DEF ApproveBlocks, ApproveWrites, At, CallOk, CallPlaced, CallRow
<1>4. PICK n \in DOMAIN releases : n = k.release
  BY <1>0, <1>2, <1>3 DEF CallOk, CallReadsPrds
<1>5. releases[n] \in ReleaseRow /\ ReleaseOk(releases[n])
  BY <1>0, RowTyped DEF Typed, ReleaseInv
<1>6. PICK r \in ReleaseRow : r = releases[n]
  BY <1>5
<1>7. /\ r.build = k.build /\ r.test = k.test /\ r.scan = k.scan /\ r.prd <= k.seen /\ k.gate.at <= now
  BY <1>0, <1>2, <1>3, <1>4, <1>6 DEF CallOk, CallReadsPrds
<1>10. r.version + 1 \in Nat
  BY DEF ReleaseRow
<1>11. PICK version \in Nat : version = r.version + 1
  BY <1>10
<1>12. PICK gateAt \in Nat : gateAt = k.gate.at
  BY <1>3
<1>8. CASE ApproveBlocks(c)
  <2> DEFINE row == [r EXCEPT !.status = "GATE_BLOCKED", !.gateAt = gateAt, !.version = version]
  <2>1. row \in ReleaseRow
    BY DEF ReleaseRow
  <2>2. /\ row.build = r.build /\ row.test = r.test /\ row.scan = r.scan /\ row.prd = r.prd
        /\ row.approved = r.approved /\ row.runs = r.runs /\ row.status = "GATE_BLOCKED"
        /\ row.gateAt = k.gate.at /\ row.version = r.version + 1 /\ r.version \in Nat
    BY <1>11, <1>12 DEF ReleaseRow
  <2>3. releases' = [releases EXCEPT ![n] = row]
    BY <1>2, <1>4, <1>6, <1>8, <1>11, <1>12 DEF ApproveBlocks
  <2> HIDE DEF row
  <2>4. ReleaseOk(row)
    BY <1>5, <1>6, <1>7, <2>2 DEF ReleaseOk
  <2>5. /\ Grows /\ releases' \in Seq(ReleaseRow)
        /\ \A m \in DOMAIN releases' :
             (m \in DOMAIN releases /\ releases'[m] = releases[m]) \/ ReleaseOk(releases'[m])
    BY <1>0, <1>6, <2>1, <2>2, <2>3, <2>4, ReleaseDecided
  <2>6. /\ call' \in [Calls -> CallRow] /\ \A d \in Calls : d # c => call'[d] = call[d]
        /\ CallOk(call[c])'
    BY <1>1, <1>8, GoesOver DEF ApproveBlocks, Over
  <2> QED
    BY <1>0, <2>5, <2>6, ReleaseStep
<1>9. CASE ApproveWrites(c)
  <2>1. CASE ~StillCandidate(c)
    <3>1. releases' = releases /\ Pursues(c, <<>>)
      BY <1>9, <2>1 DEF ApproveWrites, GoalsOfApproval
    <3>2. <<>> \in Seq(ProjectStatuses) /\ \A i \in DOMAIN <<>> : Backed(<<>>[i])'
      BY EmptySeq
    <3>3. /\ call' \in [Calls -> CallRow] /\ \A d \in Calls : d # c => call'[d] = call[d]
          /\ CallOk(call[c])'
      BY <1>1, <3>1, <3>2, PursuesTo
    <3>4. Grows /\ releases' \in Seq(ReleaseRow)
      BY <1>0, <1>1, <3>1 DEF Grows, ProjectSame, Typed
    <3> QED
      BY <1>0, <3>1, <3>3, <3>4, ReleaseStep
  <2>2. CASE StillCandidate(c)
    <3> DEFINE row == [r EXCEPT !.status = "APPROVED", !.approved = TRUE, !.gateAt = gateAt,
                                !.version = version]
    <3>1. row \in ReleaseRow
      BY DEF ReleaseRow
    <3>2. /\ row.build = r.build /\ row.test = r.test /\ row.scan = r.scan /\ row.prd = r.prd
          /\ row.approved = TRUE /\ row.runs = r.runs /\ row.status = "APPROVED"
          /\ row.gateAt = k.gate.at /\ row.version = r.version + 1 /\ r.version \in Nat
          /\ r.build \in Nat /\ r.prd \in Nat
      BY <1>11, <1>12 DEF ReleaseRow
    <3>3. releases' = [releases EXCEPT ![n] = row] /\ r.status = "CANDIDATE"
      BY <1>2, <1>4, <1>6, <1>9, <1>11, <1>12, <2>2 DEF ApproveWrites, StillCandidate
    <3> HIDE DEF row
    <3>4. Proven(k.build, k.test, k.scan, k.gate.at) /\ builds[k.build].prd = k.seen
      BY <1>0, <1>2, <1>3, <1>9 DEF ApproveWrites, CallOk, CallGate
    <3>5. r.prd = builds[r.build].prd
      <4>1. builds[r.build].prd = k.seen /\ builds[r.build].prd <= r.prd /\ r.prd <= k.seen
        BY <1>5, <1>6, <1>7, <3>4 DEF ReleaseOk
      <4> QED
        BY <1>3, <3>2, <4>1
    <3>6. ReleaseOk(row)
      BY <1>5, <1>6, <1>7, <3>2, <3>4, <3>5 DEF ReleaseOk
    <3>7. /\ Grows /\ releases' \in Seq(ReleaseRow)
          /\ \A m \in DOMAIN releases' :
               (m \in DOMAIN releases /\ releases'[m] = releases[m]) \/ ReleaseOk(releases'[m])
          /\ SomeApproved'
      BY <1>0, <1>6, <3>1, <3>2, <3>3, <3>6, ReleaseDecided
    <3>8. PICK goals \in {<<"FINAL_APPROVAL">>} : Pursues(c, goals)
      BY <1>9, <2>2 DEF ApproveWrites, GoalsOfApproval
    <3>9. goals \in Seq(ProjectStatuses)
      <4>1. "FINAL_APPROVAL" \in ProjectStatuses
        BY DEF ProjectStatuses, allowedProjectTransitions
      <4>2. <<"FINAL_APPROVAL">> \in Seq(ProjectStatuses)
        BY <4>1
      <4> QED
        BY <4>2
    <3>10. \A i \in DOMAIN goals : Backed(goals[i])'
      BY <3>7 DEF Backed
    <3>11. /\ call' \in [Calls -> CallRow] /\ \A d \in Calls : d # c => call'[d] = call[d]
           /\ CallOk(call[c])'
      BY <1>1, <3>8, <3>9, <3>10, PursuesTo
    <3> QED
      BY <1>0, <3>7, <3>11, ReleaseStep
  <2> QED
    BY <2>1, <2>2
<1> QED
  BY <1>8, <1>9

(* requestSigning records a signing if its gate passed; no release changes. *)
LEMMA SignsStep ==
  ASSUME ReleaseInv, NEW c \in Calls, Signs(c)
  PROVE  ReleaseInv' /\ Grows
<1>0. Typed /\ UNCHANGED <<project, byHand, locked, now, tests, scans, builds, releases, acceptances>>
  BY CallFits DEF Signs, ProjectSame
<1>1. locked \in Nat /\ now \in Nat /\ locked' \in Nat /\ now' \in Nat
  BY <1>0, BoundsAssumption DEF Typed
<1>2. PICK place \in Over : Goes(c, place)
  BY DEF Signs, Over
<1>3. /\ call' \in [Calls -> CallRow] /\ \A d \in Calls : d # c => call'[d] = call[d]
      /\ CallOk(call[c])'
  BY <1>1, <1>2, GoesOver
<1>4. Typed'
  BY <1>0, <1>3 DEF Typed
<1>5. Grows
  BY <1>0, <1>1 DEF Grows
<1> QED
  BY <1>0, <1>3, <1>4, <1>5, StepKeeps

(* What people do to the project, a newer PRD, and the clock.              *)
LEMMA WorldSteps ==
  ASSUME ReleaseInv, PersonMoves \/ PrdLocks \/ Tick \/ UNCHANGED vars
  PROVE  ReleaseInv' /\ Grows
<1>0. /\ Typed /\ UNCHANGED <<tests, scans, builds, releases, acceptances, call>>
      /\ UNCHANGED <<project, byHand>> \/ (byHand' = TRUE /\ project' \in ProjectStatuses)
  BY PersonAssumption DEF ReleaseInv, PersonMoves, PrdLocks, Tick, vars, rows
<1>1. locked \in 1 .. MaxPrds /\ now \in 0 .. MaxTime /\ MaxPrds \in Nat /\ MaxTime \in Nat
  BY <1>0, BoundsAssumption DEF Typed
<1>2. locked' \in 1 .. MaxPrds /\ now' \in 0 .. MaxTime /\ locked <= locked' /\ now <= now'
  BY <1>1 DEF PersonMoves, PrdLocks, Tick, vars
<1>3. Typed'
  BY <1>0, <1>2 DEF Typed
<1>4. Grows
  BY <1>0, <1>2 DEF Grows
<1> QED
  BY <1>0, <1>3, <1>4, StepKeeps

-----------------------------------------------------------------------------
(* The pipeline.                                                           *)

(* What the tools report are findings the gate understands.                *)
LEMMA RunFindings == ASSUME NEW run \in PipelineRuns PROVE findings(run) \subseteq AnyFinding
<1> DEFINE Severities == {"CRITICAL", "HIGH", "MEDIUM", "LOW", "INFO"}
<1>0. run.manifests \subseteq SUBSET Marks /\ run.sources \subseteq SourceRules
  BY RunsAssumption DEF Run
<1>1. ASSUME NEW rule \in PipelineRules, NEW severity \in Severities
      PROVE  Finding(rule, severity) \in AnyFinding
  BY DEF Finding, AnyFinding, Rules
<1>2. ManifestRules \subseteq PipelineRules /\ SourceRules \subseteq PipelineRules /\ Scanners \subseteq PipelineRules
      /\ {"PIPELINE-ANDROID-MANIFEST", "PIPELINE-SYFT", "PIPELINE-MOBSF"} \subseteq PipelineRules
  BY DEF PipelineRules
<1>3. \A marks : inspectAndroidManifest(marks) \subseteq AnyFinding
  BY <1>1, <1>2 DEF inspectAndroidManifest, When, ManifestRules
<1>4. inspectAndroidSource(run.sources) \subseteq AnyFinding
  <2>1. \A rule : SourceSeverity(rule) \in Severities
    BY DEF SourceSeverity
  <2> QED
    BY <1>0, <1>1, <1>2, <2>1 DEF inspectAndroidSource
<1>5. builtInSecurityScan(run) \subseteq AnyFinding
  <2>1. UNION {inspectAndroidManifest(marks) : marks \in run.manifests} \subseteq AnyFinding
    BY <1>3
  <2>2. When(run.manifests = {}, Finding("PIPELINE-ANDROID-MANIFEST", "CRITICAL")) \subseteq AnyFinding
    BY <1>1, <1>2 DEF When
  <2> QED
    BY <1>4, <2>1, <2>2 DEF builtInSecurityScan
<1>6. runExternalSecurity(run) \subseteq AnyFinding
  <2>1. \A name, outcome : ScannerSeverity(name, outcome) \in Severities
    BY DEF ScannerSeverity
  <2> QED
    BY <1>1, <1>2, <2>1 DEF runExternalSecurity, When
<1> QED
  BY <1>5, <1>6 DEF findings

(* The result of a run fits the three rows that record it.                 *)
LEMMA ResultTyped ==
  ASSUME NEW run \in PipelineRuns, NEW result, result = runAndroidPipeline(run)
  PROVE  /\ result.failures \in BOOLEAN /\ result.sbom \in BOOLEAN /\ result.artifact \in BOOLEAN
         /\ result.securityStatus \in {"PASSED", "FAILED"} /\ result.buildStatus \in {"SUCCEEDED", "FAILED"}
         /\ result.findings \subseteq AnyFinding
<1>1. CASE run.fake
  BY <1>1 DEF runAndroidPipeline, fakeResult
<1>2. CASE ~run.fake
  <2>1. /\ result.failures = ("FAILED" \in TestSteps(run)) /\ result.sbom = SbomMade(run)
        /\ result.artifact = (buildArtifact(run) # "none") /\ result.findings = findings(run)
        /\ result.securityStatus = securityStatus(run) /\ result.buildStatus = buildStatus(run)
    BY <1>2 DEF runAndroidPipeline
  <2>2. SbomMade(run) \in BOOLEAN
    BY DEF SbomMade
  <2>3. securityStatus(run) \in {"PASSED", "FAILED"} /\ buildStatus(run) \in {"SUCCEEDED", "FAILED"}
    BY DEF securityStatus, buildStatus
  <2> QED
    BY <2>1, <2>2, <2>3, RunFindings
<1> QED
  BY <1>1, <1>2

(* No failure of a tool is lost on the way to the three statuses.          *)
LEMMA PassedIsClean ==
  ASSUME NEW run \in PipelineRuns, NEW result, result = runAndroidPipeline(run),
         result.testStatus = "PASSED", result.securityStatus = "PASSED",
         result.buildStatus = "SUCCEEDED"
  PROVE  Clean(run)
<1> SUFFICES ASSUME ~run.fake PROVE Clean(run)
  BY DEF Clean
<1>0. testStatus(run) = "PASSED" /\ securityStatus(run) = "PASSED" /\ buildStatus(run) = "SUCCEEDED"
  BY DEF runAndroidPipeline
<1>1. \A outcome : StepStatus(outcome) = "PASSED" => outcome = "ok"
  BY DEF StepStatus
<1>2. TestSteps(run) = {"PASSED"}
  BY <1>0 DEF testStatus
<1>3. \A t \in TestTasks : run.exit[t] = "ok"
  BY <1>1, <1>2 DEF TestSteps
<1>4. SmokeStatus(run) = "PASSED"
  BY <1>2 DEF TestSteps
<1>5. run.emulator /\ run.exit["adb"] = "ok" /\ findNewestArtifact(run, {"APK"}) # "none"
  BY <1>1, <1>4 DEF SmokeStatus
<1>6. "APK" \in run.found
  BY <1>5 DEF findNewestArtifact
<1>7. /\ \A f \in findings(run) : f.severity \notin {"CRITICAL", "HIGH"}
      /\ \A s \in Scanners \cup {"syft"} : run.exit[s] = "ok"
      /\ run.spdx
  BY <1>0, <1>1 DEF securityStatus, SbomMade
<1>8. \A t \in BuildTasks : run.exit[t] = "ok"
  BY <1>0 DEF buildStatus
<1>9. \A c \in Commands : run.exit[c] = "ok"
  BY <1>3, <1>5, <1>7, <1>8 DEF Commands
<1>10. \A f \in builtInSecurityScan(run) : f.severity \in {"MEDIUM", "LOW", "INFO"}
  BY <1>7, RunFindings DEF findings, AnyFinding
<1>11. run.manifests # {}
  <2> SUFFICES ASSUME run.manifests = {} PROVE FALSE
    OBVIOUS
  <2>1. Finding("PIPELINE-ANDROID-MANIFEST", "CRITICAL") \in builtInSecurityScan(run)
    BY DEF builtInSecurityScan, When
  <2>2. Finding("PIPELINE-ANDROID-MANIFEST", "CRITICAL").severity = "CRITICAL"
    BY DEF Finding
  <2> QED
    BY <1>10, <2>1, <2>2
<1> QED
  BY <1>5, <1>6, <1>7, <1>9, <1>10, <1>11 DEF Clean

(* recordPipelineResult appends the three rows of a pipeline run. *)
LEMMA PipelineRecordsStep ==
  ASSUME ReleaseInv, NEW c \in Calls, PipelineRecords(c)
  PROVE  ReleaseInv' /\ Grows
<1>0. /\ call[c] \in CallRow /\ CallOk(call[c]) /\ Typed /\ ProjectSame
      /\ UNCHANGED <<releases, acceptances>> /\ call \in [Calls -> CallRow]
  BY CallFits DEF PipelineRecords, Typed
<1>1. locked \in Nat /\ now \in Nat
  BY <1>0, BoundsAssumption DEF Typed
<1>2. PICK k \in CallRow : k = call[c]
  BY <1>0
<1>3. /\ k.at = "recording" /\ k.then = "done" /\ k.own \in 1 .. locked /\ k.gate.passed \in BOOLEAN
      /\ k.gate.at <= now
  <2>1. k.own \in Nat /\ k.gate.passed \in BOOLEAN
    BY DEF CallRow
  <2>2. k.at = "recording"
    BY <1>2 DEF PipelineRecords, At
  <2>3. k.own >= 1 /\ k.own <= locked /\ k.gate.at <= now /\ k.then = "done"
    BY <1>0, <1>2, <2>2 DEF CallOk, CallPlaced, CallReadsPrds, Gating
  <2> QED
    BY <1>1, <2>1, <2>2, <2>3
<1>4. PICK run \in PipelineRuns : k.runs = {run}
  BY <1>0, <1>2, <1>3 DEF CallOk, CallRuns
<1>5. TheRun(c) = run
  BY <1>2, <1>4 DEF TheRun
<1> DEFINE result == runAndroidPipeline(run)
<1>50. /\ result.failures \in BOOLEAN /\ result.sbom \in BOOLEAN /\ result.artifact \in BOOLEAN
       /\ result.securityStatus \in {"PASSED", "FAILED"} /\ result.buildStatus \in {"SUCCEEDED", "FAILED"}
       /\ result.findings \subseteq AnyFinding
  BY ResultTyped
<1>51. PipelineRecords(c) => runAndroidPipeline(TheRun(c)) = result
  BY <1>5
<1> HIDE DEF result
<1>6. PICK testRow \in TestRow :
        tests' = Append(tests, testRow) /\ (testRow.status = "PASSED" => result.testStatus = "PASSED")
  <2> DEFINE evidence == k.gate.passed
  <2> DEFINE passed == result.testStatus = "PASSED" /\ evidence
  <2> DEFINE row == [commit |-> "head", criteria |-> evidence, status |-> IF passed THEN "PASSED" ELSE "FAILED",
                     failures |-> result.failures]
  <2>1. tests' = Append(tests, row)
    BY <1>2, <1>51 DEF PipelineRecords
  <2>2. (IF passed THEN "PASSED" ELSE "FAILED") \in Outcomes /\ "head" \in Commits
    BY DEF Outcomes, Commits
  <2>4. row \in TestRow
    BY <1>3, <1>50, <2>2 DEF TestRow
  <2>5. row.status = "PASSED" => result.testStatus = "PASSED"
    OBVIOUS
  <2> QED
    BY <2>1, <2>4, <2>5
<1>7. PICK scanRow \in ScanRow :
        /\ scans' = Append(scans, scanRow)
        /\ scanRow.status = result.securityStatus /\ scanRow.findings = result.findings
  <2> DEFINE row == [commit |-> "head", status |-> result.securityStatus, sbom |-> result.sbom,
                     findings |-> result.findings]
  <2>1. scans' = Append(scans, row)
    BY <1>51 DEF PipelineRecords
  <2>2. "head" \in Commits
    BY DEF Commits
  <2>3. row \in ScanRow
    BY <1>50, <2>2 DEF ScanRow, Outcomes
  <2> QED
    BY <2>1, <2>3
<1>8. PICK buildRow \in BuildRow :
        /\ builds' = Append(builds, buildRow)
        /\ buildRow.status = result.buildStatus /\ buildRow.prd = k.own
  <2> DEFINE row == [commit |-> "head", status |-> result.buildStatus,
                     artifact |-> result.artifact, prd |-> k.own]
  <2>1. builds' = Append(builds, row)
    BY <1>2, <1>51 DEF PipelineRecords
  <2>2. "head" \in Commits
    BY DEF Commits
  <2>4. k.own \in Nat
    BY <1>1, <1>3
  <2>5. row \in BuildRow
    BY <1>50, <2>2, <2>4 DEF BuildRow
  <2> QED
    BY <2>1, <2>5
<1>9. Added(tests, tests', TestRow) /\ Added(scans, scans', ScanRow) /\ Added(builds, builds', BuildRow)
  BY <1>6, <1>7, <1>8 DEF Added
<1>10. /\ Len(tests) \in Nat /\ Len(tests) + 1 \in DOMAIN tests' /\ tests'[Len(tests) + 1] = testRow
       /\ Len(scans) \in Nat /\ Len(scans) + 1 \in DOMAIN scans' /\ scans'[Len(scans) + 1] = scanRow
       /\ Len(builds) \in Nat /\ Len(builds) + 1 \in DOMAIN builds' /\ builds'[Len(builds) + 1] = buildRow
       /\ \A b \in DOMAIN builds' : b \in DOMAIN builds \/ builds'[b].prd \in 1 .. locked
  <2>1. /\ Len(tests) \in Nat /\ Len(tests) + 1 \in DOMAIN tests' /\ tests'[Len(tests) + 1] = testRow
    BY <1>0, <1>6, RowAdded DEF Typed
  <2>2. /\ Len(scans) \in Nat /\ Len(scans) + 1 \in DOMAIN scans' /\ scans'[Len(scans) + 1] = scanRow
    BY <1>0, <1>7, RowAdded DEF Typed
  <2>3. /\ Len(builds) \in Nat /\ Len(builds) + 1 \in DOMAIN builds' /\ builds'[Len(builds) + 1] = buildRow
        /\ DOMAIN builds' = 1 .. (Len(builds) + 1) /\ DOMAIN builds = 1 .. Len(builds)
    BY <1>0, <1>8, RowAdded DEF Typed
  <2>4. \A b \in DOMAIN builds' : b \in DOMAIN builds \/ builds'[b].prd \in 1 .. locked
    BY <1>3, <1>8, <2>3
  <2> QED
    BY <2>1, <2>2, <2>3, <2>4
<1>19. PICK t \in Nat, s \in Nat, b \in Nat :
         t = Len(tests) + 1 /\ s = Len(scans) + 1 /\ b = Len(builds) + 1
  <2>1. Len(tests) + 1 \in Nat /\ Len(scans) + 1 \in Nat /\ Len(builds) + 1 \in Nat
    BY <1>10
  <2> QED
    BY <2>1
<1> DEFINE row == [k EXCEPT !.at = "gating", !.test = t, !.scan = s, !.build = b]
<1>11. row \in CallRow
  BY DEF CallRow, Places
<1>12. /\ row.at = "gating" /\ row.then = k.then /\ row.own = k.own /\ row.gate = k.gate
       /\ row.goals = k.goals /\ row.runs = {run}
       /\ row.test = t /\ row.scan = s /\ row.build = b
  BY <1>4 DEF CallRow
<1>13. call' = [call EXCEPT ![c] = row]
  BY <1>0, <1>2, <1>19 DEF PipelineRecords
<1> HIDE DEF row
<1>14. call' \in [Calls -> CallRow] /\ (\A d \in Calls : d # c => call'[d] = call[d]) /\ call'[c] = row
  BY <1>0, <1>11, <1>13
<1>15. locked' = locked /\ now' = now /\ releases' = releases
  BY <1>0 DEF ProjectSame
<1>16. CallPlaced(call[c])'
  <2>1. \A i \in DOMAIN k.goals : Backed(k.goals[i])
    BY <1>0, <1>2 DEF CallOk, CallPlaced
  <2>2. \A i \in DOMAIN row.goals : Backed(row.goals[i])'
    BY <1>12, <1>15, <2>1 DEF Backed, SomeApproved, SomePassed
  <2> QED
    BY <1>3, <1>10, <1>12, <1>14, <1>19, <2>2 DEF CallPlaced, Gating
<1>17. CallReadsPrds(call[c])' /\ CallGate(call[c])'
  BY <1>1, <1>3, <1>12, <1>14, <1>15 DEF CallReadsPrds, CallGate
<1>18. CallRuns(call[c])'
  <2>1. tests'[row.test] = testRow /\ scans'[row.scan] = scanRow /\ builds'[row.build] = buildRow
    BY <1>10, <1>12, <1>19
  <2>2. RunsRows(run, row)'
    BY <1>6, <1>7, <1>8, <1>12, <2>1 DEF RunsRows, result
  <2> QED
    BY <1>12, <1>14, <2>2 DEF CallRuns, RunsRows
<1> QED
  BY <1>0, <1>9, <1>10, <1>14, <1>16, <1>17, <1>18, RecordStep DEF CallOk

(* The worker's own gate makes a candidate of a clean run, or a BLOCKED one. *)
LEMMA PipelineGatesStep ==
  ASSUME ReleaseInv, NEW c \in Calls, PipelineGates(c)
  PROVE  ReleaseInv' /\ Grows
<1>0. /\ call[c] \in CallRow /\ CallOk(call[c]) /\ Typed /\ ProjectSame
      /\ UNCHANGED <<tests, scans, builds, acceptances>>
  BY CallFits DEF PipelineGates
<1>1. locked \in Nat /\ now \in Nat /\ locked' \in Nat /\ now' \in Nat
  BY <1>0, BoundsAssumption DEF Typed, ProjectSame
<1>2. PICK k \in CallRow : k = call[c]
  BY <1>0
<1>3. k.at = "gating" /\ k.own \in Nat /\ k.own >= 1 /\ k.own <= locked
      /\ k.build \in Nat /\ k.test \in Nat /\ k.scan \in Nat
      /\ k.build \in DOMAIN builds /\ k.test \in DOMAIN tests /\ k.scan \in DOMAIN scans
  BY <1>0, <1>2 DEF PipelineGates, At, CallOk, CallPlaced, CallReadsPrds, CallRow
<1>4. PICK run \in PipelineRuns : k.runs = {run} /\ RunsRows(run, k)
  BY <1>0, <1>2, <1>3 DEF CallOk, CallRuns
<1> DEFINE verdict == evaluateReleaseGate(builds[k.build], tests[k.test], scans[k.scan], k.own, High(scans[k.scan]))
<1>5. verdict \in BOOLEAN
  BY DEF evaluateReleaseGate
<1>6. verdict => /\ Proven(k.build, k.test, k.scan, now)
                 /\ tests[k.test].status = "PASSED" /\ scans[k.scan].status = "PASSED"
                 /\ builds[k.build].status = "SUCCEEDED"
  BY DEF evaluateReleaseGate, Proven, commitMatches
<1>7. verdict => Clean(run)
  BY <1>4, <1>6, PassedIsClean DEF RunsRows
<1>8. /\ releases' = Append(releases,
           [build |-> k.build, test |-> k.test, scan |-> k.scan, prd |-> k.own,
            status |-> GateStatus(verdict), gateAt |-> now, version |-> 1, approved |-> FALSE,
            runs |-> k.runs])
      /\ Pursues(c, (IF tests[k.test].status = "PASSED" THEN <<"QA_TESTING">> ELSE <<>>)
                      \o (IF tests[k.test].status = "PASSED" /\ scans[k.scan].status = "PASSED"
                            THEN <<"SECURITY_REVIEW">> ELSE <<>>)
                      \o (IF verdict THEN <<"RELEASE_CANDIDATE">> ELSE <<>>))
  BY <1>2 DEF PipelineGates
<1> HIDE DEF verdict
<1>9. PICK passed \in BOOLEAN : passed = verdict
  BY <1>5
<1>10. PICK time \in Nat : time = now
  BY <1>1
<1> DEFINE row == [build |-> k.build, test |-> k.test, scan |-> k.scan, prd |-> k.own,
                   status |-> GateStatus(passed), gateAt |-> time, version |-> 1,
                   approved |-> FALSE, runs |-> {run}]
<1>11. GateStatus(passed) \in {"CANDIDATE", "GATE_BLOCKED"} /\ (GateStatus(passed) = "CANDIDATE" <=> passed)
  BY DEF GateStatus
<1>12. row \in ReleaseRow
  BY <1>3, <1>11 DEF ReleaseRow
<1>13. /\ row.build = k.build /\ row.test = k.test /\ row.scan = k.scan /\ row.prd = k.own
       /\ row.status \in {"CANDIDATE", "GATE_BLOCKED"} /\ (row.status = "CANDIDATE" <=> passed)
       /\ row.gateAt = now /\ row.version = 1 /\ row.approved = FALSE /\ row.runs = {run}
  BY <1>10, <1>11
<1>14. releases' = Append(releases, row)
  BY <1>4, <1>8, <1>9, <1>10
<1> HIDE DEF row
<1>15. ReleaseOk(row)
  <2>1. builds[k.build].prd = k.own /\ k.own \in 1 .. locked
    BY <1>1, <1>3, <1>4 DEF RunsRows
  <2> QED
    BY <1>1, <1>3, <1>6, <1>7, <1>9, <1>13, <2>1 DEF ReleaseOk
<1>16. /\ Grows /\ releases' \in Seq(ReleaseRow)
       /\ \A n \in DOMAIN releases' :
            (n \in DOMAIN releases /\ releases'[n] = releases[n]) \/ ReleaseOk(releases'[n])
       /\ row.status = "CANDIDATE" => SomePassed'
  BY <1>0, <1>12, <1>14, <1>15, ReleaseAdded
<1> DEFINE Goals == {"QA_TESTING", "SECURITY_REVIEW"} \cup (IF passed THEN {"RELEASE_CANDIDATE"} ELSE {})
<1>17. PICK qa \in Seq(Goals), security \in Seq(Goals), candidate \in Seq(Goals) :
         Pursues(c, qa \o security \o candidate)
  <2>1. <<>> \in Seq(Goals) /\ <<"QA_TESTING">> \in Seq(Goals) /\ <<"SECURITY_REVIEW">> \in Seq(Goals)
    BY EmptySeq
  <2>2. passed => <<"RELEASE_CANDIDATE">> \in Seq(Goals)
    OBVIOUS
  <2> HIDE DEF Goals
  <2>3. PICK qa \in Seq(Goals) :
          qa = IF tests[k.test].status = "PASSED" THEN <<"QA_TESTING">> ELSE <<>>
    BY <2>1
  <2>4. PICK security \in Seq(Goals) :
          security = IF tests[k.test].status = "PASSED" /\ scans[k.scan].status = "PASSED"
                       THEN <<"SECURITY_REVIEW">> ELSE <<>>
    BY <2>1
  <2>5. PICK candidate \in Seq(Goals) : candidate = IF verdict THEN <<"RELEASE_CANDIDATE">> ELSE <<>>
    BY <1>9, <2>1, <2>2
  <2> QED
    BY <1>8, <2>3, <2>4, <2>5
<1>18. PICK goals \in Seq(Goals) : Pursues(c, goals)
  <2> HIDE DEF Goals
  <2>1. qa \o security \in Seq(Goals)
    BY ConcatProperties
  <2>2. qa \o security \o candidate \in Seq(Goals)
    BY <2>1, ConcatProperties
  <2> QED
    BY <1>17, <2>2
<1>19. \A i \in DOMAIN goals : goals[i] \in Goals
  <2> HIDE DEF Goals
  <2> QED
    BY RowTyped
<1>20. goals \in Seq(ProjectStatuses)
  <2>1. Goals \subseteq ProjectStatuses
    BY DEF ProjectStatuses, allowedProjectTransitions
  <2> HIDE DEF Goals
  <2>2. goals \in Seq(Goals) => goals \in Seq(ProjectStatuses)
    BY <2>1
  <2> QED
    BY <2>2
<1>21. \A i \in DOMAIN goals : Backed(goals[i])'
  BY <1>13, <1>16, <1>19 DEF Backed
<1>22. /\ call' \in [Calls -> CallRow] /\ \A d \in Calls : d # c => call'[d] = call[d]
       /\ CallOk(call[c])'
  BY <1>1, <1>18, <1>20, <1>21, PursuesTo
<1> QED
  BY <1>0, <1>16, <1>22, ReleaseStep

-----------------------------------------------------------------------------
(* The theorems.                                                           *)

(* One case per action of Next. *)
LEMMA StepKeepsReleaseInv == ASSUME ReleaseInv, [Next]_vars PROVE ReleaseInv' /\ Grows
<1>1. ASSUME NEW c \in Calls, Begins(c) PROVE ReleaseInv' /\ Grows
  BY <1>1, RecordsBegin, AcceptBegins, GateBegins, PipelineBeginsStep DEF Begins
<1>2. ASSUME NEW c \in Calls, Proceeds(c) PROVE ReleaseInv' /\ Grows
  BY <1>2, ReportSteps, BuildRecordsStep, AcceptWritesStep, PrdReads, GateReportsStep, CandidateStep,
     ApprovingSteps, SignsStep, PipelineRecordsStep, PipelineGatesStep, MovingSteps DEF Proceeds
<1> QED
  BY <1>1, <1>2, WorldSteps DEF Next

(* Every call's knowledge holds in every state, whatever the others do.    *)
THEOREM ReleaseInvHolds == Spec => []ReleaseInv
  BY InitReleaseInv, StepKeepsReleaseInv, PTL DEF Spec

(* Every variable keeps its type, and no row names a row, or a PRD version,*)
(* that does not exist.                                                    *)
THEOREM ReleaseTypeCorrect == Spec => []TypeOK
<1>1. ReleaseInv => TypeOK
  <2> SUFFICES ASSUME ReleaseInv PROVE TypeOK
    OBVIOUS
  <2>1. Typed /\ locked \in Nat /\ now \in Nat
    BY BoundsAssumption DEF ReleaseInv, Typed
  <2>2. \A t \in Range(tests) : t \in TestRow
    BY <2>1, RowTyped DEF Typed, Range
  <2>3. \A s \in Range(scans) : s \in ScanRow
    BY <2>1, RowTyped DEF Typed, Range
  <2>4. \A b \in Range(builds) : b \in BuildRow /\ b.prd \in 1 .. locked
    BY <2>1, RowTyped DEF Typed, Range, ReleaseInv
  <2>5. \A r \in Range(releases) : r \in ReleaseRow /\ ReleaseOk(r)
    BY <2>1, RowTyped DEF Typed, Range, ReleaseInv
  <2>6. \A r \in Range(releases) : r.gateAt \in 0 .. now
    BY <2>1, <2>5 DEF ReleaseRow, ReleaseOk
  <2>7. /\ \A t \in Range(tests) : t.status \in Outcomes /\ {t.failures, t.criteria} \subseteq BOOLEAN
        /\ \A s \in Range(scans) : s.status \in Outcomes /\ s.findings \subseteq AnyFinding
        /\ \A b \in Range(builds) : b.status \in {"SUCCEEDED", "FAILED"}
        /\ \A r \in Range(releases) : r.status \in {"CANDIDATE", "GATE_BLOCKED", "APPROVED"}
    BY <2>2, <2>3, <2>4, <2>5 DEF TestRow, ScanRow, BuildRow, ReleaseRow
  <2> QED
    BY <2>1, <2>4, <2>5, <2>6, <2>7 DEF Typed, TypeOK, ReleaseOk, ReleaseInv, AcceptanceOk
<1> QED
  BY <1>1, ReleaseInvHolds, PTL

(* A candidate or approved release rests on evidence about one commit,     *)
(* with every severe finding accepted for the time of its gate.            *)
THEOREM ReleasesHaveEvidence == Spec => []ReleaseEvidence
<1>1. ReleaseInv => ReleaseEvidence
  <2> SUFFICES ASSUME ReleaseInv, NEW n \in DOMAIN releases, releases[n].status \in {"CANDIDATE", "APPROVED"}
               PROVE  Proven(releases[n].build, releases[n].test, releases[n].scan, releases[n].gateAt)
    BY DEF ReleaseEvidence, Range, Proven
  <2> QED
    BY DEF ReleaseInv, ReleaseOk
<1> QED
  BY <1>1, ReleaseInvHolds, PTL

(* An approved release names the PRD version its build was made for, though*)
(* the candidate may have been recorded with a newer one.                  *)
THEOREM ApprovedForItsPrd == Spec => []ApprovedNamesItsPrd
<1>1. ReleaseInv => ApprovedNamesItsPrd
  BY DEF ReleaseInv, ReleaseOk, ApprovedNamesItsPrd, Range
<1> QED
  BY <1>1, ReleaseInvHolds, PTL

(* No service brings the project's status ahead of its releases; where it  *)
(* is ahead, a person's own transition has put it there.                   *)
THEOREM StatusIsBacked == Spec => []StatusBackedByRelease
<1>1. ReleaseInv => StatusBackedByRelease
  BY DEF ReleaseInv, Backed, SomeApproved, SomePassed, StatusBackedByRelease, Range
<1> QED
  BY <1>1, ReleaseInvHolds, PTL

(* What the worker makes a candidate comes from a run no tool of which     *)
(* failed.                                                                 *)
THEOREM CandidatesAreClean == Spec => []PipelineCandidateClean
<1>1. ReleaseInv => PipelineCandidateClean
  BY DEF ReleaseInv, ReleaseOk, Clean, PipelineCandidateClean, Range
<1> QED
  BY <1>1, ReleaseInvHolds, PTL

(* A release whose gate has been found closed is never revived.            *)
THEOREM BlockedForGood == Spec => BlockedStaysBlocked
<1>1. ReleaseInv /\ [Next]_vars =>
        [\A r \in DOMAIN releases :
           releases[r].status = "GATE_BLOCKED" => releases'[r].status = "GATE_BLOCKED"]_vars
  BY StepKeepsReleaseInv DEF Grows
<1> QED
  BY <1>1, ReleaseInvHolds, PTL DEF Spec, BlockedStaysBlocked
=============================================================================
