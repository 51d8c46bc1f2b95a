-------------------------- MODULE ReleaseLifecycle --------------------------
(***************************************************************************)
(* From test, scan and build records to an approved release: QualityService*)
(* (recordTest, recordSecurityScan, recordBuild, acceptRisk, releaseGate,  *)
(* createReleaseCandidate, approveRelease, requestSigning) and the worker's*)
(* recordPipelineResult, which writes the same rows on its own.            *)
(*                                                                         *)
(* The gate is computed afresh by every call from rows it reads one after  *)
(* the other, while risks are accepted and expire, a newer PRD is locked   *)
(* and other calls decide on the same release.  PRD version n stands for   *)
(* its SHA-256; times are ticks; a call refused by its first read has      *)
(* changed nothing and is left out.                                        *)
(***************************************************************************)
EXTENDS Naturals, Sequences, FiniteSets, SequencesExt, ProjectStates, AndroidPipeline

CONSTANTS
  Tests, Scans, Builds, Accepts, Candidates, Approvals, Signings, Pipelines, \* calls
  TestReports, ScanReports, BuildReports, \* what CI and scanners submit
  PipelineRuns,   \* what the worker's tools can come to
  ApprovalEnabled,
  PersonTargets,  \* statuses that people move the project to themselves
  MaxTime, MaxPrds, MaxRows, MaxConcurrent \* bounds: clock, PRDs, rows a table, calls at once

Calls == Tests \cup Scans \cup Builds \cup Accepts \cup Candidates \cup Approvals
           \cup Signings \cup Pipelines

Commits == {"head"} \cup {r.commit : r \in TestReports \cup ScanReports \cup BuildReports}
Rules == PipelineRules \cup {f.rule : f \in UNION {s.findings : s \in ScanReports}}
AnyFinding == [rule : Rules, severity : {"CRITICAL", "HIGH", "MEDIUM", "LOW", "INFO"}]
Outcomes == {"PASSED", "FAILED", "CANCELLED"}

ASSUME BoundsAssumption ==
  {MaxTime, MaxRows, MaxConcurrent} \subseteq Nat /\ MaxPrds \in Nat \ {0}
ASSUME ApprovalAssumption == ApprovalEnabled \in BOOLEAN
\* transitionProjectSchema admits the statuses of the enum only.
ASSUME PersonAssumption == PersonTargets \subseteq ProjectStatuses
\* What the request schemas admit.
ASSUME ReportsAssumption ==
  /\ TestReports \subseteq
       [commit : Commits, status : Outcomes, failures : BOOLEAN, criteria : BOOLEAN]
  /\ ScanReports \subseteq
       [commit : Commits, status : Outcomes, sbom : BOOLEAN, findings : SUBSET AnyFinding]
  /\ BuildReports \subseteq
       [commit : Commits, status : {"SUCCEEDED", "FAILED"}, artifact : BOOLEAN]
ASSUME RunsAssumption == PipelineRuns \subseteq Run

VARIABLES
  project,     \* Project.status
  byHand,      \* history: that status was last written by a person's transition
  locked,      \* versionNumber of the newest LOCKED PRD
  now,
  tests, scans, builds, releases, \* TestRun, SecurityScan, Build and Release rows
  acceptances, \* RiskAcceptance rows
  signings,    \* requests handed to the signing worker
  call

rows == <<tests, scans, builds, releases, acceptances, signings>>
vars == <<project, byHand, locked, now, tests, scans, builds, releases, acceptances, signings, call>>

Never == MaxTime + 1
NoReport == [passed |-> FALSE, at |-> 0]
NoCall == [at |-> "idle", goals |-> <<>>, release |-> 0, version |-> 0, build |-> 0, test |-> 0,
           scan |-> 0, seen |-> 0, own |-> 0, gate |-> NoReport, then |-> "done",
           rule |-> "", expires |-> 0, runs |-> {}]

\* A task's pull request exists; the project's PRD is version 1.
Init ==
  /\ project = "CODE_REVIEW" /\ byHand = FALSE
  /\ locked = 1
  /\ now = 0
  /\ tests = <<>> /\ scans = <<>> /\ builds = <<>> /\ releases = <<>>
  /\ acceptances = {}
  /\ signings = {}
  /\ call = [c \in Calls |-> NoCall]

-----------------------------------------------------------------------------
At(c, at) == call[c].at = at
Over == {"done", "refused"}
Goes(c, at) ==
  call' = [call EXCEPT ![c] = IF at \in Over THEN [NoCall EXCEPT !.at = at]
                              ELSE [call[c] EXCEPT !.at = at]]
\* transitionSystem or transitionProject for each of the goals in turn.
Pursues(c, goals) ==
  call' = [call EXCEPT ![c] = [NoCall EXCEPT !.at = "moving", !.goals = goals]]
OnlyCalls == UNCHANGED <<project, byHand, locked, now>> /\ UNCHANGED rows
ProjectSame == UNCHANGED <<project, byHand, locked, now>>

MoveReads(c) ==
  LET goals == call[c].goals IN
  /\ At(c, "moving")
  /\ CASE goals = <<>>                                          -> Goes(c, "done")
       [] goals # <<>> /\ project = Head(goals)                 -> Pursues(c, Tail(goals))
       [] goals # <<>> /\ project # Head(goals)
            /\ canTransitionProject(project, Head(goals))       -> Goes(c, "writing")
       [] OTHER                                                 -> Goes(c, "refused")
  /\ OnlyCalls

MoveWrites(c) ==
  /\ At(c, "writing")
  /\ project' = Head(call[c].goals) /\ byHand' = FALSE
  /\ Pursues(c, Tail(call[c].goals))
  /\ UNCHANGED <<locked, now>> /\ UNCHANGED rows

-----------------------------------------------------------------------------
(* recordTest, recordSecurityScan, recordBuild: the status decided on was  *)
(* read before the row was written.                                        *)

TestReads(c) ==
  /\ At(c, "idle")
  /\ call' = [call EXCEPT ![c].at = "recordTest",
                          ![c].goals = IF project = "CODE_REVIEW" THEN <<"QA_TESTING">> ELSE <<>>]
  /\ OnlyCalls

\* A report of PASSED that lists failures is rejected.
TestRecords(c) ==
  /\ At(c, "recordTest") /\ Len(tests) < MaxRows
  /\ \E report \in TestReports :
       IF report.status = "PASSED" /\ report.failures
         THEN Goes(c, "refused") /\ UNCHANGED tests
         ELSE /\ tests' = Append(tests, report)
              /\ Pursues(c, IF report.status = "PASSED" THEN call[c].goals ELSE <<>>)
  /\ ProjectSame /\ UNCHANGED <<scans, builds, releases, acceptances, signings>>

ScanReads(c) ==
  /\ At(c, "idle")
  /\ call' = [call EXCEPT ![c].at = "recordScan",
                          ![c].goals = IF project = "QA_TESTING" THEN <<"SECURITY_REVIEW">> ELSE <<>>]
  /\ OnlyCalls

ScanRecords(c) ==
  /\ At(c, "recordScan") /\ Len(scans) < MaxRows
  /\ \E report \in ScanReports :
       /\ scans' = Append(scans, report)
       /\ Pursues(c, IF report.status = "PASSED" THEN call[c].goals ELSE <<>>)
  /\ ProjectSame /\ UNCHANGED <<tests, builds, releases, acceptances, signings>>

BuildReads(c) ==
  /\ At(c, "idle")
  /\ call' = [call EXCEPT ![c].at = "recordBuild", ![c].own = locked]
  /\ OnlyCalls

\* The SHA-256 is the stored artifact's own; a signed build is never taken.
BuildRecords(c) ==
  /\ At(c, "recordBuild") /\ Len(builds) < MaxRows
  /\ \E report \in BuildReports :
       /\ report.status = "SUCCEEDED" => report.artifact
       /\ builds' = Append(builds, [commit |-> report.commit, status |-> report.status,
                                    artifact |-> report.artifact, prd |-> call[c].own])
  /\ Goes(c, "done")
  /\ ProjectSame /\ UNCHANGED <<tests, scans, releases, acceptances, signings>>

-----------------------------------------------------------------------------
(* acceptRisk: an acceptance on record bars another, expired or not *)

AcceptanceOf(scan, rule) == {a \in acceptances : a.scan = scan /\ a.rule = rule}

AcceptReads(c) ==
  /\ At(c, "idle")
  /\ \E s \in DOMAIN scans : \E f \in scans[s].findings, expires \in (now + 1) .. Never :
       /\ f.severity # "CRITICAL"
       /\ AcceptanceOf(s, f.rule) = {}
       /\ call' = [call EXCEPT ![c].at = "accepting", ![c].scan = s, ![c].rule = f.rule,
                               ![c].expires = expires]
  /\ OnlyCalls

AcceptWrites(c) ==
  /\ At(c, "accepting")
  /\ acceptances' = acceptances \cup
       {[scan |-> call[c].scan, rule |-> call[c].rule, expiresAt |-> call[c].expires]}
  /\ Goes(c, "done")
  /\ ProjectSame /\ UNCHANGED <<tests, scans, builds, releases, signings>>

-----------------------------------------------------------------------------
(* The gate *)

\* Mutant: an acceptance counts for ever.
AcceptedEver(scan, f) == AcceptanceOf(scan, f.rule) # {}

\* activeAcceptedFindingIds at this moment.
ActivelyAccepted(scan, f) == \E a \in AcceptanceOf(scan, f.rule) : a.expiresAt > now

commitMatches(build, test, scan) == build.commit = test.commit /\ build.commit = scan.commit

\* Mutant: the gate does not compare the build's PRD with the locked one.
AnyPrdMatches(build, prd) == TRUE

prdHashMatches(build, prd) == build.prd = prd

\* evaluateReleaseGate, given the locked PRD and the HIGH findings that count.
evaluateReleaseGate(build, test, scan, prd, openHigh) ==
  /\ commitMatches(build, test, scan)
  /\ prdHashMatches(build, prd)
  /\ test.status = "PASSED" /\ ~test.failures
  /\ test.criteria
  /\ scan.status = "PASSED"
  /\ \A f \in scan.findings : f.severity # "CRITICAL"
  /\ openHigh = {}
  /\ scan.sbom
  /\ build.status = "SUCCEEDED" /\ build.artifact

High(scan) == {f \in scan.findings : f.severity = "HIGH"}

\* releaseGate's first reads; rows other than the PRD never change.
GateReads(c) ==
  /\ At(c, "gate")
  /\ call' = [call EXCEPT ![c].at = "gateRisks", ![c].seen = locked]
  /\ OnlyCalls

\* Its last read, the acceptances, and the report.
GateReports(c) ==
  LET own == call[c]
      scan == scans[own.scan]
      openHigh == {f \in High(scan) : ~ActivelyAccepted(own.scan, f)}
  IN
  /\ At(c, "gateRisks")
  /\ call' = [call EXCEPT ![c].at = own.then,
       ![c].gate = [passed |-> evaluateReleaseGate(builds[own.build], tests[own.test], scan,
                                                   own.seen, openHigh),
                    at |-> now]]
  /\ OnlyCalls

-----------------------------------------------------------------------------
(* createReleaseCandidate: the gate and another read of the locked PRD side by side *)

CandidateReads(c) ==
  /\ At(c, "idle")
  /\ project = "SECURITY_REVIEW"
  /\ \E b \in DOMAIN builds, t \in DOMAIN tests, s \in DOMAIN scans :
       call' = [call EXCEPT ![c].at = "gate", ![c].build = b, ![c].test = t, ![c].scan = s,
                            ![c].then = "creating"]
  /\ OnlyCalls

OwnPrdReads(c) ==
  /\ call[c].then = "creating" /\ call[c].own = 0
  /\ call' = [call EXCEPT ![c].own = locked]
  /\ OnlyCalls

\* Mutant: the outcome of a test is written for the release's status.
GateOutcome(passed) == IF passed THEN "PASSED" ELSE "FAILED"

GateStatus(passed) == IF passed THEN "CANDIDATE" ELSE "GATE_BLOCKED"

CandidateWrites(c) ==
  LET own == call[c] IN
  /\ At(c, "creating") /\ own.own # 0
  /\ releases' = Append(releases,
       [build |-> own.build, test |-> own.test, scan |-> own.scan, prd |-> own.own,
        status |-> GateStatus(own.gate.passed), gateAt |-> own.gate.at, version |-> 1,
        approved |-> FALSE, runs |-> {}])
  /\ Pursues(c, IF own.gate.passed THEN <<"RELEASE_CANDIDATE">> ELSE <<>>)
  /\ ProjectSame /\ UNCHANGED <<tests, scans, builds, acceptances, signings>>

-----------------------------------------------------------------------------
(* approveRelease and requestSigning *)

GateFor(c, r, next) ==
  call' = [call EXCEPT ![c].at = "gate", ![c].then = next, ![c].release = r,
             ![c].version = releases[r].version, ![c].build = releases[r].build,
             ![c].test = releases[r].test, ![c].scan = releases[r].scan]

ApproveReads(c) ==
  /\ At(c, "idle")
  /\ ApprovalEnabled
  /\ \E r \in DOMAIN releases : releases[r].status = "CANDIDATE" /\ GateFor(c, r, "approving")
  /\ OnlyCalls

\* Mutant: the update matches the release by its id alone.
AnyCandidateMatches(c) == TRUE

\* The rows updateMany matches: still a candidate, of the version that was read.
StillCandidate(c) ==
  LET r == releases[call[c].release] IN r.status = "CANDIDATE" /\ r.version = call[c].version

\* A gate that no longer passes blocks the release, whatever it has become.
ApproveBlocks(c) ==
  /\ At(c, "approving") /\ ~call[c].gate.passed
  /\ releases' = [releases EXCEPT ![call[c].release] =
       [releases[call[c].release] EXCEPT !.status = "GATE_BLOCKED",
                                         !.gateAt = call[c].gate.at, !.version = @ + 1]]
  /\ Goes(c, "refused")
  /\ ProjectSame /\ UNCHANGED <<tests, scans, builds, acceptances, signings>>

\* Mutant: the project moves on although the update matched no row.
GoalsRegardless(c) == <<"FINAL_APPROVAL">>

\* A lost update is a conflict: the project stays where it is.
GoalsOfApproval(c) == IF StillCandidate(c) THEN <<"FINAL_APPROVAL">> ELSE <<>>

ApproveWrites(c) ==
  /\ At(c, "approving") /\ call[c].gate.passed
  /\ releases' = IF ~StillCandidate(c) THEN releases
                 ELSE [releases EXCEPT ![call[c].release] =
                   [releases[call[c].release] EXCEPT !.status = "APPROVED", !.approved = TRUE,
                      !.gateAt = call[c].gate.at, !.version = @ + 1]]
  /\ Pursues(c, GoalsOfApproval(c))
  /\ ProjectSame /\ UNCHANGED <<tests, scans, builds, acceptances, signings>>

SignReads(c) ==
  /\ At(c, "idle")
  /\ \E r \in DOMAIN releases : releases[r].status = "APPROVED" /\ GateFor(c, r, "signing")
  /\ OnlyCalls

\* The stub answers NOT_CONFIGURED to every request; nothing is signed.
Signs(c) ==
  LET r == releases[call[c].release] IN
  /\ At(c, "signing")
  /\ signings' = IF ~call[c].gate.passed THEN signings
                 ELSE signings \cup {[release |-> call[c].release, prd |-> r.prd, build |-> r.build,
                                      test |-> r.test, scan |-> r.scan]}
  /\ Goes(c, IF call[c].gate.passed THEN "done" ELSE "refused")
  /\ ProjectSame /\ UNCHANGED <<tests, scans, builds, releases, acceptances>>

-----------------------------------------------------------------------------
(* The worker: recordPipelineResult, and the moves processJob makes after it *)

\* The run began with a version that was the locked one at some time.
PipelineBegins(c) ==
  /\ At(c, "idle")
  /\ \E run \in PipelineRuns, prd \in 1 .. locked, evidence \in BOOLEAN :
       call' = [call EXCEPT ![c].at = "recording", ![c].runs = {run}, ![c].own = prd,
                            ![c].gate.passed = evidence]
  /\ OnlyCalls

TheRun(c) == CHOOSE run \in call[c].runs : TRUE

\* One transaction: test run, scan and build.  evidence: every criterion has its proof.
PipelineRecords(c) ==
  LET result == runAndroidPipeline(TheRun(c))
      evidence == call[c].gate.passed
      passed == result.testStatus = "PASSED" /\ evidence
  IN
  /\ At(c, "recording") /\ \A table \in {tests, scans, builds} : Len(table) < MaxRows
  /\ tests' = Append(tests, [commit |-> "head", criteria |-> evidence,
                             status |-> IF passed THEN "PASSED" ELSE "FAILED",
                             failures |-> result.failures])
  /\ scans' = Append(scans, [commit |-> "head", status |-> result.securityStatus,
                             sbom |-> result.sbom, findings |-> result.findings])
  /\ builds' = Append(builds, [commit |-> "head", status |-> result.buildStatus,
                               artifact |-> result.artifact, prd |-> call[c].own])
  /\ call' = [call EXCEPT ![c].at = "gating", ![c].test = Len(tests) + 1,
                          ![c].scan = Len(scans) + 1, ![c].build = Len(builds) + 1]
  /\ ProjectSame /\ UNCHANGED <<releases, acceptances, signings>>

\* The gate takes the PRD as locked and its hash as the build's; no risk is accepted yet.
PipelineGates(c) ==
  LET own == call[c]
      test == tests[own.test]
      scan == scans[own.scan]
      passed == evaluateReleaseGate(builds[own.build], test, scan, own.own, High(scan))
  IN
  /\ At(c, "gating")
  /\ releases' = Append(releases,
       [build |-> own.build, test |-> own.test, scan |-> own.scan, prd |-> own.own,
        status |-> GateStatus(passed), gateAt |-> now, version |-> 1, approved |-> FALSE,
        runs |-> own.runs])
  /\ Pursues(c, (IF test.status = "PASSED" THEN <<"QA_TESTING">> ELSE <<>>)
               \o (IF test.status = "PASSED" /\ scan.status = "PASSED"
                     THEN <<"SECURITY_REVIEW">> ELSE <<>>)
               \o (IF passed THEN <<"RELEASE_CANDIDATE">> ELSE <<>>))
  /\ ProjectSame /\ UNCHANGED <<tests, scans, builds, acceptances, signings>>

-----------------------------------------------------------------------------
(* Meanwhile *)

(* ProjectsService.transition, in one step: the table is all it asks, so a *)
(* CEO or PM may also declare a release candidate that does not exist.     *)
PersonMoves ==
  /\ \E to \in PersonTargets : canTransitionProject(project, to) /\ project' = to
  /\ byHand' = TRUE
  /\ UNCHANGED <<locked, now, call>> /\ UNCHANGED rows

\* lock writes LOCKED before it asks whether the project may move, and so does the
\* autoLock of an upload that passed its own check of the status long ago.
PrdLocks ==
  /\ locked < MaxPrds
  /\ locked' = locked + 1
  /\ UNCHANGED <<project, byHand, now, call>> /\ UNCHANGED rows

Tick ==
  /\ now < MaxTime
  /\ now' = now + 1
  /\ UNCHANGED <<project, byHand, locked, call>> /\ UNCHANGED rows

Begins(c) ==
  \/ c \in Tests /\ TestReads(c)
  \/ c \in Scans /\ ScanReads(c)
  \/ c \in Builds /\ BuildReads(c)
  \/ c \in Accepts /\ AcceptReads(c)
  \/ c \in Candidates /\ CandidateReads(c)
  \/ c \in Approvals /\ ApproveReads(c)
  \/ c \in Signings /\ SignReads(c)
  \/ c \in Pipelines /\ PipelineBegins(c)

Proceeds(c) ==
  \/ TestRecords(c) \/ ScanRecords(c) \/ BuildRecords(c) \/ AcceptWrites(c)
  \/ GateReads(c) \/ GateReports(c) \/ OwnPrdReads(c) \/ CandidateWrites(c)
  \/ ApproveBlocks(c) \/ ApproveWrites(c) \/ Signs(c)
  \/ PipelineRecords(c) \/ PipelineGates(c)
  \/ MoveReads(c) \/ MoveWrites(c)

InFlight == {c \in Calls : call[c].at \notin Over \cup {"idle"}}

Next ==
  \/ PersonMoves \/ PrdLocks \/ Tick
  \/ Cardinality(InFlight) < MaxConcurrent /\ \E c \in Calls : Begins(c)
  \/ \E c \in Calls : Proceeds(c)

Spec == Init /\ [][Next]_vars

-----------------------------------------------------------------------------
TypeOK ==
  /\ project \in ProjectStatuses /\ byHand \in BOOLEAN
  /\ locked \in 1 .. MaxPrds /\ now \in 0 .. MaxTime
  /\ \A t \in Range(tests) : t.status \in Outcomes /\ {t.failures, t.criteria} \subseteq BOOLEAN
  /\ \A s \in Range(scans) : s.status \in Outcomes /\ s.findings \subseteq AnyFinding
  /\ \A b \in Range(builds) : b.status \in {"SUCCEEDED", "FAILED"} /\ b.prd \in 1 .. locked
  /\ \A a \in acceptances : a.scan \in DOMAIN scans /\ a.expiresAt \in 1 .. Never
  /\ \A r \in Range(releases) :
       /\ r.status \in {"CANDIDATE", "GATE_BLOCKED", "APPROVED"}
       /\ r.test \in DOMAIN tests /\ r.scan \in DOMAIN scans /\ r.build \in DOMAIN builds
       /\ r.prd \in 1 .. locked /\ r.gateAt \in 0 .. now

(* Whatever races with it, a release that is a candidate or approved rests *)
(* on evidence about one commit: passed tests with every criterion met, a  *)
(* passed scan with its SBOM, no CRITICAL finding, and for every HIGH one a*)
(* risk acceptance that had not expired when the gate was computed.        *)
ReleaseEvidence ==
  \A r \in Range(releases) : r.status \in {"CANDIDATE", "APPROVED"} =>
    LET build == builds[r.build]  test == tests[r.test]  scan == scans[r.scan] IN
    /\ {build.commit, test.commit, scan.commit} = {build.commit}
    /\ test.status = "PASSED" /\ test.criteria /\ ~test.failures
    /\ scan.status = "PASSED" /\ scan.sbom
    /\ build.status = "SUCCEEDED" /\ build.artifact
    /\ \A f \in scan.findings : f.severity # "CRITICAL"
    /\ \A f \in High(scan) : \E a \in AcceptanceOf(r.scan, f.rule) : a.expiresAt > r.gateAt

(* createReleaseCandidate reads the locked PRD twice and may record another*)
(* version than its gate compared; the gate of the approval, computed when *)
(* that newer version is locked, does not let such a release through.      *)
ApprovedNamesItsPrd ==
  \A r \in Range(releases) : r.approved => r.prd = builds[r.build].prd

(* Two approvals may decide on one candidate with different gates; once the*)
(* release is blocked the other approval, whose gate passed earlier, does  *)
(* not revive it.                                                          *)
BlockedStaysBlocked ==
  [][\A r \in DOMAIN releases :
       releases[r].status = "GATE_BLOCKED" => releases'[r].status = "GATE_BLOCKED"]_vars

(* The services do not bring the project to FINAL_APPROVAL without a       *)
(* release that was approved, nor to RELEASE_CANDIDATE without one whose   *)
(* gate has passed, even when the approval that moves it loses against     *)
(* another, and whatever people do to the status between a call's check and*)
(* its write.  People themselves may: transition asks the table only, so a *)
(* CEO or PM can post both moves with no release at all (byHand).          *)
StatusBackedByRelease ==
  ~byHand =>
    /\ project = "FINAL_APPROVAL" => \E r \in Range(releases) : r.approved
    /\ project = "RELEASE_CANDIDATE" =>
         \E r \in Range(releases) : r.status = "CANDIDATE" \/ r.version > 1

(* No failure of a tool is lost between the pipeline and the gate: unless  *)
(* the fake adapter is configured, which runs no tool at all, what the     *)
(* worker makes a candidate comes from a run whose every command ended     *)
(* with exit code 0 on an emulator, with an SBOM, an APK and nothing severe*)
(* in the manifests and sources the built-in scan reads.                   *)
PipelineCandidateClean ==
  \A r \in Range(releases) : r.status = "CANDIDATE" =>
    \A run \in r.runs :
      \/ run.fake
      \/ /\ \A c \in Commands : run.exit[c] = "ok"
         /\ run.emulator /\ run.spdx /\ "APK" \in run.found /\ run.manifests # {}
         /\ \A f \in builtInSecurityScan(run) : f.severity \in {"MEDIUM", "LOW", "INFO"}
=============================================================================
