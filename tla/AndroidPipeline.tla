--------------------------- MODULE AndroidPipeline ---------------------------
(***************************************************************************)
(* What the worker's Android pipeline makes of the tools it runs.  A run   *)
(* is a record:                                                            *)
(*   exit       the outcome of each command: "ok" (exit code 0), "nonzero",*)
(*              "missing" (the executable is not installed)                *)
(*   manifests  the AndroidManifest.xml files found, each the set of the   *)
(*              marks the built-in rules look for                          *)
(*   sources    the rules of inspectAndroidSource that match one of the    *)
(*              first 20000 source files; what lies beyond is not read     *)
(*   spdx       whether Syft printed anything                              *)
(*   found      the kinds of artifact the build directories hold           *)
(*   emulator   whether ANDROID_SMOKE_TEST_SERIAL is set                   *)
(*   fake       whether the fake Codex adapter is configured: then nothing *)
(*              is run and every verdict is good                           *)
(* A run that is aborted, or has no JAVA_HOME, throws and has no result.   *)
(***************************************************************************)
EXTENDS FiniteSets

TestTasks == {"test", "lint", "detekt", "ktlintCheck"}
BuildTasks == {"assembleDebug", "bundleRelease"}
Scanners == {"Gitleaks", "Semgrep", "Trivy filesystem", "OSV Scanner"}
Commands == TestTasks \cup BuildTasks \cup Scanners \cup {"syft", "adb"}

Marks == {"debuggable", "allowBackup=false", "usesCleartextTraffic", "exported"}
ManifestRules ==
  {"ANDROID-DEBUGGABLE", "ANDROID-BACKUP", "ANDROID-CLEARTEXT", "ANDROID-EXPORTED-COMPONENT"}
SourceRules ==
  {"ANDROID-TLS-PROCEED", "ANDROID-HOSTNAME-BYPASS", "ANDROID-HARDCODED-SECRET",
   "ANDROID-WEBVIEW-UNIVERSAL-FILE", "ANDROID-WEBVIEW-JS-BRIDGE", "ANDROID-WEBVIEW-JAVASCRIPT"}
PipelineRules ==
  ManifestRules \cup SourceRules \cup Scanners
    \cup {"PIPELINE-ANDROID-MANIFEST", "PIPELINE-SYFT", "PIPELINE-MOBSF"}

Run == [exit : [Commands -> {"ok", "nonzero", "missing"}], manifests : SUBSET SUBSET Marks,
        sources : SUBSET SourceRules, spdx : BOOLEAN, found : SUBSET {"AAB", "APK"},
        emulator : BOOLEAN, fake : BOOLEAN]

Finding(rule, severity) == [rule |-> rule, severity |-> severity]
When(condition, finding) == IF condition THEN {finding} ELSE {}

\* Any exit code but 0, and a missing executable, fail the step.
StepStatus(outcome) == IF outcome = "ok" THEN "PASSED" ELSE "FAILED"

\* Marks of a manifest: what is switched on, and "allowBackup=false".
inspectAndroidManifest(marks) ==
  When("debuggable" \in marks, Finding("ANDROID-DEBUGGABLE", "HIGH"))
    \cup When("allowBackup=false" \notin marks, Finding("ANDROID-BACKUP", "MEDIUM"))
    \cup When("usesCleartextTraffic" \in marks, Finding("ANDROID-CLEARTEXT", "HIGH"))
    \cup When("exported" \in marks, Finding("ANDROID-EXPORTED-COMPONENT", "HIGH"))

SourceSeverity(rule) ==
  CASE rule \in {"ANDROID-TLS-PROCEED", "ANDROID-HOSTNAME-BYPASS", "ANDROID-HARDCODED-SECRET"}
         -> "CRITICAL"
    [] rule \in {"ANDROID-WEBVIEW-UNIVERSAL-FILE", "ANDROID-WEBVIEW-JS-BRIDGE"} -> "HIGH"
    [] OTHER -> "MEDIUM"

inspectAndroidSource(rules) == {Finding(r, SourceSeverity(r)) : r \in rules}

\* A repository without a manifest has nothing to inspect, which blocks it.
builtInSecurityScan(run) ==
  When(run.manifests = {}, Finding("PIPELINE-ANDROID-MANIFEST", "CRITICAL"))
    \cup (UNION {inspectAndroidManifest(marks) : marks \in run.manifests})
    \cup inspectAndroidSource(run.sources)

\* Gitleaks' findings are CRITICAL; a scanner that is not installed is HIGH.
ScannerSeverity(name, outcome) ==
  IF name = "Gitleaks" /\ outcome = "nonzero" THEN "CRITICAL" ELSE "HIGH"

SbomMade(run) == run.exit["syft"] = "ok" /\ run.spdx

\* MobSF is never configured here: its finding is for information.
runExternalSecurity(run) ==
  {Finding(s, ScannerSeverity(s, run.exit[s])) : s \in {x \in Scanners : run.exit[x] # "ok"}}
    \cup When(~SbomMade(run), Finding("PIPELINE-SYFT", "HIGH"))
    \cup {Finding("PIPELINE-MOBSF", "INFO")}

findings(run) == builtInSecurityScan(run) \cup runExternalSecurity(run)

\* A bundle is preferred to an APK, whichever is newer.
findNewestArtifact(run, kinds) ==
  CASE "AAB" \in run.found \cap kinds -> "AAB"
    [] run.found \cap kinds = {"APK"} -> "APK"
    [] OTHER                          -> "none"

buildArtifact(run) == findNewestArtifact(run, {"AAB", "APK"})

\* Without an emulator the step is SKIPPED, which is not PASSED.
SmokeStatus(run) ==
  CASE ~run.emulator                         -> "SKIPPED"
    [] run.emulator /\ findNewestArtifact(run, {"APK"}) = "none" -> "FAILED"
    [] OTHER                                 -> StepStatus(run.exit["adb"])

TestSteps(run) == {StepStatus(run.exit[t]) : t \in TestTasks} \cup {SmokeStatus(run)}

\* Mutant: a skipped step is no failure.
NoStepFailed(run) == IF "FAILED" \in TestSteps(run) THEN "FAILED" ELSE "PASSED"

testStatus(run) == IF TestSteps(run) = {"PASSED"} THEN "PASSED" ELSE "FAILED"

securityStatus(run) ==
  IF /\ \A f \in findings(run) : f.severity \notin {"CRITICAL", "HIGH"}
     /\ \A s \in Scanners \cup {"syft"} : StepStatus(run.exit[s]) = "PASSED"
     /\ SbomMade(run)
    THEN "PASSED" ELSE "FAILED"

buildStatus(run) ==
  IF buildArtifact(run) # "none" /\ \A t \in BuildTasks : run.exit[t] = "ok" THEN "SUCCEEDED" ELSE "FAILED"

fakeResult ==
  [testStatus |-> "PASSED", failures |-> FALSE, securityStatus |-> "PASSED", sbom |-> TRUE,
   findings |-> {}, buildStatus |-> "SUCCEEDED", artifact |-> TRUE]

runAndroidPipeline(run) ==
  IF run.fake THEN fakeResult
  ELSE [testStatus |-> testStatus(run), failures |-> "FAILED" \in TestSteps(run),
        securityStatus |-> securityStatus(run), sbom |-> SbomMade(run), findings |-> findings(run),
        buildStatus |-> buildStatus(run), artifact |-> buildArtifact(run) # "none"]
=============================================================================
