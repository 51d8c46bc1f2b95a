-------------------------- MODULE MCReleaseLifecycle --------------------------
(* Small instances of ReleaseLifecycle: reports that pass, and for each gate  *)
(* condition one that does not; pipeline runs with one thing wrong each.      *)
EXTENDS ReleaseLifecycle

CONSTANTS test1, scan1, build1, accept1, accept2, candidate1, approval1, approval2,
          signing1, pipeline1

GoodTest == [commit |-> "head", status |-> "PASSED", failures |-> FALSE, criteria |-> TRUE]
MCTests == {GoodTest, [GoodTest EXCEPT !.criteria = FALSE], [GoodTest EXCEPT !.failures = TRUE]}

GoodScan == [commit |-> "head", status |-> "PASSED", sbom |-> TRUE, findings |-> {}]
MCScans == {GoodScan, [GoodScan EXCEPT !.findings = {Finding("SEMGREP", "HIGH")}],
            [GoodScan EXCEPT !.findings = {Finding("GITLEAKS", "CRITICAL")}],
            [GoodScan EXCEPT !.commit = "other"]}

GoodBuild == [commit |-> "head", status |-> "SUCCEEDED", artifact |-> TRUE]
MCBuilds == {GoodBuild, [GoodBuild EXCEPT !.commit = "other"]}

\* Every step passes, on an emulator, with an APK and an SBOM.
CleanRun ==
  [exit |-> [c \in Commands |-> "ok"], manifests |-> {{"allowBackup=false"}}, sources |-> {},
   spdx |-> TRUE, found |-> {"APK"}, emulator |-> TRUE, fake |-> FALSE]

MCRuns == {CleanRun,
           [CleanRun EXCEPT !.fake = TRUE, !.manifests = {}, !.found = {}, !.emulator = FALSE],
           [CleanRun EXCEPT !.exit["lint"] = "nonzero"],
           [CleanRun EXCEPT !.exit["OSV Scanner"] = "missing"],
           [CleanRun EXCEPT !.exit["Gitleaks"] = "nonzero"],
           [CleanRun EXCEPT !.spdx = FALSE],
           [CleanRun EXCEPT !.exit["bundleRelease"] = "nonzero"],
           [CleanRun EXCEPT !.emulator = FALSE],
           [CleanRun EXCEPT !.found = {"AAB"}],
           [CleanRun EXCEPT !.manifests = {}],
           [CleanRun EXCEPT !.manifests = {{"debuggable"}}, !.sources = {"ANDROID-TLS-PROCEED"}]}

\* The two approvals are interchangeable.
Interchangeable == Permutations(Approvals)
=============================================================================
