---------------------------- MODULE RunWorkspace ----------------------------
(***************************************************************************)
(* The attempts of one Codex run on their common workspace: what processJob*)
(* does around CodexExecution.  Before Codex an attempt clones the         *)
(* repository, or goes on in the clone an earlier attempt left; after Codex*)
(* it checks what has changed against the task's paths, commits, pushes the*)
(* run's branch, runs the pipeline and opens the pull request.             *)
(*                                                                         *)
(* The policy judges what git status names, a commit takes files: files of *)
(* a directory git does not know yet are named by their directory, and the *)
(* old name of a renamed file loses three characters (changedPaths).       *)
(* git and GitHub are external: a push that is no fast-forward is rejected,*)
(* a second pull request for the same branch is refused, and either may    *)
(* have acted although its answer was lost.                                *)
(***************************************************************************)
EXTENDS CodexExecution, SequencesExt

CONSTANTS
  Files,
  Folder,    \* a file's outermost directory the target branch lacks; itself if there is none
  Sliced,    \* its path without the first three characters
  AllowedPaths, DeniedPaths, \* the entries DevelopmentTask's patterns match; one that
             \* begins with a slash counts as denied
  Plans      \* by setup: what Codex may touch, whether the task has a targetCommitSha,
             \* and what another adapter has left in the directory

ASSUME PlansAssumption ==
  \A p \in Plans : /\ p.setup \in Setups /\ p.target \in BOOLEAN
                   /\ p.touches \subseteq Files /\ p.left \in {"missing", "foreign"}

VARIABLES
  plan,
  step,     \* how far the attempt is with the workspace
  dir,      \* repositoryPath
  dirty,    \* the files that differ from HEAD
  known,    \* files new to the target branch that git's index has all the same
  listed,   \* the entries the policy has judged
  head,     \* the commits from the target branch to HEAD
  remote,   \* those of the run's branch on GitHub
  pulled,   \* its pull request is open
  orphaned  \* a child of a worker that died may still be at work here

workspace == <<plan, step, dir, dirty, known, listed, head, remote, pulled, orphaned>>
execution == vars
runVars == <<execution, workspace>>

Real == setup.adapter = "real"

RunInit ==
  /\ Init
  /\ plan \in {p \in Plans : p.setup = setup}
  /\ step = "none"
  /\ dir = plan.left /\ dirty = {} /\ known = {} /\ listed = {}
  /\ head = <<>> /\ remote = <<>>
  /\ pulled = FALSE /\ orphaned = FALSE

-----------------------------------------------------------------------------
Moves(next) == step' = next
IndexSame == UNCHANGED <<known, listed>>
WorkspaceSame == UNCHANGED <<plan, dir, dirty, head, remote, pulled, orphaned>> /\ IndexSame
ExecutionSame == UNCHANGED execution
\* An attempt that fails before its try block has no last event.
FailsEarly == at' = "failed"
IsRejected == at' = "rejected"
OnlyAt == /\ UNCHANGED <<attempt, aborted, recover, awaited, sequence>>
          /\ ProcessSame /\ UNCHANGED events /\ AdapterSame /\ ReaderSame

(* Before Codex *)

Starts ==
  /\ Begins
  /\ Moves("inspects")
  /\ orphaned' = (orphaned \/ child = "running")
  /\ UNCHANGED <<plan, dir, dirty, head, remote, pulled>> /\ IndexSame

\* broken: what a clone that was killed leaves, a .git without the target branch.
inspectRepositoryWorkspace(d) ==
  CASE d \in {"missing", "empty"} -> "CLONEABLE"
    [] d \in {"git", "broken"}    -> "REUSABLE"
    [] OTHER                      -> "INVALID"

Inspects ==
  LET state == inspectRepositoryWorkspace(dir) IN
  /\ at = "starting" /\ step = "inspects"
  /\ CASE ~Real -> Moves("ready") /\ ExecutionSame
       [] Real /\ state = "CLONEABLE" -> Moves("clones") /\ ExecutionSame
       [] Real /\ state = "INVALID" -> FailsEarly /\ OnlyAt /\ UNCHANGED step
       [] Real /\ state = "REUSABLE" ->    \* the event "workspace.reused"
            /\ AwaitsEvent("starting") /\ Moves("checksOut")
            /\ UNCHANGED <<attempt, aborted, recover, log>>
            /\ ProcessSame /\ AdapterSame /\ ReaderSame
  /\ WorkspaceSame

Clones ==
  /\ at = "starting" /\ step = "clones"
  /\ Moves("checksOut")
  /\ dir' = "git" /\ dirty' = {} /\ known' = {} /\ head' = <<>>
  /\ UNCHANGED <<plan, listed, remote, pulled, orphaned>>
  /\ ExecutionSame

Touched(commits) == UNION {commits[i].files : i \in DOMAIN commits}

\* git checkout refuses to overwrite what differs and finds no commit in a broken
\* clone; without a target commit nothing is checked out.
ChecksOut ==
  /\ at = "starting" /\ step = "checksOut" /\ AllStored
  /\ IF plan.target /\ (dir = "broken" \/ dirty \cap Touched(head) # {})
       THEN FailsEarly /\ OnlyAt /\ UNCHANGED <<step, known, head>>
       ELSE /\ head' = IF plan.target THEN <<>> ELSE head
            /\ known' = IF plan.target THEN known \ Touched(head) ELSE known
            /\ Moves("ready") /\ ExecutionSame
  /\ UNCHANGED <<plan, dir, dirty, listed, remote, pulled, orphaned>>

\* A fault of the preparation, and in a broken clone git needs none to fail.
FaultOrBroken == \/ faults < setup.faults /\ faults' = faults + 1
                 \/ dir = "broken" /\ UNCHANGED faults

\* A clone that fails removes what it has made.
PreparationFails ==
  /\ at = "starting" /\ step \in {"inspects", "clones", "checksOut"} /\ Real /\ AllStored
  /\ FaultOrBroken
  /\ FailsEarly
  /\ UNCHANGED <<attempt, aborted, recover, awaited, sequence, setup>>
  /\ ProcessSame /\ UNCHANGED events /\ ReaderSame
  /\ UNCHANGED step /\ WorkspaceSame

\* git outlives the worker, or is killed with it, perhaps half-way through the files.
DiesCloning ==
  /\ step = "clones" /\ WorkerDies
  /\ dir' \in {"missing", "empty", "broken", "git"}
  /\ dirty' \in IF dir' = "git" THEN SUBSET plan.touches ELSE {dirty}
  /\ UNCHANGED <<plan, step, head, remote, pulled, orphaned>> /\ IndexSame

\* Codex, as long as it runs, makes, changes and undoes files.
Writes ==
  /\ dir \in {"git", "broken"} /\ (child = "running" \/ orphaned)
  /\ \E f \in plan.touches : dirty' \in {dirty \cup {f}, dirty \ {f}}
  /\ UNCHANGED <<plan, step, dir, head, remote, pulled, orphaned>> /\ IndexSame
  /\ ExecutionSame

-----------------------------------------------------------------------------
(* After Codex *)

\* The result is valid and says FAILED or NEEDS_INPUT: the event "run.result_failed".
ReportsFailure ==
  /\ at = "resolved" /\ step = "ready" /\ Real
  /\ AwaitsEvent("resolved") /\ Moves("reported")
  /\ UNCHANGED <<attempt, aborted, recover, log>>
  /\ ProcessSame /\ AdapterSame /\ ReaderSame
  /\ WorkspaceSame

GivesUp ==
  /\ at = "resolved" /\ step = "reported" /\ AllStored
  /\ IsRejected /\ OnlyAt
  /\ UNCHANGED step /\ WorkspaceSame

\* What git status and changedPaths make of a file: itself, a directory git does not
\* know, or the old name of a renaming.
NamesOf(f) == {f, Folder[f], Sliced[f]}
Entries == UNION {NamesOf(f) : f \in Files}
changedPaths(f) ==
  {f} \cup {d \in {Folder[f]} : \A g \in known : Folder[g] # d}
      \cup {o \in {Sliced[f]} : dirty # {f}}

\* Mutant: one changed path inside the policy is enough.
PolicyMetOnce(changed) ==
  \E p \in changed : p \notin DeniedPaths /\ (AllowedPaths = {} \/ p \in AllowedPaths)

\* No allowed path means that every path is allowed.
enforcePathPolicy(changed) ==
  \A p \in changed : p \notin DeniedPaths /\ (AllowedPaths = {} \/ p \in AllowedPaths)

At(next) == at = "resolved" /\ step = next

\* git status names each file by one of its names, or by some; nothing is outside the
\* policy, and there is something at all.  git add -N puts the files into the index.
ChecksChanges ==
  /\ At("ready") /\ Real
  /\ listed' \in SUBSET UNION {changedPaths(f) : f \in dirty}
  /\ \A f \in dirty : changedPaths(f) \cap listed' # {}
  /\ IF enforcePathPolicy(listed') /\ dirty # {}
       THEN Moves("commits") /\ ExecutionSame /\ known' \in {known, known \cup dirty}
       ELSE IsRejected /\ OnlyAt /\ UNCHANGED <<step, known>>
  /\ UNCHANGED <<plan, dir, dirty, head, remote, pulled, orphaned>>

\* git add --all takes what is there by now; a commit of nothing fails.
Commits ==
  /\ At("commits")
  /\ IF dirty = {}
       THEN IsRejected /\ OnlyAt /\ UNCHANGED <<step, head>>
       ELSE /\ head' = Append(head, [files |-> dirty, listed |-> listed, attempt |-> attempt,
                                     alone |-> ~recover /\ ~orphaned])
            /\ Moves("pushes") /\ ExecutionSame
  /\ dirty' = {} /\ known' = known \cup dirty
  /\ UNCHANGED <<plan, dir, listed, remote, pulled, orphaned>>

FastForward == IsPrefix(remote, head)

Pushes ==
  /\ At("pushes")
  /\ IF FastForward
       THEN remote' = head /\ Moves("builds") /\ ExecutionSame
       ELSE IsRejected /\ OnlyAt /\ UNCHANGED <<step, remote>>
  /\ UNCHANGED <<plan, dir, dirty, head, pulled, orphaned>> /\ IndexSame

\* runAndroidPipeline, the one git-phase step that looks at the abort signal.
Builds ==
  /\ At("builds")
  /\ IF aborted THEN IsRejected /\ OnlyAt /\ UNCHANGED step
                ELSE Moves("opens") /\ ExecutionSame
  /\ WorkspaceSame

createPullRequest ==
  /\ At("opens")
  /\ IF pulled THEN IsRejected /\ OnlyAt /\ UNCHANGED step
               ELSE Moves("opened") /\ ExecutionSame
  /\ pulled' = TRUE
  /\ UNCHANGED <<plan, dir, dirty, head, remote, orphaned>> /\ IndexSame

\* The command or the request fails, perhaps after it has had its effect.
GitFails ==
  /\ at = "resolved" /\ step \in {"commits", "pushes", "builds", "opens"}
  /\ FaultOrBroken
  /\ remote' \in {remote, IF step = "pushes" /\ FastForward THEN head ELSE remote}
  /\ pulled' \in {pulled, pulled \/ step = "opens"}
  /\ IsRejected
  /\ UNCHANGED <<attempt, aborted, recover, awaited, sequence, setup>>
  /\ ProcessSame /\ UNCHANGED events /\ ReaderSame
  /\ UNCHANGED <<plan, step, dir, dirty, head, orphaned>> /\ IndexSame

\* The finally clause: cancellations end the run and are not followed here.
shouldCleanupWorkspace(cleanupEnabled, executionSucceeded, userCancelled) ==
  cleanupEnabled /\ (executionSucceeded \/ userCancelled)

Finishes ==
  /\ Ends
  /\ \E cleanupEnabled \in BOOLEAN :
       IF shouldCleanupWorkspace(cleanupEnabled, at = "succeeding", FALSE)
         THEN dir' = "missing" /\ dirty' = {} /\ known' = {} /\ head' = <<>>
         ELSE UNCHANGED <<dir, dirty, known, head>>
  /\ UNCHANGED <<plan, step, listed, remote, pulled, orphaned>>

-----------------------------------------------------------------------------
Preparation == Starts \/ Inspects \/ Clones \/ ChecksOut \/ PreparationFails \/ DiesCloning
GitPhase == ReportsFailure \/ GivesUp \/ ChecksChanges \/ Commits \/ Pushes \/ Builds
              \/ createPullRequest \/ GitFails

\* The steps of the execution itself, in their place between the two phases.
Execution ==
  \/ AdapterSteps \/ Executes \/ Inserts
  \/ step = "ready" /\ Announces
  \/ (at = "resolved" /\ Real => step = "opened") /\ Concludes
  \/ Prints \/ PrintsRest \/ WritesResult \/ Exits \/ SpawnFails \/ AclFails
  \/ Aborts
  \/ step # "clones" /\ WorkerDies
  \/ Polls \/ PollReads \/ PollDelivers \/ Reconnects

RunNext ==
  \/ Preparation
  \/ Writes
  \/ GitPhase
  \/ Finishes
  \/ Execution /\ UNCHANGED workspace

RunSpec == RunInit /\ [][RunNext]_runVars /\ Fairness

-----------------------------------------------------------------------------
Commit == [files : SUBSET Files, listed : SUBSET Entries, attempt : Attempts, alone : BOOLEAN]

TypeOK ==
  /\ ExecutionTypeOK
  /\ plan \in Plans
  /\ step \in {"none", "inspects", "clones", "checksOut", "ready", "reported", "commits",
               "pushes", "builds", "opens", "opened"}
  /\ dir \in {"missing", "empty", "broken", "git", "foreign"}
  /\ dirty \cup known \subseteq plan.touches /\ listed \subseteq Entries
  /\ {head, remote} \subseteq Seq(Commit)
  /\ {pulled, orphaned} \subseteq BOOLEAN

(* The workspace outlives an attempt, with what was refused, left over or  *)
(* committed but not pushed in it.  All the same a run that succeeds ends  *)
(* its branch with a commit of the attempt that succeeded, and every file  *)
(* of the branch was behind an entry that the path policy judged before    *)
(* that commit and let pass, unless a Codex process that had not ended yet *)
(* was writing beside the attempt.                                         *)
PullRequestHoldsCheckedWork ==
  /\ at \in {"succeeding", "succeeded"} /\ Real =>
       pulled /\ remote # <<>> /\ Last(remote).attempt = attempt
  /\ \A c \in Range(remote) :
       c.alone => /\ c.files # {} /\ \A f \in c.files : NamesOf(f) \cap c.listed # {}
                  /\ c.listed \cap DeniedPaths = {}
                  /\ AllowedPaths = {} \/ c.listed \subseteq AllowedPaths
=============================================================================
