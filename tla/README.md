# Factory control: specifications

A model of the parts of factory-control whose correctness depends on the order
in which things happen: people, services, the queue, the worker, Codex, GitHub
and a database without long transactions all act on the same few rows.

## 1. The system

NestJS API (`apps/api`), one BullMQ worker process (`apps/worker`), a Next.js
front end (`apps/web`), PostgreSQL through Prisma (READ COMMITTED), Redis, S3,
GitHub. Each API handler is an `async` function: it reads, decides, and writes
in one or more later transactions, and every `await` lets others in.

| Component | State | Operations | Talks to |
|---|---|---|---|
| Project state machine (`packages/contracts/src/state-machine.ts`) | the table of allowed moves | `canTransitionProject`, `assertProjectTransition` | consulted by every writer below |
| Project status writers (`projects.service.ts`, `main.ts` `transitionProject`) | `Project.status`, `Project.version`, `ProjectStateHistory` | `create`, `transition` (people), `transitionSystem` / `transitionProject` (services) | called by tasks, PRD, repositories, quality, worker |
| Development tasks (`tasks.service.ts`) | `DevelopmentTask`, `TaskInstructionVersion`, `CodexRun`, `Job` | `create`, `prepareFromLockedPrd`, `start`, `followUp`, `cancel`, `enqueue`, `events` | BullMQ, project writers |
| Codex worker (`apps/worker/src/main.ts`) | slots, BullMQ job states, the same rows | `processJob`, `completed` and `failed` handlers, poll, timeout | Codex, git, GitHub, project writers |
| Worker workspace (`workspace.ts`, `git-runner.ts`) | the run's clone and branch | clone, checkout, path policy, commit, push, clean-up | git, GitHub |
| Codex adapter (`packages/codex`) | the child process, its timers and result | `execute`, abort, finalize | worker |
| Run events (`main.ts` `addEvent`, `tasks.controller.ts`) | `CodexRunEvent.sequence`, the SSE cursor | insert, poll | worker writes, API reads |
| Android pipeline (`android-pipeline.ts`, `packages/security`) | one run's steps and findings | `runAndroidPipeline`, built-in scans | worker |
| PRD documents (`packages/contracts/src/prd.ts`, `prd-content.ts`) | a document | the build-ready schema, Markdown validation | PRD service |
| PRD (`prd.service.ts`) | `PrdVersion.status`, approvals, snapshots | `upload`, `requestReview`, `approve`, `lock`, `autoLock`, `diff` | project writers, tasks, decisions |
| Decisions and constraints (`decisions.service.ts`) | versioned rows | create, revise | snapshot of a lock |
| Repositories and webhooks (`repositories.service.ts`, `packages/github`) | `GithubRepository`, `WebhookDelivery` | `create`, `connect`, `processWebhook` | GitHub, project writers, tasks |
| Quality and release (`quality.service.ts`, `packages/security`) | test runs, scans, findings, builds, releases, risk acceptances | `recordTest`, `recordSecurityScan`, `recordBuild`, `acceptRisk`, `createReleaseCandidate`, `approveRelease`, `requestSigning` | project writers; the worker writes the same tables itself |
| Auth (`auth.service.ts`, `guards.ts`) | failure counter, lock, sessions | `login`, `logout`, `revokeAllSessions`, `changePassword`, the guards | every controller |
| MCP and settings (`mcp.service.ts`, `settings.service.ts`) | credentials, request log | `handle`, `createCredential`, `revokeCredential` | auth, tools |
| Artifact store, web front end | stored objects, a page's state | uploads, views | everybody |

What makes them hard, and what would make them correct:

- **Project status.** A person's write is guarded by the version they saw; a
  service's is not. People must stay on the table, one version must have one
  winner, and the history must explain the status.
- **Tasks and worker.** Starting, retrying, following up and cancelling touch
  four rows and a queue that has its own opinion. A task must be started once,
  be SUCCEEDED only with a pull request and come to an end, and a cancel that
  says CANCELLED must be true, through crashes, stalls, timeouts and late
  handlers.
- **An attempt.** The next attempt goes on in the directory the last one left. A
  pull request must hold checked work of the attempt that succeeded; the child
  must not be left running; what it printed must be stored.
- **Events.** Numbered before they are stored and stored at once: a reader that
  follows the cursor must not be left behind the newest one.
- **PRD.** Review, decision and lock are calls of their own; what is in force
  must have been approved and trace back to its scope, and its snapshot of the
  decisions must not be older than itself.
- **Repositories, webhooks.** GitHub and PostgreSQL fail independently, and a
  delivery may arrive twice.
- **Release.** The gate is computed anew by each call from rows read one by one;
  a release that passed must rest on its evidence, and accepted risks end.
- **Auth, MCP.** What is read before an `await` is used after it: sessions must
  end with the password, and the limit must not be passed without bound.

`PROJECT.json` lists each of these hazards at its line with the property that
covers it, or why none does.

## 2. The modules

| Module | Models |
|---|---|
| `ProjectStates` | the table of moves; no variables |
| `ProjectLifecycle` | abstract: every write of a project's status is one atomic move |
| `ProjectTransitions` | detailed: `transition` and `transitionSystem`, any number of calls at once |
| `CodexTasks` | `start`, `followUp`, `cancel`, `enqueue`, the queue, the worker's slots and its handlers |
| `EventDelivery` | abstract: what the event stream of a run promises |
| `CodexExecution` | one run from the worker's attempt to the child process and to a reader's stream |
| `RunWorkspace` | composes `CodexExecution` with the git phases of the attempts |
| `PrdDocument` | which documents are accepted; operators |
| `PrdDiff` | `PrdService.diff`; operators, with what a difference is as an assumption TLC evaluates |
| `PrdLifecycle` | PRD versions from upload to lock, composed with the project's status, the decisions and the prepared tasks |
| `AndroidPipeline` | from the tools' outcomes to the three verdicts; operators |
| `ReleaseLifecycle` | quality records, gate, candidate, approval, signing, composed with the worker's pipeline results |
| `RepositoryProvisioning` | `create`, `connect` and `processWebhook` between GitHub and the database |
| `Accounts` | login, lockout, sessions, change of password |
| `McpEndpoint` | composes `Accounts` with the settings and the MCP endpoint |
| `ProjectTransitionsProofs`, `CodexTasksProofs`, `RunWorkspaceProofs`, `PrdLifecycleProofs`, `ReleaseLifecycleProofs`, `RepositoryProvisioningProofs`, `McpEndpointProofs` | theorems about the module they are named for, with their inductive invariants |
| `MaximumLemmas` | what the maximum of a bounded set of numbers is, for three of them |
| `MC...` | model values, small documents and reports, scenarios for TLC |

In all of them a handler is cut at its `await`s: an action runs from one to the
next, holds what it read in a record of locals (`call`, `client`, `slot`) and
lets any other action in between. A database transaction is one action, except
where two of them meet and READ COMMITTED shows: the transactions of `Accounts`,
and the one of `autoLock`, are taken statement by statement. A call that its
very first read refuses changes nothing and is left out.

### ProjectTransitions

`status`, `version` and `history` are the `Project` row and its history rows. A
call is a member of `People` or `Services`, made at most once; `pc`, `target`,
`expected` and `seen` are its locals. `ReadByPerson` is the read and
`assertProjectTransition`, `WriteByPerson` the transaction when `updateMany`
matched, `ConflictForPerson` when it did not. `ReadByService` and
`WriteByService` are `transitionSystem`; the worker's `transitionProject` is the
same code. `create` is the initial state, with its two inserts taken together.

A client quotes a version the project has had by the time of the request, as the
UI does: `expected` is chosen from `1 .. version`. A client that guessed a
version of the future could make its stale check pass; the code does not prevent
it.

`ProjectLifecycle` says what this amounts to: a person's move leaves the status
the project has, a service's move leaves *some* status the project has had. That
weaker promise for services is the strongest one the code keeps, and the run
`archived` shows the stronger one fail.

### CodexTasks

The repository is ready and every task is a prepared DRAFT with instruction 1.
Instruction version `v` of task `t` owns one `CodexRun`, one `Job` row and one
BullMQ job (`jobId` is the `Job` id), so all three are indexed by `<<t, v>>`.

| Actions | Code |
|---|---|
| `StartReads`, `StartClaims` | `start`: status checks; the claiming transaction |
| `FollowUpReads`, `FollowUpCommits` | `followUp`: status checks; the unconditional transaction |
| `Enqueues`, `Links`, `ReadsProject`, `WritesProject` | `enqueue`, then `transitionSystem(DEVELOPMENT_QUEUED)`, of both |
| `CancelReads`, `CancelFinds`, `CancelRequests`, `CancelInspects`, `CancelRemoves`, `CancelConfirms` | `cancel`: the reads, the first transaction, `getState`, `remove`, the second transaction |
| `Takes`, `Loads`, `MarksRunning` | processor entry, the checks of `processJob`, the RUNNING transaction |
| `SlotReadsProject`, `SlotWritesProject` | `transitionProject`, for each project status in `goals` |
| `Executes`, `MarksSucceeded`, `RecordsQuality` | Codex to pull request; the SUCCEEDED transaction; `recordPipelineResult` with every verdict |
| `Throws`, `Catches`, `MarksCancelled` | any `await` that fails; the `catch` block; its cancelled branch |
| `Completes`, `Rejects`, `Lands` | the attempt ends in BullMQ; the handler's database write, separately |
| `CancellationPoll`, `TimesOut` | the one-second poll, the `CODEX_JOB_TIMEOUT_MS` timer |
| `Promotes`, `StallRecovers`, `FailsStalled` | BullMQ: end of the retry delay, recovery of a job whose worker died, the end of one that stalled too often |
| `CallDies`, `WorkerCrashes` | the API process or a connection, the worker process, fails between two steps |
| `PersonMoves` | `transition` by a person meanwhile |

Steps that are merged, and why that loses nothing: `start` reads the task, then
the project, and only the claim repeats a check, which it makes on the task row
alone; `cancel`'s lookups of run and job feed the same transaction; the
processor marks its Job row RUNNING just after BullMQ made the job active, and
nobody but `cancel`'s lookup reads that row's status; a person's `transition` is
atomic by what `ProjectTransitions` proves about it. `followUp` looks at the
project's status before it calls `transitionSystem`, which looks again.

BullMQ is modelled from how the code uses it: a waiting job is given to one
slot; `remove` throws when the job is locked and otherwise deletes it in
whatever state it is; `attemptsMade` counts finished attempts; a failed attempt
is delayed while attempts are left; the job of a dead worker becomes waiting
again when its lock expires, and is counted as stalled. The worker does not set
`maxStalledCount`, so the limit is BullMQ's one: a job that has stalled twice is
failed for good by the next worker that would take it (`FailsStalled`), whatever
attempts are left, while the `failed` handler decides between RETRYING and
DEAD_LETTER by `attemptsMade`.

`BackoffCoversHandler` names the one timing assumption: the `failed` handler's
write, which nobody awaits, commits within the five-second retry delay. Without
it the handler may write QUEUED over the RUNNING of the next attempt. A `void`
handler whose write is rejected ends the worker as an unhandled rejection, which
is the behaviour `WorkerCrashes` has.

`Executes` is where this module meets the next two: what happens inside it is
`RunWorkspace`, one run seen from close by.

### CodexExecution and RunWorkspace

`at` is the attempt's place in `processJob` and in the adapter's promise. With
`acl` in its setup the adapter first awaits `prepareWindowsWorkspaceAcl`; only
then does `Spawns` start the child and register the abort listener, so a signal
that fired meanwhile is heard by nobody (`AclFails` is the preparation's own
failure). The child prints lines and perhaps an unfinished one, writes its result file, exits,
or hangs for ever; `Closes`, `Aborts`, `GraceEnds` and `SpawnFails` are the
callbacks `close`, abort, the terminal-event timer and `error`; `Validates` and
`Recovers` are `finalize`. Each line takes the next number and becomes a pending
insert. `InsertCommits` stores any of them, in any order; one that `InsertFails`
before anybody waits for it is an unhandled rejection and the worker dies,
leaving the child an orphan. A later attempt numbers on from the highest stored
number, while inserts of the dead worker may still commit (`sequence` is unique,
so one of two equal numbers fails). `Polls`, `PollReads` and `PollDelivers` are
the SSE interval, whose callbacks overlap, and `Reconnects` a browser that
starts from cursor 0.

`RunWorkspace` adds the directory (`dir`: missing, empty, a broken or whole
clone, a foreign directory), what differs from HEAD (`dirty`), the commits of
the clone, of GitHub's branch, and the pull request. `Starts` to `ChecksOut` are
the steps before Codex, `ChecksChanges` to `createPullRequest` those after it.
What the path policy sees is not the files but what `git status` calls them: a
file (`Files`), its directory when git knows none of that directory's files
(`Folder`, `known`), or the old name of a rename short of three characters
(`Sliced`). `ChecksChanges` chooses such a name for each changed file and keeps
them in `listed`; `Commits` takes the files. `ChecksOut` checks nothing out when
the task has no target commit. `Finishes` is the `finally` clause together with the attempt's end. `Writes`
lets a child, or an orphan, change files at any moment, also between `git
status` and `git add --all`. `DiesCloning` kills the worker, with or without
git, during a clone. `GitFails` fails a command or request before or after its
effect. `RunNext` keeps every step of `Next` in its place between the two
phases, so the properties of `CodexExecution` are checked under `RunSpec`.

`EventDelivery` is the promise this implements, with `log`, `seen` mapped by
name and `open` by whether the reader polls at all: a number means one event for
ever, nothing is received that is not stored, and the *newest* event arrives. It
does not promise every event, because a poll that sees number `n + 1` stored
before `n` moves its cursor past `n`.

### PrdDocument, PrdDiff and PrdLifecycle

A document keeps what refers to something else: ids, references between
features, screens, requirements and criteria, SDK levels, the answers of the
Markdown checks. `Accepted` is what `upload` lets pass, `taskInputSchema` what
`create` does: a version in force whose criteria are longer than a task's may be
makes no task.

`prds[n]` is version `n`; `records` are the active decisions and constraints;
`tasks` the IMPLEMENT_PRD tasks, each with the version in its key and the one it
carries. Every call starts in `Begins` and goes on in `Proceeds`:

| Actions | Code |
|---|---|
| `UploadChecks`, `UploadNumbers`, `UploadCreates`, `UploadMoves` | `upload`: validation, version number, insert (a number that is taken fails), the project's move, then review or `autoLock` |
| `RequestsReview`, `ReviewReads`, `ReviewWrites` | `requestReview` |
| `ApproveReads`, `ApproveWrites` | `approve`, with every action |
| `RequestsLock`, `LockReads`, `TakesSnapshot`, `LockWrites` | `lock` |
| `AutoLockReads`, `TakesSnapshot`, `Supersedes`, `AutoLocks`, `AutoApproves`, `AutoSettles` | `autoLock`: reads, the two statements of its transaction, the project's moves |
| `MoveReads`, `MoveWrites` | `transitionSystem`, in two steps as in `ProjectTransitions` |
| `NoteNumbers`, `NoteInserts` | `createConstraint`, `reviseConstraint` and the decisions': number, insert |
| `PrepareReads`, `CreateReads`, `CreateInserts` | `prepareFromLockedPrd` with `create` |
| `PersonMoves` | `transition` by a person meanwhile, to PRD_LOCKED too, which asks for no version: `byHand` remembers that |

An upload through the MCP tools takes the same way as any other. `approvalEnabled` is `APPROVAL_WORKFLOW_ENABLED`, fixed at the start; both
values are explored. `known` of a version records which decisions existed when
it was made, for `SnapshotFaithful` alone.

`PrdDiff` has `diff` as functions, and assumes of all texts of up to three lines
out of three that what they return replays the old version and the new one and
keeps as many lines as their longest common subsequence, which is defined there
without the matrix.

### AndroidPipeline and ReleaseLifecycle

A pipeline run is a record of what its commands, scanners, manifests and build
directories came to; the operators follow `runAndroidPipeline` from there to the
steps, the findings and the test, security and build statuses. `fake` is the
fake adapter's run, which runs no tool and passes. The sources are those the
built-in scan reads, at most 20000 files.

`tests`, `scans`, `builds`, `releases` and `acceptances` are the tables, rows
named by their position. A gate is read in the order of the code: `GateReads`
takes the locked PRD, `GateReports` the acceptances valid *now* and evaluates,
and only then does the caller write (`CandidateWrites`, `ApproveBlocks`,
`ApproveWrites`, `Signs`). `PrdLocks`, `Tick` and `PersonMoves` go on meanwhile;
a CEO or PM may post any edge of the table, RELEASE_CANDIDATE without a release
included, and `byHand` says that the status is theirs.
`PipelineRecords` is the worker's `recordPipelineResult`, which writes the same
rows and evaluates the gate with its own idea of the locked PRD. A release keeps
`gateAt`, the time its gate passed, `approved` and `runs`, for the properties
alone. PRD version `n` stands for its SHA-256.

### RepositoryProvisioning

`remotes` and `contents` are GitHub's side, `row` (by project, unique both ways)
and `status` the database's. `createRepository`, `createOrUpdateFile`,
`RowInserts`, `PrepareReads`, `TaskInserts` are the awaits of `create` and
`connect` in order, `CreateFails`, `FileFails`, `InsertFails` their failures
(GitHub may have acted all the same), `Catches` the `catch` clause with its move
back. Every call to the database may fail, before or after its effect
(`MoveFails`, `InsertFails`, `PrepareFails`, `HookFails`); where nobody is left to
move the project afterwards, in the first move and in the `catch` clause, the
mishap is called "unmoved". `Crashes` ends every request in flight, and what the
fake adapter keeps in memory; `PersonMoves` is a person's `transition` along any
edge of the table, remembered in `byHand` until a service writes the status
again. `HookRecords`, `HookSyncs`, `HookThrows` and `HookSettles` are
`processWebhook`. The files the fake adapter writes leave no trace, as in the
code.

### Accounts and McpEndpoint

A password is the number of changes before it. `LoginReads` to `LoginCommits`
are `login`, with the counter computed from the row as it was read; `rowLock` is
the row lock that a transaction's `UPDATE` takes and its commit releases,
`found` what its second statement saw. `Asks` and `Forbidden` are the guards,
`Logout`, `RevokeAllSessions` and `Change...` the operations behind them.

`McpEndpoint` adds the settings requests, which come through the same sessions,
and the calls of the MCP endpoint: `authenticate`, `enforceRateLimit` with the
dispatch that follows it without a pause, `callTool`, `recordRequest` and
`RecordFails`, after which a failure is recorded once more.

## 3. The runs

| Run | Instance | Shows |
|---|---|---|
| `transitions` | 3 people, 2 services, 4 targets each | `OneWinnerPerVersion`, `HistoryAccountsForStatus`, `PersonStepsLegal`, and `ImplementsLifecycle` (the detailed spec implements `ProjectLifecycle`) |
| `tasks_cancel` | 1 task, start, follow-up, cancel, 1 slot, 2 attempts, 2 instructions | `SucceededHasPullRequest`, `ConfirmedCancelNeverRuns`, `JobRecordSettles` |
| `tasks_settle` | 1 task, start, follow-up, 1 slot, 2 attempts, two faults, a person archives | under fairness `EveryTaskSettles` |
| `tasks_parallel` | 2 tasks, 2 starts, 2 slots, 2 attempts | `StartedOnce`, `NoConcurrentAttempts` |
| `stream` | two attempts, two lines, one fault, two overlapping polls, a reconnect, in six setups with their plans | `SuccessIsComplete`, `ChildStopped`, `PullRequestHoldsCheckedWork`; under fairness `ExecutionSettles` and `ImplementsDelivery` (the stream implements `EventDelivery`) |
| `prd` | any 3 of 10 calls, both modes, 9 documents, one of people's moves, to PRD_LOCKED or REPO_READY | `LockedWasApproved`, `ProjectLockHasVersion`, `SnapshotFaithful`, `CriteriaTraceToScope`, `TasksCarryLockedPrd`, `UploadTakesEffect`, and the assumption of `PrdDiff` |
| `release` | 9 calls, 2 at once, good and bad reports, 11 pipeline runs, 2 PRDs, a risk that expires, people's moves to RELEASE_CANDIDATE | `ReleaseEvidence`, `ApprovedNamesItsPrd`, `StatusBackedByRelease`, `PipelineCandidateClean`, `BlockedStaysBlocked` |
| `repositories` | 2 projects, 2 names (one taken), 2 or 3 requests in three scenarios, 2 deliveries (one malformed), 2 mishaps, both adapters | `ReadyHasRepository`, `CreatedIsBootstrapped`, `AnsweredHasTask`, `DeliveryAppliedOnce`; under fairness `BootstrappingEnds` |
| `access` | 3 clients with 2 requests each in three scenarios, a clock, one credential, one lost audit row | `NoSessionOutlivesChange`, `RateOvershootBounded` |
| `archived` | 1 person, 1 service | violation: a project leaves ARCHIVED |
| `cancel_answered` | 1 task, start, cancel, 1 attempt | violation: CANCEL_REQUESTED for ever |
| `follow_up` | 1 task, start, follow-up, 1 attempt | violation: a new instruction while a slot still works |

Every passing run also checks its module's `TypeOK`, except `tasks_settle` and
`tasks_parallel`, which share a module with `tasks_cancel`.

**The bounds.** Two racing writers and one bystander are what a lost version
check needs, and two services give a stale write behind a stale write. One task
with two attempts meets first failure, retry and exhaustion; two instruction
versions give an old job beside a new one; one cancel can be placed anywhere in
that life. Two slots and two tasks are the least in which runs share the
project's status. Two attempts give a workspace that was left behind, two lines
an order that can be reversed, two polls a cursor that is overtaken, and a page
of two is one that does not hold everything; the setups of `MCRunWorkspace`
combine them in those groups that interact, since their product is out of reach.
Of PRD calls the races are between two, and the third is the upload that makes
the version they race for; a second version comes of two uploads. Of the quality
calls two overlap at a time, because each is a reader and the other what changes
under it; what is in the rows by then is the work of all. Two
preparations of one version are what their common key needs. Two projects and two names are what a collision
needs, and two mishaps an answer lost at any point, with the failure of the move
back, a crash or a person beside it. Two deaths of the worker are what BullMQ's
limit on stalls needs. Three clients are two logins beside a change of password, and
`LoginFails` reaches the lock with `MaxFailures = 2`. Calls are made a bounded
number of times, so every instance comes to rest and deadlock is no error; each
configuration says so.

**Faults.** API requests that die between two awaits (`CallDies`, `Crashes`),
the worker's death in the middle of an attempt, with its handlers, inserts,
clone or child (`WorkerCrashes`, `WorkerDies`, `DiesCloning`), stalled jobs that
run again or have stalled too often, database failures before or after they
acted (`MoveFails`, `InsertFails`, `PrepareFails`, `HookFails`), timeouts, refused inserts, requests to GitHub and git commands that
fail before or after they acted (`CreateFails`, `FileFails`, `GitFails`),
deliveries that come twice or malformed, a Codex that hangs for ever or lives on
as an orphan, a browser that reconnects, and a clock that passes an expiry.

**Fairness.** In `CodexTasks` a call that was made runs on, since Node runs
every ready continuation; a free slot takes a waiting job, an attempt ends
(Codex is killed at its timeout, and `Throws` needs no fairness), handlers land,
delays and locks expire. In `CodexExecution` the event loop, the inserts and the
reader's interval go on, an attempt that lasts is aborted
(`CODEX_JOB_TIMEOUT_MS`), and a process that was told to stop ends (SIGKILL
follows SIGTERM); nothing is assumed of Codex itself. `RunSpec` adds no fairness
to the steps of git: its liveness properties are about the execution and the
stream alone. In `RepositoryProvisioning` requests in flight run on. Nothing is
assumed of people, and no fault need happen. The other modules state safety
only.

What the violations mean:

- `archived`: `transitionSystem` checks a status it read earlier and updates by
  id. The test "makes archived terminal" holds of the table, not of the service.
- `cancel_answered`: `cancel` writes CANCEL_REQUESTED without looking again. If
  the last attempt ended in between, nobody polls that task any more, and
  neither `cancel` nor `followUp` accepts the status. The user guide promises
  CANCELLED.
- `follow_up`: SUCCEEDED is written before the worker is done with the task, so
  `followUp`'s own refusal of executing tasks does not hold.

Further disagreements between code and documents, met while modelling. They have
no run of their own; the models contain the behaviour, and the properties named
except it or state what the code does:

- BullMQ fails a job at its second stall although attempts are left; the `failed`
  handler (`main.ts`:943) counts attempts and writes RETRYING and QUEUED, and no
  job is left to retry. `github-codex-execution.md`:58 says "the final failed
  attempt is marked `DEAD_LETTER`" (`JobRecordSettles`, `EveryTaskSettles`).
- With the approval workflow off `upload` goes on to `autoLock` wherever it was
  called from (`prd.service.ts`:201). `docs/api/mcp.md`:73 and :98 say that a PRD
  uploaded through MCP is neither approved nor locked by that, and so do the
  instructions at `mcp.service.ts`:129 (`UploadTakesEffect`).
- The worker's gate is told `lockedPrd: true` (`main.ts`:350) and compares the
  build's PRD with the task's own, where `quality-release.md`:32 has every gate
  computed from the present records. An approval's gate is, so a candidate of a
  replaced PRD is not approved (`ApprovedNamesItsPrd`).
- The adapter listens to the abort signal only after it has awaited the
  preparation of Windows ACLs (`packages/codex/src/index.ts`:246, :305), and does
  not ask whether it fired meanwhile; neither a cancellation nor the timeout stops
  that child. `github-codex-execution.md`:57 says that a cancellation aborts it
  (`ExecutionSettles`).
- `git status` without `-uall` (`main.ts`:696) names a new directory, not its
  files, and `git add --all` takes what is in it: a denied pattern is not held
  against such a file, although `codex-worker.md`:171 calls it denied
  (`PullRequestHoldsCheckedWork`).

What the passing properties leave out, because the code has no answer to it and
no document promises one (the models contain all of these behaviours):

- `EveryTaskSettles` is about tasks nobody cancels: `cancel` may see a job
  `waiting`, the job may then run and fail, and `remove` deletes the *delayed*
  job; the failed handler then writes QUEUED over CANCELLED and no job is left.
  It, and `JobRecordSettles`, leave out two crashes (`faults.lost`): between the
  claiming transaction and `queue.add`, and between BullMQ's own bookkeeping and
  the un-awaited handler; and the second stall of a job (`StalledOut`). A project that `start` pushes back to
  DEVELOPMENT_QUEUED after the worker has taken it to DEVELOPING is noticed only
  where an attempt fails by it, and of two tasks that share a project one can
  fail by the other's moves although its pull request exists.
- People's own moves. `transition` asks the table and nothing else, so a CEO or
  PM can post PRD_LOCKED, REPO_BOOTSTRAPPING, REPO_READY, RELEASE_CANDIDATE or
  FINAL_APPROVAL for a project that has no PRD version, repository or release to
  show for it. The models let them (`PersonMoves`), and `ProjectLockHasVersion`,
  `ReadyHasRepository`, `BootstrappingEnds` and `StatusBackedByRelease` speak of
  the statuses that services wrote (`byHand` marks the others).
- Two PRD versions can end LOCKED: `lock` does not supersede, and two
  `autoLock`s do not see each other's. `ProjectLockHasVersion` asks for one at
  least.
- A delivery whose processing failed is a duplicate when it is sent again, and
  is never applied. A repository that was made and not stored keeps its name
  taken. A crash leaves a project in REPO_BOOTSTRAPPING, and so does a database
  failure in a creation's first move, when the move was made all the same, or in
  its `catch` clause ("unmoved"): `BootstrappingEnds` excepts them. After a crash
  a stored repository of the fake adapter no longer exists.
- Parallel failed logins count once, and a login that verified the old password
  before the change makes its session after it.
- A retried attempt can find the result file of the one before. A child that was
  told to stop, or an orphan, may still write between the policy check and the
  commit: `PullRequestHoldsCheckedWork` is about commits made without one
  (`alone`), and about the entries the policy judged, not the files behind them.
  A retry after a pull request was opened fails at opening it again.
- The user guide's stronger promise (`factory-user-guide.md`:132), that the end of
  the process is *confirmed* before a task is CANCELLED, is not checked:
  `ChildStopped` says that it was told to stop. `ExecutionSettles` excepts an
  execution whose abort fell into the preparation of its ACLs.
- `UploadTakesEffect` and the second half of `TasksCarryLockedPrd` are about
  automatic locking. With the approval workflow a revision requested between the
  reads of a preparation leaves a task of a version that is no longer in force.

## 4. The proofs

TLC looks at the instances of section 3. The theorems hold for every value of
the constants: any number of people, clients, tasks, slots, calls, versions,
documents, reports, rows, lines, polls, files, faults and crashes. Every
invariant and every action property that a passing run checks is stated by one
of them.

| Module | Theorem | Property |
|---|---|---|
| `ProjectTransitionsProofs` | `TypeCorrect` | `TypeOK` |
| | `VersionsAreWonOnce` | `OneWinnerPerVersion` |
| | `HistoryIsComplete` | `HistoryAccountsForStatus` |
| | `PersonStepsAreLegal` | `PersonStepsLegal` |
| | `TransitionsImplementLifecycle` | `ImplementsLifecycle` |
| `CodexTasksProofs` | `TasksTypeCorrect` | `TypeOK` |
| | `SuccessHasEvidence` | `SucceededHasPullRequest` |
| | `ConfirmedCancelHolds` | `ConfirmedCancelNeverRuns` |
| | `OneStartEach` | `StartedOnce` |
| | `NoTwoSlotsPerTask` | `NoConcurrentAttempts`, without follow-ups |
| | `JobRecordsSettle` | `JobRecordSettles` (second stalls excepted), under `BackoffCoversHandler` |
| `RunWorkspaceProofs` | `RunTypeCorrect` | `TypeOK` |
| | `SuccessComplete` | `SuccessIsComplete` |
| | `NoChildLeft` | `ChildStopped` |
| | `PullRequestChecked` | `PullRequestHoldsCheckedWork` |
| | `RunDelivers` | the safety half of `ImplementsDelivery` |
| `PrdLifecycleProofs` | `PrdTypeCorrect` | `TypeOK` |
| | `NothingLockedUnapproved` | `LockedWasApproved` |
| | `LockedProjectHasVersion` | `ProjectLockHasVersion` |
| | `SnapshotsFaithful` | `SnapshotFaithful` |
| | `CriteriaAlwaysTrace` | `CriteriaTraceToScope` |
| | `TasksCarryLocked` | `TasksCarryLockedPrd` |
| | `UploadsTakeEffect` | `UploadTakesEffect` |
| `ReleaseLifecycleProofs` | `ReleaseTypeCorrect` | `TypeOK` |
| | `ReleasesHaveEvidence` | `ReleaseEvidence` |
| | `ApprovedForItsPrd` | `ApprovedNamesItsPrd` |
| | `StatusIsBacked` | `StatusBackedByRelease` |
| | `CandidatesAreClean` | `PipelineCandidateClean` |
| | `BlockedForGood` | `BlockedStaysBlocked` |
| `RepositoryProvisioningProofs` | `ProvisioningTypeCorrect` | `TypeOK` |
| | `ReadyProjectsHaveTheirRepository` | `ReadyHasRepository` |
| | `StoredIsBootstrapped` | `CreatedIsBootstrapped` |
| | `AnswersComeWithTask` | `AnsweredHasTask` |
| | `DeliveriesApplyOnce` | `DeliveryAppliedOnce` |
| `McpEndpointProofs` | `TypeCorrect` | `TypeOK` |
| | `ChangeEndsEverySession` | `NoSessionOutlivesChange` |
| | `OvershootIsBounded` | `RateOvershootBounded` |

**The argument.** Each module proves one inductive invariant (two where the
second needs the first), which was checked by TLC on the module's run before it
was proved. The properties alone are seldom inductive: a call acts on what it
read some awaits ago, so the invariant has to say what that is still good for.
It therefore has two kinds of parts: what the rows say, and, for each place a
call can be at, what the call may rely on there. In `PrdLifecycle`,
`ReleaseLifecycle` and `RepositoryProvisioning` the steps of *other* calls are
dealt with once: an operator `Grows` says what no step takes back (versions,
records and rows are only added; an approval, a stored repository, a blocked
gate stay), every step is shown to be a step of `Grows`, and a lemma
`OthersKeep` (or its counterpart for one call at a time) shows that whatever a
call relies on survives it. What is left of an action is its own call.

- `ProjectTransitions`, `IInv`. While the project still has the version a person
  expects it has the status they read (`ExpectationsCurrent`), a writer's
  version is gone (`WrittenVersionsUsed`), and a checked call carries an edge of
  the table from a status found in the history (`CheckedMovesLegal`), which is
  what the refinement of a service's step needs. `StepImplements` maps each step
  to a move of `ProjectLifecycle` or to none.
- `CodexTasks`, `TaskInv`. A run exists before its queue entry, two calls never
  enqueue the same run, a busy slot holds the *active* BullMQ job of its run and
  is the only one to, and a slot that is to write SUCCEEDED has a pull request.
  Since `cancel` confirms only a job it has removed, and nothing leaves
  `removed`, no slot has it. `RecordsInv` adds that a handler on its way says
  what BullMQ made of its job, for every job that has not stalled twice. `OneVersion` is what follow-ups break.
- `RunWorkspace`, `RunInv`, which is `ExecutionInv /\ WorkspaceInv`. Every
  printed line is stored, or its insert is under way, and from `finalize` on
  somebody waits for it; the child still runs only at certain places; numbers in
  use have a bound. The execution never looks at the workspace, so its part is
  kept by its own steps. For the workspace: when an attempt is about to commit
  and neither recovered from a running child nor began beside an orphan, nobody
  can have written since the policy check, so each changed file still has one of
  its names among the entries that were let pass. `RunDelivers` maps every step of the
  composed run to a step of `EventDelivery` or to none.
- `PrdLifecycle`, `PrdInv`. A call that goes to lock carries an approval (with
  the workflow on), its snapshot is good for what was known when the version was
  made, and what an automatic call moves the project for is in force. A version
  in force may be superseded, but only in the transaction in which another gets
  locked, so one stays; a project past PRD_LOCKED with none got there by hand.
  `CriteriaAlwaysTrace` follows from the validations of
  `PrdDocument` alone.
- `ReleaseLifecycle`, `ReleaseInv`. A gate that has passed found evidence that
  no later row takes away (`Proven`, for the time the gate was evaluated); the
  PRD a call read is no newer than the locked one, and PRDs only grow, which is
  why an approval whose gate compared the build with the newest PRD names that
  build's PRD; every move a call still has to make is backed by a release, and a
  status that is not was written by a person.
- `RepositoryProvisioning`, `ProvisionInv`. A request that is to move a project
  to REPO_READY has stored its row; the files it still has to write and those on
  GitHub are all there are; a delivery is in the hands of the one request whose
  insert recorded it, until that request settles it.
- `McpEndpoint`, `AccountInv` and `RateInv`. Whoever is inside a transaction
  that updated the user row holds its lock, so a change of password that looks
  for sessions finds all there will be when it commits. The audit rows of a
  window and the requests that will still add one are bounded together; their
  sum, unlike their number of rows, is inductive.

**Assumptions on the constants.** They are named in the modules and evaluated by
TLC on every run:

- calls of different kinds are different calls (`CallsAssumption`,
  `DisjointCalls`), and names that stand for "none" name nothing else
  (`NobodyAssumption`, `NoneAssumption`);
- statuses a person asks for are of the enum (`TargetsAssumption`,
  `PersonAssumption`): the request schema refuses others;
- reports have the shape their request schemas admit (`ReportsAssumption`), a
  pipeline run records one outcome per command (`RunsAssumption`), `Files` are
  the bootstrap files and there is at least one (`FilesAssumption`);
- there is a task, a document, a logical id to speak of (each call's local has
  to start with some value), and the bounds are numbers, positive where a run
  that never begins would be meant otherwise (`BoundsAssumption`,
  `AccountBounds`);
- the clients of the MCP endpoint are finitely many (`McpBounds`), as their
  number is in the property.

**Hypotheses of single theorems.** Two theorems need more, and the code does not
always provide it:

- `NoTwoSlotsPerTask` assumes no follow-ups. With one the property is false: run
  `follow_up`.
- `JobRecordsSettle` assumes `BackoffCoversHandler`, the timing assumption of
  section 2: a handler's write takes less than the five seconds of the retry
  delay. Nothing in the code enforces it.

Writing the proofs changed one definition: `CodexExecution.Rejection` was a CASE
whose arms overlapped. Which arm then counts is unspecified in TLA+ although TLC
takes the first, so an insert that nobody is left to
hear of is now an IF of its own, before the places where somebody is.

**Only model-checked.**

- Liveness: `EveryTaskSettles`, `BootstrappingEnds`, `ExecutionSettles`, and the
  fairness of `EventDelivery` in `ImplementsDelivery` (that the newest event
  *arrives*). They rest on fairness, that is on ENABLED, which the prover does
  not reason about.
- What `PrdDiff` computes: that its difference is as short as the longest common
  subsequence allows. It is an induction over two texts through recursive
  functions, and the induction theorems of the library cannot be instantiated
  here. (`MaximumLemmas` gets around that for the one fact needed of `Max`, that
  a bounded set of numbers has a greatest one, by a minimal counterexample.)
- The violations: a counterexample needs one instance.

## 5. Not modelled

- **Artifact store.** Single uploads and reads. A build's artifact is there or
  not (`ReleaseLifecycle`, `AndroidPipeline`); the object that stays when the
  insert after it fails is referred to by nothing, so nothing can be said of it.
- **Web control center.** It presents what the API returns; its state is one
  page's, and every rule it shows is enforced again by the API.
- **Design inputs and the prompt.** They are text that goes into Codex; what
  comes back is modelled as any result. The adapter's arguments, file
  permissions and the summary of a line are left out with them.
- **Texts.** Lengths and shapes of single fields (but for that of a criterion,
  which decides whether a version can become a task), globs and URLs of the path and
  repository policies, tokens, headers and webhook signatures, redaction:
  functions of one value that unit tests reach. A path is allowed, denied or
  neither.
- **The commands of the Android pipeline** are their outcomes; Gradle, the
  scanners and `adb` are external. What a scanner prints is the set of its
  findings.
- **`create-admin`** (`packages/database/src/cli/create-admin.ts`) sets an
  account's password from the command line and revokes no session.
  `NoSessionOutlivesChange` is about `AuthService.changePassword`; nothing is said
  of that tool.
- **Listings** (`list`, `get`, the dashboards, the audit views) only read.
  `comment` only inserts. Superseding an older constraint is not followed, since
  a lock takes the newest of each.
- **Between modules.** `CodexTasks` takes the inside of an attempt as one step
  and `RunWorkspace` follows one run, without cancels. Their product is out of
  TLC's reach; what connects them is that an attempt throws or opens its pull
  request.

## 6. What is left to prove

- An abstract specification of the task's life, as `ProjectLifecycle` is one of
  the project's, with `CodexTasks` shown to implement it, so that "an attempt
  throws or opens its pull request" joins `CodexTasks` and `RunWorkspace` by a
  theorem and not by a remark.
- "Nothing is taken back" as action properties of their own: `Grows` of
  `PrdLifecycle`, `ReleaseLifecycle` and `RepositoryProvisioning` is proved of
  every step already, inside the theorems above.
- `AndroidPipeline`'s verdicts as lemmas about its operators, of which
  `CandidatesAreClean` uses the ones it needs.

No module of the project declares a RECURSIVE operator, so all of them are open
to proofs.
