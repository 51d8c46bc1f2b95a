----------------------------- MODULE CodexTasks -----------------------------
(***************************************************************************)
(* The life of the development tasks of one project: the API's start,      *)
(* followUp and cancel handlers, the BullMQ queue, and the worker that     *)
(* runs Codex and opens the pull request.                                  *)
(*                                                                         *)
(* A handler is split where the code awaits: each database transaction,    *)
(* queue call or read is one step, and the steps of all handlers and all   *)
(* worker slots interleave.  Instruction version v of task t has exactly   *)
(* one CodexRun, one Job record and one BullMQ job, all named <<t, v>>.    *)
(***************************************************************************)
EXTENDS Naturals, Sequences, FiniteSets, FiniteSetsExt, ProjectStates

CONSTANTS
  Tasks,                  \* the project's development tasks
  Starts, FollowUps, Cancels, \* calls of start, followUp and cancel, made once each
  Slots,                  \* CODEX_CONCURRENCY: jobs the worker process runs at once
  MaxAttempts,            \* CODEX_JOB_MAX_ATTEMPTS
  MaxVersions,            \* bound on the instruction versions of a task
  MaxFaults,              \* bound on crashes, calls that die half way and timeouts
  PersonTargets,          \* statuses people move the project to meanwhile
  BackoffCoversHandler    \* the failed handler commits within the 5 s retry delay

Calls == Starts \cup FollowUps \cup Cancels
Versions == 1 .. MaxVersions
Runs == Tasks \X Versions

ASSUME DisjointCalls ==
  Starts \cap FollowUps = {} /\ Starts \cap Cancels = {} /\ FollowUps \cap Cancels = {}
ASSUME BoundsAssumption ==
  /\ Tasks # {}
  /\ MaxAttempts \in Nat \ {0}
  /\ MaxVersions \in Nat \ {0}
  /\ MaxFaults \in Nat
  /\ PersonTargets \subseteq ProjectStatuses
  /\ BackoffCoversHandler \in BOOLEAN

VARIABLES
  project,  \* Project.status
  task,     \* DevelopmentTask: status, current instruction version, cancellationRequestedAt
  run,      \* CodexRun.status
  job,      \* Job: status, and whether externalJobId is set
  queue,    \* BullMQ: the job's state, attemptsMade and how often it was found stalled
  github,   \* pull requests opened for the run
  handlers, \* completed and failed handlers whose database write has not landed
  call,     \* the API calls: where each is and what it has read
  slot,     \* the worker's slots: likewise
  faults    \* faults so far, and whether one of them lost work nobody else knows of

vars == <<project, task, run, job, queue, github, handlers, call, slot, faults>>

-----------------------------------------------------------------------------
(* States of the records.                                                  *)

TaskStatuses == {"DRAFT", "QUEUED", "RUNNING", "CANCEL_REQUESTED", "CANCELLED",
                 "SUCCEEDED", "DEAD_LETTER"}
RunStatuses == {"none", "QUEUED", "RUNNING", "CANCELLING", "CANCELLED", "SUCCEEDED", "FAILED"}
JobStatuses == {"none", "QUEUED", "RUNNING", "RETRYING", "SUCCEEDED", "CANCELLED", "DEAD_LETTER"}
QueueStates == {"none", "waiting", "active", "delayed", "completed", "failed", "removed"}
Outcomes == {"succeeded", "cancelled", "retry", "exhausted"}

NoCall == [pc |-> "idle", task |-> CHOOSE t \in Tasks : TRUE, run |-> 0, job |-> 0]
FreeSlot == [pc |-> "idle", run |-> CHOOSE r \in Runs : TRUE, goals |-> <<>>, aborted |-> FALSE]

\* A repository is ready and the tasks are prepared drafts with instruction 1.
Init ==
  /\ project = "REPO_READY"
  /\ task = [t \in Tasks |-> [status |-> "DRAFT", version |-> 1, cancelRequested |-> FALSE]]
  /\ run = [r \in Runs |-> "none"]
  /\ job = [r \in Runs |-> [status |-> "none", external |-> FALSE]]
  /\ queue = [r \in Runs |-> [state |-> "none", attemptsMade |-> 0, stalls |-> 0]]
  /\ github = [r \in Runs |-> 0]
  /\ handlers = {}
  /\ call = [c \in Calls |-> NoCall]
  /\ slot = [s \in Slots |-> FreeSlot]
  /\ faults = [count |-> 0, lost |-> FALSE]

-----------------------------------------------------------------------------
(* Steps of the API's calls.                                               *)

At(c, pc) == call[c].pc = pc
CallGoes(c, pc) == call' = [call EXCEPT ![c].pc = pc]

\* The handler returns or throws: the caller has its answer.
Ends(c) == call' = [call EXCEPT ![c] = [NoCall EXCEPT !.pc = "over"]]

RunOf(c) == <<call[c].task, call[c].run>>

\* Rows of a task's newest run or job in one of these states; 0 when there is none.
Newest(found) == IF found = {} THEN 0 ELSE Max(found)

Ready(t) == task[t].status = "DRAFT" /\ project \in taskReadyStatuses

StartReads(c) ==
  /\ At(c, "idle")
  /\ \E t \in Tasks :
       IF Ready(t) THEN call' = [call EXCEPT ![c].task = t, ![c].pc = "claim"] ELSE Ends(c)
  /\ UNCHANGED <<project, task, run, job, queue, github, handlers, slot, faults>>

\* Mutant: the claim forgets that the task must still be a DRAFT.
ClaimableByAnyone(t) == TRUE

\* The row the claiming updateMany matches: the task must still be a DRAFT.
Claimable(t) == task[t].status = "DRAFT"

\* The records a start or a follow-up creates for version v.
CreateRun(t, v) ==
  /\ run' = [run EXCEPT ![<<t, v>>] = "QUEUED"]
  /\ job' = [job EXCEPT ![<<t, v>>] = [status |-> "QUEUED", external |-> FALSE]]

\* Mutant: the run is created and the task row is left alone.
UnclaimedTask(t) == task

ClaimedTask(t) == [task EXCEPT ![t].status = "QUEUED"]

StartClaims(c) ==
  /\ At(c, "claim")
  /\ LET t == call[c].task IN
       \/ /\ Claimable(t)
          /\ task' = ClaimedTask(t)
          /\ CreateRun(t, 1)
          /\ call' = [call EXCEPT ![c].pc = "enqueue", ![c].run = 1]
       \/ /\ ~Claimable(t)
          /\ Ends(c)
          /\ UNCHANGED <<task, run, job>>
  /\ UNCHANGED <<project, queue, github, handlers, slot, faults>>

FollowUpReads(c) ==
  /\ At(c, "idle")
  /\ \E t \in Tasks :
       IF task[t].status \in {"DRAFT", "QUEUED", "RUNNING", "CANCEL_REQUESTED"}
         THEN Ends(c)
         ELSE call' = [call EXCEPT ![c].task = t, ![c].pc = "commit"]
  /\ UNCHANGED <<project, task, run, job, queue, github, handlers, slot, faults>>

\* Mutant: the row names the version after the one that was created.
RequeuedOneAhead(v) == [status |-> "QUEUED", version |-> v + 1, cancelRequested |-> FALSE]

\* The task row a follow-up writes: whatever it is by now, it is queued again.
Requeued(v) == [status |-> "QUEUED", version |-> v, cancelRequested |-> FALSE]

FollowUpCommits(c) ==
  /\ At(c, "commit")
  /\ LET t == call[c].task
         v == task[t].version + 1
     IN /\ v <= MaxVersions
        /\ task' = [task EXCEPT ![t] = Requeued(v)]
        /\ CreateRun(t, v)
        /\ call' = [call EXCEPT ![c].pc = "enqueue", ![c].run = v]
  /\ UNCHANGED <<project, queue, github, handlers, slot, faults>>

\* enqueue: queue.add, then the Job row learns its BullMQ id.
Enqueues(c) ==
  /\ At(c, "enqueue")
  /\ queue' = [queue EXCEPT ![RunOf(c)].state = "waiting"]
  /\ CallGoes(c, "link")
  /\ UNCHANGED <<project, task, run, job, github, handlers, slot, faults>>

Links(c) ==
  /\ At(c, "link")
  /\ job' = [job EXCEPT ![RunOf(c)].external = TRUE]
  /\ CallGoes(c, "read")
  /\ UNCHANGED <<project, task, run, queue, github, handlers, slot, faults>>

\* transitionSystem to DEVELOPMENT_QUEUED: read and check, then write unconditionally.
ReadsProject(c) ==
  /\ At(c, "read")
  /\ IF canTransitionProject(project, "DEVELOPMENT_QUEUED") THEN CallGoes(c, "write")
                                                             ELSE Ends(c)
  /\ UNCHANGED <<project, task, run, job, queue, github, handlers, slot, faults>>

WritesProject(c) ==
  /\ At(c, "write")
  /\ project' = "DEVELOPMENT_QUEUED"
  /\ Ends(c)
  /\ UNCHANGED <<task, run, job, queue, github, handlers, slot, faults>>

CancelReads(c) ==
  /\ At(c, "idle")
  /\ \E t \in Tasks :
       IF task[t].status \in {"QUEUED", "RUNNING"}
         THEN call' = [call EXCEPT ![c].task = t, ![c].pc = "find"]
         ELSE Ends(c)
  /\ UNCHANGED <<project, task, run, job, queue, github, handlers, slot, faults>>

(* The newest open run, and the newest open job if its BullMQ id is known.  *)
CancelFinds(c) ==
  /\ At(c, "find")
  /\ LET t == call[c].task
         openRun == Newest({v \in Versions : run[<<t, v>>] \in {"QUEUED", "RUNNING"}})
         openJob == Newest({v \in Versions :
                              job[<<t, v>>].status \in {"QUEUED", "RUNNING", "RETRYING"}})
     IN call' = [call EXCEPT ![c].pc = "request", ![c].run = openRun,
                   ![c].job = IF openJob # 0 /\ job[<<t, openJob>>].external
                                THEN openJob ELSE 0]
  /\ UNCHANGED <<project, task, run, job, queue, github, handlers, slot, faults>>

\* A run row that a cancel found, or none, gets this status.
RunBecomes(c, st) == run' = IF call[c].run = 0 THEN run ELSE [run EXCEPT ![RunOf(c)] = st]

CancelRequests(c) ==
  /\ At(c, "request")
  /\ task' = [task EXCEPT ![call[c].task].status = "CANCEL_REQUESTED",
                          ![call[c].task].cancelRequested = TRUE]
  /\ RunBecomes(c, "CANCELLING")
  /\ IF call[c].job = 0 THEN Ends(c) ELSE CallGoes(c, "inspect")
  /\ UNCHANGED <<project, job, queue, github, handlers, slot, faults>>

JobOf(c) == <<call[c].task, call[c].job>>

CancelInspects(c) ==
  /\ At(c, "inspect")
  /\ IF queue[JobOf(c)].state = "waiting" THEN CallGoes(c, "remove") ELSE Ends(c)
  /\ UNCHANGED <<project, task, run, job, queue, github, handlers, slot, faults>>

\* Mutant: the failure of Job.remove is ignored.
IgnoredRemovalFailure(r) == FALSE

\* Job.remove throws when a worker has locked the job, and the call fails with it.
RemovalFails(r) == queue[r].state = "active"

CancelRemoves(c) ==
  /\ At(c, "remove")
  /\ IF RemovalFails(JobOf(c))
       THEN Ends(c) /\ UNCHANGED queue
       ELSE CallGoes(c, "confirm") /\ queue' = [queue EXCEPT ![JobOf(c)].state = "removed"]
  /\ UNCHANGED <<project, task, run, job, github, handlers, slot, faults>>

CancelConfirms(c) ==
  /\ At(c, "confirm")
  /\ task' = [task EXCEPT ![call[c].task].status = "CANCELLED"]
  /\ job' = [job EXCEPT ![JobOf(c)].status = "CANCELLED"]
  /\ RunBecomes(c, "CANCELLED")
  /\ CallGoes(c, "confirmed")
  /\ UNCHANGED <<project, queue, github, handlers, slot, faults>>

-----------------------------------------------------------------------------
(* Steps of the worker.                                                    *)

On(s, pc) == slot[s].pc = pc
SlotGoes(s, pc) == slot' = [slot EXCEPT ![s].pc = pc]
TaskOf(s) == slot[s].run[1]
Working(r) == \E s \in Slots : ~On(s, "idle") /\ slot[s].run = r

\* BullMQ's default limit; the worker does not set its own.
maxStalledCount == 1
StalledOut(r) == queue[r].stalls > maxStalledCount

\* The processor is called with a waiting job and marks its Job row RUNNING.
Takes(s, r) ==
  /\ On(s, "idle")
  /\ queue[r].state = "waiting" /\ ~StalledOut(r)
  /\ queue' = [queue EXCEPT ![r].state = "active"]
  /\ job' = [job EXCEPT ![r] = [status |-> "RUNNING", external |-> TRUE]]
  /\ slot' = [slot EXCEPT ![s] = [FreeSlot EXCEPT !.pc = "load", !.run = r]]
  /\ UNCHANGED <<project, task, run, github, handlers, call, faults>>

\* The run must still execute the task's current instruction.
InstructionCurrent(r) == task[r[1]].version = r[2]

Loads(s) ==
  /\ On(s, "load")
  /\ SlotGoes(s, IF InstructionCurrent(slot[s].run) THEN "prepare" ELSE "reject")
  /\ UNCHANGED <<project, task, run, job, queue, github, handlers, call, faults>>

MarksRunning(s) ==
  /\ On(s, "prepare")
  /\ task' = [task EXCEPT ![TaskOf(s)].status = "RUNNING"]
  /\ run' = [run EXCEPT ![slot[s].run] = "RUNNING"]
  /\ slot' = [slot EXCEPT ![s].pc = "read", ![s].goals = <<"DEVELOPING">>]
  /\ UNCHANGED <<project, job, queue, github, handlers, call, faults>>

(* Where a slot goes once the project has reached the first of its goals.  *)
AfterGoal(s) ==
  CASE Len(slot[s].goals) > 1          -> "read"
    [] Head(slot[s].goals) = "DEVELOPING"  -> "execute"
    [] Head(slot[s].goals) = "CODE_REVIEW" -> "record"
    [] OTHER                           -> "complete"

Reaches(s) == slot' = [slot EXCEPT ![s].pc = AfterGoal(s), ![s].goals = Tail(@)]

\* processJob before its try block, inside it, and in its catch block.
Preparing(s) ==
  \/ slot[s].pc \in {"load", "prepare"}
  \/ slot[s].pc \in {"read", "write"} /\ Head(slot[s].goals) = "DEVELOPING"
Trying(s) == slot[s].pc \in {"execute", "finish", "record", "complete", "read", "write"}
               /\ ~Preparing(s)
Catching(s) == slot[s].pc \in {"catch", "cancel", "completeCancelled"}

\* What is thrown in the try block is caught; otherwise the attempt fails.
Thrown(s) == IF Trying(s) THEN "catch" ELSE "reject"

\* transitionProject: read and check, then write unconditionally.
SlotReadsProject(s) ==
  /\ On(s, "read")
  /\ LET goal == Head(slot[s].goals) IN
       \/ project = goal /\ Reaches(s)
       \/ project # goal /\ SlotGoes(s, IF canTransitionProject(project, goal)
                                          THEN "write" ELSE Thrown(s))
  /\ UNCHANGED <<project, task, run, job, queue, github, handlers, call, faults>>

SlotWritesProject(s) ==
  /\ On(s, "write")
  /\ project' = Head(slot[s].goals)
  /\ Reaches(s)
  /\ UNCHANGED <<task, run, job, queue, github, handlers, call, faults>>

\* Until its finally block the poll and the timer may abort the attempt.
Armed(s) == Trying(s) \/ Catching(s)

CancellationPoll(s) ==
  /\ Armed(s)
  /\ task[TaskOf(s)].cancelRequested
  /\ slot' = [slot EXCEPT ![s].aborted = TRUE]
  /\ UNCHANGED <<project, task, run, job, queue, github, handlers, call, faults>>

\* Mutant: a pull request that could not be opened does not stop the run.
ExecutesWithoutPullRequest(s) ==
  /\ On(s, "execute")
  /\ SlotGoes(s, "finish")
  /\ UNCHANGED <<project, task, run, job, queue, github, handlers, call, faults>>

(* Codex, the push and the pipeline end well, be it just before an abort     *)
(* arrives, and the pull request is opened.                                 *)
Executes(s) ==
  /\ On(s, "execute")
  /\ github' = [github EXCEPT ![slot[s].run] = @ + 1]
  /\ SlotGoes(s, "finish")
  /\ UNCHANGED <<project, task, run, job, queue, handlers, call, faults>>

MarksSucceeded(s) ==
  /\ On(s, "finish")
  /\ run' = [run EXCEPT ![slot[s].run] = "SUCCEEDED"]
  /\ task' = [task EXCEPT ![TaskOf(s)].status = "SUCCEEDED"]
  /\ slot' = [slot EXCEPT ![s].pc = "read", ![s].goals = <<"CODE_REVIEW">>]
  /\ UNCHANGED <<project, job, queue, github, handlers, call, faults>>

(* recordPipelineResult: how far the tests, the scan and the gate let the   *)
(* project go.                                                              *)
RecordsQuality(s) ==
  /\ On(s, "record")
  /\ \E n \in 0 .. 3 :
       slot' = [slot EXCEPT
                  ![s].goals = SubSeq(<<"QA_TESTING", "SECURITY_REVIEW",
                                        "RELEASE_CANDIDATE">>, 1, n),
                  ![s].pc = IF n = 0 THEN "complete" ELSE "read"]
  /\ UNCHANGED <<project, task, run, job, queue, github, handlers, call, faults>>

(* Any await may throw: the PRD check, the clone, Codex, git, the pipeline,  *)
(* GitHub, the artifact store, the database.                                *)
Throws(s) ==
  /\ Preparing(s) \/ Trying(s) \/ Catching(s)
  /\ SlotGoes(s, Thrown(s))
  /\ UNCHANGED <<project, task, run, job, queue, github, handlers, call, faults>>

Catches(s) ==
  /\ On(s, "catch")
  /\ SlotGoes(s, IF slot[s].aborted /\ task[TaskOf(s)].cancelRequested
                   THEN "cancel" ELSE "reject")
  /\ UNCHANGED <<project, task, run, job, queue, github, handlers, call, faults>>

MarksCancelled(s) ==
  /\ On(s, "cancel")
  /\ run' = [run EXCEPT ![slot[s].run] = "CANCELLED"]
  /\ task' = [task EXCEPT ![TaskOf(s)].status = "CANCELLED"]
  /\ SlotGoes(s, "completeCancelled")
  /\ UNCHANGED <<project, job, queue, github, handlers, call, faults>>

\* BullMQ finishes the attempt, frees the slot and emits the event of this outcome.
Finishes(s, state, outcome) ==
  /\ queue' = [queue EXCEPT ![slot[s].run].state = state,
                            ![slot[s].run].attemptsMade = @ + 1]
  /\ handlers' = handlers \cup {<<slot[s].run, outcome>>}
  /\ slot' = [slot EXCEPT ![s] = FreeSlot]
  /\ UNCHANGED <<project, task, run, job, github, call, faults>>

Completes(s) ==
  \/ On(s, "complete") /\ Finishes(s, "completed", "succeeded")
  \/ On(s, "completeCancelled") /\ Finishes(s, "completed", "cancelled")

\* BullMQ retries a job as long as it has attempts left.
RetryState(r) == IF queue[r].attemptsMade + 1 < MaxAttempts THEN "delayed" ELSE "failed"

\* Mutant: the handler counts one attempt more than BullMQ makes.
ExhaustedOneLater(r) == queue[r].attemptsMade + 1 > MaxAttempts

\* The failed handler's own test; attemptsMade counts the attempt that just failed.
Exhausted(r) == queue[r].attemptsMade + 1 >= MaxAttempts

FailureOf(r) == IF Exhausted(r) THEN "exhausted" ELSE "retry"

Rejects(s) ==
  /\ On(s, "reject")
  /\ Finishes(s, RetryState(slot[s].run), FailureOf(slot[s].run))

\* Mutant: every failure is recorded as one that will be retried.
JobStatusNeverDead(outcome) ==
  CASE outcome = "succeeded" -> "SUCCEEDED"
    [] outcome = "cancelled" -> "CANCELLED"
    [] OTHER                 -> "RETRYING"

JobStatusOf(outcome) ==
  CASE outcome = "succeeded" -> "SUCCEEDED"
    [] outcome = "cancelled" -> "CANCELLED"
    [] outcome = "retry"     -> "RETRYING"
    [] outcome = "exhausted" -> "DEAD_LETTER"

(* The completed and failed handlers' writes, whatever the rows are by now. *)
Lands(r, outcome) ==
  /\ <<r, outcome>> \in handlers
  /\ handlers' = handlers \ {<<r, outcome>>}
  /\ job' = [job EXCEPT ![r].status = JobStatusOf(outcome)]
  /\ \/ /\ outcome = "retry"
        /\ task' = [task EXCEPT ![r[1]].status = "QUEUED"]
        /\ run' = [run EXCEPT ![r] = "QUEUED"]
     \/ /\ outcome = "exhausted"
        /\ task' = [task EXCEPT ![r[1]].status = "DEAD_LETTER"]
        /\ run' = [run EXCEPT ![r] = "FAILED"]
     \/ /\ outcome \in {"succeeded", "cancelled"}
        /\ UNCHANGED <<task, run>>
  /\ UNCHANGED <<project, queue, github, call, slot, faults>>

HandlerPending(r) == \E o \in Outcomes : <<r, o>> \in handlers

\* The retry delay is over.
Promotes(r) ==
  /\ queue[r].state = "delayed"
  /\ BackoffCoversHandler => ~HandlerPending(r)
  /\ queue' = [queue EXCEPT ![r].state = "waiting"]
  /\ UNCHANGED <<project, task, run, job, github, handlers, call, slot, faults>>

\* BullMQ's stalled check: the lock of an active job expired with its worker.
StallRecovers(r) ==
  /\ queue[r].state = "active"
  /\ ~Working(r)
  /\ queue' = [queue EXCEPT ![r].state = "waiting", ![r].stalls = @ + 1]
  /\ UNCHANGED <<project, task, run, job, github, handlers, call, slot, faults>>

\* A worker with a free slot fails a job that stalled too often, for good and without
\* its processor; the failed handler still decides by attemptsMade.
FailsStalled(s, r) ==
  /\ On(s, "idle")
  /\ queue[r].state = "waiting" /\ StalledOut(r)
  /\ queue' = [queue EXCEPT ![r].state = "failed", ![r].attemptsMade = @ + 1]
  /\ handlers' = handlers \cup {<<r, FailureOf(r)>>}
  /\ UNCHANGED <<project, task, run, job, github, call, slot, faults>>

-----------------------------------------------------------------------------
(* Faults, and people moving the project by hand.                          *)

\* One more fault; a losing one takes the only knowledge of a pending step with it.
Fails(losing) ==
  /\ faults.count < MaxFaults
  /\ faults' = [count |-> faults.count + 1, lost |-> faults.lost \/ losing]

\* The API process dies, or a Redis or database call of the handler fails.
CallDies(c) ==
  /\ call[c].pc \notin {"idle", "over", "confirmed"}
  /\ Fails(At(c, "enqueue"))
  /\ Ends(c)
  /\ UNCHANGED <<project, task, run, job, queue, github, handlers, slot>>

\* The worker process dies with every slot and every handler write still on its way.
WorkerCrashes ==
  /\ Fails(handlers # {})
  /\ slot' = [s \in Slots |-> FreeSlot]
  /\ handlers' = {}
  /\ UNCHANGED <<project, task, run, job, queue, github, call>>

\* CODEX_JOB_TIMEOUT_MS has passed: the attempt is aborted without a request to cancel.
TimesOut(s) ==
  /\ Armed(s)
  /\ Fails(FALSE)
  /\ slot' = [slot EXCEPT ![s].aborted = TRUE]
  /\ UNCHANGED <<project, task, run, job, queue, github, handlers, call>>

\* ProjectsService.transition, whose steps ProjectTransitions shows to be atomic moves.
PersonMoves ==
  /\ \E to \in PersonTargets : canTransitionProject(project, to) /\ project' = to
  /\ UNCHANGED <<task, run, job, queue, github, handlers, call, slot, faults>>

-----------------------------------------------------------------------------
StartStep(c) == StartReads(c) \/ StartClaims(c)
FollowUpStep(c) == FollowUpReads(c) \/ FollowUpCommits(c)
QueueingStep(c) == Enqueues(c) \/ Links(c) \/ ReadsProject(c) \/ WritesProject(c)
CancelStep(c) ==
  \/ CancelReads(c) \/ CancelFinds(c) \/ CancelRequests(c)
  \/ CancelInspects(c) \/ CancelRemoves(c) \/ CancelConfirms(c)

WorkStep(s) ==
  \/ Loads(s) \/ MarksRunning(s) \/ SlotReadsProject(s) \/ SlotWritesProject(s)
  \/ Executes(s) \/ MarksSucceeded(s) \/ RecordsQuality(s)
  \/ Catches(s) \/ MarksCancelled(s) \/ Completes(s) \/ Rejects(s)
DisturbedStep(s) == Throws(s) \/ CancellationPoll(s) \/ TimesOut(s)

Next ==
  \/ \E c \in Starts : StartStep(c) \/ QueueingStep(c)
  \/ \E c \in FollowUps : FollowUpStep(c) \/ QueueingStep(c)
  \/ \E c \in Cancels : CancelStep(c)
  \/ \E c \in Calls : CallDies(c)
  \/ \E s \in Slots : WorkStep(s) \/ DisturbedStep(s)
  \/ \E s \in Slots, r \in Runs : Takes(s, r) \/ FailsStalled(s, r)
  \/ \E r \in Runs, o \in Outcomes : Lands(r, o)
  \/ \E r \in Runs : Promotes(r) \/ StallRecovers(r)
  \/ WorkerCrashes
  \/ PersonMoves

Spec == Init /\ [][Next]_vars

(* A call that was made runs on, a free slot takes waiting work, an attempt  *)
(* ends (Codex is killed when its time is up), handlers land, delays pass.   *)
Fairness ==
  /\ \A c \in Calls : WF_vars(~At(c, "idle") /\ (StartStep(c) \/ FollowUpStep(c)
                                                  \/ QueueingStep(c) \/ CancelStep(c)))
  /\ \A s \in Slots : WF_vars(WorkStep(s))
  /\ \A s \in Slots : WF_vars(\E r \in Runs : Takes(s, r) \/ FailsStalled(s, r))
  /\ \A r \in Runs : WF_vars(\E o \in Outcomes : Lands(r, o))
  /\ \A r \in Runs : WF_vars(Promotes(r) \/ StallRecovers(r))

FairSpec == Spec /\ Fairness

-----------------------------------------------------------------------------
CallStates == {"idle", "claim", "commit", "enqueue", "link", "read", "write", "find", "request",
               "inspect", "remove", "confirm", "confirmed", "over"}
SlotStates == {"idle", "load", "prepare", "read", "write", "execute", "finish",
               "record", "complete", "catch", "cancel", "completeCancelled", "reject"}

TypeOK ==
  /\ project \in ProjectStatuses
  /\ task \in [Tasks -> [status : TaskStatuses, version : Versions, cancelRequested : BOOLEAN]]
  /\ run \in [Runs -> RunStatuses]
  /\ job \in [Runs -> [status : JobStatuses, external : BOOLEAN]]
  /\ queue \in [Runs -> [state : QueueStates, attemptsMade : 0 .. MaxAttempts, stalls : Nat]]
  /\ github \in [Runs -> Nat]
  /\ handlers \subseteq Runs \X Outcomes
  /\ call \in [Calls -> [pc : CallStates, task : Tasks, run : 0 .. MaxVersions,
                         job : 0 .. MaxVersions]]
  /\ slot \in [Slots -> [pc : SlotStates, run : Runs, goals : Seq(ProjectStatuses),
                         aborted : BOOLEAN]]
  /\ faults \in [count : 0 .. MaxFaults, lost : BOOLEAN]

(* Two people press "start development" on the same draft: the claim in      *)
(* TasksService.start lets one of them through, whoever reads first.         *)
StartedOnce ==
  [][\A c \in Starts :
       StartClaims(c) /\ call'[c].pc = "enqueue" => run[<<call[c].task, 1>>] = "none"]_vars

(* A task is executed by one slot at a time: starting it twice, retrying it  *)
(* and running it beside other tasks never puts two Codex processes to work  *)
(* on it, as long as nobody sends follow-ups (see NoInstructionWhileExecuting).*)
NoConcurrentAttempts ==
  \A s, u \in Slots : s # u => On(s, "idle") \/ On(u, "idle") \/ TaskOf(s) # TaskOf(u)

(* SUCCEEDED is never claimed without evidence: the run has its pull request,*)
(* and a task marked SUCCEEDED has one for some instruction version.         *)
SucceededHasPullRequest ==
  /\ \A r \in Runs : run[r] = "SUCCEEDED" => github[r] > 0
  /\ \A t \in Tasks : task[t].status = "SUCCEEDED" => \E v \in Versions : github[<<t, v>>] > 0

(* A cancel that confirms CANCELLED by removing the waiting job keeps its    *)
(* word: no slot ever executes that run afterwards.                          *)
ConfirmedCancelNeverRuns ==
  \A c \in Cancels : At(c, "confirmed") => ~Working(JobOf(c))

(* The Job row and BullMQ agree in the end: once no handler is on its way, a *)
(* job that BullMQ finished or gave up has the matching status, whatever     *)
(* retries, follow-ups, cancels and crashes did to it before, unless a crash *)
(* took a handler with it or BullMQ gave the job up for having stalled twice.*)
JobRecordSettles ==
  \A r \in Runs :
    ~faults.lost /\ ~HandlerPending(r) =>
      /\ queue[r].state = "failed" /\ ~StalledOut(r) => job[r].status = "DEAD_LETTER"
      /\ queue[r].state = "completed" => job[r].status \in {"SUCCEEDED", "CANCELLED"}

(* When nobody cancels, every task that was started ends for good in a       *)
(* status its owner can act on, through timeouts, stalls, retries and a      *)
(* worker that dies in the middle of it.  Three faults have no recovery in   *)
(* the code and are left out: a start or follow-up that dies before          *)
(* queue.add, a worker that dies with a handler's write on its way, and the  *)
(* second stall of a job: BullMQ fails it although it has attempts left, and *)
(* the failed handler, which counts attempts, records a retry that never     *)
(* comes.                                                                    *)
EveryTaskSettles ==
  \A t \in Tasks :
    <>[](\/ faults.lost \/ \E v \in Versions : StalledOut(<<t, v>>)
         \/ task[t].status \in {"DRAFT", "SUCCEEDED", "DEAD_LETTER"})

(* A requested cancellation is answered: the task leaves CANCEL_REQUESTED.   *)
CancelIsAnswered ==
  \A t \in Tasks : task[t].status = "CANCEL_REQUESTED" ~> task[t].status # "CANCEL_REQUESTED"

(* No new instruction version is created for a task that is being executed.  *)
NoInstructionWhileExecuting ==
  [][\A c \in FollowUps :
       FollowUpCommits(c) => \A s \in Slots : On(s, "idle") \/ TaskOf(s) # call[c].task]_vars
=============================================================================
