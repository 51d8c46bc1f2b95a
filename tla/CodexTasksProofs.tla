-------------------------- MODULE CodexTasksProofs --------------------------
(***************************************************************************)
(* What the life of the development tasks promises for any number of       *)
(* tasks, calls, worker slots, instruction versions, attempts and faults.  *)
(*                                                                         *)
(* Everything rests on each run having one owner at a time.  A run is      *)
(* created once, in the order of the versions (ClaimedInOrder); one call   *)
(* puts it into the queue, once (EnqueuedOnce, CallOk); and while a slot   *)
(* works on it BullMQ has it active, so no other slot can take it (SlotOk, *)
(* OneSlotEach).  What a row may say then follows from who may write it.   *)
(***************************************************************************)
EXTENDS CodexTasks, MaximumLemmas, SequenceTheorems, TLAPS

TaskRow == [status : TaskStatuses, version : Versions, cancelRequested : BOOLEAN]
JobRow == [status : JobStatuses, external : BOOLEAN]
QueueRow == [state : QueueStates, attemptsMade : 0 .. MaxAttempts, stalls : Nat]
CallRow == [pc : CallStates, task : Tasks, run : 0 .. MaxVersions, job : 0 .. MaxVersions]
SlotRow == [pc : SlotStates, run : Runs, goals : Seq(ProjectStatuses), aborted : BOOLEAN]

\* Versions are created one after the other, and none for a draft.
ClaimedInOrder ==
  \A t \in Tasks :
    /\ task[t].status = "DRAFT" => task[t].version = 1
    /\ \A v \in Versions : run[<<t, v>>] # "none" <=> v <= task[t].version /\ task[t].status # "DRAFT"

\* BullMQ knows only runs that were created, and retries those with attempts left.
QueueTraced ==
  \A r \in Runs :
    /\ queue[r].state # "none" => run[r] # "none"
    /\ queue[r].state = "none" => queue[r].attemptsMade = 0 /\ ~job[r].external
    /\ queue[r].state \in {"waiting", "active", "delayed"} => queue[r].attemptsMade < MaxAttempts

\* A call's own run and job: created, not yet in the queue before it puts it
\* there, and taken from the queue before a cancel is confirmed.
CallOk(c) ==
  /\ call[c].pc \in {"commit", "find", "request", "inspect", "remove", "confirm"} =>
       task[call[c].task].status # "DRAFT"
  /\ call[c].pc \in {"enqueue", "link"} => call[c].run # 0
  /\ call[c].pc \in {"enqueue", "link", "request", "inspect", "remove", "confirm"} /\ call[c].run # 0 =>
       run[RunOf(c)] # "none"
  /\ call[c].pc = "enqueue" => queue[RunOf(c)].state = "none"
  /\ call[c].pc = "link" => queue[RunOf(c)].state # "none"
  /\ call[c].pc \in {"inspect", "remove", "confirm", "confirmed"} => call[c].job # 0
  /\ call[c].pc \in {"request", "inspect", "remove", "confirm", "confirmed"} /\ call[c].job # 0 =>
       queue[JobOf(c)].state # "none"
  /\ call[c].pc \in {"confirm", "confirmed"} => queue[JobOf(c)].state = "removed"

EnqueuedOnce ==
  \A c, d \in Calls : At(c, "enqueue") /\ At(d, "enqueue") /\ RunOf(c) = RunOf(d) => c = d

\* A slot works on a run that BullMQ has active, has a goal while it moves the
\* project, and a pull request when Codex is done.
SlotOk(s) ==
  /\ ~On(s, "idle") => queue[slot[s].run].state = "active"
  /\ slot[s].pc \in {"read", "write"} => slot[s].goals # <<>>
  /\ On(s, "finish") => github[slot[s].run] > 0

OneSlotEach ==
  \A s, u \in Slots : ~On(s, "idle") /\ ~On(u, "idle") /\ slot[s].run = slot[u].run => s = u

HandlersTraced == \A r \in Runs : HandlerPending(r) => queue[r].state # "none"

TaskInv ==
  /\ TypeOK
  /\ ClaimedInOrder
  /\ QueueTraced
  /\ \A c \in Calls : CallOk(c)
  /\ EnqueuedOnce
  /\ \A s \in Slots : SlotOk(s)
  /\ OneSlotEach
  /\ HandlersTraced
  /\ SucceededHasPullRequest

-----------------------------------------------------------------------------
(* The newest of some versions is one of them.                             *)
LEMMA NewestIsOne ==
  ASSUME NEW found \in SUBSET Versions
  PROVE  Newest(found) \in 0 .. MaxVersions /\ (Newest(found) # 0 => Newest(found) \in found)
<1> USE BoundsAssumption DEF Versions
<1>1. CASE found = {}
  BY <1>1 DEF Newest
<1>2. CASE found # {}
  <2>1. Max(found) \in found
    <3>1. MaxVersions \in Nat /\ found \in SUBSET Nat /\ \A v \in found : v <= MaxVersions
      OBVIOUS
    <3> QED
      BY <1>2, <3>1, MaxIsGreatest
  <2>2. PICK w \in found : Newest(found) = w
    BY <1>2, <2>1 DEF Newest
  <2>3. w \in 0 .. MaxVersions
    OBVIOUS
  <2> QED
    BY <2>2, <2>3
<1> QED
  BY <1>1, <1>2

(* The rows a call and a slot start from.                                  *)
LEMMA FirstRows ==
  /\ NoCall \in CallRow /\ NoCall.pc = "idle"
  /\ FreeSlot \in SlotRow /\ FreeSlot.pc = "idle"
<1>1. NoCall \in CallRow
  <2>1. (CHOOSE t \in Tasks : TRUE) \in Tasks
    BY BoundsAssumption
  <2> QED
    BY <2>1, BoundsAssumption DEF NoCall, CallRow, CallStates
<1>2. FreeSlot \in SlotRow
  <2>1. Runs # {}
    <3>1. PICK t \in Tasks : TRUE
      BY BoundsAssumption
    <3>2. <<t, 1>> \in Runs
      BY BoundsAssumption DEF Runs, Versions
    <3> QED
      BY <3>2
  <2>2. (CHOOSE r \in Runs : TRUE) \in Runs
    BY <2>1
  <2> QED
    BY <2>2 DEF FreeSlot, SlotRow, SlotStates
<1> QED
  BY <1>1, <1>2 DEF NoCall, FreeSlot

(* Every status a service asks for is a project status. *)
LEMMA Statuses ==
  /\ {"REPO_READY", "DEVELOPMENT_QUEUED", "DEVELOPING", "CODE_REVIEW", "QA_TESTING",
      "SECURITY_REVIEW", "RELEASE_CANDIDATE"} \subseteq ProjectStatuses
  BY DEF ProjectStatuses, allowedProjectTransitions

(* The prepared DRAFT the calls start from satisfies the invariant. *)
LEMMA InitTaskInv == Init => TaskInv
<1> SUFFICES ASSUME Init PROVE TaskInv
  OBVIOUS
<1> USE BoundsAssumption DEF Init
<1>1. TypeOK
  <2>1. /\ task \in [Tasks -> TaskRow] /\ run \in [Runs -> RunStatuses] /\ job \in [Runs -> JobRow]
        /\ queue \in [Runs -> QueueRow] /\ github \in [Runs -> Nat]
    BY DEF TaskRow, TaskStatuses, Versions, RunStatuses, JobRow, JobStatuses, QueueRow, QueueStates
  <2>2. call \in [Calls -> CallRow] /\ slot \in [Slots -> SlotRow]
    BY FirstRows
  <2> QED
    BY <2>1, <2>2, Statuses DEF TypeOK, TaskRow, JobRow, QueueRow, CallRow, SlotRow
<1>2. ClaimedInOrder
  BY DEF ClaimedInOrder, Runs
<1>3. QueueTraced
  BY DEF QueueTraced
<1>4. \A c \in Calls : call[c].pc = "idle"
  BY FirstRows
<1>5. \A s \in Slots : slot[s].pc = "idle"
  BY FirstRows
<1>6. (\A c \in Calls : CallOk(c)) /\ EnqueuedOnce
  BY <1>4 DEF CallOk, EnqueuedOnce, At
<1>7. (\A s \in Slots : SlotOk(s)) /\ OneSlotEach
  BY <1>5 DEF SlotOk, OneSlotEach, On
<1>8. HandlersTraced /\ SucceededHasPullRequest
  BY DEF HandlersTraced, HandlerPending, SucceededHasPullRequest
<1> QED
  BY <1>1, <1>2, <1>3, <1>6, <1>7, <1>8 DEF TaskInv

-----------------------------------------------------------------------------
(* Rows are known to be of their types.                                    *)
LEMMA Typed ==
  ASSUME TypeOK
  PROVE  /\ task \in [Tasks -> TaskRow] /\ run \in [Runs -> RunStatuses] /\ job \in [Runs -> JobRow]
         /\ queue \in [Runs -> QueueRow] /\ github \in [Runs -> Nat]
         /\ call \in [Calls -> CallRow] /\ slot \in [Slots -> SlotRow]
  BY DEF TypeOK, TaskRow, JobRow, QueueRow, CallRow, SlotRow

\* What no step takes back: a task that is no draft, a run that was created,
\* a job that was queued, and one that was removed.
Onward ==
  /\ \A t \in Tasks : task[t].status # "DRAFT" => task'[t].status # "DRAFT"
  /\ \A r \in Runs : /\ run[r] # "none" => run'[r] # "none"
                     /\ queue[r].state # "none" => queue'[r].state # "none"
                     /\ queue[r].state = "removed" => queue'[r].state = "removed"

(* A call is as sound as before while it does not move and its run is not  *)
(* queued by another.                                                      *)
LEMMA CallWaits ==
  ASSUME TypeOK, NEW d \in Calls, CallOk(d), call'[d] = call[d], Onward,
         At(d, "enqueue") => queue'[RunOf(d)].state = queue[RunOf(d)].state
  PROVE  CallOk(d)'
<1>1. call[d] \in CallRow
  BY Typed
<1>2. /\ call[d].task \in Tasks /\ call[d].pc \in CallStates
      /\ call[d].run # 0 => RunOf(d) \in Runs
      /\ call[d].job # 0 => JobOf(d) \in Runs
  BY <1>1, BoundsAssumption DEF CallRow, RunOf, JobOf, Runs, Versions
<1>3. RunOf(d)' = RunOf(d) /\ JobOf(d)' = JobOf(d)
  BY DEF RunOf, JobOf
<1> QED
  BY <1>2, <1>3 DEF CallOk, Onward, At

(* A step of a call that touches nothing else.                             *)
LEMMA CallStep ==
  ASSUME TaskInv, NEW c \in Calls, NEW row \in CallRow, row.pc # "enqueue",
         call' = [call EXCEPT ![c] = row], CallOk(c)',
         UNCHANGED <<task, run, job, queue, github, handlers, slot>>,
         project' \in ProjectStatuses, faults' \in [count : 0 .. MaxFaults, lost : BOOLEAN]
  PROVE  TaskInv'
<1> USE DEF TaskInv
<1>1. call' \in [Calls -> CallRow]
  BY Typed
<1>2. TypeOK'
  BY <1>1 DEF TypeOK, CallRow
<1>3. \A d \in Calls : d # c => call'[d] = call[d]
  BY Typed
<1>4. \A d \in Calls : CallOk(d)'
  BY <1>3, CallWaits DEF Onward
<1>5. EnqueuedOnce'
  BY <1>3, Typed DEF EnqueuedOnce, At, RunOf
<1>6. ClaimedInOrder' /\ QueueTraced' /\ HandlersTraced' /\ SucceededHasPullRequest'
  BY DEF ClaimedInOrder, QueueTraced, HandlersTraced, HandlerPending, SucceededHasPullRequest
<1>7. (\A s \in Slots : SlotOk(s)') /\ OneSlotEach'
  BY DEF SlotOk, OneSlotEach, On
<1> QED
  BY <1>2, <1>4, <1>5, <1>6, <1>7

(* A step of a slot that touches no row and stays with its run.            *)
LEMMA SlotStep ==
  ASSUME TaskInv, NEW s \in Slots, NEW row \in SlotRow, ~On(s, "idle"), row.run = slot[s].run,
         row.pc \in {"read", "write"} => row.goals # <<>>, row.pc = "finish" => On(s, "finish"),
         slot' = [slot EXCEPT ![s] = row],
         UNCHANGED <<task, run, job, queue, github, handlers, call>>,
         project' \in ProjectStatuses, faults' \in [count : 0 .. MaxFaults, lost : BOOLEAN]
  PROVE  TaskInv'
<1> USE DEF TaskInv
<1>1. slot' \in [Slots -> SlotRow]
  BY Typed
<1>2. TypeOK'
  BY <1>1 DEF TypeOK, SlotRow
<1>3. slot'[s] = row /\ \A u \in Slots : u # s => slot'[u] = slot[u]
  BY Typed
<1>4. \A u \in Slots : SlotOk(u)'
  BY <1>3 DEF SlotOk, On
<1>5. OneSlotEach'
  BY <1>3 DEF OneSlotEach, On
<1>6. ClaimedInOrder' /\ QueueTraced' /\ HandlersTraced' /\ SucceededHasPullRequest'
  BY DEF ClaimedInOrder, QueueTraced, HandlersTraced, HandlerPending, SucceededHasPullRequest
<1>7. (\A c \in Calls : CallOk(c)') /\ EnqueuedOnce'
  BY DEF CallOk, EnqueuedOnce, At, RunOf, JobOf
<1> QED
  BY <1>2, <1>4, <1>5, <1>6, <1>7

(* The statuses of a task and of its run change, and with them one slot or *)
(* one handler.                                                            *)
LEMMA RowsStep ==
  ASSUME TaskInv, NEW r \in Runs, run[r] # "none", NEW status \in TaskStatuses, status # "DRAFT",
         NEW runStatus \in RunStatuses, runStatus # "none", NEW jobs \in [Runs -> JobRow],
         task' = [task EXCEPT ![r[1]].status = status], run' = [run EXCEPT ![r] = runStatus],
         \A q \in Runs : jobs[q].external = job[q].external,
         job' = jobs, UNCHANGED <<project, queue, github, call, faults>>,
         handlers' \subseteq handlers,
         "SUCCEEDED" \in {status, runStatus} => github[r] > 0,
         slot' \in [Slots -> SlotRow], \A s \in Slots : SlotOk(s)', OneSlotEach'
  PROVE  TaskInv'
<1> USE DEF TaskInv
<1>0. r[1] \in Tasks /\ r[2] \in Versions /\ r = <<r[1], r[2]>>
  BY DEF Runs
<1>1. task' \in [Tasks -> TaskRow] /\ run' \in [Runs -> RunStatuses]
  BY <1>0, Typed DEF TaskRow
<1>2. TypeOK'
  BY <1>1 DEF TypeOK, TaskRow, JobRow, SlotRow
<1>3. task[r[1]].status # "DRAFT"
  BY <1>0 DEF ClaimedInOrder
<1>4. \A t \in Tasks : /\ task'[t].version = task[t].version
                       /\ task'[t].status = "DRAFT" <=> task[t].status = "DRAFT"
  BY <1>0, <1>3, Typed DEF TaskRow
<1>5. \A q \in Runs : run'[q] = "none" <=> run[q] = "none"
  BY Typed
<1>6. ClaimedInOrder'
  BY <1>4, <1>5 DEF ClaimedInOrder, Runs
<1>7. QueueTraced' /\ HandlersTraced'
  BY <1>5 DEF QueueTraced, HandlersTraced, HandlerPending
<1>8. Onward
  BY <1>4, <1>5 DEF Onward
<1>9. (\A c \in Calls : CallOk(c)') /\ EnqueuedOnce'
  BY <1>8, CallWaits DEF EnqueuedOnce, At, RunOf
<1>10. SucceededHasPullRequest'
  <2>1. \A q \in Runs : run'[q] = "SUCCEEDED" => github'[q] > 0
    BY Typed DEF SucceededHasPullRequest
  <2>2. ASSUME NEW t \in Tasks, task'[t].status = "SUCCEEDED" PROVE \E v \in Versions : github'[<<t, v>>] > 0
    <3>1. CASE t = r[1]
      BY <1>0, <2>2, <3>1, Typed DEF TaskRow
    <3>2. CASE t # r[1]
      BY <1>0, <2>2, <3>2, Typed DEF SucceededHasPullRequest
    <3> QED
      BY <3>1, <3>2
  <2> QED
    BY <2>1, <2>2 DEF SucceededHasPullRequest
<1> QED
  BY <1>2, <1>6, <1>7, <1>9, <1>10

(* BullMQ's state of one job changes.                                      *)
LEMMA QueueStep ==
  ASSUME TaskInv, NEW r \in Runs, NEW row \in QueueRow, row.state # "none", run[r] # "none",
         row.state \in {"waiting", "active", "delayed"} => row.attemptsMade < MaxAttempts,
         queue[r].state = "removed" => row.state = "removed",
         queue' = [queue EXCEPT ![r] = row],
         NEW jobs \in [Runs -> JobRow], job' = jobs,
         \A q \in Runs : q # r => jobs[q].external = job[q].external,
         UNCHANGED <<project, task, run, github, faults>>,
         handlers' \subseteq Runs \X Outcomes,
         \A q \in Runs : HandlerPending(q)' => HandlerPending(q) \/ q = r,
         \A c \in Calls : \/ CallOk(c)'
                          \/ call'[c] = call[c] /\ (At(c, "enqueue") => RunOf(c) # r),
         call' \in [Calls -> CallRow], EnqueuedOnce',
         slot' \in [Slots -> SlotRow], \A s \in Slots : SlotOk(s)', OneSlotEach'
  PROVE  TaskInv'
<1> USE DEF TaskInv
<1>1. queue' \in [Runs -> QueueRow] /\ queue'[r] = row /\ \A q \in Runs : q # r => queue'[q] = queue[q]
  BY Typed
<1>2. TypeOK'
  BY <1>1 DEF TypeOK, QueueRow, JobRow, CallRow, SlotRow
<1>3. QueueTraced'
  BY <1>1 DEF QueueTraced
<1>4. HandlersTraced' /\ ClaimedInOrder' /\ SucceededHasPullRequest'
  BY <1>1 DEF HandlersTraced, ClaimedInOrder, SucceededHasPullRequest
<1>5. Onward
  BY <1>1 DEF Onward
<1>6. ASSUME NEW c \in Calls PROVE CallOk(c)'
  <2>1. CASE call'[c] = call[c] /\ (At(c, "enqueue") => RunOf(c) # r)
    <3>1. At(c, "enqueue") => RunOf(c) \in Runs
      <4> SUFFICES ASSUME At(c, "enqueue") PROVE RunOf(c) \in Runs
        OBVIOUS
      <4>1. call[c] \in CallRow /\ call[c].run # 0
        BY Typed DEF CallOk, At
      <4>2. call[c].task \in Tasks /\ call[c].run \in Versions
        BY <4>1, BoundsAssumption DEF CallRow, Versions
      <4> QED
        BY <4>2 DEF RunOf, Runs
    <3>2. At(c, "enqueue") => queue'[RunOf(c)].state = queue[RunOf(c)].state
      BY <1>1, <2>1, <3>1
    <3> QED
      BY <1>5, <2>1, <3>2, CallWaits
  <2> QED
    BY <2>1
<1> QED
  BY <1>2, <1>3, <1>4, <1>6

-----------------------------------------------------------------------------
(* A call that moves on, or ends, and keeps what it knows.                 *)
LEMMA CallMoves ==
  ASSUME TypeOK, NEW c \in Calls
  PROVE  /\ call[c] \in CallRow
         /\ \A pc \in CallStates : CallGoes(c, pc) =>
              /\ call' \in [Calls -> CallRow] /\ call'[c] = [call[c] EXCEPT !.pc = pc]
              /\ call' = [call EXCEPT ![c] = [call[c] EXCEPT !.pc = pc]]
              /\ [call[c] EXCEPT !.pc = pc] \in CallRow
              /\ call'[c].pc = pc /\ RunOf(c)' = RunOf(c) /\ JobOf(c)' = JobOf(c)
              /\ call'[c].run = call[c].run /\ call'[c].job = call[c].job
              /\ call'[c].task = call[c].task
              /\ \A d \in Calls : d # c => call'[d] = call[d]
         /\ Ends(c) =>
              /\ call' \in [Calls -> CallRow] /\ call'[c].pc = "over" /\ CallOk(c)'
              /\ call' = [call EXCEPT ![c] = [NoCall EXCEPT !.pc = "over"]]
              /\ [NoCall EXCEPT !.pc = "over"] \in CallRow
              /\ \A d \in Calls : d # c => call'[d] = call[d]
<1>1. call \in [Calls -> CallRow] /\ call[c] \in CallRow
  BY Typed
<1>2. ASSUME NEW pc \in CallStates, CallGoes(c, pc)
      PROVE  /\ call' = [call EXCEPT ![c] = [call[c] EXCEPT !.pc = pc]]
             /\ [call[c] EXCEPT !.pc = pc] \in CallRow
             /\ call'[c] = [call[c] EXCEPT !.pc = pc]
             /\ RunOf(c)' = RunOf(c) /\ JobOf(c)' = JobOf(c) /\ call'[c].run = call[c].run
             /\ call'[c].job = call[c].job /\ call'[c].task = call[c].task /\ call'[c].pc = pc
  BY <1>1, <1>2 DEF CallGoes, CallRow, RunOf, JobOf
<1>3. ASSUME Ends(c)
      PROVE  /\ call' = [call EXCEPT ![c] = [NoCall EXCEPT !.pc = "over"]]
             /\ [NoCall EXCEPT !.pc = "over"] \in CallRow /\ call'[c].pc = "over"
  BY <1>1, <1>3, FirstRows DEF Ends, CallRow, CallStates
<1>4. call'[c].pc = "over" => CallOk(c)'
  BY DEF CallOk
<1> QED
  BY <1>1, <1>2, <1>3, <1>4

(* A call that ends, whatever it answers, frees nothing another call holds. *)
LEMMA EndsStep ==
  ASSUME TaskInv, NEW c \in Calls, Ends(c),
         UNCHANGED <<task, run, job, queue, github, handlers, slot>>,
         project' \in ProjectStatuses, faults' \in [count : 0 .. MaxFaults, lost : BOOLEAN]
  PROVE  TaskInv'
<1> DEFINE row == [NoCall EXCEPT !.pc = "over"]
<1>1. /\ row \in CallRow /\ call' = [call EXCEPT ![c] = row] /\ CallOk(c)'
  BY CallMoves DEF TaskInv
<1>2. row.pc # "enqueue"
  BY FirstRows DEF CallRow
<1> HIDE DEF row
<1> QED
  BY <1>1, <1>2, CallStep

(* A call goes on, and what it is allowed to know there is so.             *)
LEMMA GoesStep ==
  ASSUME TaskInv, NEW c \in Calls, NEW pc \in CallStates, pc # "enqueue", CallGoes(c, pc), CallOk(c)',
         UNCHANGED <<project, task, run, job, queue, github, handlers, slot, faults>>
  PROVE  TaskInv'
<1> DEFINE row == [call[c] EXCEPT !.pc = pc]
<1>1. row \in CallRow /\ call' = [call EXCEPT ![c] = row]
  BY CallMoves DEF TaskInv
<1>2. row.pc # "enqueue"
  BY CallMoves DEF CallRow, TaskInv
<1>3. project' \in ProjectStatuses /\ faults' \in [count : 0 .. MaxFaults, lost : BOOLEAN]
  BY DEF TaskInv, TypeOK
<1> HIDE DEF row
<1> QED
  BY <1>1, <1>2, <1>3, CallStep

(* The awaits of a call that only read, or move the project, or end it. *)
LEMMA ReadingSteps ==
  ASSUME TaskInv, NEW c \in Calls,
         StartReads(c) \/ FollowUpReads(c) \/ ReadsProject(c) \/ WritesProject(c) \/ CancelReads(c)
           \/ CancelInspects(c) \/ CallDies(c)
  PROVE  TaskInv'
<1>0. TypeOK /\ CallOk(c) /\ call[c] \in CallRow
  BY CallMoves DEF TaskInv
<1>1. project \in ProjectStatuses /\ faults \in [count : 0 .. MaxFaults, lost : BOOLEAN]
  BY <1>0 DEF TypeOK
<1>2. ASSUME Ends(c), UNCHANGED <<project, task, run, job, queue, github, handlers, slot, faults>>
      PROVE  TaskInv'
  BY <1>1, <1>2, EndsStep
<1>3. ASSUME NEW t \in Tasks, NEW pc \in {"claim", "commit", "find"},
             pc \in {"commit", "find"} => task[t].status # "DRAFT",
             call' = [call EXCEPT ![c].task = t, ![c].pc = pc],
             UNCHANGED <<project, task, run, job, queue, github, handlers, slot, faults>>
      PROVE  TaskInv'
  <2> DEFINE row == [call[c] EXCEPT !.task = t, !.pc = pc]
  <2>1. /\ row \in CallRow /\ row.pc = pc /\ row.task = t /\ call' = [call EXCEPT ![c] = row]
    BY <1>0, <1>3 DEF CallRow, CallStates
  <2> HIDE DEF row
  <2>2. call'[c] = row
    BY <1>0, <2>1, Typed
  <2>3. CallOk(c)'
    BY <1>3, <2>1, <2>2 DEF CallOk
  <2> QED
    BY <1>1, <1>3, <2>1, <2>3, CallStep
<1>4. CASE StartReads(c)
  BY <1>2, <1>3, <1>4 DEF StartReads
<1>5. CASE FollowUpReads(c)
  BY <1>2, <1>3, <1>5 DEF FollowUpReads
<1>6. CASE CancelReads(c)
  BY <1>2, <1>3, <1>6 DEF CancelReads
<1>7. CASE ReadsProject(c)
  <2>1. CASE CallGoes(c, "write")
    <3>1. call'[c].pc = "write"
      BY <1>0, <2>1, CallMoves DEF CallStates
    <3>2. CallOk(c)'
      BY <3>1 DEF CallOk
    <3> QED
      BY <1>7, <2>1, <3>2, GoesStep DEF ReadsProject, CallStates
  <2> QED
    BY <1>2, <1>7, <2>1 DEF ReadsProject
<1>8. CASE WritesProject(c)
  BY <1>1, <1>8, EndsStep, Statuses DEF WritesProject
<1>9. CASE CancelInspects(c)
  <2>1. CASE CallGoes(c, "remove")
    <3>1. At(c, "inspect")
      BY <1>9 DEF CancelInspects
    <3>2. UNCHANGED <<task, run, queue>>
      BY <1>9 DEF CancelInspects
    <3>3. CallOk(c)'
      BY <1>0, <2>1, <3>1, <3>2, CallMoves DEF CallOk, At, CallStates
    <3> QED
      BY <1>9, <2>1, <3>3, GoesStep DEF CancelInspects, CallStates
  <2> QED
    BY <1>2, <1>9, <2>1 DEF CancelInspects
<1>10. CASE CallDies(c)
  <2>1. faults' \in [count : 0 .. MaxFaults, lost : BOOLEAN]
    <3>1. faults.count + 1 \in 0 .. MaxFaults
      BY <1>1, <1>10, BoundsAssumption DEF CallDies, Fails
    <3> QED
      BY <1>1, <1>10, <3>1 DEF CallDies, Fails
  <2> QED
    BY <1>1, <1>10, <2>1, EndsStep DEF CallDies
<1> QED
  BY <1>4, <1>5, <1>6, <1>7, <1>8, <1>9, <1>10

(* cancel finds an open run and an open job that was queued.               *)
LEMMA FindingStep ==
  ASSUME TaskInv, NEW c \in Calls, CancelFinds(c)
  PROVE  TaskInv'
<1> DEFINE t == call[c].task
           open == {v \in Versions : run[<<t, v>>] \in {"QUEUED", "RUNNING"}}
           jobs == {v \in Versions : job[<<t, v>>].status \in {"QUEUED", "RUNNING", "RETRYING"}}
           found == IF Newest(jobs) # 0 /\ job[<<t, Newest(jobs)>>].external THEN Newest(jobs) ELSE 0
           row == [call[c] EXCEPT !.pc = "request", !.run = Newest(open), !.job = found]
<1>0. TypeOK /\ CallOk(c) /\ call[c] \in CallRow
  BY CallMoves DEF TaskInv
<1>1. t \in Tasks
  BY <1>0 DEF CallRow
<1>2. Newest(open) \in 0 .. MaxVersions /\ (Newest(open) # 0 => run[<<t, Newest(open)>>] # "none")
  <2>1. open \in SUBSET Versions
    OBVIOUS
  <2>2. Newest(open) # 0 => Newest(open) \in open
    BY <2>1, NewestIsOne
  <2> QED
    BY <2>1, <2>2, NewestIsOne
<1>3. found \in 0 .. MaxVersions /\ (found # 0 => queue[<<t, found>>].state # "none")
  <2>1. jobs \in SUBSET Versions
    OBVIOUS
  <2>2. Newest(jobs) \in 0 .. MaxVersions /\ (Newest(jobs) # 0 => Newest(jobs) \in Versions)
    BY <2>1, NewestIsOne
  <2>3. found \in 0 .. MaxVersions /\ (found # 0 => found \in Versions /\ job[<<t, found>>].external)
    <3> DEFINE n == Newest(jobs)
    <3>1. n \in 0 .. MaxVersions /\ (n # 0 => n \in Versions) /\ 0 \in 0 .. MaxVersions
      BY <2>2, BoundsAssumption
    <3>2. found = IF n # 0 /\ job[<<t, n>>].external THEN n ELSE 0
      OBVIOUS
    <3> HIDE DEF n, found
    <3> QED
      BY <3>1, <3>2
  <2> HIDE DEF found
  <2> QED
    BY <1>1, <2>3 DEF TaskInv, QueueTraced, Runs
<1> HIDE DEF open, found
<1>4. /\ row \in CallRow /\ row.pc = "request" /\ row.task = t /\ row.run = Newest(open) /\ row.job = found
  BY <1>0, <1>2, <1>3 DEF CallRow, CallStates
<1>5. call' = [call EXCEPT ![c] = row]
  BY <1>0 DEF CancelFinds, CallRow, open, found
<1> HIDE DEF row
<1>6. call'[c] = row
  BY <1>0, <1>5, Typed
<1>7. task[t].status # "DRAFT"
  BY <1>0 DEF CancelFinds, At, CallOk
<1>8. CallOk(c)'
  BY <1>2, <1>3, <1>4, <1>6, <1>7 DEF CallOk, RunOf, JobOf, CancelFinds
<1>9. project' \in ProjectStatuses /\ faults' \in [count : 0 .. MaxFaults, lost : BOOLEAN]
  BY <1>0 DEF TypeOK, CancelFinds
<1> QED
  BY <1>4, <1>5, <1>8, <1>9, CallStep DEF CancelFinds

(* What a cancel writes: a status of its task, of its run if it has one,   *)
(* and of its job.                                                         *)
LEMMA CancelWrites ==
  ASSUME TaskInv, NEW c \in Calls, NEW row \in TaskRow,
         call[c].pc \in {"request", "confirm"},
         task' = [task EXCEPT ![call[c].task] = row],
         row.status \in {"CANCEL_REQUESTED", "CANCELLED"},
         row.version = task[call[c].task].version,
         RunBecomes(c, "CANCELLING") \/ RunBecomes(c, "CANCELLED"), job' \in [Runs -> JobRow],
         \A q \in Runs : job'[q].external = job[q].external,
         call' \in [Calls -> CallRow], \A d \in Calls : d # c => call'[d] = call[d], CallOk(c)',
         call'[c].pc # "enqueue",
         UNCHANGED <<project, queue, github, handlers, slot, faults>>
  PROVE  TaskInv'
<1> USE DEF TaskInv
<1> DEFINE t == call[c].task
<1>1. t \in Tasks /\ task[t].status # "DRAFT" /\ (call[c].run # 0 => RunOf(c) \in Runs /\ run[RunOf(c)] # "none")
  <2>1. call[c] \in CallRow /\ CallOk(c)
    BY CallMoves
  <2>2. call[c].task \in Tasks /\ (call[c].run # 0 => call[c].run \in Versions)
    BY <2>1, BoundsAssumption DEF CallRow, Versions
  <2> QED
    BY <2>1, <2>2 DEF CallOk, RunOf, Runs
<1>2. /\ task' \in [Tasks -> TaskRow]
      /\ \A u \in Tasks : /\ task'[u].version = task[u].version
                          /\ task'[u].status = "DRAFT" <=> task[u].status = "DRAFT"
                          /\ task'[u].status = "SUCCEEDED" => task[u].status = "SUCCEEDED"
  BY <1>1, Typed
<1>3. /\ run' \in [Runs -> RunStatuses]
      /\ \A q \in Runs : /\ run'[q] = "none" <=> run[q] = "none"
                         /\ run'[q] = "SUCCEEDED" => run[q] = "SUCCEEDED"
  <2>1. CASE call[c].run = 0
    BY <2>1, Typed DEF RunBecomes
  <2>2. CASE call[c].run # 0
    BY <1>1, <2>2, Typed DEF RunBecomes, RunStatuses
  <2> QED
    BY <2>1, <2>2
<1>4. TypeOK'
  BY <1>2, <1>3 DEF TypeOK, TaskRow, JobRow, CallRow
<1>5. ClaimedInOrder'
  BY <1>2, <1>3 DEF ClaimedInOrder, Runs
<1>6. QueueTraced' /\ HandlersTraced'
  BY <1>3 DEF QueueTraced, HandlersTraced, HandlerPending
<1>7. Onward
  BY <1>2, <1>3 DEF Onward
<1>8. \A d \in Calls : CallOk(d)'
  BY <1>7, CallWaits
<1>9. EnqueuedOnce'
  BY DEF EnqueuedOnce, At, RunOf
<1>10. (\A s \in Slots : SlotOk(s)') /\ OneSlotEach'
  BY DEF SlotOk, OneSlotEach, On
<1>11. SucceededHasPullRequest'
  BY <1>2, <1>3 DEF SucceededHasPullRequest
<1> QED
  BY <1>4, <1>5, <1>6, <1>8, <1>9, <1>10, <1>11

(* CANCEL_REQUESTED is written over whatever the task became meanwhile, which
   takes no success for granted. *)
LEMMA CancelRequestsStep ==
  ASSUME TaskInv, NEW c \in Calls, CancelRequests(c)
  PROVE  TaskInv'
<1> DEFINE t == call[c].task
           row == [task[t] EXCEPT !.status = "CANCEL_REQUESTED", !.cancelRequested = TRUE]
<1>0. TypeOK /\ CallOk(c) /\ call[c] \in CallRow /\ call[c].pc = "request"
  BY CallMoves DEF TaskInv, CancelRequests, At
<1>1. t \in Tasks /\ task[t] \in TaskRow
  BY <1>0, Typed DEF CallRow
<1>2. row \in TaskRow /\ row.status = "CANCEL_REQUESTED" /\ row.version = task[t].version
  BY <1>1 DEF TaskRow, TaskStatuses
<1>3. task' = [task EXCEPT ![t] = row]
  BY <1>0, <1>1, Typed DEF CancelRequests
<1>4. RunBecomes(c, "CANCELLING") /\ UNCHANGED <<project, job, queue, github, handlers, slot, faults>>
  BY DEF CancelRequests
<1>5. /\ call' \in [Calls -> CallRow] /\ call'[c].pc # "enqueue" /\ CallOk(c)'
      /\ \A d \in Calls : d # c => call'[d] = call[d]
  <2>1. CASE call[c].job = 0
    BY <1>0, <2>1, CallMoves DEF CancelRequests
  <2>2. CASE call[c].job # 0
    <3>1. CallGoes(c, "inspect")
      BY <2>2 DEF CancelRequests
    <3>2. /\ call' \in [Calls -> CallRow] /\ call'[c].pc = "inspect" /\ RunOf(c)' = RunOf(c)
          /\ JobOf(c)' = JobOf(c) /\ call'[c].job = call[c].job /\ call'[c].run = call[c].run
          /\ call'[c].task = t /\ \A d \in Calls : d # c => call'[d] = call[d]
      BY <1>0, <3>1, CallMoves DEF CallStates
    <3>3. task'[t].status # "DRAFT" /\ (call[c].run # 0 => run'[RunOf(c)] # "none")
      <4>1. task'[t].status # "DRAFT"
        BY <1>1, <1>2, <1>3, <1>0, Typed
      <4>2. call[c].run # 0 => RunOf(c) \in Runs
        BY <1>0, BoundsAssumption DEF CallRow, RunOf, Runs, Versions
      <4> QED
        BY <1>0, <1>4, <4>1, <4>2, Typed DEF RunBecomes
    <3> QED
      BY <1>0, <1>4, <2>2, <3>2, <3>3 DEF CallOk
  <2> QED
    BY <2>1, <2>2
<1>6. job' \in [Runs -> JobRow] /\ \A q \in Runs : job'[q].external = job[q].external
  BY <1>0, <1>4, Typed
<1> HIDE DEF row
<1> QED
  BY <1>0, <1>2, <1>3, <1>4, <1>5, <1>6, CancelWrites

(* CANCELLED is written only after the BullMQ job was removed, so no slot has it. *)
LEMMA CancelConfirmsStep ==
  ASSUME TaskInv, NEW c \in Calls, CancelConfirms(c)
  PROVE  TaskInv'
<1> DEFINE t == call[c].task
           row == [task[t] EXCEPT !.status = "CANCELLED"]
<1>0. TypeOK /\ CallOk(c) /\ call[c] \in CallRow /\ call[c].pc = "confirm"
  BY CallMoves DEF TaskInv, CancelConfirms, At
<1>1. t \in Tasks /\ task[t] \in TaskRow
  BY <1>0, Typed DEF CallRow
<1>2. row \in TaskRow /\ row.status = "CANCELLED" /\ row.version = task[t].version
  BY <1>1 DEF TaskRow, TaskStatuses
<1>3. task' = [task EXCEPT ![t] = row]
  BY <1>0, <1>1, Typed DEF CancelConfirms
<1>4. RunBecomes(c, "CANCELLED") /\ UNCHANGED <<project, queue, github, handlers, slot, faults>>
  BY DEF CancelConfirms
<1>5. /\ call' \in [Calls -> CallRow] /\ call'[c].pc = "confirmed" /\ JobOf(c)' = JobOf(c)
      /\ call'[c].job = call[c].job /\ \A d \in Calls : d # c => call'[d] = call[d]
  BY <1>0, CallMoves DEF CancelConfirms, CallStates
<1>6. CallOk(c)'
  BY <1>0, <1>4, <1>5 DEF CallOk
<1>7. job' \in [Runs -> JobRow] /\ \A q \in Runs : job'[q].external = job[q].external
  BY <1>0, Typed DEF CancelConfirms, JobRow, JobStatuses
<1> HIDE DEF row
<1> QED
  BY <1>0, <1>2, <1>3, <1>4, <1>5, <1>6, <1>7, CancelWrites

(* A call that leaves the state in which it puts its run into the queue.   *)
LEMMA LeavesEnqueue ==
  ASSUME TaskInv, NEW c \in Calls, call'[c].pc # "enqueue",
         \A d \in Calls : d # c => call'[d] = call[d]
  PROVE  EnqueuedOnce'
  BY DEF TaskInv, EnqueuedOnce, At, RunOf

(* Two calls between their transaction and queue.add made different runs. *)
LEMMA OthersEnqueueOthers ==
  ASSUME TaskInv, NEW c \in Calls, At(c, "enqueue"), NEW d \in Calls, d # c, At(d, "enqueue")
  PROVE  RunOf(d) # RunOf(c)
  BY DEF TaskInv, EnqueuedOnce

(* queue.add: the run is waiting in BullMQ.                                *)
LEMMA EnqueuesStep ==
  ASSUME TaskInv, NEW c \in Calls, Enqueues(c)
  PROVE  TaskInv'
<1> DEFINE r == RunOf(c)
           row == [queue[r] EXCEPT !.state = "waiting"]
<1>0. TypeOK /\ CallOk(c) /\ call[c] \in CallRow /\ At(c, "enqueue") /\ CallGoes(c, "link")
  BY CallMoves DEF TaskInv, Enqueues
<1>1. r \in Runs /\ queue[r].state = "none" /\ run[r] # "none"
  <2>1. call[c].task \in Tasks /\ call[c].run \in Versions
    BY <1>0, BoundsAssumption DEF CallRow, CallOk, At, Versions
  <2>2. r \in Runs
    BY <2>1 DEF RunOf, Runs
  <2> QED
    BY <1>0, <2>2 DEF CallOk, At
<1>2. queue[r] \in QueueRow /\ queue[r].attemptsMade = 0
  BY <1>0, <1>1, Typed DEF TaskInv, QueueTraced
<1>3. row \in QueueRow /\ row.state = "waiting" /\ row.attemptsMade < MaxAttempts
  BY <1>2, BoundsAssumption DEF QueueRow, QueueStates
<1>4. queue' = [queue EXCEPT ![r] = row]
  BY <1>0, <1>1, Typed DEF Enqueues
<1> HIDE DEF row
<1>5. /\ call' \in [Calls -> CallRow] /\ call'[c].pc = "link" /\ RunOf(c)' = r
      /\ call'[c].run = call[c].run /\ \A d \in Calls : d # c => call'[d] = call[d]
  BY <1>0, CallMoves DEF CallStates
<1>6. UNCHANGED <<project, task, run, job, github, handlers, slot, faults>>
  BY DEF Enqueues
<1>7. CallOk(c)'
  <2>1. queue'[r].state = "waiting"
    BY <1>0, <1>1, <1>3, <1>4, Typed
  <2> QED
    BY <1>0, <1>1, <1>5, <1>6, <2>1 DEF CallOk, At
<1>8. EnqueuedOnce'
  BY <1>5, LeavesEnqueue
<1>9. \A d \in Calls : CallOk(d)' \/ (call'[d] = call[d] /\ (At(d, "enqueue") => RunOf(d) # r))
  <2>1. \A d \in Calls : d # c => call'[d] = call[d] /\ (At(d, "enqueue") => RunOf(d) # r)
    BY <1>0, <1>5, OthersEnqueueOthers
  <2> QED
    BY <1>7, <2>1
<1>10. (\A s \in Slots : SlotOk(s)') /\ OneSlotEach' /\ slot' \in [Slots -> SlotRow]
  <2>1. \A s \in Slots : slot[s].run \in Runs
    BY <1>0, Typed DEF SlotRow
  <2>2. ASSUME NEW s \in Slots PROVE SlotOk(s)'
    <3>1. SlotOk(s)
      BY DEF TaskInv
    <3>2. ~On(s, "idle") => slot[s].run # r
      BY <1>1, <3>1 DEF SlotOk
    <3> QED
      BY <1>0, <1>1, <1>4, <1>6, <2>1, <3>1, <3>2, Typed DEF SlotOk, On
  <2> QED
    BY <1>0, <1>6, <2>2, Typed DEF TaskInv, OneSlotEach, On
<1>11. job \in [Runs -> JobRow] /\ handlers' \subseteq Runs \X Outcomes
  BY <1>0, <1>6, Typed DEF TypeOK
<1>12. \A q \in Runs : HandlerPending(q)' => HandlerPending(q)
  BY <1>6 DEF HandlerPending
<1> HIDE DEF r
<1> QED
  BY <1>1, <1>3, <1>4, <1>5, <1>6, <1>8, <1>9, <1>10, <1>11, <1>12, QueueStep

(* The Job row learns its BullMQ id.                                       *)
LEMMA LinksStep ==
  ASSUME TaskInv, NEW c \in Calls, Links(c)
  PROVE  TaskInv'
<1> DEFINE r == RunOf(c)
           row == queue[r]
<1>0. TypeOK /\ CallOk(c) /\ call[c] \in CallRow /\ At(c, "link") /\ CallGoes(c, "read")
  BY CallMoves DEF TaskInv, Links
<1>1. r \in Runs /\ queue[r].state # "none" /\ run[r] # "none"
  <2>1. call[c].task \in Tasks /\ call[c].run \in Versions
    BY <1>0, BoundsAssumption DEF CallRow, CallOk, At, Versions
  <2>2. r \in Runs
    BY <2>1 DEF RunOf, Runs
  <2> QED
    BY <1>0, <2>2 DEF CallOk, At
<1>2. row \in QueueRow /\ (row.state \in {"waiting", "active", "delayed"} => row.attemptsMade < MaxAttempts)
  BY <1>0, <1>1, Typed DEF TaskInv, QueueTraced
<1>3. queue' = [queue EXCEPT ![r] = row]
  BY <1>0, <1>1, Typed DEF Links
<1>4. /\ call' \in [Calls -> CallRow] /\ call'[c].pc = "read"
      /\ \A d \in Calls : d # c => call'[d] = call[d]
  BY <1>0, CallMoves DEF CallStates
<1>5. UNCHANGED <<project, task, run, queue, github, handlers, slot, faults>>
  BY DEF Links
<1>6. CallOk(c)' /\ EnqueuedOnce'
  BY <1>4, LeavesEnqueue DEF CallOk
<1>7. \A d \in Calls : d # c => CallOk(d)'
  BY <1>0, <1>4, <1>5, CallWaits DEF TaskInv, Onward
<1>8. (\A s \in Slots : SlotOk(s)') /\ OneSlotEach' /\ slot' \in [Slots -> SlotRow]
  BY <1>0, <1>5, Typed DEF TaskInv, SlotOk, OneSlotEach, On
<1>9. job' \in [Runs -> JobRow] /\ \A q \in Runs : q # r => job'[q].external = job[q].external
  BY <1>0, <1>1, Typed DEF Links, JobRow
<1>10. handlers' \subseteq Runs \X Outcomes
  BY <1>0, <1>5 DEF TypeOK
<1>11. \A q \in Runs : HandlerPending(q)' => HandlerPending(q)
  BY <1>5 DEF HandlerPending
<1> HIDE DEF r, row
<1> QED
  BY <1>1, <1>2, <1>3, <1>4, <1>5, <1>6, <1>7, <1>8, <1>9, <1>10, <1>11, QueueStep DEF row

(* Job.remove: a job that no worker holds is gone from the queue.          *)
LEMMA CancelRemovesStep ==
  ASSUME TaskInv, NEW c \in Calls, CancelRemoves(c)
  PROVE  TaskInv'
<1> DEFINE r == JobOf(c)
           row == [queue[r] EXCEPT !.state = "removed"]
<1>0. /\ TypeOK /\ CallOk(c) /\ call[c] \in CallRow /\ At(c, "remove")
      /\ UNCHANGED <<project, task, run, job, github, handlers, slot, faults>>
  BY CallMoves DEF TaskInv, CancelRemoves
<1>1. CASE RemovalFails(r)
  <2>1. project' \in ProjectStatuses /\ faults' \in [count : 0 .. MaxFaults, lost : BOOLEAN]
    BY <1>0 DEF TypeOK
  <2> QED
    BY <1>0, <1>1, <2>1, EndsStep DEF CancelRemoves
<1>2. CASE ~RemovalFails(r)
  <2>1. r \in Runs /\ queue[r].state # "none" /\ run[r] # "none" /\ queue[r].state # "active"
    <3>1. call[c].task \in Tasks /\ call[c].job \in Versions
      BY <1>0, BoundsAssumption DEF CallRow, CallOk, At, Versions
    <3>2. r \in Runs
      BY <3>1 DEF JobOf, Runs
    <3>3. queue[r].state # "none" /\ run[r] # "none"
      BY <1>0, <3>2 DEF CallOk, At, TaskInv, QueueTraced
    <3> QED
      BY <1>2, <3>2, <3>3 DEF RemovalFails
  <2>2. queue[r] \in QueueRow
    BY <1>0, <2>1, Typed
  <2>3. row \in QueueRow /\ row.state = "removed"
    BY <2>2 DEF QueueRow, QueueStates
  <2>4. queue' = [queue EXCEPT ![r] = row] /\ CallGoes(c, "confirm")
    BY <1>0, <1>2, <2>1, Typed DEF CancelRemoves
  <2> HIDE DEF row
  <2>5. /\ call' \in [Calls -> CallRow] /\ call'[c].pc = "confirm" /\ JobOf(c)' = r /\ RunOf(c)' = RunOf(c)
        /\ call'[c].run = call[c].run /\ call'[c].job = call[c].job /\ call'[c].task = call[c].task
        /\ \A d \in Calls : d # c => call'[d] = call[d]
    BY <1>0, <2>4, CallMoves DEF CallStates
  <2>6. queue'[r].state = "removed"
    BY <1>0, <2>1, <2>3, <2>4, Typed
  <2>7. CallOk(c)' /\ EnqueuedOnce'
    BY <1>0, <2>5, <2>6, LeavesEnqueue DEF CallOk, At
  <2>8. ASSUME NEW d \in Calls PROVE CallOk(d)' \/ (call'[d] = call[d] /\ (At(d, "enqueue") => RunOf(d) # r))
    BY <2>1, <2>5, <2>7 DEF TaskInv, CallOk, At
  <2>9. (\A s \in Slots : SlotOk(s)') /\ OneSlotEach' /\ slot' \in [Slots -> SlotRow]
    <3>1. \A s \in Slots : slot[s].run \in Runs /\ SlotOk(s)
      BY <1>0, Typed DEF SlotRow, TaskInv
    <3>2. \A s \in Slots : SlotOk(s)'
      BY <1>0, <2>1, <2>4, <3>1, Typed DEF SlotOk, On
    <3> QED
      BY <1>0, <3>2, Typed DEF TaskInv, OneSlotEach, On
  <2>10. job \in [Runs -> JobRow] /\ handlers' \subseteq Runs \X Outcomes
    BY <1>0, Typed DEF TypeOK
  <2>11. \A q \in Runs : HandlerPending(q)' => HandlerPending(q)
    BY <1>0 DEF HandlerPending
  <2> HIDE DEF r
  <2> QED
    BY <1>0, <2>1, <2>3, <2>4, <2>5, <2>7, <2>8, <2>9, <2>10, <2>11, QueueStep
<1> QED
  BY <1>1, <1>2

(* A start or a follow-up creates the next version of a task and will queue*)
(* it.                                                                     *)
LEMMA CreationStep ==
  ASSUME TaskInv, NEW c \in Calls, NEW t \in Tasks, NEW v \in Versions, NEW row \in TaskRow,
         NEW crow \in CallRow,
         \/ task[t].status = "DRAFT" /\ v = 1
         \/ task[t].status # "DRAFT" /\ v = task[t].version + 1,
         task' = [task EXCEPT ![t] = row], row.status = "QUEUED", row.version = v,
         CreateRun(t, v), call' = [call EXCEPT ![c] = crow],
         crow.pc = "enqueue", crow.task = t, crow.run = v,
         UNCHANGED <<project, queue, github, handlers, slot, faults>>
  PROVE  TaskInv'
<1> USE DEF TaskInv
<1> DEFINE r == <<t, v>>
<1>0. r \in Runs /\ TypeOK /\ task[t].version \in Nat /\ v \in Nat /\ task[t] \in TaskRow
  BY Typed, BoundsAssumption DEF Runs, TaskRow, Versions
<1>1. run[r] = "none"
  BY <1>0 DEF ClaimedInOrder
<1>2. /\ task' \in [Tasks -> TaskRow] /\ task'[t] = row
      /\ \A u \in Tasks : u # t => task'[u] = task[u]
  BY Typed
<1>3. /\ run' \in [Runs -> RunStatuses] /\ run'[r] = "QUEUED"
      /\ \A q \in Runs : q # r => run'[q] = run[q]
  BY <1>0, Typed DEF CreateRun, RunStatuses
<1>4. /\ job' \in [Runs -> JobRow] /\ ~job'[r].external
      /\ \A q \in Runs : q # r => job'[q] = job[q]
  BY <1>0, Typed DEF CreateRun, JobRow, JobStatuses
<1>5. call' \in [Calls -> CallRow] /\ call'[c] = crow /\ \A d \in Calls : d # c => call'[d] = call[d]
  BY Typed
<1>6. TypeOK'
  BY <1>2, <1>3, <1>4, <1>5 DEF TypeOK, TaskRow, JobRow, CallRow
<1>7. ClaimedInOrder'
  <2> SUFFICES ASSUME NEW u \in Tasks
               PROVE  /\ task'[u].status = "DRAFT" => task'[u].version = 1
                      /\ \A w \in Versions : run'[<<u, w>>] # "none" <=>
                                             w <= task'[u].version /\ task'[u].status # "DRAFT"
    BY DEF ClaimedInOrder
  <2>1. CASE u # t
    BY <1>2, <1>3, <2>1 DEF ClaimedInOrder, Runs
  <2>2. CASE u = t
    <3>1. ASSUME NEW w \in Versions PROVE run'[<<t, w>>] # "none" <=> w <= v
      <4>1. CASE w = v
        BY <1>0, <1>3, <4>1
      <4>2. CASE w # v
        <5>1. run'[<<t, w>>] = run[<<t, w>>]
          BY <1>3, <4>2 DEF Runs
        <5>2. w \in Nat /\ w >= 1
          BY BoundsAssumption DEF Versions
        <5>3. task[t].status = "DRAFT" => task[t].version = 1
          BY DEF ClaimedInOrder
        <5>4. run[<<t, w>>] # "none" <=> w <= task[t].version /\ task[t].status # "DRAFT"
          BY DEF ClaimedInOrder
        <5> QED
          BY <1>0, <4>2, <5>1, <5>2, <5>3, <5>4
      <4> QED
        BY <4>1, <4>2
    <3> QED
      BY <1>2, <2>2, <3>1
  <2> QED
    BY <2>1, <2>2
<1>8. queue[r].state = "none" /\ queue[r].attemptsMade = 0
  BY <1>0, <1>1 DEF QueueTraced
<1>9. QueueTraced' /\ HandlersTraced'
  BY <1>3, <1>4, <1>8 DEF QueueTraced, HandlersTraced, HandlerPending
<1>10. Onward
  BY <1>1, <1>2, <1>3 DEF Onward
<1>11. CallOk(c)'
  <2>1. RunOf(c)' = r
    BY <1>5 DEF RunOf
  <2>2. v # 0
    BY BoundsAssumption DEF Versions
  <2> QED
    BY <1>3, <1>5, <1>8, <2>1, <2>2 DEF CallOk
<1>12. \A d \in Calls : CallOk(d)'
  BY <1>0, <1>5, <1>10, <1>11, CallWaits
<1>13. EnqueuedOnce'
  <2>1. ASSUME NEW d \in Calls, d # c, At(d, "enqueue") PROVE RunOf(d) # r
    BY <1>1, <2>1 DEF CallOk, At
  <2> QED
    BY <1>5, <2>1 DEF EnqueuedOnce, At, RunOf
<1>14. (\A s \in Slots : SlotOk(s)') /\ OneSlotEach'
  BY DEF SlotOk, OneSlotEach, On
<1>15. SucceededHasPullRequest'
  BY <1>2, <1>3 DEF SucceededHasPullRequest
<1> QED
  BY <1>6, <1>7, <1>9, <1>12, <1>13, <1>14, <1>15

(* The claim succeeds on a DRAFT alone, so the run it creates is new. *)
LEMMA StartClaimsStep ==
  ASSUME TaskInv, NEW c \in Calls, StartClaims(c)
  PROVE  TaskInv'
<1> DEFINE t == call[c].task
           row == [task[t] EXCEPT !.status = "QUEUED"]
           crow == [call[c] EXCEPT !.pc = "enqueue", !.run = 1]
<1>0. TypeOK /\ call[c] \in CallRow /\ t \in Tasks /\ task[t] \in TaskRow
  <2>1. TypeOK /\ call[c] \in CallRow
    BY CallMoves DEF TaskInv
  <2> QED
    BY <2>1, Typed DEF CallRow
<1>1. CASE ~Claimable(t)
  <2>1. project' \in ProjectStatuses /\ faults' \in [count : 0 .. MaxFaults, lost : BOOLEAN]
    BY <1>0 DEF TypeOK, StartClaims
  <2> QED
    BY <1>1, <2>1, EndsStep DEF StartClaims
<1>2. CASE Claimable(t)
  <2>1. task[t].status = "DRAFT" /\ task[t].version = 1
    BY <1>0, <1>2 DEF Claimable, TaskInv, ClaimedInOrder
  <2>2. row \in TaskRow /\ row.status = "QUEUED" /\ row.version = 1
    BY <1>0, <2>1 DEF TaskRow, TaskStatuses
  <2>3. crow \in CallRow /\ crow.pc = "enqueue" /\ crow.task = t /\ crow.run = 1
    <3>1. 1 \in 0 .. MaxVersions
      BY BoundsAssumption
    <3> QED
      BY <1>0, <3>1 DEF CallRow, CallStates
  <2>4. task' = [task EXCEPT ![t] = row]
    BY <1>0, <1>2, Typed DEF StartClaims, ClaimedTask
  <2>5. call' = [call EXCEPT ![c] = crow]
    BY <1>0, <1>2, Typed DEF StartClaims
  <2>6. CreateRun(t, 1) /\ UNCHANGED <<project, queue, github, handlers, slot, faults>>
    BY <1>2 DEF StartClaims
  <2>7. 1 \in Versions
    BY BoundsAssumption DEF Versions
  <2> HIDE DEF t, row, crow
  <2> QED
    BY <1>0, <2>1, <2>2, <2>3, <2>4, <2>5, <2>6, <2>7, CreationStep
<1> QED
  BY <1>1, <1>2

(* The follow-up's run has the next instruction version, so it is new too. *)
LEMMA FollowUpCommitsStep ==
  ASSUME TaskInv, NEW c \in Calls, FollowUpCommits(c)
  PROVE  TaskInv'
<1> DEFINE t == call[c].task
           v == task[t].version + 1
           row == Requeued(v)
           crow == [call[c] EXCEPT !.pc = "enqueue", !.run = v]
<1>0. TypeOK /\ call[c] \in CallRow /\ t \in Tasks /\ task[t] \in TaskRow /\ CallOk(c)
  <2>1. TypeOK /\ call[c] \in CallRow /\ CallOk(c)
    BY CallMoves DEF TaskInv
  <2> QED
    BY <2>1, Typed DEF CallRow
<1>1. task[t].status # "DRAFT"
  BY <1>0 DEF CallOk, FollowUpCommits, At
<1>2. v \in Versions /\ v \in 0 .. MaxVersions
  BY <1>0, BoundsAssumption DEF FollowUpCommits, TaskRow, Versions
<1>3. /\ task' = [task EXCEPT ![t] = row] /\ CreateRun(t, v)
      /\ UNCHANGED <<project, queue, github, handlers, slot, faults>>
  BY DEF FollowUpCommits
<1>4. call' = [call EXCEPT ![c] = crow]
  BY <1>0, Typed DEF FollowUpCommits
<1>5. v = task[t].version + 1
  OBVIOUS
<1> HIDE DEF v
<1>6. row \in TaskRow /\ row.status = "QUEUED" /\ row.version = v
  BY <1>2 DEF TaskRow, TaskStatuses, Requeued
<1>7. crow \in CallRow /\ crow.pc = "enqueue" /\ crow.task = t /\ crow.run = v
  BY <1>0, <1>2 DEF CallRow, CallStates
<1> HIDE DEF t, row, crow
<1> QED
  BY <1>0, <1>1, <1>2, <1>3, <1>4, <1>5, <1>6, <1>7, CreationStep

-----------------------------------------------------------------------------
(* A slot that moves on and stays with its run.                            *)
LEMMA SlotMoves ==
  ASSUME TypeOK, NEW s \in Slots
  PROVE  /\ slot[s] \in SlotRow
         /\ \A pc \in SlotStates : SlotGoes(s, pc) =>
              /\ [slot[s] EXCEPT !.pc = pc] \in SlotRow
              /\ slot' = [slot EXCEPT ![s] = [slot[s] EXCEPT !.pc = pc]]
<1>1. slot \in [Slots -> SlotRow] /\ slot[s] \in SlotRow
  BY Typed
<1> QED
  BY <1>1 DEF SlotGoes, SlotRow

\* No row is touched.
RowsStay == UNCHANGED <<task, run, job, queue, github, handlers, call>>

(* A slot that moves on inside its attempt, all rows staying as they are. *)
LEMMA SlotGoesStep ==
  ASSUME TaskInv, NEW s \in Slots, NEW pc \in SlotStates, ~On(s, "idle"), SlotGoes(s, pc),
         pc \in {"read", "write"} => slot[s].goals # <<>>, pc # "finish", RowsStay,
         project' = project, faults' = faults
  PROVE  TaskInv'
<1> DEFINE row == [slot[s] EXCEPT !.pc = pc]
<1>1. row \in SlotRow /\ slot' = [slot EXCEPT ![s] = row] /\ slot[s] \in SlotRow
  BY SlotMoves DEF TaskInv
<1>2. row.pc = pc /\ row.run = slot[s].run /\ row.goals = slot[s].goals
  BY <1>1 DEF SlotRow
<1>3. project' \in ProjectStatuses /\ faults' \in [count : 0 .. MaxFaults, lost : BOOLEAN]
  BY DEF TaskInv, TypeOK
<1> HIDE DEF row
<1> QED
  BY <1>1, <1>2, <1>3, SlotStep DEF RowsStay

(* What is left of a sequence of several elements.                         *)
LEMMA TailOfMore ==
  ASSUME NEW S, NEW q \in Seq(S), q # <<>>
  PROVE  Tail(q) \in Seq(S) /\ (Len(q) > 1 => Tail(q) # <<>>)
<1>1. Tail(q) \in Seq(S) /\ Len(Tail(q)) = Len(q) - 1 /\ Len(q) \in Nat
  BY HeadTailProperties
<1>2. Len(q) > 1 => Len(Tail(q)) # 0
  BY <1>1
<1>3. \A e : e = <<>> => Len(e) = 0
  OBVIOUS
<1> QED
  BY <1>1, <1>2, <1>3

(* A goal is reached: the next one, or what comes after the last one.      *)
LEMMA ReachesStep ==
  ASSUME TaskInv, NEW s \in Slots, slot[s].pc \in {"read", "write"}, Reaches(s), RowsStay,
         project' \in ProjectStatuses, faults' = faults
  PROVE  TaskInv'
<1> DEFINE row == [slot[s] EXCEPT !.pc = AfterGoal(s), !.goals = Tail(slot[s].goals)]
<1>1. slot[s] \in SlotRow /\ slot[s].goals # <<>> /\ TypeOK
  BY SlotMoves DEF TaskInv, SlotOk
<1>2. /\ slot[s].goals \in Seq(ProjectStatuses) /\ Tail(slot[s].goals) \in Seq(ProjectStatuses)
      /\ Len(slot[s].goals) > 1 => Tail(slot[s].goals) # <<>>
  <2>1. slot[s].goals \in Seq(ProjectStatuses) /\ slot[s].goals # <<>>
    BY <1>1 DEF SlotRow
  <2> QED
    BY <2>1, TailOfMore
<1>3. /\ AfterGoal(s) \in {"read", "execute", "record", "complete"}
      /\ AfterGoal(s) = "read" => Len(slot[s].goals) > 1
  BY DEF AfterGoal
<1>4. slot' = [slot EXCEPT ![s] = row]
  BY <1>1, Typed DEF Reaches
<1>5. row.pc = AfterGoal(s) /\ row.run = slot[s].run /\ row.goals = Tail(slot[s].goals)
  BY <1>1 DEF SlotRow
<1>6. row \in SlotRow
  BY <1>1, <1>2, <1>3 DEF SlotRow, SlotStates
<1>7. ~On(s, "idle") /\ faults' \in [count : 0 .. MaxFaults, lost : BOOLEAN]
  BY <1>1 DEF On, TypeOK
<1> HIDE DEF row
<1> QED
  BY <1>2, <1>3, <1>4, <1>5, <1>6, <1>7, SlotStep DEF RowsStay

(* The steps of an attempt that write no row of its run. *)
LEMMA WorkingSteps ==
  ASSUME TaskInv, NEW s \in Slots,
         Loads(s) \/ SlotReadsProject(s) \/ SlotWritesProject(s) \/ Catches(s) \/ Throws(s)
  PROVE  TaskInv'
<1>0. TypeOK /\ SlotOk(s) /\ slot[s] \in SlotRow
  BY SlotMoves DEF TaskInv
<1>1. ASSUME NEW pc \in {"prepare", "reject", "catch", "cancel"}, SlotGoes(s, pc), ~On(s, "idle"), RowsStay,
             project' = project, faults' = faults
      PROVE  TaskInv'
  BY <1>1, SlotGoesStep DEF SlotStates
<1>2. CASE Loads(s)
  BY <1>1, <1>2 DEF Loads, RowsStay, On
<1>3. CASE SlotReadsProject(s)
  <2>1. slot[s].pc = "read" /\ RowsStay /\ project' = project /\ faults' = faults
    BY <1>3 DEF SlotReadsProject, On, RowsStay
  <2>2. CASE Reaches(s)
    BY <1>0, <2>1, <2>2, ReachesStep DEF TypeOK
  <2>3. CASE SlotGoes(s, "write")
    BY <1>0, <2>1, <2>3, SlotGoesStep DEF SlotOk, On, SlotStates
  <2>4. CASE SlotGoes(s, Thrown(s))
    BY <1>1, <2>1, <2>4 DEF Thrown, On
  <2> QED
    BY <1>3, <2>2, <2>3, <2>4 DEF SlotReadsProject
<1>4. CASE SlotWritesProject(s)
  <2>1. slot[s].pc = "write" /\ RowsStay /\ faults' = faults /\ project' = Head(slot[s].goals) /\ Reaches(s)
    BY <1>4 DEF SlotWritesProject, On, RowsStay
  <2>2. project' \in ProjectStatuses
    BY <1>0, <2>1 DEF SlotOk, SlotRow
  <2> QED
    BY <2>1, <2>2, ReachesStep
<1>5. CASE Catches(s)
  BY <1>1, <1>5 DEF Catches, RowsStay, On
<1>6. CASE Throws(s)
  BY <1>1, <1>6 DEF Throws, RowsStay, On, Thrown, Preparing, Trying, Catching
<1> QED
  BY <1>2, <1>3, <1>4, <1>5, <1>6

(* An attempt is told to stop, or learns what its quality records allow.   *)
LEMMA AbortingSteps ==
  ASSUME TaskInv, NEW s \in Slots, CancellationPoll(s) \/ TimesOut(s)
  PROVE  TaskInv'
<1> DEFINE row == [slot[s] EXCEPT !.aborted = TRUE]
<1>0. TypeOK /\ SlotOk(s) /\ slot[s] \in SlotRow
  BY SlotMoves DEF TaskInv
<1>1. slot' = [slot EXCEPT ![s] = row] /\ RowsStay /\ project' = project
  BY <1>0, Typed DEF CancellationPoll, TimesOut, RowsStay
<1>2. row \in SlotRow /\ row.pc = slot[s].pc /\ row.run = slot[s].run /\ row.goals = slot[s].goals
  BY <1>0 DEF SlotRow
<1>3. ~On(s, "idle")
  BY DEF CancellationPoll, TimesOut, Armed, Trying, Catching, On
<1>4. faults' \in [count : 0 .. MaxFaults, lost : BOOLEAN]
  <2>1. faults \in [count : 0 .. MaxFaults, lost : BOOLEAN]
    BY <1>0 DEF TypeOK
  <2>2. CASE TimesOut(s)
    <3>1. faults.count + 1 \in 0 .. MaxFaults
      BY <2>1, <2>2, BoundsAssumption DEF TimesOut, Fails
    <3> QED
      BY <2>1, <2>2, <3>1 DEF TimesOut, Fails
  <2>3. CASE CancellationPoll(s)
    BY <2>1, <2>3 DEF CancellationPoll
  <2> QED
    BY <2>2, <2>3
<1>5. project' \in ProjectStatuses
  BY <1>0, <1>1 DEF TypeOK
<1> HIDE DEF row
<1> QED
  BY <1>0, <1>1, <1>2, <1>3, <1>4, <1>5, SlotStep DEF RowsStay, SlotOk, On

(* recordPipelineResult leaves the run SUCCEEDED and lists the moves to come. *)
LEMMA RecordsQualityStep ==
  ASSUME TaskInv, NEW s \in Slots, RecordsQuality(s)
  PROVE  TaskInv'
<1> DEFINE all == <<"QA_TESTING", "SECURITY_REVIEW", "RELEASE_CANDIDATE">>
<1>0. TypeOK /\ slot[s] \in SlotRow
  BY SlotMoves DEF TaskInv
<1>1. PICK n \in 0 .. 3 :
        slot' = [slot EXCEPT ![s].goals = SubSeq(all, 1, n), ![s].pc = IF n = 0 THEN "complete" ELSE "read"]
  BY DEF RecordsQuality
<1>2. SubSeq(all, 1, n) \in Seq(ProjectStatuses) /\ (n # 0 => SubSeq(all, 1, n) # <<>>)
  <2>1. \A i \in 1 .. n : all[i] \in ProjectStatuses
    BY Statuses
  <2>2. n \in Int /\ 1 \in Int
    OBVIOUS
  <2> HIDE DEF all
  <2>3. /\ SubSeq(all, 1, n) \in Seq(ProjectStatuses)
        /\ Len(SubSeq(all, 1, n)) = IF 1 <= n THEN n - 1 + 1 ELSE 0
    BY <2>1, <2>2, SubSeqProperties
  <2>4. n # 0 => Len(SubSeq(all, 1, n)) # 0
    BY <2>3
  <2> QED
    BY <2>3, <2>4
<1> DEFINE goals == SubSeq(all, 1, n)
           row == [slot[s] EXCEPT !.goals = goals, !.pc = IF n = 0 THEN "complete" ELSE "read"]
<1>3. slot' = [slot EXCEPT ![s] = row]
  BY <1>0, <1>1, Typed
<1>4. goals \in Seq(ProjectStatuses) /\ (n # 0 => goals # <<>>)
  BY <1>2
<1> HIDE DEF goals
<1>5. row \in SlotRow /\ row.pc \in {"complete", "read"} /\ row.run = slot[s].run
      /\ (row.pc = "read" => row.goals # <<>>)
  BY <1>0, <1>4 DEF SlotRow, SlotStates
<1>6. /\ ~On(s, "idle") /\ project' \in ProjectStatuses /\ faults' \in [count : 0 .. MaxFaults, lost : BOOLEAN]
      /\ UNCHANGED <<task, run, job, queue, github, handlers, call>>
  BY <1>0 DEF RecordsQuality, On, TypeOK
<1> HIDE DEF row
<1> QED
  BY <1>3, <1>5, <1>6, SlotStep

(* The run of a busy slot is active in BullMQ, and was created.            *)
LEMMA BusySlot ==
  ASSUME TaskInv, NEW s \in Slots, ~On(s, "idle")
  PROVE  /\ slot[s] \in SlotRow /\ slot[s].run \in Runs /\ TaskOf(s) \in Tasks
         /\ queue[slot[s].run].state = "active" /\ run[slot[s].run] # "none"
         /\ queue[slot[s].run] \in QueueRow /\ queue[slot[s].run].attemptsMade < MaxAttempts
         /\ \A u \in Slots : u # s /\ ~On(u, "idle") => slot[u].run # slot[s].run
<1>1. slot[s] \in SlotRow /\ slot[s].run \in Runs
  BY SlotMoves DEF TaskInv, SlotRow
<1> QED
  BY <1>1, Typed DEF TaskInv, SlotOk, QueueTraced, OneSlotEach, TaskOf, Runs

(* The slot that moves with the rows of its run.                           *)
LEMMA MovedSlot ==
  ASSUME TaskInv, NEW s \in Slots, ~On(s, "idle"), NEW row \in SlotRow, row.run = slot[s].run,
         slot' = [slot EXCEPT ![s] = row], UNCHANGED <<queue, github>>,
         row.pc \in {"read", "write"} => row.goals # <<>>, row.pc # "finish"
  PROVE  slot' \in [Slots -> SlotRow] /\ (\A u \in Slots : SlotOk(u)') /\ OneSlotEach'
<1>1. /\ slot' \in [Slots -> SlotRow] /\ slot'[s] = row
      /\ \A u \in Slots : u # s => slot'[u] = slot[u]
  BY Typed DEF TaskInv
<1>2. \A u \in Slots : SlotOk(u)'
  BY <1>1, BusySlot DEF TaskInv, SlotOk, On
<1>3. OneSlotEach'
  BY <1>1 DEF TaskInv, OneSlotEach, On
<1> QED
  BY <1>1, <1>2, <1>3

(* The three transactions of an attempt on the rows of its own run. *)
LEMMA MarkingSteps ==
  ASSUME TaskInv, NEW s \in Slots, MarksRunning(s) \/ MarksSucceeded(s) \/ MarksCancelled(s)
  PROVE  TaskInv'
<1> DEFINE r == slot[s].run
<1>0. ~On(s, "idle") /\ TypeOK /\ SlotOk(s)
  BY DEF MarksRunning, MarksSucceeded, MarksCancelled, On, TaskInv
<1>1. slot[s] \in SlotRow /\ r \in Runs /\ run[r] # "none" /\ TaskOf(s) = r[1]
  BY <1>0, BusySlot DEF TaskOf
<1>2. UNCHANGED <<project, job, queue, github, handlers, call, faults>>
  BY DEF MarksRunning, MarksSucceeded, MarksCancelled
<1>3. /\ job \in [Runs -> JobRow] /\ \A q \in Runs : job'[q].external = job[q].external
      /\ handlers' \subseteq handlers
  BY <1>0, <1>2, Typed
<1>4. ASSUME NEW pc \in {"read", "completeCancelled"}, NEW goals \in Seq(ProjectStatuses),
             pc = "read" => goals # <<>>,
             slot' = [slot EXCEPT ![s].pc = pc, ![s].goals = goals]
      PROVE  slot' \in [Slots -> SlotRow] /\ (\A u \in Slots : SlotOk(u)') /\ OneSlotEach'
  <2> DEFINE row == [slot[s] EXCEPT !.pc = pc, !.goals = goals]
  <2>1. row \in SlotRow /\ row.pc = pc /\ row.goals = goals /\ row.run = slot[s].run
    BY <1>1 DEF SlotRow, SlotStates
  <2>2. slot' = [slot EXCEPT ![s] = row]
    BY <1>0, <1>4, Typed
  <2> HIDE DEF row
  <2> QED
    BY <1>0, <1>2, <1>4, <2>1, <2>2, MovedSlot
<1>5. CASE MarksRunning(s)
  <2>1. <<"DEVELOPING">> \in Seq(ProjectStatuses) /\ <<"DEVELOPING">> # <<>>
    BY Statuses
  <2>2. slot' = [slot EXCEPT ![s].pc = "read", ![s].goals = <<"DEVELOPING">>]
    BY <1>5 DEF MarksRunning
  <2>3. slot' \in [Slots -> SlotRow] /\ (\A u \in Slots : SlotOk(u)') /\ OneSlotEach'
    BY <1>4, <2>1, <2>2
  <2>4. task' = [task EXCEPT ![r[1]].status = "RUNNING"] /\ run' = [run EXCEPT ![r] = "RUNNING"]
    BY <1>1, <1>5 DEF MarksRunning
  <2>5. "RUNNING" \in TaskStatuses /\ "RUNNING" \in RunStatuses
    BY DEF TaskStatuses, RunStatuses
  <2> HIDE DEF r
  <2> QED
    BY <1>1, <1>2, <1>3, <2>3, <2>4, <2>5, RowsStep
<1>6. CASE MarksSucceeded(s)
  <2>1. <<"CODE_REVIEW">> \in Seq(ProjectStatuses) /\ <<"CODE_REVIEW">> # <<>>
    BY Statuses
  <2>2. slot' = [slot EXCEPT ![s].pc = "read", ![s].goals = <<"CODE_REVIEW">>]
    BY <1>6 DEF MarksSucceeded
  <2>3. slot' \in [Slots -> SlotRow] /\ (\A u \in Slots : SlotOk(u)') /\ OneSlotEach'
    BY <1>4, <2>1, <2>2
  <2>4. task' = [task EXCEPT ![r[1]].status = "SUCCEEDED"] /\ run' = [run EXCEPT ![r] = "SUCCEEDED"]
    BY <1>1, <1>6 DEF MarksSucceeded
  <2>5. "SUCCEEDED" \in TaskStatuses /\ "SUCCEEDED" \in RunStatuses
    BY DEF TaskStatuses, RunStatuses
  <2>6. github[r] > 0
    BY <1>0, <1>6 DEF MarksSucceeded, SlotOk
  <2> HIDE DEF r
  <2> QED
    BY <1>1, <1>2, <1>3, <2>3, <2>4, <2>5, <2>6, RowsStep
<1>7. CASE MarksCancelled(s)
  <2>1. slot[s].goals \in Seq(ProjectStatuses)
    BY <1>1 DEF SlotRow
  <2>2. slot' = [slot EXCEPT ![s].pc = "completeCancelled", ![s].goals = slot[s].goals]
    BY <1>0, <1>1, <1>7, Typed DEF MarksCancelled, SlotGoes, SlotRow
  <2>3. slot' \in [Slots -> SlotRow] /\ (\A u \in Slots : SlotOk(u)') /\ OneSlotEach'
    BY <1>4, <2>1, <2>2
  <2>4. task' = [task EXCEPT ![r[1]].status = "CANCELLED"] /\ run' = [run EXCEPT ![r] = "CANCELLED"]
    BY <1>1, <1>7 DEF MarksCancelled
  <2>5. "CANCELLED" \in TaskStatuses /\ "CANCELLED" \in RunStatuses
    BY DEF TaskStatuses, RunStatuses
  <2> HIDE DEF r
  <2> QED
    BY <1>1, <1>2, <1>3, <2>3, <2>4, <2>5, RowsStep
<1> QED
  BY <1>5, <1>6, <1>7

(* The pull request is opened before the slot comes to its end.            *)
LEMMA ExecutesStep ==
  ASSUME TaskInv, NEW s \in Slots, Executes(s)
  PROVE  TaskInv'
<1> USE DEF TaskInv
<1> DEFINE r == slot[s].run
<1>1. ~On(s, "idle") /\ r \in Runs /\ slot[s] \in SlotRow
  BY BusySlot DEF Executes, On
<1>2. /\ slot' \in [Slots -> SlotRow] /\ slot'[s].run = r /\ slot'[s].pc = "finish"
      /\ \A u \in Slots : u # s => slot'[u] = slot[u]
  BY <1>1, Typed DEF Executes, SlotGoes, SlotRow, SlotStates
<1>3. github' \in [Runs -> Nat] /\ github'[r] > 0 /\ \A q \in Runs : github'[q] >= github[q]
  BY <1>1, Typed DEF Executes
<1>4. UNCHANGED <<project, task, run, job, queue, handlers, call, faults>>
  BY DEF Executes
<1>5. TypeOK'
  BY <1>2, <1>3, <1>4 DEF TypeOK, SlotRow
<1>6. \A u \in Slots : SlotOk(u)'
  <2>1. \A u \in Slots : slot[u].run \in Runs
    BY Typed DEF SlotRow
  <2>2. \A q \in Runs : github[q] > 0 => github'[q] > 0
    BY <1>3, Typed
  <2> QED
    BY <1>1, <1>2, <1>3, <1>4, <2>1, <2>2 DEF SlotOk, On
<1>7. OneSlotEach'
  BY <1>1, <1>2 DEF OneSlotEach, On
<1>8. ClaimedInOrder' /\ QueueTraced' /\ HandlersTraced'
  BY <1>4 DEF ClaimedInOrder, QueueTraced, HandlersTraced, HandlerPending
<1>9. (\A c \in Calls : CallOk(c)') /\ EnqueuedOnce'
  BY <1>4 DEF CallOk, EnqueuedOnce, At, RunOf, JobOf
<1>10. SucceededHasPullRequest'
  <2>1. \A q \in Runs : github[q] > 0 => github'[q] > 0
    BY <1>3, Typed
  <2> QED
    BY <1>4, <2>1 DEF SucceededHasPullRequest, Runs
<1> QED
  BY <1>5, <1>6, <1>7, <1>8, <1>9, <1>10

-----------------------------------------------------------------------------
(* BullMQ moves a job; no call moves.                                      *)
LEMMA QueueMoves ==
  ASSUME TaskInv, NEW r \in Runs, NEW row \in QueueRow, row.state # "none",
         queue[r].state \notin {"none", "removed"},
         row.state \in {"waiting", "active", "delayed"} => row.attemptsMade < MaxAttempts,
         queue' = [queue EXCEPT ![r] = row],
         job' \in [Runs -> JobRow], \A q \in Runs : q # r => job'[q].external = job[q].external,
         UNCHANGED <<project, task, run, github, faults, call>>,
         handlers' \subseteq handlers \cup ({r} \X Outcomes),
         slot' \in [Slots -> SlotRow], \A s \in Slots : SlotOk(s)', OneSlotEach'
  PROVE  TaskInv'
<1>1. run[r] # "none"
  BY DEF TaskInv, QueueTraced
<1>2. handlers' \subseteq Runs \X Outcomes
  BY DEF TaskInv, TypeOK
<1>3. \A q \in Runs : HandlerPending(q)' => HandlerPending(q) \/ q = r
  BY DEF HandlerPending
<1>4. \A c \in Calls : call'[c] = call[c] /\ (At(c, "enqueue") => RunOf(c) # r)
  BY DEF TaskInv, CallOk, At
<1>5. call' \in [Calls -> CallRow] /\ EnqueuedOnce'
  BY Typed DEF TaskInv, EnqueuedOnce, At, RunOf
<1> QED
  BY <1>1, <1>2, <1>3, <1>4, <1>5, QueueStep

(* A slot takes a waiting job, which is no other slot's.                   *)
LEMMA TakesStep ==
  ASSUME TaskInv, NEW s \in Slots, NEW r \in Runs, Takes(s, r)
  PROVE  TaskInv'
<1> DEFINE row == [queue[r] EXCEPT !.state = "active"]
           srow == [FreeSlot EXCEPT !.pc = "load", !.run = r]
<1>0. TypeOK /\ queue[r].state = "waiting" /\ queue[r] \in QueueRow /\ queue[r].attemptsMade < MaxAttempts
  BY Typed DEF Takes, TaskInv, QueueTraced
<1>1. row \in QueueRow /\ row.state = "active" /\ row.attemptsMade < MaxAttempts
  BY <1>0 DEF QueueRow, QueueStates
<1>2. queue' = [queue EXCEPT ![r] = row]
  BY <1>0, Typed DEF Takes
<1>3. srow \in SlotRow /\ srow.pc = "load" /\ srow.run = r
  BY FirstRows DEF SlotRow, SlotStates
<1>4. slot' = [slot EXCEPT ![s] = srow]
  BY DEF Takes
<1> HIDE DEF row, srow
<1>5. slot' \in [Slots -> SlotRow] /\ slot'[s] = srow /\ \A u \in Slots : u # s => slot'[u] = slot[u]
  BY <1>0, <1>3, <1>4, Typed
<1>6. queue'[r].state = "active" /\ \A q \in Runs : q # r => queue'[q] = queue[q]
  BY <1>0, <1>1, <1>2, Typed
<1>7. \A u \in Slots : ~On(u, "idle") => slot[u].run \in Runs /\ slot[u].run # r
  BY <1>0, BusySlot
<1>8. UNCHANGED <<project, task, run, github, faults, call, handlers>>
  BY DEF Takes
<1>9. \A u \in Slots : SlotOk(u)'
  BY <1>3, <1>5, <1>6, <1>7, <1>8 DEF TaskInv, SlotOk, On
<1>10. OneSlotEach'
  BY <1>3, <1>5, <1>7 DEF TaskInv, OneSlotEach, On
<1>11. job' \in [Runs -> JobRow] /\ \A q \in Runs : q # r => job'[q].external = job[q].external
  BY <1>0, Typed DEF Takes, JobRow, JobStatuses
<1> QED
  BY <1>0, <1>1, <1>2, <1>5, <1>8, <1>9, <1>10, <1>11, QueueMoves

(* An attempt ends: the slot is free, and the job done, delayed or given up.*)
LEMMA FinishesStep ==
  ASSUME TaskInv, NEW s \in Slots, ~On(s, "idle"), NEW state \in {"completed", "delayed", "failed"},
         NEW outcome \in Outcomes, Finishes(s, state, outcome),
         state = "delayed" => queue[slot[s].run].attemptsMade + 1 < MaxAttempts
  PROVE  TaskInv'
<1> DEFINE r == slot[s].run
           row == [queue[r] EXCEPT !.state = state, !.attemptsMade = queue[r].attemptsMade + 1]
<1>0. TypeOK /\ r \in Runs /\ queue[r] \in QueueRow /\ queue[r].state = "active" /\ queue[r].attemptsMade < MaxAttempts
  BY BusySlot DEF TaskInv
<1>1. queue[r].attemptsMade + 1 \in 0 .. MaxAttempts
  BY <1>0, BoundsAssumption DEF QueueRow
<1>2. row \in QueueRow /\ row.state = state /\ row.attemptsMade = queue[r].attemptsMade + 1
  BY <1>0, <1>1 DEF QueueRow, QueueStates
<1>3. queue' = [queue EXCEPT ![r] = row]
  BY <1>0, Typed DEF Finishes
<1>4. slot' \in [Slots -> SlotRow] /\ slot'[s].pc = "idle" /\ \A u \in Slots : u # s => slot'[u] = slot[u]
  BY <1>0, FirstRows, Typed DEF Finishes
<1>5. \A u \in Slots : u # s /\ ~On(u, "idle") => slot[u].run \in Runs /\ slot[u].run # r
  BY BusySlot
<1>6. \A q \in Runs : q # r => queue'[q] = queue[q]
  BY <1>0, <1>3, Typed
<1>7. UNCHANGED <<project, task, run, job, github, faults, call>>
  BY DEF Finishes
<1>8. \A u \in Slots : SlotOk(u)'
  BY <1>4, <1>5, <1>6, <1>7 DEF TaskInv, SlotOk, On
<1>9. OneSlotEach'
  BY <1>4 DEF TaskInv, OneSlotEach, On
<1>10. handlers' \subseteq handlers \cup ({r} \X Outcomes)
  BY DEF Finishes
<1>11. job' \in [Runs -> JobRow] /\ \A q \in Runs : q # r => job'[q].external = job[q].external
  BY <1>0, <1>7, Typed
<1> HIDE DEF r, row
<1> QED
  BY <1>0, <1>2, <1>3, <1>4, <1>7, <1>8, <1>9, <1>10, <1>11, QueueMoves DEF r

(* The attempt ends in BullMQ and hands its write to a handler. *)
LEMMA EndingSteps ==
  ASSUME TaskInv, NEW s \in Slots, Completes(s) \/ Rejects(s)
  PROVE  TaskInv'
<1>1. CASE Completes(s)
  BY <1>1, FinishesStep DEF Completes, On, Outcomes
<1>2. CASE Rejects(s)
  <2>1. ~On(s, "idle")
    BY <1>2 DEF Rejects, On
  <2>2. RetryState(slot[s].run) = "delayed" => queue[slot[s].run].attemptsMade + 1 < MaxAttempts
    BY DEF RetryState
  <2> QED
    BY <1>2, <2>1, <2>2, FinishesStep DEF Rejects, FailureOf, RetryState, Outcomes
<1> QED
  BY <1>1, <1>2

(* A job is put back to waiting when no slot works on it.                  *)
LEMMA WaitingAgain ==
  ASSUME TaskInv, NEW r \in Runs, Promotes(r) \/ StallRecovers(r)
  PROVE  TaskInv'
<1>0. /\ TypeOK /\ queue[r].state \in {"delayed", "active"} /\ queue[r] \in QueueRow
      /\ queue[r].attemptsMade < MaxAttempts
  BY Typed DEF Promotes, StallRecovers, TaskInv, QueueTraced
<1> DEFINE again(n) == [queue[r] EXCEPT !.state = "waiting", !.stalls = n]
<1>1. PICK n \in Nat : queue' = [queue EXCEPT ![r] = again(n)]
  <2>1. CASE Promotes(r)
    <3>1. queue' = [queue EXCEPT ![r] = again(queue[r].stalls)] /\ queue[r].stalls \in Nat
      BY <1>0, <2>1, Typed DEF Promotes, QueueRow
    <3> QED
      BY <3>1
  <2>2. CASE StallRecovers(r)
    <3>1. queue' = [queue EXCEPT ![r] = again(queue[r].stalls + 1)] /\ queue[r].stalls + 1 \in Nat
      BY <1>0, <2>2, Typed DEF StallRecovers, QueueRow
    <3> QED
      BY <3>1
  <2> QED
    BY <2>1, <2>2
<1> DEFINE row == again(n)
<1>2. row \in QueueRow /\ row.state = "waiting" /\ row.attemptsMade < MaxAttempts
  BY <1>0 DEF QueueRow, QueueStates
<1> HIDE DEF row
<1>3. UNCHANGED <<project, task, run, job, github, handlers, call, slot, faults>>
  BY DEF Promotes, StallRecovers
<1>4. \A u \in Slots : ~On(u, "idle") => slot[u].run \in Runs /\ slot[u].run # r
  BY BusySlot DEF Promotes, StallRecovers, Working
<1>5. \A q \in Runs : q # r => queue'[q] = queue[q]
  BY <1>0, <1>1, Typed
<1>6. (\A u \in Slots : SlotOk(u)') /\ OneSlotEach' /\ slot' \in [Slots -> SlotRow]
  BY <1>0, <1>3, <1>4, <1>5, Typed DEF TaskInv, SlotOk, OneSlotEach, On
<1>7. job' \in [Runs -> JobRow] /\ \A q \in Runs : q # r => job'[q].external = job[q].external
  BY <1>0, <1>3, Typed
<1>8. queue' = [queue EXCEPT ![r] = row]
  BY <1>1 DEF row
<1> QED
  BY <1>0, <1>2, <1>3, <1>6, <1>7, <1>8, QueueMoves

(* BullMQ gives up a waiting job that stalled too often, which no slot works*)
(* on.                                                                     *)
LEMMA FailsStalledStep ==
  ASSUME TaskInv, NEW s \in Slots, NEW r \in Runs, FailsStalled(s, r)
  PROVE  TaskInv'
<1> DEFINE row == [queue[r] EXCEPT !.state = "failed", !.attemptsMade = queue[r].attemptsMade + 1]
<1>0. TypeOK /\ queue[r].state = "waiting" /\ queue[r] \in QueueRow /\ queue[r].attemptsMade < MaxAttempts
  BY Typed DEF FailsStalled, TaskInv, QueueTraced
<1>1. queue[r].attemptsMade + 1 \in 0 .. MaxAttempts
  BY <1>0, BoundsAssumption DEF QueueRow
<1>2. row \in QueueRow /\ row.state = "failed"
  BY <1>0, <1>1 DEF QueueRow, QueueStates
<1>3. queue' = [queue EXCEPT ![r] = row]
  BY <1>0, Typed DEF FailsStalled
<1> HIDE DEF row
<1>4. /\ UNCHANGED <<project, task, run, job, github, call, slot, faults>>
      /\ handlers' \subseteq handlers \cup ({r} \X Outcomes)
  BY DEF FailsStalled, FailureOf, Outcomes
<1>5. \A u \in Slots : ~On(u, "idle") => slot[u].run \in Runs /\ slot[u].run # r
  BY <1>0, BusySlot
<1>6. \A q \in Runs : q # r => queue'[q] = queue[q]
  BY <1>0, <1>3, Typed
<1>7. (\A u \in Slots : SlotOk(u)') /\ OneSlotEach' /\ slot' \in [Slots -> SlotRow]
  BY <1>0, <1>4, <1>5, <1>6, Typed DEF TaskInv, SlotOk, OneSlotEach, On
<1>8. job' \in [Runs -> JobRow] /\ \A q \in Runs : q # r => job'[q].external = job[q].external
  BY <1>0, <1>4, Typed
<1> QED
  BY <1>0, <1>2, <1>3, <1>4, <1>7, <1>8, QueueMoves

(* The handlers' writes.                                                   *)
LEMMA LandsStep ==
  ASSUME TaskInv, NEW r \in Runs, NEW outcome \in Outcomes, Lands(r, outcome)
  PROVE  TaskInv'
<1>0. TypeOK /\ queue[r].state # "none" /\ run[r] # "none" /\ r[1] \in Tasks
  BY DEF TaskInv, HandlersTraced, HandlerPending, QueueTraced, Lands, Runs
<1>1. handlers' \subseteq handlers /\ UNCHANGED <<project, queue, github, call, slot, faults>>
  BY DEF Lands
<1>2. job' \in [Runs -> JobRow] /\ \A q \in Runs : job'[q].external = job[q].external
  <2>1. JobStatusOf(outcome) \in JobStatuses
    BY DEF JobStatusOf, JobStatuses, Outcomes
  <2> QED
    BY <1>0, <2>1, Typed DEF Lands, JobRow
<1>3. slot' \in [Slots -> SlotRow] /\ (\A u \in Slots : SlotOk(u)') /\ OneSlotEach'
  BY <1>0, <1>1, Typed DEF TaskInv, SlotOk, OneSlotEach, On
<1>4. ASSUME NEW status \in {"QUEUED", "DEAD_LETTER"}, NEW runStatus \in {"QUEUED", "FAILED"},
             task' = [task EXCEPT ![r[1]].status = status], run' = [run EXCEPT ![r] = runStatus]
      PROVE  TaskInv'
  <2>1. /\ status \in TaskStatuses /\ status # "DRAFT" /\ runStatus \in RunStatuses /\ runStatus # "none"
        /\ "SUCCEEDED" \notin {status, runStatus}
    BY DEF TaskStatuses, RunStatuses
  <2> QED
    BY <1>0, <1>1, <1>2, <1>3, <1>4, <2>1, RowsStep
<1>5. CASE outcome \in {"retry", "exhausted"}
  BY <1>4, <1>5 DEF Lands
<1>6. CASE outcome \in {"succeeded", "cancelled"}
  <2>1. UNCHANGED <<task, run>>
    BY <1>6 DEF Lands
  <2>2. ClaimedInOrder' /\ QueueTraced' /\ HandlersTraced' /\ SucceededHasPullRequest'
    BY <1>1, <1>2, <2>1 DEF TaskInv, ClaimedInOrder, QueueTraced, HandlersTraced, HandlerPending,
                            SucceededHasPullRequest
  <2>3. (\A c \in Calls : CallOk(c)') /\ EnqueuedOnce'
    BY <1>1, <2>1 DEF TaskInv, CallOk, EnqueuedOnce, At, RunOf, JobOf
  <2>4. TypeOK'
    BY <1>0, <1>1, <1>2, <2>1 DEF TypeOK, JobRow
  <2> QED
    BY <1>3, <2>2, <2>3, <2>4 DEF TaskInv
<1> QED
  BY <1>5, <1>6 DEF Outcomes

(* What dies with the worker, and what people do, breaks nothing.          *)
LEMMA WorkerCrashesStep == ASSUME TaskInv, WorkerCrashes PROVE TaskInv'
<1> USE DEF TaskInv
<1>1. slot' \in [Slots -> SlotRow] /\ \A s \in Slots : slot'[s].pc = "idle"
  BY FirstRows DEF WorkerCrashes
<1>2. UNCHANGED <<project, task, run, job, queue, github, call>> /\ handlers' = {}
  BY DEF WorkerCrashes
<1>3. faults' \in [count : 0 .. MaxFaults, lost : BOOLEAN]
  <2>1. faults \in [count : 0 .. MaxFaults, lost : BOOLEAN]
    BY DEF TypeOK
  <2>2. faults.count + 1 \in 0 .. MaxFaults
    BY <2>1, BoundsAssumption DEF WorkerCrashes, Fails
  <2> QED
    BY <2>1, <2>2 DEF WorkerCrashes, Fails
<1>4. TypeOK'
  BY <1>1, <1>2, <1>3 DEF TypeOK, SlotRow
<1>5. ClaimedInOrder' /\ QueueTraced' /\ HandlersTraced' /\ SucceededHasPullRequest'
  BY <1>2 DEF ClaimedInOrder, QueueTraced, HandlersTraced, HandlerPending, SucceededHasPullRequest
<1>6. (\A c \in Calls : CallOk(c)') /\ EnqueuedOnce'
  BY <1>2 DEF CallOk, EnqueuedOnce, At, RunOf, JobOf
<1>7. (\A s \in Slots : SlotOk(s)') /\ OneSlotEach'
  BY <1>1 DEF SlotOk, OneSlotEach, On
<1> QED
  BY <1>4, <1>5, <1>6, <1>7

(* Whoever moves the project touches nothing the invariant is about. *)
LEMMA ProjectMoves ==
  ASSUME TaskInv, project' \in ProjectStatuses,
         UNCHANGED <<task, run, job, queue, github, handlers, call, slot, faults>>
  PROVE  TaskInv'
<1> USE DEF TaskInv
<1>1. TypeOK'
  BY DEF TypeOK
<1>2. ClaimedInOrder' /\ QueueTraced' /\ HandlersTraced' /\ SucceededHasPullRequest'
  BY DEF ClaimedInOrder, QueueTraced, HandlersTraced, HandlerPending, SucceededHasPullRequest
<1>3. (\A c \in Calls : CallOk(c)') /\ EnqueuedOnce'
  BY DEF CallOk, EnqueuedOnce, At, RunOf, JobOf
<1>4. (\A s \in Slots : SlotOk(s)') /\ OneSlotEach'
  BY DEF SlotOk, OneSlotEach, On
<1> QED
  BY <1>1, <1>2, <1>3, <1>4

(* One case per action of Next. *)
LEMMA StepKeepsTaskInv == ASSUME TaskInv, [Next]_vars PROVE TaskInv'
<1>1. ASSUME NEW c \in Calls, StartStep(c) PROVE TaskInv'
  BY <1>1, ReadingSteps, StartClaimsStep DEF StartStep
<1>2. ASSUME NEW c \in Calls, FollowUpStep(c) PROVE TaskInv'
  BY <1>2, ReadingSteps, FollowUpCommitsStep DEF FollowUpStep
<1>3. ASSUME NEW c \in Calls, QueueingStep(c) PROVE TaskInv'
  BY <1>3, ReadingSteps, EnqueuesStep, LinksStep DEF QueueingStep
<1>4. ASSUME NEW c \in Calls, CancelStep(c) PROVE TaskInv'
  BY <1>4, ReadingSteps, FindingStep, CancelRequestsStep, CancelRemovesStep, CancelConfirmsStep DEF CancelStep
<1>5. ASSUME NEW c \in Calls, CallDies(c) PROVE TaskInv'
  BY <1>5, ReadingSteps
<1>6. ASSUME NEW s \in Slots, WorkStep(s) \/ DisturbedStep(s) PROVE TaskInv'
  BY <1>6, WorkingSteps, MarkingSteps, ExecutesStep, RecordsQualityStep, EndingSteps, AbortingSteps
     DEF WorkStep, DisturbedStep
<1>7. ASSUME NEW s \in Slots, NEW r \in Runs, Takes(s, r) \/ FailsStalled(s, r) PROVE TaskInv'
  BY <1>7, TakesStep, FailsStalledStep
<1>8. ASSUME NEW r \in Runs, NEW o \in Outcomes, Lands(r, o) PROVE TaskInv'
  BY <1>8, LandsStep
<1>9. ASSUME NEW r \in Runs, Promotes(r) \/ StallRecovers(r) PROVE TaskInv'
  BY <1>9, WaitingAgain
<1>10. CASE WorkerCrashes
  BY <1>10, WorkerCrashesStep
<1>11. CASE PersonMoves
  BY <1>11, ProjectMoves, BoundsAssumption DEF PersonMoves
<1>12. CASE UNCHANGED vars
  BY <1>12, ProjectMoves DEF vars, TaskInv, TypeOK
<1> QED
  BY <1>1, <1>2, <1>3, <1>4, <1>5, <1>6, <1>7, <1>8, <1>9, <1>10, <1>11, <1>12 DEF Next, Calls

(* The rows, the queue, the calls and the slots own each other as described*)
(* in every state.                                                         *)
THEOREM TaskInvHolds == Spec => []TaskInv
  BY InitTaskInv, StepKeepsTaskInv, PTL DEF Spec

(* Every variable of the tasks keeps its type; attemptsMade never passes   *)
(* CODEX_JOB_MAX_ATTEMPTS.                                                 *)
THEOREM TasksTypeCorrect == Spec => []TypeOK
<1>1. TaskInv => TypeOK
  BY DEF TaskInv
<1> QED
  BY <1>1, TaskInvHolds, PTL

(* No run and no task is marked SUCCEEDED before its pull request is open. *)
THEOREM SuccessHasEvidence == Spec => []SucceededHasPullRequest
<1>1. TaskInv => SucceededHasPullRequest
  BY DEF TaskInv
<1> QED
  BY <1>1, TaskInvHolds, PTL

(* A run whose waiting job a cancel has removed is executed by no slot,    *)
(* whatever BullMQ and the worker do with retries, stalls and crashes.     *)
THEOREM ConfirmedCancelHolds == Spec => []ConfirmedCancelNeverRuns
<1>1. TaskInv => ConfirmedCancelNeverRuns
  <2> SUFFICES ASSUME TaskInv, NEW c \in Cancels, At(c, "confirmed"), NEW s \in Slots, ~On(s, "idle"),
                      slot[s].run = JobOf(c)
               PROVE  FALSE
    BY DEF ConfirmedCancelNeverRuns, Working
  <2>1. queue[JobOf(c)].state = "removed"
    BY DEF TaskInv, CallOk, At, Calls
  <2> QED
    BY <2>1, BusySlot
<1> QED
  BY <1>1, TaskInvHolds, PTL

(* Of the starts of a draft one is let through: the claim of another finds *)
(* the run created.                                                        *)
THEOREM OneStartEach == Spec => StartedOnce
<1>1. ASSUME TaskInv, [Next]_vars
      PROVE  [\A c \in Starts : StartClaims(c) /\ call'[c].pc = "enqueue" =>
                                  run[<<call[c].task, 1>>] = "none"]_vars
  <2> SUFFICES ASSUME NEW c \in Starts, StartClaims(c), call'[c].pc = "enqueue"
               PROVE  run[<<call[c].task, 1>>] = "none"
    OBVIOUS
  <2>1. c \in Calls
    BY DEF Calls
  <2>2. TypeOK /\ ClaimedInOrder
    BY <1>1 DEF TaskInv
  <2>3. ~Ends(c)
    BY <2>1, <2>2, CallMoves
  <2>4. task[call[c].task].status = "DRAFT"
    BY <2>3 DEF StartClaims, Claimable
  <2>5. call[c] \in CallRow
    BY <2>1, <2>2, CallMoves
  <2>6. call[c].task \in Tasks /\ 1 \in Versions
    BY <2>5, BoundsAssumption DEF CallRow, Versions
  <2> QED
    BY <2>2, <2>4, <2>6 DEF ClaimedInOrder
<1> QED
  BY <1>1, TaskInvHolds, PTL DEF Spec, StartedOnce

-----------------------------------------------------------------------------
\* Without follow-ups a task has one version.
OneVersion == \A t \in Tasks : task[t].version = 1

(* Without follow-ups no task ever has a second instruction version. *)
LEMMA StepKeepsOneVersion ==
  ASSUME FollowUps = {}, TaskInv, OneVersion, [Next]_vars
  PROVE  OneVersion'
<1>1. task \in [Tasks -> TaskRow] /\ \A s \in Slots : slot[s] \in SlotRow
  BY Typed DEF TaskInv
<1>2. ASSUME NEW t, NEW status, task' = [task EXCEPT ![t].status = status] PROVE OneVersion'
  BY <1>1, <1>2 DEF OneVersion, TaskRow
<1>3. CASE task' = task
  BY <1>3 DEF OneVersion
<1>4. ASSUME NEW c \in Calls, StartStep(c) PROVE OneVersion'
  BY <1>2, <1>3, <1>4 DEF StartStep, StartReads, StartClaims, ClaimedTask
<1>5. ASSUME NEW c \in Calls, QueueingStep(c) \/ CallDies(c) PROVE task' = task
  BY <1>5 DEF QueueingStep, Enqueues, Links, ReadsProject, WritesProject, CallDies
<1>6. ASSUME NEW c \in Calls, CancelStep(c) PROVE OneVersion'
  <2>1. CASE CancelRequests(c)
    BY <1>1, <2>1 DEF CancelRequests, OneVersion, TaskRow
  <2>2. CASE CancelConfirms(c)
    BY <1>2, <2>2 DEF CancelConfirms
  <2>3. CASE CancelReads(c) \/ CancelFinds(c) \/ CancelInspects(c) \/ CancelRemoves(c)
    BY <1>3, <2>3 DEF CancelReads, CancelFinds, CancelInspects, CancelRemoves
  <2> QED
    BY <1>6, <2>1, <2>2, <2>3 DEF CancelStep
<1>7. ASSUME NEW s \in Slots, WorkStep(s) \/ DisturbedStep(s) PROVE OneVersion'
  <2>1. CASE MarksRunning(s) \/ MarksSucceeded(s) \/ MarksCancelled(s)
    BY <1>2, <2>1 DEF MarksRunning, MarksSucceeded, MarksCancelled
  <2>2. CASE ~(MarksRunning(s) \/ MarksSucceeded(s) \/ MarksCancelled(s))
    BY <1>3, <1>7, <2>2 DEF WorkStep, DisturbedStep, Loads, SlotReadsProject, SlotWritesProject, Executes,
       RecordsQuality, Catches, Completes, Rejects, Finishes, Throws, CancellationPoll, TimesOut
  <2> QED
    BY <2>1, <2>2
<1>8. ASSUME NEW r \in Runs, NEW o \in Outcomes, Lands(r, o) PROVE OneVersion'
  BY <1>2, <1>3, <1>8 DEF Lands
<1>9. ASSUME NEW s \in Slots, NEW r \in Runs, Takes(s, r) \/ FailsStalled(s, r) PROVE task' = task
  BY <1>9 DEF Takes, FailsStalled
<1>10. ASSUME NEW r \in Runs, Promotes(r) \/ StallRecovers(r) PROVE task' = task
  BY <1>10 DEF Promotes, StallRecovers
<1>11. CASE WorkerCrashes \/ PersonMoves \/ UNCHANGED vars
  BY <1>3, <1>11 DEF WorkerCrashes, PersonMoves, vars
<1> QED
  BY <1>3, <1>4, <1>5, <1>6, <1>7, <1>8, <1>9, <1>10, <1>11 DEF Next, Calls

(* While nobody sends a follow-up, no two slots work on one task: a task   *)
(* has one run, and BullMQ gives it to one slot at a time.                 *)
THEOREM NoTwoSlotsPerTask == FollowUps = {} => (Spec => []NoConcurrentAttempts)
<1> SUFFICES ASSUME FollowUps = {} PROVE Spec => []NoConcurrentAttempts
  OBVIOUS
<1>1. Init => OneVersion
  BY DEF Init, OneVersion
<1>2. TaskInv /\ OneVersion /\ [Next]_vars => OneVersion'
  BY StepKeepsOneVersion
<1>3. TaskInv /\ OneVersion => NoConcurrentAttempts
  <2> SUFFICES ASSUME TaskInv, OneVersion, NEW s \in Slots, NEW u \in Slots, s # u,
                      ~On(s, "idle"), ~On(u, "idle")
               PROVE  TaskOf(s) # TaskOf(u)
    BY DEF NoConcurrentAttempts
  <2>1. ASSUME NEW w \in Slots, ~On(w, "idle") PROVE slot[w].run = <<TaskOf(w), 1>>
    <3>1. slot[w].run \in Runs /\ run[slot[w].run] # "none"
      BY <2>1, BusySlot
    <3>2. slot[w].run = <<slot[w].run[1], slot[w].run[2]>> /\ slot[w].run[1] \in Tasks /\ slot[w].run[2] \in Versions
      BY <3>1 DEF Runs
    <3>3. slot[w].run[2] <= 1
      BY <3>1, <3>2 DEF TaskInv, ClaimedInOrder, OneVersion
    <3>4. slot[w].run[2] = 1
      BY <3>2, <3>3, BoundsAssumption DEF Versions
    <3> QED
      BY <3>2, <3>4 DEF TaskOf
  <2>2. slot[s].run # slot[u].run
    BY BusySlot
  <2> QED
    BY <2>1, <2>2
<1> QED
  BY <1>1, <1>2, <1>3, TaskInvHolds, PTL DEF Spec

-----------------------------------------------------------------------------
\* The handlers on their way say what BullMQ has made of the job, unless it gave it up
\* for stalling.
PendingFits(r) ==
  \A o \in Outcomes : <<r, o>> \in handlers =>
    \/ queue[r].state = "delayed" /\ o = "retry"
    \/ queue[r].state = "failed" /\ (o = "exhausted" \/ StalledOut(r))
    \/ queue[r].state = "completed" /\ o \in {"succeeded", "cancelled"}
    \/ queue[r].state = "removed"

Settles(r) ==
  ~faults.lost /\ ~HandlerPending(r) =>
    /\ queue[r].state = "failed" /\ ~StalledOut(r) => job[r].status = "DEAD_LETTER"
    /\ queue[r].state = "completed" => job[r].status \in {"SUCCEEDED", "CANCELLED"}

RecordsInv == \A r \in Runs : PendingFits(r) /\ Settles(r)

\* Nothing about this run changes that its Job row is to agree with.
RecordStays(q) ==
  /\ queue'[q] = queue[q] /\ job'[q].status = job[q].status
  /\ \A o \in Outcomes : <<q, o>> \in handlers' <=> <<q, o>> \in handlers

(* A Job row that stays settled, or settles, keeps the invariant of the records. *)
LEMMA RecordStep ==
  ASSUME RecordsInv, faults.lost => faults'.lost,
         \A q \in Runs : RecordStays(q) \/ (PendingFits(q)' /\ Settles(q)')
  PROVE  RecordsInv'
<1> SUFFICES ASSUME NEW q \in Runs, RecordStays(q) PROVE PendingFits(q)' /\ Settles(q)'
  BY DEF RecordsInv
<1>1. PendingFits(q) /\ Settles(q)
  BY DEF RecordsInv
<1> QED
  BY <1>1 DEF RecordStays, PendingFits, Settles, HandlerPending, StalledOut

(* A step that moves one job.                                              *)
LEMMA OneRecordStep ==
  ASSUME RecordsInv, NEW r \in Runs, faults' = faults,
         \A q \in Runs : q # r => RecordStays(q),
         PendingFits(r)', Settles(r)'
  PROVE  RecordsInv'
<1>1. ASSUME NEW q \in Runs PROVE RecordStays(q) \/ (PendingFits(q)' /\ Settles(q)')
  <2>1. CASE q = r
    BY <2>1 DEF PendingFits, Settles, HandlerPending
  <2>2. CASE q # r
    BY <2>2
  <2> QED
    BY <2>1, <2>2
<1> QED
  BY <1>1, RecordStep

(* The steps that touch neither BullMQ, nor its handlers, nor a job's      *)
(* status.                                                                 *)
LEMMA RecordFrame ==
  ASSUME TaskInv, RecordsInv, UNCHANGED <<queue, handlers>>, faults.lost => faults'.lost,
         \A q \in Runs : job'[q].status = job[q].status
  PROVE  RecordsInv'
<1>1. \A q \in Runs : RecordStays(q)
  BY DEF RecordStays
<1> QED
  BY <1>1, RecordStep

(* A run that is created or enqueued was in no hands before.               *)
LEMMA NewRecordStep ==
  ASSUME TaskInv, RecordsInv, NEW r \in Runs, UNCHANGED <<handlers, faults>>,
         queue[r].state = "none", queue'[r].state \in {"none", "waiting"},
         \A q \in Runs : q # r => queue'[q] = queue[q] /\ job'[q] = job[q]
  PROVE  RecordsInv'
<1>1. ~HandlerPending(r)
  BY DEF TaskInv, HandlersTraced
<1>2. PendingFits(r)' /\ Settles(r)'
  BY <1>1 DEF PendingFits, Settles, HandlerPending
<1>3. \A q \in Runs : q # r => RecordStays(q)
  BY DEF RecordStays
<1> QED
  BY <1>2, <1>3, OneRecordStep

(* A run that was just created has a Job row nobody has ended. *)
LEMMA CreationsKeepRecords ==
  ASSUME TaskInv, RecordsInv, NEW c \in Calls, StartClaims(c) \/ FollowUpCommits(c)
  PROVE  RecordsInv'
<1>0. TypeOK /\ ClaimedInOrder /\ QueueTraced /\ call[c] \in CallRow
  BY Typed DEF TaskInv
<1>1. ASSUME NEW t \in Tasks, NEW v \in Versions, CreateRun(t, v), run[<<t, v>>] = "none",
             UNCHANGED <<queue, handlers, faults>>
      PROVE  RecordsInv'
  <2>1. <<t, v>> \in Runs /\ queue[<<t, v>>].state = "none"
    BY <1>0, <1>1 DEF QueueTraced, Runs
  <2>2. \A q \in Runs : q # <<t, v>> => job'[q] = job[q]
    BY <1>0, <1>1, Typed DEF CreateRun
  <2> QED
    BY <1>1, <2>1, <2>2, NewRecordStep
<1>2. call[c].task \in Tasks /\ 1 \in Versions /\ task[call[c].task] \in TaskRow
  BY <1>0, Typed, BoundsAssumption DEF CallRow, Versions
<1>3. CASE StartClaims(c) /\ Claimable(call[c].task)
  BY <1>0, <1>1, <1>2, <1>3 DEF StartClaims, Claimable, ClaimedInOrder
<1>4. CASE StartClaims(c) /\ ~Claimable(call[c].task)
  BY <1>4, RecordFrame DEF StartClaims
<1>5. CASE FollowUpCommits(c)
  <2>1. task[call[c].task].version + 1 \in Versions
    BY <1>2, <1>5 DEF FollowUpCommits, TaskRow, Versions
  <2>2. run[<<call[c].task, task[call[c].task].version + 1>>] = "none"
    BY <1>0, <1>2, <2>1 DEF ClaimedInOrder, TaskRow, Versions
  <2> QED
    BY <1>1, <1>2, <1>5, <2>1, <2>2 DEF FollowUpCommits
<1> QED
  BY <1>3, <1>4, <1>5

(* The steps of a cancel; the jobs it marks CANCELLED are out of the queue.*)
LEMMA CancelsKeepRecords ==
  ASSUME TaskInv, RecordsInv, NEW c \in Calls, CancelStep(c)
  PROVE  RecordsInv'
<1>1. CASE CancelReads(c) \/ CancelFinds(c) \/ CancelRequests(c) \/ CancelInspects(c)
  BY <1>1, RecordFrame DEF CancelReads, CancelFinds, CancelRequests, CancelInspects
<1>2. CASE CancelRemoves(c)
  <2>1. UNCHANGED <<handlers, faults, job>>
    BY <1>2 DEF CancelRemoves
  <2>2. CASE UNCHANGED queue
    BY <2>1, <2>2, RecordFrame
  <2>3. CASE queue' = [queue EXCEPT ![JobOf(c)].state = "removed"] /\ JobOf(c) \in Runs
    <3>1. /\ queue'[JobOf(c)].state = "removed"
          /\ \A q \in Runs : q # JobOf(c) => queue'[q] = queue[q]
      BY <2>3, Typed DEF TaskInv
    <3>3. \A q \in Runs : q # JobOf(c) => RecordStays(q)
      BY <2>1, <3>1 DEF RecordStays
    <3>4. PICK r \in Runs : r = JobOf(c)
      BY <2>3
    <3>5. PendingFits(r)' /\ Settles(r)'
      BY <2>1, <3>1, <3>4 DEF PendingFits, Settles
    <3> QED
      BY <2>1, <3>3, <3>4, <3>5, OneRecordStep
  <2>4. CASE JobOf(c) \notin Runs
    <3>1. queue \in [Runs -> QueueRow]
      BY Typed DEF TaskInv
    <3> QED
      BY <1>2, <2>2, <2>4, <3>1 DEF CancelRemoves
  <2> QED
    BY <1>2, <2>2, <2>3, <2>4 DEF CancelRemoves
<1>3. CASE CancelConfirms(c)
  <2>1. JobOf(c) \in Runs /\ queue[JobOf(c)].state = "removed"
    <3>1. call[c] \in CallRow /\ CallOk(c) /\ call[c].pc = "confirm"
      BY <1>3, CallMoves DEF CancelConfirms, TaskInv, At
    <3> QED
      BY <3>1 DEF CallRow, CallOk, JobOf, Runs, Versions
  <2>2. PICK r \in Runs : r = JobOf(c)
    BY <2>1
  <2>3. UNCHANGED <<queue, handlers, faults>> /\ \A q \in Runs : q # r => job'[q] = job[q]
    BY <1>3, <2>2, Typed DEF CancelConfirms, TaskInv
  <2>4. PendingFits(r)' /\ Settles(r)'
    BY <2>1, <2>2, <2>3 DEF RecordsInv, PendingFits, Settles
  <2>5. \A q \in Runs : q # r => RecordStays(q)
    BY <2>3 DEF RecordStays
  <2> QED
    BY <2>3, <2>4, <2>5, OneRecordStep
<1> QED
  BY <1>1, <1>2, <1>3 DEF CancelStep

(* An attempt ends: exactly one handler is on its way, the one that says   *)
(* what BullMQ did.                                                        *)
LEMMA FinishKeepsRecords ==
  ASSUME TaskInv, RecordsInv, NEW s \in Slots, NEW state, NEW outcome \in Outcomes,
         ~On(s, "idle"), Finishes(s, state, outcome),
         \/ state = "completed" /\ outcome \in {"succeeded", "cancelled"}
         \/ state = "delayed" /\ outcome = "retry"
         \/ state = "failed" /\ outcome = "exhausted"
  PROVE  RecordsInv'
<1>1. PICK r \in Runs : r = slot[s].run
  BY BusySlot
<1>2. queue[r].state = "active" /\ TypeOK
  BY <1>1 DEF TaskInv, SlotOk
<1>3. /\ handlers' = handlers \cup {<<r, outcome>>} /\ UNCHANGED <<job, faults>>
      /\ queue'[r].state = state /\ \A q \in Runs : q # r => queue'[q] = queue[q]
  <2>1. queue[r] \in QueueRow /\ queue \in [Runs -> QueueRow]
    BY <1>2, Typed
  <2> QED
    BY <1>1, <2>1 DEF Finishes, QueueRow
<1>4. ~HandlerPending(r)
  BY <1>2 DEF RecordsInv, PendingFits, HandlerPending
<1>5. HandlerPending(r)'
  BY <1>3 DEF HandlerPending
<1>6. PendingFits(r)' /\ Settles(r)'
  BY <1>3, <1>4, <1>5 DEF PendingFits, Settles, HandlerPending
<1>7. \A q \in Runs : q # r => RecordStays(q)
  BY <1>3 DEF RecordStays
<1> QED
  BY <1>3, <1>6, <1>7, OneRecordStep

(* Only the run of the slot that steps is concerned; the handler that
   Completes or Rejects leaves behind carries what its Job row lacks. *)
LEMMA WorkKeepsRecords ==
  ASSUME TaskInv, RecordsInv, NEW s \in Slots, WorkStep(s) \/ DisturbedStep(s)
  PROVE  RecordsInv'
<1>1. CASE Completes(s)
  BY <1>1, FinishKeepsRecords DEF Completes, On, Outcomes
<1>2. CASE Rejects(s)
  <2>1. ~On(s, "idle")
    BY <1>2 DEF Rejects, On
  <2>2. slot[s].run \in Runs
    BY <2>1, BusySlot
  <2>3. queue[slot[s].run].attemptsMade \in Nat
    BY <2>2, Typed, BoundsAssumption DEF TaskInv, QueueRow
  <2>4. \/ RetryState(slot[s].run) = "delayed" /\ ~Exhausted(slot[s].run)
        \/ RetryState(slot[s].run) = "failed" /\ Exhausted(slot[s].run)
    BY <2>3, BoundsAssumption DEF RetryState, Exhausted
  <2> QED
    BY <1>2, <2>1, <2>4, FinishKeepsRecords DEF Rejects, FailureOf, Outcomes
<1>3. CASE ~Completes(s) /\ ~Rejects(s)
  <2>1. CASE WorkStep(s)
    BY <1>3, <2>1, RecordFrame
       DEF WorkStep, Loads, MarksRunning, SlotReadsProject, SlotWritesProject, Executes,
           MarksSucceeded, RecordsQuality, Catches, MarksCancelled
  <2>2. CASE Throws(s) \/ CancellationPoll(s)
    BY <2>2, RecordFrame DEF Throws, CancellationPoll
  <2>3. CASE TimesOut(s)
    BY <2>3, RecordFrame DEF TimesOut, Fails
  <2> QED
    BY <2>1, <2>2, <2>3 DEF DisturbedStep
<1> QED
  BY <1>1, <1>2, <1>3

(* A handler that lands writes the status of what BullMQ did, and it was   *)
(* the only one.                                                           *)
LEMMA LandingKeepsRecords ==
  ASSUME TaskInv, RecordsInv, NEW r \in Runs, NEW outcome \in Outcomes, Lands(r, outcome)
  PROVE  RecordsInv'
<1>1. /\ UNCHANGED <<queue, faults>> /\ handlers' = handlers \ {<<r, outcome>>}
      /\ <<r, outcome>> \in handlers
      /\ job'[r].status = JobStatusOf(outcome) /\ \A q \in Runs : q # r => job'[q] = job[q]
  <2>1. job \in [Runs -> JobRow] /\ job[r] \in JobRow
    BY Typed DEF TaskInv
  <2> QED
    BY <2>1 DEF Lands, JobRow
<1>2. PendingFits(r)
  BY DEF RecordsInv
<1>3. PendingFits(r)'
  BY <1>1, <1>2 DEF PendingFits, StalledOut
<1>4. Settles(r)'
  BY <1>1, <1>2 DEF PendingFits, Settles, StalledOut, JobStatusOf
<1>5. \A q \in Runs : q # r => RecordStays(q)
  BY <1>1 DEF RecordStays
<1> QED
  BY <1>1, <1>3, <1>4, <1>5, OneRecordStep

(* BullMQ hands a job on: nothing of it is unsettled, because the handler  *)
(* of the failed attempt has landed before its delay is over.              *)
LEMMA QueueKeepsRecords ==
  ASSUME BackoffCoversHandler, TaskInv, RecordsInv, NEW r \in Runs,
         Promotes(r) \/ StallRecovers(r) \/ \E s \in Slots : Takes(s, r)
  PROVE  RecordsInv'
<1>1. /\ queue'[r].state \in {"waiting", "active"} /\ UNCHANGED <<handlers, faults>>
      /\ \A q \in Runs : q # r => queue'[q] = queue[q] /\ job'[q] = job[q]
  <2>1. /\ queue \in [Runs -> QueueRow] /\ queue[r] \in QueueRow
        /\ job \in [Runs -> JobRow] /\ job[r] \in JobRow
    BY Typed DEF TaskInv
  <2> QED
    BY <2>1 DEF Promotes, StallRecovers, Takes, QueueRow
<1>2. ~HandlerPending(r)
  BY DEF RecordsInv, PendingFits, HandlerPending, Promotes, StallRecovers, Takes
<1>3. PendingFits(r)' /\ Settles(r)'
  BY <1>1, <1>2 DEF PendingFits, Settles, HandlerPending
<1>4. \A q \in Runs : q # r => RecordStays(q)
  BY <1>1 DEF RecordStays
<1> QED
  BY <1>1, <1>3, <1>4, OneRecordStep

(* BullMQ gives up a job that stalled too often; its Job row is excepted.  *)
LEMMA FailsStalledKeepsRecords ==
  ASSUME TaskInv, RecordsInv, NEW r \in Runs, NEW s \in Slots, FailsStalled(s, r)
  PROVE  RecordsInv'
<1>1. queue \in [Runs -> QueueRow] /\ queue[r] \in QueueRow
  BY Typed DEF TaskInv
<1>2. /\ queue'[r].state = "failed" /\ queue'[r].stalls = queue[r].stalls /\ StalledOut(r)
      /\ \A q \in Runs : q # r => queue'[q] = queue[q]
  BY <1>1 DEF FailsStalled, QueueRow
<1>3. StalledOut(r)'
  BY <1>2 DEF StalledOut
<1>4. PendingFits(r)' /\ Settles(r)'
  BY <1>2, <1>3 DEF PendingFits, Settles
<1>5. \A q \in Runs : q # r => RecordStays(q)
  BY <1>2 DEF FailsStalled, RecordStays
<1>6. faults' = faults
  BY DEF FailsStalled
<1> QED
  BY <1>4, <1>5, <1>6, OneRecordStep

(* A crash that loses a handler is recorded in faults.lost. *)
LEMMA CrashKeepsRecords == ASSUME TaskInv, RecordsInv, WorkerCrashes PROVE RecordsInv'
<1>1. handlers' = {} /\ UNCHANGED <<queue, job>> /\ faults'.lost = (faults.lost \/ handlers # {})
  BY DEF WorkerCrashes, Fails
<1>2. CASE handlers = {}
  BY <1>1, <1>2, RecordFrame
<1>3. CASE handlers # {}
  BY <1>1, <1>3 DEF RecordsInv, PendingFits, Settles
<1> QED
  BY <1>2, <1>3

(* One case per action of Next. *)
LEMMA StepKeepsRecords ==
  ASSUME BackoffCoversHandler, TaskInv, RecordsInv, [Next]_vars
  PROVE  RecordsInv'
<1>1. ASSUME NEW c \in Calls, StartStep(c) \/ FollowUpStep(c) PROVE RecordsInv'
  <2>1. CASE StartReads(c) \/ FollowUpReads(c)
    BY <2>1, RecordFrame DEF StartReads, FollowUpReads
  <2> QED
    BY <1>1, <2>1, CreationsKeepRecords DEF StartStep, FollowUpStep
<1>2. ASSUME NEW c \in Calls, QueueingStep(c) PROVE RecordsInv'
  <2>1. CASE Enqueues(c)
    <3>1. call[c] \in CallRow /\ CallOk(c) /\ call[c].pc = "enqueue"
      BY <2>1, CallMoves DEF Enqueues, TaskInv, At
    <3>2. PICK r \in Runs : r = RunOf(c)
      BY <3>1 DEF CallRow, CallOk, RunOf, Runs, Versions
    <3>3. queue \in [Runs -> QueueRow] /\ queue[r] \in QueueRow /\ queue[r].state = "none"
      BY <3>1, <3>2, Typed DEF TaskInv, CallOk
    <3>4. /\ UNCHANGED <<handlers, faults, job>> /\ queue'[r].state = "waiting"
          /\ \A q \in Runs : q # r => queue'[q] = queue[q]
      BY <2>1, <3>2, <3>3 DEF Enqueues, QueueRow
    <3> QED
      BY <3>3, <3>4, NewRecordStep
  <2>2. CASE Links(c)
    <3>1. job \in [Runs -> JobRow]
      BY Typed DEF TaskInv
    <3>2. \A q \in Runs : job'[q].status = job[q].status
      BY <2>2, <3>1 DEF Links, JobRow
    <3> QED
      BY <2>2, <3>2, RecordFrame DEF Links
  <2>3. CASE ReadsProject(c) \/ WritesProject(c)
    BY <2>3, RecordFrame DEF ReadsProject, WritesProject
  <2> QED
    BY <1>2, <2>1, <2>2, <2>3 DEF QueueingStep
<1>3. ASSUME NEW c \in Calls, CancelStep(c) PROVE RecordsInv'
  BY <1>3, CancelsKeepRecords
<1>4. ASSUME NEW c \in Calls, CallDies(c) PROVE RecordsInv'
  BY <1>4, RecordFrame DEF CallDies, Fails
<1>5. ASSUME NEW s \in Slots, WorkStep(s) \/ DisturbedStep(s) PROVE RecordsInv'
  BY <1>5, WorkKeepsRecords
<1>6. ASSUME NEW r \in Runs, NEW o \in Outcomes, Lands(r, o) PROVE RecordsInv'
  BY <1>6, LandingKeepsRecords
<1>7. ASSUME NEW r \in Runs, Promotes(r) \/ StallRecovers(r) \/ \E s \in Slots : Takes(s, r)
      PROVE  RecordsInv'
  BY <1>7, QueueKeepsRecords
<1>8. ASSUME NEW s \in Slots, NEW r \in Runs, FailsStalled(s, r) PROVE RecordsInv'
  BY <1>8, FailsStalledKeepsRecords
<1>9. CASE WorkerCrashes
  BY <1>9, CrashKeepsRecords
<1>10. CASE PersonMoves \/ UNCHANGED vars
  BY <1>10, RecordFrame DEF PersonMoves, vars
<1> QED
  BY <1>1, <1>2, <1>3, <1>4, <1>5, <1>6, <1>7, <1>8, <1>9, <1>10 DEF Next, Calls

(* When the failed handler commits within BullMQ's retry delay, the Job row*)
(* of a job that BullMQ has completed, or has failed after its last attempt,*)
(* and that no handler is still to write, has the matching status, through *)
(* retries, follow-ups, cancels, a first stall and every crash that takes  *)
(* no handler with it.  A job failed at its second stall is excepted: the  *)
(* handler may take that for one that will be retried.                     *)
THEOREM JobRecordsSettle == BackoffCoversHandler => (Spec => []JobRecordSettles)
<1> SUFFICES ASSUME BackoffCoversHandler PROVE Spec => []JobRecordSettles
  OBVIOUS
<1>1. Init => RecordsInv
  BY DEF Init, RecordsInv, PendingFits, Settles
<1>2. TaskInv /\ RecordsInv /\ [Next]_vars => RecordsInv'
  BY StepKeepsRecords
<1>3. RecordsInv => JobRecordSettles
  BY DEF RecordsInv, Settles, JobRecordSettles
<1> QED
  BY <1>1, <1>2, <1>3, TaskInvHolds, PTL DEF Spec
=============================================================================
