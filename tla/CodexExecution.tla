--------------------------- MODULE CodexExecution ---------------------------
(***************************************************************************)
(* One Codex run from the worker's attempt down to the child process, and  *)
(* its events up to a reader's stream: RealCodexAdapter.execute with its   *)
(* callbacks and timers, FakeCodexAdapter, addEvent's numbered inserts and *)
(* TasksController.stream.                                                 *)
(*                                                                         *)
(* Lines the child prints become inserts nobody waits for until the run is *)
(* finalized; one that fails before that is an unhandled rejection and the *)
(* worker dies.  An attempt numbers on from the highest number it finds.   *)
(* The result file stays where it is from one attempt to the next.         *)
(***************************************************************************)
EXTENDS Integers, FiniteSets, FiniteSetsExt

CONSTANTS
  Setups,      \* the adapter, whether it prepares Windows ACLs, and the bounds: attempts,
               \* lines of output, faults, polls under way at once, reconnections
  PageSize     \* events a poll takes: 200 in the code

ASSUME SetupsAssumption ==
  Setups \subseteq [adapter : {"real", "fake"}, acl : BOOLEAN, attempts : Nat, lines : Nat,
                    faults : Nat, polls : Nat, reconnects : Nat]
ASSUME PageAssumption == PageSize \in Nat \ {0}

VARIABLES
  setup,     \* one of Setups
  at,        \* how far the attempt has come
  attempt,
  child,     \* the Codex process
  stopped,   \* terminateProcessTree has been called for it
  exitOk,    \* it exited with code 0
  lines,     \* what it has printed: numbers given to its lines, and the rest of a line
  timer,     \* terminalEventTimer is set
  result,    \* codex-result.json is there and valid
  aborted,   \* the attempt's AbortSignal
  recover,   \* finalize was called by the timer
  awaited,   \* the inserts finalize or the worker waits for
  sequence,
  pending,   \* inserts on their way to the database
  log,       \* CodexRunEvent rows
  faults,
  cursor, polls, seen, reconnects \* the reader's stream

process == <<child, stopped, exitOk, lines, timer, result>>
worker == <<at, attempt, aborted, recover, awaited, sequence>>
events == <<pending, log>>
reader == <<cursor, polls, seen, reconnects>>
vars == <<setup, process, worker, events, faults, reader>>

Attempts == 1 .. setup.attempts
NoLines == [given |-> {}, rest |-> FALSE]
Slots == 1 .. setup.polls
NoPoll == [after |-> 0, asked |-> FALSE, page |-> {}]

Init ==
  /\ setup \in Setups
  /\ at = "idle" /\ attempt = 0
  /\ child = "none" /\ stopped = FALSE /\ exitOk = FALSE
  /\ lines = NoLines /\ timer = FALSE
  /\ result = FALSE
  /\ aborted = FALSE /\ recover = FALSE /\ awaited = {}
  /\ sequence = 0
  /\ pending = {} /\ log = {}
  /\ faults = 0
  /\ cursor = 0 /\ polls = [p \in Slots |-> NoPoll] /\ seen = {} /\ reconnects = 0

-----------------------------------------------------------------------------
Numbers(S) == {e.sequence : e \in S}
\* Mutant: the first number of a run is 0.
HighestFromZero == Max(Numbers(log) \cup {-1})

Highest == Max(Numbers(log) \cup {0})
Own == {e \in pending : e.attempt = attempt}
Awaits(n) == n \in Numbers(Own)
AllStored == \A n \in awaited : ~Awaits(n)

\* addEvent: takes the next number and sends the insert.
addEvent ==
  /\ sequence' = sequence + 1
  /\ pending' = pending \cup {[sequence |-> sequence + 1, attempt |-> attempt]}

\* addEvent, and the worker goes on when it is stored.
AwaitsEvent(next) == addEvent /\ awaited' = {sequence + 1} /\ at' = next

Settled == {"resolved", "rejected"}
AdapterSame == UNCHANGED <<setup, faults>>
ProcessSame == UNCHANGED process
ReaderSame == UNCHANGED reader

\* terminateProcessTree: the child is told to stop, if it is still there.
terminateProcessTree == stopped' = TRUE /\ UNCHANGED <<child, exitOk, lines, timer, result>>

-----------------------------------------------------------------------------
(* The worker around the adapter *)

\* processJob reads the highest number; every attempt is a new AbortController.
Begins ==
  /\ at \in {"idle", "failed", "dead"} /\ attempt < setup.attempts
  /\ attempt' = attempt + 1
  /\ at' = "starting"
  /\ sequence' = Highest
  /\ aborted' = FALSE /\ recover' = FALSE /\ awaited' = {}
  /\ child' = "none" /\ stopped' = FALSE /\ exitOk' = FALSE
  /\ lines' = NoLines /\ timer' = FALSE
  /\ UNCHANGED result
  /\ UNCHANGED events /\ AdapterSame /\ ReaderSame

\* The event "worker.started".
Announces ==
  /\ at = "starting"
  /\ AwaitsEvent("announced")
  /\ UNCHANGED <<attempt, aborted, recover, log>>
  /\ ProcessSame /\ AdapterSame /\ ReaderSame

\* The adapter is called; with nothing to prepare it goes on before anybody can abort.
Executes ==
  /\ at = "announced" /\ AllStored
  /\ at' = CASE setup.adapter = "fake" -> "faking"
             [] setup.adapter = "real" /\ setup.acl -> "preparing"
             [] OTHER -> "executing"
  /\ child' = IF at' = "executing" THEN "running" ELSE "none"
  /\ UNCHANGED <<stopped, exitOk, lines, timer, result>>
  /\ UNCHANGED <<attempt, aborted, recover, awaited, sequence>>
  /\ UNCHANGED events /\ AdapterSame /\ ReaderSame

\* FakeCodexAdapter awaits each of its events.
FakeEmits ==
  /\ at = "faking" /\ AllStored
  /\ \/ AwaitsEvent("faking") /\ lines' = [lines EXCEPT !.given = @ \cup {sequence + 1}]
        /\ Cardinality(lines.given) < setup.lines
     \/ at' = "resolved" /\ UNCHANGED <<sequence, pending, awaited, lines>>
        /\ Cardinality(lines.given) = setup.lines
  /\ UNCHANGED <<child, stopped, exitOk, timer, result>>
  /\ UNCHANGED <<attempt, aborted, recover, log>> /\ AdapterSame /\ ReaderSame

\* The worker's last event: of the pull request, or of the failure.
Concludes ==
  /\ at \in Settled
  /\ AwaitsEvent(IF at = "resolved" THEN "succeeding" ELSE "failing")
  /\ UNCHANGED <<attempt, aborted, recover, log>>
  /\ ProcessSame /\ AdapterSame /\ ReaderSame

Ends ==
  /\ at \in {"succeeding", "failing"} /\ AllStored
  /\ at' = IF at = "succeeding" THEN "succeeded" ELSE "failed"
  /\ UNCHANGED <<attempt, aborted, recover, awaited, sequence>>
  /\ ProcessSame /\ UNCHANGED events /\ AdapterSame /\ ReaderSame

-----------------------------------------------------------------------------
(* RealCodexAdapter *)

\* prepareWindowsWorkspaceAcl has been awaited: the child starts and the abort
\* listener is registered, whatever the signal says by then.
Spawns ==
  /\ at = "preparing"
  /\ at' = "executing" /\ child' = "running"
  /\ UNCHANGED <<stopped, exitOk, lines, timer, result>>
  /\ UNCHANGED <<attempt, aborted, recover, awaited, sequence>>
  /\ UNCHANGED events /\ AdapterSame /\ ReaderSame

\* icacls fails, or the marker cannot be written.
AclFails ==
  /\ at = "preparing"
  /\ faults < setup.faults /\ faults' = faults + 1
  /\ at' = "rejected"
  /\ UNCHANGED <<attempt, aborted, recover, awaited, sequence, setup>>
  /\ ProcessSame /\ UNCHANGED events /\ ReaderSame

InAdapter == at \in {"executing", "finalizing", "recovering"}
Active == InAdapter \/ at \in {"preparing", "faking", "succeeding", "failing"} \cup Settled

\* A whole line, of any kind; turn.completed starts the grace timer.
Prints ==
  /\ child = "running" /\ Active
  /\ Cardinality(lines.given) < setup.lines /\ ~lines.rest
  /\ addEvent
  /\ lines' = [lines EXCEPT !.given = @ \cup {sequence + 1}]
  /\ timer' \in {timer, TRUE}
  /\ UNCHANGED <<child, stopped, exitOk, result>>
  /\ UNCHANGED <<at, attempt, aborted, recover, awaited, log>> /\ AdapterSame /\ ReaderSame

\* Its last words, without an end of line: kept in stdoutBuffer.
PrintsRest ==
  /\ child = "running" /\ at = "executing" /\ ~lines.rest
  /\ lines' = [lines EXCEPT !.rest = TRUE]
  /\ UNCHANGED <<child, stopped, exitOk, timer, result>>
  /\ UNCHANGED worker /\ UNCHANGED events /\ AdapterSame /\ ReaderSame

WritesResult ==
  /\ child = "running"
  /\ result' \in BOOLEAN
  /\ UNCHANGED <<child, stopped, exitOk, lines, timer>>
  /\ UNCHANGED worker /\ UNCHANGED events /\ AdapterSame /\ ReaderSame

\* A child that was stopped has no exit code 0.
Exits ==
  /\ child = "running"
  /\ child' = "exited"
  /\ exitOk' \in {FALSE, ~stopped}
  /\ UNCHANGED <<stopped, lines, timer, result>>
  /\ UNCHANGED worker /\ UNCHANGED events /\ AdapterSame /\ ReaderSame

\* The executable cannot be started: rejectOnce.
SpawnFails ==
  /\ at = "executing" /\ child = "running" /\ lines = NoLines /\ ~stopped
  /\ faults < setup.faults /\ faults' = faults + 1
  /\ child' = "none" /\ at' = "rejected"
  /\ UNCHANGED <<stopped, exitOk, lines, timer, result>>
  /\ UNCHANGED <<attempt, aborted, recover, awaited, sequence, setup>>
  /\ UNCHANGED events /\ ReaderSame

\* Mutant: a child that prints on is left alone.
AbortIgnored == ProcessSame

\* The abort listener, from the child's start until the adapter settles.
AbortStops == IF InAdapter THEN terminateProcessTree ELSE ProcessSame

\* The job's timeout, or a cancellation the poll has seen: a signal fires only once.
Aborts ==
  /\ Active /\ ~aborted
  /\ aborted' = TRUE
  /\ AbortStops
  /\ UNCHANGED <<at, attempt, recover, awaited, sequence>>
  /\ UNCHANGED events /\ AdapterSame /\ ReaderSame

\* Mutant: finalize looks at the inserts it has started itself.
NothingPending == {}

PendingEvents == Numbers(Own)

\* finalize: the rest of the output is emitted, then everything pending is awaited.
Finalizes(byTimer) ==
  /\ at' = "finalizing" /\ recover' = byTimer
  /\ IF lines.rest
       THEN /\ addEvent
            /\ lines' = [given |-> lines.given \cup {sequence + 1}, rest |-> FALSE]
            /\ awaited' = PendingEvents \cup {sequence + 1}
       ELSE /\ UNCHANGED <<sequence, pending, lines>>
            /\ awaited' = PendingEvents
  /\ UNCHANGED <<attempt, aborted, log>>

\* The grace period after turn.completed is over and the child is still there.
GraceEnds ==
  /\ at = "executing" /\ timer
  /\ Finalizes(TRUE)
  /\ UNCHANGED <<child, stopped, exitOk, timer, result>> /\ AdapterSame /\ ReaderSame

\* The close event; ignored when the timer was first.
Closes ==
  /\ child = "exited"
  /\ child' = "closed"
  /\ IF at = "executing" THEN Finalizes(FALSE)
                         ELSE UNCHANGED worker /\ UNCHANGED events /\ UNCHANGED lines
  /\ UNCHANGED <<stopped, exitOk, timer, result>> /\ AdapterSame /\ ReaderSame

ResultAccepted == ~aborted /\ (recover \/ exitOk) /\ result

\* Mutant: a child that hangs is left behind when its result is bad.
RejectOnly == at' = "rejected" /\ ProcessSame

\* The catch clause.
Rejects ==
  /\ at' = "rejected"
  /\ IF recover THEN terminateProcessTree ELSE ProcessSame

\* Everything is stored: the signal, the exit code and the result are looked at.
Validates ==
  /\ at = "finalizing" /\ AllStored
  /\ IF ~ResultAccepted
       THEN Rejects /\ UNCHANGED <<sequence, pending, awaited>>
       ELSE IF recover THEN AwaitsEvent("recovering") /\ ProcessSame
       ELSE at' = "resolved" /\ ProcessSame /\ UNCHANGED <<sequence, pending, awaited>>
  /\ UNCHANGED <<attempt, aborted, recover, log>> /\ AdapterSame /\ ReaderSame

\* The event "codex.process_recovered" is stored: stop what is left of the child.
Recovers ==
  /\ at = "recovering" /\ AllStored
  /\ terminateProcessTree
  /\ at' = "resolved"
  /\ UNCHANGED <<attempt, aborted, recover, awaited, sequence>>
  /\ UNCHANGED events /\ AdapterSame /\ ReaderSame

-----------------------------------------------------------------------------
(* The inserts *)

\* Mutant: a second row of one number is stored beside the first.
TakenByItself(e) == e \in log

\* (codexRunId, sequence) is unique.
Taken(e) == e.sequence \in Numbers(log)

InsertCommits ==
  /\ \E e \in pending : ~Taken(e) /\ pending' = pending \ {e} /\ log' = log \cup {e}
  /\ UNCHANGED <<setup, faults>>
  /\ ProcessSame /\ UNCHANGED worker /\ ReaderSame

\* What a rejected insert does to the attempt that sent it.
Rejection(e) ==
  IF e.attempt # attempt \/ ~(Active \/ at \in {"starting", "announced"})
    THEN UNCHANGED worker /\ ProcessSame
    ELSE /\ CASE e.sequence \in awaited /\ at \in {"finalizing", "recovering"}
                -> Rejects
              [] e.sequence \in awaited /\ at \in {"faking", "resolved", "succeeding"}
                -> at' = "rejected" /\ ProcessSame
              [] e.sequence \in awaited /\ at \in {"starting", "announced", "failing"}
                -> at' = "failed" /\ ProcessSame
              [] OTHER -> at' = "dead" /\ ProcessSame
         /\ UNCHANGED <<attempt, aborted, recover, awaited, sequence>>

InsertFails ==
  /\ \E e \in pending :
       /\ \/ Taken(e) /\ UNCHANGED faults
          \/ faults < setup.faults /\ faults' = faults + 1
       /\ pending' = pending \ {e}
       /\ Rejection(e)
  /\ UNCHANGED <<setup, log>> /\ ReaderSame

\* The worker process is killed; inserts under way may still commit.
WorkerDies ==
  /\ Active \/ at \in {"starting", "announced"}
  /\ faults < setup.faults /\ faults' = faults + 1
  /\ at' = "dead"
  /\ UNCHANGED <<setup, attempt, aborted, recover, awaited, sequence>>
  /\ ProcessSame /\ UNCHANGED events /\ ReaderSame

-----------------------------------------------------------------------------
(* TasksController.stream: a poll a second, not waiting for the one before *)

\* tasks.events: the first page after the cursor it was asked with.
Page(after) ==
  {n \in Numbers(log) : n > after /\ Cardinality({m \in Numbers(log) : m > after /\ m < n}) < PageSize}

StreamOnly == ProcessSame /\ UNCHANGED <<setup, faults>> /\ UNCHANGED worker /\ UNCHANGED events

Polls ==
  /\ \E p \in Slots :
       ~polls[p].asked /\ polls' = [polls EXCEPT ![p] = [after |-> cursor, asked |-> TRUE, page |-> {}]]
  /\ UNCHANGED <<cursor, seen, reconnects>>
  /\ StreamOnly

\* A poll that finds nothing has no effect: it is taken for one that is slow.
PollReads ==
  /\ \E p \in Slots :
       /\ polls[p].asked /\ polls[p].page = {} /\ Page(polls[p].after) # {}
       /\ polls' = [polls EXCEPT ![p].page = Page(polls[p].after)]
  /\ UNCHANGED <<cursor, seen, reconnects>>
  /\ StreamOnly

PollDelivers ==
  /\ \E p \in Slots :
       /\ polls[p].page # {}
       /\ polls' = [polls EXCEPT ![p] = NoPoll]
       /\ seen' = seen \cup polls[p].page
       /\ cursor' = Max(polls[p].page \cup {cursor})
  /\ UNCHANGED reconnects
  /\ StreamOnly

\* The stream breaks; the browser opens the same address, from its first cursor.
Reconnects ==
  /\ reconnects < setup.reconnects /\ cursor # 0
  /\ reconnects' = reconnects + 1
  /\ cursor' = 0 /\ polls' = [p \in Slots |-> NoPoll]
  /\ UNCHANGED seen
  /\ StreamOnly

-----------------------------------------------------------------------------
AdapterSteps == FakeEmits \/ Spawns \/ GraceEnds \/ Closes \/ Validates \/ Recovers
WorkerSteps == Begins \/ Announces \/ Executes \/ Concludes \/ Ends
Inserts == InsertCommits \/ InsertFails

Next ==
  \/ AdapterSteps \/ WorkerSteps \/ Inserts
  \/ Prints \/ PrintsRest \/ WritesResult \/ Exits \/ SpawnFails \/ AclFails
  \/ Aborts \/ WorkerDies
  \/ Polls \/ PollReads \/ PollDelivers \/ Reconnects

\* The event loop, the database and the reader's interval go on; the job has a
\* timeout; a process that is told to stop ends.  Codex itself may never end.
Fairness ==
  /\ WF_vars(AdapterSteps) /\ WF_vars(WorkerSteps) /\ WF_vars(Inserts)
  /\ WF_vars(InAdapter /\ Aborts)
  /\ WF_vars(stopped /\ Exits)
  /\ WF_vars(Polls) /\ WF_vars(PollReads) /\ WF_vars(PollDelivers)

Spec == Init /\ [][Next]_vars /\ Fairness

-----------------------------------------------------------------------------
Places == {"idle", "starting", "announced", "preparing", "faking", "executing", "finalizing", "recovering",
           "resolved", "rejected", "succeeding", "failing", "succeeded", "failed", "dead"}

ExecutionTypeOK ==
  /\ at \in Places /\ attempt \in {0} \cup Attempts
  /\ child \in {"none", "running", "exited", "closed"}
  /\ {stopped, exitOk, timer, aborted, recover, result, lines.rest} \subseteq BOOLEAN
  /\ {lines.given, awaited, seen} \subseteq SUBSET Nat
  /\ sequence \in Nat /\ cursor \in Nat
  /\ pending \cup log \subseteq [sequence : Nat \ {0}, attempt : Attempts]
  /\ polls \in [Slots -> [after : Nat, asked : BOOLEAN, page : SUBSET Nat]]

Delivery == INSTANCE EventDelivery WITH open <- setup.polls > 0

(* Two attempts, of which the first may have died with inserts under way,  *)
(* and overlapping polls of a reader implement the stream's promise: a     *)
(* number means one event for ever, nothing is received that is not stored,*)
(* and the newest event arrives.                                           *)
ImplementsDelivery == Delivery!Spec

(* When execute has answered success every line the child had printed by   *)
(* then is stored, although nobody awaited the inserts one by one, and the *)
(* child ended with code 0 or has been stopped.                            *)
SuccessIsComplete ==
  at = "resolved" /\ setup.adapter = "real" =>
    IF recover THEN stopped ELSE exitOk /\ lines.given \subseteq Numbers(log)

(* The worker is never left with a Codex process that runs on in the       *)
(* workspace: once the adapter has answered, by whichever of its callbacks,*)
(* the child is gone or has been told to stop.                             *)
ChildStopped ==
  at \in Settled \cup {"succeeding", "failing", "succeeded", "failed"} =>
    child # "running" \/ stopped

(* An execution does not last for ever even if Codex does: the timeout, the*)
(* grace timer, the child's end and failing inserts between them settle it *)
(* -- unless the signal had fired already when the adapter began to listen,*)
(* after its preparation of the workspace.                                 *)
ExecutionSettles == (InAdapter /\ ~aborted) ~> ~InAdapter
=============================================================================
