------------------------- MODULE RunWorkspaceProofs -------------------------
(***************************************************************************)
(* What a run of Codex promises for any number of attempts, lines, faults, *)
(* polls and changed files: the adapter leaves no child behind, success    *)
(* means that everything was stored, the stream delivers what is stored,   *)
(* and the pull request holds checked work of the attempt that succeeded.  *)
(*                                                                         *)
(* The execution never looks at the workspace, so its invariant            *)
(* (ExecutionInv) is kept by its own steps and by the few ways in which    *)
(* processJob ends an attempt around it.  The workspace's (WorkspaceInv)   *)
(* rests on it: whoever writes files while an attempt checks and commits   *)
(* is a child the adapter has recovered from, or an orphan of an earlier   *)
(* attempt.                                                                *)
(***************************************************************************)
EXTENDS RunWorkspace, MaximumLemmas, SequenceTheorems, TLAPS

Lines == [given : SUBSET Nat, rest : BOOLEAN]

ExecutionTyped == ExecutionTypeOK /\ setup \in Setups /\ lines \in Lines

\* The numbers given so far have a bound, and a page holds stored numbers.
EventsOk ==
  /\ \E n \in Nat : \A e \in pending \cup log : e.sequence <= n
  /\ \A p \in Slots : polls[p].page \subseteq Numbers(log)
  /\ at # "idle" => attempt \in Attempts

\* Who still runs, by how far the attempt has come.
ChildOk ==
  /\ at \in {"idle", "starting", "announced", "preparing", "faking"} \/ setup.adapter = "fake" => child = "none"
  /\ at = "faking" => setup.adapter = "fake"
  /\ at = "preparing" => setup.adapter = "real"
  /\ at = "recovering" => recover
  /\ at = "finalizing" /\ ~recover => child = "closed"
  /\ at = "resolved" /\ ~recover => child # "running"
  /\ at = "resolved" /\ setup.adapter # "fake" => IF recover THEN stopped ELSE exitOk
  /\ at \in Settled \cup {"succeeding", "failing", "succeeded", "failed"} => child # "running" \/ stopped

\* No line gets lost on the way to success: it is stored, or its insert is
\* under way, and from finalize on somebody waits for it.
LinesOk ==
  /\ at \in {"starting", "announced", "preparing", "faking"} \cup {"executing", "finalizing", "recovering"} =>
       \A n \in lines.given : n \in Numbers(log) \/ Awaits(n)
  /\ at = "finalizing" /\ ~recover => \A n \in lines.given : n \in Numbers(log) \/ n \in awaited
  /\ at = "resolved" /\ ~recover /\ setup.adapter # "fake" => lines.given \subseteq Numbers(log)

ExecutionInv == ExecutionTyped /\ EventsOk /\ ChildOk /\ LinesOk

CommitOk(c) ==
  c.alone => /\ c.files # {} /\ \A f \in c.files : NamesOf(f) \cap c.listed # {}
             /\ c.listed \cap DeniedPaths = {}
             /\ AllowedPaths = {} \/ c.listed \subseteq AllowedPaths

\* What differs is what git status showed, and the policy let it pass.
Judged == enforcePathPolicy(listed) /\ \A f \in dirty : NamesOf(f) \cap listed # {}

Built == {"builds", "opens", "opened"}

AtWork == {"announced", "preparing", "faking", "executing", "finalizing", "recovering"}

\* What has been done, by the step the attempt is at.
StepOk ==
  /\ at \in AtWork => step = "ready"
  /\ at = "resolved" /\ step = "commits" /\ ~recover /\ ~orphaned => Judged
  /\ at = "resolved" /\ step = "pushes" => head # <<>> /\ Last(head).attempt = attempt
  /\ step \in Built => remote # <<>> /\ Last(remote).attempt = attempt
  /\ step = "opened" => pulled
  /\ at \in {"succeeding", "succeeded"} /\ Real => step = "opened"

CommitsOk(commits) == \A i \in DOMAIN commits : CommitOk(commits[i])

WorkspaceInv == TypeOK /\ StepOk /\ CommitsOk(head) /\ CommitsOk(remote)

RunInv == ExecutionInv /\ WorkspaceInv

-----------------------------------------------------------------------------
(* The execution: lemmas about what its steps are made of.                 *)

(* At first nothing has been printed, sent or asked for.                   *)
LEMMA InitExecutionInv == ASSUME Init PROVE ExecutionInv
<1>1. ExecutionTyped
  BY DEF Init, ExecutionTyped, ExecutionTypeOK, Lines, NoLines, Places, NoPoll
<1>2. EventsOk
  BY DEF Init, EventsOk, NoPoll
<1>3. ChildOk
  BY DEF Init, ChildOk, Settled
<1>4. LinesOk
  BY DEF Init, LinesOk
<1> QED
  BY <1>1, <1>2, <1>3, <1>4 DEF ExecutionInv

(* Facts about the setup that every step uses.                             *)
LEMMA SetupTyped ==
  ASSUME ExecutionInv
  PROVE  /\ setup.attempts \in Nat /\ setup.polls \in Nat /\ setup.adapter \in {"real", "fake"}
         /\ sequence \in Nat /\ sequence + 1 \in Nat \ {0}
  BY SetupsAssumption DEF ExecutionInv, ExecutionTyped, ExecutionTypeOK

(* Some number bounds those given and the one to come.                     *)
LEMMA NumbersBounded ==
  ASSUME ExecutionInv, NEW m \in Nat
  PROVE  \E n \in Nat : m <= n /\ \A e \in pending \cup log : e.sequence <= n
<1>1. PICK n \in Nat : \A e \in pending \cup log : e.sequence <= n
  BY DEF ExecutionInv, EventsOk
<1>2. PICK b \in {m, n} : m <= b /\ n <= b
  OBVIOUS
<1>3. \A e \in pending \cup log : e.sequence \in Nat
  BY DEF ExecutionInv, ExecutionTyped, ExecutionTypeOK
<1> QED
  BY <1>1, <1>2, <1>3

(* The highest number stored is a number.                                  *)
LEMMA HighestTyped == ASSUME ExecutionInv PROVE Highest \in Nat
<1>1. PICK n \in Nat : \A e \in pending \cup log : e.sequence <= n
  BY DEF ExecutionInv, EventsOk
<1> DEFINE found == Numbers(log) \cup {0}
<1>2. found \in SUBSET Nat
  BY DEF Numbers, ExecutionInv, ExecutionTyped, ExecutionTypeOK
<1>3. found # {} /\ \A v \in found : v <= n
  BY <1>1 DEF Numbers
<1> HIDE DEF found
<1>4. Max(found) \in found
  BY <1>2, <1>3, MaxIsGreatest
<1> QED
  BY <1>2, <1>4 DEF Highest, found

(* addEvent sends an insert with a number of its own attempt.              *)
LEMMA EventAdded ==
  ASSUME ExecutionInv, addEvent, attempt' = attempt, log' = log, setup' = setup, attempt \in Attempts
  PROVE  /\ sequence' \in Nat
         /\ pending' \cup log' \subseteq [sequence : Nat \ {0}, attempt : Attempts]
         /\ \E n \in Nat : \A e \in pending' \cup log' : e.sequence <= n
         /\ \A n : Awaits(n) => Awaits(n)'
         /\ \A n : n = sequence + 1 => Awaits(n)'
<1>1. sequence \in Nat /\ sequence + 1 \in Nat \ {0}
  BY SetupTyped
<1>2. sequence' = sequence + 1
  BY DEF addEvent
<1> DEFINE event == [sequence |-> sequence + 1, attempt |-> attempt]
<1>3. event \in [sequence : Nat \ {0}, attempt : Attempts] /\ event.sequence = sequence + 1 /\ event.attempt = attempt
  BY <1>1
<1>4. pending' = pending \cup {event}
  BY DEF addEvent
<1> HIDE DEF event
<1>5. pending' \cup log' \subseteq [sequence : Nat \ {0}, attempt : Attempts]
  BY <1>3, <1>4 DEF ExecutionInv, ExecutionTyped, ExecutionTypeOK
<1>6. \E n \in Nat : \A e \in pending' \cup log' : e.sequence <= n
  BY <1>1, <1>3, <1>4, NumbersBounded
<1>7. \A n : Awaits(n) => Awaits(n)'
  BY <1>4 DEF Awaits, Own, Numbers
<1>8. \A n : n = sequence + 1 => Awaits(n)'
  BY <1>3, <1>4 DEF Awaits, Own, Numbers
<1> QED
  BY <1>1, <1>2, <1>5, <1>6, <1>7, <1>8

(* Where an event is sent that the worker or finalize waits for.           *)
Sends(from, to) ==
  \/ from = "starting" /\ to \in {"starting", "announced"}
  \/ from = "resolved" /\ to \in {"resolved", "succeeding"}
  \/ from = "rejected" /\ to = "failing"
  \/ from = "finalizing" /\ to = "recovering" /\ recover

(* processJob sends an event of its own and waits for the insert. *)
LEMMA AwaitsEventStep ==
  ASSUME ExecutionInv, NEW to, Sends(at, to), AwaitsEvent(to),
         UNCHANGED <<attempt, aborted, recover, log>>, ProcessSame, AdapterSame, ReaderSame
  PROVE  ExecutionInv'
<1>1. attempt \in Attempts
  BY DEF Sends, ExecutionInv, EventsOk
<1>2. at' = to /\ awaited' = {sequence + 1} /\ addEvent
  BY DEF AwaitsEvent
<1>3. UNCHANGED <<attempt, aborted, recover, log, setup, cursor, polls, seen, reconnects>>
      /\ UNCHANGED <<child, stopped, exitOk, lines, timer, result>>
  BY DEF ProcessSame, process, AdapterSame, ReaderSame, reader
<1>4. /\ sequence' \in Nat
      /\ pending' \cup log' \subseteq [sequence : Nat \ {0}, attempt : Attempts]
      /\ \E n \in Nat : \A e \in pending' \cup log' : e.sequence <= n
      /\ \A n : Awaits(n) => Awaits(n)'
  BY <1>1, <1>2, <1>3, EventAdded
<1>5. ExecutionTyped'
  <2>1. at' \in Places
    BY <1>2 DEF Sends, Places
  <2>2. awaited' \subseteq Nat
    BY <1>2, SetupTyped
  <2> QED
    BY <1>3, <1>4, <2>1, <2>2 DEF ExecutionInv, ExecutionTyped, ExecutionTypeOK, Attempts, Slots
<1>6. EventsOk'
  BY <1>1, <1>3, <1>4 DEF ExecutionInv, EventsOk, Attempts, Slots, Numbers
<1>7. ChildOk'
  BY <1>2, <1>3 DEF ExecutionInv, ChildOk, Sends, Settled
<1>8. LinesOk'
  BY <1>2, <1>3, <1>4 DEF ExecutionInv, LinesOk, Sends, Numbers
<1> QED
  BY <1>5, <1>6, <1>7, <1>8 DEF ExecutionInv

(* Where an attempt goes without doing anything else.                      *)
Leaves(from, to) ==
  \/ from = "starting" /\ to = "failed"
  \/ from \in {"preparing", "resolved"} /\ to = "rejected"
  \/ from = "succeeding" /\ to = "succeeded"
  \/ from = "failing" /\ to = "failed"
  \/ from # "idle" /\ to = "dead"

(* The attempt ends, with or without its worker. *)
LEMMA LeavesStep ==
  ASSUME ExecutionInv, NEW to, Leaves(at, to), at' = to,
         UNCHANGED <<attempt, aborted, recover, awaited, sequence, setup>>,
         ProcessSame, UNCHANGED events, ReaderSame
  PROVE  ExecutionInv'
<1>1. UNCHANGED <<attempt, aborted, recover, awaited, sequence, setup, pending, log, cursor, polls, seen, reconnects>>
      /\ UNCHANGED <<child, stopped, exitOk, lines, timer, result>>
  BY DEF ProcessSame, process, events, ReaderSame, reader
<1>2. ExecutionTyped'
  <2>1. at' \in Places
    BY DEF Leaves, Places
  <2> QED
    BY <1>1, <2>1 DEF ExecutionInv, ExecutionTyped, ExecutionTypeOK, Attempts, Slots
<1>3. EventsOk'
  BY <1>1 DEF ExecutionInv, EventsOk, Attempts, Slots, Numbers, Leaves
<1>4. ChildOk'
  BY <1>1 DEF ExecutionInv, ChildOk, Leaves, Settled
<1>5. LinesOk'
  BY <1>1 DEF ExecutionInv, LinesOk, Leaves
<1> QED
  BY <1>2, <1>3, <1>4, <1>5 DEF ExecutionInv

(* An attempt that fails in finalize or after it leaves no child behind.   *)
LEMMA RejectsStep ==
  ASSUME ExecutionInv, at \in {"finalizing", "recovering"}, Rejects,
         UNCHANGED <<attempt, aborted, recover, awaited, sequence, setup, log>>, ReaderSame,
         pending' \subseteq pending
  PROVE  ExecutionInv'
<1>1. UNCHANGED <<child, exitOk, lines, timer, result, cursor, polls, seen, reconnects>>
  BY DEF Rejects, terminateProcessTree, ProcessSame, process, ReaderSame, reader
<1>2. at' = "rejected" /\ stopped' \in {stopped, TRUE} /\ (recover => stopped')
  BY DEF Rejects, terminateProcessTree, ProcessSame, process
<1>3. ExecutionTyped'
  <2>1. at' \in Places
    BY <1>2 DEF Places
  <2> QED
    BY <1>1, <1>2, <2>1 DEF ExecutionInv, ExecutionTyped, ExecutionTypeOK, Attempts, Slots
<1>4. EventsOk'
  BY <1>1, <1>2 DEF ExecutionInv, EventsOk, Attempts, Slots, Numbers
<1>5. ChildOk'
  BY <1>1, <1>2 DEF ExecutionInv, ChildOk, Settled
<1>6. LinesOk'
  BY <1>2 DEF LinesOk
<1> QED
  BY <1>3, <1>4, <1>5, <1>6 DEF ExecutionInv

-----------------------------------------------------------------------------
(* The execution: its steps.                                               *)

LEMMA BeginsStep == ASSUME ExecutionInv, Begins PROVE ExecutionInv'
<1>1. UNCHANGED <<setup, result, pending, log, cursor, polls, seen, reconnects>>
  BY DEF Begins, events, AdapterSame, ReaderSame, reader
<1>2. /\ attempt' = attempt + 1 /\ at' = "starting" /\ sequence' = Highest
      /\ recover' = FALSE /\ aborted' = FALSE /\ awaited' = {}
      /\ child' = "none" /\ stopped' = FALSE /\ exitOk' = FALSE /\ lines' = NoLines /\ timer' = FALSE
  BY DEF Begins
<1>3. attempt' \in Attempts
  <2>1. attempt \in Nat /\ attempt < setup.attempts /\ setup.attempts \in Nat
    BY SetupTyped DEF ExecutionInv, ExecutionTyped, ExecutionTypeOK, Attempts, Begins
  <2> QED
    BY <1>2, <2>1 DEF Attempts
<1>4. ExecutionTyped'
  <2>1. at' \in Places
    BY <1>2 DEF Places
  <2>2. sequence' \in Nat
    BY <1>2, HighestTyped
  <2>3. lines' \in Lines /\ lines'.given = {} /\ lines'.rest = FALSE
    BY <1>2 DEF Lines, NoLines
  <2> QED
    BY <1>1, <1>2, <1>3, <2>1, <2>2, <2>3 DEF ExecutionInv, ExecutionTyped, ExecutionTypeOK, Attempts, Slots
<1>5. EventsOk'
  BY <1>1, <1>2, <1>3 DEF ExecutionInv, EventsOk, Attempts, Slots, Numbers
<1>6. ChildOk'
  BY <1>1, <1>2 DEF ExecutionInv, ChildOk, Settled
<1>7. LinesOk'
  BY <1>2 DEF LinesOk, NoLines
<1> QED
  BY <1>4, <1>5, <1>6, <1>7 DEF ExecutionInv

(* The worker calls the adapter: the fake one, or one that prepares the    *)
(* workspace first, or a child starts.                                     *)
LEMMA ExecutesStep == ASSUME ExecutionInv, Executes \/ Spawns PROVE ExecutionInv'
<1>1. UNCHANGED <<setup, stopped, exitOk, lines, timer, result, pending, log, cursor, polls, seen, reconnects>>
      /\ UNCHANGED <<attempt, aborted, recover, awaited, sequence>>
  BY DEF Executes, Spawns, events, AdapterSame, ReaderSame, reader
<1>2. /\ at \in {"announced", "preparing"}
      /\ \/ setup.adapter = "fake" /\ at' = "faking" /\ child' = "none"
         \/ setup.adapter = "real" /\ at' = "preparing" /\ child' = "none"
         \/ setup.adapter # "fake" /\ at' = "executing" /\ child' = "running"
  <2>1. CASE Spawns
    BY <2>1 DEF Spawns, ExecutionInv, ChildOk
  <2>2. CASE Executes
    BY <2>2, SetupTyped DEF Executes
  <2> QED
    BY <2>1, <2>2
<1>3. ExecutionTyped'
  <2>1. at' \in Places
    BY <1>2 DEF Places
  <2> QED
    BY <1>1, <1>2, <2>1 DEF ExecutionInv, ExecutionTyped, ExecutionTypeOK, Attempts, Slots
<1>4. EventsOk'
  BY <1>1, <1>2 DEF ExecutionInv, EventsOk, Attempts, Slots, Numbers
<1>5. ChildOk'
  BY <1>1, <1>2 DEF ExecutionInv, ChildOk, Settled
<1>6. LinesOk'
  BY <1>1, <1>2 DEF ExecutionInv, LinesOk, Awaits, Own, Numbers
<1> QED
  BY <1>3, <1>4, <1>5, <1>6 DEF ExecutionInv

(* A line is printed and its event sent.                                   *)
LEMMA LinePrinted ==
  ASSUME ExecutionInv, addEvent, attempt \in Attempts, attempt' = attempt, log' = log, setup' = setup,
         lines' = [lines EXCEPT !.given = lines.given \cup {sequence + 1}]
  PROVE  /\ lines' \in Lines /\ lines'.given = lines.given \cup {sequence + 1} /\ lines'.rest = lines.rest
         /\ (\A n \in lines.given : n \in Numbers(log) \/ Awaits(n))
              => \A n \in lines'.given : n \in Numbers(log') \/ Awaits(n)'
<1>1. lines \in Lines /\ sequence + 1 \in Nat
  BY SetupTyped DEF ExecutionInv, ExecutionTyped
<1>2. lines' \in Lines /\ lines'.given = lines.given \cup {sequence + 1} /\ lines'.rest = lines.rest
  BY <1>1 DEF Lines
<1>3. (\A n : Awaits(n) => Awaits(n)') /\ \A n : n = sequence + 1 => Awaits(n)'
  BY EventAdded
<1> QED
  BY <1>2, <1>3

(* The fake adapter emits its next event and waits for it. *)
LEMMA FakeEmitsStep == ASSUME ExecutionInv, FakeEmits PROVE ExecutionInv'
<1>1. UNCHANGED <<setup, child, stopped, exitOk, timer, result, log, cursor, polls, seen, reconnects>>
      /\ UNCHANGED <<attempt, aborted, recover>> /\ at = "faking"
  BY DEF FakeEmits, events, AdapterSame, ReaderSame, reader
<1>2. setup.adapter = "fake" /\ child = "none" /\ attempt \in Attempts
  BY <1>1 DEF ExecutionInv, ChildOk, EventsOk
<1>3. CASE AwaitsEvent("faking") /\ lines' = [lines EXCEPT !.given = lines.given \cup {sequence + 1}]
  <2>1. at' = "faking" /\ awaited' = {sequence + 1} /\ addEvent
    BY <1>3 DEF AwaitsEvent
  <2>2. /\ sequence' \in Nat
        /\ pending' \cup log' \subseteq [sequence : Nat \ {0}, attempt : Attempts]
        /\ \E n \in Nat : \A e \in pending' \cup log' : e.sequence <= n
    BY <1>1, <1>2, <2>1, EventAdded
  <2>3. /\ lines' \in Lines /\ lines'.given = lines.given \cup {sequence + 1} /\ lines'.rest = lines.rest
        /\ (\A n \in lines.given : n \in Numbers(log) \/ Awaits(n))
             => \A n \in lines'.given : n \in Numbers(log') \/ Awaits(n)'
    BY <1>1, <1>2, <1>3, <2>1, LinePrinted
  <2>4. ExecutionTyped'
    <3>1. at' \in Places
      BY <2>1 DEF Places
    <3>2. awaited' \subseteq Nat
      BY <2>1, SetupTyped
    <3>3. lines'.given \subseteq Nat /\ lines'.rest \in BOOLEAN
      BY <2>3 DEF Lines
    <3> QED
      BY <1>1, <2>2, <2>3, <3>1, <3>2, <3>3 DEF ExecutionInv, ExecutionTyped, ExecutionTypeOK, Attempts, Slots
  <2>5. EventsOk'
    BY <1>1, <1>2, <2>2 DEF ExecutionInv, EventsOk, Attempts, Slots, Numbers
  <2>6. ChildOk'
    BY <1>1, <1>2, <2>1 DEF ExecutionInv, ChildOk, Settled
  <2>7. LinesOk'
    BY <1>1, <2>1, <2>3 DEF ExecutionInv, LinesOk, Numbers
  <2> QED
    BY <2>4, <2>5, <2>6, <2>7 DEF ExecutionInv
<1>4. CASE at' = "resolved" /\ UNCHANGED <<sequence, pending, awaited, lines>>
  <2>1. ExecutionTyped'
    <3>1. at' \in Places
      BY <1>4 DEF Places
    <3> QED
      BY <1>1, <1>4, <3>1 DEF ExecutionInv, ExecutionTyped, ExecutionTypeOK, Attempts, Slots
  <2>2. EventsOk'
    BY <1>1, <1>2, <1>4 DEF ExecutionInv, EventsOk, Attempts, Slots, Numbers
  <2>3. ChildOk'
    BY <1>1, <1>2, <1>4 DEF ChildOk, Settled
  <2>4. LinesOk'
    BY <1>1, <1>2, <1>4 DEF LinesOk
  <2> QED
    BY <2>1, <2>2, <2>3, <2>4 DEF ExecutionInv
<1> QED
  BY <1>3, <1>4 DEF FakeEmits

(* The child prints a line; its event is numbered and not awaited. *)
LEMMA PrintsStep == ASSUME ExecutionInv, Prints PROVE ExecutionInv'
<1>1. UNCHANGED <<setup, child, stopped, exitOk, result, log, cursor, polls, seen, reconnects>>
      /\ UNCHANGED <<at, attempt, aborted, recover, awaited>>
  BY DEF Prints, AdapterSame, ReaderSame, reader
<1>2. /\ child = "running" /\ Active /\ addEvent /\ timer' \in {timer, TRUE}
      /\ lines' = [lines EXCEPT !.given = lines.given \cup {sequence + 1}]
  BY DEF Prints
<1>3. attempt \in Attempts
  BY <1>2 DEF ExecutionInv, EventsOk, Active, InAdapter, Settled
<1>4. /\ sequence' \in Nat
      /\ pending' \cup log' \subseteq [sequence : Nat \ {0}, attempt : Attempts]
      /\ \E n \in Nat : \A e \in pending' \cup log' : e.sequence <= n
  BY <1>1, <1>2, <1>3, EventAdded
<1>5. /\ lines' \in Lines /\ lines'.given = lines.given \cup {sequence + 1} /\ lines'.rest = lines.rest
      /\ (\A n \in lines.given : n \in Numbers(log) \/ Awaits(n))
           => \A n \in lines'.given : n \in Numbers(log') \/ Awaits(n)'
  BY <1>1, <1>2, <1>3, LinePrinted
<1>6. ExecutionTyped'
  <2>1. lines'.given \subseteq Nat /\ lines'.rest \in BOOLEAN
    BY <1>5 DEF Lines
  <2> QED
    BY <1>1, <1>2, <1>4, <1>5, <2>1 DEF ExecutionInv, ExecutionTyped, ExecutionTypeOK, Attempts, Slots
<1>7. EventsOk'
  BY <1>1, <1>4 DEF ExecutionInv, EventsOk, Attempts, Slots, Numbers
<1>8. ChildOk'
  BY <1>1 DEF ExecutionInv, ChildOk, Settled
<1>9. LinesOk'
  <2>1. ChildOk
    BY DEF ExecutionInv
  <2>2. ~(at = "resolved" /\ ~recover) /\ ~(at = "finalizing" /\ ~recover)
    BY <1>2, <2>1 DEF ChildOk
  <2> QED
    BY <1>1, <1>5, <2>2 DEF ExecutionInv, LinesOk, Numbers
<1> QED
  BY <1>6, <1>7, <1>8, <1>9 DEF ExecutionInv

(* What the child's variables are.                                         *)
LEMMA ChildTyped ==
  ASSUME ExecutionInv
  PROVE  /\ stopped \in BOOLEAN /\ exitOk \in BOOLEAN /\ timer \in BOOLEAN /\ result \in BOOLEAN
         /\ aborted \in BOOLEAN /\ recover \in BOOLEAN
         /\ lines \in Lines /\ lines.given \subseteq Nat /\ lines.rest \in BOOLEAN /\ awaited \subseteq Nat
  BY DEF ExecutionInv, ExecutionTyped, ExecutionTypeOK

(* A step of the child or its timers that sends nothing and tells the      *)
(* worker nothing.                                                         *)
LEMMA ChildStep ==
  ASSUME ExecutionInv, UNCHANGED <<at, attempt, recover, awaited, sequence, setup, pending, log>>,
         ReaderSame,
         \/ child' = child
         \/ child = "running" /\ child' = "exited"
         \/ child = "exited" /\ child' = "closed",
         stopped' \in {stopped, TRUE}, exitOk' \in BOOLEAN, child = "running" \/ exitOk' = exitOk,
         timer' \in BOOLEAN, result' \in BOOLEAN, aborted' \in BOOLEAN,
         lines' \in Lines, lines'.given = lines.given
  PROVE  ExecutionInv'
<1>1. UNCHANGED <<cursor, polls, seen, reconnects>>
  BY DEF ReaderSame, reader
<1>2. ExecutionTyped'
  BY <1>1 DEF ExecutionInv, ExecutionTyped, ExecutionTypeOK, Attempts, Slots, Lines
<1>3. EventsOk'
  BY <1>1 DEF ExecutionInv, EventsOk, Attempts, Slots, Numbers
<1>4. ChildOk'
  <2>1. ChildOk
    BY DEF ExecutionInv
  <2>2. child' = "none" <=> child = "none"
    OBVIOUS
  <2>3. child = "closed" => child' = "closed"
    OBVIOUS
  <2>4. child' = "running" => child = "running"
    OBVIOUS
  <2>5. at = "resolved" /\ setup.adapter # "fake" => IF recover THEN stopped' ELSE exitOk'
    <3>1. stopped => stopped'
      BY ChildTyped
    <3>2. child # "running" /\ exitOk => exitOk'
      OBVIOUS
    <3> QED
      BY <2>1, <3>1, <3>2 DEF ChildOk
  <2>6. at \in Settled \cup {"succeeding", "failing", "succeeded", "failed"} => child' # "running" \/ stopped'
    BY <2>1, <2>4 DEF ChildOk
  <2> QED
    BY <2>1, <2>2, <2>3, <2>4, <2>5, <2>6 DEF ChildOk, Settled
<1>5. LinesOk'
  BY DEF ExecutionInv, LinesOk, Awaits, Own, Numbers
<1> QED
  BY <1>2, <1>3, <1>4, <1>5 DEF ExecutionInv

(* The child leaves an unfinished line, which close will emit. *)
LEMMA PrintsRestStep == ASSUME ExecutionInv, PrintsRest PROVE ExecutionInv'
<1>1. lines' = [lines EXCEPT !.rest = TRUE] /\ UNCHANGED <<child, stopped, exitOk, timer, result>>
  BY DEF PrintsRest
<1>2. lines' \in Lines /\ lines'.given = lines.given
  BY <1>1, ChildTyped DEF Lines
<1>3. UNCHANGED <<at, attempt, aborted, recover, awaited, sequence, setup, pending, log>> /\ ReaderSame
  BY DEF PrintsRest, worker, events, AdapterSame
<1> QED
  BY <1>1, <1>2, <1>3, ChildTyped, ChildStep DEF PrintsRest

(* The child writes its result file. *)
LEMMA WritesResultStep == ASSUME ExecutionInv, WritesResult PROVE ExecutionInv'
<1>1. UNCHANGED <<at, attempt, aborted, recover, awaited, sequence, setup, pending, log>> /\ ReaderSame
      /\ UNCHANGED <<child, stopped, exitOk, lines, timer>> /\ result' \in BOOLEAN
  BY DEF WritesResult, worker, events, AdapterSame
<1> QED
  BY <1>1, ChildTyped, ChildStep DEF WritesResult

(* The child exits. *)
LEMMA ExitsStep == ASSUME ExecutionInv, Exits PROVE ExecutionInv'
<1>1. UNCHANGED <<at, attempt, aborted, recover, awaited, sequence, setup, pending, log>> /\ ReaderSame
      /\ UNCHANGED <<stopped, lines, timer, result>>
      /\ child = "running" /\ child' = "exited" /\ exitOk' \in {FALSE, ~stopped}
  BY DEF Exits, worker, events, AdapterSame
<1>2. exitOk' \in BOOLEAN
  BY <1>1
<1> QED
  BY <1>1, <1>2, ChildTyped, ChildStep

(* The abort signal tells the child to stop. *)
LEMMA AbortsStep == ASSUME ExecutionInv, Aborts PROVE ExecutionInv'
<1>1. UNCHANGED <<at, attempt, recover, awaited, sequence, setup, pending, log>> /\ ReaderSame
      /\ aborted' = TRUE
  BY DEF Aborts, events, AdapterSame
<1>2. UNCHANGED <<child, exitOk, lines, timer, result>> /\ stopped' \in {stopped, TRUE}
  BY DEF Aborts, AbortStops, terminateProcessTree, ProcessSame, process
<1> QED
  BY <1>1, <1>2, ChildTyped, ChildStep

(* The error callback rejects the execution. *)
LEMMA SpawnFailsStep == ASSUME ExecutionInv, SpawnFails PROVE ExecutionInv'
<1>1. UNCHANGED <<attempt, aborted, recover, awaited, sequence, setup, pending, log, cursor, polls, seen, reconnects>>
      /\ UNCHANGED <<stopped, exitOk, lines, timer, result>>
      /\ at = "executing" /\ at' = "rejected" /\ child' = "none"
  BY DEF SpawnFails, events, ReaderSame, reader
<1>2. ExecutionTyped'
  <2>1. at' \in Places
    BY <1>1 DEF Places
  <2> QED
    BY <1>1, <2>1 DEF ExecutionInv, ExecutionTyped, ExecutionTypeOK, Attempts, Slots
<1>3. EventsOk'
  BY <1>1 DEF ExecutionInv, EventsOk, Attempts, Slots, Numbers
<1>4. ChildOk'
  BY <1>1 DEF ChildOk
<1>5. LinesOk'
  BY <1>1 DEF LinesOk
<1> QED
  BY <1>2, <1>3, <1>4, <1>5 DEF ExecutionInv

(* finalize awaits every insert of the attempt that is under way.          *)
LEMMA FinalizesStep ==
  ASSUME ExecutionInv, at = "executing", NEW byTimer \in BOOLEAN, Finalizes(byTimer),
         UNCHANGED <<stopped, exitOk, timer, result>>, AdapterSame, ReaderSame,
         child' \in {"none", "running", "exited", "closed"},
         ~byTimer => child' = "closed", setup.adapter = "fake" => child' = "none"
  PROVE  ExecutionInv'
<1>1. /\ UNCHANGED <<attempt, aborted, log, setup, cursor, polls, seen, reconnects>>
      /\ at' = "finalizing" /\ recover' = byTimer
  BY DEF Finalizes, AdapterSame, ReaderSame, reader
<1>2. attempt \in Attempts
  BY DEF ExecutionInv, EventsOk
<1>3. PendingEvents \subseteq Nat /\ \A n : Awaits(n) <=> n \in PendingEvents
  BY DEF PendingEvents, Numbers, Own, Awaits, ExecutionInv, ExecutionTyped, ExecutionTypeOK
<1>4. /\ sequence' \in Nat
      /\ pending' \cup log' \subseteq [sequence : Nat \ {0}, attempt : Attempts]
      /\ \E n \in Nat : \A e \in pending' \cup log' : e.sequence <= n
      /\ lines' \in Lines /\ awaited' \subseteq Nat
      /\ \A n \in lines'.given : n \in Numbers(log') \/ Awaits(n)'
      /\ \A n \in lines'.given : n \in Numbers(log') \/ n \in awaited'
  <2>0. \A n \in lines.given : n \in Numbers(log) \/ Awaits(n)
    BY DEF ExecutionInv, LinesOk
  <2>1. CASE lines.rest
    <3>1. /\ addEvent /\ awaited' = PendingEvents \cup {sequence + 1}
          /\ lines' = [given |-> lines.given \cup {sequence + 1}, rest |-> FALSE]
      BY <2>1 DEF Finalizes
    <3>2. lines.given \subseteq Nat /\ sequence + 1 \in Nat
      BY ChildTyped, SetupTyped
    <3>3. lines' \in Lines /\ lines'.given = lines.given \cup {sequence + 1}
      BY <3>1, <3>2 DEF Lines
    <3>4. /\ sequence' \in Nat
          /\ pending' \cup log' \subseteq [sequence : Nat \ {0}, attempt : Attempts]
          /\ \E n \in Nat : \A e \in pending' \cup log' : e.sequence <= n
          /\ \A n : Awaits(n) => Awaits(n)'
          /\ \A n : n = sequence + 1 => Awaits(n)'
      BY <1>1, <1>2, <3>1, EventAdded
    <3>5. awaited' \subseteq Nat
      BY <1>3, <3>1, <3>2
    <3> QED
      BY <1>1, <1>3, <2>0, <3>1, <3>3, <3>4, <3>5
  <2>2. CASE ~lines.rest
    <3>1. UNCHANGED <<sequence, pending, lines>> /\ awaited' = PendingEvents
      BY <2>2 DEF Finalizes
    <3>2. \A n : Awaits(n) => Awaits(n)'
      BY <1>1, <3>1 DEF Awaits, Own, Numbers
    <3>3. lines' \in Lines /\ awaited' \subseteq Nat /\ sequence' \in Nat
      BY <1>3, <3>1, ChildTyped, SetupTyped
    <3>4. \E n \in Nat : \A e \in pending' \cup log' : e.sequence <= n
      BY <1>1, <3>1 DEF ExecutionInv, EventsOk
    <3>5. pending' \cup log' \subseteq [sequence : Nat \ {0}, attempt : Attempts]
      BY <1>1, <3>1 DEF ExecutionInv, ExecutionTyped, ExecutionTypeOK
    <3> QED
      BY <1>1, <1>3, <2>0, <3>1, <3>2, <3>3, <3>4, <3>5
  <2> QED
    BY <2>1, <2>2
<1>5. ExecutionTyped'
  <2>1. at' \in Places
    BY <1>1 DEF Places
  <2>2. lines'.given \subseteq Nat /\ lines'.rest \in BOOLEAN
    BY <1>4 DEF Lines
  <2> QED
    BY <1>1, <1>4, <2>1, <2>2 DEF ExecutionInv, ExecutionTyped, ExecutionTypeOK, Attempts, Slots
<1>6. EventsOk'
  BY <1>1, <1>2, <1>4 DEF ExecutionInv, EventsOk, Attempts, Slots, Numbers
<1>7. ChildOk'
  BY <1>1 DEF ChildOk, Settled
<1>8. LinesOk'
  BY <1>1, <1>4 DEF LinesOk
<1> QED
  BY <1>5, <1>6, <1>7, <1>8 DEF ExecutionInv

(* The timer after a terminal event tells the child to stop. *)
LEMMA GraceEndsStep == ASSUME ExecutionInv, GraceEnds PROVE ExecutionInv'
<1>1. at = "executing" /\ Finalizes(TRUE) /\ UNCHANGED <<child, stopped, exitOk, timer, result>>
      /\ AdapterSame /\ ReaderSame
  BY DEF GraceEnds
<1>2. child' \in {"none", "running", "exited", "closed"} /\ (setup.adapter = "fake" => child' = "none")
  BY <1>1 DEF ExecutionInv, ExecutionTyped, ExecutionTypeOK, ChildOk
<1>3. TRUE \in BOOLEAN /\ ~TRUE = FALSE
  OBVIOUS
<1> QED
  BY <1>1, <1>2, <1>3, FinalizesStep

(* The close callback flushes the unfinished line and finalizes. *)
LEMMA ClosesStep == ASSUME ExecutionInv, Closes PROVE ExecutionInv'
<1>1. child = "exited" /\ child' = "closed" /\ UNCHANGED <<stopped, exitOk, timer, result>>
      /\ AdapterSame /\ ReaderSame
  BY DEF Closes
<1>2. setup.adapter # "fake"
  BY <1>1 DEF ExecutionInv, ChildOk
<1>3. CASE at = "executing"
  <2>1. Finalizes(FALSE)
    BY <1>3 DEF Closes
  <2> QED
    BY <1>1, <1>2, <1>3, <2>1, FinalizesStep
<1>4. CASE at # "executing"
  <2>1. UNCHANGED <<at, attempt, aborted, recover, awaited, sequence, setup, pending, log, lines>>
    BY <1>1, <1>4 DEF Closes, worker, events, AdapterSame
  <2> QED
    BY <1>1, <2>1, ChildTyped, ChildStep
<1> QED
  BY <1>3, <1>4

(* finalize has awaited every insert before it looks at the result. *)
LEMMA ValidatesStep == ASSUME ExecutionInv, Validates PROVE ExecutionInv'
<1>1. at = "finalizing" /\ AllStored /\ UNCHANGED <<attempt, aborted, recover, log>>
      /\ AdapterSame /\ ReaderSame
  BY DEF Validates
<1>2. CASE ~ResultAccepted
  <2>1. Rejects /\ UNCHANGED <<sequence, pending, awaited, setup>>
    BY <1>1, <1>2 DEF Validates, AdapterSame
  <2> QED
    BY <1>1, <2>1, RejectsStep
<1>3. CASE ResultAccepted /\ recover
  <2>1. AwaitsEvent("recovering") /\ ProcessSame
    BY <1>3 DEF Validates
  <2> QED
    BY <1>1, <1>3, <2>1, AwaitsEventStep DEF Sends
<1>4. CASE ResultAccepted /\ ~recover
  <2>1. at' = "resolved" /\ UNCHANGED <<child, stopped, exitOk, lines, timer, result>>
        /\ UNCHANGED <<sequence, pending, awaited, setup, cursor, polls, seen, reconnects>>
    BY <1>1, <1>4 DEF Validates, ProcessSame, process, AdapterSame, ReaderSame, reader
  <2>2. exitOk /\ child = "closed"
    BY <1>1, <1>4 DEF ResultAccepted, ExecutionInv, ChildOk
  <2>3. ExecutionTyped'
    <3>1. at' \in Places
      BY <2>1 DEF Places
    <3> QED
      BY <1>1, <2>1, <3>1 DEF ExecutionInv, ExecutionTyped, ExecutionTypeOK, Attempts, Slots
  <2>4. EventsOk'
    BY <1>1, <2>1 DEF ExecutionInv, EventsOk, Attempts, Slots, Numbers
  <2>5. ChildOk'
    BY <1>1, <1>4, <2>1, <2>2 DEF ExecutionInv, ChildOk, Settled
  <2>6. lines.given \subseteq Numbers(log)
    BY <1>1, <1>4 DEF ExecutionInv, LinesOk, AllStored
  <2>7. LinesOk'
    BY <1>1, <2>1, <2>6 DEF LinesOk, Numbers
  <2> QED
    BY <2>3, <2>4, <2>5, <2>7 DEF ExecutionInv
<1> QED
  BY <1>2, <1>3, <1>4

(* finalize takes the result file of a child that was told to stop. *)
LEMMA RecoversStep == ASSUME ExecutionInv, Recovers PROVE ExecutionInv'
<1>1. UNCHANGED <<attempt, aborted, recover, awaited, sequence, setup, pending, log, cursor, polls, seen, reconnects>>
      /\ UNCHANGED <<child, exitOk, lines, timer, result>>
      /\ at = "recovering" /\ at' = "resolved" /\ stopped' = TRUE
  BY DEF Recovers, terminateProcessTree, events, AdapterSame, ReaderSame, reader
<1>2. recover
  BY <1>1 DEF ExecutionInv, ChildOk
<1>3. ExecutionTyped'
  <2>1. at' \in Places
    BY <1>1 DEF Places
  <2> QED
    BY <1>1, <2>1 DEF ExecutionInv, ExecutionTyped, ExecutionTypeOK, Attempts, Slots
<1>4. EventsOk'
  BY <1>1 DEF ExecutionInv, EventsOk, Attempts, Slots, Numbers
<1>5. ChildOk'
  BY <1>1, <1>2 DEF ExecutionInv, ChildOk, Settled
<1>6. LinesOk'
  BY <1>1, <1>2 DEF LinesOk
<1> QED
  BY <1>3, <1>4, <1>5, <1>6 DEF ExecutionInv

(* An insert under way commits under its own number. *)
LEMMA InsertCommitsStep == ASSUME ExecutionInv, InsertCommits PROVE ExecutionInv'
<1>1. PICK e \in pending : pending' = pending \ {e} /\ log' = log \cup {e}
  BY DEF InsertCommits
<1>2. UNCHANGED <<at, attempt, aborted, recover, awaited, sequence, setup, cursor, polls, seen, reconnects>>
      /\ UNCHANGED <<child, stopped, exitOk, lines, timer, result>>
  BY DEF InsertCommits, worker, ProcessSame, process, ReaderSame, reader
<1>3. ExecutionTyped'
  BY <1>1, <1>2 DEF ExecutionInv, ExecutionTyped, ExecutionTypeOK, Attempts, Slots
<1>4. EventsOk'
  BY <1>1, <1>2 DEF ExecutionInv, EventsOk, Attempts, Slots, Numbers
<1>5. ChildOk'
  BY <1>2 DEF ExecutionInv, ChildOk, Settled
<1>6. \A n : n \in Numbers(log) \/ Awaits(n) => n \in Numbers(log') \/ Awaits(n)'
  BY <1>1, <1>2 DEF Numbers, Awaits, Own
<1>7. Numbers(log) \subseteq Numbers(log')
  BY <1>1 DEF Numbers
<1>8. LinesOk'
  BY <1>2, <1>6, <1>7 DEF ExecutionInv, LinesOk
<1> QED
  BY <1>3, <1>4, <1>5, <1>8 DEF ExecutionInv

(* An insert fails: awaited, the attempt rejects; not awaited, the worker dies. *)
LEMMA InsertFailsStep == ASSUME ExecutionInv, InsertFails PROVE ExecutionInv'
<1>1. PICK e \in pending : pending' = pending \ {e} /\ Rejection(e)
  BY DEF InsertFails
<1>2. UNCHANGED <<setup, log, cursor, polls, seen, reconnects>> /\ ReaderSame
  BY DEF InsertFails, ReaderSame, reader
<1>3. CASE e.attempt # attempt \/ ~(Active \/ at \in {"starting", "announced"})
  <2>1. UNCHANGED <<at, attempt, aborted, recover, awaited, sequence>>
        /\ UNCHANGED <<child, stopped, exitOk, lines, timer, result>>
    BY <1>1, <1>3 DEF Rejection, worker, ProcessSame, process
  <2>2. ExecutionTyped'
    BY <1>1, <1>2, <2>1 DEF ExecutionInv, ExecutionTyped, ExecutionTypeOK, Attempts, Slots
  <2>3. EventsOk'
    BY <1>1, <1>2, <2>1 DEF ExecutionInv, EventsOk, Attempts, Slots, Numbers
  <2>4. ChildOk'
    BY <1>2, <2>1 DEF ExecutionInv, ChildOk, Settled
  <2>5. e.attempt # attempt => \A n : Awaits(n) => Awaits(n)'
    BY <1>1, <2>1 DEF Numbers, Awaits, Own
  <2>6. LinesOk'
    BY <1>2, <1>3, <2>1, <2>5 DEF ExecutionInv, LinesOk, Active, InAdapter, Settled
  <2> QED
    BY <2>2, <2>3, <2>4, <2>6 DEF ExecutionInv
<1>4. CASE Rejects /\ at \in {"finalizing", "recovering"} /\ UNCHANGED <<attempt, aborted, recover, awaited, sequence>>
  <2>1. pending' \subseteq pending
    BY <1>1
  <2> QED
    BY <1>2, <1>4, <2>1, RejectsStep
<1>5. ASSUME UNCHANGED <<attempt, aborted, recover, awaited, sequence>>, ProcessSame,
             \/ at \in {"faking", "resolved", "succeeding"} /\ at' = "rejected"
             \/ at \in {"starting", "announced", "failing"} /\ at' = "failed"
             \/ (Active \/ at \in {"starting", "announced"}) /\ at' = "dead"
      PROVE  ExecutionInv'
  <2>1. UNCHANGED <<child, stopped, exitOk, lines, timer, result>>
    BY <1>5 DEF ProcessSame, process
  <2>2. ExecutionTyped'
    <3>1. at' \in Places
      BY <1>5 DEF Places
    <3> QED
      BY <1>1, <1>2, <1>5, <2>1, <3>1 DEF ExecutionInv, ExecutionTyped, ExecutionTypeOK, Attempts, Slots
  <2>3. EventsOk'
    BY <1>1, <1>2, <1>5, <2>1
       DEF ExecutionInv, EventsOk, Attempts, Slots, Numbers, Active, InAdapter, Settled
  <2>4. ChildOk'
    BY <1>2, <1>5, <2>1 DEF ExecutionInv, ChildOk, Settled
  <2>5. LinesOk'
    BY <1>5 DEF LinesOk
  <2> QED
    BY <2>2, <2>3, <2>4, <2>5 DEF ExecutionInv
<1>6. \/ e.attempt # attempt \/ ~(Active \/ at \in {"starting", "announced"})
      \/ Rejects /\ at \in {"finalizing", "recovering"} /\ UNCHANGED <<attempt, aborted, recover, awaited, sequence>>
      \/ /\ UNCHANGED <<attempt, aborted, recover, awaited, sequence>> /\ ProcessSame
         /\ \/ at \in {"faking", "resolved", "succeeding"} /\ at' = "rejected"
            \/ at \in {"starting", "announced", "failing"} /\ at' = "failed"
            \/ (Active \/ at \in {"starting", "announced"}) /\ at' = "dead"
  BY <1>1 DEF Rejection
<1> QED
  BY <1>3, <1>4, <1>5, <1>6

(* A reader's step keeps the invariant when it asks for stored numbers.    *)
LEMMA ReaderStep ==
  ASSUME ExecutionInv, StreamOnly, polls' \in [Slots -> [after : Nat, asked : BOOLEAN, page : SUBSET Nat]],
         cursor' \in Nat, seen' \subseteq Nat, \A p \in Slots : polls'[p].page \subseteq Numbers(log)
  PROVE  ExecutionInv'
<1>1. UNCHANGED <<setup, at, attempt, aborted, recover, awaited, sequence, pending, log>>
      /\ UNCHANGED <<child, stopped, exitOk, lines, timer, result>>
  BY DEF StreamOnly, ProcessSame, process, worker, events
<1>2. ExecutionTyped'
  BY <1>1 DEF ExecutionInv, ExecutionTyped, ExecutionTypeOK, Attempts, Slots
<1>3. EventsOk'
  BY <1>1 DEF ExecutionInv, EventsOk, Attempts, Slots, Numbers
<1>4. ChildOk'
  BY <1>1 DEF ExecutionInv, ChildOk, Settled
<1>5. LinesOk'
  BY <1>1 DEF ExecutionInv, LinesOk, Awaits, Own, Numbers
<1> QED
  BY <1>2, <1>3, <1>4, <1>5 DEF ExecutionInv

(* The types of what a reader has.                                         *)
LEMMA ReaderTyped ==
  ASSUME ExecutionInv
  PROVE  /\ polls \in [Slots -> [after : Nat, asked : BOOLEAN, page : SUBSET Nat]]
         /\ cursor \in Nat /\ seen \subseteq Nat /\ Numbers(log) \subseteq Nat
         /\ \A p \in Slots : polls[p].page \subseteq Numbers(log)
         /\ NoPoll \in [after : Nat, asked : BOOLEAN, page : SUBSET Nat] /\ NoPoll.page = {}
  BY DEF ExecutionInv, ExecutionTyped, ExecutionTypeOK, EventsOk, Numbers, NoPoll

(* The interval starts another poll, with the reader's cursor as it is. *)
LEMMA PollsStep == ASSUME ExecutionInv, Polls PROVE ExecutionInv'
<1> DEFINE asking == [after |-> cursor, asked |-> TRUE, page |-> {}]
<1>1. PICK p \in Slots : polls' = [polls EXCEPT ![p] = asking]
  BY DEF Polls
<1>2. asking \in [after : Nat, asked : BOOLEAN, page : SUBSET Nat] /\ asking.page = {}
  BY ReaderTyped
<1> HIDE DEF asking
<1>3. /\ polls' \in [Slots -> [after : Nat, asked : BOOLEAN, page : SUBSET Nat]]
      /\ \A q \in Slots : polls'[q].page \subseteq Numbers(log)
  BY <1>1, <1>2, ReaderTyped
<1> QED
  BY <1>3, ReaderTyped, ReaderStep DEF Polls

(* A poll reads a page of stored events after its cursor. *)
LEMMA PollReadsStep == ASSUME ExecutionInv, PollReads PROVE ExecutionInv'
<1>1. PICK p \in Slots : polls' = [polls EXCEPT ![p].page = Page(polls[p].after)]
  BY DEF PollReads
<1>2. PICK numbers \in SUBSET Numbers(log) : numbers = Page(polls[p].after)
  BY DEF Page
<1>3. /\ polls' \in [Slots -> [after : Nat, asked : BOOLEAN, page : SUBSET Nat]]
      /\ \A q \in Slots : polls'[q].page \subseteq Numbers(log)
  BY <1>1, <1>2, ReaderTyped
<1> QED
  BY <1>3, ReaderTyped, ReaderStep DEF PollReads

(* What a poll delivers is stored.                                         *)
LEMMA DeliversStored ==
  ASSUME ExecutionInv, PollDelivers
  PROVE  \E p \in Slots : /\ polls' = [polls EXCEPT ![p] = NoPoll]
                        /\ seen' = seen \cup polls[p].page /\ polls[p].page \subseteq Numbers(log)
                        /\ cursor' \in Nat
<1>1. PICK p \in Slots : /\ polls' = [polls EXCEPT ![p] = NoPoll]
                        /\ seen' = seen \cup polls[p].page
                        /\ cursor' = Max(polls[p].page \cup {cursor})
  BY DEF PollDelivers
<1>2. PICK found \in SUBSET Nat : found = polls[p].page \cup {cursor}
  BY ReaderTyped
<1>3. polls[p].page \subseteq Numbers(log)
  BY ReaderTyped
<1>4. PICK n \in Nat : cursor <= n /\ \A e \in pending \cup log : e.sequence <= n
  BY ReaderTyped, NumbersBounded
<1>5. found # {} /\ \A v \in found : v <= n
  BY <1>2, <1>3, <1>4 DEF Numbers
<1>6. Max(found) \in found
  BY <1>5, MaxIsGreatest
<1> QED
  BY <1>1, <1>2, <1>3, <1>6

(* A poll writes its page to the reader and sets the cursor. *)
LEMMA PollDeliversStep == ASSUME ExecutionInv, PollDelivers PROVE ExecutionInv'
<1>1. PICK p \in Slots : /\ polls' = [polls EXCEPT ![p] = NoPoll]
                        /\ seen' = seen \cup polls[p].page /\ polls[p].page \subseteq Numbers(log)
                        /\ cursor' \in Nat
  BY DeliversStored
<1>2. /\ polls' \in [Slots -> [after : Nat, asked : BOOLEAN, page : SUBSET Nat]]
      /\ \A q \in Slots : polls'[q].page \subseteq Numbers(log)
  BY <1>1, ReaderTyped
<1>3. seen' \subseteq Nat
  BY <1>1, ReaderTyped
<1> QED
  BY <1>1, <1>2, <1>3, ReaderStep DEF PollDelivers

(* A browser that reconnects starts from cursor 0. *)
LEMMA ReconnectsStep == ASSUME ExecutionInv, Reconnects PROVE ExecutionInv'
<1>1. polls' = [p \in Slots |-> NoPoll] /\ cursor' = 0 /\ seen' = seen /\ StreamOnly
  BY DEF Reconnects
<1>2. /\ polls' \in [Slots -> [after : Nat, asked : BOOLEAN, page : SUBSET Nat]]
      /\ \A q \in Slots : polls'[q].page \subseteq Numbers(log)
  BY <1>1, ReaderTyped
<1> QED
  BY <1>1, <1>2, ReaderTyped, ReaderStep

(* A step that leaves the execution alone.                                 *)
LEMMA ExecutionStays == ASSUME ExecutionInv, UNCHANGED execution PROVE ExecutionInv'
<1>1. UNCHANGED <<setup, at, attempt, aborted, recover, awaited, sequence, pending, log>>
      /\ UNCHANGED <<child, stopped, exitOk, lines, timer, result, cursor, polls, seen, reconnects>>
  BY DEF execution, vars, process, worker, events, reader
<1>3. ExecutionTyped'
  BY <1>1 DEF ExecutionInv, ExecutionTyped, ExecutionTypeOK, Attempts, Slots
<1>4. EventsOk'
  BY <1>1 DEF ExecutionInv, EventsOk, Attempts, Slots, Numbers
<1>5. ChildOk'
  BY <1>1 DEF ExecutionInv, ChildOk, Settled
<1>6. LinesOk'
  BY <1>1 DEF ExecutionInv, LinesOk, Awaits, Own, Numbers
<1> QED
  BY <1>3, <1>4, <1>5, <1>6 DEF ExecutionInv

(* The execution's own steps keep its invariant.                           *)
LEMMA ExecutionStep == ASSUME ExecutionInv, Execution PROVE ExecutionInv'
<1>1. CASE AdapterSteps
  BY <1>1, FakeEmitsStep, ExecutesStep, GraceEndsStep, ClosesStep, ValidatesStep, RecoversStep DEF AdapterSteps
<1>2. CASE Executes \/ Inserts
  BY <1>2, ExecutesStep, InsertCommitsStep, InsertFailsStep DEF Inserts
<1>3. CASE Announces
  <2>1. AwaitsEvent("announced") /\ Sends(at, "announced")
    BY <1>3 DEF Announces, Sends
  <2> QED
    BY <1>3, <2>1, AwaitsEventStep DEF Announces
<1>4. CASE Concludes
  <2>1. PICK to \in {"succeeding", "failing"} : AwaitsEvent(to) /\ Sends(at, to)
    BY <1>4 DEF Concludes, Sends, Settled
  <2> QED
    BY <1>4, <2>1, AwaitsEventStep DEF Concludes
<1>5. CASE WorkerDies
  <2>1. at # "idle" /\ at' = "dead"
    BY <1>5 DEF WorkerDies, Active, InAdapter, Settled
  <2> QED
    BY <1>5, <2>1, LeavesStep DEF WorkerDies, Leaves
<1>8. CASE AclFails
  <2>1. Leaves(at, "rejected")
    BY <1>8 DEF AclFails, Leaves
  <2> QED
    BY <1>8, <2>1, LeavesStep DEF AclFails
<1>6. CASE Prints \/ PrintsRest \/ WritesResult \/ Exits \/ SpawnFails \/ Aborts
  BY <1>6, PrintsStep, PrintsRestStep, WritesResultStep, ExitsStep, SpawnFailsStep, AbortsStep
<1>7. CASE Polls \/ PollReads \/ PollDelivers \/ Reconnects
  BY <1>7, PollsStep, PollReadsStep, PollDeliversStep, ReconnectsStep
<1> QED
  BY <1>1, <1>2, <1>3, <1>4, <1>5, <1>6, <1>7, <1>8 DEF Execution

(* So does whatever the attempt does around it.                            *)
LEMMA AroundStep == ASSUME ExecutionInv, RunNext PROVE ExecutionInv'
<1>1. CASE Starts
  BY <1>1, BeginsStep DEF Starts
<1>2. CASE Finishes
  <2>1. Ends
    BY <1>2 DEF Finishes
  <2>2. PICK to \in {"succeeded", "failed"} : at' = to /\ Leaves(at, to)
    BY <2>1 DEF Ends, Leaves
  <2> QED
    BY <2>1, <2>2, LeavesStep DEF Ends, AdapterSame
<1>3. CASE DiesCloning
  <2>1. WorkerDies
    BY <1>3 DEF DiesCloning
  <2>2. at # "idle" /\ at' = "dead"
    BY <2>1 DEF WorkerDies, Active, InAdapter, Settled
  <2> QED
    BY <2>1, <2>2, LeavesStep DEF WorkerDies, Leaves
<1>4. CASE Execution
  BY <1>4, ExecutionStep
<1>5. ASSUME NEW to, Sends(at, to), AwaitsEvent(to), UNCHANGED <<attempt, aborted, recover, log>>,
             ProcessSame, AdapterSame, ReaderSame
      PROVE  ExecutionInv'
  BY <1>5, AwaitsEventStep
<1>6. ASSUME at = "starting", FailsEarly, OnlyAt PROVE ExecutionInv'
  BY <1>6, LeavesStep DEF FailsEarly, OnlyAt, AdapterSame, Leaves
<1>7. ASSUME at = "resolved", IsRejected, OnlyAt PROVE ExecutionInv'
  BY <1>7, LeavesStep DEF IsRejected, OnlyAt, AdapterSame, Leaves
<1>8. CASE PreparationFails
  <2>1. at' = "failed" /\ Leaves(at, "failed")
    BY <1>8 DEF PreparationFails, FailsEarly, Leaves
  <2> QED
    BY <1>8, <2>1, LeavesStep DEF PreparationFails
<1>9. CASE GitFails
  <2>1. at' = "rejected" /\ Leaves(at, "rejected")
    BY <1>9 DEF GitFails, IsRejected, Leaves
  <2> QED
    BY <1>9, <2>1, LeavesStep DEF GitFails
<1>10. CASE Inspects
  <2>1. at = "starting"
    BY <1>10 DEF Inspects
  <2>2. \/ UNCHANGED execution
        \/ FailsEarly /\ OnlyAt
        \/ /\ AwaitsEvent("starting") /\ UNCHANGED <<attempt, aborted, recover, log>>
           /\ ProcessSame /\ AdapterSame /\ ReaderSame
    BY <1>10 DEF Inspects, ExecutionSame, inspectRepositoryWorkspace
  <2> QED
    BY <1>5, <1>6, <2>1, <2>2, ExecutionStays DEF Sends
<1>11. CASE ReportsFailure
  BY <1>5, <1>11 DEF ReportsFailure, Sends
<1>12. CASE ChecksOut
  BY <1>6, <1>12, ExecutionStays DEF ChecksOut, ExecutionSame
<1>13. CASE Clones \/ Writes
  BY <1>13, ExecutionStays DEF Clones, Writes, ExecutionSame
<1>14. CASE GivesUp \/ ChecksChanges \/ Commits \/ Pushes \/ Builds \/ createPullRequest
  BY <1>7, <1>14, ExecutionStays
     DEF GivesUp, ChecksChanges, Commits, Pushes, Builds, createPullRequest, At, ExecutionSame
<1> QED
  BY <1>1, <1>2, <1>3, <1>4, <1>8, <1>9, <1>10, <1>11, <1>12, <1>13, <1>14
     DEF RunNext, Preparation, GitPhase

-----------------------------------------------------------------------------
(* The workspace.                                                          *)

Steps == {"none", "inspects", "clones", "checksOut", "ready", "reported", "commits",
          "pushes", "builds", "opens", "opened"}
Dirs == {"missing", "empty", "broken", "git", "foreign"}

(* No directory, no commit and no pull request satisfy the invariant. *)
LEMMA InitWorkspaceInv == ASSUME RunInit PROVE WorkspaceInv
<1>1. <<>> \in Seq(Commit) /\ DOMAIN <<>> = {}
  BY EmptySeq
<1>2. ExecutionInv /\ at = "idle"
  BY InitExecutionInv DEF RunInit, Init
<1>3. TypeOK
  BY <1>1, <1>2, PlansAssumption DEF RunInit, TypeOK, ExecutionInv, ExecutionTyped
<1>4. StepOk
  BY <1>2 DEF RunInit, StepOk, AtWork, Built
<1> QED
  BY <1>1, <1>3, <1>4 DEF RunInit, WorkspaceInv, CommitsOk

(* The types that the steps on the workspace have to keep.                 *)
LEMMA WorkspaceTyped ==
  ASSUME ExecutionInv', UNCHANGED <<plan, setup>>, plan \in Plans, step' \in Steps, dir' \in Dirs,
         dirty' \subseteq plan.touches, known' \subseteq plan.touches, listed' \subseteq Entries,
         head' \in Seq(Commit), remote' \in Seq(Commit),
         pulled' \in BOOLEAN, orphaned' \in BOOLEAN
  PROVE  TypeOK'
<1>1. Commit' = Commit
  BY DEF Commit, Attempts
<1>2. ExecutionTypeOK'
  BY DEF ExecutionInv, ExecutionTyped
<1>3. head' \in Seq(Commit') /\ remote' \in Seq(Commit')
  BY <1>1
<1> QED
  BY <1>2, <1>3 DEF TypeOK, Steps, Dirs

(* The parts of the invariant, unfolded once for the steps below. *)
LEMMA WorkspaceHas ==
  ASSUME WorkspaceInv
  PROVE  /\ plan \in Plans /\ step \in Steps /\ dir \in Dirs /\ dirty \subseteq plan.touches
         /\ known \subseteq plan.touches /\ listed \subseteq Entries /\ plan.touches \subseteq Files
         /\ head \in Seq(Commit) /\ remote \in Seq(Commit) /\ pulled \in BOOLEAN /\ orphaned \in BOOLEAN
         /\ StepOk /\ CommitsOk(head) /\ CommitsOk(remote)
  BY PlansAssumption DEF WorkspaceInv, TypeOK, Steps, Dirs

(* How far a step of the execution can take an attempt.                    *)
LEMMA ExecutionMoves ==
  ASSUME ExecutionInv, StepOk, Execution
  PROVE  /\ UNCHANGED <<attempt, setup>>
         /\ \/ at' = at /\ recover' = recover
            \/ at' \in {"rejected", "failing", "failed", "dead"}
            \/ at' \in AtWork \cup {"resolved"} /\ step = "ready"
            \/ at' = "succeeding" /\ (Real => step = "opened")
<1> USE DEF AdapterSame
<1>1. at \in AtWork => step = "ready"
  BY DEF StepOk
<1>2. CASE FakeEmits
  BY <1>1, <1>2 DEF FakeEmits, AwaitsEvent, AtWork
<1>3. CASE GraceEnds
  BY <1>1, <1>3 DEF GraceEnds, Finalizes, AtWork
<1>4. CASE Closes
  BY <1>1, <1>4 DEF Closes, Finalizes, AtWork, worker
<1>5. CASE Validates
  BY <1>1, <1>5 DEF Validates, Rejects, AwaitsEvent, AtWork
<1>6. CASE Recovers
  BY <1>1, <1>6 DEF Recovers, AtWork
<1>7. CASE Executes \/ Spawns
  BY <1>1, <1>7 DEF Executes, Spawns, AtWork
<1>8. CASE InsertCommits
  BY <1>8 DEF InsertCommits, worker
<1>9. CASE InsertFails
  <2>1. PICK e \in pending : Rejection(e)
    BY <1>9 DEF InsertFails
  <2>2. setup' = setup
    BY <1>9 DEF InsertFails
  <2>3. attempt' = attempt
    BY <2>1 DEF Rejection, worker
  <2>4. (at' = at /\ recover' = recover) \/ at' \in {"rejected", "failed", "dead"}
    BY <2>1 DEF Rejection, worker, Rejects
  <2> QED
    BY <2>2, <2>3, <2>4
<1>10. CASE step = "ready" /\ Announces
  BY <1>10 DEF Announces, AwaitsEvent, AtWork
<1>11. CASE (at = "resolved" /\ Real => step = "opened") /\ Concludes
  BY <1>11 DEF Concludes, AwaitsEvent, Settled
<1>12. CASE Prints \/ PrintsRest \/ WritesResult \/ Exits \/ Aborts
  BY <1>12 DEF Prints, PrintsRest, WritesResult, Exits, Aborts, worker
<1>13. CASE SpawnFails \/ AclFails \/ WorkerDies
  BY <1>13 DEF SpawnFails, AclFails, WorkerDies
<1>14. CASE Polls \/ PollReads \/ PollDelivers \/ Reconnects
  BY <1>14 DEF Polls, PollReads, PollDelivers, Reconnects, StreamOnly, worker
<1> QED
  BY <1>2, <1>3, <1>4, <1>5, <1>6, <1>7, <1>8, <1>9, <1>10, <1>11, <1>12, <1>13, <1>14
     DEF Execution, AdapterSteps, Inserts

(* A step that leaves the workspace as it is.                              *)
LEMMA WorkspaceStays ==
  ASSUME WorkspaceInv, ExecutionInv', UNCHANGED workspace, UNCHANGED <<attempt, setup>>,
         \/ at' = at /\ recover' = recover
         \/ at' \in {"rejected", "failing", "failed", "dead"}
         \/ at' \in AtWork \cup {"resolved"} /\ step = "ready"
         \/ at' = "succeeding" /\ (Real => step = "opened")
  PROVE  WorkspaceInv'
<1>1. UNCHANGED <<plan, step, dir, dirty, known, listed, head, remote, pulled, orphaned>>
  BY DEF workspace
<1>2. TypeOK'
  BY <1>1, WorkspaceHas, WorkspaceTyped
<1>3. StepOk'
  BY <1>1, WorkspaceHas DEF StepOk, AtWork, Built, Real, Judged, enforcePathPolicy
<1>4. CommitsOk(head)' /\ CommitsOk(remote)'
  BY <1>1, WorkspaceHas DEF CommitsOk, CommitOk
<1> QED
  BY <1>2, <1>3, <1>4 DEF WorkspaceInv

(* A step on the workspace keeps the invariant when it commits what it     *)
(* may, and is where its work has taken it.                                *)
LEMMA WorkspaceMoves ==
  ASSUME WorkspaceInv, ExecutionInv', UNCHANGED <<plan, setup>>,
         step' \in Steps, dir' \in Dirs, dirty' \subseteq plan.touches, known' \subseteq plan.touches,
         listed' \subseteq Entries, head' \in Seq(Commit), remote' \in {remote, head}, pulled' \in BOOLEAN, orphaned' \in BOOLEAN,
         StepOk', head' = head \/ CommitsOk(head')
  PROVE  WorkspaceInv'
<1>1. remote' \in Seq(Commit)
  BY WorkspaceHas
<1>2. TypeOK'
  BY <1>1, WorkspaceHas, WorkspaceTyped
<1>3. CommitsOk(head)' /\ CommitsOk(remote)'
  BY WorkspaceHas DEF CommitsOk, CommitOk
<1> QED
  BY <1>2, <1>3 DEF WorkspaceInv

(* Nothing is expected of the workspace before Codex and after a failure.  *)
LEMMA StepOkOutside ==
  ASSUME WorkspaceInv, at' \in {"starting", "failed", "rejected", "dead"},
         \/ step' \notin Built
         \/ step' = step /\ remote' = remote /\ attempt' = attempt /\ pulled' = pulled
  PROVE  StepOk'
  BY WorkspaceHas DEF StepOk, AtWork, Built

(* The attempt begins with what an earlier one left behind. *)
LEMMA StartsStep == ASSUME ExecutionInv, WorkspaceInv, ExecutionInv', Starts PROVE WorkspaceInv'
<1>1. /\ at' = "starting" /\ step' = "inspects" /\ orphaned' = (orphaned \/ child = "running")
      /\ UNCHANGED <<setup, plan, dir, dirty, known, listed, head, remote, pulled>>
  BY DEF Starts, Begins, AdapterSame, Moves, IndexSame
<1>2. orphaned' \in BOOLEAN /\ step' \in Steps /\ step' \notin Built
  BY <1>1 DEF Steps, Built
<1>3. StepOk'
  BY <1>1, <1>2, StepOkOutside
<1> QED
  BY <1>1, <1>2, <1>3, WorkspaceHas, WorkspaceMoves

(* The attempt looks at what the directory holds. *)
LEMMA InspectsStep == ASSUME WorkspaceInv, ExecutionInv', Inspects PROVE WorkspaceInv'
<1>1. at = "starting" /\ step = "inspects" /\ UNCHANGED <<plan, dir, dirty, known, listed, head, remote, pulled, orphaned>>
  BY DEF Inspects, WorkspaceSame, IndexSame
<1>2. step' \in {"ready", "clones", "checksOut", "inspects"} /\ at' \in {"starting", "failed"} /\ setup' = setup
  BY <1>1 DEF Inspects, inspectRepositoryWorkspace, Moves, ExecutionSame, execution, vars, worker,
            FailsEarly, OnlyAt, AdapterSame, AwaitsEvent
<1>3. step' \in Steps /\ step' \notin Built
  BY <1>2 DEF Steps, Built
<1>4. StepOk'
  BY <1>2, <1>3, StepOkOutside
<1> QED
  BY <1>1, <1>2, <1>3, <1>4, WorkspaceHas, WorkspaceMoves

(* An empty history holds no commit.                                       *)
LEMMA NoCommits == <<>> \in Seq(Commit) /\ CommitsOk(<<>>)
<1>1. <<>> \in Seq(Commit) /\ DOMAIN <<>> = {}
  BY EmptySeq
<1> QED
  BY <1>1 DEF CommitsOk

(* A clone starts with no commit of the run's. *)
LEMMA ClonesStep == ASSUME WorkspaceInv, ExecutionInv', Clones PROVE WorkspaceInv'
<1>1. /\ at' = "starting" /\ step' = "checksOut" /\ dir' = "git" /\ dirty' = {} /\ known' = {} /\ head' = <<>>
      /\ UNCHANGED <<plan, setup, listed, remote, pulled, orphaned>>
  BY DEF Clones, Moves, ExecutionSame, execution, vars, worker
<1>2. step' \in Steps /\ step' \notin Built /\ dir' \in Dirs
  BY <1>1 DEF Steps, Built, Dirs
<1>3. StepOk'
  BY <1>1, <1>2, StepOkOutside
<1> QED
  BY <1>1, <1>2, <1>3, NoCommits, WorkspaceHas, WorkspaceMoves

(* The checkout goes back to the target commit, keeps HEAD, or refuses. *)
LEMMA ChecksOutStep == ASSUME WorkspaceInv, ExecutionInv', ChecksOut PROVE WorkspaceInv'
<1>1. step = "checksOut" /\ known' \subseteq known /\ UNCHANGED <<plan, dir, dirty, listed, remote, pulled, orphaned>>
  BY DEF ChecksOut
<1>2. at' \in {"starting", "failed"} /\ step' \in {"checksOut", "ready"} /\ setup' = setup /\ head' \in {<<>>, head}
  BY <1>1 DEF ChecksOut, Moves, ExecutionSame, execution, vars, worker, FailsEarly, OnlyAt, AdapterSame
<1>3. step' \in Steps /\ step' \notin Built
  BY <1>2 DEF Steps, Built
<1>4. StepOk'
  BY <1>2, <1>3, StepOkOutside
<1>5. head' \in Seq(Commit) /\ (head' = head \/ CommitsOk(head'))
  BY <1>2, NoCommits, WorkspaceHas
<1> QED
  BY <1>1, <1>2, <1>3, <1>4, <1>5, WorkspaceHas, WorkspaceMoves

(* A step before Codex fails and the attempt rejects. *)
LEMMA PreparationFailsStep == ASSUME WorkspaceInv, ExecutionInv', PreparationFails PROVE WorkspaceInv'
<1>1. at' = "failed" /\ UNCHANGED workspace /\ UNCHANGED <<attempt, setup>>
  BY DEF PreparationFails, FailsEarly, WorkspaceSame, IndexSame, workspace
<1> QED
  BY <1>1, WorkspaceStays

(* The worker dies during a clone; half a clone may stay. *)
LEMMA DiesCloningStep == ASSUME WorkspaceInv, ExecutionInv', DiesCloning PROVE WorkspaceInv'
<1>1. /\ at' = "dead" /\ step' = step /\ step = "clones" /\ dir' \in {"missing", "empty", "broken", "git"}
      /\ dirty' \subseteq plan.touches \/ dirty' = dirty
      /\ UNCHANGED <<plan, setup, known, listed, head, remote, pulled, orphaned>>
  BY DEF DiesCloning, WorkerDies, IndexSame
<1>2. step' \in Steps /\ step' \notin Built /\ dir' \in Dirs
  BY <1>1 DEF Steps, Built, Dirs
<1>3. StepOk'
  BY <1>1, <1>2, StepOkOutside
<1> QED
  BY <1>1, <1>2, <1>3, WorkspaceHas, WorkspaceMoves

(* Nobody writes beside an attempt that commits alone.                     *)
LEMMA WritesStep == ASSUME ExecutionInv, WorkspaceInv, ExecutionInv', Writes PROVE WorkspaceInv'
<1>1. /\ UNCHANGED <<plan, step, dir, known, listed, head, remote, pulled, orphaned, at, attempt, recover, setup>>
      /\ child = "running" \/ orphaned
  BY DEF Writes, IndexSame, ExecutionSame, execution, vars, worker
<1>2. dirty' \subseteq plan.touches
  BY WorkspaceHas DEF Writes
<1>3. ~(at = "resolved" /\ ~recover /\ ~orphaned)
  BY <1>1 DEF ExecutionInv, ChildOk
<1>4. StepOk'
  BY <1>1, <1>3, WorkspaceHas DEF StepOk, AtWork, Built, Real
<1> QED
  BY <1>1, <1>2, <1>4, WorkspaceHas, WorkspaceMoves

(* An event tells of the failed result before the attempt gives up. *)
LEMMA ReportsFailureStep == ASSUME WorkspaceInv, ExecutionInv', ReportsFailure PROVE WorkspaceInv'
<1>1. /\ at' = "resolved" /\ step' = "reported"
      /\ UNCHANGED <<plan, setup, dir, dirty, known, listed, head, remote, pulled, orphaned>>
  BY DEF ReportsFailure, AwaitsEvent, Moves, AdapterSame, WorkspaceSame, IndexSame
<1>2. step' \in Steps
  BY <1>1 DEF Steps
<1>3. StepOk'
  BY <1>1 DEF StepOk, AtWork, Built
<1> QED
  BY <1>1, <1>2, <1>3, WorkspaceHas, WorkspaceMoves

(* Whatever step gives the attempt up leaves the workspace as it is, or    *)
(* has just asked for what git status shows.                               *)
LEMMA GivenUp ==
  ASSUME WorkspaceInv, ExecutionInv', IsRejected, OnlyAt, listed' \subseteq Entries,
         UNCHANGED <<plan, step, dir, dirty, known, head, remote, pulled, orphaned>>
  PROVE  WorkspaceInv'
<1>1. at' = "rejected" /\ UNCHANGED <<attempt, setup>>
  BY DEF IsRejected, OnlyAt, AdapterSame
<1>2. StepOk'
  BY <1>1, StepOkOutside
<1> QED
  BY <1>1, <1>2, WorkspaceHas, WorkspaceMoves

(* What git status names is an entry, and has a name of each file.         *)
LEMMA StatusNames ==
  ASSUME WorkspaceInv, ChecksChanges
  PROVE  listed' \subseteq Entries /\ \A f \in dirty : NamesOf(f) \cap listed' # {}
<1>1. \A f \in dirty : changedPaths(f) \subseteq NamesOf(f)
  BY DEF changedPaths, NamesOf
<1>2. \A f \in dirty : NamesOf(f) \subseteq Entries
  BY WorkspaceHas DEF Entries
<1>3. listed' \in SUBSET UNION {changedPaths(f) : f \in dirty}
      /\ \A f \in dirty : changedPaths(f) \cap listed' # {}
  BY DEF ChecksChanges
<1>4. ASSUME NEW e \in listed' PROVE e \in Entries
  <2>1. PICK f \in dirty : e \in changedPaths(f)
    BY <1>3, <1>4
  <2> QED
    BY <1>1, <1>2, <2>1
<1>5. ASSUME NEW f \in dirty PROVE NamesOf(f) \cap listed' # {}
  BY <1>1, <1>3, <1>5
<1> QED
  BY <1>4, <1>5

(* The path policy accepts or refuses what git status shows now. *)
LEMMA ChecksChangesStep == ASSUME WorkspaceInv, ExecutionInv', ChecksChanges PROVE WorkspaceInv'
<1>0. UNCHANGED <<plan, dir, dirty, head, remote, pulled, orphaned>>
  BY DEF ChecksChanges
<1>1. CASE enforcePathPolicy(listed') /\ dirty # {}
  <2>1. /\ step' = "commits" /\ at = "resolved" /\ known' \subseteq known \cup dirty
        /\ UNCHANGED <<setup, at, recover, attempt>>
    BY <1>1 DEF ChecksChanges, At, Moves, ExecutionSame, execution, vars, worker
  <2>2. step' \in Steps
    BY <2>1 DEF Steps
  <2>3. Judged'
    BY <1>0, <1>1, StatusNames DEF Judged, enforcePathPolicy
  <2>4. StepOk'
    BY <1>1, <2>1, <2>3 DEF StepOk, AtWork, Built
  <2> QED
    BY <1>0, <2>1, <2>2, <2>4, StatusNames, WorkspaceHas, WorkspaceMoves
<1>2. CASE ~(enforcePathPolicy(listed') /\ dirty # {})
  BY <1>0, <1>2, StatusNames, GivenUp DEF ChecksChanges
<1> QED
  BY <1>1, <1>2

(* What a commit adds.                                                     *)
LEMMA CommitAdded ==
  ASSUME NEW S, NEW s \in Seq(S), NEW e \in S
  PROVE  /\ Append(s, e) \in Seq(S) /\ Append(s, e) # <<>> /\ Last(Append(s, e)) = e
         /\ \A i \in DOMAIN Append(s, e) : (i \in DOMAIN s /\ Append(s, e)[i] = s[i]) \/ Append(s, e)[i] = e
<1>1. Append(s, e) \in Seq(S) /\ Len(Append(s, e)) = Len(s) + 1
      /\ Append(s, e)[Len(s) + 1] = e /\ \A i \in 1 .. Len(s) : Append(s, e)[i] = s[i]
  BY AppendProperties
<1>2. DOMAIN s = 1 .. Len(s) /\ Len(s) \in Nat /\ DOMAIN Append(s, e) = 1 .. (Len(s) + 1)
  BY <1>1, LenProperties
<1>3. Append(s, e) # <<>>
  BY <1>1, <1>2, EmptySeq
<1> QED
  BY <1>1, <1>2, <1>3 DEF Last

(* git add and commit take what is there now: it is what was checked, if
   nobody wrote since. *)
LEMMA CommitsStep == ASSUME ExecutionInv, WorkspaceInv, ExecutionInv', Commits PROVE WorkspaceInv'
<1>1. at = "resolved" /\ step = "commits" /\ dirty' = {} /\ known' = known \cup dirty
      /\ UNCHANGED <<plan, dir, listed, remote, pulled, orphaned>>
  BY DEF Commits, At
<1>2. CASE dirty = {}
  <2>1. UNCHANGED <<dirty, known>>
    BY <1>1, <1>2
  <2> QED
    BY <1>1, <1>2, <2>1, GivenUp, WorkspaceHas DEF Commits
<1>3. CASE dirty # {}
  <2>1. PICK alone \in BOOLEAN : alone = (~recover /\ ~orphaned)
    OBVIOUS
  <2> DEFINE commit == [files |-> dirty, listed |-> listed, attempt |-> attempt, alone |-> alone]
  <2>2. head' = Append(head, commit)
    BY <1>3, <2>1 DEF Commits
  <2>3. step' = "pushes" /\ UNCHANGED <<setup, at, recover, attempt>>
    BY <1>3 DEF Commits, Moves, ExecutionSame, execution, vars, worker
  <2>4. attempt \in Attempts
    BY <1>1 DEF ExecutionInv, EventsOk
  <2>5. dirty \subseteq Files /\ listed \subseteq Entries
    BY WorkspaceHas
  <2>6. commit \in Commit /\ commit.attempt = attempt
    BY <2>4, <2>5 DEF Commit
  <2>7. CommitOk(commit)
    BY <1>1, <1>3, <2>1, WorkspaceHas DEF CommitOk, StepOk, Judged, enforcePathPolicy
  <2> HIDE DEF commit
  <2>8. /\ head' \in Seq(Commit) /\ head' # <<>> /\ Last(head') = commit
        /\ \A i \in DOMAIN head' : (i \in DOMAIN head /\ head'[i] = head[i]) \/ head'[i] = commit
    BY <2>2, <2>6, WorkspaceHas, CommitAdded
  <2>9. CommitsOk(head')
    BY <2>7, <2>8, WorkspaceHas DEF CommitsOk
  <2>10. StepOk'
    BY <1>1, <2>3, <2>6, <2>8 DEF StepOk, AtWork, Built
  <2>11. step' \in Steps
    BY <2>3 DEF Steps
  <2> QED
    BY <1>1, <2>3, <2>8, <2>9, <2>10, <2>11, WorkspaceHas, WorkspaceMoves
<1> QED
  BY <1>2, <1>3

(* GitHub's branch becomes the clone's. *)
LEMMA PushesStep == ASSUME WorkspaceInv, ExecutionInv', Pushes PROVE WorkspaceInv'
<1>1. at = "resolved" /\ step = "pushes" /\ UNCHANGED <<plan, dir, dirty, known, listed, head, pulled, orphaned>>
  BY DEF Pushes, At, IndexSame
<1>2. CASE FastForward
  <2>1. remote' = head /\ step' = "builds" /\ UNCHANGED <<setup, at, attempt>>
    BY <1>2 DEF Pushes, Moves, ExecutionSame, execution, vars, worker
  <2>2. StepOk'
    BY <1>1, <2>1, WorkspaceHas DEF StepOk, AtWork, Built
  <2>3. step' \in Steps
    BY <2>1 DEF Steps
  <2> QED
    BY <1>1, <2>1, <2>2, <2>3, WorkspaceHas, WorkspaceMoves
<1>3. CASE ~FastForward
  BY <1>1, <1>3, GivenUp, WorkspaceHas DEF Pushes
<1> QED
  BY <1>2, <1>3

(* The Android pipeline runs after the push. *)
LEMMA BuildsStep == ASSUME WorkspaceInv, ExecutionInv', Builds PROVE WorkspaceInv'
<1>1. at = "resolved" /\ step = "builds"
  BY DEF Builds, At
<1>2. CASE aborted
  BY <1>2, GivenUp, WorkspaceHas DEF Builds, WorkspaceSame, IndexSame
<1>3. CASE ~aborted
  <2>1. step' = "opens" /\ UNCHANGED <<plan, setup, at, attempt, dir, dirty, known, listed, head, remote, pulled, orphaned>>
    BY <1>3 DEF Builds, Moves, WorkspaceSame, IndexSame, ExecutionSame, execution, vars, worker
  <2>2. StepOk'
    BY <1>1, <2>1, WorkspaceHas DEF StepOk, AtWork, Built
  <2>3. step' \in Steps
    BY <2>1 DEF Steps
  <2> QED
    BY <2>1, <2>2, <2>3, WorkspaceHas, WorkspaceMoves
<1> QED
  BY <1>2, <1>3

(* The pull request is opened for a branch that holds checked commits. *)
LEMMA createPullRequestStep == ASSUME WorkspaceInv, ExecutionInv', createPullRequest PROVE WorkspaceInv'
<1>1. /\ at = "resolved" /\ step = "opens" /\ pulled' = TRUE
      /\ UNCHANGED <<plan, dir, dirty, known, listed, head, remote, orphaned>>
  BY DEF createPullRequest, At, IndexSame
<1>2. /\ attempt' = attempt /\ setup' = setup
      /\ \/ at' = "rejected" /\ step' = step
         \/ at' = "resolved" /\ step' = "opened"
  BY <1>1 DEF createPullRequest, IsRejected, OnlyAt, AdapterSame, Moves, ExecutionSame, execution, vars, worker
<1>3. StepOk'
  BY <1>1, <1>2, WorkspaceHas DEF StepOk, AtWork, Built
<1>4. step' \in Steps
  BY <1>1, <1>2 DEF Steps
<1> QED
  BY <1>1, <1>2, <1>3, <1>4, WorkspaceHas, WorkspaceMoves

(* A git command or a request fails, before or after its effect. *)
LEMMA GitFailsStep == ASSUME WorkspaceInv, ExecutionInv', GitFails PROVE WorkspaceInv'
<1>1. /\ at' = "rejected" /\ step' = step /\ step \in {"commits", "pushes", "builds", "opens"}
      /\ UNCHANGED <<plan, setup, attempt, dir, dirty, known, listed, head, orphaned>>
      /\ remote' \in {remote, head} /\ (step # "pushes" => remote' = remote)
  BY DEF GitFails, IsRejected, IndexSame
<1>2. pulled' \in BOOLEAN
  BY WorkspaceHas DEF GitFails
<1>3. StepOk'
  BY <1>1, WorkspaceHas DEF StepOk, AtWork, Built
<1> QED
  BY <1>1, <1>2, <1>3, WorkspaceHas, WorkspaceMoves

(* The finally clause, together with the attempt's end. *)
LEMMA FinishesStep == ASSUME WorkspaceInv, ExecutionInv', Finishes PROVE WorkspaceInv'
<1>1. /\ UNCHANGED <<plan, setup, attempt, step, listed, remote, pulled, orphaned>>
      /\ \/ at = "succeeding" /\ at' = "succeeded"
         \/ at = "failing" /\ at' = "failed"
  BY DEF Finishes, Ends, AdapterSame
<1>2. dir' \in {dir, "missing"} /\ dirty' \in {dirty, {}} /\ known' \in {known, {}} /\ head' \in {head, <<>>}
  BY DEF Finishes
<1>3. StepOk'
  BY <1>1, WorkspaceHas DEF StepOk, AtWork, Built, Real
<1>4. dir' \in Dirs
  BY <1>2, WorkspaceHas DEF Dirs
<1>5. head' \in Seq(Commit) /\ (head' = head \/ CommitsOk(head'))
  BY <1>2, NoCommits, WorkspaceHas
<1> QED
  BY <1>1, <1>2, <1>3, <1>4, <1>5, WorkspaceHas, WorkspaceMoves

-----------------------------------------------------------------------------
(* What follows.                                                           *)

(* Every step of a run keeps both invariants.                              *)
LEMMA RunNextKeeps == ASSUME RunInv, [RunNext]_runVars PROVE RunInv'
<1> USE DEF RunInv
<1>1. CASE RunNext
  <2>1. ExecutionInv'
    BY <1>1, AroundStep
  <2>2. CASE Preparation
    BY <2>1, <2>2, StartsStep, InspectsStep, ClonesStep, ChecksOutStep, PreparationFailsStep, DiesCloningStep
       DEF Preparation
  <2>3. CASE Writes
    BY <2>1, <2>3, WritesStep
  <2>4. CASE GivesUp
    <3>1. UNCHANGED step /\ UNCHANGED workspace
      BY <2>4 DEF GivesUp, WorkspaceSame, IndexSame, workspace
    <3> QED
      BY <2>1, <2>4, <3>1, GivenUp, WorkspaceHas DEF GivesUp, workspace
  <2>5. CASE ReportsFailure \/ ChecksChanges \/ Commits \/ Pushes \/ Builds \/ createPullRequest \/ GitFails
    BY <2>1, <2>5, ReportsFailureStep, ChecksChangesStep, CommitsStep, PushesStep, BuildsStep,
       createPullRequestStep, GitFailsStep
  <2>6. CASE Finishes
    BY <2>1, <2>6, FinishesStep
  <2>7. CASE Execution /\ UNCHANGED workspace
    BY <2>1, <2>7, ExecutionMoves, WorkspaceHas, WorkspaceStays
  <2> QED
    BY <1>1, <2>2, <2>3, <2>4, <2>5, <2>6, <2>7 DEF RunNext, GitPhase
<1>2. CASE UNCHANGED runVars
  <2>1. UNCHANGED execution /\ UNCHANGED workspace
    BY <1>2 DEF runVars
  <2>2. UNCHANGED <<at, recover, attempt, setup>>
    BY <2>1 DEF execution, vars, worker
  <2> QED
    BY <2>1, <2>2, ExecutionStays, WorkspaceStays
<1> QED
  BY <1>1, <1>2

(* The inductive invariant: who runs and what is under way, and what the   *)
(* workspace holds at each step of an attempt.                             *)
THEOREM RunInvHolds == RunSpec => []RunInv
<1>1. RunInit => RunInv
  BY InitExecutionInv, InitWorkspaceInv DEF RunInit, RunInv
<1>2. RunInv /\ [RunNext]_runVars => RunInv'
  BY RunNextKeeps
<1> QED
  BY <1>1, <1>2, PTL DEF RunSpec

(* Every variable of the execution and of the workspace keeps its type.    *)
THEOREM RunTypeCorrect == RunSpec => []TypeOK
<1>1. RunInv => TypeOK
  BY DEF RunInv, WorkspaceInv
<1> QED
  BY <1>1, RunInvHolds, PTL

(* When execute answers success the lines printed so far are stored and    *)
(* the child has ended well, or was stopped.                               *)
THEOREM SuccessComplete == RunSpec => []SuccessIsComplete
<1>1. RunInv => SuccessIsComplete
  <2> SUFFICES ASSUME RunInv, at = "resolved", setup.adapter = "real"
               PROVE  IF recover THEN stopped ELSE exitOk /\ lines.given \subseteq Numbers(log)
    BY DEF SuccessIsComplete
  <2>1. CASE recover
    BY <2>1 DEF RunInv, ExecutionInv, ChildOk
  <2>2. CASE ~recover
    BY <2>2 DEF RunInv, ExecutionInv, ChildOk, LinesOk
  <2> QED
    BY <2>1, <2>2
<1> QED
  BY <1>1, RunInvHolds, PTL

(* Once the adapter has answered, by whichever of its callbacks, the child *)
(* is gone or has been told to stop.                                       *)
THEOREM NoChildLeft == RunSpec => []ChildStopped
<1>1. RunInv => ChildStopped
  BY DEF RunInv, ExecutionInv, ChildOk, ChildStopped
<1> QED
  BY <1>1, RunInvHolds, PTL

(* A run that succeeds ends its branch with its own commit, and every file *)
(* of the branch was behind an entry that the path policy let pass, unless *)
(* somebody wrote beside the attempt that committed.                       *)
THEOREM PullRequestChecked == RunSpec => []PullRequestHoldsCheckedWork
<1>1. RunInv => PullRequestHoldsCheckedWork
  <2> SUFFICES ASSUME RunInv PROVE PullRequestHoldsCheckedWork
    OBVIOUS
  <2>1. at \in {"succeeding", "succeeded"} /\ Real => pulled /\ remote # <<>> /\ Last(remote).attempt = attempt
    BY DEF RunInv, WorkspaceInv, StepOk, Built
  <2>2. \A c \in Range(remote) : CommitOk(c)
    BY DEF RunInv, WorkspaceInv, CommitsOk, Range
  <2> QED
    BY <2>1, <2>2 DEF PullRequestHoldsCheckedWork, CommitOk
<1> QED
  BY <1>1, RunInvHolds, PTL

(* What the steps of a run are to a reader: an insert stores an event      *)
(* under a number no other has, a poll delivers stored numbers, and no     *)
(* other step shows.                                                       *)
LEMMA DeliveryStep ==
  ASSUME RunInv, [RunNext]_runVars
  PROVE  Delivery!Next \/ UNCHANGED Delivery!vars
<1>1. CASE InsertCommits
  <2>1. PICK e \in pending : ~Taken(e) /\ log' = log \cup {e}
    BY <1>1 DEF InsertCommits
  <2>2. UNCHANGED <<setup, seen>>
    BY <1>1 DEF InsertCommits, ReaderSame, reader
  <2>3. e \notin log /\ \A f \in log : f.sequence # e.sequence
    BY <2>1 DEF Taken, Numbers
  <2> QED
    BY <2>1, <2>2, <2>3 DEF Delivery!Next, Delivery!Store
<1>2. CASE PollDelivers
  <2>1. PICK p \in Slots : seen' = seen \cup polls[p].page /\ polls[p].page \subseteq Numbers(log)
    BY <1>2, DeliversStored DEF RunInv
  <2>2. UNCHANGED <<setup, log>>
    BY <1>2 DEF PollDelivers, StreamOnly, events
  <2>3. setup.polls > 0
    BY <2>1, SetupTyped DEF Slots, RunInv
  <2>4. PICK numbers \in SUBSET {e.sequence : e \in log} : numbers = polls[p].page
    BY <2>1 DEF Numbers
  <2>5. Delivery!Receives(numbers)
    BY <2>1, <2>2, <2>3, <2>4 DEF Delivery!Receives
  <2> QED
    BY <2>4, <2>5 DEF Delivery!Next, Delivery!Deliver
<1>3. CASE UNCHANGED <<setup, log, seen>>
  BY <1>3 DEF Delivery!vars
<1>4. InsertCommits \/ PollDelivers \/ UNCHANGED <<setup, log, seen>>
  <2> USE DEF AdapterSame, ReaderSame, reader, events, StreamOnly, AwaitsEvent, addEvent
  <2>1. CASE AdapterSteps \/ Executes \/ Announces \/ Concludes
    BY <2>1 DEF AdapterSteps, FakeEmits, Spawns, GraceEnds, Closes, Validates, Recovers, Finalizes, Executes,
               Announces, Concludes
  <2>2. CASE InsertFails \/ WorkerDies \/ Prints \/ PrintsRest \/ WritesResult
    BY <2>2 DEF InsertFails, WorkerDies, Prints, PrintsRest, WritesResult
  <2>3. CASE Exits \/ SpawnFails \/ AclFails \/ Aborts \/ Polls \/ PollReads \/ Reconnects
    BY <2>3 DEF Exits, SpawnFails, AclFails, Aborts, Polls, PollReads, Reconnects
  <2>4. CASE UNCHANGED execution
    BY <2>4 DEF execution, vars
  <2>5. CASE Preparation
    <3>1. CASE Starts \/ PreparationFails \/ DiesCloning
      BY <3>1 DEF Starts, Begins, PreparationFails, DiesCloning, WorkerDies
    <3>2. CASE Clones \/ ChecksOut
      BY <2>4, <3>2 DEF Clones, ChecksOut, ExecutionSame, OnlyAt
    <3>3. CASE Inspects
      BY <2>4, <3>3 DEF Inspects, inspectRepositoryWorkspace, ExecutionSame, OnlyAt
    <3> QED
      BY <2>5, <3>1, <3>2, <3>3 DEF Preparation
  <2>6. CASE ReportsFailure \/ GivesUp \/ ChecksChanges \/ Commits \/ Pushes
    BY <2>4, <2>6 DEF ReportsFailure, GivesUp, ChecksChanges, Commits, Pushes, ExecutionSame, OnlyAt
  <2>7. CASE Builds \/ createPullRequest \/ GitFails \/ Finishes \/ Writes
    BY <2>4, <2>7 DEF Builds, createPullRequest, GitFails, Finishes, Ends, Writes, ExecutionSame, OnlyAt
  <2>8. CASE Execution
    BY <2>1, <2>2, <2>3, <2>8 DEF Execution, Inserts
  <2> QED
    BY <2>4, <2>5, <2>6, <2>7, <2>8 DEF RunNext, runVars, GitPhase
<1> QED
  BY <1>1, <1>2, <1>3, <1>4

(* The run implements the stream's promise but for its liveness: a number  *)
(* means one event for ever, and only what is stored is received.          *)
THEOREM RunDelivers == RunSpec => Delivery!Init /\ [][Delivery!Next]_(Delivery!vars)
<1>1. RunInit => Delivery!Init
  BY DEF RunInit, Init, Delivery!Init
<1>2. RunInv /\ [RunNext]_runVars => [Delivery!Next]_(Delivery!vars)
  BY DeliveryStep
<1> QED
  BY <1>1, <1>2, RunInvHolds, PTL DEF RunSpec
=============================================================================
