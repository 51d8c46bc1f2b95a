---------------------- MODULE ProjectTransitionsProofs ----------------------
(***************************************************************************)
(* What ProjectTransitions promises for any number of people and services, *)
(* whatever statuses they ask for.                                         *)
(*                                                                         *)
(* The invariant behind all of it: a call whose move was checked still     *)
(* carries an edge of the table, and as long as the project has the version*)
(* a person expects, it also has the status that person's call read.       *)
(***************************************************************************)
EXTENDS ProjectTransitions, TLAPS

\* A checked call carries an edge of the table, from a status the project has had.
CheckedMovesLegal ==
  \A c \in Calls :
    pc[c] = "checked" =>
      /\ canTransitionProject(seen[c], target[c])
      /\ \E i \in 1 .. Len(history) : history[i].newStatus = seen[c]

\* Nobody expects a version that does not exist yet; its holder's view is the project's.
ExpectationsCurrent ==
  \A c \in People :
    pc[c] = "checked" =>
      /\ expected[c] <= version
      /\ expected[c] = version => seen[c] = status

\* A person who has written used up the version they expected.
WrittenVersionsUsed == \A c \in People : pc[c] = "written" => expected[c] < version

IInv ==
  /\ TypeOK
  /\ HistoryAccountsForStatus
  /\ version >= 1
  /\ CheckedMovesLegal
  /\ ExpectationsCurrent
  /\ WrittenVersionsUsed
  /\ OneWinnerPerVersion

Row == [previousStatus : ProjectStatuses, newStatus : ProjectStatuses,
        by : {"person", "system"}]

(* A project starts in IDEA, which the table of packages/contracts lists. *)
LEMMA IdeaIsAStatus == "IDEA" \in ProjectStatuses
  BY DEF ProjectStatuses, allowedProjectTransitions

(* What adding a row to the history does: the rows there were stay. *)
LEMMA AppendKeepsRows ==
  ASSUME NEW h \in Seq(Row), NEW e \in Row
  PROVE  /\ Append(h, e) \in Seq(Row)
         /\ Len(h) \in Nat
         /\ Len(Append(h, e)) = Len(h) + 1
         /\ Append(h, e)[Len(h) + 1] = e
         /\ \A i \in 1 .. Len(h) : Append(h, e)[i] = h[i]
  OBVIOUS

(* ProjectsService.create leaves a project that satisfies the invariant. *)
LEMMA InitIInv == Init => IInv
<1> SUFFICES ASSUME Init PROVE IInv
  OBVIOUS
<1> USE IdeaIsAStatus
<1>1. history = <<[previousStatus |-> "IDEA", newStatus |-> "IDEA", by |-> "person"]>>
        /\ status = "IDEA" /\ version = 1
  BY DEF Init, Lifecycle!Init, Lifecycle!Entry
<1>2. Len(history) = 1 /\ history[1].newStatus = "IDEA"
  BY <1>1
<1>3. history \in Seq(Row)
  BY <1>1 DEF Row
<1>4. TypeOK
  BY <1>1, <1>3 DEF TypeOK, Init, Progress, Row
<1>5. HistoryAccountsForStatus
  BY <1>1, <1>2 DEF HistoryAccountsForStatus
<1>6. CheckedMovesLegal /\ ExpectationsCurrent /\ WrittenVersionsUsed /\ OneWinnerPerVersion
  BY DEF Init, Calls, CheckedMovesLegal, ExpectationsCurrent, WrittenVersionsUsed,
         OneWinnerPerVersion
<1> QED
  BY <1>1, <1>4, <1>5, <1>6 DEF IInv

(* The transaction of either writer, by a call whose move was checked: it   *)
(* adds the row that accounts for the new status, and makes every version   *)
(* that anybody still expects an old one.                                   *)
LEMMA CommitIInv ==
  ASSUME IInv, NEW c \in Calls, NEW by \in {"person", "system"},
         pc[c] = "checked", Commit(c, by),
         by = "person" => seen[c] = status,
         pc' = [pc EXCEPT ![c] = "written"],
         UNCHANGED <<target, expected, seen>>
  PROVE  /\ TypeOK'
         /\ HistoryAccountsForStatus'
         /\ version' >= 1
         /\ CheckedMovesLegal'
         /\ ExpectationsCurrent'
<1> DEFINE e == [previousStatus |-> seen[c], newStatus |-> target[c], by |-> by]
<1>1. status' = target[c] /\ version' = version + 1 /\ history' = Append(history, e)
  BY DEF Commit, Lifecycle!Entry
<1>2. e \in Row /\ history \in Seq(Row)
  BY DEF IInv, TypeOK, Row
<1>3. /\ history' \in Seq(Row)
      /\ Len(history) \in Nat
      /\ Len(history') = Len(history) + 1
      /\ history'[Len(history) + 1] = e
      /\ \A i \in 1 .. Len(history) : history'[i] = history[i]
  <2> HIDE DEF e
  <2> QED BY <1>1, <1>2, AppendKeepsRows
<1>4. Len(history) = version /\ version \in Nat /\ version >= 1
  BY DEF IInv, HistoryAccountsForStatus, TypeOK
<1>5. TypeOK'
  <2>1. pc' \in [Calls -> Progress]
    BY DEF IInv, TypeOK, Progress
  <2> QED
    BY <1>1, <1>3, <1>4, <2>1 DEF IInv, TypeOK, Row
<1>6. HistoryAccountsForStatus'
  <2>1. Len(history') = version' /\ history'[Len(history')].newStatus = status'
    BY <1>1, <1>3, <1>4
  <2>2. ASSUME NEW i \in 2 .. Len(history')
        PROVE  /\ canTransitionProject(history'[i].previousStatus, history'[i].newStatus)
               /\ history'[i].by = "person"
                    => history'[i].previousStatus = history'[i - 1].newStatus
    <3>1. CASE i <= Len(history)
      <4>1. i \in 2 .. Len(history) /\ i \in 1 .. Len(history) /\ i - 1 \in 1 .. Len(history)
        BY <3>1, <1>3
      <4>2. history'[i] = history[i] /\ history'[i - 1] = history[i - 1]
        BY <4>1, <1>3
      <4> QED
        BY <4>1, <4>2 DEF IInv, HistoryAccountsForStatus
    <3>2. CASE i = Len(history) + 1
      <4>1. history'[i] = e
        BY <3>2, <1>3
      <4>2. canTransitionProject(seen[c], target[c])
        BY DEF IInv, CheckedMovesLegal
      <4>3. history'[i - 1].newStatus = status
        <5>1. i - 1 = Len(history) /\ Len(history) \in 1 .. Len(history)
          BY <3>2, <1>3, <1>4
        <5>2. history'[i - 1] = history[Len(history)]
          BY <5>1, <1>3
        <5> QED
          BY <5>2 DEF IInv, HistoryAccountsForStatus
      <4> QED
        BY <4>1, <4>2, <4>3
    <3> QED
      BY <3>1, <3>2, <1>3
  <2> QED
    BY <2>1, <2>2 DEF HistoryAccountsForStatus
<1>7. CheckedMovesLegal'
  <2> SUFFICES ASSUME NEW d \in Calls, pc'[d] = "checked"
               PROVE  /\ canTransitionProject(seen[d], target[d])
                      /\ \E i \in 1 .. Len(history') : history'[i].newStatus = seen[d]
    BY DEF CheckedMovesLegal, canTransitionProject
  <2>1. pc[d] = "checked"
    BY DEF IInv, TypeOK
  <2>2. PICK i \in 1 .. Len(history) : history[i].newStatus = seen[d]
    BY <2>1 DEF IInv, CheckedMovesLegal
  <2>3. i \in 1 .. Len(history') /\ history'[i].newStatus = seen[d]
    BY <2>2, <1>3
  <2> QED
    BY <2>1, <2>3 DEF IInv, CheckedMovesLegal
<1>8. ExpectationsCurrent'
  <2> SUFFICES ASSUME NEW d \in People, pc'[d] = "checked"
               PROVE  expected[d] <= version' /\ expected[d] # version'
    BY DEF ExpectationsCurrent
  <2>1. pc[d] = "checked" /\ expected[d] \in Nat
    BY DEF IInv, TypeOK, Calls
  <2>2. expected[d] <= version
    BY <2>1 DEF IInv, ExpectationsCurrent
  <2> QED
    BY <2>1, <2>2, <1>1, <1>4
<1>9. version' >= 1
  BY <1>1, <1>4
<1> QED
  BY <1>5, <1>6, <1>7, <1>8, <1>9

(* A call that has only been answered or checked leaves the project alone.  *)
LEMMA AnswerIInv ==
  ASSUME IInv, NEW c \in Calls,
         UNCHANGED <<status, version, history, target, expected, seen>>,
         pc' = [pc EXCEPT ![c] = "refused"]
  PROVE  IInv'
<1>1. TypeOK'
  BY DEF IInv, TypeOK, Progress
<1>2. HistoryAccountsForStatus' /\ version' >= 1
  BY DEF IInv, HistoryAccountsForStatus, canTransitionProject
<1>3. \A d \in Calls : pc'[d] \in {"checked", "written"} => pc'[d] = pc[d]
  BY DEF IInv, TypeOK
<1>4. CheckedMovesLegal'
  BY <1>3 DEF IInv, CheckedMovesLegal, canTransitionProject
<1>5. ExpectationsCurrent' /\ WrittenVersionsUsed' /\ OneWinnerPerVersion'
  BY <1>3 DEF IInv, ExpectationsCurrent, WrittenVersionsUsed, OneWinnerPerVersion, Calls
<1> QED
  BY <1>1, <1>2, <1>4, <1>5 DEF IInv

(* Either read leaves the project alone and remembers the status it found.  *)
LEMMA ReadIInv ==
  ASSUME IInv, NEW c \in Calls, pc[c] = "idle",
         UNCHANGED <<status, version, history>>,
         NEW to \in ProjectStatuses, NEW v \in Nat, c \in People => v <= version,
         NEW answer \in Progress \ {"written"},
         answer = "checked" => canTransitionProject(status, to),
         target' = [target EXCEPT ![c] = to],
         expected' = [expected EXCEPT ![c] = v],
         seen' = [seen EXCEPT ![c] = status],
         pc' = [pc EXCEPT ![c] = answer]
  PROVE  IInv'
<1>1. TypeOK'
  BY DEF IInv, TypeOK
<1>2. HistoryAccountsForStatus' /\ version' >= 1
  BY DEF IInv, HistoryAccountsForStatus, canTransitionProject
<1>3. \A d \in Calls : d # c => /\ pc'[d] = pc[d] /\ target'[d] = target[d]
                                /\ expected'[d] = expected[d] /\ seen'[d] = seen[d]
  BY DEF IInv, TypeOK
<1>4. pc'[c] = answer /\ target'[c] = to /\ expected'[c] = v /\ seen'[c] = status
  BY DEF IInv, TypeOK
<1>5. CheckedMovesLegal'
  <2> SUFFICES ASSUME NEW d \in Calls, pc'[d] = "checked"
               PROVE  /\ canTransitionProject(seen'[d], target'[d])
                      /\ \E i \in 1 .. Len(history) : history[i].newStatus = seen'[d]
    BY DEF CheckedMovesLegal, canTransitionProject
  <2>1. CASE d = c
    <3>1. Len(history) \in 1 .. Len(history) /\ history[Len(history)].newStatus = status
      BY DEF IInv, HistoryAccountsForStatus, TypeOK
    <3> QED
      BY <2>1, <3>1, <1>4
  <2>2. CASE d # c
    BY <2>2, <1>3 DEF IInv, CheckedMovesLegal
  <2> QED
    BY <2>1, <2>2
<1>6. ExpectationsCurrent'
  BY <1>3, <1>4 DEF IInv, ExpectationsCurrent, Calls
<1>7. WrittenVersionsUsed' /\ OneWinnerPerVersion'
  BY <1>3, <1>4 DEF IInv, WrittenVersionsUsed, OneWinnerPerVersion, Calls
<1> QED
  BY <1>1, <1>2, <1>5, <1>6, <1>7 DEF IInv

(* A person's write is by somebody whose view of the project is current. *)
LEMMA WriterIsCurrent ==
  ASSUME IInv, NEW c \in People, WriteByPerson(c)
  PROVE  /\ seen[c] = status
         /\ expected[c] = version
         /\ canTransitionProject(status, target[c])
<1>1. pc[c] = "checked" /\ expected[c] = version
  BY DEF WriteByPerson, VersionMatches
<1>2. seen[c] = status
  BY <1>1 DEF IInv, ExpectationsCurrent
<1> QED
  BY <1>1, <1>2 DEF IInv, CheckedMovesLegal, Calls

(* Every step of every call keeps the invariant. *)
LEMMA NextIInv == IInv /\ [Next]_vars => IInv'
<1> SUFFICES ASSUME IInv, [Next]_vars PROVE IInv'
  OBVIOUS
<1>1. ASSUME NEW c \in People, ReadByPerson(c) PROVE IInv'
  <2>1. PICK to \in RequestedStatuses, v \in 1 .. version :
          /\ target' = [target EXCEPT ![c] = to]
          /\ expected' = [expected EXCEPT ![c] = v]
          /\ pc' = [pc EXCEPT ![c] = IF canTransitionProject(status, to)
                                       THEN "checked" ELSE "refused"]
    BY <1>1 DEF ReadByPerson
  <2>2. to \in ProjectStatuses /\ v \in Nat /\ v <= version /\ c \in Calls
    BY <2>1, TargetsAssumption DEF RequestedStatuses, IInv, TypeOK, Calls
  <2>3. UNCHANGED <<status, version, history>> /\ pc[c] = "idle"
        /\ seen' = [seen EXCEPT ![c] = status]
    BY <1>1 DEF ReadByPerson
  <2>4. CASE canTransitionProject(status, to)
    <3>1. "checked" \in Progress \ {"written"} /\ pc' = [pc EXCEPT ![c] = "checked"]
      BY <2>1, <2>4 DEF Progress
    <3> QED
      BY <2>1, <2>2, <2>3, <2>4, <3>1, ReadIInv
  <2>5. CASE ~canTransitionProject(status, to)
    <3>1. "refused" \in Progress \ {"written"} /\ pc' = [pc EXCEPT ![c] = "refused"]
      BY <2>1, <2>5 DEF Progress
    <3> QED
      BY <2>1, <2>2, <2>3, <3>1, ReadIInv
  <2> QED
    BY <2>4, <2>5
<1>2. ASSUME NEW c \in People, WriteByPerson(c) PROVE IInv'
  <2>1. /\ c \in Calls /\ pc[c] = "checked" /\ Commit(c, "person")
        /\ pc' = [pc EXCEPT ![c] = "written"] /\ UNCHANGED <<target, expected, seen>>
    BY <1>2 DEF WriteByPerson, Calls
  <2>2. seen[c] = status /\ expected[c] = version
    BY <1>2, WriterIsCurrent
  <2>3. /\ TypeOK' /\ HistoryAccountsForStatus' /\ version' >= 1
        /\ CheckedMovesLegal' /\ ExpectationsCurrent'
    BY <2>1, <2>2, CommitIInv
  <2>4. version' = version + 1 /\ version \in Nat
    BY <2>1 DEF Commit, IInv, TypeOK
  <2>5. \A d \in People : pc'[d] = "written" => d = c \/ pc[d] = "written"
    BY <2>1 DEF IInv, TypeOK, Calls
  <2>6. \A d \in People : pc[d] = "written" => expected[d] < version
    BY DEF IInv, WrittenVersionsUsed
  <2>7. \A d \in People : expected[d] \in Nat
    BY DEF IInv, TypeOK, Calls
  <2>8. WrittenVersionsUsed'
    BY <2>1, <2>2, <2>4, <2>5, <2>6, <2>7 DEF WrittenVersionsUsed
  <2>9. OneWinnerPerVersion'
    BY <2>1, <2>2, <2>4, <2>5, <2>6, <2>7 DEF IInv, OneWinnerPerVersion
  <2> QED
    BY <2>3, <2>8, <2>9 DEF IInv
<1>3. ASSUME NEW c \in People, ConflictForPerson(c) PROVE IInv'
  <2>1. /\ c \in Calls /\ pc' = [pc EXCEPT ![c] = "refused"]
        /\ UNCHANGED <<status, version, history, target, expected, seen>>
    BY <1>3 DEF ConflictForPerson, Calls
  <2> QED
    BY <2>1, AnswerIInv
<1>4. ASSUME NEW c \in Services, ReadByService(c) PROVE IInv'
  <2>1. PICK to \in SystemTargets :
          /\ target' = [target EXCEPT ![c] = to]
          /\ pc' = [pc EXCEPT ![c] =
                      CASE status = to                      -> "satisfied"
                        [] canTransitionProject(status, to) -> "checked"
                        [] OTHER                            -> "refused"]
    BY <1>4 DEF ReadByService
  <2> DEFINE answer == CASE status = to                      -> "satisfied"
                         [] canTransitionProject(status, to) -> "checked"
                         [] OTHER                            -> "refused"
  <2>2. to \in ProjectStatuses /\ c \in Calls /\ c \notin People
    BY <2>1, TargetsAssumption, CallsAssumption DEF Calls
  <2>3. UNCHANGED <<status, version, history, expected>> /\ pc[c] = "idle"
        /\ seen' = [seen EXCEPT ![c] = status]
    BY <1>4 DEF ReadByService
  <2>4. expected' = [expected EXCEPT ![c] = expected[c]] /\ expected[c] \in Nat
    BY <2>2, <2>3 DEF IInv, TypeOK
  <2>5. answer \in Progress \ {"written"} /\ (answer = "checked" => canTransitionProject(status, to))
    BY DEF Progress
  <2>6. pc' = [pc EXCEPT ![c] = answer]
    BY <2>1
  <2> HIDE DEF answer
  <2> QED
    BY <2>1, <2>2, <2>3, <2>4, <2>5, <2>6, ReadIInv
<1>5. ASSUME NEW c \in Services, WriteByService(c) PROVE IInv'
  <2>1. /\ c \in Calls /\ pc[c] = "checked" /\ Commit(c, "system") /\ c \notin People
        /\ pc' = [pc EXCEPT ![c] = "written"] /\ UNCHANGED <<target, expected, seen>>
    BY <1>5, CallsAssumption DEF WriteByService, Calls
  <2>2. /\ TypeOK' /\ HistoryAccountsForStatus' /\ version' >= 1
        /\ CheckedMovesLegal' /\ ExpectationsCurrent'
    BY <2>1, CommitIInv
  <2>3. \A d \in People : pc'[d] = pc[d] /\ expected[d] \in Nat
    BY <2>1 DEF IInv, TypeOK, Calls
  <2>4. version' = version + 1 /\ version \in Nat
    BY <2>1 DEF Commit, IInv, TypeOK
  <2>5. WrittenVersionsUsed' /\ OneWinnerPerVersion'
    BY <2>1, <2>3, <2>4 DEF IInv, WrittenVersionsUsed, OneWinnerPerVersion
  <2> QED
    BY <2>2, <2>5 DEF IInv
<1>6. ASSUME UNCHANGED vars PROVE IInv'
  <2>1. /\ status' = status /\ version' = version /\ history' = history /\ pc' = pc
        /\ target' = target /\ expected' = expected /\ seen' = seen
    BY <1>6 DEF vars
  <2> QED
    BY <2>1 DEF IInv, TypeOK, HistoryAccountsForStatus, CheckedMovesLegal,
                ExpectationsCurrent, WrittenVersionsUsed, OneWinnerPerVersion,
                canTransitionProject
<1> QED
  BY <1>1, <1>2, <1>3, <1>4, <1>5, <1>6 DEF Next, PersonStep, ServiceStep

(* The invariant holds of every reachable state. *)
THEOREM InvariantHolds == Spec => []IInv
  BY InitIInv, NextIInv, PTL DEF Spec

(* Every variable keeps its type: in particular the project's status is     *)
(* always one of the table's, whoever writes it.                            *)
THEOREM TypeCorrect == Spec => []TypeOK
<1>1. IInv => TypeOK
  BY DEF IInv
<1> QED
  BY <1>1, InvariantHolds, PTL

(* Of any number of people who decided on the same version of a project, at *)
(* most one gets their way: ProjectsService.transition never loses a race.  *)
THEOREM VersionsAreWonOnce == Spec => []OneWinnerPerVersion
<1>1. IInv => OneWinnerPerVersion
  BY DEF IInv
<1> QED
  BY <1>1, InvariantHolds, PTL

(* The history rows of a project account for its status and its version,    *)
(* however many people and services write it at once.                       *)
THEOREM HistoryIsComplete == Spec => []HistoryAccountsForStatus
<1>1. IInv => HistoryAccountsForStatus
  BY DEF IInv
<1> QED
  BY <1>1, InvariantHolds, PTL

(* A person's write never leaves the table, whatever happened between their *)
(* read and their write.                                                    *)
THEOREM PersonStepsAreLegal == Spec => PersonStepsLegal
<1>1. ASSUME IInv, [Next]_vars
      PROVE  [\A c \in People : WriteByPerson(c) => canTransitionProject(status, status')]_vars
  <2> SUFFICES ASSUME NEW c \in People, WriteByPerson(c)
               PROVE  canTransitionProject(status, status')
    OBVIOUS
  <2>1. status' = target[c]
    BY DEF WriteByPerson, Commit
  <2> QED
    BY <1>1, <2>1, WriterIsCurrent
<1> QED
  BY <1>1, InvariantHolds, PTL DEF Spec, PersonStepsLegal

(* The abstract life reads the same table as the code's. *)
LEMMA SameTable ==
  /\ Lifecycle!ProjectStatuses = ProjectStatuses
  /\ \A from, to : Lifecycle!canTransitionProject(from, to) <=> canTransitionProject(from, to)
<1>1. Lifecycle!allowedProjectTransitions = allowedProjectTransitions
  BY DEF Lifecycle!allowedProjectTransitions, allowedProjectTransitions
<1> QED
  BY <1>1 DEF Lifecycle!ProjectStatuses, ProjectStatuses, Lifecycle!canTransitionProject,
              canTransitionProject

(* A step of a call is a move of the abstract project life, or no move.     *)
LEMMA StepImplements ==
  ASSUME IInv, [Next]_vars
  PROVE  [Lifecycle!Next]_(Lifecycle!projectVars)
<1>1. ASSUME NEW c \in People, WriteByPerson(c) PROVE Lifecycle!Next
  <2>1. seen[c] = status /\ canTransitionProject(status, target[c]) /\ target[c] \in ProjectStatuses
    BY <1>1, WriterIsCurrent DEF IInv, TypeOK, Calls
  <2>2. Lifecycle!Write(status, target[c], "person")
    BY <1>1, <2>1, SameTable DEF Lifecycle!Write, WriteByPerson, Commit
  <2> QED
    BY <2>1, <2>2, SameTable DEF Lifecycle!Next, Lifecycle!PersonMoves
<1>2. ASSUME NEW c \in Services, WriteByService(c) PROVE Lifecycle!Next
  <2>1. c \in Calls /\ pc[c] = "checked"
    BY <1>2 DEF WriteByService, Calls
  <2>2. PICK i \in 1 .. Len(history) : history[i].newStatus = seen[c]
    BY <2>1 DEF IInv, CheckedMovesLegal
  <2>3. canTransitionProject(seen[c], target[c]) /\ target[c] \in ProjectStatuses
    BY <2>1 DEF IInv, CheckedMovesLegal, TypeOK
  <2>4. Lifecycle!Write(history[i].newStatus, target[c], "system")
    BY <1>2, <2>2, <2>3, SameTable DEF Lifecycle!Write, WriteByService, Commit
  <2> QED
    BY <2>2, <2>3, <2>4, SameTable DEF Lifecycle!Next, Lifecycle!SystemMoves
<1>3. ASSUME UNCHANGED <<status, version, history>> PROVE UNCHANGED Lifecycle!projectVars
  BY <1>3 DEF Lifecycle!projectVars
<1> QED
  BY <1>1, <1>2, <1>3
  DEF Next, PersonStep, ServiceStep, ReadByPerson, ConflictForPerson, ReadByService, vars

(* Two-phase, concurrent writers implement the abstract project life: each  *)
(* write is one atomic move that the table allows from a status the project *)
(* has had, and for a person from the status it has.                        *)
THEOREM TransitionsImplementLifecycle == Spec => ImplementsLifecycle
<1>1. Init => Lifecycle!Init
  BY DEF Init
<1> QED
  BY <1>1, StepImplements, InvariantHolds, PTL DEF Spec, ImplementsLifecycle, Lifecycle!Spec
=============================================================================
