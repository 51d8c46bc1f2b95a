------------------------- MODULE ProjectTransitions -------------------------
(***************************************************************************)
(* The two ways a project's status is written, and their interleavings.    *)
(*                                                                         *)
(*   transition         a CEO or PM names the next status and the version  *)
(*                      of the project they were looking at; the write     *)
(*                      happens only if the project still has that version *)
(*   transitionSystem   a service (or the worker's transitionProject, the  *)
(*                      same code) names the next status; the write happens*)
(*                      whatever the project has become meanwhile          *)
(*                                                                         *)
(* Both first read the project, check the move against the table, and      *)
(* write in a later transaction.  A call is a member of People or Services *)
(* and is made at most once; pc says how far it has come.                  *)
(***************************************************************************)
EXTENDS Naturals, Sequences, FiniteSets, ProjectStates

CONSTANTS
  People,        \* calls of ProjectsService.transition
  Services,      \* calls of transitionSystem and transitionProject
  PersonTargets, \* the statuses people ask for
  SystemTargets  \* the statuses services ask for

Calls == People \cup Services

ASSUME CallsAssumption == People \cap Services = {}
ASSUME TargetsAssumption ==
  PersonTargets \subseteq ProjectStatuses /\ SystemTargets \subseteq ProjectStatuses

VARIABLES
  status, version, history, \* the Project row and its ProjectStateHistory rows
  pc,                       \* where each call is
  target,                   \* the status it asks for
  expected,                 \* a person's expectedVersion
  seen                      \* Project.status as the call read it

callVars == <<pc, target, expected, seen>>
vars == <<status, version, history, pc, target, expected, seen>>

Lifecycle == INSTANCE ProjectLifecycle
               WITH status <- status, version <- version, history <- history

\* The project as ProjectsService.create leaves it, and no call made yet.
Init ==
  /\ Lifecycle!Init
  /\ pc = [c \in Calls |-> "idle"]
  /\ target = [c \in Calls |-> "IDEA"]
  /\ expected = [c \in Calls |-> 0]
  /\ seen = [c \in Calls |-> "IDEA"]

\* Mutant: the request's status is not checked against the enum.
UnvalidatedStatuses == PersonTargets \cup {"DELETED"}

\* transitionProjectSchema admits the statuses of the enum only.
RequestedStatuses == PersonTargets

(* transition: read the project and check the requested move.  A client can *)
(* only quote a version it has been shown, so one the project has had.      *)
ReadByPerson(c) ==
  /\ pc[c] = "idle"
  /\ \E to \in RequestedStatuses, v \in 1 .. version :
       /\ target' = [target EXCEPT ![c] = to]
       /\ expected' = [expected EXCEPT ![c] = v]
       /\ pc' = [pc EXCEPT ![c] = IF canTransitionProject(status, to)
                                    THEN "checked" ELSE "refused"]
  /\ seen' = [seen EXCEPT ![c] = status]
  /\ UNCHANGED <<status, version, history>>

\* Mutant: the update is not guarded by the version.
AnyVersionMatches(c) == TRUE

\* The row the version-guarded updateMany would match.
VersionMatches(c) == version = expected[c]

\* Mutant: the update does not increment the version.
CommitWithoutBump(c, by) ==
  /\ status' = target[c]
  /\ version' = version
  /\ history' = Append(history, Lifecycle!Entry(seen[c], target[c], by))

(* One transaction: the project's row, and the history row that names the  *)
(* status the call read.                                                   *)
Commit(c, by) ==
  /\ status' = target[c]
  /\ version' = version + 1
  /\ history' = Append(history, Lifecycle!Entry(seen[c], target[c], by))

\* transition's transaction: its updateMany matches only the expected version.
WriteByPerson(c) ==
  /\ pc[c] = "checked"
  /\ VersionMatches(c)
  /\ Commit(c, "person")
  /\ pc' = [pc EXCEPT ![c] = "written"]
  /\ UNCHANGED <<target, expected, seen>>

\* No row was updated: somebody else has changed the project.
ConflictForPerson(c) ==
  /\ pc[c] = "checked"
  /\ ~VersionMatches(c)
  /\ pc' = [pc EXCEPT ![c] = "refused"]
  /\ UNCHANGED <<status, version, history, target, expected, seen>>

(* transitionSystem: read the project; nothing to do when it is there      *)
(* already, refused when the table does not allow the move.                *)
ReadByService(c) ==
  /\ pc[c] = "idle"
  /\ \E to \in SystemTargets :
       /\ target' = [target EXCEPT ![c] = to]
       /\ pc' = [pc EXCEPT ![c] =
                   CASE status = to                       -> "satisfied"
                     [] canTransitionProject(status, to)  -> "checked"
                     [] OTHER                             -> "refused"]
  /\ seen' = [seen EXCEPT ![c] = status]
  /\ UNCHANGED <<status, version, history, expected>>

\* transitionSystem's transaction: an unconditional update and its history row.
WriteByService(c) ==
  /\ pc[c] = "checked"
  /\ Commit(c, "system")
  /\ pc' = [pc EXCEPT ![c] = "written"]
  /\ UNCHANGED <<target, expected, seen>>

PersonStep(c) == ReadByPerson(c) \/ WriteByPerson(c) \/ ConflictForPerson(c)
ServiceStep(c) == ReadByService(c) \/ WriteByService(c)

Next ==
  \/ \E c \in People : PersonStep(c)
  \/ \E c \in Services : ServiceStep(c)

Spec == Init /\ [][Next]_vars

-----------------------------------------------------------------------------
Progress == {"idle", "checked", "written", "refused", "satisfied"}

TypeOK ==
  /\ status \in ProjectStatuses
  /\ version \in Nat
  /\ history \in Seq([previousStatus : ProjectStatuses, newStatus : ProjectStatuses,
                      by : {"person", "system"}])
  /\ pc \in [Calls -> Progress]
  /\ target \in [Calls -> ProjectStatuses]
  /\ expected \in [Calls -> Nat]
  /\ seen \in [Calls -> ProjectStatuses]

(* However calls interleave, a person's write moves the project along an   *)
(* edge of the table from the status it really has: the version guard of   *)
(* ProjectsService.transition catches every write that came in between.    *)
PersonStepsLegal ==
  [][\A c \in People : WriteByPerson(c) => canTransitionProject(status, status')]_vars

(* Two people who decided on the same version of the project never both    *)
(* get their way: one of them is told of the conflict.                     *)
OneWinnerPerVersion ==
  \A c, d \in People :
    /\ pc[c] = "written"
    /\ pc[d] = "written"
    /\ expected[c] = expected[d]
    => c = d

(* The history is the audit trail of the project: it has one row per       *)
(* version, its last row names the present status, each row after the      *)
(* first is a move the table allows, and a row that does not start where   *)
(* the row before it ended was written by a service.                       *)
HistoryAccountsForStatus ==
  /\ Len(history) = version
  /\ history[Len(history)].newStatus = status
  /\ \A i \in 2 .. Len(history) :
       /\ canTransitionProject(history[i].previousStatus, history[i].newStatus)
       /\ history[i].by = "person"
            => history[i].previousStatus = history[i - 1].newStatus

(* A project in ARCHIVED never leaves it, the claim of the unit test       *)
(* "makes archived terminal".                                              *)
ArchivedIsTerminal == [][status = "ARCHIVED" => status' = "ARCHIVED"]_vars

\* Every write is one the abstract project life allows.
ImplementsLifecycle == Lifecycle!Spec
=============================================================================
