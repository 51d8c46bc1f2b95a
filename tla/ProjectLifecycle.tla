-------------------------- MODULE ProjectLifecycle --------------------------
(***************************************************************************)
(* What the writers of a project's status promise, with every write one    *)
(* atomic step and no request in flight.                                   *)
(*                                                                         *)
(* A person's move starts from the status the project really has.  A       *)
(* system move may start from any status the project has had: it was       *)
(* checked against a status that may be out of date when it is written.    *)
(* Both leave exactly one history entry, and the entry names the status    *)
(* the writer believed it was leaving.                                     *)
(***************************************************************************)
EXTENDS Naturals, Sequences, ProjectStates

VARIABLES
  status,   \* Project.status
  version,  \* Project.version
  history   \* ProjectStateHistory rows, in commit order

projectVars == <<status, version, history>>

Entry(from, to, by) == [previousStatus |-> from, newStatus |-> to, by |-> by]

Init ==
  /\ status = "IDEA"
  /\ version = 1
  /\ history = <<Entry("IDEA", "IDEA", "person")>>

Write(from, to, by) ==
  /\ canTransitionProject(from, to)
  /\ status' = to
  /\ version' = version + 1
  /\ history' = Append(history, Entry(from, to, by))

PersonMoves == \E to \in ProjectStatuses : Write(status, to, "person")

SystemMoves ==
  \E to \in ProjectStatuses, i \in 1 .. Len(history) :
    Write(history[i].newStatus, to, "system")

Next == PersonMoves \/ SystemMoves

Spec == Init /\ [][Next]_projectVars
=============================================================================
