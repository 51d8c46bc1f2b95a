------------------------ MODULE MCProjectTransitions ------------------------
(* Small instances of ProjectTransitions. *)
EXTENDS ProjectTransitions, TLC

CONSTANTS u1, u2, u3, s1, s2

\* What people ask for through the transition endpoint in these runs.
MCPersonTargets == {"RESEARCHING", "PRD_DRAFT", "REJECTED", "ARCHIVED"}

\* What the services ask for while a PRD is being prepared.
MCSystemTargets == {"PRD_DRAFT", "PRD_REVIEW", "PRD_LOCKED", "REPO_BOOTSTRAPPING"}

Symmetry == Permutations(People) \cup Permutations(Services)
=============================================================================
