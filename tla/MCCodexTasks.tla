---------------------------- MODULE MCCodexTasks ----------------------------
(* Small instances of CodexTasks. *)
EXTENDS CodexTasks, TLC

CONSTANTS t1, t2, start1, start2, follow1, follow2, cancel1, cancel2, w1, w2

Symmetry == Permutations(Tasks) \cup Permutations(Starts) \cup Permutations(FollowUps)
              \cup Permutations(Cancels) \cup Permutations(Slots)
=============================================================================
