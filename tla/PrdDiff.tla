------------------------------- MODULE PrdDiff -------------------------------
(***************************************************************************)
(* PrdService.diff: two versions of a PRD compared line by line.  A line   *)
(* is any value with equality.  What the walk over the matrix produces is  *)
(* compared with what a difference is, for all short texts.                *)
(***************************************************************************)
EXTENDS Naturals, Sequences, FiniteSetsExt, SequencesExt

\* matrix[i][j]: the longest common subsequence of left from i and right from j.
matrix(left, right) ==
  LET m[i \in 1 .. Len(left) + 1, j \in 1 .. Len(right) + 1] ==
        IF i > Len(left) \/ j > Len(right) THEN 0
        ELSE IF left[i] = right[j] THEN m[i + 1, j + 1] + 1
        ELSE Max({m[i + 1, j], m[i, j + 1]})
  IN m

Change(type, line) == <<[type |-> type, line |-> line]>>

(* The greedy walk: equal lines are kept, and where a removal and an       *)
(* addition lose nothing the removal comes first.                          *)
changes(left, right) ==
  LET m == matrix(left, right)
      walk[i \in 1 .. Len(left) + 1, j \in 1 .. Len(right) + 1] ==
        CASE i > Len(left) /\ j > Len(right) -> <<>>
          [] j > Len(right) -> Change("remove", left[i]) \o walk[i + 1, j]
          [] i > Len(left) -> Change("add", right[j]) \o walk[i, j + 1]
          [] OTHER ->
               IF left[i] = right[j] THEN Change("equal", left[i]) \o walk[i + 1, j + 1]
               ELSE IF m[i + 1, j] >= m[i, j + 1]
                    THEN Change("remove", left[i]) \o walk[i + 1, j]
                    ELSE Change("add", right[j]) \o walk[i, j + 1]
  IN walk[1, 1]

\* The API refuses versions of two projects, and a matrix above the limit (2,250,000 in the code).
diff(from, to, limit) ==
  IF from.projectId # to.projectId \/ Len(from.lines) * Len(to.lines) > limit
  THEN [answered |-> FALSE]
  ELSE [answered |-> TRUE, from |-> from.versionNumber, to |-> to.versionNumber,
        changes |-> changes(from.lines, to.lines)]

-----------------------------------------------------------------------------
\* What a reader of a difference relies on, stated without the matrix.

LinesOf(list, types) ==
  LET kept == SelectSeq(list, LAMBDA c : c.type \in types)
  IN [k \in DOMAIN kept |-> kept[k].line]

Subsequences(s) == {[k \in DOMAIN at |-> s[at[k]]] :
  at \in {SetToSortSeq(indexes, <) : indexes \in SUBSET (1 .. Len(s))}}

LongestCommon(left, right) ==
  Max({Len(s) : s \in Subsequences(left) \cap Subsequences(right)})

\* Every text of up to three lines, out of three different ones.
ShortTexts == BoundedSeq({"a", "b", "c"}, 3)

(* The equal and removed lines, in order, are the old version, the equal   *)
(* and added lines the new one, and no difference keeps more lines.        *)
ASSUME DiffIsFaithfulAndShortest ==
  \A left, right \in ShortTexts :
    LET list == changes(left, right)
    IN /\ LinesOf(list, {"equal", "remove"}) = left
       /\ LinesOf(list, {"equal", "add"}) = right
       /\ Len(LinesOf(list, {"equal"})) = LongestCommon(left, right)
=============================================================================
