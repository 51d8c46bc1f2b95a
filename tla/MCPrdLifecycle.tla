---------------------------- MODULE MCPrdLifecycle ----------------------------
(* Small instances of PrdLifecycle, with one document for each answer of the *)
(* validation that matters.                                                  *)
EXTENDS PrdLifecycle, PrdDiff, TLC

CONSTANTS upload1, upload2, review1, approval1, approval2, lock1, note1, note2,
          prepare1, prepare2, decision1

GoodJson ==
  [ format |-> "JSON", headingsComplete |-> TRUE, ownersFixed |-> TRUE, debuggable |-> FALSE,
    targetSdk |-> 36, compileSdk |-> 36, apiRequired |-> FALSE, endpoints |-> <<>>, longest |-> 3000,
    features |-> <<[id |-> "FT-001"]>>,
    screens |-> <<[id |-> "SCR-001"]>>,
    requirements |-> <<[id |-> "FR-001", feature |-> "FT-001", screens |-> {"SCR-001"}]>>,
    criteria |-> <<[id |-> "AC-001", requirements |-> {"FR-001"}]>> ]

DanglingCriterion == [GoodJson EXCEPT !.criteria = <<[id |-> "AC-001", requirements |-> {"FR-009"}]>>]
DanglingFeature == [GoodJson EXCEPT !.requirements[1].feature = "FT-009"]
DuplicateScreens == [GoodJson EXCEPT !.screens = <<[id |-> "SCR-001"], [id |-> "SCR-001"]>>]
NoEndpoint == [GoodJson EXCEPT !.apiRequired = TRUE]
OldCompileSdk == [GoodJson EXCEPT !.targetSdk = 37]
OldMarkdown == [GoodJson EXCEPT !.format = "MARKDOWN", !.targetSdk = 35]
LongCriterion == [GoodJson EXCEPT !.longest = 3001]
NoCriteria == [GoodJson EXCEPT !.format = "MARKDOWN", !.criteria = <<>>]

MCDocuments == {GoodJson, DanglingCriterion, DanglingFeature, DuplicateScreens, NoEndpoint,
                OldCompileSdk, OldMarkdown, NoCriteria, LongCriterion}
\* Calls of one kind are interchangeable.
Interchangeable == UNION {Permutations(kind) : kind \in {Uploads, Approvals, Notes, Prepares}}
=============================================================================
