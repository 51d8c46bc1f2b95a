----------------------------- MODULE PrdDocument -----------------------------
(***************************************************************************)
(* The documents the factory accepts as a PRD.  A JSON document passes the *)
(* build-ready schema of packages/contracts; a Markdown document passes    *)
(* validateBuildReadyMarkdown and comes with its acceptance criteria.      *)
(* Kept of a document is what refers to something else (ids, SDK levels,   *)
(* criteria); texts are left out.                                          *)
(***************************************************************************)
EXTENDS Naturals, Sequences, Functions

\* uniqueBy(items, item => item.id)
uniqueBy(items) == \A i, j \in DOMAIN items : items[i].id = items[j].id => i = j

IdsOf(items) == {items[i].id : i \in DOMAIN items}

\* The .refine of the android section.
SdkLevelsFit(doc) ==
  doc.targetSdk >= 36 /\ doc.compileSdk >= 36 /\ doc.compileSdk >= doc.targetSdk

\* Every requirement names a feature in scope and at least one screen, all existing.
RequirementsResolve(doc) ==
  \A r \in Range(doc.requirements) :
    /\ r.feature \in IdsOf(doc.features)
    /\ r.screens # {} /\ r.screens \subseteq IdsOf(doc.screens)

\* Mutant: the references of the acceptance criteria are not followed.
CriteriaUnchecked(doc) == TRUE

\* Every acceptance criterion names at least one requirement, all existing.
CriteriaResolve(doc) ==
  \A a \in Range(doc.criteria) :
    /\ a.requirements # {}
    /\ a.requirements \subseteq IdsOf(doc.requirements)

EndpointsGiven(doc) == doc.apiRequired => doc.endpoints # <<>>

(* androidBuildReadyPrdSchema with its superRefine: the schema's min(1)    *)
(* bounds, unique ids and no dangling reference.                           *)
prdJsonSchema(doc) ==
  /\ \A list \in {doc.features, doc.screens, doc.requirements, doc.criteria} :
       list # <<>> /\ uniqueBy(list)
  /\ uniqueBy(doc.endpoints)
  /\ SdkLevelsFit(doc)
  /\ RequirementsResolve(doc)
  /\ CriteriaResolve(doc)
  /\ EndpointsGiven(doc)

(* Headings and fixed lines: targetSdk and compileSdk are matched as two   *)
(* digits from 36 to 99, each for itself.                                  *)
validateBuildReadyMarkdown(doc) ==
  /\ doc.headingsComplete /\ doc.ownersFixed
  /\ doc.targetSdk \in 36 .. 99 /\ doc.compileSdk \in 36 .. 99
  /\ ~doc.debuggable

Accepted(doc) ==
  IF doc.format = "JSON" THEN prdJsonSchema(doc)
  ELSE validateBuildReadyMarkdown(doc) /\ doc.criteria # <<>>
=============================================================================
