--------------------------- MODULE ProjectStates ---------------------------
(***************************************************************************)
(* The life of an app project: the statuses a project can have and the     *)
(* moves between them that packages/contracts allows.  Every writer of a   *)
(* project's status, in the API and in the worker, consults this table.    *)
(***************************************************************************)

allowedProjectTransitions ==
  [ IDEA               |-> {"RESEARCHING", "PRD_DRAFT", "REJECTED", "ARCHIVED"},
    RESEARCHING        |-> {"PRD_DRAFT", "REJECTED", "ARCHIVED"},
    PRD_DRAFT          |-> {"PRD_REVIEW", "PRD_LOCKED", "REJECTED", "ARCHIVED"},
    PRD_REVIEW         |-> {"REVISION_REQUIRED", "PRD_APPROVED", "REJECTED"},
    REVISION_REQUIRED  |-> {"PRD_DRAFT", "PRD_REVIEW", "REJECTED", "ARCHIVED"},
    PRD_APPROVED       |-> {"PRD_LOCKED", "REVISION_REQUIRED", "REJECTED"},
    PRD_LOCKED         |-> {"REPO_BOOTSTRAPPING", "REPO_READY", "ARCHIVED"},
    REPO_BOOTSTRAPPING |-> {"REPO_READY", "PRD_LOCKED", "REJECTED"},
    REPO_READY         |-> {"DEVELOPMENT_QUEUED", "ARCHIVED"},
    DEVELOPMENT_QUEUED |-> {"DEVELOPING", "REPO_READY", "ARCHIVED"},
    DEVELOPING         |-> {"CODE_REVIEW", "DEVELOPMENT_QUEUED", "REJECTED"},
    CODE_REVIEW        |-> {"DEVELOPMENT_QUEUED", "QA_TESTING", "REJECTED"},
    QA_TESTING         |-> {"DEVELOPMENT_QUEUED", "SECURITY_REVIEW", "REJECTED"},
    SECURITY_REVIEW    |-> {"DEVELOPMENT_QUEUED", "RELEASE_CANDIDATE", "REJECTED"},
    RELEASE_CANDIDATE  |-> {"FINAL_APPROVAL", "DEVELOPMENT_QUEUED", "REJECTED"},
    FINAL_APPROVAL     |-> {"SIGNED", "BUILT", "DEVELOPMENT_QUEUED", "REJECTED"},
    SIGNED             |-> {"BUILT", "REJECTED"},
    BUILT              |-> {"RELEASED", "DEVELOPMENT_QUEUED", "REJECTED"},
    RELEASED           |-> {"ARCHIVED"},
    REJECTED           |-> {"IDEA", "PRD_DRAFT", "ARCHIVED"},
    ARCHIVED           |-> {} ]

ProjectStatuses == DOMAIN allowedProjectTransitions

\* The statuses in which development tasks may be created and started.
taskReadyStatuses == {"REPO_READY", "CODE_REVIEW", "QA_TESTING", "SECURITY_REVIEW",
                      "RELEASE_CANDIDATE", "FINAL_APPROVAL", "BUILT"}

canTransitionProject(from, to) == to \in allowedProjectTransitions[from]
=============================================================================
