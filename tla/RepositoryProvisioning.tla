----------------------- MODULE RepositoryProvisioning -----------------------
(***************************************************************************)
(* A project gets its repository: RepositoriesService.create and connect   *)
(* against GitHub and the database, the development task prepared at their *)
(* end, and processWebhook, which keeps the stored repository fresh.       *)
(*                                                                         *)
(* GitHub and the database share no transaction: every call to either may  *)
(* fail, which does not say that it was not done, and a request dies with  *)
(* the API process.  Both adapters are modelled; files written through the *)
(* fake one leave no trace, and the repositories it knows die with the     *)
(* process.  Nobody deletes a repository on GitHub itself.                 *)
(***************************************************************************)
EXTENDS Naturals, Sequences, FiniteSets, ProjectStates

CONSTANTS
  Projects, Names, \* repositories by owner and name
  Existing,        \* those GitHub has from the start (the fake one: its template)
  Files,           \* androidRepositoryBootstrapFiles, in order
  Creates, Connects, Hooks, \* requests
  Deliveries,      \* X-GitHub-Delivery identifiers
  Malformed,       \* deliveries whose payload does not parse
  Adapters,        \* subset of {"FAKE", "GITHUB_APP"}
  PersonTargets,   \* statuses that people move a project to themselves
  Scenarios,       \* the sets of requests that are made together
  MaxMishaps       \* bound on what goes wrong

Calls == Creates \cup Connects \cup Hooks
FilePaths == {Files[i] : i \in DOMAIN Files}
None == "none"

ASSUME ExistingAssumption == Existing \subseteq Names /\ Malformed \subseteq Deliveries
ASSUME BoundsAssumption == MaxMishaps \in Nat /\ Scenarios \subseteq SUBSET Calls
ASSUME FilesAssumption == Files \in Seq(FilePaths) /\ Files # <<>>
\* transitionProjectSchema admits the statuses of the enum only.
ASSUME PersonAssumption == PersonTargets \subseteq ProjectStatuses
ASSUME NoneAssumption == None \notin Projects \cup Names
ASSUME DisjointCalls ==
  Creates \cap Connects = {} /\ Hooks \cap (Creates \cup Connects) = {}

VARIABLES
  adapter,
  asked,       \* the requests of this behaviour
  status,      \* Project.status
  byHand,      \* history: projects whose status was last written by a person's transition
  remotes,     \* repositories on GitHub
  contents,    \* the bootstrap files each of them holds
  row,         \* GithubRepository by project (projectId is unique)
  origin,      \* the operation that wrote the row
  tasks,       \* projects whose IMPLEMENT_PRD task exists
  deliveries,  \* WebhookDelivery.status
  synced,      \* how often a delivery was applied to the stored repository
  call,
  mishaps      \* what has gone wrong: "crash", "fault", "unmoved" (a fault that leaves
               \* nobody to move the project on), "hand" (a person moved a project)

github == <<adapter, asked, remotes, contents>>
database == <<row, origin, tasks>>
hookRows == <<deliveries, synced>>
vars == <<status, byHand, call, github, database, hookRows, mishaps>>

NoCall == [at |-> "idle", project |-> None, name |-> None, todo |-> <<>>, to |-> None, then |-> None,
           delivery |-> None]

Init ==
  /\ adapter \in Adapters /\ asked \in Scenarios
  /\ status = [p \in Projects |-> "PRD_LOCKED"] /\ byHand = {}
  /\ remotes = Existing
  /\ contents = [n \in Names |-> {}]
  /\ row = [p \in Projects |-> None]
  /\ origin = [p \in Projects |-> None]
  /\ tasks = {}
  /\ deliveries = [d \in Deliveries |-> None]
  /\ synced = [d \in Deliveries |-> 0]
  /\ call = [c \in Calls |-> NoCall]
  /\ mishaps = <<>>

-----------------------------------------------------------------------------
At(c, at) == call[c].at = at
Ended == {"answered", "failed", "crashed"}
Goes(c, at) ==
  call' = [call EXCEPT ![c] = IF at \in Ended
             THEN [NoCall EXCEPT !.at = at,
                           !.project = IF at = "answered" THEN call[c].project ELSE None]
             ELSE [call[c] EXCEPT !.at = at]]
Befalls(mishap) == Len(mishaps) < MaxMishaps /\ mishaps' = Append(mishaps, mishap)
Fails == Befalls("fault")
Fine == UNCHANGED mishaps
StatusSame == UNCHANGED <<status, byHand>>
ProjectsSame == StatusSame /\ UNCHANGED database
HooksSame == UNCHANGED hookRows
GithubSame == UNCHANGED github

\* create's catch clause; connect has none.
Failing(c) == IF c \in Creates THEN "catching" ELSE "failed"

\* projects.transitionSystem, and where its caller goes on.
Moves(c, to, then) ==
  call' = [call EXCEPT ![c].at = "moving", ![c].to = to, ![c].then = then]

\* A refused move is thrown: within create's try it is caught.
Thrown(c) == IF call[c].then \in {"creating", "failed"} THEN "failed" ELSE Failing(c)

MoveReads(c) ==
  LET from == status[call[c].project] IN
  /\ At(c, "moving")
  /\ CASE from = call[c].to                                              -> Goes(c, call[c].then)
       [] from # call[c].to /\ canTransitionProject(from, call[c].to)    -> Goes(c, "writing")
       [] OTHER                                                          -> Goes(c, Thrown(c))
  /\ ProjectsSame /\ GithubSame /\ HooksSame /\ Fine

StatusWritten(c) ==
  /\ status' = [status EXCEPT ![call[c].project] = call[c].to]
  /\ byHand' = byHand \ {call[c].project}

MoveWrites(c) ==
  /\ At(c, "writing") /\ StatusWritten(c)
  /\ Goes(c, call[c].then)
  /\ UNCHANGED database /\ GithubSame /\ HooksSame /\ Fine

\* The database fails; the update may have been made.  Outside create's try, before
\* it and in its catch clause, no one moves the project any more.
MoveFails(c) ==
  /\ call[c].at \in {"moving", "writing"}
  /\ Befalls(IF call[c].then = "preparing" THEN "fault" ELSE "unmoved")
  /\ StatusSame \/ (At(c, "writing") /\ StatusWritten(c))
  /\ Goes(c, Thrown(c))
  /\ UNCHANGED database /\ GithubSame /\ HooksSame

-----------------------------------------------------------------------------
(* create and connect *)

assertCanConnect(p) == status[p] = "PRD_LOCKED" /\ row[p] = None

CreateAsks(c) ==
  /\ At(c, "idle")
  /\ \E p \in Projects, n \in Names :
       /\ assertCanConnect(p)
       /\ call' = [call EXCEPT ![c] = [NoCall EXCEPT !.at = "moving", !.project = p, !.name = n,
                                         !.to = "REPO_BOOTSTRAPPING", !.then = "creating"]]
  /\ ProjectsSame /\ GithubSame /\ HooksSame /\ Fine

\* The fake adapter replaces a repository of that name; GitHub refuses it.
createRepository(c) ==
  /\ At(c, "creating")
  /\ adapter = "FAKE" \/ call[c].name \notin remotes
  /\ remotes' = remotes \cup {call[c].name}
  /\ call' = [call EXCEPT ![c].at = "files", ![c].todo = Files]
  /\ UNCHANGED <<adapter, asked, contents>>
  /\ ProjectsSame /\ HooksSame /\ Fine

\* The name is taken, or the call fails: GitHub may have created it all the same.
CreateFails(c) ==
  /\ At(c, "creating") /\ adapter # "FAKE"
  /\ \/ call[c].name \in remotes /\ Fine /\ UNCHANGED remotes
     \/ Fails /\ remotes' \in {remotes, remotes \cup {call[c].name}}
  /\ Goes(c, Failing(c))
  /\ UNCHANGED <<adapter, asked, contents>>
  /\ ProjectsSame /\ HooksSame

\* One bootstrap file at a time; the fake adapter keeps none.
createOrUpdateFile(c) ==
  /\ At(c, "files")
  /\ call' = [call EXCEPT ![c].todo = Tail(@),
                          ![c].at = IF Tail(call[c].todo) = <<>> THEN "inserting" ELSE @]
  /\ contents' = IF adapter = "FAKE" THEN contents
                 ELSE [contents EXCEPT ![call[c].name] = @ \cup {Head(call[c].todo)}]
  /\ UNCHANGED <<adapter, asked, remotes>>
  /\ ProjectsSame /\ HooksSame /\ Fine

\* Mutant: a file that cannot be written is skipped.
FileSkipped(c) == "inserting"

AfterFileFailure(c) == Failing(c)

\* GitHub may have taken the file all the same.
FileFails(c) ==
  /\ At(c, "files") /\ adapter # "FAKE"
  /\ Fails
  /\ contents' \in {contents, [contents EXCEPT ![call[c].name] = @ \cup {Head(call[c].todo)}]}
  /\ Goes(c, AfterFileFailure(c))
  /\ UNCHANGED <<adapter, asked, remotes>>
  /\ ProjectsSame /\ HooksSame

\* getRepository confirms what the request says of the repository.
ConnectAsks(c) ==
  /\ At(c, "idle")
  /\ \E p \in Projects, n \in remotes :
       /\ assertCanConnect(p)
       /\ call' = [call EXCEPT ![c] = [NoCall EXCEPT !.at = "inserting", !.project = p, !.name = n]]
  /\ ProjectsSame /\ GithubSame /\ HooksSame /\ Fine

\* projectId and externalId are unique.
RowFits(c) == row[call[c].project] = None /\ \A p \in Projects : row[p] # call[c].name

RowStored(c) ==
  /\ RowFits(c)
  /\ row' = [row EXCEPT ![call[c].project] = call[c].name]
  /\ origin' = [origin EXCEPT ![call[c].project] = IF c \in Creates THEN "create" ELSE "connect"]

RowInserts(c) ==
  /\ At(c, "inserting") /\ RowStored(c)
  /\ Moves(c, "REPO_READY", "preparing")
  /\ StatusSame /\ UNCHANGED tasks
  /\ GithubSame /\ HooksSame /\ Fine

\* Mutant: an insert that failed is taken for a repository already there.
AlreadyThere(c) == "moving"

AfterInsertFailure(c) == Failing(c)

InsertFails(c) ==
  /\ At(c, "inserting")
  /\ \/ ~RowFits(c) /\ Fine /\ UNCHANGED <<row, origin>>
     \/ Fails /\ (UNCHANGED <<row, origin>> \/ RowStored(c))
  /\ call' = [call EXCEPT ![c].at = AfterInsertFailure(c), ![c].to = "REPO_READY",
                          ![c].then = "preparing"]
  /\ StatusSame /\ UNCHANGED tasks
  /\ GithubSame /\ HooksSame

\* Mutant: a project that is not ready is answered like one without a repository.
NotPrepared(c) == "answered"

NotReady(c) == Failing(c)

\* prepareFromLockedPrd: the task is there, or the project must be ready for one.
PrepareReads(c) ==
  /\ At(c, "preparing")
  /\ Goes(c, CASE call[c].project \in tasks                         -> "answered"
               [] /\ call[c].project \notin tasks
                  /\ status[call[c].project] \in taskReadyStatuses  -> "taskInserting"
               [] OTHER                                             -> NotReady(c))
  /\ ProjectsSame /\ GithubSame /\ HooksSame /\ Fine

\* One transaction; idempotencyKey is unique.
TaskInserts(c) ==
  /\ At(c, "taskInserting")
  /\ tasks' = tasks \cup {call[c].project}
  /\ Goes(c, IF call[c].project \in tasks THEN Failing(c) ELSE "answered")
  /\ StatusSame /\ UNCHANGED <<row, origin>>
  /\ GithubSame /\ HooksSame /\ Fine

\* The database fails, or the locked PRD's criteria are none a task may have.
PrepareFails(c) ==
  /\ call[c].at \in {"preparing", "taskInserting"} /\ Fails
  /\ tasks' \in {tasks} \cup (IF At(c, "taskInserting") THEN {tasks \cup {call[c].project}} ELSE {})
  /\ Goes(c, Failing(c))
  /\ StatusSame /\ UNCHANGED <<row, origin>>
  /\ GithubSame /\ HooksSame

\* Mutant: a failed creation leaves the project where it is.
LeftAsIs(c) == Goes(c, "failed")

Reverts(c) == Moves(c, "PRD_LOCKED", "failed")

\* The catch clause moves the project back and rethrows.
Catches(c) ==
  /\ At(c, "catching")
  /\ Reverts(c)
  /\ ProjectsSame /\ GithubSame /\ HooksSame /\ Fine

-----------------------------------------------------------------------------
(* processWebhook: a request whose signature and headers are in order *)

HookChecks(c) ==
  /\ At(c, "idle")
  /\ \E d \in Deliveries :
       call' = [call EXCEPT ![c].delivery = d,
                  ![c].at = IF deliveries[d] # None THEN "answered" ELSE "recording"]
  /\ ProjectsSame /\ GithubSame /\ HooksSame /\ Fine

\* Mutant: two deliveries of one identifier may both be recorded.
NeverRecorded(c) == FALSE

\* deliveryId is unique: the other request has recorded it since.
AlreadyRecorded(c) == deliveries[call[c].delivery] # None

HookRecords(c) ==
  /\ At(c, "recording")
  /\ IF AlreadyRecorded(c)
       THEN Goes(c, "failed") /\ UNCHANGED deliveries
       ELSE /\ deliveries' = [deliveries EXCEPT ![call[c].delivery] = "RECEIVED"]
            /\ Goes(c, "syncing")
  /\ UNCHANGED synced
  /\ ProjectsSame /\ GithubSame /\ Fine

\* updateMany on the repositories of that external identifier.
HookSyncs(c) ==
  /\ At(c, "syncing")
  /\ call[c].delivery \notin Malformed
  /\ synced' = [synced EXCEPT ![call[c].delivery] = @ + 1]
  /\ Goes(c, "processed")
  /\ UNCHANGED deliveries
  /\ ProjectsSame /\ GithubSame /\ Fine

\* The payload does not parse, or the update or what follows it fails.
HookThrows(c) ==
  /\ \/ At(c, "syncing") /\ call[c].delivery \in Malformed /\ Fine
     \/ call[c].at \in {"syncing", "processed"} /\ Fails
  /\ Goes(c, "rejecting")
  /\ ProjectsSame /\ GithubSame /\ HooksSame

\* Mutant: the audit's outcome is written to the delivery.
HookAudited(c) == IF At(c, "processed") THEN "SUCCESS" ELSE "FAILURE"

HookOutcome(c) == IF At(c, "processed") THEN "PROCESSED" ELSE "FAILED"

\* The audit row that follows a PROCESSED is taken with it: when it fails, FAILED
\* replaces PROCESSED, which is HookThrows before this step.
HookSettles(c) ==
  /\ call[c].at \in {"processed", "rejecting"}
  /\ deliveries' = [deliveries EXCEPT ![call[c].delivery] = HookOutcome(c)]
  /\ Goes(c, IF At(c, "processed") THEN "answered" ELSE "failed")
  /\ UNCHANGED synced
  /\ ProjectsSame /\ GithubSame /\ Fine

\* The delivery's row cannot be inserted, or not be marked FAILED: so it seems.
HookFails(c) ==
  /\ \/ At(c, "recording") /\ ~AlreadyRecorded(c)
     \/ At(c, "rejecting")
  /\ Fails /\ Goes(c, "failed")
  /\ deliveries' \in {deliveries, [deliveries EXCEPT ![call[c].delivery] =
                                      IF At(c, "recording") THEN "RECEIVED" ELSE "FAILED"]}
  /\ UNCHANGED synced
  /\ ProjectsSame /\ GithubSame

-----------------------------------------------------------------------------
InFlight == {c \in Calls : call[c].at \notin Ended \cup {"idle"}}

\* The API process dies: every request in flight stops where it is, and what the fake
\* adapter held in memory is gone.
Crashes ==
  /\ InFlight # {} /\ Befalls("crash")
  /\ call' = [c \in Calls |-> IF c \in InFlight THEN [NoCall EXCEPT !.at = "crashed"] ELSE call[c]]
  /\ remotes' = IF adapter = "FAKE" THEN Existing ELSE remotes
  /\ UNCHANGED <<adapter, asked, contents>>
  /\ ProjectsSame /\ HooksSame

\* A CEO or PM moves the project with ProjectsService.transition, whose check and
\* versioned update are one step (ProjectTransitions); no repository is asked for.
PersonMoves ==
  /\ Befalls("hand")
  /\ \E p \in Projects, to \in PersonTargets :
       /\ canTransitionProject(status[p], to)
       /\ status' = [status EXCEPT ![p] = to] /\ byHand' = byHand \cup {p}
  /\ UNCHANGED call
  /\ UNCHANGED database /\ GithubSame /\ HooksSame

Begins(c) ==
  \/ c \in Creates /\ CreateAsks(c)
  \/ c \in Connects /\ ConnectAsks(c)
  \/ c \in Hooks /\ HookChecks(c)

Proceeds(c) ==
  \/ MoveReads(c) \/ MoveWrites(c) \/ MoveFails(c)
  \/ createRepository(c) \/ CreateFails(c)
  \/ createOrUpdateFile(c) \/ FileFails(c)
  \/ RowInserts(c) \/ InsertFails(c)
  \/ PrepareReads(c) \/ TaskInserts(c) \/ PrepareFails(c) \/ Catches(c)
  \/ HookRecords(c) \/ HookSyncs(c) \/ HookThrows(c) \/ HookSettles(c) \/ HookFails(c)

Next ==
  \/ Crashes \/ PersonMoves
  \/ \E c \in asked : Begins(c) \/ Proceeds(c)

\* While a request is in flight the process runs on: its handlers are finite,
\* so fairness to all of them together is enough.
Fairness == WF_vars(\E c \in Calls : Proceeds(c))

Spec == Init /\ [][Next]_vars /\ Fairness

-----------------------------------------------------------------------------
Places == {"idle", "moving", "writing", "creating", "files", "inserting", "preparing",
           "taskInserting", "catching", "recording", "syncing", "processed", "rejecting"} \cup Ended

MishapKinds == {"crash", "fault", "unmoved", "hand"}

TypeOK ==
  /\ status \in [Projects -> ProjectStatuses] /\ byHand \subseteq Projects
  /\ remotes \subseteq Names /\ contents \in [Names -> SUBSET FilePaths]
  /\ row \in [Projects -> Names \cup {None}]
  /\ origin \in [Projects -> {None, "create", "connect"}]
  /\ tasks \subseteq Projects
  /\ deliveries \in [Deliveries -> {None, "RECEIVED", "PROCESSED", "FAILED"}]
  /\ synced \in [Deliveries -> Nat]
  /\ mishaps \in Seq(MishapKinds)
  /\ call \in [Calls -> [at : Places, project : Projects \cup {None}, name : Names \cup {None},
                         todo : Seq(FilePaths), to : ProjectStatuses \cup {None},
                         then : Places \cup {None}, delivery : Deliveries \cup {None}]]

(* However creations and connections race, fail or crash, they make no     *)
(* project ready without a stored repository, none is stored for two, and  *)
(* what is stored exists on GitHub.  A person may move a project to        *)
(* REPO_READY without any repository, which this does not speak of, and    *)
(* what the fake adapter made is gone when the process dies.               *)
ReadyHasRepository ==
  \A p \in Projects :
    /\ status[p] = "REPO_READY" /\ p \notin byHand => row[p] # None
    /\ row[p] # None => \A q \in Projects \ {p} : row[q] # row[p]
    /\ row[p] # None /\ adapter # "FAKE" => row[p] \in remotes

(* A repository the Factory created is stored only once every bootstrap    *)
(* file is in it; one left half written by a failure or a crash can only be*)
(* connected by hand.                                                      *)
CreatedIsBootstrapped ==
  \A p \in Projects :
    adapter # "FAKE" /\ origin[p] = "create" => contents[row[p]] = FilePaths

(* A request that answers success has left its project with a development  *)
(* task, though another request may have moved the project back meanwhile. *)
AnsweredHasTask ==
  \A c \in Creates \cup Connects : At(c, "answered") => call[c].project \in tasks

(* GitHub may send a delivery twice, at the same time or after a failure:  *)
(* it is applied at most once, and one recorded as PROCESSED was applied.  *)
DeliveryAppliedOnce ==
  \A d \in Deliveries :
    /\ synced[d] <= 1
    /\ deliveries[d] = "PROCESSED" => synced[d] = 1

(* No project stays in REPO_BOOTSTRAPPING: whichever creation put it there *)
(* takes it on or back, whatever fails within it and even if others, or a  *)
(* person, undo or redo its moves.  Excepted are a person's own move to    *)
(* REPO_BOOTSTRAPPING, which begins no creation, a death of the API and a  *)
(* database failure in a creation's first move or in its catch clause.     *)
BootstrappingEnds ==
  \A p \in Projects :
    status[p] = "REPO_BOOTSTRAPPING" ~>
      \/ status[p] # "REPO_BOOTSTRAPPING" \/ p \in byHand
      \/ \E i \in DOMAIN mishaps : mishaps[i] \in {"crash", "unmoved"}
=============================================================================
