-------------------- MODULE RepositoryProvisioningProofs --------------------
(***************************************************************************)
(* What provisioning and the webhooks promise for any number of projects,  *)
(* requests, deliveries, faults, crashes and moves by hand.                *)
(*                                                                         *)
(* A request works through GitHub and the database step by step, and any   *)
(* step may be its last.  What it has done so far stays done: repositories *)
(* on GitHub and their files, rows and tasks are never removed (Grows), so *)
(* what a request knows (CallOk) survives the others, and what a row was   *)
(* stored for stays true of it.  A delivery is handled by the one request  *)
(* that recorded it (HooksOk).                                             *)
(***************************************************************************)
EXTENDS RepositoryProvisioning, SequenceTheorems, TLAPS

CallRow == [at : Places, project : Projects \cup {None}, name : Names \cup {None},
            todo : Seq(FilePaths), to : ProjectStatuses \cup {None},
            then : Places \cup {None}, delivery : Deliveries \cup {None}]

Typed == TypeOK /\ asked \subseteq Calls

Moving == {"moving", "writing"}
Handling == {"syncing", "processed", "rejecting"}

Working == Moving \cup {"creating", "files", "inserting", "preparing", "taskInserting", "catching"}

\* What request c knows in row k, by where it is.
CallOk(c, k) ==
  /\ k.at \in Working => k.project \in Projects
  /\ k.at \in {"creating", "files", "inserting"} \/ (k.at \in Moving /\ k.then = "creating")
       => k.name \in Names
  /\ k.at \in Moving => k.to \in ProjectStatuses /\ k.then \in {"creating", "preparing", "failed"}
  /\ k.at \in Moving /\ k.to = "REPO_READY" => row[k.project] # None
  /\ k.at \in {"files", "inserting"} /\ adapter # "FAKE" => k.name \in remotes
  /\ k.at = "files" =>
       /\ k.todo # <<>>
       /\ adapter # "FAKE" =>
            \A f \in FilePaths : f \in contents[k.name] \/ \E i \in DOMAIN k.todo : k.todo[i] = f
  /\ k.at = "inserting" /\ c \in Creates /\ adapter # "FAKE" => contents[k.name] = FilePaths
  /\ k.at = "answered" /\ c \in Creates \cup Connects => k.project \in tasks
  /\ k.at \in Handling \cup {"recording"} => k.delivery \in Deliveries /\ c \in Hooks

\* What a service made ready has its row.
ReadyOk(p) == status[p] = "REPO_READY" /\ p \notin byHand => row[p] # None

\* What is stored of a project.
ProjectOk(p) ==
  /\ ReadyOk(p)
  /\ row[p] # None => \A q \in Projects \ {p} : row[q] # row[p]
  /\ row[p] # None /\ adapter # "FAKE" => row[p] \in remotes
  /\ origin[p] = "create" => row[p] # None
  /\ adapter # "FAKE" /\ origin[p] = "create" => contents[row[p]] = FilePaths

\* A delivery is in the hands of the one request that recorded it.
DeliveryOk(d) ==
  /\ synced[d] \in {0, 1}
  /\ deliveries[d] = None => synced[d] = 0
  /\ deliveries[d] = "PROCESSED" => synced[d] = 1

HandlerOk(c) == LET d == call[c].delivery IN
  /\ call[c].at \in Handling => deliveries[d] = "RECEIVED"
  /\ call[c].at = "syncing" => synced[d] = 0
  /\ call[c].at = "processed" => synced[d] = 1
  /\ call[c].at \in Handling =>
       \A b \in Calls \ {c} : call[b].at \in Handling => call[b].delivery # d

HooksOk == (\A d \in Deliveries : DeliveryOk(d)) /\ \A c \in Calls : HandlerOk(c)

ProvisionInv ==
  /\ Typed
  /\ \A c \in Calls : CallOk(c, call[c])
  /\ \A p \in Projects : ProjectOk(p)
  /\ HooksOk

-----------------------------------------------------------------------------
(* Frames.                                                                 *)

(* The row every request starts from, and a finished one goes back to.     *)
LEMMA FirstCall ==
  NoCall \in CallRow /\ NoCall.at = "idle" /\ NoCall.project = None
<1>1. <<>> \in Seq(FilePaths)
  BY EmptySeq
<1> QED
  BY <1>1 DEF NoCall, CallRow, Places

(* Nothing is stored, asked or delivered at first.                         *)
LEMMA InitProvisionInv ==
  ASSUME Init PROVE ProvisionInv
<1>1. Typed
  <2>1. <<>> \in Seq(MishapKinds)
    BY EmptySeq
  <2>2. call \in [Calls -> CallRow]
    BY FirstCall DEF Init
  <2> QED
    BY <2>1, <2>2, ExistingAssumption, BoundsAssumption
       DEF Init, Typed, TypeOK, CallRow, ProjectStatuses, allowedProjectTransitions
<1>2. \A c \in Calls : CallOk(c, call[c])
  BY FirstCall DEF Init, CallOk, Moving, Working, Handling, Places
<1>3. \A p \in Projects : ProjectOk(p)
  BY NoneAssumption DEF Init, ProjectOk, ReadyOk, None
<1>4. HooksOk
  BY FirstCall DEF Init, HooksOk, DeliveryOk, HandlerOk, Handling, None
<1> QED
  BY <1>1, <1>2, <1>3, <1>4 DEF ProvisionInv

(* What no step takes back.                                                *)
Grows ==
  /\ adapter' = adapter /\ asked' = asked
  /\ tasks \subseteq tasks' /\ (adapter # "FAKE" => remotes \subseteq remotes')
  /\ \A n \in Names : contents[n] \subseteq contents'[n]
  /\ \A p \in Projects : row[p] # None => row'[p] = row[p] /\ origin'[p] = origin[p]

(* What a request knows survives the steps of the others.                  *)
LEMMA OthersKeep ==
  ASSUME Typed, Typed', Grows, NEW c \in Calls, NEW k \in CallRow, CallOk(c, k)
  PROVE  CallOk(c, k)'
<1>1. k.name \in Names => contents[k.name] \subseteq contents'[k.name] /\ contents'[k.name] \subseteq FilePaths
  BY DEF Grows, Typed, TypeOK
<1> QED
  BY <1>1 DEF CallOk, Grows, Moving, Working, Handling

(* What a step stores must be as it should be; the rest takes care of      *)
(* itself.                                                                 *)
LEMMA StepKeeps ==
  ASSUME ProvisionInv, Typed', Grows, HooksOk',
         \A c \in Calls : call'[c] = call[c] \/ CallOk(c, call[c])',
         UNCHANGED <<status, byHand>> \/ \A p \in Projects : ReadyOk(p)',
         \A p \in Projects : (row'[p] = row[p] /\ origin'[p] = origin[p]) \/ ProjectOk(p)',
         \A p, q \in Projects : p # q /\ row'[p] # None => row'[q] # row'[p]
  PROVE  ProvisionInv'
<1>1. ASSUME NEW c \in Calls PROVE CallOk(c, call[c])'
  <2>1. call[c] \in CallRow /\ CallOk(c, call[c])
    BY DEF ProvisionInv, Typed, TypeOK, CallRow
  <2>2. PICK k \in CallRow : k = call[c]
    BY <2>1
  <2>3. CallOk(c, k)'
    BY <2>1, <2>2, OthersKeep DEF ProvisionInv
  <2>4. CASE call'[c] = call[c]
    BY <2>2, <2>3, <2>4 DEF CallOk
  <2> QED
    BY <2>4
<1>2. ASSUME NEW p \in Projects PROVE ProjectOk(p)'
  <2>1. SUFFICES ASSUME row'[p] = row[p], origin'[p] = origin[p] PROVE ProjectOk(p)'
    OBVIOUS
  <2>2. ProjectOk(p)
    BY DEF ProvisionInv
  <2>3. row[p] # None => row[p] \in Names
    BY DEF ProvisionInv, Typed, TypeOK
  <2>4. ReadyOk(p)'
    BY <2>1, <2>2 DEF ProjectOk, ReadyOk
  <2>5. /\ row'[p] # None => \A q \in Projects \ {p} : row'[q] # row'[p]
        /\ row'[p] # None /\ adapter' # "FAKE" => row'[p] \in remotes'
    BY <2>1, <2>2 DEF ProjectOk, Grows
  <2>6. origin'[p] = "create" => row'[p] # None
    BY <2>1, <2>2 DEF ProjectOk
  <2>7. ASSUME adapter' # "FAKE", origin'[p] = "create" PROVE contents'[row'[p]] = FilePaths
    <3>1. row[p] \in Names /\ contents[row[p]] = FilePaths
      BY <2>1, <2>2, <2>3, <2>7 DEF ProjectOk, Grows
    <3>2. contents'[row[p]] \subseteq FilePaths
      BY <3>1 DEF Typed, TypeOK
    <3> QED
      BY <2>1, <3>1, <3>2 DEF Grows
  <2> QED
    BY <2>4, <2>5, <2>6, <2>7 DEF ProjectOk
<1> QED
  BY <1>1, <1>2 DEF ProvisionInv

(* Deliveries stay in order when no request takes one up.                  *)
LEMMA HooksStay ==
  ASSUME ProvisionInv, HooksSame,
         \A c \in Calls : \/ call'[c] = call[c]
                         \/ call'[c].at \notin Handling
                         \/ /\ call[c].at \in Handling /\ call'[c].at = "rejecting"
                            /\ call'[c].delivery = call[c].delivery
  PROVE  HooksOk'
<1>1. \A d \in Deliveries : DeliveryOk(d)'
  BY DEF ProvisionInv, HooksOk, DeliveryOk, HooksSame, hookRows
<1>2. \A c \in Calls : call'[c].at \in Handling =>
        call[c].at \in Handling /\ call'[c].delivery = call[c].delivery
                                /\ call'[c].at \in {call[c].at, "rejecting"}
  OBVIOUS
<1>3. ASSUME NEW c \in Calls PROVE HandlerOk(c)'
  <2>1. HandlerOk(c)
    BY DEF ProvisionInv, HooksOk
  <2>2. CASE call'[c].at \notin Handling
    BY <2>2 DEF HandlerOk, Handling
  <2>3. CASE call'[c].at \in Handling
    BY <1>2, <2>1, <2>3 DEF HandlerOk, Handling, HooksSame, hookRows
  <2> QED
    BY <2>2, <2>3
<1> QED
  BY <1>1, <1>3 DEF HooksOk

(* Where a request goes, keeping what it has or giving it up at its end.   *)
LEMMA GoesOver ==
  ASSUME Typed, NEW c \in Calls, NEW at \in Places, Goes(c, at)
  PROVE  \E k \in CallRow :
           /\ call' = [call EXCEPT ![c] = k] /\ call'[c] = k /\ k.at = at
           /\ at \notin Ended => k = [call[c] EXCEPT !.at = at]
           /\ at = "answered" => k.project = call[c].project
<1>1. PICK k \in CallRow : k = call[c]
  BY DEF Typed, TypeOK, CallRow
<1>2. call \in [Calls -> CallRow]
  BY DEF Typed, TypeOK, CallRow
<1>3. CASE at \in Ended
  <2>1. PICK p \in Projects \cup {None} : p = IF at = "answered" THEN k.project ELSE None
    BY DEF CallRow
  <2> DEFINE end == [NoCall EXCEPT !.at = at, !.project = p]
  <2>2. end \in CallRow /\ end.at = at /\ end.project = p
    BY FirstCall DEF CallRow
  <2>3. call' = [call EXCEPT ![c] = end]
    BY <1>1, <1>3, <2>1 DEF Goes
  <2> HIDE DEF end
  <2>4. call'[c] = end
    BY <1>2, <2>3
  <2> QED
    BY <1>1, <1>3, <2>1, <2>2, <2>3, <2>4
<1>4. CASE at \notin Ended
  <2> DEFINE next == [k EXCEPT !.at = at]
  <2>1. next \in CallRow /\ next.at = at
    BY DEF CallRow
  <2>2. call' = [call EXCEPT ![c] = next]
    BY <1>1, <1>4 DEF Goes
  <2>3. at # "answered"
    BY <1>4 DEF Ended
  <2>4. next = [call[c] EXCEPT !.at = at]
    BY <1>1
  <2> HIDE DEF next
  <2>5. call'[c] = next
    BY <1>2, <2>2
  <2> QED
    BY <2>1, <2>2, <2>3, <2>4, <2>5
<1> QED
  BY <1>3, <1>4

(* What has gone wrong is a list of mishaps.                               *)
LEMMA MishapsTyped ==
  ASSUME Typed, Fine \/ Fails \/ Befalls("crash") \/ Befalls("hand") \/ Befalls("unmoved")
  PROVE  mishaps' \in Seq(MishapKinds)
<1> DEFINE S == MishapKinds
<1>0. {"crash", "fault", "unmoved", "hand"} \subseteq S
  BY DEF MishapKinds
<1> HIDE DEF S
<1>1. mishaps \in Seq(S)
  BY DEF Typed, TypeOK, S
<1>2. \A m \in S : Append(mishaps, m) \in Seq(S)
  BY <1>1, AppendProperties
<1> QED
  BY <1>0, <1>1, <1>2 DEF Fine, Fails, Befalls, S

(* A step of one request that stores nothing in the database keeps the     *)
(* invariant when the request knows what it should where it gets to.       *)
LEMMA RequestStep ==
  ASSUME ProvisionInv, Grows, HooksSame, UNCHANGED <<status, byHand, row, origin>>,
         remotes' \subseteq Names, contents' \in [Names -> SUBSET FilePaths], tasks' \subseteq Projects,
         mishaps' \in Seq(MishapKinds),
         NEW c \in Calls, NEW k \in CallRow, call' = [call EXCEPT ![c] = k], CallOk(c, k)',
         k.at \in Handling => call[c].at \in Handling /\ k.at = "rejecting" /\ k.delivery = call[c].delivery
  PROVE  ProvisionInv'
<1>1. call \in [Calls -> CallRow]
  BY DEF ProvisionInv, Typed, TypeOK, CallRow
<1>2. call' \in [Calls -> CallRow] /\ call'[c] = k /\ \A d \in Calls \ {c} : call'[d] = call[d]
  BY <1>1
<1>3. Typed'
  <2>1. status' \in [Projects -> ProjectStatuses] /\ row' \in [Projects -> Names \cup {None}]
        /\ origin' \in [Projects -> {None, "create", "connect"}]
        /\ deliveries' \in [Deliveries -> {None, "RECEIVED", "PROCESSED", "FAILED"}]
        /\ synced' \in [Deliveries -> Nat]
        /\ asked' \subseteq Calls /\ byHand' \subseteq Projects
    BY DEF ProvisionInv, Typed, TypeOK, HooksSame, hookRows, Grows
  <2> QED
    BY <1>2, <2>1 DEF Typed, TypeOK, CallRow
<1>4. HooksOk'
  BY <1>2, HooksStay
<1>5. \A d \in Calls : call'[d] = call[d] \/ CallOk(d, call[d])'
  <2>1. CallOk(c, call[c])'
    BY <1>2 DEF CallOk
  <2> QED
    BY <1>2, <2>1
<1>6. \A p, q \in Projects : p # q /\ row'[p] # None => row'[q] # row'[p]
  BY DEF ProvisionInv, ProjectOk
<1> QED
  BY <1>3, <1>4, <1>5, <1>6, StepKeeps

(* So does one that only moves the request on.                             *)
LEMMA CallStep ==
  ASSUME ProvisionInv, ProjectsSame, GithubSame, HooksSame,
         Fine \/ Fails \/ Befalls("unmoved"),
         NEW c \in Calls, NEW k \in CallRow, call' = [call EXCEPT ![c] = k], CallOk(c, k),
         k.at \in Handling => call[c].at \in Handling /\ k.at = "rejecting" /\ k.delivery = call[c].delivery
  PROVE  ProvisionInv' /\ Grows
<1>1. Grows
  BY DEF Grows, ProjectsSame, StatusSame, database, GithubSame, github
<1>2. UNCHANGED <<status, byHand, row, origin, tasks, remotes, contents, adapter>>
  BY DEF ProjectsSame, StatusSame, database, GithubSame, github
<1>3. CallOk(c, k)'
  BY <1>2 DEF CallOk
<1>4. mishaps' \in Seq(MishapKinds)
  BY MishapsTyped DEF ProvisionInv
<1>5. remotes' \subseteq Names /\ contents' \in [Names -> SUBSET FilePaths] /\ tasks' \subseteq Projects
  BY <1>2 DEF ProvisionInv, Typed, TypeOK
<1> QED
  BY <1>1, <1>2, <1>3, <1>4, <1>5, RequestStep

(* A request's row and what the request knows.                             *)
LEMMA CallFits ==
  ASSUME ProvisionInv, NEW c \in Calls
  PROVE  call[c] \in CallRow /\ CallOk(c, call[c]) /\ Typed
  BY DEF ProvisionInv, Typed, TypeOK, CallRow

(* A step that ends the request or sends it elsewhere without storing      *)
(* anything keeps the invariant when that place asks for what the request  *)
(* knows.                                                                  *)
LEMMA GoesStep ==
  ASSUME ProvisionInv, ProjectsSame, GithubSame, HooksSame,
         Fine \/ Fails \/ Befalls("unmoved"), NEW c \in Calls, NEW at \in Places \ Handling, Goes(c, at),
         at = "answered" /\ c \in Creates \cup Connects => call[c].project \in tasks,
         at \notin Ended => CallOk(c, [call[c] EXCEPT !.at = at])
  PROVE  ProvisionInv' /\ Grows
<1>1. PICK k \in CallRow :
        /\ call' = [call EXCEPT ![c] = k] /\ k.at = at
        /\ at \notin Ended => k = [call[c] EXCEPT !.at = at]
        /\ at = "answered" => k.project = call[c].project
  BY GoesOver, CallFits
<1>2. CallOk(c, k)
  <2>1. CASE at \in Ended
    BY <1>1, <2>1 DEF CallOk, Ended, Moving, Working, Handling
  <2> QED
    BY <1>1, <2>1
<1>3. k.at \notin Handling
  BY <1>1
<1> QED
  BY <1>1, <1>2, <1>3, CallStep

-----------------------------------------------------------------------------
(* Creation and connection.                                                *)

(* Where a failure takes a request.                                        *)
LEMMA FailureGoes ==
  ASSUME ProvisionInv, NEW c \in Calls, call[c].at \in Working
  PROVE  /\ Failing(c) \in {"catching", "failed"}
         /\ CallOk(c, [call[c] EXCEPT !.at = "catching"])
<1>1. PICK k \in CallRow : k = call[c]
  BY CallFits
<1>2. CallOk(c, k)
  BY <1>1, CallFits
<1>3. CallOk(c, [k EXCEPT !.at = "catching"])
  BY <1>1, <1>2 DEF CallOk, CallRow, Moving, Working, Handling
<1> QED
  BY <1>1, <1>3 DEF Failing

(* transitionSystem reads the status and checks the move. *)
LEMMA MoveReadsStep ==
  ASSUME ProvisionInv, NEW c \in Calls, MoveReads(c) PROVE ProvisionInv' /\ Grows
<1>1. PICK k \in CallRow : k = call[c]
  BY CallFits
<1>2. CallOk(c, k) /\ k.at = "moving" /\ k.project \in Projects /\ k.then \in {"creating", "preparing", "failed"}
  BY <1>1, CallFits DEF CallOk, MoveReads, At, Working, Moving
<1>3. PICK at \in {k.then, "writing", Thrown(c)} : Goes(c, at)
  BY <1>1 DEF MoveReads
<1>4. Thrown(c) \in {"failed", "catching"}
  BY DEF Thrown, Failing
<1>5. at \in {"creating", "preparing", "failed", "writing", "catching"}
  BY <1>2, <1>3, <1>4
<1>6. at \in Places \ Handling
  BY <1>5 DEF Places, Ended, Handling
<1>7. at # "failed" => CallOk(c, [k EXCEPT !.at = at])
  <2>1. at = "creating" => k.then = "creating"
    BY <1>2, <1>3, <1>4
  <2>2. at # "failed" => [k EXCEPT !.at = at].at = at
    BY DEF CallRow
  <2> QED
    BY <1>2, <1>5, <2>1, <2>2 DEF CallOk, CallRow, Working, Moving, Handling
<1>8. ProjectsSame /\ GithubSame /\ HooksSame /\ Fine
  BY DEF MoveReads
<1> QED
  BY <1>1, <1>3, <1>5, <1>6, <1>7, <1>8, GoesStep DEF Ended

(* transitionSystem writes, on whatever way its caller goes; REPO_READY    *)
(* comes only from a call whose row is stored.                             *)
LEMMA WriteStep ==
  ASSUME ProvisionInv, NEW c \in Calls, At(c, "writing"), StatusWritten(c),
         UNCHANGED database, GithubSame, HooksSame, Fine \/ Fails \/ Befalls("unmoved"),
         NEW at \in Places \ Handling, Goes(c, at), at # "answered",
         at \notin Ended => CallOk(c, [call[c] EXCEPT !.at = at])
  PROVE  ProvisionInv' /\ Grows
<1>1. PICK k \in CallRow : k = call[c]
  BY CallFits
<1>2. /\ k.project \in Projects /\ k.to \in ProjectStatuses
      /\ k.to = "REPO_READY" => row[k.project] # None
  BY <1>1, CallFits DEF CallOk, At, Working, Moving
<1>3. PICK next \in CallRow :
        /\ call' = [call EXCEPT ![c] = next] /\ call'[c] = next /\ next.at = at
        /\ at \notin Ended => next = [k EXCEPT !.at = at]
  BY <1>1, GoesOver, CallFits
<1>4. Grows /\ UNCHANGED <<row, origin, tasks, remotes, contents, adapter>>
  BY DEF Grows, database, GithubSame, github
<1>5. CallOk(c, next)
  <2>1. CASE at \in Ended
    BY <1>3, <2>1 DEF CallOk, Ended, Working, Moving, Handling
  <2>2. CASE at \notin Ended
    BY <1>1, <1>3, <2>2
  <2> QED
    BY <2>1, <2>2
<1>6. CallOk(c, call[c])'
  BY <1>3, <1>4, <1>5 DEF CallOk
<1>7. call \in [Calls -> CallRow]
  BY DEF ProvisionInv, Typed, TypeOK, CallRow
<1>8. \A d \in Calls : d # c => call'[d] = call[d]
  BY <1>3, <1>7
<1>9. /\ status' = [status EXCEPT ![k.project] = k.to] /\ status \in [Projects -> ProjectStatuses]
      /\ byHand' = byHand \ {k.project} /\ byHand \subseteq Projects
  BY <1>1 DEF StatusWritten, ProvisionInv, Typed, TypeOK
<1>10. Typed'
  <2>1. mishaps' \in Seq(MishapKinds)
    BY MishapsTyped DEF ProvisionInv
  <2>2. status' \in [Projects -> ProjectStatuses] /\ byHand' \subseteq Projects
    BY <1>2, <1>9
  <2>3. call' \in [Calls -> CallRow]
    BY <1>3, <1>7
  <2>4. asked' \subseteq Calls
    BY <1>4 DEF Grows, ProvisionInv, Typed
  <2> QED
    BY <1>4, <2>1, <2>2, <2>3, <2>4 DEF ProvisionInv, Typed, TypeOK, HooksSame, hookRows, CallRow
<1>11. HooksOk'
  <2>1. call'[c].at \notin Handling
    BY <1>3
  <2> QED
    BY <1>4, <1>8, <2>1, HooksStay
<1>12. ASSUME NEW p \in Projects PROVE ReadyOk(p)'
  <2>1. ReadyOk(p)
    BY DEF ProvisionInv, ProjectOk
  <2> QED
    BY <1>2, <1>4, <1>9, <2>1 DEF ReadyOk
<1>13. \A p, q \in Projects : p # q /\ row'[p] # None => row'[q] # row'[p]
  BY <1>4 DEF ProvisionInv, ProjectOk
<1>14. \A d \in Calls : call'[d] = call[d] \/ CallOk(d, call[d])'
  BY <1>6, <1>8
<1> QED
  BY <1>4, <1>10, <1>11, <1>12, <1>13, <1>14, StepKeeps

(* The update is made and the caller goes on. *)
LEMMA MoveWritesStep ==
  ASSUME ProvisionInv, NEW c \in Calls, MoveWrites(c) PROVE ProvisionInv' /\ Grows
<1>1. PICK k \in CallRow : k = call[c]
  BY CallFits
<1>2. CallOk(c, k) /\ k.at = "writing" /\ k.project \in Projects /\ k.then \in {"creating", "preparing", "failed"}
  BY <1>1, CallFits DEF CallOk, MoveWrites, At, Working, Moving
<1>3. k.then \in Places \ Handling
  BY <1>2 DEF Places, Ended, Handling
<1>4. k.then \notin Ended => CallOk(c, [k EXCEPT !.at = k.then])
  BY <1>2 DEF CallOk, CallRow, Working, Moving, Handling, Ended
<1>5. /\ At(c, "writing") /\ StatusWritten(c) /\ Goes(c, k.then)
      /\ UNCHANGED database /\ GithubSame /\ HooksSame /\ Fine
  BY <1>1 DEF MoveWrites
<1> QED
  BY <1>1, <1>2, <1>3, <1>4, <1>5, WriteStep

(* The database fails in transitionSystem, before or after it wrote. *)
LEMMA MoveFailsStep ==
  ASSUME ProvisionInv, NEW c \in Calls, MoveFails(c) PROVE ProvisionInv' /\ Grows
<1>1. call[c].at \in Working
  BY DEF MoveFails, Working, Moving
<1>2. Fails \/ Befalls("unmoved")
  BY DEF MoveFails, Fails
<1>3. /\ Thrown(c) \in {"failed", "catching"} /\ Thrown(c) \in Places \ Handling /\ Thrown(c) # "answered"
      /\ Thrown(c) \notin Ended => Thrown(c) = "catching"
  BY DEF Thrown, Failing, Places, Ended, Handling
<1>4. Thrown(c) \notin Ended => CallOk(c, [call[c] EXCEPT !.at = Thrown(c)])
  BY <1>1, <1>3, FailureGoes
<1>5. Goes(c, Thrown(c)) /\ UNCHANGED database /\ GithubSame /\ HooksSame
  BY DEF MoveFails
<1>6. CASE StatusSame
  <2>1. ProjectsSame
    BY <1>5, <1>6 DEF ProjectsSame
  <2> QED
    BY <1>2, <1>3, <1>4, <1>5, <2>1, GoesStep
<1>7. CASE At(c, "writing") /\ StatusWritten(c)
  BY <1>2, <1>3, <1>4, <1>5, <1>7, WriteStep
<1> QED
  BY <1>6, <1>7 DEF MoveFails

(* create sets out for a locked project that has no row yet. *)
LEMMA CreateAsksStep ==
  ASSUME ProvisionInv, NEW c \in Calls, CreateAsks(c) PROVE ProvisionInv' /\ Grows
<1>1. PICK p \in Projects, n \in Names :
        call' = [call EXCEPT ![c] = [NoCall EXCEPT !.at = "moving", !.project = p, !.name = n,
                                       !.to = "REPO_BOOTSTRAPPING", !.then = "creating"]]
  BY DEF CreateAsks
<1> DEFINE next == [NoCall EXCEPT !.at = "moving", !.project = p, !.name = n,
                                  !.to = "REPO_BOOTSTRAPPING", !.then = "creating"]
<1>2. next \in CallRow
  BY FirstCall DEF CallRow, Places, ProjectStatuses, allowedProjectTransitions
<1>3. CallOk(c, next) /\ next.at = "moving"
  BY FirstCall DEF CallOk, CallRow, Places, ProjectStatuses, allowedProjectTransitions, Working, Moving, Handling
<1>4. ProjectsSame /\ GithubSame /\ HooksSame /\ Fine
  BY DEF CreateAsks
<1> HIDE DEF next
<1> QED
  BY <1>1, <1>2, <1>3, <1>4, CallStep DEF next, Handling

(* The files to write are all the bootstrap files.                         *)
LEMMA FilesAreAll == \A f \in FilePaths : \E i \in DOMAIN Files : Files[i] = f
  BY DEF FilePaths

(* GitHub makes the repository: the remotes grow by a name that was free. *)
LEMMA createRepositoryStep ==
  ASSUME ProvisionInv, NEW c \in Calls, createRepository(c) PROVE ProvisionInv' /\ Grows
<1>1. PICK k \in CallRow : k = call[c]
  BY CallFits
<1>2. CallOk(c, k) /\ k.at = "creating" /\ k.project \in Projects /\ k.name \in Names
  BY <1>1, CallFits DEF CallOk, createRepository, At, Working, Moving
<1> DEFINE next == [k EXCEPT !.at = "files", !.todo = Files]
<1>3. next \in CallRow /\ next.at = "files" /\ next.todo = Files /\ next.name = k.name /\ next.project = k.project
  BY FilesAssumption DEF CallRow, Places
<1>4. call' = [call EXCEPT ![c] = next]
  BY <1>1 DEF createRepository, ProvisionInv, Typed, TypeOK
<1>5. /\ remotes' = remotes \cup {k.name} /\ UNCHANGED <<adapter, asked, contents, status, byHand, row, origin, tasks>>
      /\ HooksSame /\ Fine
  BY <1>1 DEF createRepository, ProjectsSame, StatusSame, database
<1> HIDE DEF next
<1>6. CallOk(c, next)'
  BY <1>2, <1>3, <1>5, FilesAreAll, FilesAssumption DEF CallOk, Working, Moving, Handling
<1>7. Grows
  BY <1>5 DEF Grows
<1>8. remotes' \subseteq Names /\ contents' \in [Names -> SUBSET FilePaths] /\ tasks' \subseteq Projects
  BY <1>2, <1>5 DEF ProvisionInv, Typed, TypeOK
<1>9. mishaps' \in Seq(MishapKinds)
  BY <1>5, MishapsTyped DEF ProvisionInv
<1> QED
  BY <1>3, <1>4, <1>5, <1>6, <1>7, <1>8, <1>9, RequestStep DEF Handling

(* The request fails, perhaps after GitHub acted on it. *)
LEMMA CreateFailsStep ==
  ASSUME ProvisionInv, NEW c \in Calls, CreateFails(c) PROVE ProvisionInv' /\ Grows
<1>1. PICK k \in CallRow : k = call[c]
  BY CallFits
<1>2. CallOk(c, k) /\ k.at = "creating" /\ k.project \in Projects /\ k.name \in Names
  BY <1>1, CallFits DEF CallOk, CreateFails, At, Working, Moving
<1>3. Failing(c) \in {"catching", "failed"} /\ CallOk(c, [k EXCEPT !.at = "catching"])
  BY <1>1, <1>2, FailureGoes DEF Working
<1>4. Failing(c) \in Places \ Handling
  BY <1>3 DEF Places, Ended, Handling
<1>5. PICK next \in CallRow :
        /\ call' = [call EXCEPT ![c] = next] /\ next.at = Failing(c)
        /\ Failing(c) \notin Ended => next = [k EXCEPT !.at = Failing(c)]
  BY <1>1, <1>4, GoesOver, CallFits DEF CreateFails
<1>6. /\ remotes \subseteq remotes' /\ remotes' \subseteq remotes \cup {k.name}
      /\ UNCHANGED <<adapter, asked, contents, status, byHand, row, origin, tasks>>
      /\ HooksSame /\ (Fine \/ Fails)
  BY <1>1 DEF CreateFails, ProjectsSame, StatusSame, database
<1>7. CallOk(c, next)
  BY <1>3, <1>5 DEF CallOk, Ended, Working, Moving, Handling
<1>8. CallOk(c, next)'
  BY <1>3, <1>5, <1>6, <1>7 DEF CallOk
<1>9. Grows
  BY <1>6 DEF Grows
<1>10. remotes' \subseteq Names /\ contents' \in [Names -> SUBSET FilePaths] /\ tasks' \subseteq Projects
  BY <1>2, <1>6 DEF ProvisionInv, Typed, TypeOK
<1>11. mishaps' \in Seq(MishapKinds)
  BY <1>6, MishapsTyped DEF ProvisionInv
<1> QED
  BY <1>4, <1>5, <1>6, <1>8, <1>9, <1>10, <1>11, RequestStep

(* Taking the first of some files to write leaves the others.              *)
LEMMA FirstTaken ==
  ASSUME NEW S, NEW s \in Seq(S), s # <<>>
  PROVE  /\ Tail(s) \in Seq(S) /\ Head(s) \in S
         /\ \A i \in DOMAIN s : s[i] = Head(s) \/ \E j \in DOMAIN Tail(s) : Tail(s)[j] = s[i]
<1>1. Len(s) \in Nat /\ Len(s) >= 1 /\ DOMAIN s = 1 .. Len(s) /\ Head(s) = s[1]
  BY EmptySeq, LenProperties
<1>2. Tail(s) \in Seq(S) /\ Len(Tail(s)) = Len(s) - 1 /\ \A j \in 1 .. Len(Tail(s)) : Tail(s)[j] = s[j + 1]
  BY HeadTailProperties
<1>3. DOMAIN Tail(s) = 1 .. (Len(s) - 1)
  BY <1>2, LenProperties
<1>4. ASSUME NEW i \in DOMAIN s, s[i] # Head(s)
      PROVE  \E j \in DOMAIN Tail(s) : Tail(s)[j] = s[i]
  <2>1. i - 1 \in DOMAIN Tail(s)
    BY <1>1, <1>3, <1>4
  <2>2. Tail(s)[i - 1] = s[i]
    BY <1>1, <1>2, <1>3, <2>1
  <2> QED
    BY <2>1, <2>2
<1>5. Head(s) \in S
  BY <1>1, ElementOfSeq
<1> QED
  BY <1>2, <1>4, <1>5

(* One more bootstrap file is on GitHub. *)
LEMMA createOrUpdateFileStep ==
  ASSUME ProvisionInv, NEW c \in Calls, createOrUpdateFile(c) PROVE ProvisionInv' /\ Grows
<1>1. PICK k \in CallRow : k = call[c]
  BY CallFits
<1>2. CallOk(c, k) /\ k.at = "files" /\ k.project \in Projects /\ k.name \in Names /\ k.todo # <<>>
      /\ (adapter # "FAKE" => k.name \in remotes)
  BY <1>1, CallFits DEF CallOk, createOrUpdateFile, At, Working, Moving
<1>3. k.todo \in Seq(FilePaths)
  BY DEF CallRow
<1>4. /\ Tail(k.todo) \in Seq(FilePaths) /\ Head(k.todo) \in FilePaths
      /\ \A i \in DOMAIN k.todo : k.todo[i] = Head(k.todo) \/ \E j \in DOMAIN Tail(k.todo) : Tail(k.todo)[j] = k.todo[i]
  BY <1>2, <1>3, FirstTaken
<1>5. PICK t \in Seq(FilePaths) : t = Tail(k.todo)
  BY <1>4
<1>6. PICK h \in FilePaths : h = Head(k.todo)
  BY <1>4
<1>7. PICK at \in {"files", "inserting"} : at = IF t = <<>> THEN "inserting" ELSE "files"
  OBVIOUS
<1> DEFINE next == [k EXCEPT !.todo = t, !.at = at]
<1>8. next \in CallRow /\ next.at = at /\ next.todo = t /\ next.name = k.name /\ next.project = k.project
  BY DEF CallRow, Places
<1>9. call' = [call EXCEPT ![c] = next]
  BY <1>1, <1>2, <1>5, <1>7 DEF createOrUpdateFile, ProvisionInv, Typed, TypeOK
<1>10. /\ UNCHANGED <<adapter, asked, remotes, status, byHand, row, origin, tasks>>
       /\ HooksSame /\ Fine
       /\ adapter = "FAKE" => contents' = contents
       /\ adapter # "FAKE" => contents' = [contents EXCEPT ![k.name] = contents[k.name] \cup {h}]
  BY <1>1, <1>6 DEF createOrUpdateFile, ProjectsSame, StatusSame, database
<1>11. contents \in [Names -> SUBSET FilePaths]
  BY DEF ProvisionInv, Typed, TypeOK
<1>12. contents' \in [Names -> SUBSET FilePaths] /\ \A n \in Names : contents[n] \subseteq contents'[n]
  BY <1>2, <1>6, <1>10, <1>11
<1> HIDE DEF next
<1>13. ASSUME adapter # "FAKE"
       PROVE  \A f \in FilePaths : f \in contents'[k.name] \/ \E i \in DOMAIN t : t[i] = f
  <2>1. contents'[k.name] = contents[k.name] \cup {h}
    BY <1>2, <1>10, <1>11, <1>13
  <2>2. \A f \in FilePaths : f \in contents[k.name] \/ \E i \in DOMAIN k.todo : k.todo[i] = f
    BY <1>2, <1>13 DEF CallOk
  <2> QED
    BY <1>4, <1>5, <1>6, <2>1, <2>2
<1>14. t = <<>> /\ adapter # "FAKE" => contents'[k.name] = FilePaths
  <2>1. t = <<>> => DOMAIN t = {}
    OBVIOUS
  <2>2. contents'[k.name] \subseteq FilePaths
    BY <1>2, <1>12
  <2> QED
    BY <1>13, <2>1, <2>2
<1>15. CallOk(c, next)'
  BY <1>2, <1>7, <1>8, <1>10, <1>13, <1>14 DEF CallOk, Working, Moving, Handling
<1>16. Grows
  BY <1>10, <1>12 DEF Grows
<1>17. remotes' \subseteq Names /\ tasks' \subseteq Projects
  BY <1>10 DEF ProvisionInv, Typed, TypeOK
<1>18. mishaps' \in Seq(MishapKinds)
  BY <1>10, MishapsTyped DEF ProvisionInv
<1> QED
  BY <1>7, <1>8, <1>9, <1>10, <1>12, <1>15, <1>16, <1>17, <1>18, RequestStep DEF Handling

(* The request fails, perhaps after the file was written. *)
LEMMA FileFailsStep ==
  ASSUME ProvisionInv, NEW c \in Calls, FileFails(c) PROVE ProvisionInv' /\ Grows
<1>1. PICK k \in CallRow : k = call[c]
  BY CallFits
<1>2. CallOk(c, k) /\ k.at = "files" /\ k.project \in Projects /\ k.name \in Names /\ k.todo # <<>>
  BY <1>1, CallFits DEF CallOk, FileFails, At, Working, Moving
<1>3. Failing(c) \in {"catching", "failed"} /\ CallOk(c, [k EXCEPT !.at = "catching"])
  BY <1>1, <1>2, FailureGoes DEF Working
<1>4. Failing(c) \in Places \ Handling /\ Failing(c) # "answered"
  BY <1>3 DEF Places, Ended, Handling
<1>5. PICK next \in CallRow :
        /\ call' = [call EXCEPT ![c] = next] /\ next.at = Failing(c)
        /\ Failing(c) \notin Ended => next = [k EXCEPT !.at = Failing(c)]
  BY <1>1, <1>4, GoesOver, CallFits DEF FileFails, AfterFileFailure
<1>6. k.todo \in Seq(FilePaths)
  BY DEF CallRow
<1>7. PICK h \in FilePaths : h = Head(k.todo)
  BY <1>2, <1>6, FirstTaken
<1>8. /\ UNCHANGED <<adapter, asked, remotes, status, byHand, row, origin, tasks>>
      /\ HooksSame /\ Fails
      /\ contents' \in {contents, [contents EXCEPT ![k.name] = contents[k.name] \cup {h}]}
  BY <1>1, <1>7 DEF FileFails, ProjectsSame, StatusSame, database
<1>9. contents \in [Names -> SUBSET FilePaths]
  BY DEF ProvisionInv, Typed, TypeOK
<1>10. contents' \in [Names -> SUBSET FilePaths] /\ \A n \in Names : contents[n] \subseteq contents'[n]
  BY <1>2, <1>8, <1>9
<1>11. CallOk(c, next)'
  <2>1. CASE Failing(c) = "failed"
    BY <1>5, <2>1 DEF CallOk, Working, Moving, Handling
  <2>2. CASE Failing(c) = "catching"
    <3>1. next = [k EXCEPT !.at = "catching"]
      BY <1>5, <2>2 DEF Ended
    <3> QED
      BY <1>2, <3>1 DEF CallOk, CallRow, Working, Moving, Handling
  <2> QED
    BY <1>3, <2>1, <2>2
<1>12. Grows
  BY <1>8, <1>10 DEF Grows
<1>13. remotes' \subseteq Names /\ tasks' \subseteq Projects
  BY <1>8 DEF ProvisionInv, Typed, TypeOK
<1>14. mishaps' \in Seq(MishapKinds)
  BY <1>8, MishapsTyped DEF ProvisionInv
<1> QED
  BY <1>4, <1>5, <1>8, <1>10, <1>11, <1>12, <1>13, <1>14, RequestStep

(* connect reads a repository that exists already. *)
LEMMA ConnectAsksStep ==
  ASSUME ProvisionInv, NEW c \in Connects, ConnectAsks(c) PROVE ProvisionInv' /\ Grows
<1>1. PICK p \in Projects, n \in remotes :
        call' = [call EXCEPT ![c] = [NoCall EXCEPT !.at = "inserting", !.project = p, !.name = n]]
  BY DEF ConnectAsks
<1>2. n \in Names
  BY DEF ProvisionInv, Typed, TypeOK
<1> DEFINE next == [NoCall EXCEPT !.at = "inserting", !.project = p, !.name = n]
<1>3. next \in CallRow /\ next.at = "inserting" /\ next.name = n /\ next.project = p
  BY <1>2, FirstCall DEF CallRow, Places
<1> HIDE DEF next
<1>4. c \notin Creates
  BY DisjointCalls
<1>5. CallOk(c, next)
  BY <1>2, <1>3, <1>4 DEF CallOk, Working, Moving, Handling
<1>6. ProjectsSame /\ GithubSame /\ HooksSame /\ Fine
  BY DEF ConnectAsks
<1>7. c \in Calls
  BY DEF Calls
<1> QED
  BY <1>1, <1>3, <1>5, <1>6, <1>7, CallStep DEF next, Handling

(* The row is stored; both unique keys were free.  What the request does   *)
(* next, or takes it for, is its own.                                      *)
LEMMA RowStoredStep ==
  ASSUME ProvisionInv, NEW c \in Calls, At(c, "inserting"), RowStored(c),
         StatusSame, UNCHANGED tasks, GithubSame, HooksSame, Fine \/ Fails,
         NEW next \in CallRow, call' = [call EXCEPT ![c] = next],
         next.project = call[c].project, next.to = "REPO_READY", next.then = "preparing",
         next.at \in {"moving", "catching", "failed"}
  PROVE  ProvisionInv' /\ Grows
<1>1. PICK k \in CallRow : k = call[c]
  BY CallFits
<1>2. /\ CallOk(c, k) /\ k.at = "inserting" /\ k.project \in Projects /\ k.name \in Names
      /\ adapter # "FAKE" => k.name \in remotes
      /\ c \in Creates /\ adapter # "FAKE" => contents[k.name] = FilePaths
  BY <1>1, CallFits DEF CallOk, At, Working, Moving
<1>3. k.name # None
  BY <1>2, NoneAssumption
<1>4. row[k.project] = None /\ \A p \in Projects : row[p] # k.name
  BY <1>1 DEF RowStored, RowFits
<1>6. "REPO_READY" \in ProjectStatuses
  BY DEF ProjectStatuses, allowedProjectTransitions
<1>8. call \in [Calls -> CallRow]
  BY DEF ProvisionInv, Typed, TypeOK, CallRow
<1>9. call' \in [Calls -> CallRow] /\ call'[c] = next /\ \A d \in Calls : d # c => call'[d] = call[d]
  BY <1>8
<1>10. PICK by \in {"create", "connect"} : by = IF c \in Creates THEN "create" ELSE "connect"
  OBVIOUS
<1>11. /\ row' = [row EXCEPT ![k.project] = k.name] /\ origin' = [origin EXCEPT ![k.project] = by]
       /\ UNCHANGED <<status, byHand, tasks, adapter, asked, remotes, contents>>
  BY <1>1, <1>10 DEF RowStored, StatusSame, GithubSame, github
<1>12. row \in [Projects -> Names \cup {None}] /\ origin \in [Projects -> {None, "create", "connect"}]
  BY DEF ProvisionInv, Typed, TypeOK
<1>13. Typed'
  <2>1. row' \in [Projects -> Names \cup {None}] /\ origin' \in [Projects -> {None, "create", "connect"}]
    BY <1>2, <1>10, <1>11, <1>12
  <2>2. mishaps' \in Seq(MishapKinds)
    BY MishapsTyped DEF ProvisionInv
  <2> QED
    BY <1>9, <1>11, <2>1, <2>2 DEF ProvisionInv, Typed, TypeOK, HooksSame, hookRows, CallRow
<1>14. Grows
  BY <1>2, <1>4, <1>11, <1>12 DEF Grows
<1>15. HooksOk'
  BY <1>9, HooksStay DEF Handling
<1>16. row'[k.project] # None
  BY <1>2, <1>3, <1>11, <1>12
<1>17. CallOk(c, call[c])'
  <2>1. CallOk(c, next)'
    BY <1>1, <1>2, <1>6, <1>16 DEF CallOk, Working, Moving, Handling
  <2> QED
    BY <1>9, <2>1 DEF CallOk
<1>18. \A p, q \in Projects : p # q /\ row'[p] # None => row'[q] # row'[p]
  BY <1>4, <1>11, <1>12 DEF ProvisionInv, ProjectOk
<1>19. \A p \in Projects : (row'[p] = row[p] /\ origin'[p] = origin[p]) \/ ProjectOk(p)'
  <2>1. ProjectOk(k.project)'
    <3>1. row'[k.project] = k.name /\ origin'[k.project] = by
      BY <1>2, <1>11, <1>12
    <3>2. \A q \in Projects \ {k.project} : row'[q] # k.name
      BY <1>2, <1>11, <1>12, <1>18, <1>16, <3>1
    <3>3. /\ adapter' # "FAKE" => k.name \in remotes'
          /\ adapter' # "FAKE" /\ by = "create" => contents'[k.name] = FilePaths
      BY <1>2, <1>10, <1>11
    <3> QED
      BY <1>16, <3>1, <3>2, <3>3 DEF ProjectOk, ReadyOk
  <2> QED
    BY <1>11, <1>12, <2>1
<1>20. \A d \in Calls : call'[d] = call[d] \/ CallOk(d, call[d])'
  BY <1>9, <1>17
<1> QED
  BY <1>11, <1>13, <1>14, <1>15, <1>18, <1>19, <1>20, StepKeeps

(* The row is inserted and the request goes on to make the project ready. *)
LEMMA RowInsertsStep ==
  ASSUME ProvisionInv, NEW c \in Calls, RowInserts(c) PROVE ProvisionInv' /\ Grows
<1>1. PICK k \in CallRow : k = call[c]
  BY CallFits
<1> DEFINE next == [k EXCEPT !.at = "moving", !.to = "REPO_READY", !.then = "preparing"]
<1>2. /\ next \in CallRow /\ next.at = "moving" /\ next.to = "REPO_READY" /\ next.then = "preparing"
      /\ next.project = k.project
  BY DEF CallRow, Places, ProjectStatuses, allowedProjectTransitions
<1>3. call' = [call EXCEPT ![c] = next]
  BY <1>1 DEF RowInserts, Moves, ProvisionInv, Typed, TypeOK
<1> HIDE DEF next
<1>4. /\ At(c, "inserting") /\ RowStored(c) /\ StatusSame /\ UNCHANGED tasks
      /\ GithubSame /\ HooksSame /\ Fine
  BY DEF RowInserts
<1> QED
  BY <1>1, <1>2, <1>3, <1>4, RowStoredStep

(* The insert fails: a unique key is taken, or the database refuses, or it *)
(* stored the row and cannot say so.                                       *)
LEMMA InsertFailsStep ==
  ASSUME ProvisionInv, NEW c \in Calls, InsertFails(c) PROVE ProvisionInv' /\ Grows
<1>1. PICK k \in CallRow : k = call[c]
  BY CallFits
<1>2. At(c, "inserting") /\ k.at = "inserting" /\ k.project \in Projects
  BY <1>1, CallFits DEF CallOk, InsertFails, At, Working
<1>3. PICK at \in {"catching", "failed"} : at = Failing(c)
  BY DEF Failing
<1> DEFINE next == [k EXCEPT !.at = at, !.to = "REPO_READY", !.then = "preparing"]
<1>4. /\ next \in CallRow /\ next.at = at /\ next.project = k.project
      /\ next.to = "REPO_READY" /\ next.then = "preparing"
  <2>1. at \in Places /\ "preparing" \in Places
    BY DEF Places, Ended
  <2>2. "REPO_READY" \in ProjectStatuses
    BY DEF ProjectStatuses, allowedProjectTransitions
  <2> QED
    BY <2>1, <2>2 DEF CallRow
<1>5. call' = [call EXCEPT ![c] = next]
  BY <1>1, <1>3 DEF InsertFails, AfterInsertFailure, ProvisionInv, Typed, TypeOK
<1> HIDE DEF next
<1>6. CallOk(c, next)
  BY <1>2, <1>4 DEF CallOk, Working, Moving, Handling
<1>7. StatusSame /\ UNCHANGED tasks /\ GithubSame /\ HooksSame /\ (Fine \/ Fails)
  BY DEF InsertFails
<1>8. CASE UNCHANGED <<row, origin>>
  <2>1. ProjectsSame
    BY <1>7, <1>8 DEF ProjectsSame, database
  <2> QED
    BY <1>4, <1>5, <1>6, <1>7, <2>1, CallStep DEF Handling
<1>9. CASE RowStored(c)
  BY <1>1, <1>2, <1>4, <1>5, <1>7, <1>9, RowStoredStep
<1> QED
  BY <1>8, <1>9 DEF InsertFails

(* prepareFromLockedPrd looks for the task that is there already. *)
LEMMA PrepareReadsStep ==
  ASSUME ProvisionInv, NEW c \in Calls, PrepareReads(c) PROVE ProvisionInv' /\ Grows
<1>1. PICK k \in CallRow : k = call[c]
  BY CallFits
<1>2. k.at = "preparing" /\ k.project \in Projects /\ CallOk(c, k)
  BY <1>1, CallFits DEF CallOk, PrepareReads, At, Working
<1>3. PICK at \in {"answered", "taskInserting", NotReady(c)} :
        Goes(c, at) /\ (at = "answered" => call[c].project \in tasks)
  <2>1. NotReady(c) # "answered"
    BY DEF NotReady, Failing
  <2> QED
    BY <2>1 DEF PrepareReads
<1>4. Failing(c) \in {"catching", "failed"} /\ CallOk(c, [k EXCEPT !.at = "catching"])
  BY <1>1, <1>2, FailureGoes DEF Working
<1>5. CallOk(c, [k EXCEPT !.at = "taskInserting"])
  BY <1>2 DEF CallOk, CallRow, Working, Moving, Handling
<1>6. at \in {"answered", "taskInserting", "catching", "failed"}
  BY <1>3, <1>4 DEF NotReady
<1>7. at \in Places \ Handling
  BY <1>6 DEF Places, Ended, Handling
<1>8. at \notin Ended => CallOk(c, [call[c] EXCEPT !.at = at])
  BY <1>1, <1>4, <1>5, <1>6 DEF Ended
<1>9. ProjectsSame /\ GithubSame /\ HooksSame /\ Fine
  BY DEF PrepareReads
<1> QED
  BY <1>3, <1>7, <1>8, <1>9, GoesStep

(* The prepared task is inserted, unless its key is taken. *)
LEMMA TaskInsertsStep ==
  ASSUME ProvisionInv, NEW c \in Calls, TaskInserts(c) PROVE ProvisionInv' /\ Grows
<1>1. PICK k \in CallRow : k = call[c]
  BY CallFits
<1>2. k.at = "taskInserting" /\ k.project \in Projects
  BY <1>1, CallFits DEF CallOk, TaskInserts, At, Working
<1>3. PICK at \in {"answered", "catching", "failed"} : Goes(c, at)
  BY DEF TaskInserts, Failing
<1>4. at \in Places \ Handling
  BY DEF Places, Ended, Handling
<1>5. PICK next \in CallRow :
        /\ call' = [call EXCEPT ![c] = next] /\ next.at = at
        /\ at \notin Ended => next = [k EXCEPT !.at = at]
        /\ at = "answered" => next.project = k.project
  BY <1>1, <1>3, <1>4, GoesOver, CallFits
<1>6. /\ tasks' = tasks \cup {k.project}
      /\ UNCHANGED <<adapter, asked, remotes, contents, status, byHand, row, origin>> /\ HooksSame /\ Fine
  BY <1>1 DEF TaskInserts, StatusSame, GithubSame, github
<1>7. at = "catching" => next.project = k.project
  BY <1>5 DEF Ended, CallRow
<1>8. CallOk(c, next)'
  BY <1>2, <1>5, <1>6, <1>7 DEF CallOk, Working, Moving, Handling
<1>9. Grows
  BY <1>6 DEF Grows
<1>10. remotes' \subseteq Names /\ contents' \in [Names -> SUBSET FilePaths] /\ tasks' \subseteq Projects
  BY <1>2, <1>6 DEF ProvisionInv, Typed, TypeOK
<1>11. mishaps' \in Seq(MishapKinds)
  BY <1>6, MishapsTyped DEF ProvisionInv
<1> QED
  BY <1>4, <1>5, <1>6, <1>8, <1>9, <1>10, <1>11, RequestStep

(* The task cannot be prepared, or so it seems. *)
LEMMA PrepareFailsStep ==
  ASSUME ProvisionInv, NEW c \in Calls, PrepareFails(c) PROVE ProvisionInv' /\ Grows
<1>1. PICK k \in CallRow : k = call[c]
  BY CallFits
<1>2. k.at \in {"preparing", "taskInserting"} /\ k.project \in Projects
  BY <1>1, CallFits DEF CallOk, PrepareFails, Working
<1>3. Failing(c) \in {"catching", "failed"} /\ CallOk(c, [k EXCEPT !.at = "catching"])
  BY <1>1, <1>2, FailureGoes DEF Working
<1>4. Failing(c) \in Places \ Handling /\ Failing(c) # "answered"
  BY <1>3 DEF Places, Ended, Handling
<1>5. PICK next \in CallRow :
        /\ call' = [call EXCEPT ![c] = next] /\ next.at = Failing(c)
        /\ Failing(c) \notin Ended => next = [k EXCEPT !.at = Failing(c)]
  BY <1>1, <1>4, GoesOver, CallFits DEF PrepareFails
<1>6. /\ tasks' \in {tasks, tasks \cup {k.project}}
      /\ UNCHANGED <<adapter, asked, remotes, contents, status, byHand, row, origin>> /\ HooksSame /\ Fails
  BY <1>1 DEF PrepareFails, StatusSame, GithubSame, github
<1>7. CallOk(c, next)'
  <2>1. CASE Failing(c) = "failed"
    BY <1>5, <2>1 DEF CallOk, Working, Moving, Handling
  <2>2. CASE Failing(c) = "catching"
    <3>1. next = [k EXCEPT !.at = "catching"]
      BY <1>5, <2>2 DEF Ended
    <3> QED
      BY <1>2, <3>1 DEF CallOk, CallRow, Working, Moving, Handling
  <2> QED
    BY <1>3, <2>1, <2>2
<1>8. Grows
  BY <1>6 DEF Grows
<1>9. remotes' \subseteq Names /\ contents' \in [Names -> SUBSET FilePaths] /\ tasks' \subseteq Projects
  BY <1>2, <1>6 DEF ProvisionInv, Typed, TypeOK
<1>10. mishaps' \in Seq(MishapKinds)
  BY <1>6, MishapsTyped DEF ProvisionInv
<1> QED
  BY <1>4, <1>5, <1>6, <1>7, <1>8, <1>9, <1>10, RequestStep

(* The catch clause sets out to move the project back. *)
LEMMA CatchesStep ==
  ASSUME ProvisionInv, NEW c \in Calls, Catches(c) PROVE ProvisionInv' /\ Grows
<1>1. PICK k \in CallRow : k = call[c]
  BY CallFits
<1>2. k.at = "catching" /\ k.project \in Projects
  BY <1>1, CallFits DEF CallOk, Catches, At, Working
<1> DEFINE next == [k EXCEPT !.at = "moving", !.to = "PRD_LOCKED", !.then = "failed"]
<1>3. /\ next \in CallRow /\ next.at = "moving" /\ next.project = k.project
      /\ next.to = "PRD_LOCKED" /\ next.then = "failed" /\ "PRD_LOCKED" \in ProjectStatuses
  BY DEF CallRow, Places, Ended, ProjectStatuses, allowedProjectTransitions
<1>4. call' = [call EXCEPT ![c] = next]
  BY <1>1 DEF Catches, Reverts, Moves, ProvisionInv, Typed, TypeOK
<1> HIDE DEF next
<1>5. CallOk(c, next)
  BY <1>2, <1>3 DEF CallOk, Working, Moving, Handling
<1>6. ProjectsSame /\ GithubSame /\ HooksSame /\ Fine
  BY DEF Catches
<1> QED
  BY <1>3, <1>4, <1>5, <1>6, CallStep DEF Handling

-----------------------------------------------------------------------------
(* Webhooks.                                                               *)

LEMMA HookChecksStep ==
  ASSUME ProvisionInv, NEW c \in Hooks, HookChecks(c) PROVE ProvisionInv' /\ Grows
<1>1. c \in Calls /\ c \notin Creates \cup Connects
  BY DisjointCalls DEF Calls
<1>2. PICK k \in CallRow : k = call[c]
  BY <1>1, CallFits
<1>3. PICK d \in Deliveries, at \in {"answered", "recording"} :
        call' = [call EXCEPT ![c].delivery = d, ![c].at = at]
  BY DEF HookChecks
<1> DEFINE next == [k EXCEPT !.delivery = d, !.at = at]
<1>4. next \in CallRow /\ next.at = at /\ next.delivery = d
  BY DEF CallRow, Places, Ended
<1>5. call' = [call EXCEPT ![c] = next]
  BY <1>1, <1>2, <1>3 DEF ProvisionInv, Typed, TypeOK
<1> HIDE DEF next
<1>6. CallOk(c, next)
  BY <1>1, <1>4 DEF CallOk, Working, Moving, Handling
<1>7. ProjectsSame /\ GithubSame /\ HooksSame /\ Fine
  BY DEF HookChecks
<1> QED
  BY <1>1, <1>4, <1>5, <1>6, <1>7, CallStep DEF Handling

(* Deliveries stay in order when one that no other request handles is      *)
(* taken on by the request that has it.                                    *)
LEMMA DeliveryMoves ==
  ASSUME ProvisionInv, NEW c \in Calls, NEW k \in CallRow, NEW d \in Deliveries,
         call' = [call EXCEPT ![c] = k], k.at \in Handling => k.delivery = d,
         \A b \in Calls \ {c} : call[b].at \in Handling => call[b].delivery # d,
         \A e \in Deliveries \ {d} : deliveries'[e] = deliveries[e] /\ synced'[e] = synced[e],
         DeliveryOk(d)',
         k.at \in Handling => deliveries'[d] = "RECEIVED",
         k.at = "syncing" => synced'[d] = 0,
         k.at = "processed" => synced'[d] = 1
  PROVE  HooksOk'
<1>1. call \in [Calls -> CallRow]
  BY DEF ProvisionInv, Typed, TypeOK, CallRow
<1>2. call'[c] = k /\ \A b \in Calls \ {c} : call'[b] = call[b]
  BY <1>1
<1>3. \A e \in Deliveries : DeliveryOk(e)'
  BY DEF ProvisionInv, HooksOk, DeliveryOk
<1>4. HandlerOk(c)'
  BY <1>2 DEF HandlerOk, Handling
<1>5. ASSUME NEW b \in Calls \ {c} PROVE HandlerOk(b)'
  <2>1. HandlerOk(b) /\ call'[b] = call[b]
    BY <1>2 DEF ProvisionInv, HooksOk
  <2>2. CASE call[b].at \notin Handling
    BY <2>1, <2>2 DEF HandlerOk, Handling
  <2>3. CASE call[b].at \in Handling
    <3>1. call[b].delivery \in Deliveries \ {d}
      BY <2>3, CallFits DEF CallOk
    <3>2. \A a \in Calls \ {b} : call'[a].at \in Handling => call'[a].delivery # call[b].delivery
      BY <1>2, <2>1, <2>3, <3>1 DEF HandlerOk
    <3> QED
      BY <2>1, <2>3, <3>1, <3>2 DEF HandlerOk, Handling
  <2> QED
    BY <2>2, <2>3
<1> QED
  BY <1>3, <1>4, <1>5 DEF HooksOk

(* A step of a webhook keeps the invariant when it keeps the deliveries in *)
(* order.                                                                  *)
LEMMA HookStep ==
  ASSUME ProvisionInv, ProjectsSame, GithubSame, Fine \/ Fails, NEW c \in Calls, NEW k \in CallRow,
         call' = [call EXCEPT ![c] = k], CallOk(c, k), HooksOk',
         deliveries' \in [Deliveries -> {None, "RECEIVED", "PROCESSED", "FAILED"}],
         synced' \in [Deliveries -> Nat]
  PROVE  ProvisionInv' /\ Grows
<1>1. Grows
  BY DEF Grows, ProjectsSame, StatusSame, database, GithubSame, github
<1>2. UNCHANGED <<status, byHand, row, origin, tasks, remotes, contents, adapter, asked>>
  BY DEF ProjectsSame, StatusSame, database, GithubSame, github
<1>20. mishaps' \in Seq(MishapKinds)
  BY MishapsTyped DEF ProvisionInv
<1>3. call \in [Calls -> CallRow]
  BY DEF ProvisionInv, Typed, TypeOK, CallRow
<1>4. call' \in [Calls -> CallRow] /\ call'[c] = k /\ \A d \in Calls : d # c => call'[d] = call[d]
  BY <1>3
<1>5. Typed'
  BY <1>2, <1>20, <1>4 DEF ProvisionInv, Typed, TypeOK, CallRow
<1>6. CallOk(c, call[c])'
  BY <1>2, <1>4 DEF CallOk
<1>7. \A d \in Calls : call'[d] = call[d] \/ CallOk(d, call[d])'
  BY <1>4, <1>6
<1>8. \A p, q \in Projects : p # q /\ row'[p] # None => row'[q] # row'[p]
  BY <1>2 DEF ProvisionInv, ProjectOk
<1> QED
  BY <1>1, <1>2, <1>5, <1>7, <1>8, StepKeeps

(* The delivery's row is inserted; its unique id lets one request go on. *)
LEMMA HookRecordsStep ==
  ASSUME ProvisionInv, NEW c \in Calls, HookRecords(c) PROVE ProvisionInv' /\ Grows
<1>1. PICK k \in CallRow : k = call[c]
  BY CallFits
<1>2. k.at = "recording" /\ k.delivery \in Deliveries /\ c \in Hooks
  BY <1>1, CallFits DEF CallOk, HookRecords, At, Handling
<1>3. ProjectsSame /\ GithubSame /\ Fine /\ synced' = synced
  BY DEF HookRecords
<1>4. CASE AlreadyRecorded(c)
  <2>1. Goes(c, "failed") /\ HooksSame
    BY <1>3, <1>4 DEF HookRecords, HooksSame, hookRows
  <2>2. "failed" \in Places \ Handling /\ "failed" \in Ended
    BY DEF Places, Ended, Handling
  <2> QED
    BY <1>3, <2>1, <2>2, GoesStep
<1>5. CASE ~AlreadyRecorded(c)
  <2>1. /\ deliveries' = [deliveries EXCEPT ![k.delivery] = "RECEIVED"] /\ Goes(c, "syncing")
        /\ deliveries[k.delivery] = None
    BY <1>1, <1>5 DEF HookRecords, AlreadyRecorded
  <2>2. "syncing" \in Places /\ "syncing" \notin Ended
    BY DEF Places, Ended
  <2>3. PICK next \in CallRow : call' = [call EXCEPT ![c] = next] /\ next = [k EXCEPT !.at = "syncing"]
    BY <1>1, <2>1, <2>2, GoesOver, CallFits
  <2>4. next.at = "syncing" /\ next.delivery = k.delivery
    BY <2>3 DEF CallRow
  <2>5. deliveries \in [Deliveries -> {None, "RECEIVED", "PROCESSED", "FAILED"}] /\ synced \in [Deliveries -> Nat]
    BY DEF ProvisionInv, Typed, TypeOK
  <2>6. CallOk(c, next)
    BY <1>2, <2>4, DisjointCalls DEF CallOk, Working, Moving, Handling
  <2>7. deliveries'[k.delivery] = "RECEIVED" /\ synced'[k.delivery] = 0
    <3>1. DeliveryOk(k.delivery)
      BY <1>2 DEF ProvisionInv, HooksOk
    <3> QED
      BY <1>2, <1>3, <2>1, <2>5, <3>1 DEF DeliveryOk
  <2>8. \A b \in Calls \ {c} : call[b].at \in Handling => call[b].delivery # k.delivery
    BY <2>1 DEF ProvisionInv, HooksOk, HandlerOk, None
  <2>9. DeliveryOk(k.delivery)'
    BY <2>7 DEF DeliveryOk, None
  <2>10. HooksOk'
    <3>1. \A e \in Deliveries \ {k.delivery} : deliveries'[e] = deliveries[e] /\ synced'[e] = synced[e]
      BY <1>3, <2>1, <2>5
    <3> QED
      BY <1>2, <2>3, <2>4, <2>7, <2>8, <2>9, <3>1, DeliveryMoves
  <2> QED
    BY <1>2, <1>3, <2>1, <2>3, <2>5, <2>6, <2>10, HookStep
<1> QED
  BY <1>4, <1>5

(* The one request that recorded the delivery applies it. *)
LEMMA HookSyncsStep ==
  ASSUME ProvisionInv, NEW c \in Calls, HookSyncs(c) PROVE ProvisionInv' /\ Grows
<1>1. PICK k \in CallRow : k = call[c]
  BY CallFits
<1>2. k.at = "syncing" /\ k.delivery \in Deliveries /\ c \in Hooks
  BY <1>1, CallFits DEF CallOk, HookSyncs, At, Handling
<1>3. /\ ProjectsSame /\ GithubSame /\ Fine /\ deliveries' = deliveries /\ Goes(c, "processed")
      /\ synced' = [synced EXCEPT ![k.delivery] = synced[k.delivery] + 1]
  BY <1>1 DEF HookSyncs
<1>4. "processed" \in Places /\ "processed" \notin Ended
  BY DEF Places, Ended
<1>5. PICK next \in CallRow : call' = [call EXCEPT ![c] = next] /\ next = [k EXCEPT !.at = "processed"]
  BY <1>1, <1>3, <1>4, GoesOver, CallFits
<1>6. next.at = "processed" /\ next.delivery = k.delivery
  BY <1>5 DEF CallRow
<1>7. deliveries \in [Deliveries -> {None, "RECEIVED", "PROCESSED", "FAILED"}] /\ synced \in [Deliveries -> Nat]
  BY DEF ProvisionInv, Typed, TypeOK
<1>8. HandlerOk(c)
  BY DEF ProvisionInv, HooksOk
<1>9. deliveries[k.delivery] = "RECEIVED" /\ synced[k.delivery] = 0
  BY <1>1, <1>2, <1>8 DEF HandlerOk, Handling
<1>10. synced'[k.delivery] = 1 /\ synced' \in [Deliveries -> Nat]
  BY <1>2, <1>3, <1>7, <1>9
<1>11. CallOk(c, next)
  BY <1>2, <1>6, DisjointCalls DEF CallOk, Working, Moving, Handling
<1>12. \A b \in Calls \ {c} : call[b].at \in Handling => call[b].delivery # k.delivery
  BY <1>1, <1>2, <1>8 DEF HandlerOk, Handling
<1>13. DeliveryOk(k.delivery)'
  BY <1>3, <1>9, <1>10 DEF DeliveryOk, None
<1>14. \A e \in Deliveries \ {k.delivery} : deliveries'[e] = deliveries[e] /\ synced'[e] = synced[e]
  BY <1>3, <1>7
<1>15. HooksOk'
  BY <1>2, <1>3, <1>5, <1>6, <1>9, <1>10, <1>12, <1>13, <1>14, DeliveryMoves
<1> QED
  BY <1>3, <1>5, <1>7, <1>10, <1>11, <1>15, HookStep

(* The processing fails, before or after it applied the delivery. *)
LEMMA HookThrowsStep ==
  ASSUME ProvisionInv, NEW c \in Calls, HookThrows(c) PROVE ProvisionInv' /\ Grows
<1>1. PICK k \in CallRow : k = call[c]
  BY CallFits
<1>2. k.at \in Handling /\ k.delivery \in Deliveries /\ c \in Hooks
  BY <1>1, CallFits DEF CallOk, HookThrows, At, Handling
<1>3. ProjectsSame /\ GithubSame /\ HooksSame /\ (Fine \/ Fails) /\ Goes(c, "rejecting")
  BY DEF HookThrows
<1>4. "rejecting" \in Places /\ "rejecting" \notin Ended
  BY DEF Places, Ended
<1>5. PICK next \in CallRow : call' = [call EXCEPT ![c] = next] /\ next = [k EXCEPT !.at = "rejecting"]
  BY <1>1, <1>3, <1>4, GoesOver, CallFits
<1>6. next.at = "rejecting" /\ next.delivery = k.delivery
  BY <1>5 DEF CallRow
<1>7. CallOk(c, next)
  BY <1>2, <1>6, DisjointCalls DEF CallOk, Working, Moving, Handling
<1> QED
  BY <1>1, <1>2, <1>3, <1>5, <1>6, <1>7, CallStep

(* The delivery's row is marked processed or failed. *)
LEMMA HookSettlesStep ==
  ASSUME ProvisionInv, NEW c \in Calls, HookSettles(c) PROVE ProvisionInv' /\ Grows
<1>1. PICK k \in CallRow : k = call[c]
  BY CallFits
<1>2. k.at \in {"processed", "rejecting"} /\ k.delivery \in Deliveries /\ c \in Hooks
  BY <1>1, CallFits DEF CallOk, HookSettles, Handling
<1>3. PICK outcome \in {"PROCESSED", "FAILED"} : outcome = HookOutcome(c)
  BY DEF HookOutcome
<1>4. outcome = "PROCESSED" => k.at = "processed"
  BY <1>1, <1>3 DEF HookOutcome, At
<1>5. PICK at \in {"answered", "failed"} : Goes(c, at)
  BY DEF HookSettles
<1>6. /\ ProjectsSame /\ GithubSame /\ Fine /\ synced' = synced
      /\ deliveries' = [deliveries EXCEPT ![k.delivery] = outcome]
  BY <1>1, <1>3 DEF HookSettles
<1>7. at \in Places
  BY DEF Places, Ended
<1>8. PICK next \in CallRow : call' = [call EXCEPT ![c] = next] /\ next.at = at
  BY <1>5, <1>7, GoesOver, CallFits
<1>9. deliveries \in [Deliveries -> {None, "RECEIVED", "PROCESSED", "FAILED"}] /\ synced \in [Deliveries -> Nat]
  BY DEF ProvisionInv, Typed, TypeOK
<1>10. HandlerOk(c) /\ DeliveryOk(k.delivery)
  BY <1>2 DEF ProvisionInv, HooksOk
<1>11. synced[k.delivery] \in {0, 1} /\ (k.at = "processed" => synced[k.delivery] = 1)
  BY <1>1, <1>10 DEF HandlerOk, DeliveryOk
<1>12. CallOk(c, next)
  BY <1>2, <1>8, DisjointCalls DEF CallOk, Working, Moving, Handling
<1>13. \A b \in Calls \ {c} : call[b].at \in Handling => call[b].delivery # k.delivery
  BY <1>1, <1>2, <1>10 DEF HandlerOk, Handling
<1>14. deliveries'[k.delivery] = outcome /\ outcome # None
  BY <1>2, <1>6, <1>9 DEF None
<1>15. DeliveryOk(k.delivery)'
  BY <1>4, <1>6, <1>11, <1>14 DEF DeliveryOk
<1>16. \A e \in Deliveries \ {k.delivery} : deliveries'[e] = deliveries[e] /\ synced'[e] = synced[e]
  BY <1>6, <1>9
<1>17. next.at \notin Handling
  BY <1>8 DEF Handling
<1>18. HooksOk'
  BY <1>2, <1>8, <1>13, <1>15, <1>16, <1>17, DeliveryMoves DEF Handling
<1>19. deliveries' \in [Deliveries -> {None, "RECEIVED", "PROCESSED", "FAILED"}] /\ synced' \in [Deliveries -> Nat]
  BY <1>6, <1>9
<1> QED
  BY <1>6, <1>8, <1>12, <1>18, <1>19, HookStep

(* The row of the delivery cannot be written, or so it seems. *)
LEMMA HookFailsStep ==
  ASSUME ProvisionInv, NEW c \in Calls, HookFails(c) PROVE ProvisionInv' /\ Grows
<1>1. PICK k \in CallRow : k = call[c]
  BY CallFits
<1>2. k.at \in {"recording", "rejecting"} /\ k.delivery \in Deliveries /\ c \in Hooks
  BY <1>1, CallFits DEF CallOk, HookFails, At, Handling
<1>3. /\ ProjectsSame /\ GithubSame /\ Fails /\ synced' = synced /\ Goes(c, "failed")
      /\ k.at = "recording" => deliveries[k.delivery] = None
  BY <1>1 DEF HookFails, AlreadyRecorded, At
<1>4. PICK outcome \in {"RECEIVED", "FAILED"} :
        deliveries' \in {deliveries, [deliveries EXCEPT ![k.delivery] = outcome]}
  BY <1>1 DEF HookFails
<1>5. "failed" \in Places
  BY DEF Places, Ended
<1>6. PICK next \in CallRow : call' = [call EXCEPT ![c] = next] /\ next.at = "failed"
  BY <1>3, <1>5, GoesOver, CallFits
<1>7. deliveries \in [Deliveries -> {None, "RECEIVED", "PROCESSED", "FAILED"}] /\ synced \in [Deliveries -> Nat]
  BY DEF ProvisionInv, Typed, TypeOK
<1>8. /\ deliveries' \in [Deliveries -> {None, "RECEIVED", "PROCESSED", "FAILED"}] /\ synced' \in [Deliveries -> Nat]
      /\ \A e \in Deliveries \ {k.delivery} : deliveries'[e] = deliveries[e] /\ synced'[e] = synced[e]
      /\ deliveries'[k.delivery] \in {deliveries[k.delivery], outcome}
  BY <1>2, <1>3, <1>4, <1>7
<1>9. HandlerOk(c) /\ DeliveryOk(k.delivery)
  BY <1>2 DEF ProvisionInv, HooksOk
<1>10. CallOk(c, next)
  BY <1>2, <1>6, DisjointCalls DEF CallOk, Working, Moving, Handling
<1>11. \A b \in Calls \ {c} : call[b].at \in Handling => call[b].delivery # k.delivery
  <2>1. CASE k.at = "recording"
    BY <1>3, <2>1 DEF ProvisionInv, HooksOk, HandlerOk, None
  <2>2. CASE k.at = "rejecting"
    BY <1>1, <1>9, <2>2 DEF HandlerOk, Handling
  <2> QED
    BY <1>2, <2>1, <2>2
<1>12. DeliveryOk(k.delivery)'
  BY <1>3, <1>8, <1>9 DEF DeliveryOk, None
<1>13. next.at \notin Handling
  BY <1>6 DEF Handling
<1>14. HooksOk'
  BY <1>2, <1>6, <1>8, <1>11, <1>12, <1>13, DeliveryMoves DEF Handling
<1> QED
  BY <1>3, <1>6, <1>8, <1>10, <1>14, HookStep

-----------------------------------------------------------------------------
(* The process dies, a person moves on.                                    *)

LEMMA CrashesStep == ASSUME ProvisionInv, Crashes PROVE ProvisionInv' /\ Grows
<1> DEFINE dead == [NoCall EXCEPT !.at = "crashed"]
<1>1. dead \in CallRow /\ dead.at = "crashed"
  BY FirstCall DEF CallRow, Places, Ended
<1>2. \A c \in Calls : call'[c] \in {call[c], dead}
  BY DEF Crashes
<1>3. call' \in [Calls -> CallRow]
  <2>1. \A c \in Calls : (IF c \in InFlight THEN dead ELSE call[c]) \in CallRow
    BY <1>1, CallFits
  <2> HIDE DEF dead
  <2> QED
    BY <2>1 DEF Crashes, dead
<1> HIDE DEF dead
<1>4. /\ UNCHANGED <<status, byHand, row, origin, tasks, contents, adapter, asked>> /\ HooksSame /\ Befalls("crash")
      /\ remotes' \in {remotes, Existing} /\ (adapter # "FAKE" => remotes' = remotes)
  BY DEF Crashes, ProjectsSame, StatusSame, database
<1>5. Grows
  BY <1>4 DEF Grows
<1>6. Typed'
  <2>1. mishaps' \in Seq(MishapKinds)
    BY <1>4, MishapsTyped DEF ProvisionInv
  <2> QED
    BY <1>3, <1>4, <2>1, ExistingAssumption DEF ProvisionInv, Typed, TypeOK, HooksSame, hookRows, CallRow
<1>7. HooksOk'
  BY <1>1, <1>2, <1>4, HooksStay DEF Handling
<1>8. \A c \in Calls : call'[c] = call[c] \/ CallOk(c, call[c])'
  BY <1>1, <1>2 DEF CallOk, Working, Moving, Handling
<1>9. \A p, q \in Projects : p # q /\ row'[p] # None => row'[q] # row'[p]
  BY <1>4 DEF ProvisionInv, ProjectOk
<1> QED
  BY <1>4, <1>5, <1>6, <1>7, <1>8, <1>9, StepKeeps

(* A person moves the project, leaving rows and requests alone. *)
LEMMA PersonMovesStep == ASSUME ProvisionInv, PersonMoves PROVE ProvisionInv' /\ Grows
<1>1. PICK p \in Projects, to \in PersonTargets :
        status' = [status EXCEPT ![p] = to] /\ byHand' = byHand \cup {p}
  BY DEF PersonMoves
<1>2. UNCHANGED <<row, origin, tasks, remotes, contents, adapter, asked, call>> /\ HooksSame /\ Befalls("hand")
  BY DEF PersonMoves, database, GithubSame, github
<1>3. Grows
  BY <1>2 DEF Grows
<1>4. to \in ProjectStatuses
  BY PersonAssumption
<1>5. status \in [Projects -> ProjectStatuses] /\ byHand \subseteq Projects
  BY DEF ProvisionInv, Typed, TypeOK
<1>6. Typed'
  <2>1. mishaps' \in Seq(MishapKinds)
    BY <1>2, MishapsTyped DEF ProvisionInv
  <2>2. status' \in [Projects -> ProjectStatuses] /\ byHand' \subseteq Projects
    BY <1>1, <1>4, <1>5
  <2> QED
    BY <1>2, <2>1, <2>2 DEF ProvisionInv, Typed, TypeOK, HooksSame, hookRows
<1>7. HooksOk'
  BY <1>2, HooksStay
<1>8. ASSUME NEW q \in Projects PROVE ReadyOk(q)'
  <2>1. ReadyOk(q)
    BY DEF ProvisionInv, ProjectOk
  <2> QED
    BY <1>1, <1>2, <1>5, <2>1 DEF ReadyOk
<1>9. \A q, r \in Projects : q # r /\ row'[q] # None => row'[r] # row'[q]
  BY <1>2 DEF ProvisionInv, ProjectOk
<1> QED
  BY <1>2, <1>3, <1>6, <1>7, <1>8, <1>9, StepKeeps

-----------------------------------------------------------------------------
(* What follows.                                                           *)

(* Every step keeps the invariant and takes nothing back.                  *)
LEMMA NextKeeps == ASSUME ProvisionInv, [Next]_vars PROVE ProvisionInv' /\ Grows
<1>1. CASE Crashes
  BY <1>1, CrashesStep
<1>2. CASE PersonMoves
  BY <1>2, PersonMovesStep
<1>3. ASSUME NEW c \in asked, Begins(c) PROVE ProvisionInv' /\ Grows
  <2>1. c \in Calls
    BY DEF ProvisionInv, Typed
  <2> QED
    BY <1>3, <2>1, CreateAsksStep, ConnectAsksStep, HookChecksStep DEF Begins
<1>4. ASSUME NEW c \in asked, Proceeds(c) PROVE ProvisionInv' /\ Grows
  <2>1. c \in Calls
    BY DEF ProvisionInv, Typed
  <2>2. CASE MoveReads(c) \/ MoveWrites(c) \/ MoveFails(c) \/ createRepository(c) \/ CreateFails(c)
    BY <2>1, <2>2, MoveReadsStep, MoveWritesStep, MoveFailsStep, createRepositoryStep, CreateFailsStep
  <2>3. CASE createOrUpdateFile(c) \/ FileFails(c) \/ RowInserts(c) \/ InsertFails(c)
    BY <2>1, <2>3, createOrUpdateFileStep, FileFailsStep, RowInsertsStep, InsertFailsStep
  <2>4. CASE PrepareReads(c) \/ TaskInserts(c) \/ PrepareFails(c) \/ Catches(c)
    BY <2>1, <2>4, PrepareReadsStep, TaskInsertsStep, PrepareFailsStep, CatchesStep
  <2>5. CASE HookRecords(c) \/ HookSyncs(c) \/ HookThrows(c) \/ HookSettles(c) \/ HookFails(c)
    BY <2>1, <2>5, HookRecordsStep, HookSyncsStep, HookThrowsStep, HookSettlesStep, HookFailsStep
  <2> QED
    BY <1>4, <2>2, <2>3, <2>4, <2>5 DEF Proceeds
<1>5. CASE UNCHANGED vars
  <2>1. UNCHANGED <<status, byHand, row, origin, tasks, remotes, contents, adapter, asked, call, deliveries, synced, mishaps>>
    BY <1>5 DEF vars, github, database, hookRows
  <2>2. Grows
    BY <2>1 DEF Grows
  <2>3. Typed' /\ HooksSame
    BY <2>1 DEF ProvisionInv, Typed, TypeOK, HooksSame, hookRows
  <2>4. \A p, q \in Projects : p # q /\ row'[p] # None => row'[q] # row'[p]
    BY <2>1 DEF ProvisionInv, ProjectOk
  <2>5. HooksOk'
    BY <2>1, <2>3, HooksStay
  <2> QED
    BY <2>1, <2>2, <2>3, <2>4, <2>5, StepKeeps
<1> QED
  BY <1>1, <1>2, <1>3, <1>4, <1>5 DEF Next

(* The inductive invariant: what each request knows by where it is, what   *)
(* a stored repository stands for, and who handles a delivery.             *)
THEOREM ProvisionInvHolds == Spec => []ProvisionInv
<1>1. Init => ProvisionInv
  BY InitProvisionInv
<1>2. ProvisionInv /\ [Next]_vars => ProvisionInv'
  BY NextKeeps
<1> QED
  BY <1>1, <1>2, PTL DEF Spec

(* Every variable keeps its type.                                          *)
THEOREM ProvisioningTypeCorrect == Spec => []TypeOK
<1>1. ProvisionInv => TypeOK
  BY DEF ProvisionInv, Typed
<1> QED
  BY <1>1, ProvisionInvHolds, PTL

(* However creations and connections race, fail or crash: a project they   *)
(* made ready has a stored repository, no other project has it, and on     *)
(* GitHub it exists.                                                       *)
THEOREM ReadyProjectsHaveTheirRepository == Spec => []ReadyHasRepository
<1>1. ProvisionInv => ReadyHasRepository
  BY DEF ProvisionInv, ProjectOk, ReadyOk, ReadyHasRepository
<1> QED
  BY <1>1, ProvisionInvHolds, PTL

(* A repository the Factory created is stored with all bootstrap files.    *)
THEOREM StoredIsBootstrapped == Spec => []CreatedIsBootstrapped
<1>1. ProvisionInv => CreatedIsBootstrapped
  BY DEF ProvisionInv, ProjectOk, CreatedIsBootstrapped
<1> QED
  BY <1>1, ProvisionInvHolds, PTL

(* Whoever is told that a repository was set up finds its task.            *)
THEOREM AnswersComeWithTask == Spec => []AnsweredHasTask
<1>1. ProvisionInv => AnsweredHasTask
  BY DEF ProvisionInv, CallOk, AnsweredHasTask, At, Calls
<1> QED
  BY <1>1, ProvisionInvHolds, PTL

(* A delivery is applied at most once, however often GitHub sends it.      *)
THEOREM DeliveriesApplyOnce == Spec => []DeliveryAppliedOnce
<1>1. ProvisionInv => DeliveryAppliedOnce
  BY DEF ProvisionInv, HooksOk, DeliveryOk, DeliveryAppliedOnce
<1> QED
  BY <1>1, ProvisionInvHolds, PTL
=============================================================================
