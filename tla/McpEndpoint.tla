---------------------------- MODULE McpEndpoint ----------------------------
(***************************************************************************)
(* The MCP endpoint, McpService.handle with its tools, and the settings    *)
(* requests that make and revoke the credentials it accepts, which come    *)
(* through the sessions of Accounts.  An MCP request reads its credential, *)
(* counts the audit rows of the last minute, runs, and only then writes    *)
(* its own row; the requests of one credential overlap.                    *)
(***************************************************************************)
EXTENDS Accounts, FiniteSets

CONSTANTS
  Credentials,   \* by name, which is unique
  RateLimit,     \* McpCredential.rateLimit
  Window,        \* the minute of enforceRateLimit, in ticks
  CredentialTtl, \* ticks to expiresAt, when it is given
  Tools,         \* the tools that callers name
  WriteModes,    \* MCP_WRITE_ENABLED, its possible values
  MaxFaults      \* bound on the audit rows that are not written

\* mcpTools: annotations.readOnlyHint by name.
readOnlyTools == {"get_prd_schema", "list_projects", "get_project", "get_project_status",
                  "list_artifacts", "read_artifact"}
mcpToolNames == readOnlyTools \cup
                {"create_project", "upload_prd", "create_prd_version", "record_ceo_constraint",
                 "record_decision", "request_prd_review"}
isMcpWriteTool(tool) == tool \notin readOnlyTools
AllTools == "factory.*"

ASSUME McpBounds ==
  /\ RateLimit \in 1 .. 1000 /\ Window \in Nat /\ MaxFaults \in Nat
  /\ CredentialTtl \in Nat \ {0} /\ Tools \subseteq mcpToolNames /\ WriteModes \subseteq BOOLEAN
  /\ IsFiniteSet(Clients)

VARIABLES
  writeEnabled,
  credentials,  \* the McpCredential rows
  subject,      \* the credential a settings request is about
  audit,        \* when the MCP_REQUEST rows of each credential were made
  call,         \* where the MCP request of each client is
  faults

settingVars == <<credentials, subject>>
callVars == <<audit, call, faults>>
vars == <<accountVars, writeEnabled, settingVars, callVars>>

NoCredential == [made |-> FALSE, revoked |-> FALSE, expiresAt |-> 0, scopes |-> {}]
Credential(scopes, expiresAt) ==
  [made |-> TRUE, revoked |-> FALSE, expiresAt |-> expiresAt, scopes |-> scopes]
ScopesUnchecked == SUBSET (Tools \cup {AllTools, "shell"}) \ {{}}
Scopes == SUBSET (Tools \cup {AllTools}) \ {{}}
Callers == {k \in Clients : Mcp \in asks[k]}
NoCall(n) == [at |-> "idle", sent |-> 0, by |-> n]

Init ==
  /\ AccountInit
  /\ writeEnabled \in WriteModes
  /\ credentials = [n \in Credentials |-> NoCredential]
  /\ subject \in [Clients -> Credentials]
  /\ audit = [n \in Credentials |-> <<>>]
  /\ call \in [Clients -> {NoCall(n) : n \in Credentials}]
  /\ faults = 0

-----------------------------------------------------------------------------
(* createCredential and revokeCredential, behind the session guard           *)
SettingsSame == UNCHANGED <<writeEnabled, callVars>>

CreateFindsNone(c) ==
  /\ At(c, "settings")
  /\ \E n \in Credentials :
       /\ subject' = [subject EXCEPT ![c] = n]
       /\ IF credentials[n].made THEN Ends(c) ELSE Goes(c, "creates")
  /\ RowsSame /\ UNCHANGED credentials /\ SettingsSame

\* The name is unique: the second of two inserts throws.
CreateInserts(c) ==
  /\ At(c, "creates")
  /\ \E scopes \in Scopes, expiresAt \in {0, now + CredentialTtl} :
       credentials' = [credentials EXCEPT ![subject[c]] =
                         IF @.made THEN @ ELSE Credential(scopes, expiresAt)]
  /\ Ends(c)
  /\ RowsSame /\ UNCHANGED subject /\ SettingsSame

RevokeFinds(c) ==
  /\ At(c, "settings")
  /\ \E n \in Credentials :
       /\ subject' = [subject EXCEPT ![c] = n]
       /\ IF credentials[n].made /\ ~credentials[n].revoked THEN Goes(c, "revokesOne") ELSE Ends(c)
  /\ RowsSame /\ UNCHANGED credentials /\ SettingsSame

RevokeWrites(c) ==
  /\ At(c, "revokesOne")
  /\ credentials' = [credentials EXCEPT ![subject[c]].revoked = TRUE]
  /\ Ends(c)
  /\ RowsSame /\ UNCHANGED subject /\ SettingsSame

-----------------------------------------------------------------------------
(* handle *)
Calls(k, at) == call[k].at = at
Moves(k, at) == call' = [call EXCEPT ![k].at = at]
CallSame == UNCHANGED <<accountVars, writeEnabled, settingVars>>

Usable(n) ==
  LET row == credentials[n] IN
  row.made /\ ~row.revoked /\ (row.expiresAt = 0 \/ row.expiresAt > now)

authenticate(k) ==
  /\ Calls(k, "idle") /\ call[k].sent < MaxRequests
  /\ \E n \in Credentials :
       call' = [call EXCEPT ![k] = [at |-> IF Usable(n) THEN "counts" ELSE "idle",
                                    sent |-> @.sent + 1, by |-> n]]
  /\ UNCHANGED <<audit, faults>> /\ CallSame

Used(n) == Cardinality({i \in DOMAIN audit[n] : audit[n][i] >= now - Window})
WithinRateOneLater(n) == Used(n) <= RateLimit
WithinRate(n) == Used(n) < RateLimit

isToolEnabled(tool) == isMcpWriteTool(tool) => writeEnabled
hasScope(n, tool) == credentials[n].scopes \cap {AllTools, tool} # {}
MayRun(n, tool) == isToolEnabled(tool) /\ hasScope(n, tool)

\* Refused by the limit; then, without a pause, parsed and dispatched.  A request
\* that is malformed, or names an unknown method or tool, is answered unrecorded.
enforceRateLimit(k) ==
  /\ Calls(k, "counts")
  /\ \/ Moves(k, "idle")
     \/ /\ WithinRate(call[k].by)
        /\ \/ Moves(k, "notifies")
           \/ Moves(k, "records")                        \* initialize, ping, tools/list...
           \/ \E tool \in Tools :
                Moves(k, IF MayRun(call[k].by, tool) THEN "runs" ELSE "records")
  /\ UNCHANGED <<audit, faults>> /\ CallSame

\* The tool is a handler of another module, and may throw.
callTool(k) ==
  /\ Calls(k, "runs")
  /\ Moves(k, "records")
  /\ UNCHANGED <<audit, faults>> /\ CallSame

Recording == {"notifies", "records", "recordsFailure"}

recordRequest(k) ==
  /\ call[k].at \in Recording
  /\ audit' = [audit EXCEPT ![call[k].by] = Append(@, now)]
  /\ Moves(k, "idle")
  /\ UNCHANGED faults /\ CallSame

\* Only what is inside the try is recorded again, as a failure.
RecordFails(k) ==
  /\ call[k].at \in Recording /\ faults < MaxFaults
  /\ faults' = faults + 1
  /\ Moves(k, IF Calls(k, "records") THEN "recordsFailure" ELSE "idle")
  /\ UNCHANGED audit /\ CallSame

SettingsStep(c) == CreateFindsNone(c) \/ CreateInserts(c) \/ RevokeFinds(c) \/ RevokeWrites(c)
CallStep(k) ==
  authenticate(k) \/ enforceRateLimit(k) \/ callTool(k) \/ recordRequest(k) \/ RecordFails(k)

Next ==
  \/ AccountNext /\ UNCHANGED <<writeEnabled, settingVars, callVars>>
  \/ \E c \in Clients : SettingsStep(c)
  \/ \E k \in Callers : CallStep(k)

Spec == Init /\ [][Next]_vars

-----------------------------------------------------------------------------
TypeOK ==
  /\ AccountTypeOK
  /\ writeEnabled \in BOOLEAN
  /\ credentials \in [Credentials -> [made : BOOLEAN, revoked : BOOLEAN, expiresAt : Nat,
                                      scopes : SUBSET (mcpToolNames \cup {AllTools})]]
  /\ subject \in [Clients -> Credentials]
  /\ audit \in [Credentials -> Seq(1 .. MaxTime)]
  /\ call \in [Clients -> [at : Recording \cup {"idle", "counts", "runs"}, sent : 0 .. MaxRequests,
                           by : Credentials]]
  /\ faults \in 0 .. MaxFaults

(* The limit is checked before the request and recorded after it, so it can  *)
(* be passed, but only by the requests that were under way together: with    *)
(* c callers a credential never has more than RateLimit + c - 1 rows within  *)
(* one window.                                                               *)
RateOvershootBounded ==
  \A n \in Credentials : Used(n) <= RateLimit + Cardinality(Callers) - 1
=============================================================================
