--------------------------- MODULE MCMcpEndpoint ---------------------------
(* Three clients: in one scenario a change of password and the end of        *)
(* sessions meet logins, in another two changes meet one, and in the third   *)
(* the settings are used while two of them call the MCP endpoint.            *)
EXTENDS McpEndpoint

CONSTANTS client1, client2, client3, key1

Asking(one, two, three) ==
  [c \in Clients |-> CASE c = client1 -> one [] c = client2 -> two [] OTHER -> three]
MCScenarios ==
  {Asking({"password", "logout", "revokeAll"}, {"login"}, {"login"}),
   Asking({"password"}, {"login", "password"}, {"logout"}),
   Asking({"settings"}, {Mcp}, {Mcp})}
=============================================================================
