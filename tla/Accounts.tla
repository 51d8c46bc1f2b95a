------------------------------ MODULE Accounts ------------------------------
(***************************************************************************)
(* The CEO's account and its sessions: AuthService and SessionAuthGuard.   *)
(*                                                                         *)
(* A login reads the user row, verifies the password against what it read  *)
(* and writes afterwards; several of them, a change of password and the    *)
(* requests of the sessions run at once.  The two transactions are taken   *)
(* statement by statement: the user row stays locked from the statement    *)
(* that updates it to the commit, and what a transaction wrote is seen by  *)
(* the others only then (PostgreSQL, READ COMMITTED).                      *)
(*                                                                         *)
(* One writer of the password is left out: the operator's command line     *)
(* tool create-admin, which is run against the database itself and revokes *)
(* no session.                                                             *)
(***************************************************************************)
EXTENDS Integers, Sequences

CONSTANTS
  Clients,      \* requests under way at once, one after the other of each client
  Scenarios,    \* what the clients ask for: functions from Clients
  MaxRequests,  \* bound on the requests of a client
  MaxFailures,  \* LOGIN_MAX_FAILURES
  LockTime,     \* LOGIN_LOCK_MINUTES, in ticks
  SessionTtl,   \* SESSION_TTL_HOURS, in ticks
  MaxTime,      \* bound on the clock
  MaxPassword   \* bound on the changes of password

Operations == {"login", "logout", "password", "revokeAll", "settings"}
Mcp == "mcp"   \* a client of the MCP endpoint

ASSUME AccountBounds ==
  /\ MaxRequests \in Nat /\ MaxTime \in Nat \ {0} /\ MaxPassword \in Nat \ {0}
  /\ MaxFailures \in Nat \ {0} /\ LockTime \in Nat \ {0} /\ SessionTtl \in Nat \ {0}
  /\ Scenarios \subseteq [Clients -> SUBSET (Operations \cup {Mcp})]

VARIABLES
  now,
  asks,      \* the scenario of this behaviour
  user,      \* the User row; a password is the number of changes before it
  rowLock,   \* the client whose transaction has updated the user row
  sessions,  \* the Session rows, in order of creation
  client     \* where the request of each client is

accountVars == <<now, asks, user, rowLock, sessions, client>>

Nobody == "nobody"
ASSUME NobodyAssumption == Nobody \notin Clients
WrongPassword == 0
Passwords == 1 .. MaxPassword
Idle == [at |-> "idle", sent |-> 0, session |-> 0, typed |-> WrongPassword, read |-> WrongPassword,
         failures |-> 0, lockedUntil |-> 0, stamp |-> 0, found |-> {}]

\* lockedUntil 0 stands for null; the clock starts at 1.
AccountInit ==
  /\ now = 1
  /\ asks \in Scenarios
  /\ user = [password |-> 1, failedLoginCount |-> 0, lockedUntil |-> 0]
  /\ rowLock = Nobody
  /\ sessions = <<[expiresAt |-> now + SessionTtl, revoked |-> FALSE, madeUnder |-> 1]>>
  /\ client = [c \in Clients |-> Idle]

-----------------------------------------------------------------------------
At(c, at) == client[c].at = at
Goes(c, at) == client' = [client EXCEPT ![c].at = at]
Ends(c) == client' = [client EXCEPT ![c] = [Idle EXCEPT !.sent = client[c].sent]]
Unlocked == rowLock = Nobody
RowsSame == UNCHANGED <<now, asks, user, rowLock, sessions>>
Live(s) == ~sessions[s].revoked /\ sessions[s].expiresAt > now
Revoked(found) == [s \in DOMAIN sessions |->
                     IF s \in found THEN [sessions[s] EXCEPT !.revoked = TRUE] ELSE sessions[s]]
Unrevoked == {s \in DOMAIN sessions : ~sessions[s].revoked}

CanAsk(c, operation) ==
  At(c, "idle") /\ operation \in asks[c] /\ client[c].sent < MaxRequests

(* login *)
LockedOut == user.lockedUntil > now

LoginRefused(c) ==
  /\ CanAsk(c, "login") /\ LockedOut
  /\ client' = [client EXCEPT ![c].sent = @ + 1]
  /\ RowsSame

LoginReads(c) ==
  /\ CanAsk(c, "login") /\ ~LockedOut
  /\ \E typed \in {WrongPassword} \cup 1 .. user.password :
       client' = [client EXCEPT ![c] =
         [client[c] EXCEPT !.at = "verifies", !.sent = @ + 1, !.typed = typed,
                           !.read = user.password, !.failures = user.failedLoginCount,
                           !.lockedUntil = user.lockedUntil, !.stamp = now]]
  /\ RowsSame

Verified(c) == client[c].typed = client[c].read

\* failedLoginCount and lockedUntil are computed from the row as it was read.
LoginFails(c) ==
  /\ At(c, "verifies") /\ ~Verified(c) /\ Unlocked
  /\ LET nextFailures == client[c].failures + 1
     IN  user' = [user EXCEPT !.failedLoginCount = nextFailures,
                              !.lockedUntil = IF nextFailures >= MaxFailures
                                              THEN client[c].stamp + LockTime
                                              ELSE client[c].lockedUntil]
  /\ Ends(c)
  /\ UNCHANGED <<now, asks, rowLock, sessions>>

LoginUpdatesUser(c) ==
  /\ At(c, "verifies") /\ Verified(c) /\ Unlocked
  /\ rowLock' = c
  /\ Goes(c, "inserts")
  /\ UNCHANGED <<now, asks, user, sessions>>

LoginCommits(c) ==
  /\ At(c, "inserts")
  /\ user' = [user EXCEPT !.failedLoginCount = 0, !.lockedUntil = 0]
  /\ sessions' = Append(sessions, [expiresAt |-> client[c].stamp + SessionTtl, revoked |-> FALSE,
                                   madeUnder |-> user.password])
  /\ rowLock' = Nobody
  /\ Ends(c)
  /\ UNCHANGED <<now, asks>>

(* SessionAuthGuard, then the handler; a session whose request is refused    *)
(* has not been changed by it.                                               *)

Asks(c, operation) ==
  /\ operation # "login" /\ CanAsk(c, operation)
  /\ \E s \in DOMAIN sessions :
       client' = [client EXCEPT ![c].sent = @ + 1,
                    ![c].at = IF Live(s) THEN operation ELSE "idle",
                    ![c].session = IF Live(s) THEN s ELSE 0]
  /\ RowsSame

\* CsrfGuard and RolesGuard run at once after it, on what it read.
Forbidden(c) ==
  /\ client[c].at \in Operations
  /\ Ends(c)
  /\ RowsSame

Logout(c) ==
  /\ At(c, "logout")
  /\ sessions' = Revoked({client[c].session})
  /\ Ends(c)
  /\ UNCHANGED <<now, asks, user, rowLock>>

RevokeAllSessions(c) ==
  /\ At(c, "revokeAll")
  /\ sessions' = Revoked(Unrevoked)
  /\ Ends(c)
  /\ UNCHANGED <<now, asks, user, rowLock>>

(* changePassword: what is verified is the row it read *)
ChangeReads(c) ==
  /\ At(c, "password")
  /\ \E typed \in {WrongPassword} \cup 1 .. user.password :
       IF typed = user.password THEN Goes(c, "hashes") ELSE Ends(c)
  /\ RowsSame

\* The transaction's first statement locks the row, its second one finds the sessions.
KeepsRowOpen(c) == UNCHANGED rowLock
LocksRow(c) == rowLock' = c

ChangeUpdatesUser(c) ==
  /\ At(c, "hashes") /\ Unlocked /\ user.password < MaxPassword
  /\ LocksRow(c)
  /\ Goes(c, "revokes")
  /\ UNCHANGED <<now, asks, user, sessions>>

ChangeFindsSessions(c) ==
  /\ At(c, "revokes")
  /\ client' = [client EXCEPT ![c].at = "commits", ![c].found = Unrevoked]
  /\ RowsSame

ChangeCommits(c) ==
  /\ At(c, "commits")
  /\ user' = [user EXCEPT !.password = @ + 1]
  /\ sessions' = Revoked(client[c].found)
  /\ rowLock' = Nobody
  /\ Ends(c)
  /\ UNCHANGED <<now, asks>>

Tick ==
  /\ now < MaxTime
  /\ now' = now + 1
  /\ UNCHANGED <<asks, user, rowLock, sessions, client>>

LoginStep(c) ==
  LoginRefused(c) \/ LoginReads(c) \/ LoginFails(c) \/ LoginUpdatesUser(c) \/ LoginCommits(c)
PasswordStep(c) == ChangeReads(c) \/ ChangeUpdatesUser(c) \/ ChangeFindsSessions(c) \/ ChangeCommits(c)
SessionStep(c) ==
  \/ \E operation \in Operations : Asks(c, operation)
  \/ Forbidden(c) \/ Logout(c) \/ RevokeAllSessions(c)
ClientStep(c) == LoginStep(c) \/ PasswordStep(c) \/ SessionStep(c)

AccountNext == Tick \/ \E c \in Clients : ClientStep(c)

-----------------------------------------------------------------------------
Places == Operations \cup {"idle", "verifies", "inserts", "hashes", "revokes", "commits",
                         "creates", "revokesOne"}

AccountTypeOK ==
  /\ now \in 1 .. MaxTime
  /\ asks \in Scenarios
  /\ user \in [password : Passwords, failedLoginCount : Nat, lockedUntil : Nat]
  /\ rowLock \in Clients \cup {Nobody}
  /\ sessions \in Seq([expiresAt : Nat, revoked : BOOLEAN, madeUnder : Passwords])
  /\ client \in [Clients -> [at : Places, sent : Nat, session : Nat,
                             typed : Passwords \cup {WrongPassword},
                             read : Passwords \cup {WrongPassword}, failures : Nat,
                             lockedUntil : Nat, stamp : Nat, found : SUBSET (1 .. Len(sessions))]]

(* A change of password ends every session there is ("all sessions have      *)
(* ended", auth.controller.ts:94): none that was made before the change is   *)
(* left after it, whatever logins commit while the change runs.  A login     *)
(* that verified the old password may still make its session afterwards.     *)
NoSessionOutlivesChange == \A s \in Unrevoked : sessions[s].madeUnder = user.password
=============================================================================
