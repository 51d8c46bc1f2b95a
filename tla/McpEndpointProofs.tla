------------------------- MODULE McpEndpointProofs -------------------------
(***************************************************************************)
(* What the accounts and the MCP endpoint promise for any number of        *)
(* clients and credentials.                                                *)
(*                                                                         *)
(* Behind NoSessionOutlivesChange is the lock of the user row: a login and *)
(* a change of password that have both updated it cannot be in their       *)
(* transactions at once, so what the change finds to revoke is all there is*)
(* when it commits.  Behind RateOvershootBounded is that the rows of the   *)
(* window and the requests that will still add one are counted together.   *)
(***************************************************************************)
EXTENDS McpEndpoint, FiniteSetTheorems, TLAPS

Session == [expiresAt : Nat, revoked : BOOLEAN, madeUnder : Passwords]
Request == [at : Places, sent : Nat, session : Nat,
            typed : Passwords \cup {WrongPassword}, read : Passwords \cup {WrongPassword},
            failures : Nat, lockedUntil : Nat, stamp : Nat, found : SUBSET (1 .. Len(sessions))]

\* Between the statement that updates the user row and the commit.
InTransaction == {"inserts", "revokes", "commits"}

LockHeld == \A c \in Clients : client[c].at \in InTransaction => rowLock = c

\* Nobody changes the password a second time under a change that has begun.
ChangeFits == \A c \in Clients : client[c].at \in {"revokes", "commits"} => user.password < MaxPassword

\* A change that has looked for sessions found every one that is left.
FoundAll == \A c \in Clients : client[c].at = "commits" => Unrevoked \subseteq client[c].found

AccountInv ==
  /\ AccountTypeOK
  /\ LockHeld
  /\ ChangeFits
  /\ FoundAll
  /\ NoSessionOutlivesChange

(* The first session is made under the first password.                     *)
LEMMA InitAccountInv == AccountInit => AccountInv
<1> SUFFICES ASSUME AccountInit PROVE AccountInv
  OBVIOUS
<1> USE AccountBounds DEF AccountInit, Passwords
<1>1. sessions \in Seq(Session) /\ Len(sessions) = 1 /\ sessions[1].madeUnder = 1
  BY DEF Session
<1>2. client \in [Clients -> Request]
  BY DEF Idle, Request, Places, WrongPassword, Operations
<1>3. AccountTypeOK
  BY <1>1, <1>2 DEF AccountTypeOK, Session, Request
<1>4. LockHeld /\ ChangeFits /\ FoundAll
  BY DEF LockHeld, ChangeFits, FoundAll, InTransaction, Idle
<1>5. NoSessionOutlivesChange
  BY <1>1 DEF NoSessionOutlivesChange, Unrevoked
<1> QED
  BY <1>3, <1>4, <1>5 DEF AccountInv

(* A step of one client that writes no row and starts or ends no           *)
(* transaction.                                                            *)
LEMMA OwnStep ==
  ASSUME AccountInv, NEW c \in Clients, NEW r \in Request, r.at \notin InTransaction,
         client' = [client EXCEPT ![c] = r], RowsSame
  PROVE  AccountInv'
<1> USE DEF AccountInv
<1>1. /\ now' = now /\ asks' = asks /\ user' = user /\ rowLock' = rowLock /\ sessions' = sessions
  BY DEF RowsSame
<1>2. client \in [Clients -> Request] /\ client' \in [Clients -> Request]
  BY DEF AccountTypeOK, Request
<1>3. \A d \in Clients : client'[d].at \in InTransaction => client'[d] = client[d]
  BY <1>2
<1>4. AccountTypeOK'
  BY <1>1, <1>2 DEF AccountTypeOK, Request
<1>5. LockHeld' /\ ChangeFits'
  BY <1>1, <1>3 DEF LockHeld, ChangeFits, InTransaction
<1>6. FoundAll' /\ NoSessionOutlivesChange'
  BY <1>1, <1>3 DEF FoundAll, NoSessionOutlivesChange, Unrevoked, InTransaction
<1> QED
  BY <1>4, <1>5, <1>6

(* The end of a request that changes rows it holds no lock on.             *)
LEMMA IdleIsARequest ==
  ASSUME AccountInv, NEW c \in Clients
  PROVE  /\ client[c] \in Request
         /\ [Idle EXCEPT !.sent = client[c].sent] \in Request
         /\ [Idle EXCEPT !.sent = client[c].sent].at = "idle"
  BY DEF AccountInv, AccountTypeOK, Request, Idle, Places, WrongPassword

(* Revoking leaves everything else in the rows as it is.                   *)
LEMMA RevokedRows ==
  ASSUME sessions \in Seq(Session), NEW found
  PROVE  /\ Revoked(found) \in Seq(Session)
         /\ DOMAIN Revoked(found) = DOMAIN sessions
         /\ Len(Revoked(found)) = Len(sessions)
         /\ \A s \in DOMAIN sessions :
              /\ Revoked(found)[s].madeUnder = sessions[s].madeUnder
              /\ ~Revoked(found)[s].revoked <=> ~sessions[s].revoked /\ s \notin found
<1>1. DOMAIN sessions = 1 .. Len(sessions) /\ Len(sessions) \in Nat
  OBVIOUS
<1>2. \A s \in DOMAIN sessions : sessions[s] \in Session
  OBVIOUS
<1>3. \A s \in DOMAIN sessions : Revoked(found)[s] =
        IF s \in found THEN [sessions[s] EXCEPT !.revoked = TRUE] ELSE sessions[s]
  BY DEF Revoked
<1>4. \A s \in DOMAIN sessions : Revoked(found)[s] \in Session
  BY <1>2, <1>3 DEF Session
<1>5. Revoked(found) \in [1 .. Len(sessions) -> Session]
  BY <1>1, <1>4 DEF Revoked
<1>6. Revoked(found) \in Seq(Session) /\ Len(Revoked(found)) = Len(sessions)
  BY <1>1, <1>5
<1>7. ASSUME NEW s \in DOMAIN sessions
      PROVE  /\ Revoked(found)[s].madeUnder = sessions[s].madeUnder
             /\ ~Revoked(found)[s].revoked <=> ~sessions[s].revoked /\ s \notin found
  <2>1. sessions[s] \in Session
    BY <1>2
  <2>2. CASE s \in found
    BY <1>3, <2>1, <2>2 DEF Session
  <2>3. CASE s \notin found
    BY <1>3, <2>3
  <2> QED
    BY <2>2, <2>3
<1> QED
  BY <1>1, <1>6, <1>7

(* Ending sessions ends a request, and finds nothing left under an old     *)
(* password that was not there before.                                     *)
LEMMA RevokingStep ==
  ASSUME AccountInv, NEW c \in Clients, NEW found, client[c].at \notin InTransaction,
         sessions' = Revoked(found), Ends(c), UNCHANGED <<now, asks, user, rowLock>>
  PROVE  AccountInv'
<1> USE DEF AccountInv
<1> sessions \in Seq(Session)
  BY DEF AccountTypeOK, Session
<1>1. /\ sessions' \in Seq(Session) /\ DOMAIN sessions' = DOMAIN sessions
      /\ Len(sessions') = Len(sessions)
      /\ \A s \in DOMAIN sessions : /\ sessions'[s].madeUnder = sessions[s].madeUnder
                                    /\ ~sessions'[s].revoked => ~sessions[s].revoked
  BY RevokedRows
<1>2. client' = [client EXCEPT ![c] = [Idle EXCEPT !.sent = client[c].sent]]
  BY DEF Ends
<1>3. client \in [Clients -> Request] /\ client' \in [Clients -> Request]
  BY <1>2, IdleIsARequest DEF AccountTypeOK, Request
<1>4. \A d \in Clients : client'[d].at \in InTransaction => client'[d] = client[d]
  BY <1>2, <1>3, IdleIsARequest DEF InTransaction
<1>5. AccountTypeOK'
  BY <1>1, <1>3 DEF AccountTypeOK, Request, Session
<1>6. LockHeld' /\ ChangeFits'
  BY <1>4 DEF LockHeld, ChangeFits, InTransaction
<1>7. Unrevoked' \subseteq Unrevoked
  BY <1>1 DEF Unrevoked
<1>8. FoundAll'
  BY <1>4, <1>7 DEF FoundAll, InTransaction
<1>9. NoSessionOutlivesChange'
  BY <1>1, <1>7 DEF NoSessionOutlivesChange, Unrevoked
<1> QED
  BY <1>5, <1>6, <1>8, <1>9

(* A statement takes the lock of the user row, which nobody had.           *)
LEMMA LockingStep ==
  ASSUME AccountInv, NEW c \in Clients, NEW at \in {"inserts", "revokes"}, Unlocked,
         at = "revokes" => user.password < MaxPassword,
         rowLock' = c, Goes(c, at), UNCHANGED <<now, asks, user, sessions>>
  PROVE  AccountInv'
<1> USE DEF AccountInv
<1>1. client \in [Clients -> Request] /\ client' = [client EXCEPT ![c].at = at]
  BY DEF AccountTypeOK, Request, Goes
<1>2. client' \in [Clients -> Request]
  BY <1>1 DEF Request, Places
<1>3. \A d \in Clients : client'[d].at \in InTransaction => d = c
  BY <1>1, NobodyAssumption DEF LockHeld, Unlocked
<1>4. client'[c].at = at
  BY <1>1 DEF Request
<1>5. AccountTypeOK'
  BY <1>2 DEF AccountTypeOK, Request
<1>6. LockHeld' /\ ChangeFits'
  BY <1>3, <1>4 DEF LockHeld, ChangeFits, InTransaction
<1>7. FoundAll'
  BY <1>3, <1>4 DEF FoundAll, InTransaction
<1>8. NoSessionOutlivesChange'
  BY DEF NoSessionOutlivesChange, Unrevoked
<1> QED
  BY <1>5, <1>6, <1>7, <1>8

(* A commit releases the lock: no other transaction is under way.          *)
LEMMA Alone ==
  ASSUME AccountInv, NEW c \in Clients, client[c].at \in InTransaction
  PROVE  rowLock = c /\ \A d \in Clients : client[d].at \in InTransaction => d = c
  BY DEF AccountInv, LockHeld

(* A transaction that commits releases the row lock and loses no session row. *)
LEMMA CommittingStep ==
  ASSUME AccountInv, NEW c \in Clients, client[c].at \in InTransaction,
         UNCHANGED <<now, asks>>, Ends(c), rowLock' = Nobody,
         user' \in [password : Passwords, failedLoginCount : Nat, lockedUntil : Nat],
         sessions' \in Seq(Session), Len(sessions') >= Len(sessions), NoSessionOutlivesChange'
  PROVE  AccountInv'
<1> USE DEF AccountInv
<1>1. client' = [client EXCEPT ![c] = [Idle EXCEPT !.sent = client[c].sent]]
  BY DEF Ends
<1>2. client \in [Clients -> Request]
  BY DEF AccountTypeOK, Request
<1>3. sessions \in Seq(Session)
  BY DEF AccountTypeOK, Session
<1>4. 1 .. Len(sessions) \subseteq 1 .. Len(sessions')
  BY <1>3
<1>5. client' \in [Clients -> Request']
  BY <1>1, <1>2, <1>4, IdleIsARequest DEF Request
<1>6. \A d \in Clients : client'[d].at \notin InTransaction
  BY <1>1, <1>2, Alone, IdleIsARequest DEF InTransaction
<1>7. AccountTypeOK'
  BY <1>5 DEF AccountTypeOK, Request, Session
<1>8. LockHeld' /\ ChangeFits' /\ FoundAll'
  BY <1>6 DEF LockHeld, ChangeFits, FoundAll, InTransaction
<1> QED
  BY <1>7, <1>8

(* A request that is counted.                                              *)
LEMMA CountedRequest ==
  ASSUME NEW r \in Request
  PROVE  r.sent + 1 \in Nat /\ \A n \in Nat : [r EXCEPT !.sent = n] \in Request
  BY DEF Request

(* login: what it writes are times and counts, and its session is made     *)
(* under the password the row has at the commit.                           *)
LEMMA LoginKeepsInv ==
  ASSUME AccountInv, NEW c \in Clients, LoginStep(c)
  PROVE  AccountInv'
<1>1. /\ client \in [Clients -> Request] /\ client[c] \in Request
      /\ user \in [password : Passwords, failedLoginCount : Nat, lockedUntil : Nat]
      /\ sessions \in Seq(Session) /\ now \in Nat
  BY AccountBounds DEF AccountInv, AccountTypeOK, Request, Session
<1>2. CASE LoginRefused(c)
  <2> DEFINE r == [client[c] EXCEPT !.sent = @ + 1]
  <2>1. r \in Request /\ r.at = "idle"
    <3>1. client[c].at = "idle"
      BY <1>2 DEF LoginRefused, CanAsk, At
    <3>2. r \in Request
      BY <1>1, CountedRequest
    <3> QED
      BY <1>1, <3>1, <3>2 DEF Request
  <2>2. client' = [client EXCEPT ![c] = r] /\ RowsSame
    BY <1>2 DEF LoginRefused
  <2> QED
    BY <2>1, <2>2, OwnStep DEF InTransaction
<1>3. CASE LoginReads(c)
  <2>1. PICK typed \in {WrongPassword} \cup 1 .. user.password :
          client' = [client EXCEPT ![c] =
            [client[c] EXCEPT !.at = "verifies", !.sent = @ + 1, !.typed = typed,
                              !.read = user.password, !.failures = user.failedLoginCount,
                              !.lockedUntil = user.lockedUntil, !.stamp = now]]
    BY <1>3 DEF LoginReads
  <2> DEFINE r == [client[c] EXCEPT !.at = "verifies", !.sent = @ + 1, !.typed = typed,
                     !.read = user.password, !.failures = user.failedLoginCount,
                     !.lockedUntil = user.lockedUntil, !.stamp = now]
  <2>2. typed \in Passwords \cup {WrongPassword} /\ user.password \in Passwords
    BY <1>1, AccountBounds DEF Passwords
  <2>3. r \in Request /\ r.at = "verifies"
    <3> DEFINE q == [client[c] EXCEPT !.sent = @ + 1]
    <3>1. q \in Request
      BY <1>1, CountedRequest
    <3>2. r = [q EXCEPT !.at = "verifies", !.typed = typed, !.read = user.password,
                        !.failures = user.failedLoginCount, !.lockedUntil = user.lockedUntil,
                        !.stamp = now]
      BY <1>1 DEF Request
    <3> HIDE DEF q
    <3> QED
      BY <1>1, <2>2, <3>1, <3>2 DEF Request, Places
  <2>4. client' = [client EXCEPT ![c] = r] /\ RowsSame
    BY <1>3, <2>1 DEF LoginReads
  <2> QED
    BY <2>3, <2>4, OwnStep DEF InTransaction
<1>4. CASE LoginFails(c)
  <2>1. /\ user' \in [password : Passwords, failedLoginCount : Nat, lockedUntil : Nat]
        /\ user'.password = user.password
    <3>1. PICK n \in Nat, t \in Nat :
            user' = [user EXCEPT !.failedLoginCount = n, !.lockedUntil = t]
      <4>1. /\ client[c].failures + 1 \in Nat /\ client[c].stamp + LockTime \in Nat
            /\ client[c].lockedUntil \in Nat
        BY <1>1, AccountBounds DEF Request
      <4> QED
        BY <1>4, <4>1 DEF LoginFails
    <3> QED
      BY <1>1, <3>1
  <2>2. client' = [client EXCEPT ![c] = [Idle EXCEPT !.sent = client[c].sent]]
    BY <1>4 DEF LoginFails, Ends
  <2>3. /\ client' \in [Clients -> Request]
        /\ \A d \in Clients : client'[d].at \in InTransaction => client'[d] = client[d]
    BY <1>1, <2>2, IdleIsARequest DEF InTransaction
  <2>4. UNCHANGED <<now, asks, rowLock, sessions>>
    BY <1>4 DEF LoginFails
  <2>5. AccountTypeOK'
    BY <2>1, <2>3, <2>4 DEF AccountInv, AccountTypeOK, Request
  <2>6. LockHeld' /\ ChangeFits' /\ FoundAll' /\ NoSessionOutlivesChange'
    BY <2>1, <2>3, <2>4 DEF AccountInv, LockHeld, ChangeFits, FoundAll, NoSessionOutlivesChange,
                            Unrevoked, InTransaction
  <2> QED
    BY <2>5, <2>6 DEF AccountInv
<1>5. CASE LoginUpdatesUser(c)
  BY <1>5, LockingStep DEF LoginUpdatesUser
<1>6. CASE LoginCommits(c)
  <2> DEFINE new == [expiresAt |-> client[c].stamp + SessionTtl, revoked |-> FALSE,
                     madeUnder |-> user.password]
  <2>1. client[c].at \in InTransaction /\ sessions' = Append(sessions, new)
    BY <1>6 DEF LoginCommits, At, InTransaction
  <2>2. new \in Session
    BY <1>1, AccountBounds DEF Session, Request
  <2>3. user' = [user EXCEPT !.failedLoginCount = 0, !.lockedUntil = 0]
    BY <1>6 DEF LoginCommits
  <2>4. /\ user' \in [password : Passwords, failedLoginCount : Nat, lockedUntil : Nat]
        /\ user'.password = user.password
    BY <1>1, <2>3
  <2>5. /\ sessions' \in Seq(Session) /\ Len(sessions') = Len(sessions) + 1
        /\ \A s \in DOMAIN sessions' : sessions'[s] = IF s \in DOMAIN sessions THEN sessions[s] ELSE new
    <3> HIDE DEF new
    <3> QED BY <1>1, <2>1, <2>2
  <2>6. NoSessionOutlivesChange'
    BY <2>4, <2>5 DEF AccountInv, NoSessionOutlivesChange, Unrevoked
  <2> QED
    <3>1. Len(sessions') >= Len(sessions) /\ sessions' \in Seq(Session)
      BY <1>1, <2>5
    <3>2. UNCHANGED <<now, asks>> /\ Ends(c) /\ rowLock' = Nobody
      BY <1>6 DEF LoginCommits
    <3> QED
      BY <2>1, <2>4, <2>6, <3>1, <3>2, CommittingStep
<1> QED
  BY <1>2, <1>3, <1>4, <1>5, <1>6 DEF LoginStep

(* changePassword: its commit revokes all there is, and what is left was   *)
(* made under no other password because nothing is left.                   *)
LEMMA ChangeKeepsInv ==
  ASSUME AccountInv, NEW c \in Clients, PasswordStep(c)
  PROVE  AccountInv'
<1>1. /\ client \in [Clients -> Request] /\ client[c] \in Request
      /\ user \in [password : Passwords, failedLoginCount : Nat, lockedUntil : Nat]
      /\ sessions \in Seq(Session)
  BY AccountBounds DEF AccountInv, AccountTypeOK, Request, Session
<1>2. CASE ChangeReads(c)
  <2>1. Goes(c, "hashes") \/ Ends(c)
    BY <1>2 DEF ChangeReads
  <2>2. RowsSame
    BY <1>2 DEF ChangeReads
  <2> DEFINE r == [client[c] EXCEPT !.at = "hashes"]
  <2>3. r \in Request /\ r.at = "hashes"
    BY <1>1 DEF Request, Places
  <2>4. CASE Goes(c, "hashes")
    <3>1. client' = [client EXCEPT ![c] = r]
      BY <2>4 DEF Goes
    <3> QED
      BY <2>2, <2>3, <3>1, OwnStep DEF InTransaction
  <2>5. CASE Ends(c)
    BY <2>2, <2>5, OwnStep, IdleIsARequest DEF Ends, InTransaction
  <2> QED
    BY <2>1, <2>4, <2>5
<1>3. CASE ChangeUpdatesUser(c)
  BY <1>3, LockingStep DEF ChangeUpdatesUser, LocksRow
<1>4. CASE ChangeFindsSessions(c)
  <2>1. /\ client' = [client EXCEPT ![c].at = "commits", ![c].found = Unrevoked]
        /\ now' = now /\ asks' = asks /\ user' = user /\ rowLock' = rowLock /\ sessions' = sessions
    BY <1>4 DEF ChangeFindsSessions, RowsSame
  <2>2. client[c].at = "revokes" /\ Unrevoked \in SUBSET (1 .. Len(sessions))
    BY <1>1, <1>4 DEF ChangeFindsSessions, At, Unrevoked
  <2>3. /\ client' \in [Clients -> Request]
        /\ client'[c].at = "commits" /\ client'[c].found = Unrevoked
        /\ \A d \in Clients : d # c => client'[d] = client[d]
    BY <1>1, <2>1, <2>2 DEF Request, Places
  <2>4. AccountTypeOK'
    BY <2>1, <2>3 DEF AccountInv, AccountTypeOK, Request
  <2>5. LockHeld' /\ ChangeFits' /\ FoundAll'
    BY <2>1, <2>2, <2>3 DEF AccountInv, LockHeld, ChangeFits, FoundAll, InTransaction, Unrevoked
  <2>6. NoSessionOutlivesChange'
    BY <2>1 DEF AccountInv, NoSessionOutlivesChange, Unrevoked
  <2> QED
    BY <2>4, <2>5, <2>6 DEF AccountInv
<1>5. CASE ChangeCommits(c)
  <2>1. client[c].at = "commits" /\ sessions' = Revoked(client[c].found)
    BY <1>5 DEF ChangeCommits, At
  <2>2. user' = [user EXCEPT !.password = @ + 1] /\ user.password < MaxPassword
    BY <1>5, <2>1 DEF ChangeCommits, AccountInv, ChangeFits
  <2>3. user' \in [password : Passwords, failedLoginCount : Nat, lockedUntil : Nat]
    BY <1>1, <2>2, AccountBounds DEF Passwords
  <2>4. Unrevoked \subseteq client[c].found
    BY <2>1 DEF AccountInv, FoundAll
  <2>5. /\ sessions' \in Seq(Session) /\ Len(sessions') = Len(sessions)
        /\ Unrevoked' = {}
    BY <1>1, <2>1, <2>4, RevokedRows DEF Unrevoked
  <2>6. NoSessionOutlivesChange'
    BY <2>5 DEF NoSessionOutlivesChange
  <2> QED
    BY <1>1, <1>5, <2>1, <2>3, <2>5, <2>6, CommittingStep DEF ChangeCommits, InTransaction
<1> QED
  BY <1>2, <1>3, <1>4, <1>5 DEF PasswordStep

(* Behind the guards.                                                      *)
LEMMA SessionKeepsInv ==
  ASSUME AccountInv, NEW c \in Clients, SessionStep(c)
  PROVE  AccountInv'
<1>1. client[c] \in Request /\ sessions \in Seq(Session)
  BY DEF AccountInv, AccountTypeOK, Request, Session
<1>2. ASSUME NEW operation \in Operations, Asks(c, operation) PROVE AccountInv'
  <2>1. PICK s \in DOMAIN sessions :
          client' = [client EXCEPT ![c].sent = @ + 1,
                       ![c].at = IF Live(s) THEN operation ELSE "idle",
                       ![c].session = IF Live(s) THEN s ELSE 0]
    BY <1>2 DEF Asks
  <2> DEFINE r == [client[c] EXCEPT !.sent = @ + 1, !.at = IF Live(s) THEN operation ELSE "idle",
                                    !.session = IF Live(s) THEN s ELSE 0]
  <2>2. r \in Request /\ r.at \in Operations \cup {"idle"}
    <3> DEFINE q == [client[c] EXCEPT !.sent = @ + 1]
    <3>1. q \in Request
      BY <1>1, CountedRequest
    <3>2. s \in Nat /\ 0 \in Nat
      BY <1>1
    <3>3. r = [q EXCEPT !.at = IF Live(s) THEN operation ELSE "idle",
                        !.session = IF Live(s) THEN s ELSE 0]
      BY <1>1 DEF Request
    <3> HIDE DEF q, r
    <3> QED
      BY <3>1, <3>2, <3>3 DEF Request, Places
  <2>3. r.at \notin InTransaction
    BY <2>2 DEF InTransaction, Operations
  <2>4. client' = [client EXCEPT ![c] = r] /\ RowsSame
    BY <1>2, <2>1 DEF Asks
  <2> QED
    BY <2>2, <2>3, <2>4, OwnStep
<1>3. CASE Forbidden(c)
  BY <1>3, OwnStep, IdleIsARequest DEF Forbidden, Ends, InTransaction
<1>4. CASE Logout(c)
  BY <1>4, RevokingStep DEF Logout, At, InTransaction
<1>5. CASE RevokeAllSessions(c)
  BY <1>5, RevokingStep DEF RevokeAllSessions, At, InTransaction
<1> QED
  BY <1>2, <1>3, <1>4, <1>5 DEF SessionStep

(* Time passes: no row changes. *)
LEMMA TickKeepsInv == ASSUME AccountInv, Tick PROVE AccountInv'
<1>1. UNCHANGED <<asks, user, rowLock, sessions, client>>
  BY DEF Tick
<1>2. AccountTypeOK'
  BY <1>1, AccountBounds DEF AccountInv, AccountTypeOK, Tick
<1> QED
  BY <1>1, <1>2 DEF AccountInv, LockHeld, ChangeFits, FoundAll, NoSessionOutlivesChange, Unrevoked

(* One case per statement of login, logout, revocation and password change. *)
LEMMA AccountsKeepInv == ASSUME AccountInv, AccountNext PROVE AccountInv'
  BY LoginKeepsInv, ChangeKeepsInv, SessionKeepsInv, TickKeepsInv DEF AccountNext, ClientStep

(* The other steps of the endpoint leave the accounts alone. *)
LEMMA AccountsStay == ASSUME AccountInv, UNCHANGED accountVars PROVE AccountInv'
  BY DEF accountVars, AccountInv, AccountTypeOK, LockHeld, ChangeFits, FoundAll,
         NoSessionOutlivesChange, Unrevoked

(* The settings' requests only come and go in the accounts.                *)
LEMMA SettingsKeepInv ==
  ASSUME AccountInv, NEW c \in Clients, SettingsStep(c)
  PROVE  AccountInv'
<1>1. client[c] \in Request
  BY DEF AccountInv, AccountTypeOK, Request
<1>2. RowsSame /\ (Ends(c) \/ Goes(c, "creates") \/ Goes(c, "revokesOne"))
  BY DEF SettingsStep, CreateFindsNone, CreateInserts, RevokeFinds, RevokeWrites
<1>3. CASE Ends(c)
  BY <1>2, <1>3, OwnStep, IdleIsARequest DEF Ends, InTransaction
<1>4. ASSUME NEW at \in {"creates", "revokesOne"}, Goes(c, at) PROVE AccountInv'
  <2> DEFINE r == [client[c] EXCEPT !.at = at]
  <2>1. r \in Request /\ r.at \notin InTransaction
    BY <1>1 DEF Request, Places, InTransaction
  <2>2. client' = [client EXCEPT ![c] = r]
    BY <1>4 DEF Goes
  <2> QED
    BY <1>2, <2>1, <2>2, OwnStep
<1> QED
  BY <1>2, <1>3, <1>4

-----------------------------------------------------------------------------
(* The types of the endpoint.                                              *)
LEMMA InitTypeOK == Init => AccountInv /\ TypeOK
<1> SUFFICES ASSUME Init PROVE AccountInv /\ TypeOK
  OBVIOUS
<1>1. AccountInv
  BY InitAccountInv DEF Init
<1>2. AccountTypeOK
  BY <1>1 DEF AccountInv
<1> QED
  BY <1>1, <1>2, McpBounds, AccountBounds DEF Init, TypeOK, NoCredential, NoCall

(* The two together, for the composed specification. *)
LEMMA StepKeepsAccounts == ASSUME AccountInv, [Next]_vars PROVE AccountInv'
<1>1. CASE AccountNext
  BY <1>1, AccountsKeepInv
<1>2. ASSUME NEW c \in Clients, SettingsStep(c) PROVE AccountInv'
  BY <1>2, SettingsKeepInv
<1>3. ASSUME NEW k \in Callers, CallStep(k) PROVE AccountInv'
  <2>1. UNCHANGED accountVars
    BY <1>3 DEF CallStep, authenticate, enforceRateLimit, callTool, recordRequest, RecordFails,
                CallSame
  <2> QED
    BY <2>1, AccountsStay
<1>4. CASE UNCHANGED vars
  BY <1>4, AccountsStay DEF vars
<1> QED
  BY <1>1, <1>2, <1>3, <1>4 DEF Next

(* createCredential and revokeCredential, with the guard before them. *)
LEMMA SettingsKeepTypes ==
  ASSUME TypeOK, AccountTypeOK', NEW c \in Clients, SettingsStep(c)
  PROVE  TypeOK'
<1>1. now + CredentialTtl \in Nat /\ 0 \in Nat
  BY McpBounds DEF TypeOK, AccountTypeOK
<1>2. \A scopes \in Scopes, expiresAt \in {0, now + CredentialTtl} :
        Credential(scopes, expiresAt) \in
          [made : BOOLEAN, revoked : BOOLEAN, expiresAt : Nat, scopes : SUBSET (mcpToolNames \cup {AllTools})]
  BY <1>1, McpBounds DEF Scopes, Credential
<1>3. UNCHANGED <<writeEnabled, audit, call, faults>>
  BY DEF SettingsStep, CreateFindsNone, CreateInserts, RevokeFinds, RevokeWrites, SettingsSame, callVars
<1>4. subject' \in [Clients -> Credentials]
  BY DEF TypeOK, SettingsStep, CreateFindsNone, CreateInserts, RevokeFinds, RevokeWrites
<1>5. credentials' \in [Credentials -> [made : BOOLEAN, revoked : BOOLEAN, expiresAt : Nat,
                                        scopes : SUBSET (mcpToolNames \cup {AllTools})]]
  <2>1. CASE CreateInserts(c)
    BY <1>2, <2>1 DEF TypeOK, CreateInserts
  <2>2. CASE RevokeWrites(c)
    BY <2>2 DEF TypeOK, RevokeWrites
  <2>3. CASE CreateFindsNone(c) \/ RevokeFinds(c)
    BY <2>3 DEF TypeOK, CreateFindsNone, RevokeFinds
  <2> QED
    BY <2>1, <2>2, <2>3 DEF SettingsStep
<1> QED
  BY <1>3, <1>4, <1>5 DEF TypeOK

(* authenticate, enforceRateLimit, callTool and recordRequest. *)
LEMMA CallsKeepTypes ==
  ASSUME TypeOK, AccountTypeOK', NEW k \in Clients, CallStep(k)
  PROVE  TypeOK'
<1> DEFINE Called == [at : Recording \cup {"idle", "counts", "runs"}, sent : 0 .. MaxRequests,
                      by : Credentials]
<1>1. call \in [Clients -> Called] /\ UNCHANGED <<accountVars, writeEnabled, settingVars>>
  BY DEF TypeOK, CallStep, authenticate, enforceRateLimit, callTool, recordRequest, RecordFails, CallSame
<1>2. UNCHANGED <<writeEnabled, credentials, subject>>
  BY <1>1 DEF settingVars
<1>3. \A at \in Recording \cup {"idle", "counts", "runs"} : Moves(k, at) => call' \in [Clients -> Called]
  BY <1>1 DEF Moves
<1>4. call' \in [Clients -> Called]
  <2>1. CASE authenticate(k)
    <3>1. call[k].sent + 1 \in 0 .. MaxRequests
      BY <1>1, <2>1, AccountBounds DEF authenticate
    <3> QED
      BY <1>1, <2>1, <3>1 DEF authenticate
  <2>2. CASE enforceRateLimit(k)
    BY <1>3, <2>2 DEF enforceRateLimit, Recording
  <2>3. CASE callTool(k) \/ recordRequest(k) \/ RecordFails(k)
    BY <1>3, <2>3 DEF callTool, recordRequest, RecordFails, Recording
  <2> QED
    BY <2>1, <2>2, <2>3 DEF CallStep
<1>5. audit' \in [Credentials -> Seq(1 .. MaxTime)]
  <2>1. CASE recordRequest(k)
    <3>1. call[k].by \in Credentials /\ now \in 1 .. MaxTime
      BY <1>1 DEF TypeOK, AccountTypeOK
    <3>2. Append(audit[call[k].by], now) \in Seq(1 .. MaxTime)
      BY <3>1 DEF TypeOK
    <3> QED
      BY <2>1, <3>1, <3>2 DEF TypeOK, recordRequest
  <2>2. CASE ~recordRequest(k)
    BY <2>2 DEF TypeOK, CallStep, authenticate, enforceRateLimit, callTool, RecordFails
  <2> QED
    BY <2>1, <2>2
<1>6. faults' \in 0 .. MaxFaults
  BY McpBounds DEF TypeOK, CallStep, authenticate, enforceRateLimit, callTool, recordRequest, RecordFails
<1> QED
  BY <1>2, <1>4, <1>5, <1>6 DEF TypeOK

(* One case per kind of step. *)
LEMMA StepKeepsTypes == ASSUME AccountInv, TypeOK, [Next]_vars PROVE TypeOK'
<1>1. AccountTypeOK'
  BY StepKeepsAccounts DEF AccountInv
<1>2. CASE UNCHANGED <<writeEnabled, settingVars, callVars>>
  BY <1>1, <1>2 DEF TypeOK, settingVars, callVars
<1>3. ASSUME NEW c \in Clients, SettingsStep(c) PROVE TypeOK'
  BY <1>1, <1>3, SettingsKeepTypes
<1>4. ASSUME NEW k \in Callers, CallStep(k) PROVE TypeOK'
  BY <1>1, <1>4, CallsKeepTypes DEF Callers
<1> QED
  BY <1>2, <1>3, <1>4 DEF Next, vars

(* Every variable of the accounts and of the endpoint keeps its type.      *)
THEOREM TypeCorrect == Spec => []TypeOK
<1>1. AccountInv /\ TypeOK /\ [Next]_vars => AccountInv' /\ TypeOK'
  BY StepKeepsAccounts, StepKeepsTypes
<1> QED
  BY <1>1, InitTypeOK, PTL DEF Spec

(* However the logins, the ends of sessions and the changes of password    *)
(* interleave, a change leaves no session made under an earlier password.  *)
THEOREM ChangeEndsEverySession == Spec => []NoSessionOutlivesChange
<1>1. Init => AccountInv
  BY InitTypeOK
<1>2. AccountInv /\ [Next]_vars => AccountInv'
  BY StepKeepsAccounts
<1>3. AccountInv => NoSessionOutlivesChange
  BY DEF AccountInv
<1> QED
  BY <1>1, <1>2, <1>3, PTL DEF Spec

-----------------------------------------------------------------------------
\* The requests that were let through and have not added their row yet.
Owing(n) == {k \in Callers : call[k].at \in {"runs"} \cup Recording /\ call[k].by = n}
Counted(n) == {i \in DOMAIN audit[n] : audit[n][i] >= now - Window}

RateInv ==
  \A n \in Credentials : Used(n) + Cardinality(Owing(n)) <= RateLimit + Cardinality(Callers) - 1

(* All that is counted is finite.                                          *)
LEMMA CountsAreNumbers ==
  ASSUME TypeOK, NEW n \in Credentials
  PROVE  /\ IsFiniteSet(Owing(n)) /\ Cardinality(Owing(n)) \in Nat
         /\ IsFiniteSet(Counted(n)) /\ Used(n) \in Nat /\ Used(n) = Cardinality(Counted(n))
         /\ IsFiniteSet(Callers) /\ Cardinality(Callers) \in Nat
         /\ Cardinality(Owing(n)) <= Cardinality(Callers)
<1>1. IsFiniteSet(Callers)
  BY McpBounds, FS_Subset DEF Callers
<1>2. IsFiniteSet(Owing(n)) /\ Cardinality(Owing(n)) <= Cardinality(Callers)
  BY <1>1, FS_Subset DEF Owing
<1>3. DOMAIN audit[n] = 1 .. Len(audit[n]) /\ Len(audit[n]) \in Nat
  BY DEF TypeOK
<1>4. IsFiniteSet(Counted(n))
  <2>1. IsFiniteSet(1 .. Len(audit[n]))
    BY <1>3, FS_Interval
  <2>2. Counted(n) \subseteq 1 .. Len(audit[n])
    BY <1>3 DEF Counted
  <2> QED
    BY <2>1, <2>2, FS_Subset
<1> QED
  BY <1>1, <1>2, <1>4, FS_CardinalityType DEF Used, Counted

(* Every request of a step adds at most one row, and only where it owed    *)
(* one.                                                                    *)
LEMMA NoMoreThanBefore ==
  ASSUME TypeOK, RateInv, NEW n \in Credentials, NEW counted, NEW owing,
         \/ counted \subseteq Counted(n) /\ owing \subseteq Owing(n)
         \/ \E row, k : counted \subseteq Counted(n) \cup {row} /\ k \in Owing(n) /\ owing = Owing(n) \ {k}
  PROVE  Cardinality(counted) + Cardinality(owing) <= RateLimit + Cardinality(Callers) - 1
<1>1. /\ IsFiniteSet(Owing(n)) /\ Cardinality(Owing(n)) \in Nat
      /\ IsFiniteSet(Counted(n)) /\ Cardinality(Counted(n)) \in Nat /\ Cardinality(Callers) \in Nat
  BY CountsAreNumbers
<1>2. Cardinality(Counted(n)) + Cardinality(Owing(n)) <= RateLimit + Cardinality(Callers) - 1
  BY CountsAreNumbers DEF RateInv
<1>3. CASE counted \subseteq Counted(n) /\ owing \subseteq Owing(n)
  <2>1. /\ Cardinality(counted) \in Nat /\ Cardinality(counted) <= Cardinality(Counted(n))
        /\ Cardinality(owing) \in Nat /\ Cardinality(owing) <= Cardinality(Owing(n))
    BY <1>1, <1>3, FS_Subset, FS_CardinalityType
  <2> QED
    BY <1>1, <1>2, <2>1, McpBounds
<1>4. ASSUME NEW row, NEW k, counted \subseteq Counted(n) \cup {row}, k \in Owing(n), owing = Owing(n) \ {k}
      PROVE  Cardinality(counted) + Cardinality(owing) <= RateLimit + Cardinality(Callers) - 1
  <2>1. /\ IsFiniteSet(Counted(n) \cup {row})
        /\ Cardinality(Counted(n) \cup {row}) \in Nat
        /\ Cardinality(Counted(n) \cup {row}) <= Cardinality(Counted(n)) + 1
    <3>1. /\ IsFiniteSet(Counted(n) \cup {row})
          /\ \/ Cardinality(Counted(n) \cup {row}) = Cardinality(Counted(n))
             \/ Cardinality(Counted(n) \cup {row}) = Cardinality(Counted(n)) + 1
      BY <1>1, FS_AddElement
    <3> QED
      BY <1>1, <3>1
  <2>2. Cardinality(counted) \in Nat /\ Cardinality(counted) <= Cardinality(Counted(n)) + 1
    BY <1>1, <1>4, <2>1, FS_Subset, FS_CardinalityType
  <2>3. Cardinality(owing) = Cardinality(Owing(n)) - 1
    BY <1>1, <1>4, FS_RemoveElement
  <2> QED
    BY <1>1, <1>2, <2>2, <2>3, McpBounds
<1> QED
  BY <1>3, <1>4

(* What the count of a credential is made of after a step.                 *)
LEMMA CountsAfter ==
  ASSUME TypeOK, RateInv, asks' = asks, NEW n \in Credentials,
         \/ Counted(n)' \subseteq Counted(n) /\ Owing(n)' \subseteq Owing(n)
         \/ \E row, k : Counted(n)' \subseteq Counted(n) \cup {row} /\ k \in Owing(n) /\ Owing(n)' = Owing(n) \ {k}
  PROVE  Used(n)' + Cardinality(Owing(n))' <= RateLimit + Cardinality(Callers)' - 1
<1>1. Cardinality(Counted(n)') + Cardinality(Owing(n)') <= RateLimit + Cardinality(Callers) - 1
  BY NoMoreThanBefore
<1> QED
  BY <1>1 DEF Used, Counted, Callers

(* Being let through is for those who find the window not yet full.        *)
LEMMA EnteringKeepsRate ==
  ASSUME TypeOK, RateInv, NEW k \in Callers, enforceRateLimit(k)
  PROVE  RateInv'
<1>0. PICK n \in Credentials : n = call[k].by
  BY DEF TypeOK, Callers
<1>1. /\ now' = now /\ asks' = asks /\ audit' = audit /\ Callers' = Callers
  BY DEF enforceRateLimit, CallSame, accountVars, Callers
<1>2. k \in Clients /\ call[k].at = "counts"
  BY DEF Callers, enforceRateLimit, Calls
<1>3. \A j \in Callers : j # k => call'[j] = call[j]
  BY <1>2 DEF enforceRateLimit, Moves, TypeOK, Callers
<1>4. call'[k].by = n
  BY <1>0, <1>2 DEF enforceRateLimit, Moves, TypeOK
<1>5. \A m \in Credentials : Counted(m)' = Counted(m)
  BY <1>1 DEF Counted
<1>6. ASSUME NEW m \in Credentials, m # n
      PROVE  Used(m)' + Cardinality(Owing(m))' <= RateLimit + Cardinality(Callers)' - 1
  <2>1. Owing(m)' \subseteq Owing(m)
    BY <1>1, <1>3, <1>4, <1>6 DEF Owing
  <2> QED
    BY <1>1, <1>5, <2>1, CountsAfter
<1>7. Used(n)' + Cardinality(Owing(n))' <= RateLimit + Cardinality(Callers)' - 1
  <2>1. CASE WithinRate(n)
    <3>1. Owing(n)' \subseteq Callers
      BY <1>1 DEF Owing
    <3>2. /\ Cardinality(Owing(n)') <= Cardinality(Callers) /\ Cardinality(Owing(n)') \in Nat
          /\ Cardinality(Callers) \in Nat
      BY <1>2, <3>1, CountsAreNumbers, FS_Subset, FS_CardinalityType
    <3>3. Used(n) \in Nat /\ Used(n) + 1 <= RateLimit
      BY <1>2, <2>1, CountsAreNumbers, McpBounds DEF WithinRate
    <3>4. Used(n)' = Used(n)
      BY <1>1 DEF Used
    <3> QED
      BY <1>1, <3>2, <3>3, <3>4, McpBounds
  <2>2. CASE ~WithinRate(n)
    <3>1. call'[k].at = "idle"
      BY <1>0, <1>2, <2>2 DEF enforceRateLimit, Moves, TypeOK
    <3>2. Owing(n)' \subseteq Owing(n)
      BY <1>1, <1>3, <3>1 DEF Owing, Recording
    <3> QED
      BY <1>1, <1>2, <1>5, <3>2, CountsAfter
  <2> QED
    BY <2>1, <2>2
<1> QED
  BY <1>6, <1>7 DEF RateInv

(* A recorded request becomes a row of the window and owes none.           *)
LEMMA RecordingKeepsRate ==
  ASSUME TypeOK, RateInv, NEW k \in Callers, recordRequest(k)
  PROVE  RateInv'
<1>0. PICK n \in Credentials : n = call[k].by
  BY DEF TypeOK, Callers
<1>1. /\ now' = now /\ asks' = asks /\ Callers' = Callers
      /\ audit' = [audit EXCEPT ![n] = Append(audit[n], now)]
  BY <1>0 DEF recordRequest, CallSame, accountVars, Callers
<1>2. k \in Clients /\ k \in Owing(n)
  BY <1>0 DEF Callers, recordRequest, Owing
<1>3. call'[k].at = "idle" /\ \A j \in Callers : j # k => call'[j] = call[j]
  BY <1>2 DEF recordRequest, Moves, TypeOK, Callers
<1>4. /\ Owing(n)' = Owing(n) \ {k}
      /\ \A m \in Credentials \ {n} : Owing(m)' = Owing(m)
  BY <1>0, <1>1, <1>3 DEF Owing, Recording
<1>5. ASSUME NEW m \in Credentials, m # n PROVE Counted(m)' = Counted(m)
  BY <1>1, <1>5 DEF Counted, TypeOK
<1>6. Counted(n)' \subseteq Counted(n) \cup {Len(audit[n]) + 1}
  <2>1. audit[n] \in Seq(1 .. MaxTime) /\ audit'[n] = Append(audit[n], now)
    BY <1>1, <1>2 DEF TypeOK
  <2>2. /\ DOMAIN audit'[n] = DOMAIN audit[n] \cup {Len(audit[n]) + 1}
        /\ \A i \in DOMAIN audit[n] : audit'[n][i] = audit[n][i]
    BY <2>1
  <2>3. \A i \in DOMAIN audit[n] : audit'[n][i] >= now - Window => audit[n][i] >= now - Window
    BY <2>2
  <2> HIDE DEF Counted
  <2> QED
    BY <1>1, <2>2, <2>3 DEF Counted
<1> SUFFICES ASSUME NEW m \in Credentials
             PROVE  Used(m)' + Cardinality(Owing(m))' <= RateLimit + Cardinality(Callers)' - 1
  BY DEF RateInv
<1>7. CASE m = n
  BY <1>1, <1>2, <1>4, <1>6, <1>7, CountsAfter
<1>8. CASE m # n
  BY <1>1, <1>4, <1>5, <1>8, CountsAfter
<1> QED
  BY <1>7, <1>8

(* Every other step counts no row more and lets nobody through.            *)
LEMMA OthersKeepRate ==
  ASSUME TypeOK, RateInv, asks' = asks, audit' = audit, now' \in Nat, now' >= now,
         \A k \in Callers : \/ call'[k] = call[k] \/ call'[k].at \in {"idle", "counts"}
                            \/ /\ call[k].at \in {"runs"} \cup Recording
                               /\ call'[k].by = call[k].by
  PROVE  RateInv'
<1>1. Callers' = Callers
  BY DEF Callers
<1>2. ASSUME NEW n \in Credentials PROVE Owing(n)' \subseteq Owing(n)
  BY <1>1 DEF Owing, Recording
<1>3. ASSUME NEW n \in Credentials PROVE Counted(n)' \subseteq Counted(n)
  <2>1. now \in Nat /\ \A i \in DOMAIN audit[n] : audit[n][i] \in Nat
    <3>1. now \in 1 .. MaxTime /\ audit[n] \in Seq(1 .. MaxTime)
      BY DEF TypeOK, AccountTypeOK
    <3> QED
      BY <3>1, AccountBounds
  <2> QED
    BY <2>1, McpBounds DEF Counted
<1> QED
  BY <1>2, <1>3, CountsAfter DEF RateInv

(* A call that passes the limit joins those between their check and their audit
   row; every other step keeps the sum or lowers it. *)
LEMMA StepKeepsRate == ASSUME TypeOK, TypeOK', RateInv, [Next]_vars PROVE RateInv'
<1>1. now \in Nat /\ now' \in Nat
  BY DEF TypeOK, AccountTypeOK
<1>2. CASE AccountNext /\ UNCHANGED callVars
  <2>1. CASE Tick
    BY <1>1, <1>2, <2>1, OthersKeepRate DEF callVars, Tick
  <2>2. ASSUME NEW c \in Clients, ClientStep(c) PROVE UNCHANGED <<now, asks>>
    <3>1. CASE LoginStep(c)
      BY <3>1 DEF LoginStep, LoginRefused, LoginReads, LoginFails, LoginUpdatesUser, LoginCommits, RowsSame
    <3>2. CASE PasswordStep(c)
      BY <3>2 DEF PasswordStep, ChangeReads, ChangeUpdatesUser, ChangeFindsSessions, ChangeCommits, RowsSame
    <3>3. CASE SessionStep(c)
      BY <3>3 DEF SessionStep, Asks, Forbidden, Logout, RevokeAllSessions, RowsSame
    <3> QED
      BY <2>2, <3>1, <3>2, <3>3 DEF ClientStep
  <2> QED
    BY <1>1, <1>2, <2>1, <2>2, OthersKeepRate DEF callVars, AccountNext
<1>3. ASSUME NEW c \in Clients, SettingsStep(c) PROVE RateInv'
  <2>1. UNCHANGED <<now, asks, audit, call>>
    BY <1>3 DEF SettingsStep, CreateFindsNone, CreateInserts, RevokeFinds, RevokeWrites, RowsSame,
                SettingsSame, callVars
  <2> QED
    BY <1>1, <2>1, OthersKeepRate
<1>4. ASSUME NEW k \in Callers, authenticate(k) \/ callTool(k) \/ RecordFails(k) PROVE RateInv'
  <2>1. UNCHANGED <<now, asks, audit>>
    BY <1>4 DEF authenticate, callTool, RecordFails, CallSame, accountVars
  <2>2. \A j \in Callers : j # k => call'[j] = call[j]
    BY <1>4 DEF authenticate, callTool, RecordFails, Moves, TypeOK, Callers
  <2>3. \/ call'[k].at \in {"idle", "counts"}
        \/ call[k].at \in {"runs"} \cup Recording /\ call'[k].by = call[k].by
    <3>1. k \in Clients /\ call \in [Clients -> [at : Recording \cup {"idle", "counts", "runs"},
                                               sent : 0 .. MaxRequests, by : Credentials]]
      BY DEF TypeOK, Callers
    <3>2. CASE authenticate(k)
      <4>1. PICK n \in Credentials :
              call' = [call EXCEPT ![k] = [at |-> IF Usable(n) THEN "counts" ELSE "idle",
                                           sent |-> call[k].sent + 1, by |-> n]]
        BY <3>2 DEF authenticate
      <4>2. call'[k].at = IF Usable(n) THEN "counts" ELSE "idle"
        BY <3>1, <4>1
      <4> QED
        BY <4>2
    <3>3. CASE callTool(k) \/ RecordFails(k)
      BY <3>1, <3>3 DEF callTool, RecordFails, Moves, Calls
    <3> QED
      BY <1>4, <3>2, <3>3
  <2> QED
    BY <1>1, <2>1, <2>2, <2>3, OthersKeepRate
<1>5. ASSUME NEW k \in Callers, enforceRateLimit(k) \/ recordRequest(k) PROVE RateInv'
  BY <1>5, EnteringKeepsRate, RecordingKeepsRate
<1>6. CASE UNCHANGED vars
  BY <1>1, <1>6, OthersKeepRate DEF vars, accountVars, callVars
<1> QED
  BY <1>2, <1>3, <1>4, <1>5, <1>6 DEF Next, CallStep

(* Nobody has called yet. *)
LEMMA InitRateInv == ASSUME Init PROVE RateInv
<1> SUFFICES ASSUME NEW n \in Credentials
             PROVE  Used(n) + Cardinality(Owing(n)) <= RateLimit + Cardinality(Callers) - 1
  BY DEF RateInv
<1>1. Counted(n) = {} /\ Owing(n) = {}
  BY DEF Init, Counted, Owing, NoCall, Recording, Callers
<1>2. Cardinality(Callers) \in Nat
  BY InitTypeOK, CountsAreNumbers
<1>3. Used(n) = 0 /\ Cardinality(Owing(n)) = 0
  BY <1>1, FS_EmptySet DEF Used, Counted
<1> QED
  BY <1>2, <1>3, McpBounds

(* With c requests of the endpoint under way at once no credential has more*)
(* than RateLimit + c - 1 rows in a window: the rows there are and the     *)
(* requests let through that still owe theirs are no more than that.       *)
THEOREM OvershootIsBounded == Spec => []RateOvershootBounded
<1>1. AccountInv /\ TypeOK /\ RateInv /\ [Next]_vars => AccountInv' /\ TypeOK' /\ RateInv'
  BY StepKeepsAccounts, StepKeepsTypes, StepKeepsRate
<1>2. TypeOK /\ RateInv => RateOvershootBounded
  <2> SUFFICES ASSUME TypeOK, RateInv, NEW n \in Credentials
               PROVE  Used(n) <= RateLimit + Cardinality(Callers) - 1
    BY DEF RateOvershootBounded
  <2> QED
    BY CountsAreNumbers, McpBounds DEF RateInv
<1> QED
  BY <1>1, <1>2, InitTypeOK, InitRateInv, PTL DEF Spec
=============================================================================
