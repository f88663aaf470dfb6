------------------------------- MODULE WebAuth -------------------------------
(***************************************************************************)
(* Sessions and passwords of the web portal (internal/web/server.go) over  *)
(* the credentials of the store (internal/store/store.go).                 *)
(*                                                                         *)
(* A login reads the credential, compares the password for a long time,    *)
(* reads the credential again and only then takes the lock to insert its   *)
(* session.  A request looks its session up under the lock, compares it    *)
(* with the credential outside of the lock, does so again for its role and *)
(* once more in the handlers of users, and then writes.  Requests, logins  *)
(* and the CLI of ktunneld interleave at each of these points.             *)
(*                                                                         *)
(* Sessions are numbered in the order of their creation; all live equally  *)
(* long, so they also expire in this order: those up to lapsed have.       *)
(* A password stands for its bcrypt hash, NoPassword for the empty one.    *)
(***************************************************************************)
EXTENDS Naturals, FiniteSets

CONSTANTS
  User, Admin,     \* the principals
  Password,        \* the passwords they choose from
  NoPassword,
  InitialHash,     \* [Principal -> Password and NoPassword] when the daemon starts
  Request, Login,  \* slots: requests and logins in flight
  PerPrincipal,    \* maxSessionsPerPrincipal
  Capacity,        \* maxWebSessions
  MaxSessions,     \* bound: sessions ever created
  MaxVersion       \* bound: changes of one credential

Principal == User \cup {Admin}
SessionId == 1..MaxSessions

ASSUME PrincipalAssumption ==
  /\ Admin \notin User
  /\ NoPassword \notin Password
  /\ InitialHash \in [Principal -> Password \cup {NoPassword}]

ASSUME LimitAssumption ==
  /\ PerPrincipal \in Nat \ {0}
  /\ Capacity \in Nat \ {0}
  /\ MaxSessions \in Nat
  /\ MaxVersion \in Nat

VARIABLES
  \* the database: users.*, and the administrator's settings
  hash,      \* web_password_hash, admin_password_hash
  version,   \* web_auth_version, admin_web_auth_version
  must,      \* password_change_required
  disabled,  \* users.disabled
  \* the memory of the portal
  sessions,  \* the ids in Server.sessions
  row,       \* what a session holds
  created,   \* the sessions created so far
  lapsed,    \* the sessions up to this one have expired
  login,     \* logins in flight
  request    \* requests in flight

credentials == <<hash, version, must, disabled>>
table       == <<sessions, row, created>>
vars        == <<credentials, table, lapsed, login, request>>

Row        == [principal : Principal, version : 0..MaxVersion, must : BOOLEAN]
Credential == [hash : Password \cup {NoPassword}, version : 0..MaxVersion,
               must : BOOLEAN, disabled : BOOLEAN]

\* credentialForUsername, AdminWebCredential and User read all of it at once.
CredentialOf(p) == [hash |-> hash[p], version |-> version[p],
                    must |-> must[p], disabled |-> disabled[p]]

OwnerOf(s)     == row[s].principal
SessionsOf(p)  == {s \in sessions : OwnerOf(s) = p}

\* A slip of sessionCredentialCurrent: no look at the version.
UsableIgnoringVersion(s) ==
  hash[OwnerOf(s)] # NoPassword /\ ~disabled[OwnerOf(s)]

\* sessionCredentialCurrent.
Usable(s) ==
  /\ hash[OwnerOf(s)] # NoPassword
  /\ ~disabled[OwnerOf(s)]
  /\ row[s].version = version[OwnerOf(s)]

NoLogin   == [pc |-> "idle", principal |-> Admin,
              cred |-> [hash |-> NoPassword, version |-> 0, must |-> FALSE, disabled |-> FALSE]]
NoRequest == [pc |-> "idle", op |-> "logout", round |-> 1, session |-> 0,
              subject |-> Admin, proved |-> NoPassword, version |-> 0, since |-> 0]

\* The user's own password, another user's password, enabling and disabling,
\* the administrator's own password, leaving.
Op       == {"account", "reset", "switch", "settings", "logout"}
AdminOp  == {"reset", "switch", "settings"}

TypeOK ==
  /\ hash \in [Principal -> Password \cup {NoPassword}]
  /\ version \in [Principal -> 0..MaxVersion]
  /\ must \in [Principal -> BOOLEAN]
  /\ disabled \in [Principal -> BOOLEAN]
  /\ sessions \in SUBSET SessionId
  /\ row \in [SessionId -> Row]
  /\ created \in 0..MaxSessions
  /\ lapsed \in 0..MaxSessions
  /\ login \in [Login -> [pc : {"idle", "confirm", "insert"}, principal : Principal,
                          cred : Credential]]
  /\ \A l \in Login : login[l].pc # "idle"
       => login[l].cred.hash # NoPassword /\ ~login[l].cred.disabled
  /\ request \in [Request ->
       [pc : {"idle", "lookup", "current", "handle", "commit", "invalidate", "unchanged"},
        op : Op, round : 1..3, session : 0..MaxSessions,
        subject : Principal, proved : Password \cup {NoPassword},
        version : 0..MaxVersion, since : 0..MaxVersion]]

Init ==
  /\ hash = InitialHash
  /\ version = [p \in Principal |-> 0]
  /\ must = [p \in Principal |-> FALSE]
  /\ disabled = [p \in Principal |-> FALSE]
  /\ sessions = {}
  /\ row = [s \in SessionId |-> [principal |-> Admin, version |-> 0, must |-> FALSE]]
  /\ created = 0
  /\ lapsed = 0
  /\ login = [l \in Login |-> NoLogin]
  /\ request = [r \in Request |-> NoRequest]

-----------------------------------------------------------------------------
(* Logging in.                                                             *)

\* loginSubmit compares the password with the credential it reads; whoever
\* does not know it, or has none, or is disabled goes no further.
Attempt(l, p) ==
  /\ login[l].pc = "idle"
  /\ hash[p] # NoPassword /\ ~disabled[p]
  /\ login' = [login EXCEPT ![l] = [pc |-> "confirm", principal |-> p, cred |-> CredentialOf(p)]]
  /\ UNCHANGED <<credentials, table, lapsed, request>>

\* createSession, before the lock: the credential is read again.
Confirm(l) ==
  LET c == login[l].cred
      p == login[l].principal
  IN  /\ login[l].pc = "confirm"
      /\ login' = [login EXCEPT ![l] =
           IF c.hash = hash[p] /\ ~disabled[p] /\ c.version = version[p]
           THEN [@ EXCEPT !.pc = "insert"] ELSE NoLogin]
      /\ UNCHANGED <<credentials, table, lapsed, request>>

\* The same, when the database does not answer: there is no credential then.
ConfirmUnread(l) ==
  /\ login[l].pc = "confirm"
  /\ login' = [login EXCEPT ![l] = NoLogin]
  /\ UNCHANGED <<credentials, table, lapsed, request>>

\* What pruneSessionsLocked leaves, and the first of it to expire.
Fresh     == {s \in sessions : s > lapsed}
Oldest(S) == CHOOSE s \in S : \A t \in S : s <= t

\* A slip of createSession: a full table loses its oldest session, whoever's.
RoomForAnyone(p) ==
  LET mine == Fresh \cap SessionsOf(p)
  IN  IF Cardinality(mine) >= PerPrincipal THEN Fresh \ {Oldest(mine)}
      ELSE IF Cardinality(Fresh) >= Capacity THEN Fresh \ {Oldest(Fresh)}
      ELSE Fresh

\* A slip of createSession: one session too many.
RoomForOneMore(p) ==
  LET mine == Fresh \cap SessionsOf(p)
  IN  IF Cardinality(mine) > PerPrincipal THEN Fresh \ {Oldest(mine)} ELSE Fresh

\* createSession, under the lock: the expired sessions go, and the oldest of
\* the principal when it has its full number.
Room(p) ==
  LET mine == Fresh \cap SessionsOf(p)
  IN  IF Cardinality(mine) >= PerPrincipal THEN Fresh \ {Oldest(mine)} ELSE Fresh

\* createSession refuses when the table is still full.
Insert(l) ==
  LET p == login[l].principal
      c == login[l].cred
      s == created + 1
  IN  /\ login[l].pc = "insert"
      /\ created < MaxSessions
      /\ IF Cardinality(Room(p)) >= Capacity
         THEN sessions' = Room(p) /\ UNCHANGED <<row, created>>
         ELSE /\ sessions' = Room(p) \cup {s}
              /\ row' = [row EXCEPT ![s] =
                           [principal |-> p, version |-> c.version, must |-> c.must]]
              /\ created' = s
      /\ login' = [login EXCEPT ![l] = NoLogin]
      /\ UNCHANGED <<credentials, lapsed, request>>

-----------------------------------------------------------------------------
(* A request: currentSession once for auth, once for the role, and once    *)
(* more in the handlers of users.                                          *)

Rounds(op)  == CASE op = "logout" -> 1 [] op = "account" -> 3 [] OTHER -> 2
IsAdmin(s)  == s # 0 /\ OwnerOf(s) = Admin

\* A browser sends the cookie of a session it once got.
Arrive(r, s, op) ==
  /\ request[r].pc = "idle"
  /\ s <= created
  /\ request' = [request EXCEPT ![r] =
       [NoRequest EXCEPT !.pc = "lookup", !.op = op, !.session = s,
                         !.since = version[OwnerOf(s)]]]
  /\ UNCHANGED <<credentials, table, lapsed, login>>

\* A slip of the routes: whoever is logged in is as good as an administrator.
RejectedStrangers(q, s) ==
  q.round = 1 /\ (s = 0 \/ (row[s].must /\ q.op \notin {"account", "logout"}))

\* auth, admin and userOnly: does the request end with what currentSession gave?
\* A session that is gone is 0: it never comes back, and counts as no admin's.
Rejected(q, s) ==
  \/ q.round = 1 /\ (s = 0 \/ (row[s].must /\ q.op \notin {"account", "logout"}))
  \/ q.round = 2 /\ (q.op \in AdminOp <=> ~IsAdmin(s))

Proceed(r, s) ==
  LET q == request[r]
  IN  request' = [request EXCEPT ![r] =
        IF Rejected(q, s) THEN NoRequest
        ELSE IF q.round < Rounds(q.op)
        THEN [q EXCEPT !.session = s, !.round = @ + 1, !.pc = "lookup"]
        ELSE [q EXCEPT !.session = s, !.round = 1, !.pc = "handle"]]

\* The handler has written; it has invalidatePrincipal still to call.
Written(r, p) ==
  request' = [request EXCEPT ![r] = [NoRequest EXCEPT !.pc = "invalidate", !.subject = p]]

\* currentSession, under the lock.
Lookup(r) ==
  /\ request[r].pc = "lookup"
  /\ IF request[r].session \in sessions
     THEN request' = [request EXCEPT ![r].pc = "current"]
     ELSE Proceed(r, 0)
  /\ UNCHANGED <<credentials, table, lapsed, login>>

\* currentSession, outside of the lock; what has expired or is out of date is
\* deleted.
Current(r) ==
  LET s == request[r].session
      ok == s > lapsed /\ Usable(s)
  IN  /\ request[r].pc = "current"
      /\ Proceed(r, IF ok THEN s ELSE 0)
      /\ sessions' = IF ok THEN sessions ELSE sessions \ {s}
      /\ UNCHANGED <<credentials, row, created, lapsed, login>>

\* The same, when the database does not answer: whatever cannot be read is not
\* current, and the session is deleted.
CurrentUnread(r) ==
  /\ request[r].pc = "current"
  /\ Proceed(r, 0)
  /\ sessions' = sessions \ {request[r].session}
  /\ UNCHANGED <<credentials, row, created, lapsed, login>>

Logout(r) ==
  /\ request[r].pc = "handle" /\ request[r].op = "logout"
  /\ sessions' = sessions \ {request[r].session}
  /\ request' = [request EXCEPT ![r] = NoRequest]
  /\ UNCHANGED <<credentials, row, created, lapsed, login>>

\* userPasswordChange and adminPasswordChange verify the current password; a
\* user handler without a session finds no user.
Verify(r) ==
  LET q == request[r]
      p == IF q.op = "account" THEN OwnerOf(q.session) ELSE Admin
      knows == /\ q.op = "account" => q.session # 0
               /\ hash[p] # NoPassword
  IN  /\ q.pc = "handle" /\ q.op \in {"account", "settings"}
      /\ \/ /\ knows
            /\ request' = [request EXCEPT ![r] =
                 [q EXCEPT !.pc = "commit", !.subject = p, !.proved = hash[p],
                           !.version = version[p]]]
         \/ request' = [request EXCEPT ![r] = NoRequest]
      /\ UNCHANGED <<credentials, table, lapsed, login>>

\* A new password for p; every change advances the version.
SetPassword(p, pw, temporary) ==
  /\ version[p] < MaxVersion
  /\ hash' = [hash EXCEPT ![p] = pw]
  /\ must' = [must EXCEPT ![p] = temporary]
  /\ version' = [version EXCEPT ![p] = @ + 1]
  /\ UNCHANGED disabled

\* A slip of SetUserWebPasswordIfVersion: last writer wins.
CommitAnyway(r, pw) ==
  LET q == request[r]
  IN  /\ q.pc = "commit"
      /\ pw # q.proved
      /\ SetPassword(q.subject, pw, FALSE)
      /\ Written(r, q.subject)
      /\ UNCHANGED <<table, lapsed, login>>

\* A slip of userPasswordChange: the new password may be the old one.
CommitSame(r, pw) ==
  LET q == request[r]
  IN  /\ q.pc = "commit"
      /\ IF version[q.subject] = q.version
         THEN /\ SetPassword(q.subject, pw, FALSE)
              /\ Written(r, q.subject)
         ELSE /\ request' = [request EXCEPT ![r] = NoRequest]
              /\ UNCHANGED credentials
      /\ UNCHANGED <<table, lapsed, login>>

\* Set...WebPasswordIfVersion: another password, if nothing changed since.
Commit(r, pw) ==
  LET q == request[r]
  IN  /\ q.pc = "commit"
      /\ pw # q.proved
      /\ IF version[q.subject] = q.version
         THEN /\ SetPassword(q.subject, pw, FALSE)
              /\ Written(r, q.subject)
         ELSE /\ request' = [request EXCEPT ![r] = NoRequest]
              /\ UNCHANGED credentials
      /\ UNCHANGED <<table, lapsed, login>>

\* userPasswordReset: a temporary password.
Reset(r, u, pw) ==
  /\ request[r].pc = "handle" /\ request[r].op = "reset"
  /\ SetPassword(u, pw, TRUE)
  /\ Written(r, u)
  /\ UNCHANGED <<table, lapsed, login>>

\* A slip of SetUserDisabled: the sessions of the user stay current.
SetDisabledOnly(u, d) ==
  /\ disabled' = [disabled EXCEPT ![u] = d]
  /\ UNCHANGED <<hash, must, version>>

\* SetUserDisabled: disabling and enabling advance the version too.
SetDisabled(u, d) ==
  /\ version[u] < MaxVersion
  /\ disabled' = [disabled EXCEPT ![u] = d]
  /\ version' = [version EXCEPT ![u] = @ + 1]
  /\ UNCHANGED <<hash, must>>

\* userSetDisabled.
Switch(r, u, d) ==
  /\ request[r].pc = "handle" /\ request[r].op = "switch"
  /\ SetDisabled(u, d)
  /\ Written(r, u)
  /\ UNCHANGED <<table, lapsed, login>>

\* userSetDisabled when the database refuses: invalidatePrincipal all the same.
SwitchUnwritten(r, u) ==
  /\ request[r].pc = "handle" /\ request[r].op = "switch"
  /\ request' = [request EXCEPT ![r] = [NoRequest EXCEPT !.pc = "unchanged", !.subject = u]]
  /\ UNCHANGED <<credentials, table, lapsed, login>>

\* userPasswordReset and the changes of passwords end there.
Unwritten(r) ==
  /\ \/ request[r].pc = "handle" /\ request[r].op = "reset"
     \/ request[r].pc = "commit"
  /\ request' = [request EXCEPT ![r] = NoRequest]
  /\ UNCHANGED <<credentials, table, lapsed, login>>

\* invalidatePrincipal.
Invalidate(r) ==
  /\ request[r].pc \in {"invalidate", "unchanged"}
  /\ sessions' = sessions \ SessionsOf(request[r].subject)
  /\ request' = [request EXCEPT ![r] = NoRequest]
  /\ UNCHANGED <<credentials, row, created, lapsed, login>>

-----------------------------------------------------------------------------
(* The CLI, in processes of their own: nothing tells the portal.           *)

CliAdminPassword(pw) ==
  /\ SetPassword(Admin, pw, FALSE)
  /\ UNCHANGED <<table, lapsed, login, request>>

CliSwitch(u, d) ==
  /\ SetDisabled(u, d)
  /\ UNCHANGED <<table, lapsed, login, request>>

\* Time passes for the oldest sessions.
Lapse ==
  /\ lapsed < created
  /\ lapsed' = lapsed + 1
  /\ UNCHANGED <<credentials, table, login, request>>

\* The daemon restarts: its memory is gone, the database is not.
Restart ==
  /\ created > 0
  /\ sessions' = {}
  /\ login' = [l \in Login |-> NoLogin]
  /\ request' = [r \in Request |-> NoRequest]
  /\ UNCHANGED <<credentials, row, created, lapsed>>

LoginNext(l) ==
  \/ \E p \in Principal : Attempt(l, p)
  \/ Confirm(l) \/ ConfirmUnread(l)
  \/ Insert(l)

RequestNext(r) ==
  \/ \E s \in SessionId, op \in Op : Arrive(r, s, op)
  \/ Lookup(r)
  \/ Current(r) \/ CurrentUnread(r)
  \/ Logout(r)
  \/ Verify(r)
  \/ \E pw \in Password : Commit(r, pw)
  \/ \E u \in User, pw \in Password : Reset(r, u, pw)
  \/ \E u \in User, d \in BOOLEAN : Switch(r, u, d)
  \/ \E u \in User : SwitchUnwritten(r, u)
  \/ Unwritten(r)
  \/ Invalidate(r)

Next ==
  \/ \E l \in Login : LoginNext(l)
  \/ \E r \in Request : RequestNext(r)
  \/ \E pw \in Password : CliAdminPassword(pw)
  \/ \E u \in User, d \in BOOLEAN : CliSwitch(u, d)
  \/ Lapse
  \/ Restart

Spec == Init /\ [][Next]_vars

-----------------------------------------------------------------------------
\* A session of the current version of a credential agrees with it: its holder
\* is enabled, has a password, and must change it exactly if the store says so;
\* however the login, resets, disabling and enabling interleaved.
SessionsAgree ==
  \A s \in sessions :
    row[s].version = version[OwnerOf(s)]
      => /\ hash[OwnerOf(s)] # NoPassword
         /\ ~disabled[OwnerOf(s)]
         /\ row[s].must = must[OwnerOf(s)]

\* maxSessionsPerPrincipal and maxWebSessions hold whatever logins race.
SessionsBounded ==
  /\ Cardinality(sessions) <= Capacity
  /\ \A p \in Principal : Cardinality(SessionsOf(p)) <= PerPrincipal

\* What a request writes it writes for a session whose credential had not been
\* changed when the request arrived: a password change, a reset or a disabling
\* cuts off every earlier session, also one that came into the table later.
OldSessionsChangeNothing ==
  [][\A r \in Request :
       request[r].pc # "invalidate" /\ request'[r].pc = "invalidate"
         => /\ request[r].session # 0
            /\ row[request[r].session].version >= request[r].since]_vars

\* A password is replaced by its owner only while it is the one the owner proved:
\* an administrator's reset in between is never overwritten.
ResetIsNotOverwritten ==
  [][\A r \in Request :
       request[r].pc = "commit" /\ request'[r].pc = "invalidate"
         => hash[request[r].subject] = request[r].proved]_vars

\* A temporary password only stops being temporary by being replaced.
TemporaryIsReplaced ==
  [][\A u \in User : must[u] /\ ~must'[u] => hash'[u] # hash[u]]_vars

\* A session goes away for a cause: it expired or is out of date, its holder
\* left or is being invalidated, also when nothing could be written, the database
\* did not answer a request of its own, the portal restarted, or its holder got
\* another session.  A refused login costs nobody anything, and nobody's login or
\* request costs somebody else a session.
NoSessionLostWithoutCause ==
  [][\A s \in sessions \ sessions' :
       \/ s <= lapsed
       \/ ~Usable(s)
       \/ \E r \in Request : \/ request[r].op = "logout" /\ request[r].session = s
                             \/ /\ request[r].pc \in {"invalidate", "unchanged"}
                                /\ request[r].subject = OwnerOf(s)
                             \/ CurrentUnread(r) /\ request[r].session = s
       \/ /\ login' = [l \in Login |-> NoLogin]
          /\ request' = [r \in Request |-> NoRequest]
       \/ \E t \in sessions' \ sessions : row'[t].principal = OwnerOf(s)]_vars

-----------------------------------------------------------------------------
(* WebAuth implements PortalAccess.                                        *)

InForce(s) == s > lapsed /\ Usable(s)

\* From the lookup that found the session, if its credential is current then:
\* should that change before the comparison, the request is turned away.
Authorised(q) ==
  /\ q.session # 0
  /\ \/ q.pc \in {"handle", "commit"}
     \/ q.pc \in {"lookup", "current"} /\ q.round > 1
     \/ q.pc = "current" /\ InForce(q.session)

Access == INSTANCE PortalAccess
            WITH Session <- SessionId,
                 era     <- version,
                 open    <- {p \in Principal : hash[p] # NoPassword /\ ~disabled[p]},
                 past    <- 1..created,
                 owner   <- [s \in SessionId |-> OwnerOf(s)],
                 live    <- {s \in sessions : InForce(s)},
                 allowed <- [r \in Request |->
                               {s \in {request[r].session} : Authorised(request[r])}],
                 done    <- [r \in Request |->
                               {p \in {request[r].subject} : request[r].pc = "invalidate"}]

\* currentSession, which looks the session up and compares it with the credential
\* at two different times, amounts to one check at one time; and comparing
\* versions amounts to ending all sessions at the change, whatever logins are
\* under way.
ImplementsAccess == Access!Spec
=============================================================================
