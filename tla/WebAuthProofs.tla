---------------------------- MODULE WebAuthProofs ----------------------------
(***************************************************************************)
(* Theorems about WebAuth for every value of its constants.                *)
(***************************************************************************)
EXTENDS WebAuth, FiniteSetTheorems, WellFoundedInduction, TLAPS

\* The types of the slots for logins and requests.
LoginSlot == [pc : {"idle", "confirm", "insert"}, principal : Principal, cred : Credential]

RequestSlot ==
  [pc : {"idle", "lookup", "current", "handle", "commit", "invalidate", "unchanged"},
   op : Op, round : 1..3, session : 0..MaxSessions,
   subject : Principal, proved : Password \cup {NoPassword},
   version : 0..MaxVersion, since : 0..MaxVersion]

LoginsOK ==
  /\ login \in [Login -> LoginSlot]
  /\ \A l \in Login : login[l].pc # "idle"
       => login[l].cred.hash # NoPassword /\ ~login[l].cred.disabled

CredentialsOK ==
  /\ hash \in [Principal -> Password \cup {NoPassword}]
  /\ version \in [Principal -> 0..MaxVersion]
  /\ must \in [Principal -> BOOLEAN]
  /\ disabled \in [Principal -> BOOLEAN]

TableOK ==
  /\ sessions \in SUBSET SessionId
  /\ row \in [SessionId -> Row]
  /\ created \in 0..MaxSessions
  /\ lapsed \in 0..MaxSessions

RequestsOK == request \in [Request -> RequestSlot]

\* TypeOK in its parts.
LEMMA TypeParts == TypeOK <=> CredentialsOK /\ TableOK /\ LoginsOK /\ RequestsOK
  BY DEF TypeOK, CredentialsOK, TableOK, LoginsOK, RequestsOK, LoginSlot, RequestSlot

\* The blank slots are slots.
LEMMA BlankSlots == NoLogin \in LoginSlot /\ NoRequest \in RequestSlot
  <1>1. Admin \in Principal /\ 0 \in 0..MaxVersion /\ 0 \in 0..MaxSessions /\ 1 \in 1..3
    BY LimitAssumption DEF Principal
  <1>2. [hash |-> NoPassword, version |-> 0, must |-> FALSE, disabled |-> FALSE] \in Credential
    BY <1>1 DEF Credential
  <1>3. NoLogin \in LoginSlot
    BY <1>1, <1>2 DEF NoLogin, LoginSlot
  <1>4. NoRequest \in RequestSlot
    BY <1>1 DEF NoRequest, RequestSlot, Op
  <1>5. QED
    BY <1>3, <1>4

\* A change of a password, or of the switch, keeps the credentials well typed
\* and advances the version of the one it is about.
LEMMA SetPasswordType ==
  ASSUME CredentialsOK, NEW p \in Principal, NEW pw \in Password, NEW t \in BOOLEAN,
         SetPassword(p, pw, t)
  PROVE  CredentialsOK'
  <1>1. version[p] + 1 \in 0..MaxVersion
    BY LimitAssumption DEF CredentialsOK, SetPassword
  <1>2. QED
    BY <1>1 DEF CredentialsOK, SetPassword

LEMMA SetDisabledType ==
  ASSUME CredentialsOK, NEW p \in Principal, NEW d \in BOOLEAN, SetDisabled(p, d)
  PROVE  CredentialsOK'
  <1>1. version[p] + 1 \in 0..MaxVersion
    BY LimitAssumption DEF CredentialsOK, SetDisabled
  <1>2. QED
    BY <1>1 DEF CredentialsOK, SetDisabled

\* A request that has written is well typed.
LEMMA WrittenType ==
  ASSUME RequestsOK, NEW r \in Request, NEW p \in Principal, Written(r, p)
  PROVE  RequestsOK'
  <1>1. [NoRequest EXCEPT !.pc = "invalidate", !.subject = p] \in RequestSlot
    BY BlankSlots DEF RequestSlot
  <1>2. QED
    BY <1>1 DEF RequestsOK, Written

\* So is one that moves on with what currentSession gave.
LEMMA ProceedType ==
  ASSUME RequestsOK, NEW r \in Request, NEW s \in 0..MaxSessions, Proceed(r, s)
  PROVE  RequestsOK'
  <1> DEFINE q == request[r]
  <1>1. q \in RequestSlot
    BY DEF RequestsOK
  <1>2. q.round < Rounds(q.op) => q.round + 1 \in 1..3
    BY <1>1 DEF RequestSlot, Rounds
  <1>3. q.round < Rounds(q.op)
          => [q EXCEPT !.session = s, !.round = @ + 1, !.pc = "lookup"] \in RequestSlot
    BY <1>1, <1>2 DEF RequestSlot
  <1>4. [q EXCEPT !.session = s, !.round = 1, !.pc = "handle"] \in RequestSlot
    <2>1. 1 \in 1..3
      OBVIOUS
    <2>2. [[q EXCEPT !.session = s] EXCEPT !.round = 1] \in RequestSlot
      BY <1>1, <2>1 DEF RequestSlot
    <2>3. QED
      BY <2>2 DEF RequestSlot
  <1>5. QED
    BY <1>3, <1>4, BlankSlots DEF RequestsOK, Proceed

-----------------------------------------------------------------------------
\* Every variable keeps its type; in particular no login in flight carries a
\* credential that had no password or was disabled when loginSubmit read it.
THEOREM TypeCorrect == Spec => []TypeOK
<1>1. Init => TypeOK
  <2> SUFFICES ASSUME Init PROVE TypeOK
    OBVIOUS
  <2>1. Admin \in Principal /\ 0 \in 0..MaxVersion /\ 0 \in 0..MaxSessions
    BY LimitAssumption DEF Principal
  <2>2. CredentialsOK
    BY <2>1, PrincipalAssumption DEF Init, CredentialsOK
  <2>3. TableOK
    BY <2>1 DEF Init, TableOK, Row
  <2>4. LoginsOK
    <3>1. \A l \in Login : login[l].pc = "idle"
      BY DEF Init, NoLogin
    <3>2. QED
      BY <3>1, BlankSlots DEF Init, LoginsOK
  <2>5. RequestsOK
    BY BlankSlots DEF Init, RequestsOK
  <2>6. QED
    BY <2>2, <2>3, <2>4, <2>5, TypeParts
<1>2. TypeOK /\ [Next]_vars => TypeOK'
  <2> SUFFICES ASSUME CredentialsOK, TableOK, LoginsOK, RequestsOK, [Next]_vars
               PROVE  CredentialsOK' /\ TableOK' /\ LoginsOK' /\ RequestsOK'
    BY DEF TypeOK, CredentialsOK, TableOK, LoginsOK, RequestsOK, LoginSlot, RequestSlot
  <2>a. UNCHANGED credentials => CredentialsOK'
    BY DEF credentials, CredentialsOK
  <2>b. UNCHANGED <<table, lapsed>> => TableOK'
    BY DEF table, TableOK
  <2>c. UNCHANGED login => LoginsOK'
    BY DEF LoginsOK
  <2>d. UNCHANGED request => RequestsOK'
    BY DEF RequestsOK
  <2>e. \A S \in SUBSET sessions : sessions' = S /\ UNCHANGED <<row, created, lapsed>> => TableOK'
    BY DEF TableOK
  <2>f. \A r \in Request : request' = [request EXCEPT ![r] = NoRequest] => RequestsOK'
    BY BlankSlots DEF RequestsOK
  <2>g. \A l \in Login : login' = [login EXCEPT ![l] = NoLogin] => LoginsOK'
    BY BlankSlots DEF LoginsOK, NoLogin
  <2>1. ASSUME NEW l \in Login, NEW p \in Principal, Attempt(l, p)
        PROVE  LoginsOK'
    <3>1. CredentialOf(p) \in Credential
      BY DEF CredentialsOK, CredentialOf, Credential
    <3>2. [pc |-> "confirm", principal |-> p, cred |-> CredentialOf(p)] \in LoginSlot
      BY <3>1 DEF LoginSlot
    <3>3. CredentialOf(p).hash # NoPassword /\ ~CredentialOf(p).disabled
      BY <2>1 DEF Attempt, CredentialOf
    <3>4. QED
      BY <2>1, <3>2, <3>3 DEF Attempt, LoginsOK
  <2>2. ASSUME NEW l \in Login, Confirm(l)
        PROVE  LoginsOK'
    <3>1. CASE login' = [login EXCEPT ![l] = NoLogin]
      BY <3>1, <2>g
    <3>2. CASE login' = [login EXCEPT ![l] = [@ EXCEPT !.pc = "insert"]]
      <4>1. [login[l] EXCEPT !.pc = "insert"] \in LoginSlot
        BY DEF LoginsOK, LoginSlot
      <4>2. login[l].pc # "idle"
        BY <2>2 DEF Confirm
      <4>3. /\ [login[l] EXCEPT !.pc = "insert"].cred.hash # NoPassword
            /\ ~[login[l] EXCEPT !.pc = "insert"].cred.disabled
        BY <4>2 DEF LoginsOK, LoginSlot
      <4>4. QED
        BY <3>2, <4>1, <4>3 DEF LoginsOK
    <3>3. QED
      BY <2>2, <3>1, <3>2 DEF Confirm
  <2>3. ASSUME NEW l \in Login, Insert(l)
        PROVE  TableOK'
    <3>1. Room(login[l].principal) \subseteq sessions
      BY DEF Room, Fresh
    <3>2. login[l] \in LoginSlot
      BY DEF LoginsOK
    <3>3. [principal |-> login[l].principal, version |-> login[l].cred.version,
           must |-> login[l].cred.must] \in Row
      BY <3>2 DEF LoginSlot, Credential, Row
    <3>4. created + 1 \in SessionId /\ created + 1 \in 0..MaxSessions
      BY <2>3, LimitAssumption DEF Insert, TableOK, SessionId
    <3>5. QED
      BY <2>3, <3>1, <3>3, <3>4 DEF Insert, TableOK
  <2>4. ASSUME NEW r \in Request, NEW s \in SessionId, NEW op \in Op, Arrive(r, s, op)
        PROVE  RequestsOK'
    <3>1. version[OwnerOf(s)] \in 0..MaxVersion /\ s \in 0..MaxSessions
      BY DEF CredentialsOK, TableOK, OwnerOf, Row, SessionId
    <3>2. [NoRequest EXCEPT !.pc = "lookup", !.op = op, !.session = s,
                            !.since = version[OwnerOf(s)]] \in RequestSlot
      BY <3>1, BlankSlots DEF RequestSlot
    <3>3. QED
      BY <2>4, <3>2 DEF Arrive, RequestsOK
  <2>5. ASSUME NEW r \in Request, Lookup(r)
        PROVE  RequestsOK'
    <3>1. CASE request' = [request EXCEPT ![r].pc = "current"]
      BY <3>1 DEF RequestsOK, RequestSlot
    <3>2. CASE Proceed(r, 0)
      BY <3>2, ProceedType, LimitAssumption
    <3>3. QED
      BY <2>5, <3>1, <3>2 DEF Lookup
  <2>6. ASSUME NEW r \in Request, Current(r)
        PROVE  RequestsOK' /\ TableOK'
    <3>1. request[r].session \in 0..MaxSessions /\ 0 \in 0..MaxSessions
      BY LimitAssumption DEF RequestsOK, RequestSlot
    <3>2. Proceed(r, request[r].session) \/ Proceed(r, 0)
      BY <2>6 DEF Current
    <3>3. RequestsOK'
      BY <3>1, <3>2, ProceedType
    <3>4. TableOK'
      BY <2>6, <2>e DEF Current
    <3>5. QED
      BY <3>3, <3>4
  <2>7. ASSUME NEW r \in Request, Verify(r)
        PROVE  RequestsOK'
    <3> DEFINE q == request[r]
               p == IF q.op = "account" THEN OwnerOf(q.session) ELSE Admin
    <3>1. q \in RequestSlot
      BY DEF RequestsOK
    <3>2. CASE request' = [request EXCEPT ![r] = NoRequest]
      BY <3>2, <2>f
    <3>3. CASE /\ q.op = "account" => q.session # 0
               /\ request' = [request EXCEPT ![r] =
                    [q EXCEPT !.pc = "commit", !.subject = p, !.proved = hash[p],
                              !.version = version[p]]]
      <4>1. p \in Principal
        BY <3>1, <3>3 DEF RequestSlot, TableOK, OwnerOf, Row, SessionId, Principal
      <4>2. hash[p] \in Password \cup {NoPassword} /\ version[p] \in 0..MaxVersion
        BY <4>1 DEF CredentialsOK
      <4>3. [q EXCEPT !.pc = "commit", !.subject = p, !.proved = hash[p],
                      !.version = version[p]] \in RequestSlot
        BY <3>1, <4>1, <4>2 DEF RequestSlot
      <4>4. QED
        BY <3>3, <4>3 DEF RequestsOK
    <3>4. QED
      BY <2>7, <3>2, <3>3 DEF Verify
  <2>8. ASSUME NEW r \in Request, NEW pw \in Password, Commit(r, pw)
        PROVE  CredentialsOK' /\ RequestsOK'
    <3>1. request[r].subject \in Principal
      BY DEF RequestsOK, RequestSlot
    <3>2. CASE SetPassword(request[r].subject, pw, FALSE) /\ Written(r, request[r].subject)
      BY <3>1, <3>2, SetPasswordType, WrittenType
    <3>3. CASE request' = [request EXCEPT ![r] = NoRequest] /\ UNCHANGED credentials
      BY <3>3, <2>a, <2>f
    <3>4. QED
      BY <2>8, <3>2, <3>3 DEF Commit
  <2>9. ASSUME NEW r \in Request, NEW u \in User, NEW pw \in Password, Reset(r, u, pw)
        PROVE  CredentialsOK' /\ RequestsOK'
    BY <2>9, SetPasswordType, WrittenType DEF Reset, Principal
  <2>10. ASSUME NEW r \in Request, NEW u \in User, NEW d \in BOOLEAN, Switch(r, u, d)
         PROVE  CredentialsOK' /\ RequestsOK'
    BY <2>10, SetDisabledType, WrittenType DEF Switch, Principal
  <2>11. ASSUME NEW r \in Request, Logout(r) \/ Invalidate(r)
         PROVE  TableOK' /\ RequestsOK'
    BY <2>11, <2>e, <2>f DEF Logout, Invalidate
  <2>12. ASSUME NEW pw \in Password, CliAdminPassword(pw)
         PROVE  CredentialsOK'
    BY <2>12, SetPasswordType DEF CliAdminPassword, Principal
  <2>13. ASSUME NEW u \in User, NEW d \in BOOLEAN, CliSwitch(u, d)
         PROVE  CredentialsOK'
    BY <2>13, SetDisabledType DEF CliSwitch, Principal
  <2>14. Lapse => TableOK'
    BY LimitAssumption DEF Lapse, TableOK, table
  <2>15. Restart => TableOK' /\ LoginsOK' /\ RequestsOK'
    <3> SUFFICES ASSUME Restart PROVE TableOK' /\ LoginsOK' /\ RequestsOK'
      OBVIOUS
    <3>1. TableOK'
      BY DEF Restart, TableOK
    <3>2. \A l \in Login : login'[l].pc = "idle"
      BY DEF Restart, NoLogin
    <3>3. LoginsOK'
      BY <3>2, BlankSlots DEF Restart, LoginsOK
    <3>4. RequestsOK'
      BY BlankSlots DEF Restart, RequestsOK
    <3>5. QED
      BY <3>1, <3>3, <3>4
  <2>16. CASE UNCHANGED vars
    BY <2>16, <2>a, <2>b, <2>c, <2>d DEF vars
  <2>17. ASSUME NEW l \in Login, LoginNext(l)
         PROVE  CredentialsOK' /\ TableOK' /\ LoginsOK' /\ RequestsOK'
    <3>1. ASSUME NEW p \in Principal, Attempt(l, p)
          PROVE  CredentialsOK' /\ TableOK' /\ LoginsOK' /\ RequestsOK'
      BY <3>1, <2>1, <2>a, <2>b, <2>d DEF Attempt
    <3>2. CASE Confirm(l)
      BY <3>2, <2>2, <2>a, <2>b, <2>d DEF Confirm
    <3>3. CASE Insert(l)
      BY <3>3, <2>3, <2>a, <2>d, <2>g DEF Insert
    <3>4. CASE ConfirmUnread(l)
      BY <3>4, <2>a, <2>b, <2>d, <2>g DEF ConfirmUnread
    <3>5. QED
      BY <2>17, <3>1, <3>2, <3>3, <3>4 DEF LoginNext
  <2>18. ASSUME NEW r \in Request, RequestNext(r)
         PROVE  CredentialsOK' /\ TableOK' /\ LoginsOK' /\ RequestsOK'
    <3>1. ASSUME NEW s \in SessionId, NEW op \in Op, Arrive(r, s, op)
          PROVE  CredentialsOK' /\ TableOK' /\ LoginsOK' /\ RequestsOK'
      BY <3>1, <2>4, <2>a, <2>b, <2>c DEF Arrive
    <3>2. CASE Lookup(r)
      BY <3>2, <2>5, <2>a, <2>b, <2>c DEF Lookup
    <3>3. CASE Current(r)
      BY <3>3, <2>6, <2>a, <2>c DEF Current
    <3>4. CASE Logout(r)
      BY <3>4, <2>11, <2>a, <2>c DEF Logout
    <3>5. CASE Invalidate(r)
      BY <3>5, <2>11, <2>a, <2>c DEF Invalidate
    <3>6. CASE Verify(r)
      BY <3>6, <2>7, <2>a, <2>b, <2>c DEF Verify
    <3>7. ASSUME NEW pw \in Password, Commit(r, pw)
          PROVE  CredentialsOK' /\ TableOK' /\ LoginsOK' /\ RequestsOK'
      BY <3>7, <2>8, <2>b, <2>c DEF Commit
    <3>8. ASSUME NEW u \in User, NEW pw \in Password, Reset(r, u, pw)
          PROVE  CredentialsOK' /\ TableOK' /\ LoginsOK' /\ RequestsOK'
      BY <3>8, <2>9, <2>b, <2>c DEF Reset
    <3>9. ASSUME NEW u \in User, NEW d \in BOOLEAN, Switch(r, u, d)
          PROVE  CredentialsOK' /\ TableOK' /\ LoginsOK' /\ RequestsOK'
      BY <3>9, <2>10, <2>b, <2>c DEF Switch
    <3>10. CASE CurrentUnread(r)
      <4>1. RequestsOK'
        BY <3>10, ProceedType, LimitAssumption DEF CurrentUnread
      <4>2. TableOK'
        BY <3>10, <2>e DEF CurrentUnread
      <4>3. QED
        BY <3>10, <4>1, <4>2, <2>a, <2>c DEF CurrentUnread
    <3>11. ASSUME NEW u \in User, SwitchUnwritten(r, u)
           PROVE  CredentialsOK' /\ TableOK' /\ LoginsOK' /\ RequestsOK'
      <4>1. [NoRequest EXCEPT !.pc = "unchanged", !.subject = u] \in RequestSlot
        BY BlankSlots DEF RequestSlot, Principal
      <4>2. RequestsOK'
        BY <3>11, <4>1 DEF SwitchUnwritten, RequestsOK
      <4>3. QED
        BY <3>11, <4>2, <2>a, <2>b, <2>c DEF SwitchUnwritten
    <3>12. CASE Unwritten(r)
      BY <3>12, <2>a, <2>b, <2>c, <2>f DEF Unwritten
    <3>13. QED
      BY <2>18, <3>1, <3>2, <3>3, <3>4, <3>5, <3>6, <3>7, <3>8, <3>9, <3>10, <3>11, <3>12
      DEF RequestNext
  <2>19. ASSUME NEW pw \in Password, CliAdminPassword(pw)
         PROVE  CredentialsOK' /\ TableOK' /\ LoginsOK' /\ RequestsOK'
    BY <2>19, <2>12, <2>b, <2>c, <2>d DEF CliAdminPassword
  <2>20. ASSUME NEW u \in User, NEW d \in BOOLEAN, CliSwitch(u, d)
         PROVE  CredentialsOK' /\ TableOK' /\ LoginsOK' /\ RequestsOK'
    BY <2>20, <2>13, <2>b, <2>c, <2>d DEF CliSwitch
  <2>21. CASE Lapse
    BY <2>21, <2>14, <2>a, <2>c, <2>d DEF Lapse
  <2>22. CASE Restart
    BY <2>22, <2>15, <2>a DEF Restart
  <2>23. QED
    BY <2>16, <2>17, <2>18, <2>19, <2>20, <2>21, <2>22 DEF Next
<1>3. QED
  BY <1>1, <1>2, PTL DEF Spec

-----------------------------------------------------------------------------
(* What a step may do to the credentials, to the rows and to the logins.   *)

\* A credential of which anything changes gets a higher version.
LEMMA VersionCovers ==
  ASSUME TypeOK, [Next]_vars, NEW p \in Principal
  PROVE  \/ version'[p] > version[p]
         \/ /\ version'[p] = version[p] /\ hash'[p] = hash[p]
            /\ must'[p] = must[p] /\ disabled'[p] = disabled[p]
<1> DEFINE Goal == \/ version'[p] > version[p]
                   \/ /\ version'[p] = version[p] /\ hash'[p] = hash[p]
                      /\ must'[p] = must[p] /\ disabled'[p] = disabled[p]
<1>1. version \in [Principal -> Nat] /\ User \subseteq Principal /\ Admin \in Principal
  BY DEF TypeOK, Principal
<1>2. UNCHANGED credentials => Goal
  BY DEF credentials
<1>3. ASSUME NEW o \in Principal, NEW pw \in Password, NEW t \in BOOLEAN, SetPassword(o, pw, t)
      PROVE  Goal
  BY <1>1, <1>3 DEF SetPassword, TypeOK
<1>4. ASSUME NEW o \in Principal, NEW d \in BOOLEAN, SetDisabled(o, d)
      PROVE  Goal
  BY <1>1, <1>4 DEF SetDisabled, TypeOK
<1>5. ASSUME NEW r \in Request, NEW pw \in Password, Commit(r, pw)
      PROVE  Goal
  <2>1. request[r].subject \in Principal
    BY DEF TypeOK
  <2>2. QED
    BY <1>2, <1>3, <1>5, <2>1 DEF Commit
<1>6. ASSUME NEW r \in Request, NEW u \in User, NEW pw \in Password, Reset(r, u, pw)
      PROVE  Goal
  BY <1>1, <1>3, <1>6 DEF Reset
<1>7. ASSUME NEW r \in Request, NEW u \in User, NEW d \in BOOLEAN, Switch(r, u, d)
      PROVE  Goal
  BY <1>1, <1>4, <1>7 DEF Switch
<1>8. ASSUME NEW pw \in Password, CliAdminPassword(pw)
      PROVE  Goal
  BY <1>1, <1>3, <1>8 DEF CliAdminPassword
<1>9. ASSUME NEW u \in User, NEW d \in BOOLEAN, CliSwitch(u, d)
      PROVE  Goal
  BY <1>1, <1>4, <1>9 DEF CliSwitch
<1>10. QED
  BY <1>2, <1>5, <1>6, <1>7, <1>8, <1>9
  DEF Next, LoginNext, RequestNext, Attempt, Confirm, ConfirmUnread, Insert, Arrive, Lookup,
      Current, CurrentUnread, Logout, Verify, SwitchUnwritten, Unwritten, Invalidate, Lapse,
      Restart, vars

\* A session that was created keeps what it holds, in the table or out of it.
LEMMA RowsStay ==
  ASSUME TypeOK, [Next]_vars
  PROVE  /\ created' \in Nat /\ created' >= created
         /\ \A s \in 1..created : row'[s] = row[s]
<1>1. created \in Nat /\ row \in [SessionId -> Row] /\ 1..created \subseteq SessionId
  BY LimitAssumption DEF TypeOK, SessionId
<1>2. UNCHANGED <<row, created>> \/ \E l \in Login : Insert(l)
  BY DEF Next, LoginNext, RequestNext, Attempt, Confirm, ConfirmUnread, Arrive, Lookup,
         Current, CurrentUnread, Logout, Verify, Commit, Reset, Switch, SwitchUnwritten,
         Unwritten, Invalidate, CliAdminPassword, CliSwitch, Lapse, Restart, table, vars
<1>3. CASE UNCHANGED <<row, created>>
  BY <1>1, <1>3
<1>4. ASSUME NEW l \in Login, Insert(l)
      PROVE  /\ created' \in Nat /\ created' >= created
             /\ \A s \in 1..created : row'[s] = row[s]
  <2>1. CASE UNCHANGED <<row, created>>
    BY <1>1, <2>1
  <2>2. CASE /\ created' = created + 1
             /\ row' = [row EXCEPT ![created + 1] =
                  [principal |-> login[l].principal, version |-> login[l].cred.version,
                   must |-> login[l].cred.must]]
    BY <1>1, <2>2
  <2>3. QED
    BY <1>4, <2>1, <2>2 DEF Insert
<1>5. QED
  BY <1>2, <1>3, <1>4

\* A login in flight keeps what it has read, or has just read it.
LEMMA LoginsStay ==
  ASSUME TypeOK, [Next]_vars, NEW l \in Login
  PROVE  \/ login'[l].pc = "idle"
         \/ /\ login[l].pc # "idle"
            /\ login'[l].principal = login[l].principal /\ login'[l].cred = login[l].cred
         \/ /\ login'[l].principal \in Principal
            /\ login'[l].cred = CredentialOf(login'[l].principal)
            /\ UNCHANGED credentials
<1> DEFINE Goal == \/ login'[l].pc = "idle"
                   \/ /\ login[l].pc # "idle"
                      /\ login'[l].principal = login[l].principal
                      /\ login'[l].cred = login[l].cred
                   \/ /\ login'[l].principal \in Principal
                      /\ login'[l].cred = CredentialOf(login'[l].principal)
                      /\ UNCHANGED credentials
<1>1. login \in [Login -> LoginSlot]
  BY DEF TypeOK, LoginSlot
<1>2. login'[l] = login[l] => Goal
  BY <1>1 DEF LoginSlot
<1>3. ASSUME NEW m \in Login, NEW p \in Principal, Attempt(m, p)
      PROVE  Goal
  BY <1>1, <1>2, <1>3 DEF Attempt
<1>4. ASSUME NEW m \in Login, Confirm(m)
      PROVE  Goal
  <2>1. CASE login' = [login EXCEPT ![m] = NoLogin]
    BY <1>1, <1>2, <2>1 DEF NoLogin
  <2>2. CASE login' = [login EXCEPT ![m] = [@ EXCEPT !.pc = "insert"]]
    <3>1. CASE m = l
      <4>1. login'[l] = [login[l] EXCEPT !.pc = "insert"]
        BY <1>1, <2>2, <3>1
      <4>2. login[l].pc # "idle"
        BY <1>4, <3>1 DEF Confirm
      <4>3. QED
        BY <1>1, <4>1, <4>2 DEF LoginSlot
    <3>2. CASE m # l
      BY <1>1, <1>2, <2>2, <3>2
    <3>3. QED
      BY <3>1, <3>2
  <2>3. QED
    BY <1>4, <2>1, <2>2 DEF Confirm
<1>5. ASSUME NEW m \in Login, Insert(m)
      PROVE  Goal
  BY <1>1, <1>2, <1>5 DEF Insert, NoLogin
<1>6. Restart => Goal
  BY DEF Restart, NoLogin
<1>7. ASSUME NEW m \in Login, ConfirmUnread(m)
      PROVE  Goal
  BY <1>1, <1>2, <1>7 DEF ConfirmUnread, NoLogin
<1>8. QED
  BY <1>2, <1>3, <1>4, <1>5, <1>6, <1>7
  DEF Next, LoginNext, RequestNext, Arrive, Lookup, Current, CurrentUnread, Logout, Verify,
      Commit, Reset, Switch, SwitchUnwritten, Unwritten, Invalidate, CliAdminPassword,
      CliSwitch, Lapse, vars

-----------------------------------------------------------------------------
(* Sessions agree with the store.                                          *)

\* The strengthening: also of the sessions that have left the table, and of the
\* logins, from what loginSubmit read to the insertion.
CreatedAgree ==
  \A s \in 1..created :
    /\ row[s].version <= version[OwnerOf(s)]
    /\ row[s].version = version[OwnerOf(s)]
         => /\ hash[OwnerOf(s)] # NoPassword
            /\ ~disabled[OwnerOf(s)]
            /\ row[s].must = must[OwnerOf(s)]

LoginsAgree ==
  \A l \in Login : login[l].pc # "idle"
    => /\ login[l].cred.version <= version[login[l].principal]
       /\ login[l].cred.version = version[login[l].principal]
            => login[l].cred = CredentialOf(login[l].principal)

Agreement == sessions \subseteq 1..created /\ CreatedAgree /\ LoginsAgree

LEMMA AgreementHolds == Spec => []Agreement
<1>1. Init => Agreement
  BY LimitAssumption DEF Init, Agreement, CreatedAgree, LoginsAgree, NoLogin
<1>2. TypeOK /\ TypeOK' /\ Agreement /\ [Next]_vars => Agreement'
  <2> SUFFICES ASSUME TypeOK, TypeOK', Agreement, [Next]_vars PROVE Agreement'
    OBVIOUS
  <2>1. \A p \in Principal :
          \/ version'[p] > version[p]
          \/ /\ version'[p] = version[p] /\ hash'[p] = hash[p]
             /\ must'[p] = must[p] /\ disabled'[p] = disabled[p]
    BY VersionCovers
  <2>2. \A p \in Principal : version[p] \in Nat /\ version'[p] \in Nat
    BY DEF TypeOK
  <2>3. /\ created' \in Nat /\ created' >= created /\ created \in Nat
        /\ \A s \in 1..created : row'[s] = row[s]
    BY RowsStay, LimitAssumption DEF TypeOK
  <2>4. \A s \in 1..created : row[s] \in Row
    BY LimitAssumption DEF TypeOK, SessionId
  <2> DEFINE new == created + 1
  <2>5. ASSUME NEW l \in Login, Insert(l), created' # created
        PROVE  /\ created' = new /\ UNCHANGED credentials
               /\ sessions' \subseteq sessions \cup {new}
               /\ row'[new] = [principal |-> login[l].principal,
                                version |-> login[l].cred.version,
                                must |-> login[l].cred.must]
    <3>1. created + 1 \in SessionId
      BY <2>3, <2>5, LimitAssumption DEF Insert, SessionId, TypeOK
    <3>2. Room(login[l].principal) \subseteq sessions
      BY DEF Room, Fresh
    <3>3. row \in [SessionId -> Row]
      BY DEF TypeOK
    <3>4. QED
      BY <2>5, <3>1, <3>2, <3>3 DEF Insert
  <2>6. (sessions' \subseteq sessions /\ created' = created) \/ \E l \in Login : Insert(l) /\ created' # created
    <3>1. ASSUME NEW l \in Login, Insert(l), created' = created
          PROVE  sessions' \subseteq sessions
      BY <2>3, <3>1 DEF Insert, Room, Fresh
    <3>2. QED
      BY <3>1
      DEF Next, LoginNext, RequestNext, Attempt, Confirm, ConfirmUnread, Arrive, Lookup,
          Current, CurrentUnread, Logout, Verify, Commit, Reset, Switch, SwitchUnwritten,
          Unwritten, Invalidate, CliAdminPassword, CliSwitch, Lapse, Restart, table, vars
  <2>7. sessions' \subseteq 1..created'
    <3>1. sessions \subseteq 1..created /\ 1..created \subseteq 1..created'
      BY <2>3 DEF Agreement
    <3>2. ASSUME NEW l \in Login, Insert(l), created' # created
          PROVE  sessions' \subseteq 1..created'
      <4>1. sessions' \subseteq sessions \cup {new} /\ created' = new
        BY <2>5, <3>2
      <4>2. new \in 1..created'
        BY <2>3, <4>1
      <4>3. QED
        BY <3>1, <4>1, <4>2
    <3>3. QED
      BY <2>6, <3>1, <3>2
  <2>8. ASSUME NEW s \in 1..created
        PROVE  LET o == row'[s].principal
               IN  /\ row'[s].version <= version'[o]
                   /\ row'[s].version = version'[o]
                        => hash'[o] # NoPassword /\ ~disabled'[o] /\ row'[s].must = must'[o]
    <3>1. row'[s] = row[s] /\ row[s].principal \in Principal /\ row[s].version \in Nat
      BY <2>3, <2>4 DEF Row
    <3>2. /\ row[s].version <= version[row[s].principal]
          /\ row[s].version = version[row[s].principal]
               => /\ hash[row[s].principal] # NoPassword
                  /\ ~disabled[row[s].principal]
                  /\ row[s].must = must[row[s].principal]
      BY DEF Agreement, CreatedAgree, OwnerOf
    <3>3. QED
      BY <2>1, <2>2, <3>1, <3>2
  <2>9. ASSUME NEW l \in Login, Insert(l), created' # created
        PROVE  LET o == row'[new].principal
               IN  /\ row'[new].version <= version'[o]
                   /\ row'[new].version = version'[o]
                        => hash'[o] # NoPassword /\ ~disabled'[o] /\ row'[new].must = must'[o]
    <3> DEFINE p == login[l].principal
               c == login[l].cred
    <3>1. /\ p \in Principal /\ c \in Credential /\ login[l].pc # "idle"
          /\ c.hash # NoPassword /\ ~c.disabled
      BY <2>9 DEF TypeOK, Insert
    <3>2. c.version <= version[p] /\ (c.version = version[p] => c = CredentialOf(p))
      BY <3>1 DEF Agreement, LoginsAgree
    <3>3. c.version = version[p] => hash[p] # NoPassword /\ ~disabled[p] /\ c.must = must[p]
      BY <3>1, <3>2 DEF CredentialOf
    <3>4. UNCHANGED <<hash, version, must, disabled>>
      BY <2>5, <2>9 DEF credentials
    <3>5. row'[new].principal = p /\ row'[new].version = c.version /\ row'[new].must = c.must
      <4>1. row'[new] = [principal |-> p, version |-> c.version, must |-> c.must]
        BY <2>5, <2>9
      <4>2. QED
        BY <4>1
    <3>6. QED
      BY <3>2, <3>3, <3>4, <3>5
  <2>10. CreatedAgree'
    <3>1. CASE created' = created
      BY <2>8, <3>1 DEF CreatedAgree, OwnerOf
    <3>2. ASSUME NEW l \in Login, Insert(l), created' # created
          PROVE  CreatedAgree'
      <4>1. created' = new
        BY <2>5, <3>2
      <4>2. \A s \in 1..created' : s \in 1..created \/ s = new
        BY <2>3, <4>1
      <4>3. QED
        BY <2>8, <2>9, <3>2, <4>2 DEF CreatedAgree, OwnerOf
    <3>3. QED
      BY <2>6, <3>1, <3>2
  <2>11. LoginsAgree'
    <3> SUFFICES ASSUME NEW l \in Login, login'[l].pc # "idle"
                 PROVE  LET p == login'[l].principal
                            c == login'[l].cred
                        IN  /\ c.version <= version'[p]
                            /\ c.version = version'[p]
                                 => c = [hash |-> hash'[p], version |-> version'[p],
                                         must |-> must'[p], disabled |-> disabled'[p]]
      BY DEF LoginsAgree, CredentialOf
    <3>1. CASE /\ login[l].pc # "idle"
               /\ login'[l].principal = login[l].principal /\ login'[l].cred = login[l].cred
      <4> DEFINE p == login[l].principal
                 c == login[l].cred
      <4>1. p \in Principal /\ c \in Credential /\ c.version \in Nat
        BY DEF TypeOK, Credential
      <4>2. c.version <= version[p] /\ (c.version = version[p] => c = CredentialOf(p))
        BY <3>1 DEF Agreement, LoginsAgree
      <4>3. CASE version'[p] > version[p]
        BY <2>2, <3>1, <4>1, <4>2, <4>3
      <4>4. CASE /\ version'[p] = version[p] /\ hash'[p] = hash[p]
                 /\ must'[p] = must[p] /\ disabled'[p] = disabled[p]
        BY <3>1, <4>2, <4>4 DEF CredentialOf
      <4>5. QED
        BY <2>1, <4>1, <4>3, <4>4
    <3>2. CASE /\ login'[l].principal \in Principal
               /\ login'[l].cred = CredentialOf(login'[l].principal)
               /\ UNCHANGED credentials
      BY <2>2, <3>2 DEF CredentialOf, credentials
    <3>3. QED
      BY <3>1, <3>2, LoginsStay
  <2>12. QED
    BY <2>7, <2>10, <2>11 DEF Agreement
<1>3. QED
  BY <1>1, <1>2, TypeCorrect, PTL DEF Spec

\* A session that passes for current agrees with the credential of its holder,
\* however its login interleaved with changes of that credential: createSession's
\* second look outside the lock may be late, but then the version tells.
THEOREM CurrentSessionsAgree == Spec => []SessionsAgree
<1>1. Agreement => SessionsAgree
  BY DEF Agreement, CreatedAgree, SessionsAgree
<1>2. QED
  BY <1>1, AgreementHolds, PTL

-----------------------------------------------------------------------------
(* What requests write.                                                    *)

\* The strengthening: what a request has established on its way to a handler,
\* and what userPasswordChange and adminPasswordChange have verified.  Recent is
\* about the session, Proved about the password.
Recent(q) ==
  /\ q.session <= created
  /\ q.pc \in {"lookup", "current"} => q.round <= Rounds(q.op)
  /\ q.session # 0 => q.since <= version[OwnerOf(q.session)]
  /\ q.session # 0 /\ (q.round > 1 \/ q.pc \in {"handle", "commit"})
       => row[q.session].version >= q.since
  /\ q.pc = "handle" /\ q.op \in AdminOp => q.session # 0
  /\ q.pc = "commit" => q.session # 0

Proved(q) ==
  q.pc = "commit"
    => /\ q.version <= version[q.subject]
       /\ q.version = version[q.subject] => hash[q.subject] = q.proved

RequestsProven == \A r \in Request : Recent(request[r]) /\ Proved(request[r])

\* A request that has ended, or has only invalidatePrincipal still to call, has
\* nothing to show.
LEMMA EndedProven ==
  ASSUME TypeOK', NEW q, q.session = 0, q.round = 1,
         q.pc \in {"idle", "invalidate", "unchanged"}
  PROVE  Recent(q)' /\ Proved(q)'
<1>1. created' \in Nat
  BY LimitAssumption DEF TypeOK
<1>2. QED
  BY <1>1 DEF Recent, Proved

\* What a request has established stays true while it waits.
LEMMA ProvenStays ==
  ASSUME TypeOK, TypeOK', [Next]_vars, NEW q \in RequestSlot, Recent(q), Proved(q)
  PROVE  Recent(q)' /\ Proved(q)'
<1>1. \A p \in Principal :
        \/ version'[p] > version[p]
        \/ version'[p] = version[p] /\ hash'[p] = hash[p]
  BY VersionCovers
<1>2. \A p \in Principal : version[p] \in Nat /\ version'[p] \in Nat
  BY DEF TypeOK
<1>3. /\ created \in Nat /\ created' \in Nat /\ created' >= created
      /\ \A s \in 1..created : row'[s] = row[s]
  BY RowsStay, LimitAssumption DEF TypeOK
<1>4. /\ q.session \in Nat /\ q.since \in Nat /\ q.version \in Nat
      /\ q.subject \in Principal
  BY LimitAssumption DEF RequestSlot
<1>5. q.session # 0 => /\ q.session \in 1..created
                       /\ row'[q.session] = row[q.session]
                       /\ row[q.session].principal \in Principal
  <2>1. q.session # 0 => q.session \in 1..created /\ q.session \in SessionId
    BY <1>3, <1>4 DEF Recent, SessionId, RequestSlot
  <2>2. q.session # 0 => row[q.session] \in Row
    BY <2>1 DEF TypeOK
  <2>3. QED
    BY <1>3, <2>1, <2>2 DEF Row
<1>6. Recent(q)'
  <2>1. q.session <= created'
    BY <1>3, <1>4 DEF Recent
  <2>2. q.session # 0 => q.since <= version'[row'[q.session].principal]
    BY <1>1, <1>2, <1>4, <1>5 DEF Recent, OwnerOf
  <2>3. q.session # 0 /\ (q.round > 1 \/ q.pc \in {"handle", "commit"})
          => row'[q.session].version >= q.since
    BY <1>5 DEF Recent
  <2>4. QED
    BY <2>1, <2>2, <2>3 DEF Recent, OwnerOf
<1>7. Proved(q)'
  BY <1>1, <1>2, <1>4 DEF Proved
<1>8. QED
  BY <1>6, <1>7

\* A request moves on with its session while that is current, or without one.
LEMMA ProceedProven ==
  ASSUME TypeOK, TypeOK', NEW r \in Request, Recent(request[r]),
         request[r].pc \in {"lookup", "current"}, NEW n, n = request'[r],
         NEW s \in {0, request[r].session}, s # 0 => Usable(s), Proceed(r, s),
         UNCHANGED credentials, UNCHANGED <<row, created>>
  PROVE  Recent(n)' /\ Proved(n)'
<1> DEFINE q == request[r]
<1>1. q \in RequestSlot /\ q.session \in Nat /\ q.round \in 1..3 /\ created \in Nat
  BY LimitAssumption DEF TypeOK, RequestSlot
<1>2. s # 0 => /\ row[s].version = version[OwnerOf(s)]
               /\ q.since <= version[OwnerOf(s)]
               /\ row[s].version >= q.since
               /\ s <= created
  <2>1. ASSUME s # 0
        PROVE  /\ row[s].version = version[OwnerOf(s)] /\ q.since <= version[OwnerOf(s)]
               /\ s <= created /\ s \in SessionId
    BY <1>1, <2>1 DEF Usable, Recent, SessionId, RequestSlot
  <2>2. ASSUME s # 0
        PROVE  row[s].version >= q.since
    <3>1. version[OwnerOf(s)] \in Nat /\ q.since \in Nat
      BY <2>1, <2>2, <1>1, LimitAssumption DEF TypeOK, OwnerOf, Row, RequestSlot
    <3>2. QED
      BY <2>1, <2>2, <3>1
  <2>3. QED
    BY <2>1, <2>2
<1>3. CASE Rejected(q, s)
  <2>1. n = NoRequest
    BY <1>3 DEF Proceed, TypeOK
  <2>2. n.session = 0 /\ n.round = 1 /\ n.pc = "idle"
    BY <2>1 DEF NoRequest
  <2>3. QED
    BY <2>2, EndedProven
<1>4. CASE ~Rejected(q, s) /\ q.round < Rounds(q.op)
  <2>1. n = [q EXCEPT !.session = s, !.round = @ + 1, !.pc = "lookup"]
    BY <1>4 DEF Proceed, TypeOK
  <2>2. /\ n.session = s /\ n.pc = "lookup" /\ n.round = q.round + 1 /\ n.op = q.op
        /\ n.since = q.since
    BY <1>1, <2>1 DEF RequestSlot
  <2>3. Rounds(q.op) \in 1..3
    BY DEF Rounds
  <2>4. n.round <= Rounds(n.op)
    BY <1>1, <1>4, <2>2, <2>3
  <2>5. Recent(n)'
    BY <1>1, <1>2, <2>2, <2>4 DEF Recent, OwnerOf, credentials
  <2>6. Proved(n)'
    BY <2>2 DEF Proved
  <2>7. QED
    BY <2>1, <2>5, <2>6
<1>5. CASE ~Rejected(q, s) /\ ~(q.round < Rounds(q.op))
  <2>1. n = [q EXCEPT !.session = s, !.round = 1, !.pc = "handle"]
    BY <1>5 DEF Proceed, TypeOK
  <2>2. n.session = s /\ n.pc = "handle" /\ n.op = q.op /\ n.since = q.since
    BY <1>1, <2>1 DEF RequestSlot
  <2>3. q.op \in AdminOp => s # 0
    <3>1. q.op \in AdminOp => Rounds(q.op) = 2
      BY DEF AdminOp, Rounds
    <3>2. q.op \in AdminOp => q.round = 2
      BY <1>1, <1>5, <3>1 DEF Recent
    <3>3. QED
      BY <1>5, <3>2 DEF Rejected, IsAdmin
  <2>4. Recent(n)'
    BY <1>1, <1>2, <2>2, <2>3 DEF Recent, OwnerOf, credentials
  <2>5. Proved(n)'
    BY <2>2 DEF Proved
  <2>6. QED
    BY <2>1, <2>4, <2>5
<1>6. QED
  BY <1>3, <1>4, <1>5

LEMMA RequestsProvenHolds == Spec => []RequestsProven
<1>1. Init => RequestsProven
  BY DEF Init, RequestsProven, Recent, Proved, NoRequest
<1>2. TypeOK /\ TypeOK' /\ RequestsProven /\ [Next]_vars => RequestsProven'
  <2> SUFFICES ASSUME TypeOK, TypeOK', RequestsProven, [Next]_vars, NEW r \in Request,
                      NEW n, n = request'[r]
               PROVE  Recent(n)' /\ Proved(n)'
    BY DEF RequestsProven, Recent, Proved, OwnerOf
  <2> DEFINE q == request[r]
  <2>1. q \in RequestSlot /\ Recent(q) /\ Proved(q)
    BY DEF TypeOK, RequestSlot, RequestsProven
  <2>2. request \in [Request -> RequestSlot] /\ created \in Nat
    BY LimitAssumption DEF TypeOK, RequestSlot
  <2>3. CASE request'[r] = q
    BY <2>1, <2>3, ProvenStays
  <2>4. CASE n = NoRequest
    BY <2>4, EndedProven DEF NoRequest
  <2>5. ASSUME NEW p, Written(r, p)
        PROVE  Recent(n)' /\ Proved(n)'
    <3>1. n.session = 0 /\ n.round = 1 /\ n.pc = "invalidate"
      BY <2>2, <2>5 DEF Written, NoRequest
    <3>2. QED
      BY <3>1, EndedProven
  <2>6. ASSUME NEW s \in SessionId, NEW op \in Op, Arrive(r, s, op)
        PROVE  Recent(n)' /\ Proved(n)'
    <3>1. n = [NoRequest EXCEPT !.pc = "lookup", !.op = op, !.session = s,
                                !.since = version[OwnerOf(s)]]
      BY <2>2, <2>6 DEF Arrive
    <3>2. /\ n.pc = "lookup" /\ n.op = op /\ n.session = s /\ n.round = 1
          /\ n.since = version[OwnerOf(s)]
      BY <3>1 DEF NoRequest
    <3>3. s <= created /\ version[OwnerOf(s)] \in Nat
      BY <2>6, LimitAssumption DEF Arrive, TypeOK, OwnerOf, Row
    <3>4. UNCHANGED <<version, row, created>>
      BY <2>6 DEF Arrive, credentials, table
    <3>5. 1 <= Rounds(op)
      BY DEF Rounds
    <3>6. QED
      BY <3>2, <3>3, <3>4, <3>5 DEF Recent, Proved, OwnerOf
  <2>7. CASE Lookup(r)
    <3>1. UNCHANGED credentials /\ UNCHANGED <<row, created>>
      BY <2>7 DEF Lookup, table
    <3>2. CASE q.session \in sessions
      <4>1. n = [q EXCEPT !.pc = "current"] /\ q.pc = "lookup"
        BY <2>2, <2>7, <3>2 DEF Lookup
      <4>2. /\ n.pc = "current" /\ n.op = q.op /\ n.session = q.session
            /\ n.round = q.round /\ n.since = q.since
        BY <2>1, <4>1 DEF RequestSlot
      <4>3. QED
        BY <2>1, <3>1, <4>1, <4>2 DEF Recent, Proved, OwnerOf, credentials
    <3>3. CASE q.session \notin sessions
      <4>1. Proceed(r, 0) /\ q.pc = "lookup"
        BY <2>7, <3>3 DEF Lookup
      <4>2. QED
        BY <2>1, <3>1, <4>1, ProceedProven
    <3>4. QED
      BY <3>2, <3>3
  <2>8. CASE Current(r)
    <3>1. UNCHANGED credentials /\ UNCHANGED <<row, created>> /\ q.pc = "current"
      BY <2>8 DEF Current
    <3>2. CASE q.session > lapsed /\ Usable(q.session)
      <4>1. Proceed(r, q.session)
        BY <2>8, <3>2 DEF Current
      <4>2. QED
        BY <2>1, <3>1, <3>2, <4>1, ProceedProven
    <3>3. CASE ~(q.session > lapsed /\ Usable(q.session))
      <4>1. Proceed(r, 0)
        BY <2>8, <3>3 DEF Current
      <4>2. QED
        BY <2>1, <3>1, <4>1, ProceedProven
    <3>4. QED
      BY <3>2, <3>3
  <2>9. CASE Verify(r)
    <3> DEFINE p == IF q.op = "account" THEN OwnerOf(q.session) ELSE Admin
    <3>1. UNCHANGED <<hash, version, row, created>>
      BY <2>9 DEF Verify, credentials, table
    <3>2. CASE /\ q.op = "account" => q.session # 0
               /\ n = [q EXCEPT !.pc = "commit", !.subject = p, !.proved = hash[p],
                                !.version = version[p]]
      <4>1. /\ n.pc = "commit" /\ n.session = q.session /\ n.since = q.since
            /\ n.subject = p /\ n.proved = hash[p] /\ n.version = version[p]
        BY <2>1, <3>2 DEF RequestSlot
      <4>2. q.session # 0 /\ q.pc = "handle"
        BY <2>1, <2>9, <3>2 DEF Verify, Recent, AdminOp
      <4>3. p \in Principal
        BY <2>1, <4>2 DEF RequestSlot, TypeOK, OwnerOf, Row, SessionId, Principal
      <4>4. version[p] \in Nat
        BY <4>3 DEF TypeOK
      <4>5. Recent(n)'
        BY <2>1, <3>1, <4>1, <4>2 DEF Recent, OwnerOf
      <4>6. Proved(n)'
        BY <3>1, <4>1, <4>4 DEF Proved
      <4>7. QED
        BY <4>5, <4>6
    <3>3. QED
      BY <2>2, <2>4, <2>9, <3>2 DEF Verify
  <2>10. ASSUME NEW m \in Request, RequestNext(m), m # r
         PROVE  request'[r] = q
    BY <2>2, <2>10
    DEF RequestNext, Arrive, Lookup, Current, CurrentUnread, Proceed, Logout, Verify,
        Commit, Reset, Switch, SwitchUnwritten, Unwritten, Invalidate, Written
  <2>11. CASE RequestNext(r)
    <3>1. ASSUME NEW pw \in Password, Commit(r, pw)
          PROVE  Recent(n)' /\ Proved(n)'
      BY <2>2, <2>4, <2>5, <3>1 DEF Commit
    <3>2. CASE Logout(r) \/ Invalidate(r)
      BY <2>2, <2>4, <3>2 DEF Logout, Invalidate
    <3>3. CASE CurrentUnread(r)
      <4>1. Proceed(r, 0) /\ q.pc = "current" /\ UNCHANGED <<row, created>>
        BY <3>3 DEF CurrentUnread
      <4>2. UNCHANGED credentials
        BY <3>3 DEF CurrentUnread
      <4>3. QED
        BY <2>1, <4>1, <4>2, ProceedProven
    <3>4. ASSUME NEW u \in User, SwitchUnwritten(r, u)
          PROVE  Recent(n)' /\ Proved(n)'
      <4>1. n.session = 0 /\ n.round = 1 /\ n.pc = "unchanged"
        BY <2>2, <3>4 DEF SwitchUnwritten, NoRequest
      <4>2. QED
        BY <4>1, EndedProven
    <3>5. CASE Unwritten(r)
      BY <2>2, <2>4, <3>5 DEF Unwritten
    <3>6. QED
      BY <2>5, <2>6, <2>7, <2>8, <2>9, <2>11, <3>1, <3>2, <3>3, <3>4, <3>5
      DEF RequestNext, Reset, Switch
  <2>12. CASE Restart
    BY <2>4, <2>12 DEF Restart
  <2>13. UNCHANGED request \/ Restart \/ \E m \in Request : RequestNext(m)
    BY DEF Next, LoginNext, Attempt, Confirm, ConfirmUnread, Insert, CliAdminPassword,
           CliSwitch, Lapse, vars
  <2>14. QED
    BY <2>3, <2>10, <2>11, <2>12, <2>13
<1>3. QED
  BY <1>1, <1>2, TypeCorrect, PTL DEF Spec

\* Only these three steps write for a request.
LEMMA Writers ==
  ASSUME TypeOK, [Next]_vars, NEW r \in Request,
         request[r].pc # "invalidate", request'[r].pc = "invalidate"
  PROVE  \/ \E pw \in Password : /\ Commit(r, pw)
                                 /\ version[request[r].subject] = request[r].version
         \/ \E u \in User, pw \in Password : Reset(r, u, pw)
         \/ \E u \in User, d \in BOOLEAN : Switch(r, u, d)
<1>1. request \in [Request -> RequestSlot]
  BY DEF TypeOK, RequestSlot
<1>2. request'[r] # request[r] /\ request'[r] # NoRequest
  BY DEF NoRequest
<1>3. RequestNext(r)
  <2>1. ~Restart
    BY <1>2 DEF Restart
  <2>2. PICK m \in Request : RequestNext(m)
    BY <1>2, <2>1
    DEF Next, LoginNext, Attempt, Confirm, ConfirmUnread, Insert, CliAdminPassword,
        CliSwitch, Lapse, vars
  <2>3. m = r
    BY <1>1, <1>2, <2>2
    DEF RequestNext, Arrive, Lookup, Current, CurrentUnread, Proceed, Logout, Verify,
        Commit, Reset, Switch, SwitchUnwritten, Unwritten, Invalidate, Written
  <2>4. QED
    BY <2>2, <2>3
<1>4. ASSUME NEW s, Proceed(r, s)
      PROVE  FALSE
  <2> DEFINE q == request[r]
             again == [q EXCEPT !.session = s, !.round = @ + 1, !.pc = "lookup"]
             handle == [q EXCEPT !.session = s, !.round = 1, !.pc = "handle"]
  <2>1. request'[r] \in {NoRequest, again, handle}
    BY <1>1, <1>4 DEF Proceed
  <2>2. q \in RequestSlot
    BY <1>1
  <2>3. again.pc = "lookup" /\ handle.pc = "handle"
    BY <2>2 DEF RequestSlot
  <2>4. QED
    BY <1>2, <2>1, <2>3
<1>5. ~Lookup(r) /\ ~Current(r) /\ ~CurrentUnread(r)
  <2>1. request' # [request EXCEPT ![r].pc = "current"]
    BY <1>1 DEF RequestSlot
  <2>2. QED
    BY <1>4, <2>1 DEF Lookup, Current, CurrentUnread
<1>6. /\ ~Verify(r) /\ ~Logout(r) /\ ~Invalidate(r) /\ \A s, op : ~Arrive(r, s, op)
      /\ ~Unwritten(r) /\ \A u : ~SwitchUnwritten(r, u)
  <2>1. ~Logout(r) /\ ~Invalidate(r) /\ ~Unwritten(r)
    BY <1>1, <1>2 DEF Logout, Invalidate, Unwritten
  <2>2. ASSUME NEW p, request' = [request EXCEPT ![r] =
                 [request[r] EXCEPT !.pc = "commit", !.subject = p, !.proved = hash[p],
                                    !.version = version[p]]]
        PROVE  FALSE
    BY <1>1, <2>2 DEF RequestSlot
  <2>3. ~Verify(r)
    BY <1>1, <1>2, <2>2 DEF Verify
  <2>4. \A s, op : ~Arrive(r, s, op)
    BY <1>1 DEF Arrive, NoRequest
  <2>5. \A u : ~SwitchUnwritten(r, u)
    BY <1>1 DEF SwitchUnwritten, NoRequest
  <2>6. QED
    BY <2>1, <2>3, <2>4, <2>5
<1>7. ASSUME NEW pw \in Password, Commit(r, pw)
      PROVE  version[request[r].subject] = request[r].version
  BY <1>1, <1>2, <1>7 DEF Commit
<1>8. QED
  BY <1>3, <1>5, <1>6, <1>7 DEF RequestNext

\* A change of a credential disarms every session that is older: no request that
\* arrives with such a session after the change writes anything, at whichever of
\* its steps the session or the credential goes.
THEOREM OldSessionsPowerless == Spec => OldSessionsChangeNothing
<1> DEFINE Step == \A r \in Request :
             request[r].pc # "invalidate" /\ request'[r].pc = "invalidate"
               => /\ request[r].session # 0
                  /\ row[request[r].session].version >= request[r].since
<1>1. TypeOK /\ RequestsProven /\ [Next]_vars => Step
  <2> SUFFICES ASSUME TypeOK, RequestsProven, [Next]_vars, NEW r \in Request,
                      request[r].pc # "invalidate", request'[r].pc = "invalidate"
               PROVE  /\ request[r].session # 0
                      /\ row[request[r].session].version >= request[r].since
    OBVIOUS
  <2>1. \/ request[r].pc = "commit"
        \/ request[r].pc = "handle" /\ request[r].op \in AdminOp
    BY Writers DEF Commit, Reset, Switch, AdminOp
  <2>2. Recent(request[r])
    BY DEF RequestsProven
  <2>3. QED
    BY <2>1, <2>2 DEF Recent
<1>2. QED
  BY <1>1, TypeCorrect, RequestsProvenHolds, PTL DEF Spec, OldSessionsChangeNothing

\* The compare-and-set on the version: the password that is replaced is the one
\* that was verified, whatever an administrator or the CLI did meanwhile.
THEOREM ResetWins == Spec => ResetIsNotOverwritten
<1> DEFINE Step == \A r \in Request :
             request[r].pc = "commit" /\ request'[r].pc = "invalidate"
               => hash[request[r].subject] = request[r].proved
<1>1. TypeOK /\ RequestsProven /\ [Next]_vars => Step
  <2> SUFFICES ASSUME TypeOK, RequestsProven, [Next]_vars, NEW r \in Request,
                      request[r].pc = "commit", request'[r].pc = "invalidate"
               PROVE  hash[request[r].subject] = request[r].proved
    OBVIOUS
  <2>1. version[request[r].subject] = request[r].version
    BY Writers DEF Reset, Switch
  <2>2. QED
    BY <2>1 DEF RequestsProven, Proved
<1>2. QED
  BY <1>1, TypeCorrect, RequestsProvenHolds, PTL DEF Spec, ResetIsNotOverwritten

\* A user only gets rid of the duty to change a temporary password by changing
\* it: the flag never goes without another password coming.
THEOREM TemporaryReplaced == Spec => TemporaryIsReplaced
<1> DEFINE Step == \A u \in User : must[u] /\ ~must'[u] => hash'[u] # hash[u]
<1>1. TypeOK /\ RequestsProven /\ [Next]_vars => Step
  <2> SUFFICES ASSUME TypeOK, RequestsProven, [Next]_vars, NEW u \in User, must[u], ~must'[u]
               PROVE  hash'[u] # hash[u]
    OBVIOUS
  <2>1. /\ u \in Principal /\ u # Admin
        /\ hash \in [Principal -> Password \cup {NoPassword}]
        /\ must \in [Principal -> BOOLEAN]
    BY PrincipalAssumption DEF TypeOK, Principal
  <2>2. must' # must
    OBVIOUS
  <2>3. ASSUME NEW p, NEW pw, NEW t, SetPassword(p, pw, t)
        PROVE  p = u /\ ~t /\ hash'[u] = pw
    BY <2>1, <2>3 DEF SetPassword
  <2>4. ASSUME NEW r \in Request, NEW pw \in Password, Commit(r, pw)
        PROVE  hash'[u] # hash[u]
    <3>1. /\ request[r].pc = "commit" /\ pw # request[r].proved
          /\ version[request[r].subject] = request[r].version
          /\ SetPassword(request[r].subject, pw, FALSE)
      BY <2>2, <2>4 DEF Commit, credentials
    <3>2. request[r].subject = u /\ hash'[u] = pw
      BY <2>3, <3>1
    <3>3. hash[u] = request[r].proved
      BY <3>1, <3>2 DEF RequestsProven, Proved
    <3>4. QED
      BY <3>1, <3>2, <3>3
  <2>5. ASSUME NEW r \in Request, NEW o \in User, NEW pw \in Password, Reset(r, o, pw)
        PROVE  FALSE
    BY <2>3, <2>5 DEF Reset
  <2>6. ASSUME NEW pw \in Password, CliAdminPassword(pw)
        PROVE  FALSE
    BY <2>1, <2>3, <2>6 DEF CliAdminPassword
  <2>7. QED
    BY <2>2, <2>4, <2>5, <2>6
    DEF Next, LoginNext, RequestNext, Attempt, Confirm, ConfirmUnread, Insert, Arrive,
        Lookup, Current, CurrentUnread, Logout, Verify, Switch, SwitchUnwritten, Unwritten,
        SetDisabled, Invalidate, CliSwitch, Lapse, Restart, credentials, vars
<1>2. QED
  BY <1>1, TypeCorrect, RequestsProvenHolds, PTL DEF Spec, TemporaryIsReplaced

-----------------------------------------------------------------------------
(* The table of sessions.                                                  *)

\* A set of session ids that is not empty has an oldest one.
LEMMA OldestExists ==
  ASSUME NEW S \in SUBSET SessionId, S # {}
  PROVE  Oldest(S) \in S
<1>1. S \subseteq Nat
  BY LimitAssumption DEF SessionId
<1>2. PICK m \in S : \A k \in S : <<k, m>> \notin OpToRel(<, Nat)
  BY <1>1, WFMin, NatLessThanWellFounded, Zenon
<1>3. \A k \in S : ~(k < m)
  BY <1>1, <1>2, Zenon DEF OpToRel
<1>4. \A k \in S : m <= k
  BY <1>1, <1>3
<1>5. QED
  BY <1>4 DEF Oldest

\* Sets of session ids are finite, and a part of one is no larger.
LEMMA SessionSetsFinite ==
  ASSUME NEW S \in SUBSET SessionId
  PROVE  /\ IsFiniteSet(S) /\ Cardinality(S) \in Nat
         /\ \A T \in SUBSET S : IsFiniteSet(T) /\ Cardinality(T) \in Nat
                                /\ Cardinality(T) <= Cardinality(S)
<1>1. IsFiniteSet(SessionId)
  BY LimitAssumption, FS_Interval DEF SessionId
<1>2. IsFiniteSet(S)
  BY <1>1, FS_Subset
<1>3. QED
  BY <1>2, FS_Subset, FS_CardinalityType

\* What Room leaves, for its principal and for the table: the eviction, when
\* there is one, takes a session of the principal, and leaves room.
LEMMA RoomMade ==
  ASSUME TypeOK, NEW p \in Principal,
         Cardinality(SessionsOf(p)) <= PerPrincipal, Cardinality(sessions) <= Capacity
  PROVE  /\ Room(p) \subseteq Fresh
         /\ Cardinality(Room(p) \cap SessionsOf(p)) < PerPrincipal
         /\ Room(p) # Fresh =>
              /\ Cardinality(Room(p)) < Capacity
              /\ \A s \in Fresh \ Room(p) : OwnerOf(s) = p
<1> DEFINE mine == Fresh \cap SessionsOf(p)
<1>1. /\ sessions \in SUBSET SessionId /\ Fresh \subseteq sessions
      /\ mine \subseteq SessionsOf(p) /\ SessionsOf(p) \subseteq sessions
  BY DEF TypeOK, Fresh, SessionsOf
<1>2. /\ IsFiniteSet(mine) /\ IsFiniteSet(Fresh)
      /\ Cardinality(mine) \in Nat /\ Cardinality(Fresh) \in Nat
      /\ Cardinality(mine) <= Cardinality(SessionsOf(p))
      /\ Cardinality(Fresh) <= Cardinality(sessions)
      /\ Cardinality(SessionsOf(p)) \in Nat /\ Cardinality(sessions) \in Nat
  <2>1. SessionsOf(p) \in SUBSET SessionId /\ mine \in SUBSET SessionsOf(p)
        /\ Fresh \in SUBSET sessions
    BY <1>1
  <2>2. QED
    BY <1>1, <2>1, SessionSetsFinite
<1>3. CASE Cardinality(mine) >= PerPrincipal
  <2> DEFINE o == Oldest(mine)
  <2>1. Room(p) = Fresh \ {o}
    BY <1>3 DEF Room
  <2>2. mine # {}
    BY <1>2, <1>3, FS_EmptySet, LimitAssumption
  <2>3. o \in mine
    BY <1>1, <2>2, OldestExists
  <2>4. Room(p) \cap SessionsOf(p) = mine \ {o}
    BY <2>1
  <2>5. Cardinality(mine \ {o}) = Cardinality(mine) - 1
    BY <1>2, <2>3, FS_RemoveElement
  <2>6. Cardinality(Fresh \ {o}) = Cardinality(Fresh) - 1
    BY <1>2, <2>3, FS_RemoveElement
  <2>7. OwnerOf(o) = p
    BY <2>3 DEF SessionsOf
  <2>8. /\ Cardinality(mine \ {o}) < PerPrincipal
        /\ Cardinality(Fresh \ {o}) < Capacity
    BY <1>2, <2>5, <2>6, LimitAssumption
  <2>9. QED
    BY <2>1, <2>4, <2>7, <2>8
<1>4. CASE ~(Cardinality(mine) >= PerPrincipal)
  <2>1. Room(p) = Fresh
    BY <1>4 DEF Room
  <2>2. Cardinality(mine) < PerPrincipal
    BY <1>2, <1>4, LimitAssumption
  <2>3. QED
    BY <2>1, <2>2
<1>5. QED
  BY <1>3, <1>4

\* The table of sessions and the sessions of each principal are bounded, however
\* logins interleave between createSession's second look and its lock.
THEOREM TableBounded == Spec => []SessionsBounded
<1>1. Init => SessionsBounded
  <2> SUFFICES ASSUME Init PROVE SessionsBounded
    OBVIOUS
  <2>1. sessions = {} /\ \A p \in Principal : SessionsOf(p) = {}
    BY DEF Init, SessionsOf
  <2>2. QED
    BY <2>1, FS_EmptySet, LimitAssumption DEF SessionsBounded
<1>2. TypeOK /\ TypeOK' /\ Agreement /\ SessionsBounded /\ [Next]_vars => SessionsBounded'
  <2> SUFFICES ASSUME TypeOK, TypeOK', Agreement, SessionsBounded, [Next]_vars
               PROVE  SessionsBounded'
    OBVIOUS
  <2>1. sessions \in SUBSET SessionId /\ sessions' \in SUBSET SessionId
    BY DEF TypeOK
  <2>2. \A s \in sessions : s \in 1..created /\ row'[s] = row[s]
    BY RowsStay DEF Agreement
  <2> DEFINE After(p) == {s \in sessions' : row'[s].principal = p}
  <2>3. SUFFICES /\ Cardinality(sessions') <= Capacity
                 /\ \A p \in Principal : Cardinality(After(p)) <= PerPrincipal
    BY DEF SessionsBounded, SessionsOf, OwnerOf
  <2>4. /\ Cardinality(sessions) <= Capacity
        /\ \A p \in Principal : Cardinality(SessionsOf(p)) <= PerPrincipal
    BY DEF SessionsBounded
  <2>5. /\ Cardinality(sessions) \in Nat /\ Cardinality(sessions') \in Nat
        /\ \A p \in Principal : /\ SessionsOf(p) \in SUBSET SessionId
                                /\ Cardinality(SessionsOf(p)) \in Nat
                                /\ Cardinality(After(p)) \in Nat
    BY <2>1, SessionSetsFinite DEF SessionsOf
  <2>6. CASE sessions' \subseteq sessions
    <3>1. Cardinality(sessions') <= Cardinality(sessions)
      BY <2>1, <2>6, SessionSetsFinite
    <3>2. \A p \in Principal : After(p) \in SUBSET SessionsOf(p)
      BY <2>2, <2>6 DEF SessionsOf, OwnerOf
    <3>3. \A p \in Principal : Cardinality(After(p)) <= Cardinality(SessionsOf(p))
      BY <2>5, <3>2, SessionSetsFinite
    <3>4. QED
      BY <2>4, <2>5, <3>1, <3>3, LimitAssumption
  <2>7. ASSUME NEW l \in Login, Insert(l)
        PROVE  /\ Cardinality(sessions') <= Capacity
               /\ \A p \in Principal : Cardinality(After(p)) <= PerPrincipal
    <3> DEFINE o == login[l].principal
               new == created + 1
    <3>1. o \in Principal /\ Room(o) \subseteq sessions
      BY <2>7 DEF TypeOK, Room, Fresh
    <3>2. CASE sessions' = Room(o)
      BY <2>6, <3>1, <3>2
    <3>3. CASE /\ ~(Cardinality(Room(o)) >= Capacity) /\ sessions' = Room(o) \cup {new}
               /\ row' = [row EXCEPT ![new] = [principal |-> o, version |-> login[l].cred.version,
                                               must |-> login[l].cred.must]]
      <4>1. new \in SessionId /\ new \notin sessions
        BY <2>1, <2>2, <3>3, LimitAssumption DEF TypeOK
      <4>2. Room(o) \in SUBSET SessionId /\ IsFiniteSet(Room(o)) /\ Cardinality(Room(o)) \in Nat
        BY <2>1, <3>1, SessionSetsFinite
      <4>3. Cardinality(sessions') = Cardinality(Room(o)) + 1
        BY <3>1, <3>3, <4>1, <4>2, FS_AddElement
      <4>4. Cardinality(sessions') <= Capacity
        BY <3>3, <4>2, <4>3, LimitAssumption
      <4>5. row'[new].principal = o
        BY <3>3, <4>1 DEF TypeOK
      <4>6. After(o) = (Room(o) \cap SessionsOf(o)) \cup {new}
        BY <2>2, <3>1, <3>3, <4>5 DEF SessionsOf, OwnerOf
      <4>7. Cardinality(Room(o) \cap SessionsOf(o)) < PerPrincipal
        BY <2>4, <3>1, RoomMade
      <4>8. /\ IsFiniteSet(Room(o) \cap SessionsOf(o))
            /\ Cardinality(Room(o) \cap SessionsOf(o)) \in Nat
        BY <2>1, <3>1, SessionSetsFinite
      <4>9. Cardinality(After(o)) = Cardinality(Room(o) \cap SessionsOf(o)) + 1
        BY <3>1, <4>1, <4>6, <4>8, FS_AddElement
      <4>10. Cardinality(After(o)) <= PerPrincipal
        BY <4>7, <4>8, <4>9, LimitAssumption
      <4>11. ASSUME NEW p \in Principal, p # o
             PROVE  Cardinality(After(p)) <= PerPrincipal
        <5>1. After(p) \in SUBSET SessionsOf(p)
          BY <2>2, <3>1, <3>3, <4>5, <4>11 DEF SessionsOf, OwnerOf
        <5>2. Cardinality(After(p)) <= Cardinality(SessionsOf(p))
          BY <2>5, <5>1, SessionSetsFinite
        <5>3. QED
          BY <2>4, <2>5, <5>2, LimitAssumption
      <4>12. QED
        BY <4>4, <4>10, <4>11
    <3>4. QED
      BY <2>7, <3>2, <3>3 DEF Insert
  <2>8. sessions' \subseteq sessions \/ \E l \in Login : Insert(l)
    BY DEF Next, LoginNext, RequestNext, Attempt, Confirm, ConfirmUnread, Arrive, Lookup,
           Current, CurrentUnread, Logout, Verify, Commit, Reset, Switch, SwitchUnwritten,
           Unwritten, Invalidate, CliAdminPassword, CliSwitch, Lapse, Restart, table, vars
  <2>9. QED
    BY <2>6, <2>7, <2>8
<1>3. QED
  BY <1>1, <1>2, TypeCorrect, AgreementHolds, PTL DEF Spec

\* Nobody loses a session to somebody else's login, or to one that is refused.
THEOREM SessionsLostWithCause == Spec => NoSessionLostWithoutCause
<1> DEFINE Cause(s) ==
             \/ s <= lapsed
             \/ ~Usable(s)
             \/ \E r \in Request : \/ request[r].op = "logout" /\ request[r].session = s
                                   \/ /\ request[r].pc \in {"invalidate", "unchanged"}
                                      /\ request[r].subject = OwnerOf(s)
                                   \/ CurrentUnread(r) /\ request[r].session = s
             \/ /\ login' = [l \in Login |-> NoLogin]
                /\ request' = [r \in Request |-> NoRequest]
             \/ \E t \in sessions' \ sessions : row'[t].principal = OwnerOf(s)
<1>1. TypeOK /\ Agreement /\ SessionsBounded /\ [Next]_vars
        => \A s \in sessions \ sessions' : Cause(s)
  <2> SUFFICES ASSUME TypeOK, Agreement, SessionsBounded, [Next]_vars,
                      NEW s \in sessions \ sessions'
               PROVE  Cause(s)
    OBVIOUS
  <2>1. ASSUME NEW r \in Request, Current(r) PROVE Cause(s)
    BY <2>1 DEF Current, TypeOK, SessionId
  <2>2. ASSUME NEW r \in Request, Logout(r) PROVE Cause(s)
    BY <2>2 DEF Logout
  <2>3. ASSUME NEW r \in Request, Invalidate(r) PROVE Cause(s)
    BY <2>3 DEF Invalidate, SessionsOf
  <2>4. CASE Restart
    BY <2>4 DEF Restart
  <2>5. ASSUME NEW l \in Login, Insert(l), ~(s <= lapsed) PROVE Cause(s)
    <3> DEFINE o == login[l].principal
               new == created + 1
    <3>1. o \in Principal /\ row \in [SessionId -> Row]
      BY DEF TypeOK
    <3>2. s \in Fresh \ Room(o)
      <4>1. s \in SessionId /\ lapsed \in Nat
        BY LimitAssumption DEF TypeOK
      <4>2. s > lapsed
        BY <2>5, <4>1, LimitAssumption DEF SessionId
      <4>3. QED
        BY <2>5, <4>2 DEF Fresh, Insert
    <3>3. OwnerOf(s) = o /\ Cardinality(Room(o)) < Capacity
      BY <3>1, <3>2, RoomMade DEF SessionsBounded
    <3>4. /\ sessions' = Room(o) \cup {new}
          /\ row' = [row EXCEPT ![new] = [principal |-> o, version |-> login[l].cred.version,
                                          must |-> login[l].cred.must]]
      <4>1. ~(Cardinality(Room(o)) >= Capacity)
        <5>1. Room(o) \in SUBSET SessionId
          BY DEF TypeOK, Room, Fresh
        <5>2. QED
          BY <3>3, <5>1, SessionSetsFinite, LimitAssumption
      <4>2. QED
        BY <2>5, <4>1 DEF Insert
    <3>5. new \in SessionId /\ new \notin sessions
      BY <2>5, LimitAssumption DEF Insert, TypeOK, SessionId, Agreement
    <3>6. row'[new].principal = o
      BY <3>1, <3>4, <3>5
    <3>7. QED
      BY <3>3, <3>4, <3>5, <3>6
  <2>6. ASSUME NEW r \in Request, CurrentUnread(r) PROVE Cause(s)
    <3>1. request[r].session = s
      BY <2>6 DEF CurrentUnread
    <3>2. QED
      BY <2>6, <3>1
  <2>7. QED
    BY <2>1, <2>2, <2>3, <2>4, <2>5, <2>6
    DEF Next, LoginNext, RequestNext, Attempt, Confirm, ConfirmUnread, Arrive, Lookup,
        Verify, Commit, Reset, Switch, SwitchUnwritten, Unwritten, CliAdminPassword,
        CliSwitch, Lapse, table, vars
<1>2. QED
  BY <1>1, TypeCorrect, AgreementHolds, TableBounded, PTL DEF Spec, NoSessionLostWithoutCause

-----------------------------------------------------------------------------
(* WebAuth implements PortalAccess.                                        *)

\* The strengthening: for whom a request that has come to a handler may act.
Entitled(q) ==
  /\ q.pc = "handle" /\ q.op \in AdminOp => IsAdmin(q.session)
  /\ q.pc = "commit" => \/ q.op = "account" /\ q.subject = OwnerOf(q.session)
                        \/ IsAdmin(q.session)

RequestsEntitled == \A r \in Request : Entitled(request[r])

\* Nobody takes over the session of a request, so it stays entitled.
LEMMA EntitledStays ==
  ASSUME TypeOK, [Next]_vars, NEW q \in RequestSlot, Recent(q), Entitled(q)
  PROVE  Entitled(q)'
<1>1. created \in Nat /\ q.session \in Nat
  BY LimitAssumption DEF TypeOK, RequestSlot
<1>2. q.session # 0 => row'[q.session] = row[q.session]
  BY <1>1, RowsStay DEF Recent
<1>3. q.pc = "commit" => q.session # 0
  BY DEF Recent
<1>4. QED
  BY <1>2, <1>3 DEF Entitled, IsAdmin, OwnerOf

\* A request that comes to an administrator's handler comes as the administrator.
LEMMA ProceedEntitled ==
  ASSUME TypeOK, NEW r \in Request, Recent(request[r]),
         request[r].pc \in {"lookup", "current"}, NEW n, n = request'[r],
         NEW s \in 0..MaxSessions, Proceed(r, s), UNCHANGED row
  PROVE  Entitled(n)'
<1> DEFINE q == request[r]
<1>1. q \in RequestSlot /\ q.round \in 1..3
  BY DEF TypeOK, RequestSlot
<1>2. CASE Rejected(q, s)
  <2>1. n = NoRequest
    BY <1>2 DEF Proceed, TypeOK
  <2>2. n.pc = "idle"
    BY <2>1 DEF NoRequest
  <2>3. QED
    BY <2>2 DEF Entitled
<1>3. CASE ~Rejected(q, s) /\ q.round < Rounds(q.op)
  <2>1. n = [q EXCEPT !.session = s, !.round = @ + 1, !.pc = "lookup"]
    BY <1>3 DEF Proceed, TypeOK
  <2>2. n.pc = "lookup"
    BY <1>1, <2>1 DEF RequestSlot
  <2>3. QED
    BY <2>2 DEF Entitled
<1>4. CASE ~Rejected(q, s) /\ ~(q.round < Rounds(q.op))
  <2>1. n = [q EXCEPT !.session = s, !.round = 1, !.pc = "handle"]
    BY <1>4 DEF Proceed, TypeOK
  <2>2. n.pc = "handle" /\ n.op = q.op /\ n.session = s
    BY <1>1, <2>1 DEF RequestSlot
  <2>3. q.op \in AdminOp => Rounds(q.op) = 2
    BY DEF AdminOp, Rounds
  <2>4. q.op \in AdminOp => IsAdmin(s)
    BY <1>1, <1>4, <2>3 DEF Recent, Rejected
  <2>5. QED
    BY <2>2, <2>4 DEF Entitled, IsAdmin, OwnerOf
<1>5. QED
  BY <1>2, <1>3, <1>4

LEMMA RequestsEntitledHolds == Spec => []RequestsEntitled
<1>1. Init => RequestsEntitled
  BY DEF Init, RequestsEntitled, Entitled, NoRequest
<1>2. TypeOK /\ RequestsProven /\ RequestsEntitled /\ [Next]_vars => RequestsEntitled'
  <2> SUFFICES ASSUME TypeOK, RequestsProven, RequestsEntitled, [Next]_vars,
                      NEW r \in Request, NEW n, n = request'[r]
               PROVE  Entitled(n)'
    BY DEF RequestsEntitled, Entitled, IsAdmin, OwnerOf
  <2> DEFINE q == request[r]
  <2>1. q \in RequestSlot /\ Recent(q) /\ Entitled(q)
    BY DEF TypeOK, RequestSlot, RequestsProven, RequestsEntitled
  <2>2. request \in [Request -> RequestSlot]
    BY DEF TypeOK, RequestSlot
  <2>3. CASE request'[r] = q
    BY <2>1, <2>3, EntitledStays
  <2>4. CASE n = NoRequest
    BY <2>4 DEF Entitled, NoRequest
  <2>5. ASSUME NEW p, Written(r, p)
        PROVE  Entitled(n)'
    <3>1. n.pc = "invalidate"
      BY <2>2, <2>5 DEF Written, NoRequest
    <3>2. QED
      BY <3>1 DEF Entitled
  <2>6. ASSUME NEW s \in SessionId, NEW op \in Op, Arrive(r, s, op)
        PROVE  Entitled(n)'
    <3>1. n.pc = "lookup"
      BY <2>2, <2>6 DEF Arrive, NoRequest
    <3>2. QED
      BY <3>1 DEF Entitled
  <2>7. CASE Lookup(r)
    <3>1. CASE q.session \in sessions
      <4>1. n.pc = "current"
        BY <2>1, <2>2, <2>7, <3>1 DEF Lookup, RequestSlot
      <4>2. QED
        BY <4>1 DEF Entitled
    <3>2. CASE q.session \notin sessions
      <4>1. Proceed(r, 0) /\ q.pc = "lookup" /\ UNCHANGED row /\ 0 \in 0..MaxSessions
        BY <2>7, <3>2, LimitAssumption DEF Lookup, table
      <4>2. QED
        BY <2>1, <4>1, ProceedEntitled
    <3>3. QED
      BY <3>1, <3>2
  <2>8. CASE Current(r)
    <3>1. q.session \in 0..MaxSessions /\ 0 \in 0..MaxSessions
      BY <2>1, LimitAssumption DEF RequestSlot
    <3>2. /\ Proceed(r, q.session) \/ Proceed(r, 0)
          /\ UNCHANGED row /\ q.pc = "current"
      BY <2>8 DEF Current
    <3>3. QED
      BY <2>1, <3>1, <3>2, ProceedEntitled
  <2>9. CASE Verify(r)
    <3> DEFINE p == IF q.op = "account" THEN OwnerOf(q.session) ELSE Admin
    <3>1. CASE n = [q EXCEPT !.pc = "commit", !.subject = p, !.proved = hash[p],
                             !.version = version[p]]
      <4>1. n.pc = "commit" /\ n.op = q.op /\ n.subject = p /\ n.session = q.session
        BY <2>1, <3>1 DEF RequestSlot
      <4>2. q.pc = "handle" /\ q.op \in {"account", "settings"} /\ UNCHANGED row
        BY <2>9 DEF Verify, table
      <4>3. QED
        BY <2>1, <4>1, <4>2 DEF Entitled, AdminOp, IsAdmin, OwnerOf
    <3>2. QED
      BY <2>2, <2>4, <2>9, <3>1 DEF Verify
  <2>10. ASSUME NEW m \in Request, RequestNext(m), m # r
         PROVE  request'[r] = q
    BY <2>2, <2>10
    DEF RequestNext, Arrive, Lookup, Current, CurrentUnread, Proceed, Logout, Verify,
        Commit, Reset, Switch, SwitchUnwritten, Unwritten, Invalidate, Written
  <2>11. CASE RequestNext(r)
    <3>1. ASSUME NEW pw \in Password, Commit(r, pw)
          PROVE  Entitled(n)'
      BY <2>2, <2>4, <2>5, <3>1 DEF Commit
    <3>2. CASE Logout(r) \/ Invalidate(r)
      BY <2>2, <2>4, <3>2 DEF Logout, Invalidate
    <3>3. CASE CurrentUnread(r)
      <4>1. Proceed(r, 0) /\ q.pc = "current" /\ UNCHANGED row /\ 0 \in 0..MaxSessions
        BY <3>3, LimitAssumption DEF CurrentUnread
      <4>2. QED
        BY <2>1, <4>1, ProceedEntitled
    <3>4. ASSUME NEW u \in User, SwitchUnwritten(r, u)
          PROVE  Entitled(n)'
      <4>1. n.pc = "unchanged"
        BY <2>2, <3>4 DEF SwitchUnwritten, NoRequest
      <4>2. QED
        BY <4>1 DEF Entitled
    <3>5. CASE Unwritten(r)
      BY <2>2, <2>4, <3>5 DEF Unwritten
    <3>6. QED
      BY <2>5, <2>6, <2>7, <2>8, <2>9, <2>11, <3>1, <3>2, <3>3, <3>4, <3>5
      DEF RequestNext, Reset, Switch
  <2>12. CASE Restart
    BY <2>4, <2>12 DEF Restart
  <2>13. UNCHANGED request \/ Restart \/ \E m \in Request : RequestNext(m)
    BY DEF Next, LoginNext, Attempt, Confirm, ConfirmUnread, Insert, CliAdminPassword,
           CliSwitch, Lapse, vars
  <2>14. QED
    BY <2>3, <2>10, <2>11, <2>12, <2>13
<1>3. QED
  BY <1>1, <1>2, TypeCorrect, RequestsProvenHolds, PTL DEF Spec

\* The invariant the refinement rests on.
AccessInv == TypeOK /\ Agreement /\ RequestsProven /\ RequestsEntitled

LEMMA AccessInvAlways == Spec => []AccessInv
  BY TypeCorrect, AgreementHolds, RequestsProvenHolds, RequestsEntitledHolds, PTL DEF AccessInv

\* What the instance sees.
OpenMap    == {p \in Principal : hash[p] # NoPassword /\ ~disabled[p]}
OwnerMap   == [s \in SessionId |-> OwnerOf(s)]
LiveMap    == {s \in sessions : InForce(s)}
AllowedMap == [r \in Request |-> {s \in {request[r].session} : Authorised(request[r])}]
DoneMap    == [r \in Request |-> {p \in {request[r].subject} : request[r].pc = "invalidate"}]

\* A session that is out of force never comes back into force.
LEMMA NeverBack ==
  ASSUME AccessInv, [Next]_vars, NEW s \in 1..created, InForce(s)'
  PROVE  InForce(s)
<1> DEFINE o == OwnerOf(s)
<1>1. TypeOK /\ CreatedAgree
  BY DEF AccessInv, Agreement
<1>2. row'[s] = row[s]
  BY <1>1, RowsStay
<1>3. s \in SessionId /\ row[s] \in Row
  BY <1>1, LimitAssumption DEF TypeOK, SessionId
<1>4. o \in Principal /\ row[s].version \in Nat /\ version[o] \in Nat
  BY <1>1, <1>3 DEF OwnerOf, Row, TypeOK
<1>5. row[s].version <= version[o]
  BY <1>1 DEF CreatedAgree
<1>6. hash'[o] # NoPassword /\ ~disabled'[o] /\ row[s].version = version'[o]
  BY <1>2 DEF InForce, Usable, OwnerOf
<1>7. ~(version'[o] > version[o])
  BY <1>4, <1>5, <1>6
<1>8. version'[o] = version[o] /\ hash'[o] = hash[o] /\ disabled'[o] = disabled[o]
  BY <1>1, <1>4, <1>7, VersionCovers
<1>9. Usable(s)
  BY <1>6, <1>8 DEF Usable
<1>10. s > lapsed
  <2>1. UNCHANGED lapsed \/ Lapse
    BY DEF Next, LoginNext, RequestNext, Attempt, Confirm, ConfirmUnread, Insert, Arrive,
           Lookup, Current, CurrentUnread, Logout, Verify, Commit, Reset, Switch,
           SwitchUnwritten, Unwritten, Invalidate, CliAdminPassword, CliSwitch, Restart,
           vars
  <2>2. lapsed \in Nat /\ s \in Nat
    BY <1>1, <1>3, LimitAssumption DEF TypeOK, SessionId
  <2>3. s > lapsed'
    BY DEF InForce
  <2>4. QED
    BY <2>1, <2>2, <2>3 DEF Lapse
<1>11. QED
  BY <1>9, <1>10 DEF InForce

\* Sessions and requests only end, as far as PortalAccess sees, in a step that
\* touches no credential and adds no session or right.
LEMMA AccessWanes ==
  ASSUME AccessInv, [Next]_vars, UNCHANGED credentials, UNCHANGED <<row, created>>,
         sessions' \subseteq sessions,
         \A r \in Request : AllowedMap'[r] \subseteq AllowedMap[r] /\ DoneMap'[r] \subseteq DoneMap[r]
  PROVE  Access!Next
<1>1. LiveMap' \subseteq LiveMap
  BY NeverBack DEF LiveMap, AccessInv, Agreement
<1>2. UNCHANGED <<version, OpenMap, 1..created, OwnerMap>>
  BY DEF credentials, OpenMap, OwnerMap, OwnerOf
<1>3. Access!Wane
  BY <1>1, <1>2 DEF Access!Wane, Access!Fewer, LiveMap, OpenMap, OwnerMap, AllowedMap, DoneMap
<1>4. QED
  BY <1>3 DEF Access!Next

\* A request that stays as it is gains no right.
LEMMA RightsStay ==
  ASSUME AccessInv, [Next]_vars, NEW r \in Request, request'[r] = request[r]
  PROVE  AllowedMap'[r] \subseteq AllowedMap[r] /\ DoneMap'[r] = DoneMap[r]
<1> DEFINE q == request[r]
<1>1. q \in RequestSlot /\ q.session <= created /\ created \in Nat
  BY LimitAssumption DEF AccessInv, TypeOK, RequestSlot, RequestsProven, Recent
<1>2. q.session # 0 => q.session \in 1..created
  BY <1>1, LimitAssumption DEF RequestSlot
<1>3. ASSUME NEW n, n = q, Authorised(n)'
      PROVE  Authorised(q)
  BY <1>2, <1>3, NeverBack DEF Authorised
<1>4. QED
  BY <1>3 DEF AllowedMap, DoneMap

\* A request that has become nothing, or has no session, has no right.
LEMMA NoRights ==
  ASSUME NEW r \in Request, request'[r].session = 0, request'[r].pc # "invalidate"
  PROVE  AllowedMap'[r] = {} /\ DoneMap'[r] = {}
BY DEF AllowedMap, DoneMap, Authorised

\* A change of a credential puts all sessions of its principal out of force.
LEMMA AccessChanges ==
  ASSUME AccessInv, [Next]_vars, NEW p \in Principal, UNCHANGED <<table, lapsed>>,
         \/ \E pw \in Password, t \in BOOLEAN : SetPassword(p, pw, t)
         \/ \E d \in BOOLEAN : SetDisabled(p, d)
  PROVE  Access!Change(p)
<1>1. /\ version \in [Principal -> Nat] /\ hash \in [Principal -> Password \cup {NoPassword}]
      /\ disabled \in [Principal -> BOOLEAN]
  BY DEF AccessInv, TypeOK
<1>2. /\ version' = [version EXCEPT ![p] = @ + 1]
      /\ \A o \in Principal \ {p} : hash'[o] = hash[o] /\ disabled'[o] = disabled[o]
  BY <1>1 DEF SetPassword, SetDisabled
<1>3. OpenMap' \in {OpenMap \cup {p}, OpenMap \ {p}}
  <2>1. OpenMap' \ {p} = OpenMap \ {p}
    BY <1>2 DEF OpenMap
  <2>2. CASE p \in OpenMap'
    BY <2>1, <2>2 DEF OpenMap
  <2>3. CASE p \notin OpenMap'
    BY <2>1, <2>3 DEF OpenMap
  <2>4. QED
    BY <2>2, <2>3
<1>4. UNCHANGED <<1..created, OwnerMap>>
  BY DEF table, OwnerMap, OwnerOf
<1>5. LiveMap' \subseteq {s \in LiveMap : OwnerMap[s] # p}
  <2> SUFFICES ASSUME NEW s \in sessions, InForce(s)'
               PROVE  InForce(s) /\ OwnerMap[s] # p
    BY DEF LiveMap, table
  <2>1. s \in 1..created /\ s \in SessionId /\ InForce(s)
    BY NeverBack, LimitAssumption DEF AccessInv, Agreement, TypeOK
  <2>2. row[s].version \in Nat /\ row[s].version <= version[OwnerOf(s)]
    BY <2>1 DEF AccessInv, Agreement, CreatedAgree, TypeOK, Row
  <2>3. row[s].version = version'[OwnerOf(s)]
    BY DEF InForce, Usable, OwnerOf, table
  <2>4. OwnerOf(s) # p
    BY <1>1, <1>2, <2>2, <2>3
  <2>5. QED
    BY <2>1, <2>4 DEF OwnerMap
<1>6. QED
  BY <1>2, <1>3, <1>4, <1>5 DEF Access!Change, OpenMap, OwnerMap, LiveMap

\* What a handler writes, it writes with the right to.
LEMMA AccessActs ==
  ASSUME AccessInv, [Next]_vars, NEW r \in Request, NEW p \in Principal, NEW s \in SessionId,
         s \in AllowedMap[r], OwnerOf(s) \in {p, Admin}, Access!Change(p), Written(r, p)
  PROVE  Access!Next
<1>1. request \in [Request -> RequestSlot]
  BY DEF AccessInv, TypeOK, RequestSlot
<1>2. \A m \in Request \ {r} : request'[m] = request[m]
  BY <1>1 DEF Written
<1>3. request'[r].session = 0 /\ request'[r].pc = "invalidate" /\ request'[r].subject = p
  BY <1>1 DEF Written, NoRequest
<1>4. \A m \in Request : AllowedMap'[m] \subseteq [AllowedMap EXCEPT ![r] = {}][m]
  <2>1. AllowedMap'[r] = {}
    BY <1>3 DEF AllowedMap, Authorised
  <2>2. QED
    BY <1>2, <2>1, RightsStay DEF AllowedMap
<1>5. DoneMap' = [DoneMap EXCEPT ![r] = {p}]
  <2>1. DoneMap'[r] = {p}
    BY <1>3 DEF DoneMap
  <2>2. \A m \in Request \ {r} : DoneMap'[m] = DoneMap[m]
    BY <1>2 DEF DoneMap
  <2>3. QED
    BY <2>1, <2>2 DEF DoneMap
<1>6. OwnerMap[s] \in {p, Admin}
  BY DEF OwnerMap
<1>7. Access!Act(r, p)
  BY <1>4, <1>5, <1>6 DEF Access!Act, Access!Fewer, AllowedMap, DoneMap, OwnerMap
<1>8. QED
  BY <1>7 DEF Access!Next

\* The CLI changes credentials too, and asks no session.
LEMMA AccessOperates ==
  ASSUME AccessInv, [Next]_vars, NEW p \in Principal, Access!Change(p), UNCHANGED request
  PROVE  Access!Next
<1>1. \A r \in Request : AllowedMap'[r] \subseteq AllowedMap[r]
  BY RightsStay
<1>2. DoneMap' = DoneMap
  BY DEF DoneMap
<1>3. Access!Operate(p)
  BY <1>1, <1>2 DEF Access!Operate, Access!Fewer, AllowedMap, DoneMap
<1>4. QED
  BY <1>3 DEF Access!Next

\* createSession puts a session in force, if at all, for a principal who can log
\* in: the login may have passed the second look long ago.
LEMMA AccessGrants ==
  ASSUME AccessInv, [Next]_vars, NEW l \in Login, Insert(l), created' # created
  PROVE  Access!Next
<1> DEFINE p == login[l].principal
           new == created + 1
<1>1. /\ created \in Nat /\ row \in [SessionId -> Row] /\ sessions \subseteq 1..created
      /\ p \in Principal /\ request \in [Request -> RequestSlot]
  BY LimitAssumption DEF AccessInv, Agreement, TypeOK, RequestSlot
<1>2. /\ created' = new /\ sessions' \subseteq sessions \cup {new}
      /\ row' = [row EXCEPT ![new] = [principal |-> p, version |-> login[l].cred.version,
                                      must |-> login[l].cred.must]]
      /\ new \in SessionId
      /\ UNCHANGED <<credentials, lapsed, request>>
  BY <1>1, LimitAssumption DEF Insert, Room, Fresh, SessionId
<1>3. new \notin 1..created /\ 1..created' = 1..created \cup {new}
  BY <1>1, <1>2
<1>4. row'[new].principal = p /\ \A s \in SessionId \ {new} : row'[s] = row[s]
  BY <1>1, <1>2
<1>5. OwnerMap' = [OwnerMap EXCEPT ![new] = p]
  <2>1. OwnerMap'[new] = p
    BY <1>2, <1>4 DEF OwnerMap, OwnerOf
  <2>2. \A s \in SessionId \ {new} : OwnerMap'[s] = OwnerMap[s]
    BY <1>4 DEF OwnerMap, OwnerOf
  <2>3. QED
    BY <2>1, <2>2 DEF OwnerMap
<1>6. LiveMap' \subseteq LiveMap \cup {new}
  BY <1>1, <1>2, NeverBack DEF LiveMap
<1>7. new \in LiveMap' => p \in OpenMap
  BY <1>1, <1>2, <1>4 DEF LiveMap, OpenMap, InForce, Usable, OwnerOf, credentials
<1>8. UNCHANGED <<version, OpenMap, DoneMap>>
  BY <1>2 DEF credentials, OpenMap, DoneMap
<1>9. UNCHANGED AllowedMap
  <2> SUFFICES ASSUME NEW r \in Request PROVE AllowedMap'[r] = AllowedMap[r]
    BY DEF AllowedMap
  <2> DEFINE q == request[r]
  <2>1. q \in RequestSlot /\ q.session <= created
    BY <1>1 DEF AccessInv, RequestsProven, Recent
  <2>2. q.session # 0 => q.session \in SessionId \ {new}
    BY <1>1, <2>1, LimitAssumption DEF RequestSlot, SessionId
  <2>3. q.session # 0 => row'[q.session] = row[q.session]
    BY <1>4, <2>2
  <2>4. ASSUME NEW n, n = q
        PROVE  Authorised(n)' = Authorised(n)
    BY <1>2, <2>3, <2>4 DEF Authorised, InForce, Usable, OwnerOf, credentials
  <2>5. QED
    BY <1>2, <2>4 DEF AllowedMap
<1>10. Access!Grant(new, p)
  BY <1>2, <1>3, <1>5, <1>6, <1>7, <1>8, <1>9
  DEF Access!Grant, LiveMap, OpenMap, OwnerMap, AllowedMap, DoneMap
<1>11. QED
  BY <1>1, <1>2, <1>10 DEF Access!Next

\* The lookup that finds a session in force is the moment of the check.
LEMMA AccessAllows ==
  ASSUME AccessInv, [Next]_vars, NEW r \in Request, Lookup(r),
         NEW s \in sessions, s = request[r].session
  PROVE  Access!Next
<1> DEFINE q == request[r]
<1>1. request \in [Request -> RequestSlot] /\ q \in RequestSlot
  BY DEF AccessInv, TypeOK, RequestSlot
<1>2. /\ request' = [request EXCEPT ![r].pc = "current"] /\ q.pc = "lookup"
      /\ UNCHANGED credentials /\ UNCHANGED table /\ UNCHANGED lapsed
  BY DEF Lookup
<1>3. \A m \in Request \ {r} : request'[m] = request[m]
  BY <1>1, <1>2
<1>4. request'[r] = [q EXCEPT !.pc = "current"]
  BY <1>1, <1>2
<1>5. /\ request'[r].pc = "current" /\ request'[r].session = s
      /\ request'[r].round = q.round /\ request'[r].subject = q.subject
  BY <1>1, <1>4 DEF RequestSlot
<1>6. s \in SessionId /\ s # 0 /\ q.round \in 1..3
  BY <1>1, LimitAssumption DEF AccessInv, TypeOK, SessionId, RequestSlot
<1>7. InForce(s)' = InForce(s)
  BY <1>2 DEF InForce, Usable, OwnerOf, credentials, table
<1>8. ASSUME NEW m \in Request \ {r}
      PROVE  AllowedMap'[m] = AllowedMap[m] /\ DoneMap'[m] = DoneMap[m]
  <2>1. ASSUME NEW n, n = request[m]
        PROVE  Authorised(n)' = Authorised(n)
    BY <1>2 DEF Authorised, InForce, Usable, OwnerOf, credentials, table
  <2>2. QED
    BY <1>3, <2>1 DEF AllowedMap, DoneMap
<1>9. DoneMap'[r] = DoneMap[r]
  BY <1>2, <1>5 DEF DoneMap
<1>10. CASE InForce(s)
  <2>1. AllowedMap'[r] = {s}
    BY <1>5, <1>6, <1>7, <1>10 DEF AllowedMap, Authorised
  <2>2. AllowedMap' = [AllowedMap EXCEPT ![r] = {s}]
    BY <1>8, <2>1 DEF AllowedMap
  <2>3. DoneMap' = DoneMap
    BY <1>8, <1>9 DEF DoneMap
  <2>4. s \in LiveMap
    BY <1>10 DEF LiveMap
  <2>5. UNCHANGED <<version, OpenMap, 1..created, OwnerMap, LiveMap>>
    BY <1>2 DEF OpenMap, OwnerMap, LiveMap, InForce, Usable, OwnerOf, credentials, table
  <2>6. Access!Allow(r, s)
    BY <2>2, <2>3, <2>4, <2>5
    DEF Access!Allow, LiveMap, OpenMap, OwnerMap, AllowedMap, DoneMap
  <2>7. QED
    BY <1>6, <2>6 DEF Access!Next
<1>11. CASE ~InForce(s)
  <2>1. AllowedMap'[r] \subseteq AllowedMap[r]
    BY <1>2, <1>5, <1>6, <1>7, <1>11 DEF AllowedMap, Authorised
  <2>2. QED
    BY <1>2, <1>8, <1>9, <2>1, AccessWanes DEF table
<1>12. QED
  BY <1>10, <1>11

\* A request that is turned away, or goes on with the session that was found to
\* be in force, gains no right.
LEMMA ProceedRights ==
  ASSUME AccessInv, NEW r \in Request, NEW s \in 0..MaxSessions, Proceed(r, s),
         s # 0 => s \in AllowedMap[r]
  PROVE  AllowedMap'[r] \subseteq AllowedMap[r] /\ DoneMap'[r] = {}
<1> DEFINE q == request[r]
<1>1. request \in [Request -> RequestSlot] /\ q \in RequestSlot
  BY DEF AccessInv, TypeOK, RequestSlot
<1>2. request'[r].session \in {0, s} /\ request'[r].pc # "invalidate"
  <2>1. CASE request'[r] = NoRequest
    BY <2>1 DEF NoRequest
  <2>2. CASE request'[r] = [q EXCEPT !.session = s, !.round = @ + 1, !.pc = "lookup"]
    BY <1>1, <2>2 DEF RequestSlot
  <2>3. CASE request'[r] = [q EXCEPT !.session = s, !.round = 1, !.pc = "handle"]
    BY <1>1, <2>3 DEF RequestSlot
  <2>4. QED
    BY <1>1, <2>1, <2>2, <2>3 DEF Proceed
<1>3. QED
  BY <1>2 DEF AllowedMap, DoneMap, Authorised

\* What the other steps of a request leave it with.
LEMMA RequestEbbs ==
  ASSUME AccessInv, [Next]_vars, NEW r \in Request,
         \/ \E s \in SessionId, op \in Op : Arrive(r, s, op)
         \/ Lookup(r) /\ request[r].session \notin sessions
         \/ Current(r) \/ CurrentUnread(r)
         \/ Logout(r)
         \/ Verify(r)
         \/ \E pw \in Password : Commit(r, pw) /\ ~Written(r, request[r].subject)
         \/ \E u \in User : SwitchUnwritten(r, u)
         \/ Unwritten(r)
         \/ Invalidate(r)
  PROVE  Access!Next
<1> DEFINE q == request[r]
           Ebbs == AllowedMap'[r] \subseteq AllowedMap[r] /\ DoneMap'[r] \subseteq DoneMap[r]
<1>1. request \in [Request -> RequestSlot] /\ q \in RequestSlot
  BY DEF AccessInv, TypeOK, RequestSlot
<1>2. UNCHANGED credentials /\ UNCHANGED <<row, created>> /\ sessions' \subseteq sessions
  BY DEF Arrive, Lookup, Current, CurrentUnread, Logout, Verify, Commit, SwitchUnwritten,
         Unwritten, Invalidate, table
<1>3. \A m \in Request \ {r} : request'[m] = request[m]
  BY <1>1 DEF Arrive, Lookup, Current, CurrentUnread, Proceed, Logout, Verify, Commit,
              SwitchUnwritten, Unwritten, Invalidate
<1>4. request'[r] = NoRequest => Ebbs
  <2>1. NoRequest.session = 0 /\ NoRequest.pc # "invalidate"
    BY DEF NoRequest
  <2>2. QED
    BY <2>1, NoRights
<1>5. ASSUME NEW s \in SessionId, NEW op \in Op, Arrive(r, s, op)
      PROVE  Ebbs
  <2>1. request'[r].pc = "lookup" /\ request'[r].round = 1
    BY <1>1, <1>5 DEF Arrive, NoRequest
  <2>2. QED
    BY <2>1 DEF AllowedMap, DoneMap, Authorised
<1>6. ASSUME Lookup(r) /\ q.session \notin sessions
      PROVE  Ebbs
  <2>1. Proceed(r, 0) /\ 0 \in 0..MaxSessions
    BY <1>6, LimitAssumption DEF Lookup
  <2>2. QED
    BY <2>1, ProceedRights
<1>7. ASSUME Current(r)
      PROVE  Ebbs
  <2>1. q.pc = "current" /\ q.session \in 0..MaxSessions /\ 0 \in 0..MaxSessions
    BY <1>1, <1>7, LimitAssumption DEF Current, RequestSlot
  <2>2. CASE q.session > lapsed /\ Usable(q.session)
    <3>1. q.session # 0 => q.session \in AllowedMap[r]
      BY <2>1, <2>2 DEF AllowedMap, Authorised, InForce
    <3>2. Proceed(r, q.session)
      BY <1>7, <2>2 DEF Current
    <3>3. QED
      BY <2>1, <3>1, <3>2, ProceedRights
  <2>3. CASE ~(q.session > lapsed /\ Usable(q.session))
    <3>1. Proceed(r, 0)
      BY <1>7, <2>3 DEF Current
    <3>2. QED
      BY <2>1, <3>1, ProceedRights
  <2>4. QED
    BY <2>2, <2>3
<1>8. ASSUME Verify(r)
      PROVE  Ebbs
  <2> DEFINE p == IF q.op = "account" THEN OwnerOf(q.session) ELSE Admin
  <2>1. CASE request'[r] = [q EXCEPT !.pc = "commit", !.subject = p, !.proved = hash[p],
                                     !.version = version[p]]
    <3>1. request'[r].pc = "commit" /\ request'[r].session = q.session
      BY <1>1, <2>1 DEF RequestSlot
    <3>2. q.pc = "handle"
      BY <1>8 DEF Verify
    <3>3. QED
      BY <3>1, <3>2 DEF AllowedMap, DoneMap, Authorised
  <2>2. QED
    BY <1>1, <1>4, <1>8, <2>1 DEF Verify
<1>9. ASSUME \E pw \in Password : Commit(r, pw) /\ ~Written(r, q.subject)
      PROVE  Ebbs
  BY <1>1, <1>4, <1>9 DEF Commit
<1>10. ASSUME Logout(r) \/ Unwritten(r) \/ Invalidate(r)
       PROVE  Ebbs
  BY <1>1, <1>4, <1>10 DEF Logout, Unwritten, Invalidate
<1>11. ASSUME CurrentUnread(r)
       PROVE  Ebbs
  <2>1. Proceed(r, 0) /\ 0 \in 0..MaxSessions
    BY <1>11, LimitAssumption DEF CurrentUnread
  <2>2. QED
    BY <2>1, ProceedRights
<1>12. ASSUME NEW u \in User, SwitchUnwritten(r, u)
       PROVE  Ebbs
  <2>1. request'[r].pc = "unchanged"
    BY <1>1, <1>12 DEF SwitchUnwritten, NoRequest
  <2>2. QED
    BY <2>1 DEF AllowedMap, DoneMap, Authorised
<1>13. Ebbs
  BY <1>5, <1>6, <1>7, <1>8, <1>9, <1>10, <1>11, <1>12
<1>14. QED
  BY <1>2, <1>3, <1>13, RightsStay, AccessWanes

\* currentSession looks a session up under the lock and compares it with the
\* credential outside of it, once, twice or three times, and the handler writes
\* later still; createSession inserts a session after its last look at the
\* credential.  All the same the portal keeps the promise of PortalAccess.
THEOREM AccessRefinement == Spec => ImplementsAccess
<1>1. Init => Access!Init
  <2> SUFFICES ASSUME Init PROVE Access!Init
    OBVIOUS
  <2>1. /\ OpenMap \in SUBSET Principal /\ LiveMap = {} /\ 1..created = {}
        /\ OwnerMap \in [SessionId -> Principal]
    BY DEF Init, OpenMap, LiveMap, OwnerMap, OwnerOf, Principal
  <2>2. \A r \in Request : request[r].session = 0 /\ request[r].pc = "idle"
    BY DEF Init, NoRequest
  <2>3. AllowedMap = [r \in Request |-> {}] /\ DoneMap = [r \in Request |-> {}]
    BY <2>2 DEF AllowedMap, DoneMap, Authorised
  <2>4. version = [p \in Principal |-> 0]
    BY DEF Init
  <2>5. QED
    BY <2>1, <2>3, <2>4 DEF Access!Init, OpenMap, LiveMap, OwnerMap, AllowedMap, DoneMap
<1>2. AccessInv /\ [Next]_vars
        => [Access!Next]_<<version, OpenMap, 1..created, OwnerMap, LiveMap, AllowedMap, DoneMap>>
  <2> SUFFICES ASSUME AccessInv, [Next]_vars PROVE Access!Next
    OBVIOUS
  <2>1. /\ TypeOK /\ CreatedAgree /\ created \in Nat
        /\ \A r \in Request : request[r] \in RequestSlot /\ Entitled(request[r]) /\ Recent(request[r])
    BY LimitAssumption
    DEF AccessInv, Agreement, TypeOK, RequestSlot, RequestsEntitled, RequestsProven
  <2>2. CASE /\ UNCHANGED <<request, credentials, row, created>> /\ sessions' \subseteq sessions
    BY <2>2, RightsStay, AccessWanes
  <2>3. ASSUME NEW l \in Login, LoginNext(l)
        PROVE  Access!Next
    <3>1. CASE Insert(l) /\ created' # created
      BY <3>1, AccessGrants
    <3>2. CASE Insert(l) /\ created' = created
      <4>1. UNCHANGED <<request, credentials, row, created>> /\ sessions' \subseteq sessions
        BY <2>1, <3>2 DEF Insert, Room, Fresh
      <4>2. QED
        BY <4>1, <2>2
    <3>3. CASE Confirm(l) \/ ConfirmUnread(l) \/ \E p \in Principal : Attempt(l, p)
      BY <3>3, <2>2 DEF Confirm, ConfirmUnread, Attempt, table
    <3>4. QED
      BY <2>3, <3>1, <3>2, <3>3 DEF LoginNext
  <2>4. ASSUME NEW r \in Request, NEW p \in Principal, Written(r, p), Access!Change(p),
               request[r].session # 0, request[r].pc \in {"handle", "commit"},
               OwnerOf(request[r].session) \in {p, Admin}
        PROVE  Access!Next
    <3> DEFINE s == request[r].session
    <3>1. s \in SessionId
      BY <2>1, <2>4, LimitAssumption DEF RequestSlot, SessionId
    <3>2. s \in AllowedMap[r]
      BY <2>4 DEF AllowedMap, Authorised
    <3>3. QED
      BY <2>4, <3>1, <3>2, AccessActs
  <2>5. ASSUME NEW r \in Request, NEW pw \in Password, Commit(r, pw),
               NEW p, p = request[r].subject, Written(r, p)
        PROVE  Access!Next
    <3>1. p \in Principal /\ request[r].pc = "commit" /\ request[r].session # 0
      BY <2>1, <2>5 DEF RequestSlot, Commit, Recent
    <3>2. OwnerOf(request[r].session) \in {p, Admin}
      BY <2>1, <2>5, <3>1 DEF Entitled, IsAdmin
    <3>3. SetPassword(p, pw, FALSE) /\ UNCHANGED <<table, lapsed>>
      <4>1. request'[r] # NoRequest
        BY <2>1, <2>5 DEF Written, NoRequest, TypeOK
      <4>2. QED
        BY <2>1, <2>5, <4>1 DEF Commit, TypeOK
    <3>4. Access!Change(p)
      BY <3>1, <3>3, AccessChanges
    <3>5. QED
      BY <2>4, <2>5, <3>1, <3>2, <3>4
  <2>6. ASSUME NEW r \in Request, NEW u \in User,
               \/ \E pw \in Password : Reset(r, u, pw)
               \/ \E d \in BOOLEAN : Switch(r, u, d)
        PROVE  Access!Next
    <3>1. /\ u \in Principal /\ request[r].pc = "handle" /\ request[r].op \in AdminOp
          /\ Written(r, u) /\ UNCHANGED <<table, lapsed>>
      BY <2>6 DEF Reset, Switch, AdminOp, Principal
    <3>2. request[r].session # 0 /\ OwnerOf(request[r].session) = Admin
      BY <2>1, <3>1 DEF Entitled, IsAdmin
    <3>3. Access!Change(u)
      BY <2>6, <3>1, AccessChanges DEF Reset, Switch
    <3>4. QED
      BY <2>4, <3>1, <3>2, <3>3
  <2>7. ASSUME NEW r \in Request, RequestNext(r)
        PROVE  Access!Next
    <3>1. CASE Lookup(r) /\ request[r].session \in sessions
      BY <3>1, AccessAllows
    <3>2. QED
      BY <2>5, <2>6, <2>7, <3>1, RequestEbbs DEF RequestNext
  <2>8. ASSUME NEW pw \in Password, CliAdminPassword(pw)
        PROVE  Access!Next
    <3>1. Admin \in Principal
      BY DEF Principal
    <3>2. Access!Change(Admin)
      BY <2>8, <3>1, AccessChanges DEF CliAdminPassword
    <3>3. QED
      BY <2>8, <3>1, <3>2, AccessOperates DEF CliAdminPassword
  <2>9. ASSUME NEW u \in User, NEW d \in BOOLEAN, CliSwitch(u, d)
        PROVE  Access!Next
    <3>1. u \in Principal
      BY DEF Principal
    <3>2. Access!Change(u)
      BY <2>9, <3>1, AccessChanges DEF CliSwitch
    <3>3. QED
      BY <2>9, <3>1, <3>2, AccessOperates DEF CliSwitch
  <2>10. CASE Lapse \/ UNCHANGED vars
    BY <2>2, <2>10 DEF Lapse, vars, table
  <2>11. CASE Restart
    <3>1. \A r \in Request : request'[r].session = 0 /\ request'[r].pc # "invalidate"
      BY <2>11 DEF Restart, NoRequest
    <3>2. \A r \in Request : AllowedMap'[r] \subseteq AllowedMap[r] /\ DoneMap'[r] \subseteq DoneMap[r]
      BY <3>1, NoRights
    <3>3. QED
      BY <2>11, <3>2, AccessWanes DEF Restart
  <2>12. QED
    BY <2>3, <2>7, <2>8, <2>9, <2>10, <2>11 DEF Next
<1>3. QED
  BY <1>1, <1>2, AccessInvAlways, PTL
  DEF Spec, ImplementsAccess, Access!Spec, Access!vars, OpenMap, OwnerMap, LiveMap,
      AllowedMap, DoneMap
=============================================================================
