------------------------- MODULE ControlPlaneProofs -------------------------
(***************************************************************************)
(* Theorems about ControlPlane for every value of its constants.           *)
(***************************************************************************)
EXTENDS ControlPlane, FiniteSetTheorems, TLAPS

\* IdleCap is a natural number, and aging stays below it.
LEMMA AgedType == /\ IdleCap \in Nat
                  /\ \A n \in 0..IdleCap : Aged(n) \in 0..IdleCap
  BY BoundsAssumption DEF IdleCap, Aged

\* A row of a session id that is not in use is still a row.
LEMMA BlankRowType == BlankRow \in SessionRow
  <1>1. (CHOOSE c \in Client : TRUE) \in Client
    BY NamesAssumption
  <1>2. 0 \in 0..IdleCap
    BY AgedType
  <1>3. QED
    BY <1>1, <1>2 DEF BlankRow, SessionRow

\* Closing a connection keeps frps's state well typed.
LEMMA ClosedType ==
  ASSUME RelayOK, NEW s \in SessionId, Closed(s)
  PROVE  RelayOK'
  BY DEF RelayOK, Closed

\* A hook that moves on keeps the hooks well typed.
LEMMA HookType ==
  ASSUME RequestsOK, NEW s \in SessionId, NEW k \in Op, NEW pc \in HookPC
  PROVE  [hook EXCEPT ![s][k] = pc] \in [SessionId -> [Op -> HookPC]]
  <1>1. hook \in [SessionId -> [Op -> HookPC]]
    BY DEF RequestsOK
  <1>2. [hook[s] EXCEPT ![k] = pc] \in [Op -> HookPC]
    BY <1>1
  <1>3. QED
    BY <1>1, <1>2

\* So does a refusal, which may close the connection.
LEMMA RefuseType ==
  ASSUME RequestsOK, RelayOK, NEW s \in SessionId, NEW k \in Op, Refuse(s, k)
  PROVE  hook' \in [SessionId -> [Op -> HookPC]] /\ RelayOK'
  <1>1. "idle" \in HookPC
    BY DEF HookPC
  <1>2. hook' \in [SessionId -> [Op -> HookPC]]
    BY <1>1, HookType DEF Refuse
  <1>3. CASE k = "Ping"
    BY <1>2, <1>3, ClosedType DEF Refuse
  <1>4. CASE k # "Ping"
    BY <1>2, <1>4 DEF Refuse, RelayOK, relay
  <1>5. QED
    BY <1>3, <1>4

\* So does a step of session(), whatever it has read.
LEMMA CheckType ==
  ASSUME RequestsOK, RelayOK, NEW s \in SessionId, NEW k \in Op,
         NEW ok \in BOOLEAN, NEW pc \in HookPC, Check(s, k, ok, pc)
  PROVE  hook' \in [SessionId -> [Op -> HookPC]] /\ RelayOK'
  <1>1. CASE ok
    <2>1. hook' = [hook EXCEPT ![s][k] = pc] /\ UNCHANGED relay
      BY <1>1 DEF Check
    <2>2. RelayOK'
      BY <2>1 DEF RelayOK, relay
    <2>3. QED
      BY <2>1, <2>2, HookType
  <1>2. CASE ~ok
    BY <1>2, RefuseType DEF Check
  <1>3. QED
    BY <1>1, <1>2

-----------------------------------------------------------------------------
\* Every variable keeps its type: the store's rows, the requests in flight and
\* frps's state are well formed whatever interleaving of the handlers, the
\* administrator, the sweeper and crashes has happened.
THEOREM TypeCorrect == Spec => []TypeOK
<1>1. Init => TypeOK
  <2> SUFFICES ASSUME Init PROVE TypeOK
    OBVIOUS
  <2>1. AccountsOK
    <3>1. maxTunnels \in [User -> Nat]
      <4>1. maxTunnels \in [User -> Limits] /\ Limits \subseteq Nat
        BY BoundsAssumption DEF Init
      <4>2. QED
        BY <4>1
    <3>2. window \in SUBSET Port
      BY BoundsAssumption DEF Init
    <3>3. QED
      BY <3>1, <3>2, BoundsAssumption DEF Init, AccountsOK
  <2>2. RowsOK
    <3>1. session \in [SessionId -> SessionRow]
      <4>1. session = [s \in SessionId |-> BlankRow]
        BY DEF Init
      <4>2. QED
        BY <4>1, BlankRowType
    <3>2. QED
      BY <3>1, BoundsAssumption DEF Init, RowsOK
  <2>3. RequestsOK
    BY BoundsAssumption DEF Init, RequestsOK, NoLogin, LoginPC, HookPC
  <2>4. AdminOK /\ RelayOK /\ BoundsOK
    BY BoundsAssumption DEF Init, AdminOK, RelayOK, BoundsOK
  <2>5. QED
    BY <2>1, <2>2, <2>3, <2>4 DEF TypeOK
<1>2. TypeOK /\ [Next]_vars => TypeOK'
  <2> SUFFICES ASSUME TypeOK, [Next]_vars PROVE TypeOK'
    OBVIOUS
  <2>0. /\ AccountsOK /\ RowsOK /\ RequestsOK
        /\ AdminOK /\ RelayOK /\ BoundsOK
    BY DEF TypeOK
  <2>a. UNCHANGED accounts => AccountsOK'
    BY <2>0 DEF AccountsOK, accounts
  <2>b. UNCHANGED <<session, issued, proxies>> => RowsOK'
    BY <2>0 DEF RowsOK
  <2>c. UNCHANGED requests => RequestsOK'
    BY <2>0 DEF RequestsOK, requests
  <2>d. UNCHANGED <<admin, sweep>> => AdminOK'
    BY <2>0 DEF AdminOK, admin
  <2>e. UNCHANGED relay => RelayOK'
    BY <2>0 DEF RelayOK, relay
  <2>f. UNCHANGED bounds => BoundsOK'
    BY <2>0 DEF BoundsOK, bounds
  <2>g. UNCHANGED database => AccountsOK' /\ RowsOK'
    BY <2>a, <2>b DEF database, accounts
  <2>1. ASSUME NEW c \in Client, Login(c) \/ LoginKick(c) \/ LoginUser(c)
        PROVE  TypeOK'
    <3>1. RequestsOK'
      BY <2>0, <2>1 DEF RequestsOK, Login, LoginKick, LoginUser, LoginPC
    <3>2. UNCHANGED <<database, admin, sweep, relay, bounds>>
      BY <2>1 DEF Login, LoginKick, LoginUser
    <3>3. QED
      BY <3>1, <3>2, <2>g, <2>d, <2>e, <2>f DEF TypeOK
  <2>2. ASSUME NEW c \in Client, CreateSession(c)
        PROVE  TypeOK'
    <3>1. issued + 1 \in SessionId /\ issued' \in 0..MaxSessions
      BY <2>0, <2>2, BoundsAssumption DEF RowsOK, CreateSession, SessionId
    <3>2. RequestsOK'
      BY <2>0, <2>2, <3>1 DEF RequestsOK, CreateSession, LoginPC, SessionId
    <3>3. [client |-> c, killed |-> FALSE, ended |-> FALSE, idle |-> 0] \in SessionRow
      BY AgedType DEF SessionRow
    <3>4. RowsOK'
      BY <2>0, <2>2, <3>1, <3>3 DEF RowsOK, CreateSession
    <3>5. UNCHANGED <<accounts, admin, sweep, relay, bounds>>
      BY <2>2 DEF CreateSession
    <3>6. QED
      BY <3>2, <3>4, <3>5, <2>a, <2>d, <2>e, <2>f DEF TypeOK
  <2>3. ASSUME NEW c \in Client, LoginReply(c)
        PROVE  TypeOK'
    <3>1. RequestsOK'
      BY <2>0, <2>3 DEF RequestsOK, LoginReply, NoLogin, LoginPC
    <3>2. login[c].session \in SessionId
      BY <2>0, <2>3 DEF RequestsOK, LoginReply, LoginPC
    <3>3. RelayOK'
      BY <2>0, <2>3, <3>2 DEF RelayOK, LoginReply
    <3>4. UNCHANGED <<database, admin, sweep, bounds>>
      BY <2>3 DEF LoginReply
    <3>5. QED
      BY <3>1, <3>3, <3>4, <2>g, <2>d, <2>f DEF TypeOK
  <2>4. ASSUME NEW s \in SessionId, Disconnect(s)
        PROVE  TypeOK'
    <3>1. RelayOK'
      BY <2>0, <2>4, ClosedType DEF Disconnect
    <3>2. UNCHANGED <<database, requests, admin, sweep, bounds>>
      BY <2>4 DEF Disconnect, bounds
    <3>3. QED
      BY <3>1, <3>2, <2>g, <2>c, <2>d, <2>f DEF TypeOK
  <2>5. ASSUME NEW s \in SessionId, NEW k \in Op, CheckSession(s, k)
        PROVE  TypeOK'
    <3>1. "token" \in HookPC /\ (~session[s].killed /\ ~session[s].ended) \in BOOLEAN
      BY DEF HookPC
    <3>2. hook' \in [SessionId -> [Op -> HookPC]] /\ RelayOK'
      BY <2>0, <2>5, <3>1, CheckType DEF CheckSession
    <3>3. session[s].client \in Client
      BY <2>0 DEF RowsOK, SessionRow
    <3>4. asked' \in [SessionId -> SUBSET Target]
      BY <2>0, <2>5, <3>3, OwnershipAssumption DEF RequestsOK, CheckSession
    <3>5. UNCHANGED <<database, login, admin, sweep, bounds>>
      BY <2>5 DEF CheckSession
    <3>6. RequestsOK'
      BY <2>0, <3>2, <3>4, <3>5 DEF RequestsOK
    <3>7. QED
      BY <3>2, <3>5, <3>6, <2>g, <2>d, <2>f DEF TypeOK
  <2>6. ASSUME NEW s \in SessionId, NEW k \in Op, CheckToken(s, k) \/ CheckUser(s, k)
        PROVE  TypeOK'
    <3>1. /\ {"user", "touch"} \subseteq HookPC
          /\ (~revoked[TokenOf(s)]) \in BOOLEAN
          /\ (~disabled[UserOf(s)]) \in BOOLEAN
      BY DEF HookPC
    <3>2. hook' \in [SessionId -> [Op -> HookPC]] /\ RelayOK'
      <4>1. CASE CheckToken(s, k)
        BY <2>0, <4>1, <3>1, CheckType DEF CheckToken
      <4>2. CASE CheckUser(s, k)
        BY <2>0, <4>2, <3>1, CheckType DEF CheckUser
      <4>3. QED
        BY <2>6, <4>1, <4>2
    <3>3. UNCHANGED <<database, login, asked, admin, sweep, bounds>>
      BY <2>6 DEF CheckToken, CheckUser
    <3>4. RequestsOK'
      BY <2>0, <3>2, <3>3 DEF RequestsOK
    <3>5. QED
      BY <3>2, <3>3, <3>4, <2>g, <2>d, <2>f DEF TypeOK
  <2>7. ASSUME NEW s \in SessionId, NEW k \in Op, Touch(s, k)
        PROVE  TypeOK'
    <3>1. session' \in [SessionId -> SessionRow]
      <4>1. [session[s] EXCEPT !.idle = 0] \in SessionRow
        BY <2>0, AgedType DEF RowsOK, SessionRow
      <4>2. QED
        BY <2>0, <2>7, <4>1 DEF RowsOK, Touch
    <3>2. hook' \in [SessionId -> [Op -> HookPC]]
      <4>1. (IF k = "Ping" THEN "idle" ELSE "admit") \in HookPC
        BY DEF HookPC
      <4>2. QED
        BY <2>0, <2>7, <4>1, HookType DEF Touch
    <3>3. UNCHANGED <<accounts, issued, proxies, login, asked, admin, sweep, relay, bounds>>
      BY <2>7 DEF Touch
    <3>4. RowsOK' /\ RequestsOK'
      BY <2>0, <3>1, <3>2, <3>3 DEF RowsOK, RequestsOK
    <3>5. QED
      BY <3>3, <3>4, <2>a, <2>d, <2>e, <2>f DEF TypeOK
  <2>8. ASSUME NEW s \in SessionId, AdmitProxy(s)
        PROVE  TypeOK'
    <3>1. PICK x \in asked[s] : proxies' = Admitted(s, x) /\ Register(s, x)
      BY <2>8 DEF AdmitProxy
    <3>2. [session |-> s, target |-> x] \in ProxyRow
      BY <2>0, <3>1 DEF RequestsOK, ProxyRow
    <3>3. UNCHANGED <<accounts, session, issued, login, asked, admin, sweep, live, closing, bounds>>
      BY <2>8 DEF AdmitProxy
    <3>4. RowsOK'
      BY <2>0, <3>1, <3>2, <3>3 DEF RowsOK, Admitted, Holders
    <3>5. RelayOK'
      BY <2>0, <3>1, <3>2, <3>3 DEF RelayOK, Register
    <3>6. hook' \in [SessionId -> [Op -> HookPC]]
      BY <2>0, <2>8, HookType DEF AdmitProxy, Op, HookPC
    <3>7. RequestsOK'
      BY <2>0, <3>3, <3>6 DEF RequestsOK
    <3>8. QED
      BY <3>3, <3>4, <3>5, <3>7, <2>a, <2>d, <2>f DEF TypeOK
  <2>9. ASSUME NEW s \in SessionId, DenyProxy(s)
        PROVE  TypeOK'
    <3>1. hook' \in [SessionId -> [Op -> HookPC]]
      BY <2>0, <2>9, HookType DEF DenyProxy, Op, HookPC
    <3>2. UNCHANGED <<database, login, asked, admin, sweep, relay, bounds>>
      BY <2>9 DEF DenyProxy
    <3>3. RequestsOK'
      BY <2>0, <3>1, <3>2 DEF RequestsOK
    <3>4. QED
      BY <3>2, <3>3, <2>g, <2>d, <2>e, <2>f DEF TypeOK
  <2>10. ASSUME NEW p \in closing, EndProxy(p)
         PROVE  TypeOK'
    <3>1. RowsOK'
      BY <2>0, <2>10 DEF RowsOK, EndProxy, Ended
    <3>2. RelayOK'
      BY <2>0, <2>10 DEF RelayOK, EndProxy
    <3>3. UNCHANGED <<accounts, requests, admin, sweep, bounds>>
      BY <2>10 DEF EndProxy
    <3>4. QED
      BY <3>1, <3>2, <3>3, <2>a, <2>c, <2>d, <2>f DEF TypeOK
  <2>11. ASSUME Admin
         PROVE  TypeOK'
    <3>0. Act /\ UNCHANGED crashes => BoundsOK'
      BY <2>0, BoundsAssumption DEF Act, BoundsOK
    <3>1. CASE \E u \in User, d \in BOOLEAN : SetUserDisabled(u, d)
      <4>1. AccountsOK' /\ BoundsOK'
        BY <2>0, <3>0, <3>1 DEF AccountsOK, SetUserDisabled
      <4>2. UNCHANGED <<session, issued, proxies, requests, admin, sweep, relay>>
        BY <3>1 DEF SetUserDisabled
      <4>3. QED
        BY <4>1, <4>2, <2>b, <2>c, <2>d, <2>e DEF TypeOK
    <3>2. CASE \E u \in User, n \in Limits : SetUserMaxTunnels(u, n)
      <4>1. AccountsOK' /\ BoundsOK'
        BY <2>0, <3>0, <3>2, BoundsAssumption DEF AccountsOK, SetUserMaxTunnels
      <4>2. UNCHANGED <<session, issued, proxies, requests, admin, sweep, relay>>
        BY <3>2 DEF SetUserMaxTunnels
      <4>3. QED
        BY <4>1, <4>2, <2>b, <2>c, <2>d, <2>e DEF TypeOK
    <3>3. CASE \E x \in Subdomain, u \in User : Reserve(x, u)
      <4>1. AccountsOK' /\ BoundsOK'
        BY <2>0, <3>0, <3>3 DEF AccountsOK, Reserve
      <4>2. UNCHANGED <<session, issued, proxies, requests, admin, sweep, relay>>
        BY <3>3 DEF Reserve
      <4>3. QED
        BY <4>1, <4>2, <2>b, <2>c, <2>d, <2>e DEF TypeOK
    <3>4. CASE \E x \in Subdomain : Release(x)
      <4>1. AccountsOK' /\ BoundsOK'
        BY <2>0, <3>0, <3>4 DEF AccountsOK, Release
      <4>2. UNCHANGED <<session, issued, proxies, requests, admin, sweep, relay>>
        BY <3>4 DEF Release
      <4>3. QED
        BY <4>1, <4>2, <2>b, <2>c, <2>d, <2>e DEF TypeOK
    <3>5. CASE \E t \in Token : RevokeToken(t)
      <4>1. AccountsOK' /\ AdminOK' /\ BoundsOK'
        BY <2>0, <3>0, <3>5 DEF AccountsOK, AdminOK, RevokeToken
      <4>2. UNCHANGED <<session, issued, proxies, requests, relay>>
        BY <3>5 DEF RevokeToken
      <4>3. QED
        BY <4>1, <4>2, <2>b, <2>c, <2>e DEF TypeOK
    <3>6. CASE \E t \in Token : RevokeSessions(t)
      <4>1. RowsOK'
        <5>1. \A s \in SessionId : [session[s] EXCEPT !.killed = TRUE] \in SessionRow
          BY <2>0 DEF RowsOK, SessionRow
        <5>2. QED
          BY <2>0, <3>6, <5>1 DEF RowsOK, RevokeSessions
      <4>2. AdminOK'
        BY <2>0, <3>6 DEF AdminOK, RevokeSessions
      <4>3. UNCHANGED <<accounts, requests, relay, bounds>>
        BY <3>6 DEF RevokeSessions
      <4>4. QED
        BY <4>1, <4>2, <4>3, <2>a, <2>c, <2>e, <2>f DEF TypeOK
    <3>7. CASE \E s \in SessionId : KillSession(s)
      <4>1. RowsOK'
        BY <2>0, <3>7 DEF RowsOK, SessionRow, KillSession
      <4>2. AdminOK' /\ BoundsOK'
        BY <2>0, <3>0, <3>7 DEF AdminOK, KillSession
      <4>3. UNCHANGED <<accounts, requests, relay>>
        BY <3>7 DEF KillSession
      <4>4. QED
        BY <4>1, <4>2, <4>3, <2>a, <2>c, <2>e DEF TypeOK
    <3>8. CASE \E s \in SessionId : KickToken(s)
      <4>1. AccountsOK'
        <5>1. KickCooldown \in 0..KickCooldown
          BY BoundsAssumption
        <5>2. QED
          BY <2>0, <3>8, <5>1 DEF AccountsOK, KickToken
      <4>2. AdminOK'
        BY <2>0, <3>8 DEF AdminOK, KickToken
      <4>3. UNCHANGED <<session, issued, proxies, requests, relay, bounds>>
        BY <3>8 DEF KickToken
      <4>4. QED
        BY <4>1, <4>2, <4>3, <2>b, <2>c, <2>e, <2>f DEF TypeOK
    <3>9. QED
      BY <2>11, <3>1, <3>2, <3>3, <3>4, <3>5, <3>6, <3>7, <3>8 DEF Admin
  <2>12. ASSUME SweepProxies
         PROVE  TypeOK'
    <3>1. RowsOK' /\ AdminOK'
      BY <2>0, <2>12, BoundsAssumption DEF RowsOK, AdminOK, SweepProxies, admin
    <3>2. UNCHANGED <<accounts, requests, relay, bounds>>
      BY <2>12 DEF SweepProxies
    <3>3. QED
      BY <3>1, <3>2, <2>a, <2>c, <2>e, <2>f DEF TypeOK
  <2>13. ASSUME SweepSessions
         PROVE  TypeOK'
    <3>1. RowsOK'
      BY <2>0, <2>13 DEF RowsOK, SessionRow, SweepSessions
    <3>2. AdminOK'
      BY <2>0, <2>13, BoundsAssumption DEF AdminOK, SweepSessions, admin
    <3>3. UNCHANGED <<accounts, requests, relay, bounds>>
      BY <2>13 DEF SweepSessions
    <3>4. QED
      BY <3>1, <3>2, <3>3, <2>a, <2>c, <2>e, <2>f DEF TypeOK
  <2>14. ASSUME Tick
         PROVE  TypeOK'
    <3>1. AdminOK'
      BY <2>0, <2>14, BoundsAssumption DEF AdminOK, Tick, admin
    <3>2. AccountsOK'
      BY <2>0, <2>14, BoundsAssumption DEF AccountsOK, Tick
    <3>3. RowsOK'
      <4>1. ASSUME NEW s \in SessionId
            PROVE  [session[s] EXCEPT !.idle = Aged(@)] \in SessionRow
        BY <2>0, AgedType DEF RowsOK, SessionRow
      <4>2. QED
        BY <2>0, <2>14, <4>1 DEF RowsOK, Tick
    <3>4. UNCHANGED <<requests, relay, bounds>>
      BY <2>14 DEF Tick
    <3>5. QED
      BY <3>1, <3>2, <3>3, <3>4, <2>c, <2>e, <2>f DEF TypeOK
  <2>15. ASSUME Restart
         PROVE  TypeOK'
    <3>1. AccountsOK'
      BY <2>0, <2>15, BoundsAssumption DEF AccountsOK, Restart
    <3>2. RowsOK'
      BY <2>15, <2>b DEF Restart
    <3>3. RequestsOK'
      BY <2>0, <2>15 DEF RequestsOK, Restart, NoLogin, LoginPC, HookPC
    <3>4. AdminOK' /\ RelayOK' /\ BoundsOK'
      BY <2>0, <2>15, BoundsAssumption DEF AdminOK, RelayOK, BoundsOK, Restart
    <3>5. QED
      BY <3>1, <3>2, <3>3, <3>4 DEF TypeOK
  <2>16. CASE UNCHANGED vars
    BY <2>16, <2>g, <2>c, <2>d, <2>e, <2>f DEF vars, TypeOK
  <2>17. QED
    BY <2>1, <2>2, <2>3, <2>4, <2>5, <2>6, <2>7, <2>8, <2>9, <2>10, <2>11, <2>12,
       <2>13, <2>14, <2>15, <2>16 DEF Next, LoginStep, HookStep
<1>3. QED
  BY <1>1, <1>2, PTL DEF Spec

-----------------------------------------------------------------------------
\* What a step does to the active rows: an accepting AdmitProxy, a CloseProxy
\* hook, a sweep, or nothing.
LEMMA RowSteps ==
  ASSUME TypeOK, [Next]_vars
  PROVE  \/ proxies' = proxies
         \/ \E p \in closing : proxies' = Ended(p) /\ UNCHANGED <<accounts, session, issued>>
         \/ /\ proxies' = {p \in proxies : ~Stale(p.session, 0)}
            /\ UNCHANGED <<accounts, session, issued>>
         \/ \E s \in SessionId, x \in Target :
              /\ hook[s]["NewProxy"] = "admit"
              /\ Admissible(s, x)
              /\ proxies' = Admitted(s, x)
              /\ UNCHANGED <<accounts, session, issued>>
  <1>1. ASSUME NEW s \in SessionId, AdmitProxy(s)
        PROVE  \E x \in Target : /\ hook[s]["NewProxy"] = "admit"
                                /\ Admissible(s, x)
                                /\ proxies' = Admitted(s, x)
                                /\ UNCHANGED <<accounts, session, issued>>
    <2>1. asked[s] \subseteq Target
      BY DEF TypeOK, RequestsOK
    <2>2. QED
      BY <1>1, <2>1 DEF AdmitProxy
  <1>2. ASSUME NEW c \in Client, Login(c) \/ LoginStep(c)
        PROVE  proxies' = proxies
    BY <1>2 DEF LoginStep, Login, LoginKick, LoginUser, CreateSession, LoginReply, database
  <1>3. ASSUME NEW s \in SessionId, NEW k \in Op, CheckSession(s, k) \/ HookStep(s, k)
        PROVE  proxies' = proxies
    BY <1>3 DEF HookStep, CheckSession, CheckToken, CheckUser, Touch, database
  <1>4. ASSUME NEW s \in SessionId, DenyProxy(s) \/ Disconnect(s)
        PROVE  proxies' = proxies
    BY <1>4 DEF DenyProxy, Disconnect, database
  <1>5. ASSUME NEW p \in closing, EndProxy(p)
        PROVE  proxies' = Ended(p) /\ UNCHANGED <<accounts, session, issued>>
    BY <1>5 DEF EndProxy
  <1>6. Admin => proxies' = proxies
    BY DEF Admin, SetUserDisabled, SetUserMaxTunnels, Reserve, Release, RevokeToken,
           RevokeSessions, KillSession, KickToken
  <1>7. SweepProxies => /\ proxies' = {p \in proxies : ~Stale(p.session, 0)}
                        /\ UNCHANGED <<accounts, session, issued>>
    BY DEF SweepProxies
  <1>8. SweepSessions \/ Tick \/ Restart => proxies' = proxies
    BY DEF SweepSessions, Tick, Restart
  <1>9. UNCHANGED vars => proxies' = proxies
    BY DEF vars, database
  <1>10. QED
    BY <1>1, <1>2, <1>3, <1>4, <1>5, <1>6, <1>7, <1>8, <1>9 DEF Next

\* Only an accepting AdmitProxy adds rows.
LEMMA OnlyAdmissionAdds ==
  ASSUME TypeOK, [Next]_vars
  PROVE  \/ proxies' \subseteq proxies
         \/ \E s \in SessionId, x \in Target :
              /\ Admissible(s, x)
              /\ proxies' = Admitted(s, x)
              /\ UNCHANGED <<accounts, session>>
  BY RowSteps DEF Ended

\* A subdomain or port never has two active rows, in any interleaving: an admission
\* ends the rows of its target in the transaction that adds its own.
THEOREM OneHolder == Spec => []OneHolderPerTarget
<1>1. Init => OneHolderPerTarget
  BY DEF Init, OneHolderPerTarget
<1>2. TypeOK /\ OneHolderPerTarget /\ [Next]_vars => OneHolderPerTarget'
  <2> SUFFICES ASSUME TypeOK, OneHolderPerTarget, [Next]_vars PROVE OneHolderPerTarget'
    OBVIOUS
  <2>1. CASE proxies' \subseteq proxies
    BY <2>1 DEF OneHolderPerTarget
  <2>2. ASSUME NEW s \in SessionId, NEW x \in Target, proxies' = Admitted(s, x)
        PROVE  OneHolderPerTarget'
    <3>1. \A p \in proxies' : p = [session |-> s, target |-> x] \/ (p \in proxies /\ p.target # x)
      BY <2>2 DEF Admitted, Holders
    <3>2. QED
      BY <3>1 DEF OneHolderPerTarget
  <2>3. QED
    BY <2>1, <2>2, OnlyAdmissionAdds
<1>3. QED
  BY <1>1, <1>2, TypeCorrect, PTL DEF Spec

\* No tunnel is admitted for a session that is killed or ended, or whose token is
\* revoked or whose user is disabled at that moment, whatever session() had read.
THEOREM CutOffIsFinal == Spec => NoAdmissionPastCutOff
<1>1. TypeOK /\ [Next]_vars => [\A p \in proxies' \ proxies : ~CutOff(p.session)]_vars
  <2> SUFFICES ASSUME TypeOK, [Next]_vars, NEW p \in proxies' \ proxies
               PROVE  ~CutOff(p.session)
    OBVIOUS
  <2>1. PICK s \in SessionId, x \in Target : Admissible(s, x) /\ proxies' = Admitted(s, x)
    BY OnlyAdmissionAdds
  <2>2. p = [session |-> s, target |-> x]
    BY <2>1 DEF Admitted
  <2>3. QED
    BY <2>1, <2>2 DEF Admissible, MayOpen, CutOff
<1>2. QED
  BY <1>1, TypeCorrect, PTL DEF Spec, NoAdmissionPastCutOff

\* A tunnel is opened on a reserved subdomain by its owner only, and on a port
\* only inside the window in force.
THEOREM OwnersOnly == Spec => OpenedOnlyByOwner
<1> DEFINE Allowed == \A p \in proxies' \ proxies :
       IF p.target \in Subdomain
       THEN reservation[p.target] \in {NoUser, UserOf(p.session)}
       ELSE p.target \in window
<1>1. TypeOK /\ [Next]_vars => [Allowed]_vars
  <2> SUFFICES ASSUME TypeOK, [Next]_vars, NEW p \in proxies' \ proxies
               PROVE  IF p.target \in Subdomain
                      THEN reservation[p.target] \in {NoUser, UserOf(p.session)}
                      ELSE p.target \in window
    OBVIOUS
  <2>1. PICK s \in SessionId, x \in Target : Admissible(s, x) /\ proxies' = Admitted(s, x)
    BY OnlyAdmissionAdds
  <2>2. p = [session |-> s, target |-> x]
    BY <2>1 DEF Admitted
  <2>3. QED
    BY <2>1, <2>2 DEF Admissible, Permitted, Target
<1>2. QED
  BY <1>1, TypeCorrect, PTL DEF Spec, OpenedOnlyByOwner

\* An active row is lost only to frps closing that tunnel, to missed heartbeats, or
\* to another session of the same user: neither a late CloseProxy of an old
\* connection nor a refused takeover costs anyone a row.
THEOREM RowsLostWithCause == Spec => NoRowLostWithoutCause
<1> DEFINE Caused == \A p \in proxies \ proxies' :
       \/ p \in closing
       \/ Stale(p.session, 0)
       \/ \E q \in proxies' : /\ q.target = p.target
                              /\ q.session # p.session
                              /\ UserOf(q.session) = UserOf(p.session)
<1>1. TypeOK /\ [Next]_vars => [Caused]_vars
  <2> SUFFICES ASSUME TypeOK, [Next]_vars PROVE Caused
    OBVIOUS
  <2>1. CASE proxies' = proxies
    BY <2>1
  <2>2. ASSUME NEW c \in closing, proxies' = Ended(c)
        PROVE  Caused
    <3>1. c \in ProxyRow /\ proxies \subseteq ProxyRow
      BY DEF TypeOK, RelayOK, RowsOK
    <3>2. \A p \in proxies \ proxies' : p = c
      BY <2>2, <3>1 DEF Ended, ProxyRow
    <3>3. QED
      BY <3>2
  <2>3. CASE proxies' = {p \in proxies : ~Stale(p.session, 0)}
    BY <2>3
  <2>4. ASSUME NEW s \in SessionId, NEW x \in Target,
               Admissible(s, x), proxies' = Admitted(s, x)
        PROVE  Caused
    <3> DEFINE q == [session |-> s, target |-> x]
    <3>1. q \in proxies'
      BY <2>4 DEF Admitted
    <3>2. ASSUME NEW p \in proxies \ proxies'
          PROVE  /\ q.target = p.target
                 /\ q.session # p.session
                 /\ UserOf(q.session) = UserOf(p.session)
      <4>1. p \in Holders(x)
        BY <2>4, <3>2 DEF Admitted
      <4>2. p.target = x /\ p.session # s /\ UserOf(p.session) = UserOf(s)
        BY <2>4, <4>1 DEF Admissible, Vacant, Holders
      <4>3. QED
        BY <4>2
    <3>3. QED
      BY <3>1, <3>2
  <2>5. QED
    BY <2>1, <2>2, <2>3, <2>4, RowSteps
<1>2. QED
  BY <1>1, TypeCorrect, PTL DEF Spec, NoRowLostWithoutCause

-----------------------------------------------------------------------------
(* Counting a user's rows, and following a lease from one session to the   *)
(* next, needs a row's user to stay the same: no row, connection or        *)
(* request refers to a session that is still to be created.                *)

SessionsExist ==
  /\ \A p \in proxies : Opened(p.session)
  /\ \A s \in live : Opened(s)
  /\ \A s \in SessionId, k \in Op : hook[s][k] # "idle" => Opened(s)
  /\ \A c \in Client : login[c].pc = "reply" => Opened(login[c].session)

\* A session that exists goes on existing, for the same client.
LEMMA SessionsStay ==
  ASSUME TypeOK, [Next]_vars, NEW s \in SessionId, Opened(s)
  PROVE  Opened(s)' /\ session'[s].client = session[s].client
  <1>0. /\ session \in [SessionId -> SessionRow]
        /\ issued \in Nat
        /\ s \in Nat
    BY BoundsAssumption DEF TypeOK, RowsOK, SessionId
  <1>1. ASSUME UNCHANGED <<session, issued>>
        PROVE  Opened(s)' /\ session'[s].client = session[s].client
    BY <1>1 DEF Opened
  <1>2. ASSUME NEW c \in Client, CreateSession(c)
        PROVE  Opened(s)' /\ session'[s].client = session[s].client
    BY <1>0, <1>2 DEF Opened, CreateSession
  <1>3. ASSUME NEW c \in Client, Login(c) \/ LoginKick(c) \/ LoginUser(c) \/ LoginReply(c)
        PROVE  UNCHANGED <<session, issued>>
    BY <1>3 DEF Login, LoginKick, LoginUser, LoginReply, database
  <1>4. ASSUME NEW r \in SessionId, NEW k \in Op, Touch(r, k)
        PROVE  Opened(s)' /\ session'[s].client = session[s].client
    <2>1. [session[r] EXCEPT !.idle = 0].client = session[r].client
      BY <1>0 DEF SessionRow
    <2>2. QED
      BY <1>0, <1>4, <2>1 DEF Opened, Touch
  <1>5. ASSUME NEW r \in SessionId, NEW k \in Op,
               CheckSession(r, k) \/ CheckToken(r, k) \/ CheckUser(r, k)
        PROVE  UNCHANGED <<session, issued>>
    BY <1>5 DEF CheckSession, CheckToken, CheckUser, database
  <1>6. ASSUME NEW r \in SessionId, AdmitProxy(r) \/ DenyProxy(r) \/ Disconnect(r)
        PROVE  UNCHANGED <<session, issued>>
    BY <1>6 DEF AdmitProxy, DenyProxy, Disconnect, database
  <1>7. ASSUME NEW p \in closing, EndProxy(p)
        PROVE  UNCHANGED <<session, issued>>
    BY <1>7 DEF EndProxy
  <1>8. ASSUME Admin
        PROVE  Opened(s)' /\ session'[s].client = session[s].client
    <2>1. \A r \in SessionId : [session[r] EXCEPT !.killed = TRUE].client = session[r].client
      BY <1>0 DEF SessionRow
    <2>2. ASSUME NEW t \in Token, RevokeSessions(t)
          PROVE  Opened(s)' /\ session'[s].client = session[s].client
      BY <1>0, <2>1, <2>2 DEF Opened, RevokeSessions
    <2>3. ASSUME NEW r \in SessionId, KillSession(r)
          PROVE  Opened(s)' /\ session'[s].client = session[s].client
      BY <1>0, <2>1, <2>3 DEF Opened, KillSession
    <2>4. \/ UNCHANGED <<session, issued>>
          \/ \E t \in Token : RevokeSessions(t)
          \/ \E r \in SessionId : KillSession(r)
      BY <1>8 DEF Admin, SetUserDisabled, SetUserMaxTunnels, Reserve, Release, RevokeToken,
                  KickToken
    <2>5. QED
      BY <1>1, <2>2, <2>3, <2>4
  <1>9. SweepProxies \/ Restart \/ UNCHANGED vars => UNCHANGED <<session, issued>>
    BY DEF SweepProxies, Restart, vars, database
  <1>10. ASSUME SweepSessions \/ Tick
         PROVE  Opened(s)' /\ session'[s].client = session[s].client
    <2>1. /\ [session[s] EXCEPT !.ended = TRUE].client = session[s].client
          /\ [session[s] EXCEPT !.idle = Aged(@)].client = session[s].client
      BY <1>0 DEF SessionRow
    <2>2. QED
      BY <1>0, <1>10, <2>1 DEF Opened, SweepSessions, Tick
  <1>11. QED
    BY <1>1, <1>2, <1>3, <1>4, <1>5, <1>6, <1>7, <1>8, <1>9, <1>10
       DEF Next, LoginStep, HookStep

LEMMA SessionsExistAlways == Spec => []SessionsExist
<1>1. Init => SessionsExist
  BY DEF Init, SessionsExist, NoLogin
<1>2. TypeOK /\ SessionsExist /\ [Next]_vars => SessionsExist'
  <2> SUFFICES ASSUME TypeOK, SessionsExist, [Next]_vars PROVE SessionsExist'
    OBVIOUS
  <2>0. ASSUME NEW s \in SessionId, Opened(s) PROVE Opened(s)'
    BY <2>0, SessionsStay
  <2>1. \A p \in proxies' : Opened(p.session)'
    <3>1. \A p \in proxies : p.session \in SessionId /\ Opened(p.session)
      BY DEF SessionsExist, TypeOK, RowsOK, ProxyRow
    <3>2. CASE proxies' \subseteq proxies
      BY <2>0, <3>1, <3>2
    <3>3. ASSUME NEW s \in SessionId, NEW x \in Target,
                 hook[s]["NewProxy"] = "admit", proxies' = Admitted(s, x)
          PROVE  \A p \in proxies' : Opened(p.session)'
      <4>1. Opened(s)
        BY <3>3 DEF SessionsExist, Op
      <4>2. \A p \in proxies' : p \in proxies \/ p.session = s
        BY <3>3 DEF Admitted
      <4>3. QED
        BY <2>0, <3>1, <4>1, <4>2
    <3>4. QED
      BY <3>2, <3>3, RowSteps DEF Ended
  <2>2. \A s \in live' : Opened(s)'
    <3>1. live \subseteq SessionId /\ \A s \in live : Opened(s)
      BY DEF SessionsExist, TypeOK, RelayOK
    <3>2. \/ live' \subseteq live
          \/ \E c \in Client : login[c].pc = "reply" /\ live' = live \cup {login[c].session}
      BY DEF Next, vars, relay, LoginStep, Login, LoginKick, LoginUser, CreateSession,
             LoginReply, CheckSession, HookStep, CheckToken, CheckUser, Touch, Check, Refuse,
             Closed, AdmitProxy, DenyProxy, Disconnect, EndProxy, Admin, SetUserDisabled,
             SetUserMaxTunnels, Reserve, Release, RevokeToken, RevokeSessions, KillSession,
             KickToken, SweepProxies, SweepSessions, Tick, Restart
    <3>3. ASSUME NEW c \in Client, login[c].pc = "reply"
          PROVE  login[c].session \in SessionId /\ Opened(login[c].session)
      BY <3>3 DEF SessionsExist, TypeOK, RequestsOK, LoginPC
    <3>4. QED
      BY <2>0, <3>1, <3>2, <3>3
  <2>3. ASSUME NEW s \in SessionId, NEW k \in Op, hook'[s][k] # "idle"
        PROVE  Opened(s)'
    <3>0. hook \in [SessionId -> [Op -> HookPC]]
      BY DEF TypeOK, RequestsOK
    <3>1. CASE hook[s][k] # "idle"
      BY <2>0, <3>1 DEF SessionsExist
    <3>2. CASE hook[s][k] = "idle" /\ s \in live
      BY <2>0, <3>2 DEF SessionsExist
    <3>3. CASE hook[s][k] = "idle" /\ s \notin live
      <4>1. ASSUME NEW r \in SessionId, NEW l \in Op, NEW pc,
                   hook' = [hook EXCEPT ![r][l] = pc],
                   pc = "idle" \/ hook[r][l] # "idle" \/ r \in live
            PROVE  FALSE
        BY <2>3, <3>0, <3>3, <4>1
      <4>2. hook' # hook
        BY <2>3, <3>3
      <4>3. ~Restart
        BY <2>3 DEF Restart
      <4>4. \A c \in Client : ~(Login(c) \/ LoginStep(c))
        BY <4>2 DEF LoginStep, Login, LoginKick, LoginUser, CreateSession, LoginReply
      <4>5. ~Admin /\ ~SweepProxies /\ ~SweepSessions /\ ~Tick /\ vars' # vars
        BY <4>2 DEF Admin, SetUserDisabled, SetUserMaxTunnels, Reserve, Release, RevokeToken,
                    RevokeSessions, KillSession, KickToken, SweepProxies, SweepSessions, Tick,
                    vars, requests
      <4>6. \A p \in closing : ~EndProxy(p)
        BY <4>2 DEF EndProxy, requests
      <4>7. \A r \in SessionId : ~(AdmitProxy(r) \/ DenyProxy(r) \/ Disconnect(r))
        BY <4>1, <4>2 DEF AdmitProxy, DenyProxy, Disconnect, requests, Op
      <4>8. \A r \in SessionId, l \in Op : ~(CheckSession(r, l) \/ HookStep(r, l))
        <5>1. ASSUME NEW r \in SessionId, NEW l \in Op, NEW ok, NEW pc, Check(r, l, ok, pc),
                     hook[r][l] # "idle" \/ r \in live
              PROVE  FALSE
          BY <4>1, <5>1 DEF Check, Refuse
        <5>2. \A r \in SessionId, l \in Op : ~CheckSession(r, l)
          BY <5>1 DEF CheckSession
        <5>3. \A r \in SessionId, l \in Op : ~CheckToken(r, l) /\ ~CheckUser(r, l)
          BY <5>1 DEF CheckToken, CheckUser
        <5>4. \A r \in SessionId, l \in Op : ~Touch(r, l)
          BY <4>1 DEF Touch
        <5>5. QED
          BY <5>2, <5>3, <5>4 DEF HookStep
      <4>9. QED
        BY <4>3, <4>4, <4>5, <4>6, <4>7, <4>8 DEF Next
    <3>4. QED
      BY <3>1, <3>2, <3>3
  <2>4. ASSUME NEW c \in Client, login'[c].pc = "reply"
        PROVE  Opened(login[c].session)'
    <3>0. login \in [Client -> [pc : LoginPC, session : {0}]
                             \cup [pc : {"reply"}, session : SessionId]]
      BY DEF TypeOK, RequestsOK
    <3>1. CASE login'[c] = login[c]
      <4>1. login[c].session \in SessionId /\ Opened(login[c].session)
        BY <2>4, <3>0, <3>1 DEF SessionsExist, LoginPC
      <4>2. login[c].session <= issued'
        BY <2>0, <4>1 DEF Opened
      <4>3. QED
        BY <3>1, <4>2 DEF Opened
    <3>2. CASE login'[c] # login[c]
      <4>1. \A d \in Client : ~Login(d) /\ ~LoginKick(d) /\ ~LoginUser(d) /\ ~LoginReply(d)
        BY <2>4, <3>0, <3>2 DEF Login, LoginKick, LoginUser, LoginReply, NoLogin
      <4>2. ~Restart
        BY <2>4 DEF Restart, NoLogin
      <4>3. \E d \in Client : CreateSession(d)
        BY <3>2, <4>1, <4>2
        DEF Next, vars, requests, LoginStep, CheckSession, HookStep, CheckToken, CheckUser,
            Touch, AdmitProxy, DenyProxy, Disconnect, EndProxy, Admin, SetUserDisabled,
            SetUserMaxTunnels, Reserve, Release, RevokeToken, RevokeSessions, KillSession,
            KickToken, SweepProxies, SweepSessions, Tick
      <4>4. PICK d \in Client : CreateSession(d)
        BY <4>3
      <4>5. issued \in Nat
        BY BoundsAssumption DEF TypeOK, RowsOK
      <4>6. login'[c].session = issued' /\ issued' \in Nat
        BY <3>0, <3>2, <4>4, <4>5 DEF CreateSession
      <4>7. QED
        BY <4>6 DEF Opened
    <3>3. QED
      BY <3>1, <3>2
  <2>5. QED
    BY <2>1, <2>2, <2>3, <2>4 DEF SessionsExist
<1>3. QED
  BY <1>1, <1>2, TypeCorrect, PTL DEF Spec

\* Sets of rows stay finite, so that counting them means something.
LEMMA RowsFinite == Spec => []IsFiniteSet(proxies)
<1>1. Init => IsFiniteSet(proxies)
  BY FS_EmptySet DEF Init
<1>2. TypeOK /\ IsFiniteSet(proxies) /\ [Next]_vars => IsFiniteSet(proxies)'
  <2> SUFFICES ASSUME TypeOK, IsFiniteSet(proxies), [Next]_vars PROVE IsFiniteSet(proxies')
    OBVIOUS
  <2>1. CASE proxies' \subseteq proxies
    BY <2>1, FS_Subset
  <2>2. ASSUME NEW s \in SessionId, NEW x \in Target, proxies' = Admitted(s, x)
        PROVE  IsFiniteSet(proxies')
    <3>1. IsFiniteSet(proxies \ Holders(x))
      BY FS_Subset
    <3>2. QED
      BY <2>2, <3>1, FS_AddElement DEF Admitted
  <2>3. QED
    BY <2>1, <2>2, OnlyAdmissionAdds
<1>3. QED
  BY <1>1, <1>2, TypeCorrect, PTL DEF Spec

\* No admission, however it interleaves with others of the user, leaves the user
\* with more tunnels than the limit the transaction has read.
THEOREM WithinQuota == Spec => QuotaKept
<1> DEFINE Kept == \A u \in User :
       Cardinality(ActiveOf(u)') > Cardinality(ActiveOf(u))
         => Cardinality(ActiveOf(u)') <= maxTunnels[u]
<1>1. TypeOK /\ SessionsExist /\ IsFiniteSet(proxies) /\ [Next]_vars => [Kept]_vars
  <2> SUFFICES ASSUME TypeOK, SessionsExist, IsFiniteSet(proxies), [Next]_vars, NEW u \in User,
                      Cardinality(ActiveOf(u)') > Cardinality(ActiveOf(u))
               PROVE  Cardinality(ActiveOf(u)') <= maxTunnels[u]
    OBVIOUS
  <2>1. IsFiniteSet(ActiveOf(u)) /\ Cardinality(ActiveOf(u)) \in Nat
    BY FS_Subset, FS_CardinalityType DEF ActiveOf
  <2>2. \A p \in proxies : p.session \in SessionId /\ UserOf(p.session)' = UserOf(p.session)
    <3>1. \A p \in proxies : p.session \in SessionId /\ Opened(p.session)
      BY DEF SessionsExist, TypeOK, RowsOK, ProxyRow
    <3>2. QED
      BY <3>1, SessionsStay DEF UserOf, TokenOf
  <2>3. \E p \in proxies' : p \notin proxies /\ UserOf(p.session)' = u
    <3>1. SUFFICES ASSUME ActiveOf(u)' \subseteq ActiveOf(u)
                   PROVE  FALSE
      BY <2>2 DEF ActiveOf
    <3>2. Cardinality(ActiveOf(u)') \in Nat /\ Cardinality(ActiveOf(u)') <= Cardinality(ActiveOf(u))
      BY <2>1, <3>1, FS_Subset, FS_CardinalityType
    <3>3. QED
      BY <2>1, <3>2
  <2>4. PICK s \in SessionId, x \in Target :
          /\ Admissible(s, x)
          /\ proxies' = Admitted(s, x)
          /\ UNCHANGED <<accounts, session>>
    BY <2>3, OnlyAdmissionAdds
  <2>5. UserOf(s) = u
    BY <2>3, <2>4 DEF Admitted, UserOf, TokenOf
  <2> DEFINE kept == ActiveOf(u) \ Holders(x)
  <2>6. ActiveOf(u)' = kept \cup {[session |-> s, target |-> x]}
    BY <2>4, <2>5 DEF ActiveOf, Admitted, Holders, UserOf, TokenOf
  <2>7. IsFiniteSet(kept) /\ Cardinality(kept) \in Nat
    BY <2>1, FS_Subset, FS_CardinalityType
  <2>8. Cardinality(kept) < maxTunnels[u]
    BY <2>4, <2>5 DEF Admissible, WithinLimit
  <2>9. Cardinality(ActiveOf(u)') <= Cardinality(kept) + 1
    <3>1. \/ Cardinality(kept \cup {[session |-> s, target |-> x]}) = Cardinality(kept)
          \/ Cardinality(kept \cup {[session |-> s, target |-> x]}) = Cardinality(kept) + 1
      BY <2>7, FS_AddElement, Zenon
    <3>2. QED
      BY <2>6, <2>7, <3>1
  <2>10. maxTunnels[u] \in Nat /\ Cardinality(ActiveOf(u)') \in Nat
    BY <2>6, <2>7, FS_AddElement, FS_CardinalityType DEF TypeOK, AccountsOK
  <2>11. QED
    BY <2>7, <2>8, <2>9, <2>10
<1>2. QED
  BY <1>1, TypeCorrect, SessionsExistAlways, RowsFinite, PTL DEF Spec, QuotaKept
=============================================================================
