---------------------------- MODULE ControlPlane ----------------------------
(***************************************************************************)
(* The control plane of ktunnel: the tables of the SQLite store            *)
(* (internal/store/store.go), the four frps hooks of the plugin handler    *)
(* (internal/plugin/handler.go), the administrator's operations and the    *)
(* sweeper goroutine of ktunneld (cmd/ktunneld/main.go), all interleaved.  *)
(*                                                                         *)
(* The unit of atomicity is the unit SQLite gives the code: one statement, *)
(* or one BEGIN IMMEDIATE transaction for AdmitProxy.  A handler that      *)
(* issues several statements is several actions, with a program counter    *)
(* per request in flight.                                                  *)
(*                                                                         *)
(* frps and the frpc library are external.  They appear as the set of      *)
(* control connections (live), the tunnels frps carries (carried) and the  *)
(* CloseProxy notifications it has yet to deliver (closing).               *)
(*                                                                         *)
(* Time is counted in ticks.  A row keeps the ticks since its last_seen_at *)
(* (capped where larger values behave alike) and a token the ticks left of *)
(* its kicked_until, so the clock itself is unbounded.                     *)
(***************************************************************************)
EXTENDS Naturals, FiniteSets

CONSTANTS
  User, Token, Client,   \* accounts, their tokens, the ktunnel processes
  Subdomain, Port,       \* what an http and what a tcp tunnel occupies
  OwnerOf,               \* [Token -> User]       tokens.user_id
  Credential,            \* [Client -> Token]     the token in a client's config
  Wants,                 \* [Client -> SUBSET Target]  tunnels a client asks for
  Heartbeats,            \* SUBSET Client: those whose frpc sends heartbeats
  NoUser,                \* no reservation
  Limits,                \* the max_tunnels an administrator may set
  Windows,               \* the port windows an operator may configure
  StaleAfter,            \* sessionStaleAfter, in ticks
  KickCooldown,          \* KickCooldown, in ticks
  MaxSessions,           \* bound: session rows ever created
  MaxLag,                \* bound: ticks between the sweeper's two statements
  MaxActs,               \* bound: operations of the administrator
  MaxCrashes             \* bound: crashes of the daemon

Target == Subdomain \cup Port
SessionId == 1..MaxSessions

ASSUME NamesAssumption ==
  /\ NoUser \notin User
  /\ Client # {}
  /\ Subdomain \cap Port = {}

ASSUME OwnershipAssumption ==
  /\ OwnerOf \in [Token -> User]
  /\ Credential \in [Client -> Token]
  /\ Wants \in [Client -> SUBSET Target]
  /\ Heartbeats \subseteq Client

ASSUME BoundsAssumption ==
  /\ Limits \subseteq Nat
  /\ Windows \subseteq SUBSET Port
  /\ StaleAfter \in Nat
  /\ KickCooldown \in Nat
  /\ MaxSessions \in Nat
  /\ MaxLag \in Nat
  /\ MaxActs \in Nat
  /\ MaxCrashes \in Nat

VARIABLES
  \* the database
  disabled,     \* users.disabled
  maxTunnels,   \* users.max_tunnels
  reservation,  \* reservations: the owner of a subdomain, or NoUser
  window,       \* settings.tcp_port_range
  revoked,      \* tokens.revoked_at IS NOT NULL
  cooldown,     \* ticks until tokens.kicked_until
  session,      \* sessions rows
  issued,       \* the highest session id in use
  proxies,      \* proxies rows with ended_at IS NULL
  \* requests in flight in the daemon or a CLI process
  login,        \* Login hook of each client
  hook,         \* Ping and NewProxy hook of each session
  asked,        \* the target of a session's NewProxy
  revoking,     \* tokens between the two statements of RevokeToken
  killing,      \* sessions between the two statements of KillSession
  sweep,        \* the sweeper: between its two statements, and for how long
  \* frps (external)
  live,         \* sessions with a control connection
  carried,      \* tunnels frps is serving
  closing,      \* CloseProxy notifications under way
  \* bounds
  acts,         \* operations of the administrator so far
  crashes       \* crashes so far

database == <<disabled, maxTunnels, reservation, window, revoked, cooldown,
              session, issued, proxies>>
accounts == <<disabled, maxTunnels, reservation, window, revoked, cooldown>>
requests == <<login, hook, asked>>
admin    == <<revoking, killing>>
relay    == <<live, carried, closing>>
bounds   == <<acts, crashes>>
vars     == <<database, requests, admin, sweep, relay, bounds>>

-----------------------------------------------------------------------------
(* Rows, and what the queries compute from them.                           *)

\* An idle time above IdleCap is stale at every sweep that could see it.
IdleCap == StaleAfter + MaxLag + 1

SessionRow == [client : Client, killed : BOOLEAN, ended : BOOLEAN, idle : 0..IdleCap]
ProxyRow   == [session : SessionId, target : Target]

\* A row of a session id that is not in use yet.
BlankRow == [client |-> CHOOSE c \in Client : TRUE,
             killed |-> FALSE, ended |-> FALSE, idle |-> 0]

Opened(s)  == s <= issued
TokenOf(s) == Credential[session[s].client]
UserOf(s)  == OwnerOf[TokenOf(s)]

Holders(x)  == {p \in proxies : p.target = x}
ActiveOf(u) == {p \in proxies : UserOf(p.session) = u}
RowsOf(s)   == {p \in proxies : p.session = s}

\* A slip of the sweeper: it leaves killed sessions to somebody else.
StaleUnlessKilled(s, lag) ==
  /\ Opened(s) /\ ~session[s].ended /\ ~session[s].killed
  /\ session[s].idle > StaleAfter + lag

\* The predicate of both statements of ExpireStaleSessions, for a cutoff
\* computed lag ticks ago.
Stale(s, lag) ==
  Opened(s) /\ ~session[s].ended /\ session[s].idle > StaleAfter + lag

\* A slip of AdmitProxy: session() has looked at the token and the user already.
MayOpenTrustingCheck(s) == ~session[s].killed /\ ~session[s].ended

\* AdmitProxy: the session, its token and its user, read in the transaction.
MayOpen(s) ==
  /\ ~session[s].killed /\ ~session[s].ended
  /\ ~revoked[TokenOf(s)]
  /\ ~disabled[UserOf(s)]

\* A slip of AdmitProxy: a takeover does not look at the reservation again.
PermittedIfHeld(s, x) ==
  /\ x \in Subdomain => reservation[x] \in {NoUser, UserOf(s)} \/ Holders(x) # {}
  /\ x \in Port => x \in window

\* AdmitProxy: the reservation of a subdomain, the window of a port.
Permitted(s, x) ==
  /\ x \in Subdomain => reservation[x] \in {NoUser, UserOf(s)}
  /\ x \in Port => x \in window

\* A slip of AdmitProxy: another session may take over, whoever owns it.
VacantForOthers(s, x) == \A p \in Holders(x) : p.session # s

\* AdmitProxy: whoever holds the target is another session of the same user.
Vacant(s, x) == \A p \in Holders(x) : p.session # s /\ UserOf(p.session) = UserOf(s)

\* A slip of AdmitProxy: off by one.
WithinLimitOrEqual(s, x) ==
  Cardinality(ActiveOf(UserOf(s)) \ Holders(x)) <= maxTunnels[UserOf(s)]

\* AdmitProxy: the user's tunnels, once the rows taken over are ended.
WithinLimit(s, x) ==
  Cardinality(ActiveOf(UserOf(s)) \ Holders(x)) < maxTunnels[UserOf(s)]

Admissible(s, x) == MayOpen(s) /\ Permitted(s, x) /\ Vacant(s, x) /\ WithinLimit(s, x)

\* A slip of AdmitProxy: the rows taken over are left active.
AdmittedBeside(s, x) == proxies \cup {[session |-> s, target |-> x]}

\* The active rows after AdmitProxy: a takeover ends the rows it replaces.
Admitted(s, x) == (proxies \ Holders(x)) \cup {[session |-> s, target |-> x]}

\* A slip of EndProxy: the name alone says which row.
EndedByName(p) == {q \in proxies : q.target # p.target}

\* The active rows after EndProxy on a session and a proxy name.
Ended(p) == {q \in proxies : q.session # p.session \/ q.target # p.target}

\* An idle time one tick later.
Aged(n) == IF n < IdleCap THEN n + 1 ELSE IdleCap

-----------------------------------------------------------------------------
LoginPC == {"idle", "kick", "user", "create"}
HookPC  == {"idle", "token", "user", "touch", "admit"}
Op      == {"Ping", "NewProxy"}

AccountsOK ==
  /\ disabled \in [User -> BOOLEAN]
  /\ maxTunnels \in [User -> Nat]
  /\ reservation \in [Subdomain -> User \cup {NoUser}]
  /\ window \in SUBSET Port
  /\ revoked \in [Token -> BOOLEAN]
  /\ cooldown \in [Token -> 0..KickCooldown]

RowsOK ==
  /\ session \in [SessionId -> SessionRow]
  /\ issued \in 0..MaxSessions
  /\ proxies \in SUBSET ProxyRow

RequestsOK ==
  /\ login \in [Client -> [pc : LoginPC, session : {0}]
                          \cup [pc : {"reply"}, session : SessionId]]
  /\ hook \in [SessionId -> [Op -> HookPC]]
  /\ asked \in [SessionId -> SUBSET Target]

AdminOK ==
  /\ revoking \in SUBSET Token
  /\ killing \in SUBSET SessionId
  /\ sweep \in [on : BOOLEAN, lag : 0..MaxLag]

RelayOK ==
  /\ live \in SUBSET SessionId
  /\ carried \in SUBSET ProxyRow
  /\ closing \in SUBSET ProxyRow

BoundsOK ==
  /\ acts \in 0..MaxActs
  /\ crashes \in 0..MaxCrashes

\* The type of every variable.
TypeOK == AccountsOK /\ RowsOK /\ RequestsOK /\ AdminOK /\ RelayOK /\ BoundsOK

NoLogin == [pc |-> "idle", session |-> 0]

Init ==
  /\ disabled = [u \in User |-> FALSE]
  /\ maxTunnels \in [User -> Limits]
  /\ reservation \in [Subdomain -> User \cup {NoUser}]
  /\ window \in Windows
  /\ revoked = [t \in Token |-> FALSE]
  /\ cooldown = [t \in Token |-> 0]
  /\ session = [s \in SessionId |-> BlankRow]
  /\ issued = 0
  /\ proxies = {}
  /\ login = [c \in Client |-> NoLogin]
  /\ hook = [s \in SessionId |-> [k \in Op |-> "idle"]]
  /\ asked = [s \in SessionId |-> {}]
  /\ revoking = {}
  /\ killing = {}
  /\ sweep = [on |-> FALSE, lag |-> 0]
  /\ live = {}
  /\ carried = {}
  /\ closing = {}
  /\ acts = 0
  /\ crashes = 0

-----------------------------------------------------------------------------
(* The Login hook: Authenticate is three reads, CreateSession one insert.  *)

\* A client connects; Authenticate finds its token and checks revoked_at.
Login(c) ==
  /\ login[c].pc = "idle"
  /\ issued < MaxSessions
  /\ ~revoked[Credential[c]]
  /\ login' = [login EXCEPT ![c].pc = "kick"]
  /\ UNCHANGED <<database, hook, asked, admin, sweep, relay, bounds>>

\* Authenticate reads kicked_until, and refuses while it lies ahead.
LoginKick(c) ==
  /\ login[c].pc = "kick"
  /\ login' = [login EXCEPT ![c].pc = IF cooldown[Credential[c]] > 0 THEN "idle" ELSE "user"]
  /\ UNCHANGED <<database, hook, asked, admin, sweep, relay, bounds>>

\* Authenticate reads the user, and refuses a disabled account.
LoginUser(c) ==
  /\ login[c].pc = "user"
  /\ login' = [login EXCEPT ![c].pc =
                 IF disabled[OwnerOf[Credential[c]]] THEN "idle" ELSE "create"]
  /\ UNCHANGED <<database, hook, asked, admin, sweep, relay, bounds>>

CreateSession(c) ==
  /\ login[c].pc = "create"
  /\ issued < MaxSessions
  /\ issued' = issued + 1
  /\ session' = [session EXCEPT ![issued + 1] =
                   [client |-> c, killed |-> FALSE, ended |-> FALSE, idle |-> 0]]
  /\ login' = [login EXCEPT ![c] = [pc |-> "reply", session |-> issued + 1]]
  /\ UNCHANGED <<accounts, proxies, hook, asked, admin, sweep, relay, bounds>>

\* The answer reaches frps, which from now on presents the stamped session id.
LoginReply(c) ==
  /\ login[c].pc = "reply"
  /\ live' = live \cup {login[c].session}
  /\ login' = [login EXCEPT ![c] = NoLogin]
  /\ UNCHANGED <<database, hook, asked, admin, sweep, carried, closing, bounds>>

-----------------------------------------------------------------------------
(* frps closes a control connection: it stops serving the connection's     *)
(* tunnels and notifies ktunneld of each, in no particular order.          *)

Closed(s) ==
  LET gone == {p \in carried : p.session = s}
  IN  /\ live' = live \ {s}
      /\ carried' = carried \ gone
      /\ closing' = closing \cup gone

\* The client quits, the network drops, or frps gives up on its heartbeats.
Disconnect(s) ==
  /\ s \in live
  /\ Closed(s)
  /\ UNCHANGED <<database, requests, admin, sweep, bounds>>

-----------------------------------------------------------------------------
(* The Ping and NewProxy hooks.  Both start with session(): three reads,   *)
(* of the session, its token and its user.  A refused Ping ends the        *)
(* connection; a refused NewProxy leaves it open.                          *)

Refuse(s, k) ==
  /\ hook' = [hook EXCEPT ![s][k] = "idle"]
  /\ IF k = "Ping" THEN Closed(s) ELSE UNCHANGED relay

\* session() reads one row and goes on to pc, or refuses.
Check(s, k, ok, pc) ==
  IF ok
  THEN hook' = [hook EXCEPT ![s][k] = pc] /\ UNCHANGED relay
  ELSE Refuse(s, k)

CheckSession(s, k) ==
  /\ s \in live
  /\ hook[s][k] = "idle"
  /\ IF k = "Ping"
     THEN session[s].client \in Heartbeats /\ UNCHANGED asked
     ELSE \E x \in Wants[session[s].client] : asked' = [asked EXCEPT ![s] = {x}]
  /\ Check(s, k, ~session[s].killed /\ ~session[s].ended, "token")
  /\ UNCHANGED <<database, login, admin, sweep, bounds>>

\* A slip of session(): the kill mark of RevokeToken is enough.
SkipToken(s, k) ==
  /\ hook[s][k] = "token"
  /\ Check(s, k, TRUE, "user")
  /\ UNCHANGED <<database, login, asked, admin, sweep, bounds>>

CheckToken(s, k) ==
  /\ hook[s][k] = "token"
  /\ Check(s, k, ~revoked[TokenOf(s)], "user")
  /\ UNCHANGED <<database, login, asked, admin, sweep, bounds>>

CheckUser(s, k) ==
  /\ hook[s][k] = "user"
  /\ Check(s, k, ~disabled[UserOf(s)], "touch")
  /\ UNCHANGED <<database, login, asked, admin, sweep, bounds>>

\* TouchSession, whose error both hooks ignore.
Touch(s, k) ==
  /\ hook[s][k] = "touch"
  /\ \/ session' = [session EXCEPT ![s].idle = 0]
     \/ UNCHANGED session
  /\ hook' = [hook EXCEPT ![s][k] = IF k = "Ping" THEN "idle" ELSE "admit"]
  /\ UNCHANGED <<accounts, issued, proxies, login, asked, admin, sweep, relay, bounds>>

\* frps registers an accepted tunnel if the answer reaches it, the connection is
\* still there and no other connection serves the same name or port.  It never
\* reports a tunnel it did not register.
Register(s, x) ==
  \/ /\ s \in live
     /\ \A p \in carried : p.target # x
     /\ carried' = carried \cup {[session |-> s, target |-> x]}
  \/ UNCHANGED carried

\* The transaction accepts: the rows of a session of the same user give way.
AdmitProxy(s) ==
  /\ hook[s]["NewProxy"] = "admit"
  /\ \E x \in asked[s] :
       /\ Admissible(s, x)
       /\ proxies' = Admitted(s, x)
       /\ Register(s, x)
  /\ hook' = [hook EXCEPT ![s]["NewProxy"] = "idle"]
  /\ UNCHANGED <<accounts, session, issued, login, asked, admin, sweep, live, closing, bounds>>

\* The transaction refuses, or the database does not take it: it rolls back, and
\* the handler rejects in either case.
DenyProxy(s) ==
  /\ hook[s]["NewProxy"] = "admit"
  /\ hook' = [hook EXCEPT ![s]["NewProxy"] = "idle"]
  /\ UNCHANGED <<database, login, asked, admin, sweep, relay, bounds>>

\* The CloseProxy hook: EndProxy on the stamped session and the proxy name.
EndProxy(p) ==
  /\ p \in closing
  /\ closing' = closing \ {p}
  /\ proxies' = Ended(p)
  /\ UNCHANGED <<accounts, session, issued, requests, admin, sweep, live, carried, bounds>>

-----------------------------------------------------------------------------
(* The administrator, from the web pages or from the CLI.                  *)

Act == acts < MaxActs /\ acts' = acts + 1

SetUserDisabled(u, d) ==
  /\ Act
  /\ disabled[u] # d
  /\ disabled' = [disabled EXCEPT ![u] = d]
  /\ UNCHANGED <<maxTunnels, reservation, window, revoked, cooldown, session, issued,
                 proxies, requests, admin, sweep, relay, crashes>>

SetUserMaxTunnels(u, n) ==
  /\ Act
  /\ maxTunnels[u] # n
  /\ maxTunnels' = [maxTunnels EXCEPT ![u] = n]
  /\ UNCHANGED <<disabled, reservation, window, revoked, cooldown, session, issued,
                 proxies, requests, admin, sweep, relay, crashes>>

\* The primary key of reservations refuses a second owner.
Reserve(x, u) ==
  /\ Act
  /\ reservation[x] = NoUser
  /\ reservation' = [reservation EXCEPT ![x] = u]
  /\ UNCHANGED <<disabled, maxTunnels, window, revoked, cooldown, session, issued,
                 proxies, requests, admin, sweep, relay, crashes>>

Release(x) ==
  /\ Act
  /\ reservation[x] # NoUser
  /\ reservation' = [reservation EXCEPT ![x] = NoUser]
  /\ UNCHANGED <<disabled, maxTunnels, window, revoked, cooldown, session, issued,
                 proxies, requests, admin, sweep, relay, crashes>>

\* RevokeToken, first statement; ErrNotFound when already revoked.
RevokeToken(t) ==
  /\ Act
  /\ ~revoked[t]
  /\ revoked' = [revoked EXCEPT ![t] = TRUE]
  /\ revoking' = revoking \cup {t}
  /\ UNCHANGED <<disabled, maxTunnels, reservation, window, cooldown, session, issued,
                 proxies, requests, killing, sweep, relay, crashes>>

\* RevokeToken, second statement.
RevokeSessions(t) ==
  /\ t \in revoking
  /\ session' = [s \in SessionId |->
       IF Opened(s) /\ TokenOf(s) = t /\ ~session[s].ended
       THEN [session[s] EXCEPT !.killed = TRUE] ELSE session[s]]
  /\ revoking' = revoking \ {t}
  /\ UNCHANGED <<accounts, issued, proxies, requests, killing, sweep, relay, bounds>>

\* KillSession, first statement; ErrNotFound when the session has ended.
KillSession(s) ==
  /\ Act
  /\ Opened(s) /\ ~session[s].ended
  /\ session' = [session EXCEPT ![s].killed = TRUE]
  /\ killing' = killing \cup {s}
  /\ UNCHANGED <<accounts, issued, proxies, requests, revoking, sweep, relay, crashes>>

\* KillSession, second statement.
KickToken(s) ==
  /\ s \in killing
  /\ cooldown' = [cooldown EXCEPT ![TokenOf(s)] = KickCooldown]
  /\ killing' = killing \ {s}
  /\ UNCHANGED <<disabled, maxTunnels, reservation, window, revoked, session, issued,
                 proxies, requests, revoking, sweep, relay, bounds>>

-----------------------------------------------------------------------------
(* The sweeper, ExpireStaleSessions: two statements, no transaction.       *)

\* A slip of the sweeper: a killed session's tunnels are as good as gone.
SweepProxiesOfKilled ==
  /\ ~sweep.on
  /\ proxies' = {p \in proxies : ~Stale(p.session, 0) /\ ~session[p.session].killed}
  /\ sweep' = [on |-> TRUE, lag |-> 0]
  /\ UNCHANGED <<accounts, session, issued, requests, admin, relay, bounds>>

SweepProxies ==
  /\ ~sweep.on
  /\ proxies' = {p \in proxies : ~Stale(p.session, 0)}
  /\ sweep' = [on |-> TRUE, lag |-> 0]
  /\ UNCHANGED <<accounts, session, issued, requests, admin, relay, bounds>>

SweepSessions ==
  /\ sweep.on
  /\ session' = [s \in SessionId |->
       IF Stale(s, sweep.lag) THEN [session[s] EXCEPT !.ended = TRUE] ELSE session[s]]
  /\ sweep' = [on |-> FALSE, lag |-> 0]
  /\ UNCHANGED <<accounts, issued, proxies, requests, admin, relay, bounds>>

-----------------------------------------------------------------------------
\* Time passes for everything that compares against the clock; nothing reads
\* last_seen_at of a session that has ended.
Tick ==
  /\ sweep.on => sweep.lag < MaxLag
  /\ sweep' = IF sweep.on THEN [sweep EXCEPT !.lag = @ + 1] ELSE sweep
  /\ cooldown' = [t \in Token |-> IF cooldown[t] > 0 THEN cooldown[t] - 1 ELSE 0]
  /\ session' = [s \in SessionId |->
       IF Opened(s) /\ ~session[s].ended
       THEN [session[s] EXCEPT !.idle = Aged(@)] ELSE session[s]]
  /\ UNCHANGED <<disabled, maxTunnels, reservation, window, revoked, issued,
                 proxies, requests, admin, relay, bounds>>

\* The daemon dies and is restarted.  Requests in flight are gone, frps has
\* dropped any of the notifications it could not deliver, and the half-done
\* operations that survive are those of CLI processes.  serve may install
\* another port window before it listens.
Restart ==
  /\ crashes < MaxCrashes
  /\ crashes' = crashes + 1
  /\ window' \in Windows
  /\ login' = [c \in Client |-> NoLogin]
  /\ hook' = [s \in SessionId |-> [k \in Op |-> "idle"]]
  /\ sweep' = [on |-> FALSE, lag |-> 0]
  /\ revoking' \in SUBSET revoking
  /\ killing' \in SUBSET killing
  /\ closing' \in SUBSET closing
  /\ UNCHANGED <<disabled, maxTunnels, reservation, revoked, cooldown, session, issued,
                 proxies, asked, live, carried, acts>>

-----------------------------------------------------------------------------
LoginStep(c) == LoginKick(c) \/ LoginUser(c) \/ CreateSession(c) \/ LoginReply(c)

HookStep(s, k) == CheckToken(s, k) \/ CheckUser(s, k) \/ Touch(s, k)

Admin ==
  \/ \E u \in User, d \in BOOLEAN : SetUserDisabled(u, d)
  \/ \E u \in User, n \in Limits : SetUserMaxTunnels(u, n)
  \/ \E x \in Subdomain, u \in User : Reserve(x, u)
  \/ \E x \in Subdomain : Release(x)
  \/ \E t \in Token : RevokeToken(t) \/ RevokeSessions(t)
  \/ \E s \in SessionId : KillSession(s) \/ KickToken(s)

Next ==
  \/ \E c \in Client : Login(c) \/ LoginStep(c)
  \/ \E s \in SessionId, k \in Op : CheckSession(s, k) \/ HookStep(s, k)
  \/ \E s \in SessionId : AdmitProxy(s) \/ DenyProxy(s) \/ Disconnect(s)
  \/ \E p \in closing : EndProxy(p)
  \/ Admin
  \/ SweepProxies
  \/ SweepSessions
  \/ Tick
  \/ Restart

\* What goes on by itself: a live client heartbeats, a handler that started
\* answers, a started operation of the administrator finishes, the sweeper's
\* ticker fires and the clock advances.  Users and administrators decide
\* freely, connections need not drop and the daemon need not crash.
Fairness ==
  /\ \A c \in Client : WF_vars(LoginStep(c))
  /\ \A s \in SessionId :
       /\ WF_vars(CheckSession(s, "Ping"))
       /\ \A k \in Op : WF_vars(HookStep(s, k))
       /\ WF_vars(AdmitProxy(s) \/ DenyProxy(s))
       /\ WF_vars(KickToken(s))
  /\ \A t \in Token : WF_vars(RevokeSessions(t))
  /\ WF_vars(SweepProxies)
  /\ WF_vars(SweepSessions)
  /\ WF_vars(Tick)

Spec     == Init /\ [][Next]_vars
FairSpec == Spec /\ Fairness

-----------------------------------------------------------------------------
(* Safety.                                                                 *)

\* A subdomain or remote port is never active for two sessions at once, in
\* whatever order admissions, takeovers, closes and sweeps commit (AdmitProxy).
OneHolderPerTarget == \A p, q \in proxies : p.target = q.target => p = q

\* What no tunnel may be opened on, wherever the request in flight was when
\* the administrator acted.
CutOff(s) ==
  \/ session[s].killed
  \/ session[s].ended
  \/ revoked[TokenOf(s)]
  \/ disabled[UserOf(s)]

\* No tunnel is admitted once the session is killed or ended, its token revoked
\* or its account disabled, even when all of session()'s reads came before; a
\* revocation counts from the first of its two statements.
NoAdmissionPastCutOff ==
  [][\A p \in proxies' \ proxies : ~CutOff(p.session)]_vars

\* A subdomain is only ever opened by its owner while it is reserved, and a
\* port only inside the window in force, whatever changed since the request.
OpenedOnlyByOwner ==
  [][\A p \in proxies' \ proxies :
       IF p.target \in Subdomain
       THEN reservation[p.target] \in {NoUser, UserOf(p.session)}
       ELSE p.target \in window]_vars

\* An admission never leaves a user with more tunnels than the limit in force,
\* also when two sessions of the user are admitted concurrently; a limit lowered
\* later does not close tunnels.
QuotaKept ==
  [][\A u \in User :
       Cardinality(ActiveOf(u)') > Cardinality(ActiveOf(u))
         => Cardinality(ActiveOf(u)') <= maxTunnels[u]]_vars

\* A tunnel's row goes away for one of three causes only: frps reported that
\* very tunnel closed, its session missed its heartbeats, or the same user
\* took the target over on another session.  In particular a late CloseProxy
\* of an old connection, or a refused takeover, never costs anyone a row.
NoRowLostWithoutCause ==
  [][\A p \in proxies \ proxies' :
       \/ p \in closing
       \/ Stale(p.session, 0)
       \/ \E q \in proxies' : /\ q.target = p.target
                              /\ q.session # p.session
                              /\ UserOf(q.session) = UserOf(p.session)]_vars

(* Liveness, under FairSpec.                                               *)

\* Revoking, disabling or killing takes effect at the next heartbeat: a
\* connection that stays cut off is eventually closed, also when the daemon
\* dies between the two statements of RevokeToken.
CutOffDisconnects ==
  \A s \in SessionId : <>[]CutOff(s) => <>[](s \notin live)

\* A session without a connection is eventually ended by the sweeper, also one
\* whose login answer was lost with the daemon.
GoneSessionsEnd ==
  \A s \in SessionId : <>[](Opened(s) /\ s \notin live) => <>[]session[s].ended

-----------------------------------------------------------------------------
(* What the comments and the README promise and the code does not keep;    *)
(* each is refuted by a run of its own.                                    *)

\* "ExpireStaleSessions closes sessions that stopped heartbeating, and any
\* proxies still attached to them": between sweeps no ended session keeps an
\* active row.
SweepIsWhole == ~sweep.on => \A p \in proxies : ~session[p.session].ended

\* "What is enforced on every tunnel: ... the user's concurrent-tunnel limit":
\* frps never carries more tunnels of a user than the limit in force.
ServedWithinLimit ==
  \A u \in User : Cardinality({p \in carried : UserOf(p.session) = u}) <= maxTunnels[u]

\* "... so the client's automatic reconnect cannot undo the kill": no session
\* is created on a token during its cooldown.
CooldownRefusesLogins ==
  [][\A s \in SessionId : ~Opened(s) /\ Opened(s)' => cooldown[TokenOf(s)'] = 0]_vars

-----------------------------------------------------------------------------
(* ControlPlane implements TargetLease.                                    *)

LeaseOf(x) ==
  IF Holders(x) = {} THEN [id |-> 0, user |-> NoUser]
  ELSE LET p == CHOOSE p \in Holders(x) : TRUE
       IN  [id |-> p.session, user |-> UserOf(p.session)]

\* Sessions that can never be admitted again.
Barred == {s \in SessionId : Opened(s) /\ (\/ session[s].killed
                                          \/ session[s].ended
                                          \/ revoked[TokenOf(s)])}

Lease == INSTANCE TargetLease
           WITH Id <- SessionId, None <- NoUser,
                lease <- [x \in Target |-> LeaseOf(x)], barred <- Barred

\* Seen per target, the control plane is a lease: it goes from one user to
\* another only by falling free, and never again to a barred session.
ImplementsLease == Lease!Spec
=============================================================================
