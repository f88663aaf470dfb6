# A verification model of ktunnel

ktunnel hands out subdomains and TCP ports on a relay. `frps` (the relay, not
part of this repository) asks `ktunneld` at every login, tunnel and heartbeat;
`ktunneld` decides from a SQLite database; `ktunnel` is the client, which runs
`frpc` as a library. This directory holds TLA+ modules of the parts where
several actors meet in state they share, the TLC configurations that check
small instances of them, and theorems that TLAPS proves for every size.

1. [The system](#1-the-system) - inventory of components
2. [The modules and how they map to the code](#2-the-modules)
3. [The runs](#3-the-runs) - what each shows, with which bounds
4. [Where code and comments disagree](#4-where-code-and-comments-disagree)
5. [The proofs](#5-the-proofs)
6. [What is only model-checked](#6-what-is-only-model-checked)
7. [What is not modelled](#7-what-is-not-modelled)
8. [Plan](#8-plan)
9. [Running it](#9-running-it)

`PROJECT.json` has the same information in tables: every definition with the
lines it models (`map`), every hazard with the properties that cover it, every
run, and for each property a plausible slip of the code that breaks it
(`mutants`). Operators whose comment begins with "A slip of" are those slips;
no specification uses them.

## 1. The system

### Store (`internal/store/store.go`)

*State*: SQLite tables users (disabled, max_tunnels, web password hash, version
and the flag for temporary passwords), tokens (revoked_at, kicked_until),
sessions (killed, ended_at, last_seen_at), proxies (ended_at, subdomain,
remote_port), reservations, settings. *Operations*: one method per statement or
small group of statements; only AdmitProxy and the two writers of the
administrator's web password are transactions.
*Used by*: the hooks and the portal in the daemon, and CLI processes on the
same file, so any two statements of different operations interleave.
*Hard*: operations of several statements without a transaction (RevokeToken,
KillSession, ExpireStaleSessions, SetServerInfo); decisions made from rows
that have changed since.
*Correct when*: a target has at most one holder; a user stays within the quota;
reservations and the port window bind; no admission after a cut-off; a row is
lost only for a cause; what is cut off or gone is cleaned up eventually; a
write to a credential only replaces what was verified.

### Plugin handler (`internal/plugin/handler.go`)

*State*: none of its own. *Operations*: Login, NewProxy, Ping, CloseProxy. Login
authenticates and creates a session whose id frps echoes in the later hooks;
NewProxy and Ping re-read session, token and user; NewProxy then runs
AdmitProxy. *Interaction*: called by frps, concurrently, one goroutine per
request; CloseProxy is a notification and may come late or not at all.
*Hard*: check then act over several reads; late notifications; errors that are
ignored on purpose (TouchSession, EndProxy).
*Correct when*: the decision at the commit uses current rows; a late CloseProxy
hits only the tunnel it is about.

### Daemon and CLI (`cmd/ktunneld/main.go`)

*State*: none beyond the store. *Operations*: `serve` starts hooks, portal and the
sweeper (every minute it ends what has not been seen for 120 s); the commands user,
token, reserve, release, kill, set-password and so on run as separate processes.
*Hard*: a crash or SIGKILL between two statements; commands that look something
up and then act on it (`kill <subdomain>`).
*Correct when*: sessions that vanished are ended eventually, and composite
commands act on what they looked up.

### Web portal (`internal/web/server.go`)

*State*: in memory under one mutex, the table of sessions and two tables of
failed logins; in the store, credentials with a version.
*Operations*: login, logout, `currentSession` behind `auth`/`adminOnly`/`userOnly`,
change of one's own password, the administrator's reset and disabling of users
and own password, plus the token, reservation and kill pages that
call the store. *Hard*: bcrypt runs for a long time outside the lock; a
session is looked up under the lock and compared with the database outside of
it; tables with limits; lockouts that run out while attempts go on.
*Correct when*: a changed credential cuts off every older session; concurrent
changes never overwrite an unverified password; tables are bounded; guesses are
bounded per window; nobody loses a session or a lockout to somebody else.

### Client tunnel supervision (`cmd/ktunnel/tunnel.go`, `main.go`, `names.go`, `relay_tls.go`)

*State*: the frpc service, whether the tunnel was announced, when it was last
seen running. *Operations*: start, watch every 300 ms, announce, give up 15 s
after the tunnel was last up, stop on a signal; once announced, a goroutine that makes
the update check. *Hard*: polls only sample what frpc shows; frpc
retries for ever; the process ends in the middle of its update check. *Correct when*: a tunnel that is
refused or lost ends the process, a signal always does, and what a dead process leaves behind is got past.

### Client updater (`cmd/ktunnel/update.go`)

*State*: the installed binary, its backup, the download, a lock file, the date of the
last passive check. *Operations*: check, download, verify, lock, replace by rename,
verify by running it, restore. *Hard*: a stale lock is broken by age, by several
processes; crashes between the renames; a rollback that fails; several clients checking at once.
*Correct when*: the path always holds a whole old or new binary; a binary that worked is not lost;
an update ends as it reports; one updater at a time, and one passive check per 24 hours.

### Client configuration (`cmd/ktunnel/config.go`)

*State*: the token file. *Operations*: load, save by temporary file, sync and
rename; loading derives the relay's address and TLS name from the token again.
*Hard*: crashes and losses of power between the steps, logins and logouts that overlap, a load
that looks at the path twice while it changes. *Correct when*: the file is whole at every moment; a login
that has reported success survives; a tunnel does not run on an older token, nor on a legacy one.

### Token format (`internal/store/token.go`)

Pure: encodes relay address, port, domain, TLS name and secret as a `kt2` string,
and decodes `kt2` and the older `kt1`.
*Hard*: the server information in a token is read from settings that
SetServerInfo writes one by one; the default of the TLS name is applied when issuing, and its presence demanded when
parsing. *Correct when*: the client accepts what is issued and only that, and a token never mixes two configurations.

### Relay certificate refresh (`server/reload-nginx-if-cert-changed.sh`)

*State*: the installed PEM (certificate and key in one file), its backup, the hash of
the last one, the container of frps. *Operations*: validate, compare, back up, install by rename,
recreate frps, check its health, roll back. *Hard*: a signal or a failure at each point, also
while rolling back, and several runs at once. *Correct when*: one run at a time is past the lock;
what is committed is what frps serves; the PEM committed last is never lost; a run that is
interrupted restores what it found; "unchanged" is only reported when it is so.

### Left aside

Install, fetch, build and packaging scripts (sequential, nothing shared), the HTML
templates, style sheet and JavaScript (presentation).

### How they interact

    ktunnel (frpc) --control connection--> frps --HTTP hooks--> plugin handler --+
                                                                                  |
    administrator --CLI process----------------------------------------------> store
    administrator, users --HTTP--> web portal (memory: sessions, failures) ------+
                                   sweeper goroutine ----------------------------+

## 2. The modules

| Module | Models | EXTENDS / composes |
| --- | --- | --- |
| `ControlPlane` | store, hooks, sweeper, administrator, frps as environment | - |
| `TargetLease` | abstract: what is promised of one subdomain or port | - |
| `ControlPlaneProofs` | safety theorems | `ControlPlane` |
| `ControlPlaneLease` | `ControlPlane` implements `TargetLease` | `ControlPlaneProofs` |
| `WebAuth` | sessions and passwords of the portal over the credentials of the store | - |
| `PortalAccess` | abstract: what the portal promises of its sessions | - |
| `WebAuthProofs` | safety theorems; `WebAuth` implements `PortalAccess` | `WebAuth` |
| `LoginThrottle` | the brake on password guessing | - |
| `LoginThrottleProofs` | safety theorems | `LoginThrottle` |
| `CertRefresh` | the script that refreshes the relay's certificate, with frps, ACME and the signals as environment | - |
| `CertRefreshProofs` | safety theorems | `CertRefresh` |
| `Updater` | `ktunnel update`: several runs on one installed binary | - |
| `UpdaterProofs` | safety theorems | `Updater` |
| `TunnelClient` | the watch loop of a tunnel, with frpc as environment | - |
| `PassiveCheck` | the daily update check and its lock | - |
| `Client` | the processes of one user: tunnels and commands, both of which check | composes `TunnelClient` and `PassiveCheck` |
| `ClientProofs` | safety theorems | `Client` |
| `TokenFormat` | pure: what is issued, what is accepted | - |
| `ClientConfig` | login, logout and loading of the configuration file | `TokenFormat` |
| `ClientConfigProofs` | safety theorems | `ClientConfig` |
| `MCControlPlane`, `MCWebAuth`, `MCLoginThrottle`, `MCCertRefresh`, `MCUpdater`, `MCClient`, `MCClientConfig` | instances for TLC | one each |

The families share no variable: the daemon's hooks and the portal meet only in the
user's `disabled` flag, which both ControlPlane and WebAuth have with all its writers; the script runs on another machine, and the
updater, the update check and the configuration use files of their own.

### ControlPlane

*Atomicity.* One action is one SQLite statement, or the `BEGIN IMMEDIATE`
transaction of AdmitProxy. A handler with several statements has a program
counter: `login[c]` for the Login hook of a client (revoked, `kicked_until`, user,
insert, answer) and `hook[s][k]` for the Ping and NewProxy hook of a session
(session row, token, user, touch, admit). A session has one hook of each kind in
flight: frpc sends heartbeats and NewProxy one after the other, but they may overlap
each other. The name of a session's tunnel is determined by its target, as
the client builds it.

*Tables.* `session`, `issued` and `proxies` are the rows (proxies: those with
ended_at NULL); `disabled`, `maxTunnels`, `reservation`, `window`, `revoked` and
`cooldown` are columns and settings. A session row exists once its id is at
most `issued`. The partial unique indexes of the schema are not modelled: under
the immediate transaction they can never fire, and leaving them out makes
`OneHolderPerTarget` a property of the transaction.

*The transaction.* `AdmitProxy(s)` is `Admissible` (session neither killed nor ended,
token not revoked, user enabled: `MayOpen`; reservation and window: `Permitted`;
other holders only of the same user and not this very session: `Vacant`; `WithinLimit`
counted after the takeover) followed by `Admitted`, which ends the old rows and
inserts the new one. Every refusal rolls back, and so does an error of the database, which the handler answers in the same
way: both are `DenyProxy`.

*Administrator.* `SetUserDisabled`, `SetUserMaxTunnels`, `Reserve`, `Release`, and
`RevokeToken`/`KillSession` with their second statements `RevokeSessions`/`KickToken`,
whether issued by the portal or the CLI.

*Sweeper.* `SweepProxies` and `SweepSessions` are the two UPDATEs. The cutoff
is computed before the first; `sweep.lag` counts the time passed since, so that the
second still uses the old cutoff.

*Time.* A row holds its idle time instead of `last_seen_at` and a token what is left
of its cooldown, so time needs no bound. Idle times above `IdleCap` are equal: they are
stale to any sweep. `StaleAfter = 0` means one tick is longer than the 120 s of
`sessionStaleAfter`.

*frps* is external and modelled from what the hooks depend on: connections
(`live`), tunnels carried (`carried`), notifications under way (`closing`).
A connection may drop at any time (`Disconnect`); frps refuses
a name or target it still carries (`Register`), and closes a connection whose
Ping was refused (`Refuse`).

*Crash.* `Restart` loses every request in flight and the sweeper's position. Any
subset of the half-done administrator operations survives (those of
CLI processes) and any subset of the CloseProxy notifications. `serve` may install another port
window.

### TargetLease

Per target a lease (session and user) and a set of barred sessions. `Grant` of a free
target, `TakeOver` to another session of the same user, `Expire`, `Bar`. `ControlPlane`
implements it with `lease` computed from the proxy rows and `barred` being the sessions
that are killed, ended or of a revoked token. (Disabling can be undone, so it
bars nobody.)

### WebAuth

*Login* (`Attempt`, `Confirm`, `Insert`): read the credential and start bcrypt; read
it again after; then under the lock expire, evict the principal's oldest, test the
capacity, insert. What a login inserts is the version that it read.

*Request* (`Arrive`, `Lookup`, `Current`, then the handler): `currentSession`
looks up under the lock and then compares with the store
(`sessionCredentialCurrent` is `Usable`); handlers behind `auth` plus `userOnly`
run it more than once, which is `round`. The handlers are `Verify`+`Commit`
(accountPassword, settingsPassword: bcrypt of the old password, then a
compare-and-set on the version), `Reset`, `Switch` (enable, disable), `Logout`; those
that write then call `Invalidate`.

*A database that does not answer*: whatever currentSession cannot read counts as out of date, so the session is deleted
(`CurrentUnread`); createSession inserts nothing (`ConfirmUnread`); userSetDisabled invalidates the user's sessions although nothing has changed
(`SwitchUnwritten`, "unchanged"), the other handlers that write end (`Unwritten`).

*CLI* (`CliAdminPassword`, `CliSwitch`): in another process, so nothing is invalidated.

Sessions are numbered by creation and all live equally long, so they expire in that order:
those up to `lapsed`. A password stands for its hash. `Restart` empties
the memory. `since` is a history field: the version when the request
arrived.

### PortalAccess

The sessions of the portal as if every check were one step: `Grant`, `Allow` a request to act for a session in force,
`Change` a credential, which ends all sessions of its principal at that moment, and `Act`, a change that a request makes for
its own principal or as the administrator. A session that is out of force never comes back. `WebAuth` implements it with `live` computed as
the sessions of the table that have not expired and agree with the store (`InForce`), although a lookup and its comparison are two steps,
logins insert late, and nothing is removed when the CLI changes a password. A request is `allowed` from the lookup that finds its session
in force; if that ends before the comparison, the right wanes.

### LoginThrottle

`fails` and `ipFails` are the two tables of buckets. `Begin` is allowLoginAttempt for an
address and then for address and name, each pruning first and charging on success;
`Fail` and `Succeed` end the comparison; `Succeed` deletes the bucket of address
and name. A bucket holds what is left of its lockout and how long ago it was used,
instead of two times. An address has `AddressLimit` (20 in the code) whatever the names, an address and a name `NameLimit` (5). `window`, `ofKey` and `ofAddress` are history: what is left of a window of time as long as a lockout, and the
attempts let through in it. At every tick another window may begin, so every window is counted in some behaviour. A restart is `Init` again and left out.
`Lockout <= Retention` (60 s and 5 min in the code) is an assumption and matters:
with a shorter retention a locked-out bucket could be forgotten early.

### CertRefresh

A run of the script is a row with a program counter and the shell's variables (`installed`,
`committed`, `rolling` for rolling_back, `before` for had_previous, `backup` for backup_pem). Commands that only read and
validate are one step, `Stage`, with what they decide; every command that changes a file, frps or a
flag is a step of its own, and under `set -e` every command may fail (the second disjunct of an action). A
signal (`Signal`) may come between any two steps and leads into the exit trap, where signals are ignored
once `Trap` has set `masked`; a signal before that, when the EXIT trap is already removed, ends the run
on the spot. `Kill` is SIGKILL, allowed when `Killable`.

rollback_install is only called where `set -e` is off. Its `mv` is tested, its `rm` is not: when a first install is rolled back and the `rm` fails, the
script still sets `installed=0` and goes on. `Remove` has both outcomes, and `stays` (history) says that the PEM was left.

The lock is the kernel's, on an *inode*: `Open` opens what the path stands for or creates it, `Flock`
succeeds when no other run holds that inode. So the model can tell a lock file that is unlinked from one that is not.
Certificates are numbered in the order of renewal and a hash is the number. `serving` is what frps has loaded;
`Relay` is frps going down or restarting by itself. Whether a health check succeeds is open, except that frps must be up.
`good` is history, and so is `cut`: a signal has broken off a rollback that had not yet put the backup back. The temporary PEM is not modelled: nothing but its owner reads it before the rename.

### Updater

A run goes from `Launch` (its version is that of the binary it was started from) over `Fetch` and the lock to `install`. A file is the
release it is the whole binary of, or `Torn`: a download is torn or not, and
only `Checksum` tells. `Preflight` may accept a torn file (it may print anything); `Verify` refuses another release.

*Releases* are triples of numbers, what parseStableSemver accepts, and `Newer` is the loop of newerVersion. A run compares the version
compiled into it with whatever GitHub names as the latest; `Publish` may name any other release, also an older one (a release can be
withdrawn). The reference order `Precedes` of the property `GoesForward` is written apart from it.

*The lock file* is none, fresh or stale. acquireExplicitUpdateLock compares the file's time with a clock reading
taken before its loop: `stale` is the set of runs by whose reading the present file is
more than ten minutes old; a file created after the reading is not, so creation and
removal empty the set. `Break` removes whichever file is at the path by then, as `os.Remove` does, and `ReleaseLock` too. `Ages` is not tied
to the run's two-minute context: a suspended process lives longer than that.

`left` holds backups that stay behind, by a kill, a failed removal or a failed rollback. `found`, `good` and
`stolen` are history; `stolen` says that a lock file has been broken while somebody was at work.

### TunnelClient, PassiveCheck, Client

`watch[p]` is Run's program counter with its local variables; "closing" is `cancel()` done and `<-runErr` awaited.
`frpc[p]` is what the library shows: logging in, waiting for the answer to NewProxy, refused (StartErr), running,
lost, or returned. A poll that finds the proxy in a phase that none of the three cases of the `switch` mentions changes nothing and
is no action. `LostAfter` is in ticks, and a tick is much longer than the 300 ms of the ticker.

claimPassiveCheck is one action per call on the lock file or the stamp. The second attempt to create the lock, after a
stale one was removed, has a program counter of its own ("relock"), as it does not look at the file again.
`RemoveLock` and `Unlock` take whichever file is there. `stamp` is the age of the time in
the stamp file, or `CheckTTL` when it is that old, missing or unreadable. What the stamp guards, the request to GitHub, reads
nothing that other processes write.

`Client` composes them: `Announce` begins a check in a goroutine, and every end of a process (`Finish`, `Kill`,
`KillCommand`) ends its check wherever it is, which may leave the lock. `mishaps` counts checks that were cut short or failed,
a bound that `ChecksGoOn` needs: if every check fails, none succeeds.

### TokenFormat, ClientConfig

A token is its version, its server part and whether a secret of 32 bytes decodes from it. Names are model values
that are in `Clean` or not, in `TLSName` or not, or `Empty`; so TrimSpace, base64 and JSON are not modelled, and what a
relay can have issued is a set, `{NewToken(i) : Issuable(i)}`.

`Save` is four actions: `Login` makes the directory if there is none (`home`: none, made, or kept, that is certain to be there after a loss
of power), up to `SyncTemp` only the process's own temporary file changes, `Rename` makes it the configuration,
`SyncDir` makes that durable, and login reports success. `LoadConfig` looks at the path twice (`Lstat`, `Open`)
and compares the inodes; an inode that has been freed may be used again, so `SameFile` may be wrong for a file that came two
replacements later. All that counts of the content is the token, from which everything else is derived again.

`disk` is the set of files that the path may name after a loss of power: all since the last sync of the directory. A file that
was not synced may come back `Torn`. `End` covers kills and the error of any call; after the rename it leaves the new
file in place. `settled` is history: the number of the last replacement that a login reported as done; so is `gone`, the number of the last
replacement when a directory that was only "made" was lost, with everything in it.

## 3. The runs

| Run | Question | Bounds |
| --- | --- | --- |
| `control_contention` | Is a target ever held twice, or passed to another user without falling free? Does the policy at the commit decide (reservation, port window, quota)? Is a row lost without cause? | 2 users with a client each, one of which wants a subdomain and a port, any reservation and either port window to begin with, 2 sessions, two requests in flight, 1 change of policy, no time |
| `control_cutoff` | Is anything admitted past kill, revoke or disable? Does a sweep take a row without cause? Are cut-off connections closed and gone sessions ended? | 1 session with Ping and NewProxy in flight, 3 operations, lag of one tick, 1 crash, fairness |
| `control_sweep_split`, `control_kick_race`, `control_takeover` | refuted, see section 4 | 1 to 3 sessions |
| `web_credentials` | Does a changed credential cut off and resist overwriting? Are table limits kept and evictions fair? Does the portal implement `PortalAccess`? | administrator and two users, one login and two requests in flight, three sessions ever, one at a time for each principal, table of 2, 2 changes of one of the credentials |
| `throttle` | Are guesses bounded per window and lockouts exact? | 3 addresses, 2 names, 2 in flight, limits 2 and 3, lockout of 3 ticks, tables of 2 |
| `cert_refresh` | Is the PEM safe from failures, signals, kills and other runs, and when is a failed one put back? | 3 runs, 3 certificates, kills allowed |
| `cert_restore` | refuted, see section 4 | 1 run, 2 certificates, no kills |
| `updater` | Is the binary safe from failures, kills and other updates, what does the lock exclude, and when does the path go back to an older release? | 2 runs, 3 releases, the latest of which may change to any |
| `client` | Does a tunnel that is refused, lost or interrupted end? Is the update checked once per interval, and again after a process died with the lock? | 1 tunnel and 1 command, an interval of 2 ticks, locks stale after 1, 2 checks cut short, fairness |
| `client_config` | Is the file whole and durable, and do tunnels run on a fresh token that a relay issued? | 3 processes, 4 tokens (one legacy, one malformed), 3 replacements or removals, any number of losses of power |

Why these bounds are enough to be interesting:

* Holding a target twice takes two sessions, and so does passing it on, within a user or through being free. Every handler
  has a step between its reads and its commit, so two requests in flight already give
  every order of two check-then-act sequences; the third actor is the administrator, the
  sweeper or the clock.
* A quota of 1 and of 2 with two targets gives the last unit, the takeover within a full quota and the
  lowered limit.
* A cut-off needs at most the two statements of revoke or kill and a change that
  undoes it (disable, enable), which is three operations.
* A row can be lost to a late CloseProxy of an earlier session or to a takeover, for which two sessions are
  needed (`control_contention`), or to the sweeper, for which one is (`control_cutoff`).
* Each sweep uses a cutoff of its own; with lag 1 time passes between its statements,
  which is what lets a session go stale or be touched there.
* For credentials, two changes are what a compare-and-set can be wrong about (the value read, the
  value written between); a restart is there because it drops sessions and logins at any
  point.
* One session at a time for each principal makes every further login evict one; which of several is the oldest is not a question
  in the run, only in the theorems `TableBounded` and `SessionsLostWithCause`.
* Three runs of the script are one that holds the lock, one that has opened the file and one that comes later, and three
  certificates one that is served, one that fails and one that comes in between; a slot is used again after a run has ended, so
  histories are not bounded by the number of slots.
* Two updaters and a slot that is used again after a kill already give the dead owner of a stale lock and two
  runs that find it; three releases give the one found, one to install and a newer one. They differ in each of
  the three numbers, and every newer one is smaller in a number that must not count.
* Three entries compete for tables of two, so the full table occurs; with a lockout of three ticks
  a window begins in the middle of a lockout.
* One tunnel and one command already race for the lock of the update check, in either order, and either may die with it;
  a process starts again after it has ended, so a third check meets what two have left. frpc may go through its phases any number of times.
* Three processes are two logins that overlap and a tunnel that loads, or a login, a logout and a tunnel; three replacements are
  the file that is read first, the one that takes its place, and one whose inode may be the first one's.

The state constraints are in the MC modules: `TwoInFlight`, `ShortRun`
(no idle time and no sweep), `PolicyOnly`, `BobsLimitFixed`, `OneByOne` (for `control_takeover`: nothing overlaps, which makes the refutation
stronger), and `OneCause`, `TwoOverlap` (requests see two sessions, and while two overlap nobody logs in), `BobStays` for `web_credentials`. `control_cutoff` and `client`, which
check liveness, have none, and no symmetry. Constants named as bounds
(`MaxSessions`, `MaxLag`, `MaxActs`, `MaxCrashes`, `MaxVersion`, `MaxCert`, `MaxMishaps`, `MaxWrites`) are in guards.
Between them the runs fire every action. Symmetry is used only over interchangeable slots, addresses and names,
in runs without liveness properties. Deadlock is checked except in `web_credentials` and `client_config`,
where a bounded number of sessions, versions or replacements uses itself up. No run checks a `TypeOK`: every one is proved
for every instance (section 5).

### Fairness

`ControlPlane!Fairness` is weak fairness of exactly what runs by itself: a
handler that has started answers (each step is enabled until taken), a live client that
heartbeats sends its Ping, the second statement of RevokeToken and KillSession is reached unless
the process dies, the sweeper's ticker fires, the clock advances. Nothing is assumed of users,
administrators, dropping connections or crashes. No strong fairness is used.
Liveness needs `MaxLag >= 1`: with no time allowed between the sweeper's
statements the model's clock would stand still while a sweep is under way.

* `CutOffDisconnects`: what stays cut off is disconnected, by the next
  heartbeat, whichever of the three flags is set.
* `GoneSessionsEnd`: a session without a connection is ended, also when its login
  answer was lost with the daemon.

`Client!Fairness` is weak fairness of time, of the polls, of the return of svc.Run once its context is cancelled, of the end of
a process whose Run has returned, and of the calls of a check that has begun. `Refuse` is strongly fair: frpc
shows a refusal for much longer than the ticker's 300 ms before it asks again, so a refusal that is
shown again and again is seen. Nothing is assumed of the relay, the network, users or signals.

* `ComesBackOrEnds`: a tunnel that was announced runs again or the process ends. frpc's retries do not count as a sign of life.
* `RefusalEnds`: whoever is refused again and again ends.
* `SignalEnds`: a signal ends the process, in whatever phase frpc and the check are.
* `ChecksGoOn`: if processes keep asking, the stamp keeps being renewed, also when one has died with the lock.

The other modules are checked for safety only: what they promise eventually needs a user's next step,
cron, or commands that end, which are bounded by timeouts in the code and have no waiting among themselves.

## 4. Where code and comments disagree

| Run | Says | Does |
| --- | --- | --- |
| `control_sweep_split` | `store.go:800`: ExpireStaleSessions closes stale sessions "and any proxies still attached to them" | An admission between the two UPDATEs leaves an active row on an ended session; the first UPDATE only looks at sessions that have not ended, so no later sweep closes it. It holds the target and a unit of the quota until its CloseProxy comes. |
| `control_kick_race` | `store.go:757`: the cooldown is so that "the client's automatic reconnect cannot undo the kill" | A reconnect that has read `kicked_until` before the kill creates its session after it. |
| `control_takeover` | `README.en.md:153`: "What is enforced on every tunnel: ... the user's concurrent-tunnel limit" | A takeover ends the row of the old session but not its tunnel. If the old client is alive, frps goes on serving it and refuses the newcomer; when that one leaves, no row is left of the tunnel that is served, and another one is admitted: two tunnels under a limit of one. |
| `cert_restore` | `server/README.md:57`: the script "automatically restores the previous PEM unless an authenticated TLS health check succeeds" | After a failed health check rollback_install sets `rolling_back=1` before it moves the backup back. A signal between the two leads into the exit trap, whose rollback_install returns at once because the flag is set: the PEM that failed stays installed and the previous one stays in its backup file. |

In `control_sweep_split` the process must have stopped for longer than the stale limit between the
checks of NewProxy and the commit, or TouchSession failed (its error is ignored). A heartbeat between
the two UPDATEs, which keeps a session whose rows are gone, is another way to a tunnel nobody sees or counts. Both would be gone
with one transaction around the two UPDATEs, `control_kick_race` with the `kicked_until` test inside the INSERT of
CreateSession. Admission itself is not affected: `OneHolderPerTarget` and
`NoAdmissionPastCutOff` are proved, and so is `QuotaKept`, which is about rows.

`control_takeover` needs no overlap of any two requests, no crash and no change of policy: the laptop serves `www`; the
desktop of the same user asks for it, which ends the laptop's row, and is refused by frps; the desktop leaves
and the sweeper ends its row; the tablet opens a port. It would be gone if a takeover were followed by closing the old
session's connection (marking it killed, which the next heartbeat sees, would bound it to 30 s).

In `cert_restore` kills are excluded, since no script can restore after one, and so is a rollback that says it
failed. There is a second way: a signal between `trap - EXIT` and the masking of
signals in on_exit (`Signal` at "exiting"). What does hold is `RestoredUnlessCutOff`, checked with three runs, kills and signals, and proved:
a run that installed and whose trap ran to its end has committed, restored, or said that it could not, unless a signal broke off its rollback
before the backup was back, or it was a first install whose PEM could not be removed (`reload-nginx-if-cert-changed.sh:91`: the `rm` is not tested, so the
script takes the rollback for done and says nothing more). Masking the signals where rollback_install begins would close the first, doing so before
`trap - EXIT` the second; `rm` may be tested as `mv` is.

One disagreement has no run of its own. `server/README.md:309` says "Five failed logins from one address lock it out for a minute". In
the code five (`maxLoginFails`, `server.go:41`) is the limit of an address *and a name*; an address is locked after twenty attempts
(`maxIPLoginAttempts`, `server.go:42` and 584-587), so that one which changes the name goes on after five. `AttemptsBounded` states the two limits that
the code has. With `NameLimit` in the place of `AddressLimit`, which is what the sentence says, TLC refutes it within five states; the sentence, or the limit, should be changed.

Two behaviours of `Updater` contradict nothing the repository says and are not findings, but a reader should know them. When two runs
find the same stale lock, the slower one removes the file the faster has just created (`Break` sets `stolen`), both are at
work, and nothing but `InstalledWhole` is promised from then on. And since what is newer is decided before the lock is taken, an update that waits
may install an older release over a newer one. `GoesForward` says that, a rollback apart, this is the only way back: the run that renames was started
from another release than the one it replaces.

Nor do the following, which the client modules do not call wrong:

* Two processes that find the same stale lock of the update check may both remove it, the slower one the new lock of the
  faster: both check, within the interval. That is where `stolen` is set; the comment at `update.go:627` says "Only locks older than a minute are eligible",
  which the age test ensures for the file that was looked at.
* A tunnel whose connection is lost after the login but before the tunnel was first announced is not given up:
  lostAfter only counts from the first announcement. `ComesBackOrEnds` therefore begins with `announced`.
* The first login of a user makes the directory of the configuration (`config.go:160`), whose own name nothing makes durable: a loss of power
  may take it and the login that was reported. Nothing in the repository promises more. `LoginSurvives` says that this is the only way to lose one, and that no
  older token comes back by it.
* A logout is not followed by a sync of the directory: after a loss of power the token may be back.
* A login that is killed before the rename leaves its temporary file, with the token in it, in the directory.
* A login with a `kt1` token succeeds, with a warning, and replaces a working `kt2` configuration. `GoesToIssuer` says that no
  tunnel runs on it.

## 5. The proofs

All theorems are `Spec => ...` for every value of the constants under the named
assumptions of the modules (`NamesAssumption`, `OwnershipAssumption`, `BoundsAssumption`;
`PrincipalAssumption`, `LimitAssumption` of WebAuth and of LoginThrottle; `CertRefreshAssumption`; `UpdaterAssumption`; `LostAssumption`,
`CheckAssumption`, `ClientAssumption`; `NameAssumption`, `ConfigAssumption`), which TLC evaluates in the runs.

**ControlPlaneProofs.**
`TypeCorrect` ([]TypeOK); `OneHolder`; `CutOffIsFinal`, `OwnersOnly`,
`RowsLostWithCause`, `WithinQuota` (the action properties). The inductive invariant is

    TypeOK /\ SessionsExist /\ OneHolderPerTarget

`SessionsExist` says that rows, connections and requests in flight only name
sessions that exist. It is needed because a token and user are those of the session's
row: if a row named an id that is not yet in use, CreateSession would change whom it
belongs to. One step of the proof per action; only five actions touch `proxies`.
For `WithinQuota` the counts are shown to be of finite sets, and the users of rows to
be stable.

**ControlPlaneLease.** `LeaseRefinement`: Spec => Lease!Spec. A step that admits is
a Grant or a TakeOver of one target, a step that ends rows is an Expire, a step that kills,
revokes or ends is a Bar, every other is a stutter. `OneHolderPerTarget` makes the CHOOSE in `LeaseOf` unique.

**WebAuthProofs.**
`TypeCorrect`, `CurrentSessionsAgree`, `OldSessionsPowerless`, `ResetWins`, `TemporaryReplaced`,
`TableBounded`, `SessionsLostWithCause`, `AccessRefinement`. Three strengthenings:

* *Agreement*: whatever was read of a credential under the current version still
  agrees with it, for rows *and for logins in flight*. The version covers every
  change of a credential (lemma `VersionCovers`), which is why the insert may come late.
* *RequestsProven*: a request past its lookup names a session whose
  version is at least what the credential's was on arrival, and one that is about
  to commit has proved the hash of the version it will compare. The compare-and-set
  then only succeeds while the hash is the one proved.
* *The tables*: an insertion evicts before it adds, and what is evicted is the
  principal's oldest (lemma `OldestExists`), after which there is room (lemma `RoomMade`); so a
  login never evicts and then fails.

`AccessRefinement` (Spec => ImplementsAccess) rests on all of these (`AccessInv`) and on `RequestsEntitled`: a request that has come to an
administrator's handler, or to the commit of another's credential, has the administrator's session. `NeverBack` says that no step brings a session
back into force: its version is at most its owner's, versions only grow, and a change of a credential that leaves the version alone does not exist. One lemma
per abstract action, and `RequestEbbs` for the steps that only take rights away.

**LoginThrottleProofs.** `TypeCorrect`, `TablesStayBounded`, `LockoutsRunOut`, `AttemptsStayBounded`. The
strengthening `Tables` adds that only a full bucket is locked: a bucket that is not full is therefore open, and charging it
never shortens a lockout. `AttemptsStayBounded` needs two more facts: what is left of a lockout and the time since
the last charge add up to `Lockout` (`Lasts`), so a full bucket that was charged in the window is locked until after the window; and a bucket that was charged in the window
is still in its table and counts at least as much as the window (`Windows`), since it is pruned only when idle for longer than `Retention`, which is where
`Lockout <= Retention` is used. Each operation on a table (prune, charge, age) has one lemma about
the table and one about the window, both over any table, and is used for names and for addresses.

**CertRefreshProofs.** `TypeCorrect`, `OnlyOne`, `GoodKept`, `ServedWhenCommitted`,
`UnchangedReportsTrue`, `RestoredOrSaid`. The strengthening has four parts:

* *LockKept*: whoever has opened the lock file has opened the one inode it ever is, which is
  why flock excludes; with it every other part may speak of the one run past the lock.
* *Phases*: per program counter, which flags are set, that the backup is what was found, and that what
  is installed is the run's own certificate.
* *GoodSurvives*: the PEM committed last is what the run would restore, or in a backup already.
* *HashIsRight*: whenever the state file names the source, the source is installed and frps has loaded nothing else. A run that finds it
  otherwise than it recorded can only reinstall the same certificate, and a run that is killed between install and commit has not touched the state file.

`RestoredOrSaid` adds an invariant relative to that one (`RollbacksEnd`): from its flag on, a rollback has put back what the run found, or is at one of the steps that still do, or has
said why not, or was cut off, or could not remove the PEM of a first install; and the trap has nothing to clean up of a run that has neither committed nor rolled back.

**UpdaterProofs.** `TypeCorrect`, `AlwaysWhole`, `OneAtWork`, `GoodKept`, `ReportsTrue`, `NewerIsPrecedence`, `NewerIsOrder`, `ForwardOnly`. `RunsWhole` needs no
exclusion: what is renamed to the path has passed the checksum, and a backup is a copy of something whole. The others hold while
`stolen` is false: `LockHeld` (who is at work has a lock file) gives exclusion, since
a file is only created when there is none; `RunsAlone` then says what is at the path in each phase, and `GoodKnown` where
the binary is that last worked. The loop of newerVersion is shown to be the order of major, minor and patch, and that to be a strict total order, for all numbers.
`ForwardOnly` puts it together: whoever is past the lock decided for a release newer than its own (`AllDecided`, an invariant relative to the others), what it
renames to the path is that release, and what it replaces is what it found.

**ClientProofs.** `TypeCorrect`, `NeverTwoInside`, `ClaimsKeptApart`. Until a lock is stolen, `LockHeld` says that a process past
the lock has a lock file behind it (the file may also be there without one: a process died), and since it is only created
when there is none, one process at most is inside. `StillDue` says that what was found due is due until it is written; nobody else could
have written in between. The tunnels only matter as the processes that begin and cut short a check.

**ClientConfigProofs.** `TypeCorrect`, `AlwaysWhole`, `LoginsSurvive`, `TokensFresh`, `IssuedOnly`, `IssuedTokensRun`. The invariant says
of every row of `work` what its number means (`RowOK`): a login past its rename has a number that is not above the path's, a load has one
that is at least what was settled when it began. `disk` contains the path, everything in it is synced, and nothing in it is older than what is
settled (`Recent`), since a sync of the directory leaves only the path's file, which is not older than the file of the process that syncs. A loss of
the directory leaves no file; whatever is settled by then is not above `gone`, and the next rename is.
`IssuedTokensRun` and `IssuedOnly` are the two directions of what encodeV2 and ParseToken agree on.

## 6. What is only model-checked

* `CutOffDisconnects`, `GoneSessionsEnd`, `ComesBackOrEnds`, `RefusalEnds`, `SignalEnds`, `ChecksGoOn`: liveness under fairness is out of
  the prover's reach.
* The four refuted properties, for which TLC's counterexample is the evidence.

## 7. What is not modelled

* In ControlPlane: the JSON shape checks of the hooks (requests are those that ktunnel's frpc sends);
  the ignored read error of `kicked_until`; helpers nothing calls in production (AddProxy,
  EndSession, SubdomainInUse, ActiveProxyHolder, EndProxiesForSubdomain); listing.
* In WebAuth: CSRF tokens, the origin check, cookies and headers; the audit log; pages that
  only read. Token, reservation and kill pages reach the store through statements that
  ControlPlane has. A login with a wrong password goes no further than the guard
  of `Attempt`; LoginThrottle has what it costs.
* In CertRefresh: a loss of power (the script syncs neither the PEM nor its backup, so nothing could be said of them after one); what makes a certificate valid, permissions, the temporary files, commands that hang
  (each has a timeout), a source certificate that goes back to an older one.
* In Updater: Windows and uv installs, which return before they change anything; the network; power loss after a rename that
  has not reached the disk; how version strings are spelled (what is not three plain numbers is refused before anything else); temporary downloads of killed runs, which nothing reads.
* In LoginThrottle: that names are lower-cased and addresses derived from headers;
  a key is what comes out.
* In Client: terminals, CI and the environment variables that switch the check off (then `Announce` begins none); clocks that jump; the
  request to GitHub; the shape of names and the trust anchor file.
* In ClientConfig: permissions and symbolic links (an error of a call, which is `End`); files edited by hand; Windows, where
  syncConfigDir does nothing, and file systems that refuse to sync a directory, which it takes for done (`config.go:232`): on these `LoginSurvives` is not claimed; `ktunnel status`, which loads like a tunnel and prints.
* In TokenFormat: bytes (base64, JSON, white space), the hash of a token.
* Whole components: see the plan; scripts and templates, see section 1.

## 8. Plan

In the order in which they matter. Each module comes with an MC module, its
runs and its mutants; those marked P get theorems.

1. `TokenIssue` (P): SetServerInfo's three settings, written in any order, against the three
   reads of ServerInfo when a token is issued, over `TokenFormat`.
2. The composite commands of the CLI (`kill <subdomain>`) as an extension of
   `ControlPlane`; users created with a password in two calls.

Then the theorems: an abstract `Mutex` that `CertRefresh` implements, and `Updater` and `Client` until a lock is stolen.
To keep the whole check short, new runs should replace rather than join old ones, or take the place of a refuted property, which can
move into the text of section 4.

## 9. Running it

    tlc -workers 2 -config control_contention.cfg MCControlPlane.tla
    tlapm ControlPlaneProofs.tla

The name of a `.cfg` starts with the family it belongs to (`control_`, `web_`, `throttle`, `cert_`, `updater`, `client`, `client_config`);
`PROJECT.json` names its module. The longest run takes about three minutes.
