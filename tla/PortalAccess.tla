---------------------------- MODULE PortalAccess ----------------------------
(***************************************************************************)
(* What the web portal promises of its sessions, as if every check were    *)
(* one step: a change of a credential ends all sessions of its principal   *)
(* at that moment, a session that has ended never comes back, and what a   *)
(* request changes it may change since a moment at which its session was   *)
(* in force: its own principal's credential, or, for the administrator,    *)
(* anybody's.                                                              *)
(***************************************************************************)
EXTENDS Naturals

CONSTANTS Principal, Admin, Session, Request

VARIABLES
  era,      \* per principal, the number of changes of its credential
  open,     \* the principals who can log in
  past,     \* the sessions there have ever been
  owner,    \* whose they are
  live,     \* those in force
  allowed,  \* per request, the session it has been found to act for
  done      \* per request, the principal whose credential it has changed

vars == <<era, open, past, owner, live, allowed, done>>

Init ==
  /\ era = [p \in Principal |-> 0]
  /\ open \in SUBSET Principal
  /\ past = {}
  /\ owner \in [Session -> Principal]
  /\ live = {}
  /\ allowed = [r \in Request |-> {}]
  /\ done = [r \in Request |-> {}]

\* Requests may be turned away, and end, at any time.
Fewer(f, g) == \A r \in Request : f[r] \subseteq g[r]

\* A new session, in force if its owner can log in; others may give way to it.
Grant(s, p) ==
  /\ s \notin past /\ past' = past \cup {s}
  /\ owner' = [owner EXCEPT ![s] = p]
  /\ live' \subseteq live \cup {s}
  /\ s \in live' => p \in open
  /\ UNCHANGED <<era, open, allowed, done>>

\* A request is found to act for a session in force.
Allow(r, s) ==
  /\ s \in live
  /\ allowed' = [allowed EXCEPT ![r] = {s}]
  /\ UNCHANGED <<era, open, past, owner, live, done>>

\* The credential of p changes, and p's sessions end.
Change(p) ==
  /\ era' = [era EXCEPT ![p] = @ + 1]
  /\ open' \in {open \cup {p}, open \ {p}}
  /\ live' \subseteq {s \in live : owner[s] # p}
  /\ UNCHANGED <<past, owner>>

\* By a request.
Act(r, p) ==
  /\ \E s \in allowed[r] : owner[s] \in {p, Admin}
  /\ Change(p)
  /\ Fewer(allowed', [allowed EXCEPT ![r] = {}])
  /\ done' = [done EXCEPT ![r] = {p}]

\* By the operator of the relay.
Operate(p) ==
  /\ Change(p)
  /\ Fewer(allowed', allowed)
  /\ UNCHANGED done

\* Sessions and requests end.
Wane ==
  /\ live' \subseteq live
  /\ Fewer(allowed', allowed) /\ Fewer(done', done)
  /\ UNCHANGED <<era, open, past, owner>>

Next ==
  \/ Wane
  \/ \E s \in Session, p \in Principal : Grant(s, p)
  \/ \E r \in Request : \/ \E s \in Session : Allow(r, s)
                        \/ \E p \in Principal : Act(r, p)
  \/ \E p \in Principal : Operate(p)

Spec == Init /\ [][Next]_vars
=============================================================================
