--------------------------- MODULE MCControlPlane ---------------------------
(***************************************************************************)
(* Instances of ControlPlane for TLC.  alice runs up to three clients on   *)
(* one token, bob one on his own.                                          *)
(***************************************************************************)
EXTENDS ControlPlane

CONSTANTS alice, bob, aliceToken, bobToken, laptop, desktop, tablet, bobs, www, p20000

OwnerByToken    == [t \in Token |-> IF t = bobToken THEN bob ELSE alice]
TokenByClient   == [c \in Client |-> IF c = bobs THEN bobToken ELSE aliceToken]

\* Everybody wants the same subdomain, or the same port.
AllWantPort     == [c \in Client |-> {p20000}]
AllWantWww      == [c \in Client |-> {www}]
\* The laptop also opens a port.
LaptopWantsBoth == [c \in Client |-> IF c = laptop THEN {www, p20000} ELSE {www}]
\* One tunnel per client: the tablet opens the port.
TabletWantsPort == [c \in Client |-> IF c = tablet THEN {p20000} ELSE {www}]

AnyWindow  == {{}, {p20000}}
OpenWindow == {{p20000}}
NoWindow   == {{}}

(* Bounds of the safety runs, as state constraints.                        *)

InFlight ==
  Cardinality({c \in Client : login[c].pc # "idle"})
    + Cardinality({<<s, k>> \in SessionId \X Op : hook[s][k] # "idle"})

\* At most two requests are in the daemon at a time.
TwoInFlight == InFlight <= 2

\* Nobody goes without a heartbeat for long, so a sweep finds nothing.
ShortRun == ~sweep.on /\ \A s \in SessionId : session[s].idle = 0

\* Nothing overlaps, and who is connected is heard in time: no sweep ends its session.
OneByOne == /\ InFlight + (IF sweep.on THEN 1 ELSE 0) <= 1
            /\ \A s \in live : session[s].idle <= StaleAfter
            /\ \A s \in SessionId \ live : hook[s]["NewProxy"] = "idle"

\* The administrator only changes policy: limits, reservations, the window.
PolicyOnly == /\ \A u \in User : ~disabled[u]
              /\ \A t \in Token : ~revoked[t]
              /\ \A s \in SessionId : ~session[s].killed

\* bob has his one client only: his limit does not matter.
BobsLimitFixed == maxTunnels[bob] = 2
=============================================================================
