---------------------------- MODULE TunnelClient ----------------------------
(***************************************************************************)
(* The watch loop of ktunnel http and ktunnel tcp (cmd/ktunnel/tunnel.go   *)
(* and cmdTunnel in main.go), against frpc, the library it embeds.         *)
(*                                                                         *)
(* frpc is external and modelled from how Run uses it: svc.Run returns     *)
(* when its context is cancelled or its first login fails (LoginFailExit), *)
(* and reconnects for ever otherwise; GetProxyStatus tells the phase of    *)
(* the one proxy.  Module Client composes these actions with PassiveCheck. *)
(***************************************************************************)
EXTENDS Naturals

CONSTANTS
  Tunnels,    \* slots for processes that run ktunnel http or tcp
  LostAfter   \* lostAfter, in ticks

ASSUME LostAssumption == LostAfter \in Nat

VARIABLES
  watch,      \* Run: where it is, and its local variables
  frpc        \* the embedded frpc of each process

tunnels == <<watch, frpc>>

\* "closing" is cancel() done and <-runErr awaited.  "unseen" is announced and
\* lastRunning: the ticks since a poll saw the tunnel running.
Watch == [pc : {"off", "poll", "closing"}, announced : BOOLEAN,
          unseen : 0..(LostAfter + 1), signalled : BOOLEAN]

Phase == {"stopped", "login", "wait", "refused", "running", "lost"}

Off == [pc |-> "off", announced |-> FALSE, unseen |-> 0, signalled |-> FALSE]

TunnelTypeOK ==
  /\ watch \in [Tunnels -> Watch]
  /\ frpc \in [Tunnels -> Phase]

TunnelInit ==
  /\ watch = [p \in Tunnels |-> Off]
  /\ frpc = [p \in Tunnels |-> "stopped"]

Becomes(p, phase) == frpc' = [frpc EXCEPT ![p] = phase]

-----------------------------------------------------------------------------
(* frpc.                                                                   *)

\* The first login; its failure ends svc.Run.
FrpcLogin(p) ==
  /\ frpc[p] = "login"
  /\ Becomes(p, "wait") \/ Becomes(p, "stopped")
  /\ UNCHANGED watch

\* frps answers NewProxy; a refused one is asked for again and again.
FrpcAnswer(p) ==
  /\ frpc[p] = "wait"
  /\ Becomes(p, "running") \/ Becomes(p, "refused")
  /\ UNCHANGED watch

FrpcRetry(p) == frpc[p] = "refused" /\ Becomes(p, "wait") /\ UNCHANGED watch

\* The control connection drops, and may or may not be set up again.
FrpcDrop(p) ==
  /\ frpc[p] \in {"wait", "refused", "running"}
  /\ Becomes(p, "lost")
  /\ UNCHANGED watch

FrpcReconnect(p) == frpc[p] = "lost" /\ Becomes(p, "wait") /\ UNCHANGED watch

\* A slip of Run: svc.Run gets a context of its own, which a signal does not end.
CancelledByRun(p) == watch[p].pc = "closing"

\* runCtx: cancelled by Run, or with the context that the signals end.
Cancelled(p) == watch[p].pc = "closing" \/ watch[p].signalled

FrpcStop(p) ==
  /\ frpc[p] # "stopped"
  /\ Cancelled(p)
  /\ Becomes(p, "stopped")
  /\ UNCHANGED watch

-----------------------------------------------------------------------------
(* Run.                                                                    *)

\* cmdTunnel has loaded a kt2 token, and Run has set everything up.
Launch(p) ==
  /\ watch[p].pc = "off"
  /\ watch' = [watch EXCEPT ![p].pc = "poll"]
  /\ Becomes(p, "login")

Polls(p, phases) == watch[p].pc = "poll" /\ frpc[p] \in phases

\* A slip of Run: the status is only looked at for running.
PollForRunning(p) == FALSE /\ UNCHANGED tunnels

\* The ticker: frps has refused the tunnel.
PollRefused(p) ==
  /\ Polls(p, {"refused"})
  /\ watch' = [watch EXCEPT ![p].pc = "closing"]
  /\ UNCHANGED frpc

\* The ticker: running, for the first time; onReady comes with it.
PollLive(p) ==
  /\ Polls(p, {"running"})
  /\ ~watch[p].announced
  /\ watch' = [watch EXCEPT ![p].announced = TRUE]
  /\ UNCHANGED frpc

\* A slip of Run: frpc trying again counts as a sign of life.
PollAlive(p) ==
  /\ Polls(p, {"running", "wait"})
  /\ watch[p].announced
  /\ watch' = [watch EXCEPT ![p].unseen = 0]
  /\ UNCHANGED frpc

\* The ticker: still running.
PollRunning(p) ==
  /\ Polls(p, {"running"})
  /\ watch[p].announced
  /\ watch' = [watch EXCEPT ![p].unseen = 0]
  /\ UNCHANGED frpc

\* The ticker: announced, and not seen running for longer than lostAfter.
PollLost(p) ==
  /\ Polls(p, Phase \ {"refused", "running"})
  /\ watch[p].announced /\ watch[p].unseen > LostAfter
  /\ watch' = [watch EXCEPT ![p].pc = "closing"]
  /\ UNCHANGED frpc

\* SIGINT or SIGTERM.
Signal(p) ==
  /\ watch[p].pc # "off"
  /\ watch' = [watch EXCEPT ![p].signalled = TRUE]
  /\ UNCHANGED frpc

\* runErr delivers what svc.Run has returned: Run and then the process end.
Return(p) ==
  /\ watch[p].pc # "off"
  /\ frpc[p] = "stopped"
  /\ watch' = [watch EXCEPT ![p] = Off]
  /\ UNCHANGED frpc

\* SIGKILL.
KillTunnel(p) ==
  /\ watch[p].pc # "off"
  /\ watch' = [watch EXCEPT ![p] = Off]
  /\ Becomes(p, "stopped")

Older(w) == IF w.announced /\ w.unseen <= LostAfter THEN [w EXCEPT !.unseen = w.unseen + 1] ELSE w

\* Time since lastRunning.
TunnelsAge == watch' = [p \in Tunnels |-> Older(watch[p])] /\ UNCHANGED frpc
=============================================================================
