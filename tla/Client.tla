------------------------------- MODULE Client -------------------------------
(***************************************************************************)
(* The ktunnel processes of one user on one machine: tunnels, whose watch  *)
(* loop is TunnelClient, and short commands, both of which make the daily  *)
(* update check of PassiveCheck.  What couples the two is that a process   *)
(* takes its check along when it ends: the check of a tunnel runs in a     *)
(* goroutine that nothing waits for.                                       *)
(***************************************************************************)
EXTENDS TunnelClient, PassiveCheck

CONSTANT
  MaxMishaps      \* bound: checks cut short or failing

ASSUME ClientAssumption == Tunnels \subseteq Process /\ MaxMishaps \in Nat

VARIABLE mishaps  \* checks cut short or failing so far

vars == <<tunnels, checks, mishaps>>

TypeOK == TunnelTypeOK /\ CheckTypeOK /\ mishaps \in 0..MaxMishaps

Init == TunnelInit /\ CheckInit /\ mishaps = 0

Mishap == mishaps < MaxMishaps /\ mishaps' = mishaps + 1

\* The process ends, and with it its check.
EndsCheck(p) ==
  /\ EndClaim(p)
  /\ IF claim[p] = "idle" THEN UNCHANGED mishaps ELSE Mishap

-----------------------------------------------------------------------------
Start(p) == Launch(p) /\ UNCHANGED <<checks, mishaps>>

Frpc(p) ==
  /\ FrpcLogin(p) \/ FrpcAnswer(p) \/ FrpcRetry(p) \/ FrpcDrop(p) \/ FrpcReconnect(p)
  /\ UNCHANGED <<checks, mishaps>>

Stop(p) == FrpcStop(p) /\ UNCHANGED <<checks, mishaps>>

\* The tunnel is live.  passiveUpdateCheck claims nothing off a terminal, in
\* CI, when told not to, or in a build without a release version.
Announce(p) == PollLive(p) /\ (BeginClaim(p) \/ UNCHANGED checks) /\ UNCHANGED mishaps

Poll(p) ==
  \/ Announce(p)
  \/ (PollRunning(p) \/ PollLost(p)) /\ UNCHANGED <<checks, mishaps>>

Refuse(p) == PollRefused(p) /\ UNCHANGED <<checks, mishaps>>

Interrupt(p) == Signal(p) /\ UNCHANGED <<checks, mishaps>>

Finish(p) == Return(p) /\ EndsCheck(p)

Kill(p) == KillTunnel(p) /\ EndsCheck(p)

\* A short command has succeeded, and checks before it exits.
Command(p) ==
  /\ p \notin Tunnels
  /\ BeginClaim(p)
  /\ UNCHANGED <<tunnels, mishaps>>

KillCommand(p) ==
  /\ p \notin Tunnels
  /\ claim[p] # "idle"
  /\ EndsCheck(p)
  /\ UNCHANGED tunnels

Check(p) == ClaimStep(p) /\ UNCHANGED <<tunnels, mishaps>>

FailCheck(p) == FailStamp(p) /\ Mishap /\ UNCHANGED tunnels

Tick == TunnelsAge /\ ChecksAge /\ UNCHANGED mishaps

Next ==
  \/ \E p \in Tunnels : Start(p) \/ Frpc(p) \/ Stop(p) \/ Poll(p) \/ Refuse(p)
                          \/ Interrupt(p) \/ Finish(p) \/ Kill(p)
  \/ \E p \in Process : Command(p) \/ KillCommand(p) \/ Check(p) \/ FailCheck(p)
  \/ Tick

\* Time passes, running goroutines go on, and the ticker is faster than frpc is
\* in asking again: what frpc shows again and again is seen.  Nothing makes the
\* relay answer or the connection come back.
Fairness ==
  /\ WF_vars(Tick)
  /\ \A p \in Tunnels :
       WF_vars(Stop(p)) /\ WF_vars(Poll(p)) /\ SF_vars(Refuse(p)) /\ WF_vars(Finish(p))
  /\ \A p \in Process : WF_vars(Check(p))

Spec == Init /\ [][Next]_vars /\ Fairness

-----------------------------------------------------------------------------
\* Between two renewals of the stamp lies the whole update interval: whoever
\* finds the check due is still the only one to do it when it writes
\* (claimPassiveCheck: read, decide and write under one lock).
ClaimsApart == [][stamp' < stamp => stolen \/ stamp = CheckTTL]_vars

\* A tunnel that was announced runs again or ktunnel ends: a user is not left
\* with a prompt that serves nothing (Run, lostAfter).
ComesBackOrEnds ==
  \A p \in Tunnels : watch[p].announced ~> (frpc[p] = "running" \/ watch[p].pc = "off")

\* ktunnel does not keep asking for a tunnel the relay refuses (Run: "so the
\* user gets the reason and their prompt back").
RefusalEnds ==
  \A p \in Tunnels : []<>(frpc[p] = "refused") => []<>(watch[p].pc = "off")

\* Ctrl-C ends ktunnel, whatever its connection and its check are doing.
SignalEnds == \A p \in Tunnels : watch[p].signalled ~> watch[p].pc = "off"

\* As long as commands keep asking, checks keep being made, although processes
\* have died with the lock in their hands (claimPassiveCheck).
ChecksGoOn ==
  []<>(\E p \in Process : claim[p] = "lock") => []<>(stamp = 0)
=============================================================================
