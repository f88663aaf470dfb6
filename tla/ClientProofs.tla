---------------------------- MODULE ClientProofs ----------------------------
(***************************************************************************)
(* Safety of Client for every number of processes and every interval: the  *)
(* argument is about the lock of PassiveCheck, of which Client and its     *)
(* tunnels only decide when a check begins and where it is cut short.      *)
(***************************************************************************)
EXTENDS Client, TLAPS

(* The inductive invariant, in parts, all of which hold until a lock has   *)
(* been removed under a process at work.                                   *)

\* A process past the lock has a lock file behind it.
LockHeld == ~stolen /\ Inside # {} => locked

\* What a process has found due is still due when it writes.
StillDue == ~stolen => \A p \in Process : claim[p] = "write" => stamp = CheckTTL

ChecksInv == CheckTypeOK /\ OneInside /\ LockHeld /\ StillDue

IInv == TypeOK /\ OneInside /\ LockHeld /\ StillDue

-----------------------------------------------------------------------------
(* The lock.                                                               *)

\* Ages stay within their caps, and only grow.
LEMMA AgesGrow ==
  ASSUME NEW cap \in Nat, NEW n \in 0..cap
  PROVE  Aged(n, cap) \in 0..cap /\ Aged(n, cap) >= n
BY DEF Aged

\* A step of p that keeps the lock file, the stamp and p's side of the lock, or
\* takes p out of it, disturbs nothing.
LEMMA StepsBack ==
  ASSUME ChecksInv, NEW p \in Process, NEW pc, Goes(p, pc),
         pc \in {"idle", "lock", "stat", "remove", "relock", "unlock"},
         pc = "unlock" => p \in Inside,
         UNCHANGED <<locked, lockAge, stamp, stolen>>
  PROVE  ChecksInv'
<1>1. CheckTypeOK'
  BY DEF ChecksInv, CheckTypeOK, Goes
<1>2. Inside' \subseteq Inside
  BY DEF ChecksInv, CheckTypeOK, Goes, Inside
<1>3. OneInside' /\ LockHeld'
  BY <1>2 DEF ChecksInv, OneInside, LockHeld
<1>4. StillDue'
  BY DEF ChecksInv, CheckTypeOK, StillDue, Goes
<1> QED
  BY <1>1, <1>3, <1>4 DEF ChecksInv

LEMMA BeginClaimStep ==
  ASSUME ChecksInv, NEW p \in Process, BeginClaim(p)
  PROVE  ChecksInv'
BY StepsBack DEF BeginClaim

LEMMA EndClaimStep ==
  ASSUME ChecksInv, NEW p \in Process, EndClaim(p)
  PROVE  ChecksInv'
BY StepsBack DEF EndClaim

LEMMA FailStampStep ==
  ASSUME ChecksInv, NEW p \in Process, FailStamp(p)
  PROVE  ChecksInv'
BY StepsBack DEF FailStamp, Inside

LEMMA StatLockStep ==
  ASSUME ChecksInv, NEW p \in Process, StatLock(p)
  PROVE  ChecksInv'
BY StepsBack DEF StatLock

\* The one way in: there was no lock file, and so nobody inside.
LEMMA TakeLockStep ==
  ASSUME ChecksInv, NEW p \in Process, TakeLock(p)
  PROVE  ChecksInv'
<1>1. CASE ~Creatable
  BY <1>1, StepsBack DEF TakeLock
<1>2. CASE Creatable
  <2>1. /\ Goes(p, "read") /\ locked' = TRUE /\ lockAge' = 0
        /\ UNCHANGED <<stamp, stolen>>
    BY <1>2 DEF TakeLock
  <2>2. CheckTypeOK'
    BY <2>1, CheckAssumption DEF ChecksInv, CheckTypeOK, Goes
  <2>3. ~stolen => Inside' = {p}
    <3>1. ~stolen => Inside = {}
      BY <1>2 DEF ChecksInv, LockHeld, Creatable
    <3> QED
      BY <2>1, <3>1 DEF ChecksInv, CheckTypeOK, Goes, Inside
  <2>4. OneInside' /\ LockHeld'
    BY <2>1, <2>3 DEF OneInside, LockHeld
  <2>5. StillDue'
    BY <2>1 DEF ChecksInv, CheckTypeOK, StillDue, Goes
  <2> QED
    BY <2>2, <2>4, <2>5 DEF ChecksInv
<1> QED
  BY <1>1, <1>2

\* Whoever is inside loses its lock: that is what stolen remembers.
LEMMA RemoveLockStep ==
  ASSUME ChecksInv, NEW p \in Process, RemoveLock(p)
  PROVE  ChecksInv'
<1>1. CheckTypeOK'
  BY DEF ChecksInv, CheckTypeOK, RemoveLock, Goes
<1>2. Inside' \subseteq Inside
  BY DEF ChecksInv, CheckTypeOK, RemoveLock, Goes, Inside
<1>3. ~stolen' => ~stolen /\ Inside = {}
  BY DEF RemoveLock
<1>4. OneInside' /\ LockHeld'
  BY <1>2, <1>3 DEF OneInside, LockHeld
<1>5. StillDue'
  BY <1>3 DEF ChecksInv, CheckTypeOK, StillDue, RemoveLock, Goes
<1> QED
  BY <1>1, <1>4, <1>5 DEF ChecksInv

LEMMA ReadStampStep ==
  ASSUME ChecksInv, NEW p \in Process, ReadStamp(p)
  PROVE  ChecksInv'
<1>1. CASE ~Due
  BY <1>1, StepsBack DEF ReadStamp, Inside
<1>2. CASE Due
  <2>1. stamp = CheckTTL
    BY <1>2, CheckAssumption DEF Due, ChecksInv, CheckTypeOK
  <2>2. CheckTypeOK'
    BY DEF ChecksInv, CheckTypeOK, ReadStamp, Goes
  <2>3. Inside' \subseteq Inside
    BY DEF ChecksInv, CheckTypeOK, ReadStamp, Goes, Inside
  <2>4. OneInside' /\ LockHeld'
    BY <2>3 DEF ChecksInv, OneInside, LockHeld, ReadStamp
  <2>5. StillDue'
    BY <2>1 DEF StillDue, ReadStamp
  <2> QED
    BY <2>2, <2>4, <2>5 DEF ChecksInv
<1> QED
  BY <1>1, <1>2

\* Nobody else was about to write.
LEMMA WriteStampStep ==
  ASSUME ChecksInv, NEW p \in Process, WriteStamp(p)
  PROVE  ChecksInv'
<1>1. CheckTypeOK'
  BY CheckAssumption DEF ChecksInv, CheckTypeOK, WriteStamp, Goes
<1>2. Inside' \subseteq Inside
  BY DEF ChecksInv, CheckTypeOK, WriteStamp, Goes, Inside
<1>3. OneInside' /\ LockHeld'
  BY <1>2 DEF ChecksInv, OneInside, LockHeld, WriteStamp
<1>4. StillDue'
  <2>1. SUFFICES ASSUME ~stolen', NEW q \in Process, claim'[q] = "write"
                 PROVE  FALSE
    BY DEF StillDue
  <2>2. q # p /\ claim[q] = "write"
    BY <2>1 DEF ChecksInv, CheckTypeOK, WriteStamp, Goes
  <2>3. p \in Inside /\ q \in Inside
    BY <2>2 DEF Inside, WriteStamp
  <2> QED
    BY <2>1, <2>2, <2>3 DEF ChecksInv, OneInside, WriteStamp
<1> QED
  BY <1>1, <1>3, <1>4 DEF ChecksInv

\* The last one out.
LEMMA UnlockStep ==
  ASSUME ChecksInv, NEW p \in Process, Unlock(p)
  PROVE  ChecksInv'
<1>1. CheckTypeOK'
  BY DEF ChecksInv, CheckTypeOK, Unlock, Goes
<1>2. ~stolen => Inside' = {}
  BY DEF ChecksInv, CheckTypeOK, OneInside, Unlock, Goes, Inside
<1>3. OneInside' /\ LockHeld'
  BY <1>2 DEF OneInside, LockHeld, Unlock
<1>4. StillDue'
  BY DEF ChecksInv, CheckTypeOK, StillDue, Unlock, Goes
<1> QED
  BY <1>1, <1>3, <1>4 DEF ChecksInv

LEMMA ChecksAgeStep ==
  ASSUME ChecksInv, ChecksAge
  PROVE  ChecksInv'
<1>1. lockAge' \in 0..(LockStale + 1)
  BY AgesGrow, CheckAssumption DEF ChecksInv, CheckTypeOK, ChecksAge
<1>2. stamp' \in 0..CheckTTL /\ stamp' >= stamp
  BY AgesGrow, CheckAssumption DEF ChecksInv, CheckTypeOK, ChecksAge
<1>3. Inside' = Inside
  BY DEF ChecksAge, Inside
<1>4. CheckTypeOK'
  BY <1>1, <1>2 DEF ChecksInv, CheckTypeOK, ChecksAge
<1>5. OneInside' /\ LockHeld'
  BY <1>3 DEF ChecksInv, OneInside, LockHeld, ChecksAge
<1>6. StillDue'
  BY <1>2, CheckAssumption DEF ChecksInv, CheckTypeOK, StillDue, ChecksAge
<1> QED
  BY <1>4, <1>5, <1>6 DEF ChecksInv

LEMMA ChecksUnchanged ==
  ASSUME ChecksInv, UNCHANGED checks
  PROVE  ChecksInv'
BY DEF ChecksInv, checks, CheckTypeOK, OneInside, LockHeld, StillDue, Inside

LEMMA ClaimStepStep ==
  ASSUME ChecksInv, NEW p \in Process, ClaimStep(p)
  PROVE  ChecksInv'
BY TakeLockStep, StatLockStep, RemoveLockStep, ReadStampStep, WriteStampStep, UnlockStep
   DEF ClaimStep

-----------------------------------------------------------------------------
(* The tunnels.                                                            *)

\* A row stays a row when a field of it is set.
LEMMA WatchRows ==
  /\ Off \in Watch
  /\ \A w \in Watch :
       /\ [w EXCEPT !.pc = "poll"] \in Watch
       /\ [w EXCEPT !.pc = "closing"] \in Watch
       /\ [w EXCEPT !.announced = TRUE] \in Watch
       /\ [w EXCEPT !.unseen = 0] \in Watch
       /\ [w EXCEPT !.signalled = TRUE] \in Watch
       /\ Older(w) \in Watch
<1>1. Off \in Watch
  BY LostAssumption DEF Off, Watch
<1>2. ASSUME NEW w \in Watch
      PROVE  /\ [w EXCEPT !.pc = "poll"] \in Watch
             /\ [w EXCEPT !.pc = "closing"] \in Watch
             /\ [w EXCEPT !.announced = TRUE] \in Watch
             /\ [w EXCEPT !.unseen = 0] \in Watch
             /\ [w EXCEPT !.signalled = TRUE] \in Watch
  <2>1. [w EXCEPT !.pc = "poll"] \in Watch /\ [w EXCEPT !.pc = "closing"] \in Watch
    BY DEF Watch
  <2>2. [w EXCEPT !.announced = TRUE] \in Watch
    BY DEF Watch
  <2>3. [w EXCEPT !.signalled = TRUE] \in Watch
    BY DEF Watch
  <2>4. [w EXCEPT !.unseen = 0] \in Watch
    <3>1. 0 \in 0..(LostAfter + 1)
      BY LostAssumption
    <3> QED
      BY <3>1 DEF Watch
  <2> QED
    BY <2>1, <2>2, <2>3, <2>4
<1>3. ASSUME NEW w \in Watch
      PROVE  Older(w) \in Watch
  <2>1. CASE w.announced /\ w.unseen <= LostAfter
    <3>1. w.unseen + 1 \in 0..(LostAfter + 1)
      BY <2>1, LostAssumption DEF Watch
    <3> QED
      BY <2>1, <3>1 DEF Watch, Older
  <2>2. CASE ~(w.announced /\ w.unseen <= LostAfter)
    BY <2>2 DEF Older
  <2> QED
    BY <2>1, <2>2
<1> QED
  BY <1>1, <1>2, <1>3

LEMMA FrpcTypes ==
  ASSUME TunnelTypeOK, NEW p \in Tunnels, NEW phase \in Phase, Becomes(p, phase)
  PROVE  frpc' \in [Tunnels -> Phase]
BY DEF TunnelTypeOK, Becomes

LEMMA WatchTypes ==
  ASSUME TunnelTypeOK, NEW p \in Tunnels, NEW w \in Watch, watch' = [watch EXCEPT ![p] = w]
  PROVE  watch' \in [Tunnels -> Watch]
BY DEF TunnelTypeOK

\* frpc moves from phase to phase, whatever moves it.
LEMMA FrpcSteps ==
  ASSUME TunnelTypeOK, NEW p \in Tunnels,
         \/ FrpcLogin(p) \/ FrpcAnswer(p) \/ FrpcRetry(p) \/ FrpcDrop(p)
         \/ FrpcReconnect(p) \/ FrpcStop(p)
  PROVE  TunnelTypeOK'
<1>1. \E phase \in Phase : Becomes(p, phase)
  BY DEF FrpcLogin, FrpcAnswer, FrpcRetry, FrpcDrop, FrpcReconnect, FrpcStop, Phase
<1>2. UNCHANGED watch
  BY DEF FrpcLogin, FrpcAnswer, FrpcRetry, FrpcDrop, FrpcReconnect, FrpcStop
<1> QED
  BY <1>1, <1>2, FrpcTypes DEF TunnelTypeOK

\* Run sets one of its variables at a time.
LEMMA RunSteps ==
  ASSUME TunnelTypeOK, NEW p \in Tunnels,
         \/ PollRefused(p) \/ PollLive(p) \/ PollRunning(p) \/ PollLost(p)
         \/ Signal(p) \/ Return(p)
  PROVE  TunnelTypeOK'
<1>1. watch[p] \in Watch
  BY DEF TunnelTypeOK
<1>2. UNCHANGED frpc
  BY DEF PollRefused, PollLive, PollRunning, PollLost, Signal, Return
<1>3. \E w \in Watch : watch' = [watch EXCEPT ![p] = w]
  BY <1>1, WatchRows DEF PollRefused, PollLive, PollRunning, PollLost, Signal, Return
<1> QED
  BY <1>2, <1>3, WatchTypes DEF TunnelTypeOK

LEMMA LaunchAndKill ==
  ASSUME TunnelTypeOK, NEW p \in Tunnels, Launch(p) \/ KillTunnel(p)
  PROVE  TunnelTypeOK'
<1>1. watch[p] \in Watch
  BY DEF TunnelTypeOK
<1>2. \E w \in Watch : watch' = [watch EXCEPT ![p] = w]
  BY <1>1, WatchRows DEF Launch, KillTunnel
<1>3. \E phase \in Phase : Becomes(p, phase)
  BY DEF Launch, KillTunnel, Phase
<1> QED
  BY <1>2, <1>3, FrpcTypes, WatchTypes DEF TunnelTypeOK

LEMMA TunnelsAgeStep ==
  ASSUME TunnelTypeOK, TunnelsAge
  PROVE  TunnelTypeOK'
BY WatchRows DEF TunnelTypeOK, TunnelsAge

-----------------------------------------------------------------------------
(* Their composition.                                                      *)

\* Every step of Client is a step of the checks, or none.
LEMMA ChecksKept ==
  ASSUME ChecksInv, [Next]_vars
  PROVE  ChecksInv'
<1>1. CASE \E p \in Tunnels : \/ Start(p) \/ Frpc(p) \/ Stop(p) \/ Poll(p) \/ Refuse(p)
                              \/ Interrupt(p) \/ Finish(p) \/ Kill(p)
  <2>1. PICK p \in Tunnels : \/ Start(p) \/ Frpc(p) \/ Stop(p) \/ Poll(p) \/ Refuse(p)
                             \/ Interrupt(p) \/ Finish(p) \/ Kill(p)
    BY <1>1
  <2>2. p \in Process
    BY ClientAssumption
  <2>3. UNCHANGED checks \/ BeginClaim(p) \/ EndClaim(p)
    BY <2>1 DEF Start, Frpc, Stop, Poll, Announce, Refuse, Interrupt, Finish, Kill, EndsCheck
  <2> QED
    BY <2>2, <2>3, ChecksUnchanged, BeginClaimStep, EndClaimStep
<1>2. CASE \E p \in Process : Command(p) \/ KillCommand(p) \/ Check(p) \/ FailCheck(p)
  BY <1>2, BeginClaimStep, EndClaimStep, ClaimStepStep, FailStampStep
     DEF Command, KillCommand, EndsCheck, Check, FailCheck
<1>3. CASE Tick
  BY <1>3, ChecksAgeStep DEF Tick
<1>4. CASE UNCHANGED vars
  BY <1>4, ChecksUnchanged DEF vars
<1> QED
  BY <1>1, <1>2, <1>3, <1>4 DEF Next

LEMMA TunnelsKept ==
  ASSUME TunnelTypeOK, [Next]_vars
  PROVE  TunnelTypeOK'
<1>1. CASE UNCHANGED tunnels
  BY <1>1 DEF TunnelTypeOK, tunnels
<1>2. ASSUME NEW p \in Tunnels, \/ Start(p) \/ Frpc(p) \/ Stop(p) \/ Poll(p) \/ Refuse(p)
                                \/ Interrupt(p) \/ Finish(p) \/ Kill(p)
      PROVE  TunnelTypeOK'
  BY <1>2, FrpcSteps, RunSteps, LaunchAndKill
     DEF Start, Frpc, Stop, Poll, Announce, Refuse, Interrupt, Finish, Kill
<1>3. CASE Tick
  BY <1>3, TunnelsAgeStep DEF Tick
<1>4. ASSUME NEW p \in Process, Command(p) \/ KillCommand(p) \/ Check(p) \/ FailCheck(p)
      PROVE  UNCHANGED tunnels
  BY <1>4 DEF Command, KillCommand, Check, FailCheck
<1>5. CASE UNCHANGED vars
  BY <1>1, <1>5 DEF vars
<1> QED
  BY <1>1, <1>2, <1>3, <1>4, <1>5 DEF Next

\* No more is cut short than the bound allows.
LEMMA MishapsBounded ==
  ASSUME mishaps \in 0..MaxMishaps, [Next]_vars
  PROVE  mishaps' \in 0..MaxMishaps
<1>1. UNCHANGED mishaps \/ Mishap
  BY DEF Next, vars, Start, Frpc, Stop, Poll, Announce, Refuse, Interrupt, Finish, Kill,
         EndsCheck, Command, KillCommand, Check, FailCheck, Tick
<1> QED
  BY <1>1, ClientAssumption DEF Mishap

\* The invariant of Client, for every instance.
THEOREM Invariant == Spec => []IInv
<1>1. Init => IInv
  <2>1. ASSUME Init
        PROVE  TypeOK
    <3>1. TunnelTypeOK
      BY <2>1, WatchRows DEF Init, TunnelInit, TunnelTypeOK, Phase
    <3>2. CheckTypeOK
      <4>1. claim \in [Process -> {"idle", "lock", "stat", "remove", "relock", "read",
                                    "write", "unlock"}]
        BY <2>1 DEF Init, CheckInit
      <4>2. lockAge \in 0..(LockStale + 1) /\ stamp \in 0..CheckTTL
        BY <2>1, CheckAssumption DEF Init, CheckInit
      <4> QED
        BY <2>1, <4>1, <4>2 DEF Init, CheckInit, CheckTypeOK
    <3> QED
      BY <2>1, <3>1, <3>2, ClientAssumption DEF Init, TypeOK
  <2>2. ASSUME Init
        PROVE  Inside = {}
    BY <2>2 DEF Init, CheckInit, Inside
  <2> QED
    BY <2>1, <2>2 DEF Init, CheckInit, IInv, OneInside, LockHeld, StillDue
<1>2. IInv /\ [Next]_vars => IInv'
  BY ChecksKept, TunnelsKept, MishapsBounded DEF IInv, TypeOK, ChecksInv
<1> QED
  BY <1>1, <1>2, PTL DEF Spec

-----------------------------------------------------------------------------
(* What follows.                                                           *)

\* Every variable keeps its type: ages stay within their caps.
THEOREM TypeCorrect == Spec => []TypeOK
<1>1. IInv => TypeOK
  BY DEF IInv
<1> QED
  BY <1>1, Invariant, PTL

\* Until a lock is removed under a process at work, no two processes are past
\* the lock, however many end there and however their calls interleave.
THEOREM NeverTwoInside == Spec => []OneInside
<1>1. IInv => OneInside
  BY DEF IInv
<1> QED
  BY <1>1, Invariant, PTL

\* And no check is claimed within the interval of another.
THEOREM ClaimsKeptApart == Spec => ClaimsApart
<1>1. IInv /\ [Next]_vars => [stamp' < stamp => stolen \/ stamp = CheckTTL]_vars
  <2>1. SUFFICES ASSUME IInv, [Next]_vars, stamp' < stamp, ~stolen
                 PROVE  stamp = CheckTTL
    OBVIOUS
  <2>2. stamp \in 0..CheckTTL /\ stamp' \in 0..CheckTTL
    BY <2>1, ChecksKept DEF IInv, TypeOK, ChecksInv, CheckTypeOK
  <2>3. ~(stamp' >= stamp)
    BY <2>1, <2>2, CheckAssumption
  <2>4. ~ChecksAge
    <3>1. Aged(stamp, CheckTTL) >= stamp
      BY <2>2, AgesGrow, CheckAssumption
    <3> QED
      BY <2>3, <3>1 DEF ChecksAge
  <2>5. stamp' # stamp
    BY <2>2, <2>3, CheckAssumption
  <2>6. PICK p \in Process : WriteStamp(p)
    <3>1. CASE UNCHANGED checks
      BY <2>5, <3>1 DEF checks
    <3>2. ASSUME NEW p \in Process, BeginClaim(p) \/ EndClaim(p) \/ FailStamp(p)
          PROVE  FALSE
      BY <2>5, <3>2 DEF BeginClaim, EndClaim, FailStamp
    <3>3. ASSUME NEW p \in Tunnels, \/ Start(p) \/ Frpc(p) \/ Stop(p) \/ Poll(p) \/ Refuse(p)
                                    \/ Interrupt(p) \/ Finish(p) \/ Kill(p)
          PROVE  UNCHANGED checks \/ BeginClaim(p) \/ EndClaim(p)
      BY <3>3 DEF Start, Frpc, Stop, Poll, Announce, Refuse, Interrupt, Finish, Kill, EndsCheck
    <3>4. ASSUME NEW p \in Process, Command(p) \/ KillCommand(p) \/ FailCheck(p)
          PROVE  BeginClaim(p) \/ EndClaim(p) \/ FailStamp(p)
      BY <3>4 DEF Command, KillCommand, EndsCheck, FailCheck
    <3>5. ASSUME NEW p \in Process, ClaimStep(p)
          PROVE  WriteStamp(p)
      BY <2>5, <3>5 DEF ClaimStep, TakeLock, StatLock, RemoveLock, ReadStamp, Unlock
    <3> QED
      BY <2>1, <2>4, <3>1, <3>2, <3>3, <3>4, <3>5, ClientAssumption DEF Next, vars, Check, Tick
  <2> QED
    BY <2>1, <2>6 DEF IInv, StillDue, WriteStamp
<1> QED
  BY <1>1, Invariant, PTL DEF Spec, ClaimsApart
=============================================================================
