---------------------------- MODULE PassiveCheck ----------------------------
(***************************************************************************)
(* The daily update check of the ktunnel processes of one user             *)
(* (claimPassiveCheck in cmd/ktunnel/update.go): one action per call on    *)
(* the lock file and the time stamp, of processes that may end anywhere.   *)
(* Module Client composes these actions with TunnelClient.                 *)
(***************************************************************************)
EXTENDS Naturals

CONSTANTS
  Process,      \* slots for ktunnel processes
  CheckTTL,     \* updateCacheTTL, in ticks
  LockStale     \* the minute after which a lock is orphaned, in ticks

ASSUME CheckAssumption == CheckTTL \in Nat \ {0} /\ LockStale \in Nat

VARIABLES
  claim,     \* where claimPassiveCheck is in each process
  locked,    \* last-update-check.lock exists
  lockAge,   \* ticks since its modification time
  stamp,     \* ticks since the time in last-update-check, or CheckTTL and more
  stolen     \* history: a lock was removed while its creator was at work

checks == <<claim, locked, lockAge, stamp, stolen>>

CheckTypeOK ==
  /\ claim \in [Process -> {"idle", "lock", "stat", "remove", "relock", "read",
                            "write", "unlock"}]
  /\ locked \in BOOLEAN
  /\ lockAge \in 0..(LockStale + 1)
  /\ stamp \in 0..CheckTTL
  /\ stolen \in BOOLEAN

CheckInit ==
  /\ claim = [p \in Process |-> "idle"]
  /\ locked = FALSE
  /\ lockAge = 0
  /\ stamp = CheckTTL
  /\ stolen = FALSE

Goes(p, pc) == claim' = [claim EXCEPT ![p] = pc]

\* Past the lock.
Inside == {p \in Process : claim[p] \in {"read", "write", "unlock"}}

-----------------------------------------------------------------------------
BeginClaim(p) ==
  /\ claim[p] = "idle"
  /\ Goes(p, "lock")
  /\ UNCHANGED <<locked, lockAge, stamp, stolen>>

\* A slip of O_EXCL: the file is created or opened.
Takeable == TRUE

\* O_CREATE|O_EXCL succeeds.
Creatable == ~locked

\* The first attempt goes on to look at the file that is in its way; the
\* second gives up.
TakeLock(p) ==
  /\ claim[p] \in {"lock", "relock"}
  /\ IF Creatable
     THEN Goes(p, "read") /\ locked' = TRUE /\ lockAge' = 0
     ELSE /\ Goes(p, IF claim[p] = "lock" THEN "stat" ELSE "idle")
          /\ UNCHANGED <<locked, lockAge>>
  /\ UNCHANGED <<stamp, stolen>>

\* A slip of claimPassiveCheck: an orphaned lock is nobody's to remove.
Orphaned == FALSE

Stale == locked /\ lockAge > LockStale

\* os.Stat: gone, or not older than a minute, is somebody else's check.
StatLock(p) ==
  /\ claim[p] = "stat"
  /\ Goes(p, IF Stale THEN "remove" ELSE "idle")
  /\ UNCHANGED <<locked, lockAge, stamp, stolen>>

\* os.Remove takes whichever file is there by now, and fails if none is.
RemoveLock(p) ==
  /\ claim[p] = "remove"
  /\ Goes(p, IF locked THEN "relock" ELSE "idle")
  /\ locked' = FALSE
  /\ stolen' = (stolen \/ Inside # {})
  /\ UNCHANGED <<lockAge, stamp>>

\* A slip of claimPassiveCheck: one tick early.
AlmostDue == stamp + 1 >= CheckTTL

Due == stamp >= CheckTTL

ReadStamp(p) ==
  /\ claim[p] = "read"
  /\ Goes(p, IF Due THEN "write" ELSE "unlock")
  /\ UNCHANGED <<locked, lockAge, stamp, stolen>>

\* The temporary file and its rename; nobody reads the former.
WriteStamp(p) ==
  /\ claim[p] = "write"
  /\ Goes(p, "unlock")
  /\ stamp' = 0
  /\ UNCHANGED <<locked, lockAge, stolen>>

\* One of the two fails.
FailStamp(p) ==
  /\ claim[p] = "write"
  /\ Goes(p, "unlock")
  /\ UNCHANGED <<locked, lockAge, stamp, stolen>>

\* The deferred os.Remove, again of whichever file is there.
Unlock(p) ==
  /\ claim[p] = "unlock"
  /\ Goes(p, "idle")
  /\ locked' = FALSE
  /\ UNCHANGED <<lockAge, stamp, stolen>>

\* The process ends, whatever its check is doing.
EndClaim(p) == Goes(p, "idle") /\ UNCHANGED <<locked, lockAge, stamp, stolen>>

ClaimStep(p) ==
  TakeLock(p) \/ StatLock(p) \/ RemoveLock(p) \/ ReadStamp(p) \/ WriteStamp(p) \/ Unlock(p)

Aged(n, cap) == IF n < cap THEN n + 1 ELSE cap

ChecksAge ==
  /\ lockAge' = Aged(lockAge, LockStale + 1)
  /\ stamp' = Aged(stamp, CheckTTL)
  /\ UNCHANGED <<claim, locked, stolen>>

-----------------------------------------------------------------------------
\* Until a lock has been removed under a process at work, one process at most
\* is past the lock, however many have died there (claimPassiveCheck).
OneInside == ~stolen => \A p, q \in Inside : p = q
=============================================================================
