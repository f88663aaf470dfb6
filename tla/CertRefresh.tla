---------------------------- MODULE CertRefresh ----------------------------
(***************************************************************************)
(* The refresh of the relay's certificate                                  *)
(* (server/reload-nginx-if-cert-changed.sh): stage, back up, install by    *)
(* rename, recreate frps, check its health, commit or roll back.  Cron, an *)
(* ACME hook and an operator may each start it, a signal may arrive after  *)
(* any command, any command may fail, and a run may be killed outright.    *)
(*                                                                         *)
(* Certificates are numbered in the order of renewal; a PEM file is the    *)
(* number of the certificate in it, and its hash is the same number.       *)
(* Not here: a loss of power.  The script syncs nothing to the disk.       *)
(***************************************************************************)
EXTENDS Naturals

CONSTANTS
  Run,         \* slots: runs of the script
  MaxCert,     \* bound: certificates ever issued
  Inode,       \* what the path of the lock file can stand for
  NoInode,
  Killable     \* whether a run may be killed outright (SIGKILL) between commands

Cert  == 1..MaxCert
NoPem == 0
Pem   == {NoPem} \cup Cert

ASSUME CertRefreshAssumption ==
  /\ MaxCert \in Nat
  /\ NoInode \notin Inode
  /\ Killable \in BOOLEAN

VARIABLES
  source,   \* the certificate that ACME renewed last
  pem,      \* relay_pem
  hash,     \* state_file
  kept,     \* backup files that runs have left behind
  lock,     \* the inode of lock_file
  serving,  \* the certificate that frps has loaded, NoPem when it is down
  run,      \* the runs under way
  good      \* history: the certificate committed last

vars == <<source, pem, hash, kept, lock, serving, run, good>>

PC == {"idle", "opened", "stage", "probe", "backup", "arm", "move", "recreate",
       "health", "reload", "record", "undo", "restore", "revive", "remove",
       "exiting", "cleanup"}

\* before and backup: had_previous and backup_pem; the shell's flags by name.
\* masked: in on_exit with the signals ignored.  failed: the rollback said so.
\* cut: a signal has broken off a rollback before it had undone the install.
\* stays: relay_pem could not be removed, and nobody was told.
Idle == [pc |-> "idle", inode |-> NoInode, new |-> NoPem, before |-> NoPem,
         backup |-> NoPem, installed |-> FALSE, committed |-> FALSE,
         rolling |-> FALSE, masked |-> FALSE, failed |-> FALSE, cut |-> FALSE,
         stays |-> FALSE]

Row == [pc : PC, inode : Inode \cup {NoInode}, new : Pem, before : Pem, backup : Pem,
        installed : BOOLEAN, committed : BOOLEAN, rolling : BOOLEAN,
        masked : BOOLEAN, failed : BOOLEAN, cut : BOOLEAN, stays : BOOLEAN]

TypeOK ==
  /\ source \in Cert
  /\ pem \in Pem /\ hash \in Pem /\ serving \in Pem /\ good \in Pem
  /\ kept \in SUBSET Cert
  /\ lock \in Inode \cup {NoInode}
  /\ run \in [Run -> Row]
  \* only on_exit masks the signals, and it does nothing but roll back and clean up
  /\ \A r \in Run : run[r].masked
       => run[r].pc \in {"restore", "revive", "remove", "cleanup"}

\* A relay set up by hand, or not yet; nothing has been refreshed.
Init ==
  /\ MaxCert > 0 /\ source = 1
  /\ pem \in {NoPem, 1} /\ good = pem /\ serving = pem
  /\ hash = NoPem
  /\ kept = {}
  /\ lock = NoInode
  /\ run = [r \in Run |-> Idle]

-----------------------------------------------------------------------------
files == <<source, hash, kept, lock, good>>

\* The run goes on at a label.  Under set -e that is "exiting" for whatever
\* fails outside of a condition.
Goes(r, label) == run' = [run EXCEPT ![r].pc = label]

\* exec 9>>lock_file: opens the file, and creates it the first time.
Open(r) ==
  /\ run[r].pc = "idle"
  /\ IF lock # NoInode
     THEN lock' = lock
     ELSE \E i \in Inode : (\A q \in Run : run[q].inode # i) /\ lock' = i
  /\ run' = [run EXCEPT ![r].pc = "opened", ![r].inode = lock']
  /\ UNCHANGED <<source, pem, hash, kept, serving, good>>

\* Past flock, in the script or in its exit trap.
Holds(r) == run[r].pc \notin {"idle", "opened"}

\* flock -n: the kernel's lock on the inode; without it the run exits.
Flock(r) ==
  /\ run[r].pc = "opened"
  /\ IF \A q \in Run \ {r} : Holds(q) => run[q].inode # run[r].inode
     THEN Goes(r, "stage")
     ELSE run' = [run EXCEPT ![r] = Idle]
  /\ UNCHANGED <<files, pem, serving>>

\* The source is copied and validated, and compared with what is installed.
Stage(r) ==
  /\ run[r].pc = "stage"
  /\ \/ run' = [run EXCEPT ![r].new = source,
                           ![r].pc = IF source = hash /\ source = pem
                                     THEN "probe" ELSE "backup"]
     \/ Goes(r, "exiting")
  /\ UNCHANGED <<files, pem, serving>>

\* The hashes agree: "unchanged" if frps is healthy too.
Probe(r) ==
  /\ run[r].pc = "probe"
  /\ \/ serving # NoPem /\ Goes(r, "exiting")
     \/ Goes(r, "backup")
  /\ UNCHANGED <<files, pem, serving>>

Backup(r) ==
  /\ run[r].pc = "backup"
  /\ \/ run' = [run EXCEPT ![r].pc = "arm", ![r].before = pem, ![r].backup = pem]
     \/ Goes(r, "exiting")
  /\ UNCHANGED <<files, pem, serving>>

Arm(r) ==
  /\ run[r].pc = "arm"
  /\ run' = [run EXCEPT ![r].pc = "move", ![r].installed = TRUE]
  /\ UNCHANGED <<files, pem, serving>>

\* A slip of the install: the hash is recorded together with it.
MoveAndRecord(r) ==
  /\ run[r].pc = "move"
  /\ pem' = run[r].new
  /\ hash' = run[r].new
  /\ Goes(r, "recreate")
  /\ UNCHANGED <<source, kept, lock, good, serving>>

\* mv tmp_pem relay_pem, which may fail.
Move(r) ==
  /\ run[r].pc = "move"
  /\ \/ pem' = run[r].new /\ Goes(r, "recreate")
     \/ pem' = pem /\ Goes(r, "exiting")
  /\ UNCHANGED <<files, serving>>

\* A slip of compose up, without --force-recreate: a running frps stays as it is.
StartIfDown(r) ==
  /\ run[r].pc = "recreate"
  /\ serving' = IF serving = NoPem THEN pem ELSE serving
  /\ Goes(r, "health")
  /\ UNCHANGED <<files, pem>>

\* compose up --force-recreate, within 120 s: frps loads the PEM, or the
\* command fails before or after it has stopped or started frps.
Recreate(r) ==
  /\ run[r].pc = "recreate"
  /\ \/ serving' = pem /\ Goes(r, "health")
     \/ serving' \in {serving, NoPem, pem} /\ Goes(r, "undo")
  /\ UNCHANGED <<files, pem>>

\* tls_healthy succeeds only when frps serves something valid.
Health(r) ==
  /\ run[r].pc = "health"
  /\ \/ serving # NoPem /\ Goes(r, "reload")
     \/ Goes(r, "undo")
  /\ UNCHANGED <<files, pem, serving>>

\* The reload of nginx, which may fail, and then committed=1.
Commit(r) ==
  /\ run[r].pc = "reload"
  /\ \/ /\ run' = [run EXCEPT ![r].pc = "record", ![r].committed = TRUE]
        /\ good' = run[r].new
     \/ Goes(r, "exiting") /\ good' = good
  /\ UNCHANGED <<source, hash, kept, lock, pem, serving>>

\* The state file; the backup goes next, as it does in cleanup.
Record(r) ==
  /\ run[r].pc = "record"
  /\ hash' = run[r].new \/ hash' = hash
  /\ Goes(r, "exiting")
  /\ UNCHANGED <<source, kept, lock, good, pem, serving>>

-----------------------------------------------------------------------------
(* rollback_install, called by the script itself and by the exit trap.     *)

\* The script exits once it has rolled back, the exit trap cleans up.
After(q) == IF q.masked THEN "cleanup" ELSE "exiting"

\* Where rollback_install begins, and the flag it sets.
RollsBack(q) ==
  [q EXCEPT !.rolling = TRUE, !.pc = IF q.before # NoPem THEN "restore" ELSE "revive"]

Undo(r) ==
  /\ run[r].pc = "undo"
  /\ run' = [run EXCEPT ![r] = RollsBack(run[r])]
  /\ UNCHANGED <<files, pem, serving>>

\* A slip of rollback_install: when mv fails, it goes on as if it had not.
RestoreUnchecked(r) ==
  /\ run[r].pc = "restore"
  /\ pem' \in {run[r].backup, pem}
  /\ run' = [run EXCEPT ![r].backup = NoPem, ![r].installed = FALSE, ![r].pc = "revive"]
  /\ UNCHANGED <<files, serving>>

\* mv backup_pem relay_pem; when it fails the backup is preserved.
Restore(r) ==
  /\ run[r].pc = "restore"
  /\ \/ /\ pem' = run[r].backup
        /\ run' = [run EXCEPT ![r].backup = NoPem, ![r].installed = FALSE, ![r].pc = "revive"]
     \/ /\ pem' = pem
        /\ run' = [run EXCEPT ![r].failed = TRUE, ![r].pc = After(run[r])]
  /\ UNCHANGED <<files, serving>>

\* With a previous PEM frps is recreated, without one it is stopped; neither
\* command has to succeed.
Revive(r) ==
  /\ run[r].pc = "revive"
  /\ serving' \in {serving, NoPem} \cup (IF run[r].before # NoPem THEN {pem} ELSE {})
  /\ Goes(r, IF run[r].before # NoPem THEN After(run[r]) ELSE "remove")
  /\ UNCHANGED <<files, pem>>

\* Where rollback_install ends without a previous PEM, whatever rm has done.
Removed(q, stays) ==
  [q EXCEPT !.installed = FALSE, !.stays = stays, !.pc = After(q)]

\* rm relay_pem.  errexit is off wherever rollback_install is called from, so
\* that a failing rm goes unnoticed.
Remove(r) ==
  /\ run[r].pc = "remove"
  /\ \/ pem' = NoPem /\ run' = [run EXCEPT ![r] = Removed(run[r], FALSE)]
     \/ pem' = pem /\ run' = [run EXCEPT ![r] = Removed(run[r], TRUE)]
  /\ UNCHANGED <<files, serving>>

-----------------------------------------------------------------------------
(* The end of a run.                                                       *)

\* on_exit has removed the EXIT trap; now it ignores signals and rolls back
\* what is installed but not committed, unless a rollback has begun before.
Trap(r) ==
  /\ run[r].pc = "exiting"
  /\ LET q == [run[r] EXCEPT !.masked = TRUE]
     IN  run' = [run EXCEPT ![r] =
           IF q.installed /\ ~q.committed /\ ~q.rolling
           THEN RollsBack(q) ELSE [q EXCEPT !.pc = "cleanup"]]
  /\ UNCHANGED <<files, pem, serving>>

\* What is left of a run's backup file.
Leftover(r) == {run[r].backup} \ {NoPem}

\* A slip of cleanup: the backup goes whether committed or not.
CleanedUp(r) == {}

\* cleanup: the backup file only goes when the update is committed.
Left(r) == IF run[r].committed THEN {} ELSE Leftover(r)

\* A slip of cleanup: the lock file goes too.
Unlinked == NoInode

\* cleanup never unlinks the lock file.
LockFile == lock

\* A command of cleanup that fails ends the run with the backup still there.
Cleanup(r) ==
  /\ run[r].pc = "cleanup"
  /\ kept' \in {kept \cup Left(r), kept \cup Leftover(r)}
  /\ lock' = LockFile
  /\ run' = [run EXCEPT ![r] = Idle]
  /\ UNCHANGED <<source, hash, good, pem, serving>>

Vanishes(r) == run' = [run EXCEPT ![r] = Idle] /\ kept' = kept \cup Leftover(r)

\* HUP, INT or TERM: on_signal exits, into the EXIT trap while there is one.
\* Before the lock is held there is nothing for the trap to do.
Signal(r) ==
  /\ run[r].pc # "idle" /\ ~run[r].masked
  /\ IF run[r].pc \in {"opened", "exiting"}
     THEN Vanishes(r)
     ELSE /\ run' = [run EXCEPT ![r].pc = "exiting",
                                ![r].cut = run[r].rolling /\ run[r].installed]
          /\ kept' = kept
  /\ UNCHANGED <<source, hash, lock, good, pem, serving>>

\* SIGKILL; the kernel drops the lock.
Kill(r) ==
  /\ Killable
  /\ run[r].pc # "idle"
  /\ Vanishes(r)
  /\ UNCHANGED <<source, hash, lock, good, pem, serving>>

\* ACME renews the certificate.
Renew ==
  /\ source < MaxCert
  /\ source' = source + 1
  /\ UNCHANGED <<pem, hash, kept, lock, serving, run, good>>

\* frps goes down, or Docker restarts it and it loads what is installed.
Relay ==
  /\ serving' \in {NoPem, pem}
  /\ UNCHANGED <<files, pem, run>>

Step(r) ==
  \/ Open(r) \/ Flock(r) \/ Stage(r) \/ Probe(r) \/ Backup(r) \/ Arm(r) \/ Move(r)
  \/ Recreate(r) \/ Health(r) \/ Commit(r) \/ Record(r)
  \/ Undo(r) \/ Restore(r) \/ Revive(r) \/ Remove(r)
  \/ Trap(r) \/ Cleanup(r)

Next ==
  \/ \E r \in Run : Step(r) \/ Signal(r) \/ Kill(r)
  \/ Renew
  \/ Relay

Spec == Init /\ [][Next]_vars

-----------------------------------------------------------------------------
\* Never are two runs past the lock, however runs that end, are killed and
\* begin interleave with the opening of the lock file.
OneAtATime == \A q, r \in Run : Holds(q) /\ Holds(r) => q = r

\* The certificate that was committed last is never lost: it is installed or in
\* a backup file, across failures, signals and kills of any number of runs.
GoodIsNotLost ==
  good # NoPem => \/ good = pem
                  \/ good \in kept
                  \/ \E r \in Run : good = run[r].backup

\* What is committed is what is installed, and frps has loaded nothing else; a
\* certificate that frps was not restarted for is never committed.
CommittedIsServed ==
  [][\A r \in Run : ~run[r].committed /\ run'[r].committed
       => pem = run[r].new /\ serving \in {NoPem, run[r].new}]_vars

\* A run that reports "unchanged" is right: frps has not loaded anything else
\* than the source the run saw, also when earlier runs were killed between
\* their install and their commit.
UnchangedIsTrue ==
  [][\A r \in Run : run[r].pc = "probe" /\ run'[r].pc = "exiting"
       => serving \in {NoPem, run[r].new}]_vars

\* "automatically restores the previous PEM unless an authenticated TLS health
\* check succeeds": a run whose exit trap has run to its end has committed, or
\* restored what it found, or said that it could not.
RestoredUnlessHealthy ==
  [][\A r \in Run : run[r].pc = "cleanup" /\ run'[r].pc = "idle" /\ run[r].installed
       => run[r].committed \/ run[r].failed \/ pem = run[r].before]_vars

\* What does hold of that: a run that began to install or to roll back and whose
\* exit trap has run to its end has committed, or said that it could not restore,
\* or left what it found, or was broken off by a signal while it was restoring, or
\* could not remove a PEM that had none before it (rollback_install).
RestoredUnlessCutOff ==
  [][\A r \in Run :
       run[r].pc = "cleanup" /\ run'[r].pc = "idle" /\ (run[r].installed \/ run[r].rolling)
         => \/ run[r].committed \/ run[r].failed \/ run[r].cut
            \/ run[r].stays /\ run[r].before = NoPem
            \/ pem = run[r].before]_vars
=============================================================================
