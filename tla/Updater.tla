------------------------------ MODULE Updater ------------------------------
(***************************************************************************)
(* "ktunnel update" (cmd/ktunnel/update.go): several runs on one installed *)
(* binary, with a lock file that is broken when it is ten minutes old, a   *)
(* download that is checked, a replacement by rename that is verified and  *)
(* rolled back, any step failing and any run killed.                       *)
(*                                                                         *)
(* A file is the release it is the whole binary of, or Torn.  A release is *)
(* the three numbers of its version: the other parts of a version string,  *)
(* and other ways to write the same one, are not stable versions.          *)
(***************************************************************************)
EXTENDS Naturals

CONSTANTS
  Process,       \* slots: runs of ktunnel update
  Release,       \* the releases there ever are
  NoFile, Torn

ASSUME UpdaterAssumption ==
  /\ Release \subseteq Nat \X Nat \X Nat
  /\ NoFile \notin Release /\ Torn \notin Release /\ Torn # NoFile

File == {NoFile, Torn} \cup Release

\* A slip of newerVersion: the loop goes on after a smaller number.
NewerSomewhere(current, release) == \E i \in 1..3 : release[i] > current[i]

\* semver and newerVersion: the first number that differs decides.
Newer(current, release) ==
  \E i \in 1..3 : release[i] > current[i] /\ \A j \in 1..(i - 1) : release[j] = current[j]

VARIABLES
  latest,      \* the release that GitHub names as the latest
  installed,   \* the file at the path of the executable
  lock,        \* .ktunnel-update.lock: there is none, or it is fresh or stale
  stale,       \* the runs by whose clock reading the present lock file is stale
  left,        \* backups that runs have left behind
  run,         \* the runs under way
  good,        \* history: the release last seen to work at the path
  stolen       \* history: a lock file was broken while a run was at work

vars == <<latest, installed, lock, stale, left, run, good, stolen>>

\* Past the lock: the deferred calls of install are still to come.
AtWork == {"download", "checksum", "preflight", "backup", "rename", "verify",
           "rollback", "tidy", "release"}

PC == {"idle", "fetch", "clock", "create", "stat", "break"} \cup AtWork

\* What install returns, and the history of what it found at the path.
Outcome == {"untouched", "updated", "restored", "stuck"}

Idle == [pc |-> "idle", version |-> NoFile, rel |-> NoFile, tmp |-> NoFile,
         backup |-> NoFile, found |-> NoFile, outcome |-> "untouched"]

Row == [pc : PC, version : File, rel : File, tmp : File, backup : File, found : File,
        outcome : Outcome]

TypeOK ==
  /\ latest \in Release
  /\ installed \in File /\ good \in File
  /\ lock \in {"none", "fresh", "stale"}
  /\ stale \in SUBSET Process
  /\ left \in SUBSET File
  /\ run \in [Process -> Row]
  /\ stolen \in BOOLEAN
  \* who is not at work has no files
  /\ \A p \in Process : run[p].pc \notin AtWork
       => run[p].tmp = NoFile /\ run[p].backup = NoFile

Init ==
  /\ latest \in Release
  /\ installed \in Release /\ good = installed
  /\ lock = "none" /\ stale = {}
  /\ left = {}
  /\ run = [p \in Process |-> Idle]
  /\ stolen = FALSE

-----------------------------------------------------------------------------
Goes(p, label) == run' = [run EXCEPT ![p].pc = label]

lockFile == <<lock, stale>>
history  == <<good, stolen>>
At(p, label) == run[p].pc = label

Inside == {p \in Process : run[p].pc \in AtWork}

\* The binary at the path is started; its version is compiled in.
Launch(p) ==
  /\ At(p, "idle")
  /\ run' = [run EXCEPT ![p].pc = "fetch", ![p].version = installed]
  /\ UNCHANGED <<latest, installed, lockFile, left, history>>

\* run(): the latest release, if there is a newer one.
Fetch(p) ==
  /\ At(p, "fetch")
  /\ \/ Newer(run[p].version, latest) /\ run' = [run EXCEPT ![p].pc = "clock", ![p].rel = latest]
     \/ run' = [run EXCEPT ![p] = Idle]
  /\ UNCHANGED <<latest, installed, lockFile, left, history>>

\* acquireExplicitUpdateLock is called with the time: the file that is at the
\* path now is stale or not, and one that is created later is not.
Clock(p) ==
  /\ At(p, "clock")
  /\ Goes(p, "create")
  /\ stale' = IF lock = "stale" THEN stale \cup {p} ELSE stale \ {p}
  /\ UNCHANGED <<latest, installed, lock, left, history>>

\* A slip of O_EXCL: a stale lock file is taken over in place.
FreeOrStale == lock # "fresh"

\* O_CREATE|O_EXCL succeeds.
Free == lock = "none"

Create(p) ==
  /\ At(p, "create")
  /\ \/ /\ Free
        /\ lock' = "fresh" /\ stale' = {}
        /\ run' = [run EXCEPT ![p].pc = "download", ![p].found = installed]
     \/ ~Free /\ Goes(p, "stat") /\ UNCHANGED lockFile
     \/ run' = [run EXCEPT ![p] = Idle] /\ UNCHANGED lockFile
  /\ UNCHANGED <<latest, installed, left, history>>

\* A lock file that is gone, or not stale: somebody is updating.
Stat(p) ==
  /\ At(p, "stat")
  /\ IF p \in stale THEN Goes(p, "break") ELSE run' = [run EXCEPT ![p] = Idle]
  /\ UNCHANGED <<latest, installed, lockFile, left, history>>

\* os.Remove takes whichever file is there by now.  The second round of the
\* loop cannot come here again: no other file is stale by the same clock reading.
Break(p) ==
  /\ At(p, "break")
  /\ \/ /\ lock # "none"
        /\ lock' = "none" /\ stale' = {}
        /\ stolen' = (stolen \/ Inside # {})
        /\ Goes(p, "create")
     \/ run' = [run EXCEPT ![p] = Idle] /\ UNCHANGED <<lockFile, stolen>>
  /\ UNCHANGED <<latest, installed, left, good>>

-----------------------------------------------------------------------------
(* install, past the lock.                                                 *)

\* A failure runs the deferred calls.
Fails == "tidy"

\* Into the temporary file, completely or not.
Download(p) ==
  /\ At(p, "download")
  /\ \/ \E f \in {run[p].rel, Torn} :
          run' = [run EXCEPT ![p].tmp = f, ![p].pc = "checksum"]
     \/ Goes(p, Fails)
  /\ UNCHANGED <<latest, installed, lockFile, left, history>>

\* A slip of install: the checksum is not compared.
ChecksumSkipped(p) ==
  /\ At(p, "checksum")
  /\ Goes(p, "preflight") \/ Goes(p, Fails)
  /\ UNCHANGED <<latest, installed, lockFile, left, history>>

\* The SHA-256 of the release, and then chmod, sync and close.
Checksum(p) ==
  /\ At(p, "checksum")
  /\ \/ run[p].tmp = run[p].rel /\ Goes(p, "preflight")
     \/ Goes(p, Fails)
  /\ UNCHANGED <<latest, installed, lockFile, left, history>>

\* verifyBinary of the temporary file, which may fail for whatever reason.
Preflight(p) ==
  /\ At(p, "preflight")
  /\ Goes(p, "backup") \/ Goes(p, Fails)
  /\ UNCHANGED <<latest, installed, lockFile, left, history>>

\* backupExecutable: a copy of the file at the path, complete or removed.
Backup(p) ==
  /\ At(p, "backup")
  /\ \/ run' = [run EXCEPT ![p].backup = installed, ![p].pc = "rename"]
     \/ Goes(p, Fails)
  /\ UNCHANGED <<latest, installed, lockFile, left, history>>

Rename(p) ==
  /\ At(p, "rename")
  /\ \/ installed' = run[p].tmp /\ run' = [run EXCEPT ![p].tmp = NoFile, ![p].pc = "verify"]
     \/ installed' = installed /\ Goes(p, Fails)
  /\ UNCHANGED <<latest, lockFile, left, history>>

\* verifyBinary of the path: another release does not print this one's version.
Works(p) == installed \in {run[p].rel, Torn}

\* A slip of install: a failed verification is reported and nothing more.
VerifyOnly(p) ==
  /\ At(p, "verify")
  /\ \/ /\ Works(p) /\ good' = installed
        /\ run' = [run EXCEPT ![p].pc = "tidy", ![p].outcome = "updated"]
     \/ Goes(p, Fails) /\ good' = good
  /\ UNCHANGED <<latest, installed, lockFile, left, stolen>>

Verify(p) ==
  /\ At(p, "verify")
  /\ \/ /\ Works(p) /\ good' = installed
        /\ run' = [run EXCEPT ![p].pc = "tidy", ![p].outcome = "updated"]
     \/ Goes(p, "rollback") /\ good' = good
  /\ UNCHANGED <<latest, installed, lockFile, left, stolen>>

\* A slip of install: cleanupBackup stays true when the rollback fails.
RollbackOrDrop(p) ==
  /\ At(p, "rollback")
  /\ \/ /\ installed' = run[p].backup
        /\ run' = [run EXCEPT ![p].backup = NoFile, ![p].pc = "tidy", ![p].outcome = "restored"]
     \/ /\ installed' = installed
        /\ run' = [run EXCEPT ![p].pc = "tidy", ![p].outcome = "stuck"]
  /\ UNCHANGED <<latest, lockFile, left, history>>

\* os.Rename(backup, path); when it fails the backup stays.
Rollback(p) ==
  /\ At(p, "rollback")
  /\ \/ /\ installed' = run[p].backup /\ left' = left
        /\ run' = [run EXCEPT ![p].backup = NoFile, ![p].pc = "tidy", ![p].outcome = "restored"]
     \/ /\ installed' = installed /\ left' = left \cup {run[p].backup}
        /\ run' = [run EXCEPT ![p].backup = NoFile, ![p].pc = "tidy", ![p].outcome = "stuck"]
  /\ UNCHANGED <<latest, lockFile, history>>

Leftover(p) == {run[p].backup} \ {NoFile}

\* The deferred removals of the temporary file and of the backup, which may fail.
Tidy(p) ==
  /\ At(p, "tidy")
  /\ left' \in {left, left \cup Leftover(p)}
  /\ run' = [run EXCEPT ![p].tmp = NoFile, ![p].backup = NoFile, ![p].pc = "release"]
  /\ UNCHANGED <<latest, installed, lockFile, history>>

\* releaseLock: whichever file is at the path of the lock.
ReleaseLock(p) ==
  /\ At(p, "release")
  /\ lock' = "none" /\ stale' = {}
  /\ run' = [run EXCEPT ![p] = Idle]
  /\ UNCHANGED <<latest, installed, left, history>>

-----------------------------------------------------------------------------
\* The run is killed; its files stay, and the lock file too.
Crash(p) ==
  /\ run[p].pc # "idle"
  /\ left' = left \cup Leftover(p)
  /\ run' = [run EXCEPT ![p] = Idle]
  /\ UNCHANGED <<latest, installed, lockFile, history>>

\* Ten minutes pass for the lock file.
Ages ==
  /\ lock = "fresh"
  /\ lock' = "stale"
  /\ UNCHANGED <<latest, installed, stale, left, run, history>>

\* GitHub names another release as the latest; it may also withdraw one.
Publish ==
  /\ latest' \in Release \ {latest}
  /\ UNCHANGED <<installed, lockFile, left, run, history>>

Step(p) ==
  \/ Launch(p) \/ Fetch(p) \/ Clock(p) \/ Create(p) \/ Stat(p) \/ Break(p)
  \/ Download(p) \/ Checksum(p) \/ Preflight(p) \/ Backup(p) \/ Rename(p)
  \/ Verify(p) \/ Rollback(p) \/ Tidy(p) \/ ReleaseLock(p)

Next ==
  \/ \E p \in Process : Step(p) \/ Crash(p)
  \/ Ages
  \/ Publish

Spec == Init /\ [][Next]_vars

-----------------------------------------------------------------------------
\* "atomically replacing the current binary": the path always holds a whole
\* release, whatever fails, is killed or races, the lock file lost or not.
InstalledWhole == installed \in Release

\* While no lock file has been broken under a run at work, one run at most is
\* at work, however many are killed and leave lock files that are broken later.
Exclusive == ~stolen => \A p, q \in Inside : p = q

\* And then the release last seen to work at the path is there, or in a backup.
GoodIsNotLost ==
  ~stolen => \/ good = installed
             \/ good \in left
             \/ \E p \in Process : good = run[p].backup

\* And then an update ends as it reports: its release is installed, or what it
\* found is, or the rollback has failed and what it found is in a backup.
EndsAsReported ==
  ~stolen => \A p \in Process : run[p].pc \in {"tidy", "release"} =>
    CASE run[p].outcome = "updated" -> installed = run[p].rel
      [] run[p].outcome = "stuck"   -> run[p].found \in left
      [] OTHER                      -> installed = run[p].found

\* The order of releases: major, minor, patch.
Precedes(a, b) ==
  \/ a[1] < b[1]
  \/ a[1] = b[1] /\ (a[2] < b[2] \/ (a[2] = b[2] /\ a[3] < b[3]))

\* And the path only goes back to an older release in a rollback, or when an update
\* that had decided on its release before was overtaken by another one.
GoesForward ==
  [][~stolen /\ installed' # installed =>
       \/ Precedes(installed, installed')
       \/ \E p \in Process : At(p, "rollback") /\ installed' = run[p].found
       \/ \E p \in Process : At(p, "rename") /\ run[p].version # run[p].found]_vars
=============================================================================
