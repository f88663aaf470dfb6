--------------------------- MODULE UpdaterProofs ---------------------------
(***************************************************************************)
(* Safety of Updater for every number of runs and releases.                *)
(***************************************************************************)
EXTENDS Updater, TLAPS

(* The inductive invariant, in parts.                                      *)

\* What a run holds is whole from the checksum on, and untouched before the lock.
Whole(q) ==
  /\ q.pc \in AtWork \cup {"clock", "create", "stat", "break"} => q.rel \in Release
  /\ q.pc \in {"preflight", "backup", "rename"} => q.tmp = q.rel
  /\ q.backup \in Release \cup {NoFile}
  /\ q.pc \in {"rename", "verify", "rollback"} => q.backup \in Release
  /\ q.pc \notin AtWork => q.outcome = "untouched"
  /\ q.pc \in AtWork \ {"tidy", "release"} => q.outcome = "untouched"

RunsWhole == \A p \in Process : Whole(run[p])

\* Who is at work has a lock file.
LockHeld == ~stolen => \A p \in Inside : lock # "none"

\* While a run is at work alone, its history tells what is at the path.
Alone(q) ==
  /\ q.pc \in {"download", "checksum", "preflight", "backup", "rename"} => installed = q.found
  /\ q.pc \in {"rename", "verify", "rollback"} => q.backup = q.found
  /\ q.pc \in {"verify", "rollback"} => installed = q.rel
  /\ q.pc \in {"tidy", "release"} =>
       /\ q.outcome = "updated" => installed = q.rel /\ good = installed
       /\ q.outcome = "stuck" => q.found \in left
       /\ q.outcome \in {"untouched", "restored"} => installed = q.found

RunsAlone == ~stolen => \A p \in Inside : Alone(run[p])

\* What was seen to work is in a backup left behind, or it is what the run at
\* work has found, or what is installed when none is.
GoodKnown ==
  ~stolen => \/ good \in left
             \/ \E p \in Inside : good = run[p].found /\ run[p].outcome # "updated"
             \/ good = installed /\ \A p \in Inside : run[p].pc \in {"tidy", "release"}

IInv ==
  /\ TypeOK /\ InstalledWhole /\ RunsWhole
  /\ LockHeld /\ Exclusive /\ RunsAlone /\ GoodKnown

-----------------------------------------------------------------------------
(* Each step of a run preserves the invariant, part by part.               *)

\* A blank row is a row.
LEMMA Rows == Idle \in Row
<1>1. "idle" \in PC /\ NoFile \in File /\ "untouched" \in Outcome
  BY DEF PC, File, Outcome
<1> QED
  BY <1>1 DEF Idle, Row

\* And so is the row of a run that goes on with a file, or with nothing new.
LEMMA GoneOnRow == \A q \in Row, l \in PC : [q EXCEPT !.pc = l] \in Row
BY DEF Row

LEMMA BackedUpRow == \A q \in Row, f \in File : [q EXCEPT !.backup = f, !.pc = "rename"] \in Row
BY DEF Row, PC, AtWork

LEMMA LockedRow == \A q \in Row, f \in File : [q EXCEPT !.found = f, !.pc = "download"] \in Row
BY DEF Row, PC, AtWork

LEMMA RenamedRow == \A q \in Row : [q EXCEPT !.tmp = NoFile, !.pc = "verify"] \in Row
BY DEF Row, PC, AtWork, File

LEMMA UpdatedRow == \A q \in Row : [q EXCEPT !.pc = "tidy", !.outcome = "updated"] \in Row
BY DEF Row, PC, AtWork, Outcome

LEMMA LaunchKeeps == ASSUME IInv, NEW p \in Process, Launch(p) PROVE IInv'
<1> USE UpdaterAssumption DEF IInv, TypeOK, InstalledWhole, RunsWhole, LockHeld, Exclusive,
       Inside, AtWork, Launch, At, lockFile, history
<1>1. TypeOK'
  <2>1. run[p] \in Row /\ installed \in File
    OBVIOUS
  <2>2. [[run[p] EXCEPT !.pc = "fetch"] EXCEPT !.version = installed] \in Row
    BY <2>1 DEF Row, PC
  <2>3. run'[p] \in Row /\ run' \in [Process -> Row]
    BY <2>1, <2>2 DEF Row, PC
  <2> QED
    BY <2>3 DEF Row
<1>2. InstalledWhole' /\ RunsWhole'
  BY DEF Row, Whole, File
<1>3. LockHeld' /\ Exclusive'
  BY DEF Row
<1>4. RunsAlone'
  BY DEF Row, Whole, RunsAlone, Alone
<1>5. GoodKnown'
  BY DEF Row, Whole, RunsAlone, Alone, GoodKnown, Outcome
<1> QED
  BY <1>1, <1>2, <1>3, <1>4, <1>5

LEMMA FetchKeeps == ASSUME IInv, NEW p \in Process, Fetch(p) PROVE IInv'
<1> USE UpdaterAssumption DEF IInv, TypeOK, InstalledWhole, RunsWhole, LockHeld, Exclusive,
       Inside, AtWork, Fetch, At, lockFile, history, Idle
<1>1. TypeOK'
  <2>1. run' \in [Process -> Row]
    <3> HIDE DEF Idle
    <3> QED
      BY Rows DEF Row, PC, File
  <2> QED
    BY <2>1 DEF Row, File
<1>2. InstalledWhole' /\ RunsWhole'
  BY DEF Row, Whole, File
<1>3. LockHeld' /\ Exclusive'
  BY DEF Row
<1>4. RunsAlone'
  BY DEF Row, Whole, RunsAlone, Alone
<1>5. GoodKnown'
  BY DEF Row, Whole, RunsAlone, Alone, GoodKnown, Outcome
<1> QED
  BY <1>1, <1>2, <1>3, <1>4, <1>5

LEMMA ClockKeeps == ASSUME IInv, NEW p \in Process, Clock(p) PROVE IInv'
<1> USE UpdaterAssumption DEF IInv, TypeOK, InstalledWhole, RunsWhole, LockHeld, Exclusive,
       Inside, AtWork, Clock, At, lockFile, history, Goes
<1>1. TypeOK'
  BY DEF Row, PC, File, Outcome
<1>2. InstalledWhole' /\ RunsWhole'
  BY DEF Row, Whole, File
<1>3. LockHeld' /\ Exclusive'
  BY DEF Row
<1>4. RunsAlone'
  BY DEF Row, Whole, RunsAlone, Alone
<1>5. GoodKnown'
  BY DEF Row, Whole, RunsAlone, Alone, GoodKnown, Outcome
<1> QED
  BY <1>1, <1>2, <1>3, <1>4, <1>5

LEMMA CreateKeeps == ASSUME IInv, NEW p \in Process, Create(p) PROVE IInv'
<1> USE UpdaterAssumption DEF IInv, TypeOK, InstalledWhole, RunsWhole, LockHeld, Exclusive,
       Inside, AtWork, Create, At, lockFile, history, Free, Goes, Idle
<1>1. TypeOK'
  <2>1. run' \in [Process -> Row]
    <3> HIDE DEF Idle, IInv, Create
    <3>1. run \in [Process -> Row] /\ installed \in File /\ "stat" \in PC
      BY DEF IInv, PC, File
    <3>2. CASE run' = [run EXCEPT ![p] = [run[p] EXCEPT !.found = installed, !.pc = "download"]]
      BY <3>1, <3>2, LockedRow
    <3>3. CASE \E l \in PC : run' = [run EXCEPT ![p] = [run[p] EXCEPT !.pc = l]]
      BY <3>1, <3>3, GoneOnRow
    <3>4. CASE run' = [run EXCEPT ![p] = Idle]
      BY <3>1, <3>4, Rows
    <3> QED
      BY <3>1, <3>2, <3>3, <3>4 DEF Create
  <2>2. \A q \in Process : run'[q].pc \notin AtWork => run'[q].tmp = NoFile /\ run'[q].backup = NoFile
    BY DEF Row
  <2> QED
    BY <2>1, <2>2
<1>2. InstalledWhole' /\ RunsWhole'
  BY DEF Row, Whole, File
<1>3. LockHeld' /\ Exclusive'
  BY DEF Row
<1>4. RunsAlone'
  BY DEF Row, Whole, RunsAlone, Alone
<1>5. GoodKnown'
  BY DEF Row, Whole, RunsAlone, Alone, GoodKnown, Outcome
<1> QED
  BY <1>1, <1>2, <1>3, <1>4, <1>5

LEMMA StatKeeps == ASSUME IInv, NEW p \in Process, Stat(p) PROVE IInv'
<1> USE UpdaterAssumption DEF IInv, TypeOK, InstalledWhole, RunsWhole, LockHeld, Exclusive,
       Inside, AtWork, Stat, At, lockFile, history, Goes, Idle
<1>1. TypeOK'
  <2>1. run' \in [Process -> Row]
    <3> HIDE DEF Idle
    <3> QED
      BY Rows DEF Row, PC, File
  <2> QED
    BY <2>1 DEF Row, File
<1>2. InstalledWhole' /\ RunsWhole'
  BY DEF Row, Whole, File
<1>3. LockHeld' /\ Exclusive'
  BY DEF Row
<1>4. RunsAlone'
  BY DEF Row, Whole, RunsAlone, Alone
<1>5. GoodKnown'
  BY DEF Row, Whole, RunsAlone, Alone, GoodKnown, Outcome
<1> QED
  BY <1>1, <1>2, <1>3, <1>4, <1>5

LEMMA BreakKeeps == ASSUME IInv, NEW p \in Process, Break(p) PROVE IInv'
<1> USE UpdaterAssumption DEF IInv, TypeOK, InstalledWhole, RunsWhole, LockHeld, Exclusive,
       Inside, AtWork, Break, At, lockFile, history, Goes, Idle
<1>1. TypeOK'
  <2>1. run' \in [Process -> Row]
    <3> HIDE DEF Idle
    <3>1. CASE Goes(p, "create")
      BY <3>1 DEF Row, PC
    <3>2. CASE run' = [run EXCEPT ![p] = Idle]
      BY <3>2, Rows
    <3> QED
      BY <3>1, <3>2
  <2>2. lock' \in {"none", "fresh", "stale"} /\ stale' \in SUBSET Process /\ stolen' \in BOOLEAN
    OBVIOUS
  <2>3. \A q \in Process : run'[q].pc \notin AtWork => run'[q].tmp = NoFile /\ run'[q].backup = NoFile
    BY DEF Row
  <2> QED
    BY <2>1, <2>2, <2>3
<1>2. InstalledWhole' /\ RunsWhole'
  BY DEF Row, Whole, File
<1>3. LockHeld' /\ Exclusive'
  <2>1. \A q \in Process : run'[q].pc \in AtWork => run'[q] = run[q] /\ q # p
    BY DEF Row
  <2>2. Inside = {} => \A q \in Process : run[q].pc \notin AtWork
    OBVIOUS
  <2>3. CASE stolen' = (stolen \/ Inside # {})
    BY <2>1, <2>2, <2>3
  <2>4. CASE UNCHANGED <<lockFile, stolen>>
    BY <2>1, <2>4
  <2> QED
    BY <2>3, <2>4
<1>4. RunsAlone'
  BY DEF Row, Whole, RunsAlone, Alone
<1>5. GoodKnown'
  BY DEF Row, Whole, RunsAlone, Alone, GoodKnown, Outcome
<1> QED
  BY <1>1, <1>2, <1>3, <1>4, <1>5

LEMMA DownloadKeeps == ASSUME IInv, NEW p \in Process, Download(p) PROVE IInv'
<1> USE UpdaterAssumption DEF IInv, TypeOK, InstalledWhole, RunsWhole, LockHeld, Exclusive,
       Inside, AtWork, Download, At, lockFile, history, Goes, Fails
<1>1. TypeOK'
  BY DEF Row, PC, File, Outcome
<1>2. InstalledWhole' /\ RunsWhole'
  BY DEF Row, Whole, File
<1>3. LockHeld' /\ Exclusive'
  BY DEF Row
<1>4. RunsAlone'
  BY DEF Row, Whole, RunsAlone, Alone
<1>5. GoodKnown'
  BY DEF Row, Whole, RunsAlone, Alone, GoodKnown, Outcome
<1> QED
  BY <1>1, <1>2, <1>3, <1>4, <1>5

LEMMA ChecksumKeeps == ASSUME IInv, NEW p \in Process, Checksum(p) PROVE IInv'
<1> USE UpdaterAssumption DEF IInv, TypeOK, InstalledWhole, RunsWhole, LockHeld, Exclusive,
       Inside, AtWork, Checksum, At, lockFile, history, Goes, Fails
<1>1. TypeOK'
  BY DEF Row, PC, File, Outcome
<1>2. InstalledWhole' /\ RunsWhole'
  BY DEF Row, Whole, File
<1>3. LockHeld' /\ Exclusive'
  BY DEF Row
<1>4. RunsAlone'
  BY DEF Row, Whole, RunsAlone, Alone
<1>5. GoodKnown'
  BY DEF Row, Whole, RunsAlone, Alone, GoodKnown, Outcome
<1> QED
  BY <1>1, <1>2, <1>3, <1>4, <1>5

LEMMA PreflightKeeps == ASSUME IInv, NEW p \in Process, Preflight(p) PROVE IInv'
<1> USE UpdaterAssumption DEF IInv, TypeOK, InstalledWhole, RunsWhole, LockHeld, Exclusive,
       Inside, AtWork, Preflight, At, lockFile, history, Goes, Fails
<1>1. TypeOK'
  BY DEF Row, PC, File, Outcome
<1>2. InstalledWhole' /\ RunsWhole'
  BY DEF Row, Whole, File
<1>3. LockHeld' /\ Exclusive'
  BY DEF Row
<1>4. RunsAlone'
  BY DEF Row, Whole, RunsAlone, Alone
<1>5. GoodKnown'
  BY DEF Row, Whole, RunsAlone, Alone, GoodKnown, Outcome
<1> QED
  BY <1>1, <1>2, <1>3, <1>4, <1>5

LEMMA BackupKeeps == ASSUME IInv, NEW p \in Process, Backup(p) PROVE IInv'
<1> USE UpdaterAssumption DEF IInv, TypeOK, InstalledWhole, RunsWhole, LockHeld, Exclusive,
       Inside, AtWork, Backup, At, lockFile, history, Goes, Fails
<1>1. TypeOK'
  <2>1. "tidy" \in PC /\ "rollback" \in PC /\ installed \in File
    BY DEF PC, File
  <2>2. run' \in [Process -> Row]
    <3> HIDE DEF IInv, Row, Backup
    <3>1. run \in [Process -> Row]
      BY DEF IInv
    <3>2. CASE run' = [run EXCEPT ![p] = [run[p] EXCEPT !.backup = installed, !.pc = "rename"]]
      BY <2>1, <3>1, <3>2, BackedUpRow
    <3>3. CASE \E l \in PC : run' = [run EXCEPT ![p] = [run[p] EXCEPT !.pc = l]]
      BY <3>1, <3>3, GoneOnRow
    <3> QED
      BY <2>1, <3>2, <3>3 DEF Backup
  <2>3. \A q \in Process : run'[q].pc \notin AtWork => run'[q].tmp = NoFile /\ run'[q].backup = NoFile
    BY DEF Row
  <2> QED
    BY <2>1, <2>2, <2>3
<1>2. InstalledWhole' /\ RunsWhole'
  BY DEF Row, Whole, File
<1>3. LockHeld' /\ Exclusive'
  BY DEF Row
<1>4. RunsAlone'
  BY DEF Row, Whole, RunsAlone, Alone
<1>5. GoodKnown'
  BY DEF Row, Whole, RunsAlone, Alone, GoodKnown, Outcome
<1> QED
  BY <1>1, <1>2, <1>3, <1>4, <1>5

LEMMA RenameKeeps == ASSUME IInv, NEW p \in Process, Rename(p) PROVE IInv'
<1> USE UpdaterAssumption DEF IInv, TypeOK, InstalledWhole, RunsWhole, LockHeld, Exclusive,
       Inside, AtWork, Rename, At, lockFile, history, Goes, Fails
<1>1. TypeOK'
  <2>1. "tidy" \in PC /\ "rollback" \in PC /\ installed \in File
    BY DEF PC, File
  <2>2. run' \in [Process -> Row]
    <3> HIDE DEF IInv, Row, Rename
    <3>1. run \in [Process -> Row]
      BY DEF IInv
    <3>2. CASE run' = [run EXCEPT ![p] = [run[p] EXCEPT !.tmp = NoFile, !.pc = "verify"]]
      BY <2>1, <3>1, <3>2, RenamedRow
    <3>3. CASE \E l \in PC : run' = [run EXCEPT ![p] = [run[p] EXCEPT !.pc = l]]
      BY <3>1, <3>3, GoneOnRow
    <3> QED
      BY <2>1, <3>2, <3>3 DEF Rename
  <2>3. installed' \in File
    <3>1. run[p] \in Row
      OBVIOUS
    <3>2. run[p].tmp \in File
      BY <3>1 DEF Row
    <3> QED
      BY <2>1, <3>2
  <2>4. \A q \in Process : run'[q].pc \notin AtWork => run'[q].tmp = NoFile /\ run'[q].backup = NoFile
    <3> run[p] \in Row
      OBVIOUS
    <3>1. run'[p].pc \in {"verify", "tidy"}
      BY DEF Row
    <3>2. \A q \in Process \ {p} : run'[q] = run[q]
      OBVIOUS
    <3> QED
      BY <3>1, <3>2
  <2> QED
    BY <2>1, <2>2, <2>3, <2>4
<1>2. InstalledWhole' /\ RunsWhole'
  BY DEF Row, Whole, File
<1>3. LockHeld' /\ Exclusive'
  BY DEF Row
<1>4. RunsAlone'
  BY DEF Row, Whole, RunsAlone, Alone
<1>5. GoodKnown'
  BY DEF Row, Whole, RunsAlone, Alone, GoodKnown, Outcome
<1> QED
  BY <1>1, <1>2, <1>3, <1>4, <1>5

LEMMA VerifyKeeps == ASSUME IInv, NEW p \in Process, Verify(p) PROVE IInv'
<1> USE UpdaterAssumption DEF IInv, TypeOK, InstalledWhole, RunsWhole, LockHeld, Exclusive,
       Inside, AtWork, Verify, At, lockFile, history, Goes, Works
<1>1. TypeOK'
  <2>1. "tidy" \in PC /\ "rollback" \in PC /\ installed \in File
    BY DEF PC, File
  <2>2. run' \in [Process -> Row]
    <3> HIDE DEF IInv, Row, Verify
    <3>1. run \in [Process -> Row]
      BY DEF IInv
    <3>2. CASE run' = [run EXCEPT ![p] = [run[p] EXCEPT !.pc = "tidy", !.outcome = "updated"]]
      BY <2>1, <3>1, <3>2, UpdatedRow
    <3>3. CASE \E l \in PC : run' = [run EXCEPT ![p] = [run[p] EXCEPT !.pc = l]]
      BY <3>1, <3>3, GoneOnRow
    <3> QED
      BY <2>1, <3>2, <3>3 DEF Verify
  <2>3. \A q \in Process : run'[q].pc \notin AtWork => run'[q].tmp = NoFile /\ run'[q].backup = NoFile
    BY DEF Row
  <2> QED
    BY <2>1, <2>2, <2>3
<1>2. InstalledWhole' /\ RunsWhole'
  <2>1. \A q \in Process \ {p} : run'[q] = run[q]
    OBVIOUS
  <2>2. /\ run'[p].pc \in {"tidy", "rollback"}
        /\ run'[p].rel = run[p].rel /\ run'[p].backup = run[p].backup
        /\ run'[p].pc = "rollback" => run'[p].outcome = run[p].outcome
    BY DEF Row
  <2>3. run[p].rel \in Release /\ run[p].backup \in Release /\ run[p].outcome = "untouched"
    BY DEF Whole
  <2>4. Whole(run'[p])
    BY <2>2, <2>3 DEF Whole
  <2> QED
    BY <2>1, <2>4
<1>3. LockHeld' /\ Exclusive'
  BY DEF Row
<1>4. RunsAlone'
  BY DEF Row, Whole, RunsAlone, Alone
<1>5. GoodKnown'
  BY DEF Row, Whole, RunsAlone, Alone, GoodKnown, Outcome
<1> QED
  BY <1>1, <1>2, <1>3, <1>4, <1>5

LEMMA RollbackKeeps == ASSUME IInv, NEW p \in Process, Rollback(p) PROVE IInv'
<1> USE UpdaterAssumption DEF IInv, TypeOK, InstalledWhole, RunsWhole, LockHeld, Exclusive,
       Inside, AtWork, Rollback, At, lockFile, history
<1>1. TypeOK'
  <2>1. run[p] \in Row /\ run[p].backup \in File
    BY DEF Row
  <2>2. run' \in [Process -> Row]
    BY <2>1 DEF Row, PC, File, Outcome
  <2>3. installed' \in File /\ left' \in SUBSET File
    BY <2>1
  <2>4. \A q \in Process : run'[q].pc \notin AtWork => run'[q].tmp = NoFile /\ run'[q].backup = NoFile
    BY DEF Row
  <2> QED
    BY <2>2, <2>3, <2>4
<1>2. InstalledWhole' /\ RunsWhole'
  BY DEF Row, Whole, File
<1>3. LockHeld' /\ Exclusive'
  BY DEF Row
<1>4. RunsAlone'
  BY DEF Row, Whole, RunsAlone, Alone
<1>5. GoodKnown'
  BY DEF Row, Whole, RunsAlone, Alone, GoodKnown, Outcome
<1> QED
  BY <1>1, <1>2, <1>3, <1>4, <1>5

LEMMA TidyKeeps == ASSUME IInv, NEW p \in Process, Tidy(p) PROVE IInv'
<1> USE UpdaterAssumption DEF IInv, TypeOK, InstalledWhole, RunsWhole, LockHeld, Exclusive,
       Inside, AtWork, Tidy, At, lockFile, history, Leftover
<1>1. TypeOK'
  BY DEF Row, PC, File, Outcome
<1>2. InstalledWhole' /\ RunsWhole'
  BY DEF Row, Whole, File
<1>3. LockHeld' /\ Exclusive'
  BY DEF Row
<1>4. RunsAlone'
  BY DEF Row, Whole, RunsAlone, Alone
<1>5. GoodKnown'
  BY DEF Row, Whole, RunsAlone, Alone, GoodKnown, Outcome
<1> QED
  BY <1>1, <1>2, <1>3, <1>4, <1>5

LEMMA ReleaseLockKeeps == ASSUME IInv, NEW p \in Process, ReleaseLock(p) PROVE IInv'
<1> USE UpdaterAssumption DEF IInv, TypeOK, InstalledWhole, RunsWhole, LockHeld, Exclusive,
       Inside, AtWork, ReleaseLock, At, lockFile, history, Idle
<1>1. TypeOK'
  <2>1. run' \in [Process -> Row]
    <3> HIDE DEF Idle
    <3> QED
      BY Rows DEF Row, PC, File
  <2> QED
    BY <2>1 DEF Row, File
<1>2. InstalledWhole' /\ RunsWhole'
  BY DEF Row, Whole, File
<1>3. LockHeld' /\ Exclusive'
  BY DEF Row
<1>4. RunsAlone'
  BY DEF Row, Whole, RunsAlone, Alone
<1>5. GoodKnown'
  BY DEF Row, Whole, RunsAlone, Alone, GoodKnown, Outcome
<1> QED
  BY <1>1, <1>2, <1>3, <1>4, <1>5

LEMMA CrashKeeps == ASSUME IInv, NEW p \in Process, Crash(p) PROVE IInv'
<1>1. TypeOK'
  <2>1. TypeOK /\ run[p].backup \in File
    BY DEF IInv, TypeOK, Row
  <2>2. run' = [run EXCEPT ![p] = Idle] /\ left' = left \cup Leftover(p)
    BY DEF Crash
  <2>3. UNCHANGED <<latest, installed, lock, stale, good, stolen>>
    BY DEF Crash, lockFile, history
  <2>4. run' \in [Process -> Row]
    BY <2>1, <2>2, Rows DEF TypeOK
  <2>5. left' \in SUBSET File
    BY <2>1, <2>2 DEF TypeOK, Leftover
  <2>6. ASSUME NEW q \in Process, run'[q].pc \notin AtWork
        PROVE  run'[q].tmp = NoFile /\ run'[q].backup = NoFile
    <3>1. CASE q = p
      BY <2>1, <2>2, <3>1 DEF TypeOK, Idle
    <3>2. CASE q # p
      BY <2>1, <2>2, <2>6, <3>2 DEF TypeOK
    <3> QED
      BY <3>1, <3>2
  <2> QED
    BY <2>1, <2>3, <2>4, <2>5, <2>6 DEF TypeOK
<1> USE UpdaterAssumption DEF IInv, TypeOK, InstalledWhole, RunsWhole, LockHeld, Exclusive,
       Inside, AtWork, Crash, lockFile, history, Leftover, Idle
<1>2. InstalledWhole' /\ RunsWhole'
  BY DEF Row, Whole, File
<1>3. LockHeld' /\ Exclusive'
  BY DEF Row
<1>4. RunsAlone'
  BY DEF Row, Whole, RunsAlone, Alone
<1>5. GoodKnown'
  BY DEF Row, Whole, RunsAlone, Alone, GoodKnown, Outcome
<1> QED
  BY <1>1, <1>2, <1>3, <1>4, <1>5

LEMMA AgesKeeps == ASSUME IInv, Ages PROVE IInv'
BY DEF IInv, Ages, history, TypeOK, InstalledWhole, RunsWhole, LockHeld, Exclusive, Inside,
   RunsAlone,
       Alone, GoodKnown

LEMMA PublishKeeps == ASSUME IInv, Publish PROVE IInv'
<1> USE DEF IInv, Publish, lockFile, history
<1>1. TypeOK'
  <2>1. latest' \in Release
    OBVIOUS
  <2> QED
    BY <2>1 DEF TypeOK
<1>2. (InstalledWhole /\ RunsWhole /\ LockHeld /\ Exclusive /\ RunsAlone /\ GoodKnown)'
  BY DEF InstalledWhole, RunsWhole, LockHeld, Exclusive, Inside, RunsAlone, Alone, GoodKnown
<1> QED
  BY <1>1, <1>2

LEMMA StutterKeeps == ASSUME IInv, UNCHANGED vars PROVE IInv'
BY DEF IInv, vars, TypeOK, InstalledWhole, RunsWhole, LockHeld, Exclusive, Inside, RunsAlone, Alone,
       GoodKnown

LEMMA Start == ASSUME Init PROVE IInv
<1>1. latest \in Release /\ installed \in Release /\ installed \in File
  BY DEF Init, File
<1>2. \A p \in Process : run[p] = Idle
  BY DEF Init
<1>3. Inside = {}
  BY <1>2 DEF Inside, AtWork, Idle
<1>4. TypeOK
  <2>1. run \in [Process -> Row]
    BY Rows DEF Init
  <2> QED
    BY <1>1, <1>2, <2>1 DEF Init, TypeOK, File, Idle
<1>5. RunsWhole
  <2>1. Idle.pc = "idle" /\ Idle.backup = NoFile /\ Idle.outcome = "untouched"
    BY DEF Idle
  <2>2. Whole(Idle)
    BY <2>1 DEF Whole, AtWork
  <2> QED
    BY <1>2, <2>2 DEF RunsWhole
<1>6. InstalledWhole /\ LockHeld /\ Exclusive /\ RunsAlone /\ GoodKnown
  BY <1>1, <1>3 DEF Init, InstalledWhole, LockHeld, Exclusive, RunsAlone, GoodKnown
<1> QED
  BY <1>4, <1>5, <1>6 DEF IInv

LEMMA NextKeeps == ASSUME IInv, [Next]_vars PROVE IInv'
<1>1. ASSUME NEW p \in Process, Step(p) \/ Crash(p)
      PROVE  IInv'
  BY <1>1, LaunchKeeps, FetchKeeps, ClockKeeps, CreateKeeps, StatKeeps, BreakKeeps, DownloadKeeps,
     ChecksumKeeps, PreflightKeeps, BackupKeeps, RenameKeeps, VerifyKeeps, RollbackKeeps, TidyKeeps,
     ReleaseLockKeeps, CrashKeeps
     DEF Step
<1> QED
  BY <1>1, AgesKeeps, PublishKeeps, StutterKeeps DEF Next

-----------------------------------------------------------------------------
(* The theorems.                                                           *)

\* The conjunction of the parts is an invariant of every interleaving of runs.
THEOREM Invariant == Spec => []IInv
BY Start, NextKeeps, PTL DEF Spec

\* Every variable keeps its type; in particular a run that is not past the lock
\* owns no temporary file and no backup, so install's deferred calls miss none.
THEOREM TypeCorrect == Spec => []TypeOK
<1>1. IInv => TypeOK
  BY DEF IInv
<1> QED
  BY <1>1, Invariant, PTL

\* os.Rename of what has passed the checksum: the path always holds a whole
\* release, even while several runs are past the lock.
THEOREM AlwaysWhole == Spec => []InstalledWhole
<1>1. IInv => InstalledWhole
  BY DEF IInv
<1> QED
  BY <1>1, Invariant, PTL

\* acquireExplicitUpdateLock excludes as long as it has not removed the lock
\* file of a run at work; breaking the lock files of dead runs does no harm.
THEOREM OneAtWork == Spec => []Exclusive
<1>1. IInv => Exclusive
  BY DEF IInv
<1> QED
  BY <1>1, Invariant, PTL

\* The release last seen to work is never lost, across failures of any step,
\* failing rollbacks and kills included.
THEOREM GoodKept == Spec => []GoodIsNotLost
<1>1. IInv => GoodIsNotLost
  <2> SUFFICES ASSUME IInv, ~stolen, good \notin left, good # installed
               PROVE  \E p \in Process : good = run[p].backup
    BY DEF GoodIsNotLost
  <2>1. PICK p \in Inside : good = run[p].found /\ run[p].outcome # "updated"
    BY DEF IInv, GoodKnown
  <2>2. run[p].pc \in AtWork /\ p \in Process /\ Alone(run[p]) /\ run[p].outcome \in Outcome
    BY DEF IInv, Inside, RunsAlone, TypeOK, Row
  <2>3. good = run[p].backup
    BY <2>1, <2>2 DEF Alone, AtWork, Outcome
  <2> QED
    BY <2>2, <2>3
<1> QED
  BY <1>1, Invariant, PTL

\* What install reports is what has happened to the path.
THEOREM ReportsTrue == Spec => []EndsAsReported
<1>1. IInv => EndsAsReported
  <2> SUFFICES ASSUME IInv, ~stolen, NEW p \in Process, run[p].pc \in {"tidy", "release"}
               PROVE  CASE run[p].outcome = "updated" -> installed = run[p].rel
                        [] run[p].outcome = "stuck"   -> run[p].found \in left
                        [] OTHER                      -> installed = run[p].found
    BY DEF EndsAsReported
  <2>1. Alone(run[p]) /\ run[p].outcome \in Outcome
    BY DEF IInv, Inside, AtWork, RunsAlone, TypeOK, Row
  <2> QED
    BY <2>1 DEF Alone, Outcome
<1> QED
  BY <1>1, Invariant, PTL

-----------------------------------------------------------------------------
(* The order of releases, and where the path may go.                       *)

\* newerVersion's loop decides the order of the three numbers.
THEOREM NewerIsPrecedence ==
  \A a, b \in Nat \X Nat \X Nat : Newer(a, b) <=> Precedes(a, b)
<1> SUFFICES ASSUME NEW a \in Nat \X Nat \X Nat, NEW b \in Nat \X Nat \X Nat
             PROVE  Newer(a, b) <=> Precedes(a, b)
  OBVIOUS
<1>1. \A i \in 1..3 : a[i] \in Nat /\ b[i] \in Nat
  OBVIOUS
<1>2. Newer(a, b) <=> \/ b[1] > a[1]
                      \/ b[2] > a[2] /\ b[1] = a[1]
                      \/ b[3] > a[3] /\ b[1] = a[1] /\ b[2] = a[2]
  <2>1. /\ 1..(1 - 1) = {} /\ 1..(2 - 1) = {1} /\ 1..(3 - 1) = {1, 2}
        /\ 1..3 = {1, 2, 3}
    OBVIOUS
  <2> DEFINE Differs(i) == b[i] > a[i] /\ \A j \in 1..(i - 1) : b[j] = a[j]
  <2>2. Newer(a, b) <=> Differs(1) \/ Differs(2) \/ Differs(3)
    <3>1. Newer(a, b) <=> \E i \in {1, 2, 3} : Differs(i)
      BY <2>1 DEF Newer
    <3> QED
      BY <3>1
  <2> QED
    BY <2>1, <2>2
<1> QED
  BY <1>1, <1>2 DEF Precedes

\* And that is a strict total order: of two releases that differ exactly one is
\* newer, so no run can decide to replace a release by itself, and two runs that
\* start from each other's releases cannot both decide to go on.
THEOREM NewerIsOrder ==
  \A a, b, c \in Nat \X Nat \X Nat :
    /\ ~Newer(a, a)
    /\ Newer(a, b) /\ Newer(b, c) => Newer(a, c)
    /\ a # b => (Newer(a, b) <=> ~Newer(b, a))
<1> SUFFICES ASSUME NEW a \in Nat \X Nat \X Nat, NEW b \in Nat \X Nat \X Nat,
                    NEW c \in Nat \X Nat \X Nat
             PROVE  /\ ~Precedes(a, a)
                    /\ Precedes(a, b) /\ Precedes(b, c) => Precedes(a, c)
                    /\ a # b => (Precedes(a, b) <=> ~Precedes(b, a))
  BY NewerIsPrecedence
<1>1. \A i \in {1, 2, 3} : a[i] \in Nat /\ b[i] \in Nat /\ c[i] \in Nat
  OBVIOUS
<1>2. ~Precedes(a, a)
  BY <1>1 DEF Precedes
<1>3. Precedes(a, b) /\ Precedes(b, c) => Precedes(a, c)
  BY <1>1 DEF Precedes
<1>4. ASSUME a # b PROVE Precedes(a, b) <=> ~Precedes(b, a)
  <2>1. a[1] # b[1] \/ a[2] # b[2] \/ a[3] # b[3]
    BY <1>4
  <2> QED
    BY <1>1, <2>1 DEF Precedes
<1> QED
  BY <1>2, <1>3, <1>4

\* A run that goes for the lock, or is past it, holds a release that is newer
\* than the one compiled into it.
Decided(q) ==
  /\ q.pc = "fetch" => q.version \in Release
  /\ q.pc \in AtWork \cup {"clock", "create", "stat", "break"}
       => q.version \in Release /\ q.rel \in Release /\ Newer(q.version, q.rel)

AllDecided == \A p \in Process : Decided(run[p])

LEMMA DecidedIdle == Decided(Idle)
BY DEF Decided, Idle, AtWork

\* What a run has decided on does not change from the lock on.
LEMMA DecidedGoesOn ==
  \A q, r : /\ Decided(q)
            /\ q.pc \in AtWork \cup {"clock", "create", "stat", "break"}
            /\ r.version = q.version /\ r.rel = q.rel
            /\ r.pc # "fetch"
            => Decided(r)
BY DEF Decided

\* Every step of a run past its decision ends the run or leaves the decision.
LEMMA StepDecided ==
  ASSUME IInv, AllDecided, NEW p \in Process, Step(p) \/ Crash(p)
  PROVE  AllDecided'
<1> run \in [Process -> Row] /\ installed \in Release /\ latest \in Release
  BY DEF IInv, TypeOK, InstalledWhole
<1>1. \A q \in Process \ {p} : run'[q] = run[q]
  BY DEF Step, Launch, Fetch, Clock, Create, Stat, Break, Download, Checksum, Preflight, Backup,
         Rename, Verify, Rollback, Tidy, ReleaseLock, Crash, Goes
<1>2. CASE Launch(p)
  <2>1. run'[p].pc = "fetch" /\ run'[p].version = installed
    BY <1>2 DEF Launch, Row
  <2> QED
    BY <1>1, <2>1 DEF AllDecided, Decided, AtWork
<1>3. CASE Fetch(p)
  <2>1. CASE run' = [run EXCEPT ![p] = Idle]
    BY <1>1, <2>1, DecidedIdle DEF AllDecided
  <2>2. CASE Newer(run[p].version, latest) /\ run' = [run EXCEPT ![p].pc = "clock", ![p].rel = latest]
    <3>1. /\ run'[p].pc = "clock" /\ run'[p].rel = latest
          /\ run'[p].version = run[p].version
      BY <2>2 DEF Row
    <3>2. run[p].version \in Release
      BY <1>3 DEF Fetch, At, AllDecided, Decided
    <3>3. Decided(run'[p])
      BY <2>2, <3>1, <3>2 DEF Decided
    <3> QED
      BY <1>1, <3>3 DEF AllDecided
  <2> QED
    BY <1>3, <2>1, <2>2 DEF Fetch
<1>4. CASE ~Launch(p) /\ ~Fetch(p)
  <2>1. \/ run'[p] = Idle
        \/ /\ run[p].pc \in AtWork \cup {"clock", "create", "stat", "break"}
           /\ run'[p].version = run[p].version /\ run'[p].rel = run[p].rel
           /\ run'[p].pc # "fetch"
    <3> run[p] \in Row
      OBVIOUS
    <3> USE DEF At, Goes, AtWork, Row
    <3>1. CASE Clock(p) \/ Create(p) \/ Stat(p) \/ Break(p)
      BY <3>1 DEF Clock, Create, Stat, Break
    <3>2. CASE Download(p) \/ Checksum(p) \/ Preflight(p) \/ Backup(p)
      BY <3>2 DEF Download, Checksum, Preflight, Backup, Fails
    <3>3. CASE Rename(p) \/ Verify(p) \/ Rollback(p)
      BY <3>3 DEF Rename, Verify, Rollback, Fails
    <3>4. CASE Tidy(p) \/ ReleaseLock(p) \/ Crash(p)
      BY <3>4 DEF Tidy, ReleaseLock, Crash
    <3> QED
      BY <1>4, <3>1, <3>2, <3>3, <3>4 DEF Step
  <2>2. Decided(run'[p])
    BY <2>1, DecidedIdle, DecidedGoesOn DEF AllDecided
  <2> QED
    BY <1>1, <2>2 DEF AllDecided
<1> QED
  BY <1>2, <1>3, <1>4

\* So every run at work has decided on a release newer than its own.
LEMMA DecidedAlways == Spec => []AllDecided
<1>1. Init => AllDecided
  BY DecidedIdle DEF Init, AllDecided
<1>2. IInv /\ AllDecided /\ [Next]_vars => AllDecided'
  <2> SUFFICES ASSUME IInv, AllDecided, [Next]_vars PROVE AllDecided'
    OBVIOUS
  <2>1. CASE UNCHANGED run
    BY <2>1 DEF AllDecided
  <2>2. CASE Ages \/ Publish \/ UNCHANGED vars
    BY <2>1, <2>2 DEF Ages, Publish, vars
  <2> QED
    BY <2>2, StepDecided DEF Next
<1> QED
  BY <1>1, <1>2, Invariant, PTL DEF Spec

\* The path goes to an older release only in a rollback, to what the run has found
\* there, or when the update decided before the one that overtook it was installed:
\* run() compares with the version compiled in, and install does not look again.
THEOREM ForwardOnly == Spec => GoesForward
<1>1. ASSUME IInv, AllDecided, [Next]_vars, ~stolen, installed' # installed
      PROVE  \/ Precedes(installed, installed')
             \/ \E p \in Process : At(p, "rollback") /\ installed' = run[p].found
             \/ \E p \in Process : At(p, "rename") /\ run[p].version # run[p].found
  <2>1. PICK p \in Process : Rename(p) \/ Rollback(p)
    BY <1>1 DEF Next, Step, vars, Ages, Publish, Launch, Fetch, Clock, Create, Stat, Break, Download,
                Checksum, Preflight, Backup, Verify, Tidy, ReleaseLock, Crash
  <2>2. p \in Inside /\ Alone(run[p]) /\ Whole(run[p]) /\ Decided(run[p])
    BY <1>1, <2>1 DEF IInv, RunsAlone, RunsWhole, AllDecided, Inside, AtWork, Rename, Rollback, At
  <2>3. CASE Rollback(p)
    BY <1>1, <2>2, <2>3 DEF Rollback, At, Alone
  <2>4. CASE Rename(p)
    <3>1. At(p, "rename") /\ installed' = run[p].tmp
      BY <1>1, <2>4 DEF Rename
    <3>2. /\ installed = run[p].found /\ run[p].tmp = run[p].rel
          /\ run[p].version \in Release /\ run[p].rel \in Release
          /\ Newer(run[p].version, run[p].rel)
      BY <2>2, <3>1 DEF At, Alone, Whole, Decided, AtWork
    <3>3. Precedes(run[p].version, run[p].rel)
      BY <3>2, NewerIsPrecedence, UpdaterAssumption
    <3> QED
      BY <3>1, <3>2, <3>3
  <2> QED
    BY <2>1, <2>3, <2>4
<1> QED
  BY <1>1, Invariant, DecidedAlways, PTL DEF Spec, GoesForward
=============================================================================
