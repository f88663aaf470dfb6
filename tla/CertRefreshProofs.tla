------------------------ MODULE CertRefreshProofs --------------------------
(***************************************************************************)
(* Safety of CertRefresh for every number of runs and certificates.        *)
(***************************************************************************)
EXTENDS CertRefresh, TLAPS

(* The inductive invariant, in parts.                                      *)

\* Whoever has opened the lock file has opened the one inode it ever is.
LockKept ==
  \A r \in Run : run[r].pc # "idle" => run[r].inode = lock /\ lock \in Inode

\* Up to its backup a run has done nothing that would have to be undone.
Blank(q) ==
  q.pc \in {"idle", "opened", "stage", "probe", "backup"}
    => /\ ~q.installed /\ ~q.committed /\ ~q.rolling
       /\ q.before = NoPem /\ q.backup = NoPem

\* Between backup and commit, what it found is in its backup.
Armed(q) ==
  /\ q.pc \in {"arm", "move"} => q.before = pem
  /\ q.pc = "arm" => q.before = q.backup /\ ~q.installed
  /\ q.installed /\ ~q.committed => q.backup = q.before
  /\ q.pc \in {"move", "recreate", "health", "reload", "undo", "restore", "remove"}
       => q.installed

\* Where the flags of the script are still down.
Flags(q) ==
  /\ q.committed => q.pc \in {"record", "exiting", "cleanup"}
  /\ q.pc = "record" => q.committed
  /\ q.pc = "restore" => q.before # NoPem
  /\ q.pc = "remove" => q.before = NoPem
  /\ q.pc = "revive" => (q.installed <=> q.before = NoPem) /\ q.backup = NoPem

\* What is installed, and what frps has loaded.
Installed(q) ==
  /\ q.pc \in {"recreate", "health", "reload", "record", "undo"} => pem = q.new
  /\ q.pc \in {"health", "reload", "record"} => serving \in {NoPem, q.new}
  /\ q.pc = "probe" => pem = q.new /\ serving \in {NoPem, q.new}
  /\ q.committed => pem = good

Phases ==
  \A r \in Run : Blank(run[r]) /\ Armed(run[r]) /\ Flags(run[r]) /\ Installed(run[r])

\* What was committed last survives a rollback of the run that holds the lock.
GoodSurvives ==
  \A r \in Run : run[r].installed /\ ~run[r].committed /\ good # NoPem
    => good = run[r].before \/ good \in kept

\* The state file is right whenever it names the source, and a run that has
\* begun under it does not change that.
HashIsRight ==
  /\ hash <= source
  /\ hash = source => pem = source /\ serving \in {NoPem, source}
  /\ \A r \in Run :
       /\ run[r].new <= source
       /\ hash = source
            => /\ run[r].pc \in {"probe", "backup", "arm", "move", "recreate", "health", "reload"}
                    => run[r].new = source
               /\ run[r].installed /\ ~run[r].committed => run[r].before = source

IInv ==
  TypeOK /\ LockKept /\ OneAtATime /\ Phases /\ GoodSurvives /\ GoodIsNotLost /\ HashIsRight

-----------------------------------------------------------------------------
(* Facts about rows.                                                       *)

\* A blank row is a row, and beginning a rollback leaves one.
LEMMA Rows ==
  /\ Idle \in Row
  /\ \A q \in Row : RollsBack(q) \in Row /\ [q EXCEPT !.masked = TRUE] \in Row
  /\ \A r \in Run : run[r] \in Row => Leftover(r) \subseteq Cert
<1>1. Idle \in Row
  BY DEF Idle, Row, PC, Pem
<1>2. ASSUME NEW q \in Row
      PROVE  RollsBack(q) \in Row /\ [q EXCEPT !.masked = TRUE] \in Row
  BY <1>2 DEF RollsBack, Row, PC
<1>3. ASSUME NEW r \in Run, run[r] \in Row
      PROVE  Leftover(r) \subseteq Cert
  BY <1>3 DEF Leftover, Row, Pem
<1> QED
  BY <1>1, <1>2, <1>3

\* Opening the lock file leaves a row.
LEMMA OpenedRow ==
  \A q \in Row, i \in Inode : [q EXCEPT !.pc = "opened", !.inode = i] \in Row
BY DEF Row, PC

\* So does the flag before the install.
LEMMA ArmedRow ==
  \A q \in Row : [q EXCEPT !.pc = "move", !.installed = TRUE] \in Row
BY DEF Row, PC

\* So does a signal.
LEMMA SignalledRow ==
  \A q \in Row : [q EXCEPT !.pc = "exiting", !.cut = q.rolling /\ q.installed] \in Row
<1> SUFFICES ASSUME NEW q \in Row
             PROVE  [q EXCEPT !.pc = "exiting", !.cut = q.rolling /\ q.installed] \in Row
  OBVIOUS
<1>1. \A b \in BOOLEAN : [q EXCEPT !.pc = "exiting", !.cut = b] \in Row
  BY DEF Row, PC
<1>2. (q.rolling /\ q.installed) = TRUE \/ (q.rolling /\ q.installed) = FALSE
  OBVIOUS
<1> QED
  BY <1>1, <1>2

\* And the end of a rollback that had nothing to put back.
LEMMA RemovedRow ==
  \A q \in Row, b \in BOOLEAN :
    /\ Removed(q, b) \in Row
    /\ Removed(q, b).pc = (IF q.masked THEN "cleanup" ELSE "exiting")
    /\ ~Removed(q, b).installed
    /\ Removed(q, b).stays = b
    /\ Removed(q, b).inode = q.inode /\ Removed(q, b).new = q.new
    /\ Removed(q, b).before = q.before /\ Removed(q, b).backup = q.backup
    /\ Removed(q, b).committed = q.committed /\ Removed(q, b).rolling = q.rolling
    /\ Removed(q, b).masked = q.masked
<1> SUFFICES ASSUME NEW q \in Row, NEW b \in BOOLEAN
             PROVE  /\ Removed(q, b) \in Row
                    /\ Removed(q, b).pc = (IF q.masked THEN "cleanup" ELSE "exiting")
                    /\ ~Removed(q, b).installed
                    /\ Removed(q, b).stays = b
                    /\ Removed(q, b).inode = q.inode /\ Removed(q, b).new = q.new
                    /\ Removed(q, b).before = q.before /\ Removed(q, b).backup = q.backup
                    /\ Removed(q, b).committed = q.committed
                    /\ Removed(q, b).rolling = q.rolling
                    /\ Removed(q, b).masked = q.masked
  OBVIOUS
<1>1. PICK label \in PC : label = After(q)
  BY DEF After, PC
<1>2. label = (IF q.masked THEN "cleanup" ELSE "exiting")
  BY <1>1 DEF After
<1>3. PICK s : s = Removed(q, b)
  OBVIOUS
<1>4. s = [q EXCEPT !.installed = FALSE, !.stays = b, !.pc = label]
  BY <1>1, <1>3 DEF Removed
<1>5. /\ s \in Row
      /\ s.pc = label /\ ~s.installed /\ s.stays = b
      /\ s.inode = q.inode /\ s.new = q.new
      /\ s.before = q.before /\ s.backup = q.backup
      /\ s.committed = q.committed /\ s.rolling = q.rolling
      /\ s.masked = q.masked
  BY <1>4 DEF Row
<1> QED
  BY <1>2, <1>3, <1>5

-----------------------------------------------------------------------------
(* Each step of a run preserves the invariant, part by part.               *)

LEMMA OpenKeeps == ASSUME IInv, NEW r \in Run, Open(r) PROVE IInv'
<1> USE DEF IInv, TypeOK, Row, Open, files
<1>1. TypeOK'
  <2>1. lock' \in Inode
    OBVIOUS
  <2>2. run' \in [Run -> Row]
    <3> HIDE DEF Row
    <3> QED
      BY <2>1, OpenedRow
  <2> QED
    BY <2>1, <2>2
<1>2. LockKept'
  BY CertRefreshAssumption DEF LockKept, Holds, OneAtATime
<1>3. OneAtATime'
  BY CertRefreshAssumption DEF OneAtATime, LockKept, Holds
<1>4. Phases'
  BY CertRefreshAssumption DEF OneAtATime, Holds, Phases, Blank, Armed, Flags, Installed, NoPem
<1>5. GoodSurvives'
  BY CertRefreshAssumption DEF OneAtATime, Holds, Phases, Blank, Armed, Flags, Installed,
     GoodSurvives, NoPem
<1>6. GoodIsNotLost'
  BY CertRefreshAssumption DEF OneAtATime, Holds, Phases, Blank, Armed, Flags, Installed,
     GoodSurvives, GoodIsNotLost, NoPem
<1>7. HashIsRight'
  BY CertRefreshAssumption DEF OneAtATime, Holds, Phases, Blank, Armed, Flags, Installed,
     HashIsRight, Pem, Cert, NoPem
<1> QED
  BY <1>1, <1>2, <1>3, <1>4, <1>5, <1>6, <1>7

LEMMA FlockKeeps == ASSUME IInv, NEW r \in Run, Flock(r) PROVE IInv'
<1> USE DEF IInv, TypeOK, Row, Flock, files, Goes, Idle
<1>1. TypeOK'
  <2>1. run' \in [Run -> Row]
    <3> HIDE DEF Idle
    <3> QED
      BY Rows DEF PC
  <2>2. kept' \in SUBSET Cert
    <3> HIDE DEF Leftover
    <3> QED
      BY Rows
  <2>3. \A t \in Run : run'[t].masked
          => run'[t].pc \in {"restore", "revive", "remove", "cleanup"}
    OBVIOUS
  <2> QED
    BY <2>1, <2>2, <2>3
<1>2. LockKept'
  BY CertRefreshAssumption DEF LockKept, Holds, OneAtATime
<1>3. OneAtATime'
  BY CertRefreshAssumption DEF OneAtATime, LockKept, Holds
<1>4. Phases'
  BY CertRefreshAssumption DEF OneAtATime, Holds, Phases, Blank, Armed, Flags, Installed, NoPem
<1>5. GoodSurvives'
  BY CertRefreshAssumption DEF OneAtATime, Holds, Phases, Blank, Armed, Flags, Installed,
     GoodSurvives, NoPem
<1>6. GoodIsNotLost'
  BY CertRefreshAssumption DEF OneAtATime, Holds, Phases, Blank, Armed, Flags, Installed,
     GoodSurvives, GoodIsNotLost, NoPem
<1>7. HashIsRight'
  BY CertRefreshAssumption DEF OneAtATime, Holds, Phases, Blank, Armed, Flags, Installed,
     HashIsRight, Pem, Cert, NoPem
<1> QED
  BY <1>1, <1>2, <1>3, <1>4, <1>5, <1>6, <1>7

LEMMA StageKeeps == ASSUME IInv, NEW r \in Run, Stage(r) PROVE IInv'
<1> USE DEF IInv, TypeOK, Row, Stage, files, Goes
<1>1. TypeOK'
  BY CertRefreshAssumption DEF PC, Pem
<1>2. LockKept'
  BY CertRefreshAssumption DEF LockKept, Holds, OneAtATime
<1>3. OneAtATime'
  BY CertRefreshAssumption DEF OneAtATime, LockKept, Holds
<1>4. Phases'
  BY CertRefreshAssumption DEF OneAtATime, Holds, Phases, Blank, Armed, Flags, Installed, NoPem
<1>5. GoodSurvives'
  BY CertRefreshAssumption DEF OneAtATime, Holds, Phases, Blank, Armed, Flags, Installed,
     GoodSurvives, NoPem
<1>6. GoodIsNotLost'
  BY CertRefreshAssumption DEF OneAtATime, Holds, Phases, Blank, Armed, Flags, Installed,
     GoodSurvives, GoodIsNotLost, NoPem
<1>7. HashIsRight'
  BY CertRefreshAssumption DEF OneAtATime, Holds, Phases, Blank, Armed, Flags, Installed,
     HashIsRight, Pem, Cert, NoPem
<1> QED
  BY <1>1, <1>2, <1>3, <1>4, <1>5, <1>6, <1>7

LEMMA ProbeKeeps == ASSUME IInv, NEW r \in Run, Probe(r) PROVE IInv'
<1> USE DEF IInv, TypeOK, Row, Probe, files, Goes
<1>1. TypeOK'
  BY CertRefreshAssumption DEF PC, Pem
<1>2. LockKept'
  BY CertRefreshAssumption DEF LockKept, Holds, OneAtATime
<1>3. OneAtATime'
  BY CertRefreshAssumption DEF OneAtATime, LockKept, Holds
<1>4. Phases'
  BY CertRefreshAssumption DEF OneAtATime, Holds, Phases, Blank, Armed, Flags, Installed, NoPem
<1>5. GoodSurvives'
  BY CertRefreshAssumption DEF OneAtATime, Holds, Phases, Blank, Armed, Flags, Installed,
     GoodSurvives, NoPem
<1>6. GoodIsNotLost'
  BY CertRefreshAssumption DEF OneAtATime, Holds, Phases, Blank, Armed, Flags, Installed,
     GoodSurvives, GoodIsNotLost, NoPem
<1>7. HashIsRight'
  BY CertRefreshAssumption DEF OneAtATime, Holds, Phases, Blank, Armed, Flags, Installed,
     HashIsRight, Pem, Cert, NoPem
<1> QED
  BY <1>1, <1>2, <1>3, <1>4, <1>5, <1>6, <1>7

LEMMA BackupKeeps == ASSUME IInv, NEW r \in Run, Backup(r) PROVE IInv'
<1> USE DEF IInv, TypeOK, Row, Backup, files, Goes
<1>1. TypeOK'
  BY CertRefreshAssumption DEF PC, Pem
<1>2. LockKept'
  BY CertRefreshAssumption DEF LockKept, Holds, OneAtATime
<1>3. OneAtATime'
  BY CertRefreshAssumption DEF OneAtATime, LockKept, Holds
<1>4. Phases'
  BY CertRefreshAssumption DEF OneAtATime, Holds, Phases, Blank, Armed, Flags, Installed, NoPem
<1>5. GoodSurvives'
  BY CertRefreshAssumption DEF OneAtATime, Holds, Phases, Blank, Armed, Flags, Installed,
     GoodSurvives, NoPem
<1>6. GoodIsNotLost'
  BY CertRefreshAssumption DEF OneAtATime, Holds, Phases, Blank, Armed, Flags, Installed,
     GoodSurvives, GoodIsNotLost, NoPem
<1>7. HashIsRight'
  BY CertRefreshAssumption DEF OneAtATime, Holds, Phases, Blank, Armed, Flags, Installed,
     HashIsRight, Pem, Cert, NoPem
<1> QED
  BY <1>1, <1>2, <1>3, <1>4, <1>5, <1>6, <1>7

LEMMA ArmKeeps == ASSUME IInv, NEW r \in Run, Arm(r) PROVE IInv'
<1> USE DEF IInv, TypeOK, Row, Arm, files
<1>1. TypeOK'
  <2>1. [run[r] EXCEPT !.pc = "move", !.installed = TRUE] \in Row
    <3> HIDE DEF Row
    <3> QED
      BY ArmedRow
  <2>2. run' \in [Run -> Row]
    BY <2>1
  <2> QED
    BY <2>2
<1>2. LockKept'
  BY CertRefreshAssumption DEF LockKept, Holds, OneAtATime
<1>3. OneAtATime'
  BY CertRefreshAssumption DEF OneAtATime, LockKept, Holds
<1>4. Phases'
  BY CertRefreshAssumption DEF OneAtATime, Holds, Phases, Blank, Armed, Flags, Installed, NoPem
<1>5. GoodSurvives'
  BY CertRefreshAssumption DEF OneAtATime, Holds, Phases, Blank, Armed, Flags, Installed,
     GoodSurvives, NoPem
<1>6. GoodIsNotLost'
  BY CertRefreshAssumption DEF OneAtATime, Holds, Phases, Blank, Armed, Flags, Installed,
     GoodSurvives, GoodIsNotLost, NoPem
<1>7. HashIsRight'
  BY CertRefreshAssumption DEF OneAtATime, Holds, Phases, Blank, Armed, Flags, Installed,
     HashIsRight, Pem, Cert, NoPem
<1> QED
  BY <1>1, <1>2, <1>3, <1>4, <1>5, <1>6, <1>7

LEMMA MoveKeeps == ASSUME IInv, NEW r \in Run, Move(r) PROVE IInv'
<1> USE DEF IInv, TypeOK, Row, Move, files, Goes
<1>1. TypeOK'
  BY CertRefreshAssumption DEF PC, Pem
<1>2. LockKept'
  BY CertRefreshAssumption DEF LockKept, Holds, OneAtATime
<1>3. OneAtATime'
  BY CertRefreshAssumption DEF OneAtATime, LockKept, Holds
<1>4. Phases'
  BY CertRefreshAssumption DEF OneAtATime, Holds, Phases, Blank, Armed, Flags, Installed, NoPem
<1>5. GoodSurvives'
  BY CertRefreshAssumption DEF OneAtATime, Holds, Phases, Blank, Armed, Flags, Installed,
     GoodSurvives, NoPem
<1>6. GoodIsNotLost'
  BY CertRefreshAssumption DEF OneAtATime, Holds, Phases, Blank, Armed, Flags, Installed,
     GoodSurvives, GoodIsNotLost, NoPem
<1>7. HashIsRight'
  BY CertRefreshAssumption DEF OneAtATime, Holds, Phases, Blank, Armed, Flags, Installed,
     HashIsRight, Pem, Cert, NoPem
<1> QED
  BY <1>1, <1>2, <1>3, <1>4, <1>5, <1>6, <1>7

LEMMA RecreateKeeps == ASSUME IInv, NEW r \in Run, Recreate(r) PROVE IInv'
<1> USE DEF IInv, TypeOK, Row, Recreate, files, Goes
<1>1. TypeOK'
  BY CertRefreshAssumption DEF PC, Pem
<1>2. LockKept'
  BY CertRefreshAssumption DEF LockKept, Holds, OneAtATime
<1>3. OneAtATime'
  BY CertRefreshAssumption DEF OneAtATime, LockKept, Holds
<1>4. Phases'
  BY CertRefreshAssumption DEF OneAtATime, Holds, Phases, Blank, Armed, Flags, Installed, NoPem
<1>5. GoodSurvives'
  BY CertRefreshAssumption DEF OneAtATime, Holds, Phases, Blank, Armed, Flags, Installed,
     GoodSurvives, NoPem
<1>6. GoodIsNotLost'
  BY CertRefreshAssumption DEF OneAtATime, Holds, Phases, Blank, Armed, Flags, Installed,
     GoodSurvives, GoodIsNotLost, NoPem
<1>7. HashIsRight'
  BY CertRefreshAssumption DEF OneAtATime, Holds, Phases, Blank, Armed, Flags, Installed,
     HashIsRight, Pem, Cert, NoPem
<1> QED
  BY <1>1, <1>2, <1>3, <1>4, <1>5, <1>6, <1>7

LEMMA HealthKeeps == ASSUME IInv, NEW r \in Run, Health(r) PROVE IInv'
<1> USE DEF IInv, TypeOK, Row, Health, files, Goes
<1>1. TypeOK'
  BY CertRefreshAssumption DEF PC, Pem
<1>2. LockKept'
  BY CertRefreshAssumption DEF LockKept, Holds, OneAtATime
<1>3. OneAtATime'
  BY CertRefreshAssumption DEF OneAtATime, LockKept, Holds
<1>4. Phases'
  BY CertRefreshAssumption DEF OneAtATime, Holds, Phases, Blank, Armed, Flags, Installed, NoPem
<1>5. GoodSurvives'
  BY CertRefreshAssumption DEF OneAtATime, Holds, Phases, Blank, Armed, Flags, Installed,
     GoodSurvives, NoPem
<1>6. GoodIsNotLost'
  BY CertRefreshAssumption DEF OneAtATime, Holds, Phases, Blank, Armed, Flags, Installed,
     GoodSurvives, GoodIsNotLost, NoPem
<1>7. HashIsRight'
  BY CertRefreshAssumption DEF OneAtATime, Holds, Phases, Blank, Armed, Flags, Installed,
     HashIsRight, Pem, Cert, NoPem
<1> QED
  BY <1>1, <1>2, <1>3, <1>4, <1>5, <1>6, <1>7

LEMMA CommitKeeps == ASSUME IInv, NEW r \in Run, Commit(r) PROVE IInv'
<1> USE DEF IInv, TypeOK, Row, Commit, Goes
<1>1. TypeOK'
  BY CertRefreshAssumption DEF PC, Pem
<1>2. LockKept'
  BY CertRefreshAssumption DEF LockKept, Holds, OneAtATime
<1>3. OneAtATime'
  BY CertRefreshAssumption DEF OneAtATime, LockKept, Holds
<1>4. Phases'
  BY CertRefreshAssumption DEF OneAtATime, Holds, Phases, Blank, Armed, Flags, Installed, NoPem
<1>5. GoodSurvives'
  BY CertRefreshAssumption DEF OneAtATime, Holds, Phases, Blank, Armed, Flags, Installed,
     GoodSurvives, NoPem
<1>6. GoodIsNotLost'
  BY CertRefreshAssumption DEF OneAtATime, Holds, Phases, Blank, Armed, Flags, Installed,
     GoodSurvives, GoodIsNotLost, NoPem
<1>7. HashIsRight'
  BY CertRefreshAssumption DEF OneAtATime, Holds, Phases, Blank, Armed, Flags, Installed,
     HashIsRight, Pem, Cert, NoPem
<1> QED
  BY <1>1, <1>2, <1>3, <1>4, <1>5, <1>6, <1>7

LEMMA RecordKeeps == ASSUME IInv, NEW r \in Run, Record(r) PROVE IInv'
<1> USE DEF IInv, TypeOK, Row, Record, Goes
<1>1. TypeOK'
  BY CertRefreshAssumption DEF PC, Pem
<1>2. LockKept'
  BY CertRefreshAssumption DEF LockKept, Holds, OneAtATime
<1>3. OneAtATime'
  BY CertRefreshAssumption DEF OneAtATime, LockKept, Holds
<1>4. Phases'
  BY CertRefreshAssumption DEF OneAtATime, Holds, Phases, Blank, Armed, Flags, Installed, NoPem
<1>5. GoodSurvives'
  BY CertRefreshAssumption DEF OneAtATime, Holds, Phases, Blank, Armed, Flags, Installed,
     GoodSurvives, NoPem
<1>6. GoodIsNotLost'
  BY CertRefreshAssumption DEF OneAtATime, Holds, Phases, Blank, Armed, Flags, Installed,
     GoodSurvives, GoodIsNotLost, NoPem
<1>7. HashIsRight'
  BY CertRefreshAssumption DEF OneAtATime, Holds, Phases, Blank, Armed, Flags, Installed,
     HashIsRight, Pem, Cert, NoPem
<1> QED
  BY <1>1, <1>2, <1>3, <1>4, <1>5, <1>6, <1>7

LEMMA UndoKeeps == ASSUME IInv, NEW r \in Run, Undo(r) PROVE IInv'
<1> USE DEF IInv, TypeOK, Row, Undo, files, RollsBack
<1>1. TypeOK'
  <2>1. run' \in [Run -> Row]
    <3> HIDE DEF Row, RollsBack
    <3> QED
      BY Rows DEF PC
  <2>2. kept' \in SUBSET Cert
    <3> HIDE DEF Leftover
    <3> QED
      BY Rows
  <2>3. \A t \in Run : run'[t].masked
          => run'[t].pc \in {"restore", "revive", "remove", "cleanup"}
    OBVIOUS
  <2> QED
    BY <2>1, <2>2, <2>3
<1>2. LockKept'
  BY CertRefreshAssumption DEF LockKept, Holds, OneAtATime
<1>3. OneAtATime'
  BY CertRefreshAssumption DEF OneAtATime, LockKept, Holds
<1>4. Phases'
  BY CertRefreshAssumption DEF OneAtATime, Holds, Phases, Blank, Armed, Flags, Installed, NoPem
<1>5. GoodSurvives'
  BY CertRefreshAssumption DEF OneAtATime, Holds, Phases, Blank, Armed, Flags, Installed,
     GoodSurvives, NoPem
<1>6. GoodIsNotLost'
  BY CertRefreshAssumption DEF OneAtATime, Holds, Phases, Blank, Armed, Flags, Installed,
     GoodSurvives, GoodIsNotLost, NoPem
<1>7. HashIsRight'
  BY CertRefreshAssumption DEF OneAtATime, Holds, Phases, Blank, Armed, Flags, Installed,
     HashIsRight, Pem, Cert, NoPem
<1> QED
  BY <1>1, <1>2, <1>3, <1>4, <1>5, <1>6, <1>7

LEMMA RestoreKeeps == ASSUME IInv, NEW r \in Run, Restore(r) PROVE IInv'
<1> USE DEF IInv, TypeOK, Row, Restore, files, After
<1>1. TypeOK'
  BY CertRefreshAssumption DEF PC, Pem
<1>2. LockKept'
  BY CertRefreshAssumption DEF LockKept, Holds, OneAtATime
<1>3. OneAtATime'
  BY CertRefreshAssumption DEF OneAtATime, LockKept, Holds
<1>4. Phases'
  BY CertRefreshAssumption DEF OneAtATime, Holds, Phases, Blank, Armed, Flags, Installed, NoPem
<1>5. GoodSurvives'
  BY CertRefreshAssumption DEF OneAtATime, Holds, Phases, Blank, Armed, Flags, Installed,
     GoodSurvives, NoPem
<1>6. GoodIsNotLost'
  BY CertRefreshAssumption DEF OneAtATime, Holds, Phases, Blank, Armed, Flags, Installed,
     GoodSurvives, GoodIsNotLost, NoPem
<1>7. HashIsRight'
  BY CertRefreshAssumption DEF OneAtATime, Holds, Phases, Blank, Armed, Flags, Installed,
     HashIsRight, Pem, Cert, NoPem
<1> QED
  BY <1>1, <1>2, <1>3, <1>4, <1>5, <1>6, <1>7

LEMMA ReviveKeeps == ASSUME IInv, NEW r \in Run, Revive(r) PROVE IInv'
<1> USE DEF IInv, TypeOK, Row, Revive, files, Goes, After
<1>1. TypeOK'
  BY CertRefreshAssumption DEF PC, Pem
<1>2. LockKept'
  BY CertRefreshAssumption DEF LockKept, Holds, OneAtATime
<1>3. OneAtATime'
  BY CertRefreshAssumption DEF OneAtATime, LockKept, Holds
<1>4. Phases'
  BY CertRefreshAssumption DEF OneAtATime, Holds, Phases, Blank, Armed, Flags, Installed, NoPem
<1>5. GoodSurvives'
  BY CertRefreshAssumption DEF OneAtATime, Holds, Phases, Blank, Armed, Flags, Installed,
     GoodSurvives, NoPem
<1>6. GoodIsNotLost'
  BY CertRefreshAssumption DEF OneAtATime, Holds, Phases, Blank, Armed, Flags, Installed,
     GoodSurvives, GoodIsNotLost, NoPem
<1>7. HashIsRight'
  BY CertRefreshAssumption DEF OneAtATime, Holds, Phases, Blank, Armed, Flags, Installed,
     HashIsRight, Pem, Cert, NoPem
<1> QED
  BY <1>1, <1>2, <1>3, <1>4, <1>5, <1>6, <1>7

LEMMA RemoveKeeps == ASSUME IInv, NEW r \in Run, Remove(r) PROVE IInv'
<1>0. /\ run \in [Run -> Row] /\ run[r] \in Row /\ run[r].pc = "remove"
      /\ UNCHANGED <<source, hash, kept, lock, good, serving>> /\ pem' \in {NoPem, pem}
  BY DEF IInv, TypeOK, Remove, files
<1>a. PICK q \in Row :
        /\ run' = [run EXCEPT ![r] = q]
        /\ q.pc = (IF run[r].masked THEN "cleanup" ELSE "exiting") /\ ~q.installed
        /\ q.inode = run[r].inode /\ q.new = run[r].new
        /\ q.before = run[r].before /\ q.backup = run[r].backup
        /\ q.committed = run[r].committed /\ q.rolling = run[r].rolling
        /\ q.masked = run[r].masked
  <2>1. PICK b \in BOOLEAN : run' = [run EXCEPT ![r] = Removed(run[r], b)]
    BY DEF Remove
  <2> QED
    BY <1>0, <2>1, RemovedRow
<1> USE <1>0, <1>a DEF IInv, TypeOK
<1>1. TypeOK'
  BY DEF Pem
<1>2. LockKept'
  BY CertRefreshAssumption DEF LockKept, Holds, OneAtATime
<1>3. OneAtATime'
  BY CertRefreshAssumption DEF OneAtATime, LockKept, Holds
<1>4. Phases'
  BY CertRefreshAssumption DEF OneAtATime, Holds, Phases, Blank, Armed, Flags, Installed, NoPem
<1>5. GoodSurvives'
  BY CertRefreshAssumption DEF OneAtATime, Holds, Phases, Blank, Armed, Flags, Installed,
     GoodSurvives, NoPem
<1>6. GoodIsNotLost'
  BY CertRefreshAssumption DEF OneAtATime, Holds, Phases, Blank, Armed, Flags, Installed,
     GoodSurvives, GoodIsNotLost, NoPem
<1>7. HashIsRight'
  BY CertRefreshAssumption DEF OneAtATime, Holds, Phases, Blank, Armed, Flags, Installed,
     HashIsRight, Pem, Cert, NoPem
<1> QED
  BY <1>1, <1>2, <1>3, <1>4, <1>5, <1>6, <1>7

LEMMA TrapKeeps == ASSUME IInv, NEW r \in Run, Trap(r) PROVE IInv'
<1> USE DEF IInv, TypeOK, Row, Trap, files, RollsBack
<1>1. TypeOK'
  <2>1. run' \in [Run -> Row]
    <3> HIDE DEF Row, RollsBack
    <3>1. [run[r] EXCEPT !.masked = TRUE] \in Row
      BY Rows
    <3>2. [[run[r] EXCEPT !.masked = TRUE] EXCEPT !.pc = "cleanup"] \in Row
      BY <3>1 DEF Row, PC
    <3> QED
      BY <3>1, <3>2, Rows
  <2>2. kept' \in SUBSET Cert
    <3> HIDE DEF Leftover
    <3> QED
      BY Rows
  <2>3. \A t \in Run : run'[t].masked
          => run'[t].pc \in {"restore", "revive", "remove", "cleanup"}
    OBVIOUS
  <2> QED
    BY <2>1, <2>2, <2>3
<1>2. LockKept'
  BY CertRefreshAssumption DEF LockKept, Holds, OneAtATime
<1>3. OneAtATime'
  BY CertRefreshAssumption DEF OneAtATime, LockKept, Holds
<1>4. Phases'
  BY CertRefreshAssumption DEF OneAtATime, Holds, Phases, Blank, Armed, Flags, Installed, NoPem
<1>5. GoodSurvives'
  BY CertRefreshAssumption DEF OneAtATime, Holds, Phases, Blank, Armed, Flags, Installed,
     GoodSurvives, NoPem
<1>6. GoodIsNotLost'
  BY CertRefreshAssumption DEF OneAtATime, Holds, Phases, Blank, Armed, Flags, Installed,
     GoodSurvives, GoodIsNotLost, NoPem
<1>7. HashIsRight'
  BY CertRefreshAssumption DEF OneAtATime, Holds, Phases, Blank, Armed, Flags, Installed,
     HashIsRight, Pem, Cert, NoPem
<1> QED
  BY <1>1, <1>2, <1>3, <1>4, <1>5, <1>6, <1>7

LEMMA CleanupKeeps == ASSUME IInv, NEW r \in Run, Cleanup(r) PROVE IInv'
<1> USE DEF IInv, TypeOK, Row, Cleanup, Left, LockFile, Leftover, Idle
<1>1. TypeOK'
  <2>1. run' \in [Run -> Row]
    <3> HIDE DEF Row, Idle
    <3> QED
      BY Rows DEF PC
  <2>2. kept' \in SUBSET Cert
    <3> HIDE DEF Leftover
    <3> QED
      BY Rows
  <2>3. \A t \in Run : run'[t].masked
          => run'[t].pc \in {"restore", "revive", "remove", "cleanup"}
    OBVIOUS
  <2> QED
    BY <2>1, <2>2, <2>3
<1>2. LockKept'
  BY CertRefreshAssumption DEF LockKept, Holds, OneAtATime
<1>3. OneAtATime'
  BY CertRefreshAssumption DEF OneAtATime, LockKept, Holds
<1>4. Phases'
  BY CertRefreshAssumption DEF OneAtATime, Holds, Phases, Blank, Armed, Flags, Installed, NoPem
<1>5. GoodSurvives'
  BY CertRefreshAssumption DEF OneAtATime, Holds, Phases, Blank, Armed, Flags, Installed,
     GoodSurvives, NoPem
<1>6. GoodIsNotLost'
  BY CertRefreshAssumption DEF OneAtATime, Holds, Phases, Blank, Armed, Flags, Installed,
     GoodSurvives, GoodIsNotLost, NoPem
<1>7. HashIsRight'
  BY CertRefreshAssumption DEF OneAtATime, Holds, Phases, Blank, Armed, Flags, Installed,
     HashIsRight, Pem, Cert, NoPem
<1> QED
  BY <1>1, <1>2, <1>3, <1>4, <1>5, <1>6, <1>7

LEMMA SignalKeeps == ASSUME IInv, NEW r \in Run, Signal(r) PROVE IInv'
<1> USE DEF IInv, TypeOK, Row, Signal, Vanishes, Goes, Leftover, Idle
<1>1. TypeOK'
  <2>1. run' \in [Run -> Row]
    <3> HIDE DEF Idle, Row, IInv
    <3>1. run \in [Run -> Row]
      BY DEF IInv
    <3>2. CASE run[r].pc \in {"opened", "exiting"}
      BY <3>1, <3>2, Rows
    <3>3. CASE run[r].pc \notin {"opened", "exiting"}
      <4>1. run' = [run EXCEPT ![r] = [run[r] EXCEPT !.pc = "exiting",
                                         !.cut = run[r].rolling /\ run[r].installed]]
        BY <3>3
      <4>2. [run[r] EXCEPT !.pc = "exiting", !.cut = run[r].rolling /\ run[r].installed] \in Row
        BY <3>1, SignalledRow
      <4> HIDE DEF Signal
      <4> QED
        BY <3>1, <4>1, <4>2
    <3> QED
      BY <3>2, <3>3
  <2>2. kept' \in SUBSET Cert
    <3> HIDE DEF Leftover
    <3> QED
      BY Rows
  <2>3. \A t \in Run : run'[t].masked
          => run'[t].pc \in {"restore", "revive", "remove", "cleanup"}
    <3>1. \A t \in Run \ {r} : run'[t] = run[t]
      OBVIOUS
    <3>2. ~run'[r].masked
      OBVIOUS
    <3> QED
      BY <3>1, <3>2
  <2> QED
    BY <2>1, <2>2, <2>3
<1>2. LockKept'
  BY CertRefreshAssumption DEF LockKept, Holds, OneAtATime
<1>3. OneAtATime'
  BY CertRefreshAssumption DEF OneAtATime, LockKept, Holds
<1>4. Phases'
  BY CertRefreshAssumption DEF OneAtATime, Holds, Phases, Blank, Armed, Flags, Installed, NoPem
<1>5. GoodSurvives'
  BY CertRefreshAssumption DEF OneAtATime, Holds, Phases, Blank, Armed, Flags, Installed,
     GoodSurvives, NoPem
<1>6. GoodIsNotLost'
  BY CertRefreshAssumption DEF OneAtATime, Holds, Phases, Blank, Armed, Flags, Installed,
     GoodSurvives, GoodIsNotLost, NoPem
<1>7. HashIsRight'
  BY CertRefreshAssumption DEF OneAtATime, Holds, Phases, Blank, Armed, Flags, Installed,
     HashIsRight, Pem, Cert, NoPem
<1> QED
  BY <1>1, <1>2, <1>3, <1>4, <1>5, <1>6, <1>7

LEMMA KillKeeps == ASSUME IInv, NEW r \in Run, Kill(r) PROVE IInv'
<1> USE DEF IInv, TypeOK, Row, Kill, Vanishes, Leftover, Idle
<1>1. TypeOK'
  <2>1. run' \in [Run -> Row]
    <3> HIDE DEF Row, Idle
    <3> QED
      BY Rows DEF PC
  <2>2. kept' \in SUBSET Cert
    <3> HIDE DEF Leftover
    <3> QED
      BY Rows
  <2>3. \A t \in Run : run'[t].masked
          => run'[t].pc \in {"restore", "revive", "remove", "cleanup"}
    OBVIOUS
  <2> QED
    BY <2>1, <2>2, <2>3
<1>2. LockKept'
  BY CertRefreshAssumption DEF LockKept, Holds, OneAtATime
<1>3. OneAtATime'
  BY CertRefreshAssumption DEF OneAtATime, LockKept, Holds
<1>4. Phases'
  BY CertRefreshAssumption DEF OneAtATime, Holds, Phases, Blank, Armed, Flags, Installed, NoPem
<1>5. GoodSurvives'
  BY CertRefreshAssumption DEF OneAtATime, Holds, Phases, Blank, Armed, Flags, Installed,
     GoodSurvives, NoPem
<1>6. GoodIsNotLost'
  BY CertRefreshAssumption DEF OneAtATime, Holds, Phases, Blank, Armed, Flags, Installed,
     GoodSurvives, GoodIsNotLost, NoPem
<1>7. HashIsRight'
  BY CertRefreshAssumption DEF OneAtATime, Holds, Phases, Blank, Armed, Flags, Installed,
     HashIsRight, Pem, Cert, NoPem
<1> QED
  BY <1>1, <1>2, <1>3, <1>4, <1>5, <1>6, <1>7

LEMMA RenewKeeps == ASSUME IInv, Renew PROVE IInv'
<1> USE DEF IInv, TypeOK, Renew
<1>0. source \in Nat /\ source' = source + 1 /\ source' \in Cert /\ hash <= source /\ hash \in Nat
  BY CertRefreshAssumption DEF Cert, Pem, NoPem, HashIsRight
<1>1. TypeOK'
  BY <1>0
<1>2. LockKept' /\ OneAtATime'
  BY DEF LockKept, OneAtATime, Holds
<1>3. Phases' /\ GoodSurvives' /\ GoodIsNotLost'
  BY DEF Phases, Blank, Armed, Flags, Installed, GoodSurvives, GoodIsNotLost
<1>4. HashIsRight'
  <2>1. ASSUME NEW r \in Run
        PROVE  run[r].new \in Nat /\ run[r].new <= source
    BY DEF HashIsRight, Row, Pem, Cert, NoPem
  <2> QED
    BY <1>0, <2>1 DEF HashIsRight
<1> QED
  BY <1>1, <1>2, <1>3, <1>4

LEMMA RelayKeeps == ASSUME IInv, Relay PROVE IInv'
<1> USE DEF IInv, TypeOK, Relay, files
<1>1. TypeOK'
  BY DEF Pem
<1>2. LockKept' /\ OneAtATime'
  BY DEF LockKept, OneAtATime, Holds
<1>3. Phases'
  BY DEF Phases, Blank, Armed, Flags, Installed
<1>4. GoodSurvives' /\ GoodIsNotLost'
  BY DEF GoodSurvives, GoodIsNotLost
<1>5. HashIsRight'
  BY DEF HashIsRight
<1> QED
  BY <1>1, <1>2, <1>3, <1>4, <1>5

LEMMA StutterKeeps == ASSUME IInv, UNCHANGED vars PROVE IInv'
BY DEF IInv, vars, TypeOK, LockKept, OneAtATime, Holds, Phases, Blank, Armed, Flags, Installed,
       GoodSurvives, GoodIsNotLost, HashIsRight

LEMMA Start == ASSUME Init PROVE IInv
<1> USE CertRefreshAssumption DEF Init
<1>1. source \in Cert /\ pem \in Pem /\ hash \in Pem /\ serving \in Pem /\ good \in Pem
  BY DEF Cert, Pem, NoPem
<1>2. \A r \in Run : run[r] = Idle
  OBVIOUS
<1>3. TypeOK
  <2>1. run \in [Run -> Row]
    BY Rows
  <2> QED
    BY <1>1, <1>2, <2>1 DEF TypeOK, Idle
<1>4. LockKept /\ OneAtATime /\ Phases /\ GoodSurvives
  BY <1>2 DEF Idle, LockKept, OneAtATime, Holds, Phases, Blank, Armed, Flags, Installed,
     GoodSurvives
<1>5. GoodIsNotLost
  BY DEF GoodIsNotLost
<1>6. HashIsRight
  BY <1>2 DEF Idle, HashIsRight, NoPem
<1> QED
  BY <1>3, <1>4, <1>5, <1>6 DEF IInv

LEMMA NextKeeps == ASSUME IInv, [Next]_vars PROVE IInv'
<1>1. ASSUME NEW r \in Run, Step(r)
      PROVE  IInv'
  BY <1>1, OpenKeeps, FlockKeeps, StageKeeps, ProbeKeeps, BackupKeeps, ArmKeeps, MoveKeeps,
     RecreateKeeps, HealthKeeps, CommitKeeps, RecordKeeps, UndoKeeps, RestoreKeeps, ReviveKeeps,
     RemoveKeeps, TrapKeeps, CleanupKeeps
     DEF Step
<1>2. ASSUME NEW r \in Run, Signal(r) \/ Kill(r)
      PROVE  IInv'
  BY <1>2, SignalKeeps, KillKeeps
<1> QED
  BY <1>1, <1>2, RenewKeeps, RelayKeeps, StutterKeeps DEF Next

\* No step but Commit sets committed, and Commit comes after the health check.
LEMMA Committing ==
  ASSUME TypeOK, [Next]_vars, NEW r \in Run, ~run[r].committed, run'[r].committed
  PROVE  run[r].pc = "reload"
<1> USE DEF TypeOK, Row
<1>1. ASSUME NEW q \in Run, Step(q)
      PROVE  run[r].pc = "reload"
  <2>1. CASE Open(q)
    BY <2>1 DEF Open
  <2>2. CASE Flock(q)
    BY <2>2 DEF Flock, Goes, Idle
  <2>3. CASE Stage(q)
    BY <2>3 DEF Stage, Goes
  <2>4. CASE Probe(q)
    BY <2>4 DEF Probe, Goes
  <2>5. CASE Backup(q)
    BY <2>5 DEF Backup, Goes
  <2>6. CASE Arm(q)
    BY <2>6 DEF Arm
  <2>7. CASE Move(q)
    BY <2>7 DEF Move, Goes
  <2>8. CASE Recreate(q)
    BY <2>8 DEF Recreate, Goes
  <2>9. CASE Health(q)
    BY <2>9 DEF Health, Goes
  <2>10. CASE Commit(q)
    BY <2>10 DEF Commit, Goes
  <2>11. CASE Record(q)
    BY <2>11 DEF Record, Goes
  <2>12. CASE Undo(q)
    BY <2>12 DEF Undo, RollsBack
  <2>13. CASE Restore(q)
    BY <2>13 DEF Restore, After
  <2>14. CASE Revive(q)
    BY <2>14 DEF Revive, After, Goes
  <2>15. CASE Remove(q)
    <3>1. PICK b \in BOOLEAN : run' = [run EXCEPT ![q] = Removed(run[q], b)]
      BY <2>15 DEF Remove
    <3>2. Removed(run[q], b).committed = run[q].committed
      BY RemovedRow
    <3> QED
      BY <3>1, <3>2
  <2>16. CASE Trap(q)
    BY <2>16 DEF Trap, RollsBack
  <2>17. CASE Cleanup(q)
    BY <2>17 DEF Cleanup, Idle
  <2> QED
    BY <1>1, <2>1, <2>2, <2>3, <2>4, <2>5, <2>6, <2>7, <2>8,
       <2>9, <2>10, <2>11, <2>12, <2>13, <2>14, <2>15, <2>16, <2>17 DEF Step
<1>2. ASSUME NEW q \in Run, Signal(q) \/ Kill(q)
      PROVE  run[r].pc = "reload"
  BY <1>2 DEF Signal, Kill, Vanishes, Goes, Idle
<1>3. CASE Renew \/ Relay \/ UNCHANGED vars
  BY <1>3 DEF Renew, Relay, vars
<1> QED
  BY <1>1, <1>2, <1>3 DEF Next

-----------------------------------------------------------------------------
(* The theorems.                                                           *)

\* The conjunction of the parts is an invariant of every interleaving of runs.
THEOREM Invariant == Spec => []IInv
BY Start, NextKeeps, PTL DEF Spec

\* Every variable keeps its type, and a run that has masked its signals does
\* nothing but roll back and clean up (on_exit).
THEOREM TypeCorrect == Spec => []TypeOK
<1>1. IInv => TypeOK
  BY DEF IInv
<1> QED
  BY <1>1, Invariant, PTL

\* flock on a file that is never unlinked: no two runs are past the lock.
THEOREM OnlyOne == Spec => []OneAtATime
<1>1. IInv => OneAtATime
  BY DEF IInv
<1> QED
  BY <1>1, Invariant, PTL

\* The certificate committed last is installed or in a backup, whichever runs
\* fail, are interrupted by signals or are killed, and wherever.
THEOREM GoodKept == Spec => []GoodIsNotLost
<1>1. IInv => GoodIsNotLost
  BY DEF IInv
<1> QED
  BY <1>1, Invariant, PTL

\* A run commits only what it installed, and while frps has loaded it or is down.
THEOREM ServedWhenCommitted == Spec => CommittedIsServed
<1>1. IInv /\ [Next]_vars =>
        \A r \in Run : ~run[r].committed /\ run'[r].committed
          => pem = run[r].new /\ serving \in {NoPem, run[r].new}
  <2> SUFFICES ASSUME IInv, [Next]_vars, NEW r \in Run, ~run[r].committed, run'[r].committed
               PROVE  pem = run[r].new /\ serving \in {NoPem, run[r].new}
    OBVIOUS
  <2>1. run[r].pc = "reload"
    BY Committing DEF IInv
  <2> QED
    BY <2>1 DEF IInv, Phases, Installed
<1> QED
  BY <1>1, Invariant, PTL DEF Spec, CommittedIsServed

\* A run that says "unchanged" says so only while frps has loaded nothing but
\* the source it staged, whatever earlier runs left behind.
THEOREM UnchangedReportsTrue == Spec => UnchangedIsTrue
<1>1. IInv /\ [Next]_vars =>
        \A r \in Run : run[r].pc = "probe" /\ run'[r].pc = "exiting"
          => serving \in {NoPem, run[r].new}
  BY DEF IInv, Phases, Installed
<1> QED
  BY <1>1, Invariant, PTL DEF Spec, UnchangedIsTrue

-----------------------------------------------------------------------------
(* Rollbacks.  They change nothing that the invariant above relates, so    *)
(* what they leave behind is an invariant of its own, relative to that one. *)

\* From its flag on, a rollback has put back what the run found, or still has to,
\* or has said why not, or could not remove what nobody had installed before; and
\* nothing else is left for the trap to clean up.
Undone(q) ==
  /\ q.rolling => q.pc \in {"restore", "revive", "remove", "exiting", "cleanup"}
  /\ q.rolling /\ ~q.installed => pem = q.before \/ (q.stays /\ q.before = NoPem)
  /\ q.rolling /\ q.installed /\ q.pc \in {"exiting", "cleanup"} => q.failed \/ q.cut
  /\ q.pc = "cleanup" /\ q.installed => q.committed \/ q.rolling

RollbacksEnd == \A r \in Run : Undone(run[r])

LEMMA RollbackStep ==
  ASSUME IInv, RollbacksEnd, NEW r \in Run, Step(r) PROVE RollbacksEnd'
<1>1. /\ run \in [Run -> Row]
      /\ \A q \in Run : Undone(run[q])
      /\ \A q \in Run : Blank(run[q]) /\ Armed(run[q]) /\ Flags(run[q])
      /\ \A q \in Run : Holds(q) /\ Holds(r) => q = r
      /\ \A q \in Run : ~Holds(q) => ~run[q].rolling /\ ~run[q].installed
  BY DEF IInv, TypeOK, Phases, OneAtATime, RollbacksEnd, Holds, Blank
<1> USE <1>1 DEF RollbacksEnd, Undone, Row, files, Holds
<1>2. CASE Open(r)
  BY <1>2 DEF Open
<1>3. CASE Flock(r)
  BY <1>3 DEF Flock, Goes, Idle
<1>4. CASE Stage(r)
  BY <1>4 DEF Stage, Goes, Blank
<1>5. CASE Probe(r)
  BY <1>5 DEF Probe, Goes, Blank
<1>6. CASE Backup(r)
  BY <1>6 DEF Backup, Goes, Blank
<1>7. CASE Arm(r)
  BY <1>7 DEF Arm
<1>8. CASE Move(r)
  BY <1>8 DEF Move, Goes
<1>9. CASE Recreate(r)
  BY <1>9 DEF Recreate, Goes
<1>10. CASE Health(r)
  BY <1>10 DEF Health, Goes
<1>11. CASE Commit(r)
  BY <1>11 DEF Commit, Goes
<1>12. CASE Record(r)
  BY <1>12 DEF Record, Goes
<1>13. CASE Undo(r)
  <2>1. /\ RollsBack(run[r]).pc \in {"restore", "revive"}
        /\ RollsBack(run[r]).installed
    BY <1>13 DEF Undo, RollsBack, Armed
  <2>2. run'[r] = RollsBack(run[r])
    BY <1>13 DEF Undo
  <2>3. Undone(run[r])'
    BY <2>1, <2>2
  <2>4. \A q \in Run \ {r} : run'[q] = run[q]
    BY <1>13 DEF Undo
  <2> QED
    BY <1>13, <2>3, <2>4 DEF Undo
<1>14. CASE Restore(r)
  BY <1>14 DEF Restore, After, Armed
<1>15. CASE Revive(r)
  <2>1. PICK label \in {"remove", "exiting", "cleanup"} :
          /\ run' = [run EXCEPT ![r].pc = label]
          /\ label # "remove" => run[r].before # NoPem
    BY <1>15 DEF Revive, Goes, After
  <2>2. /\ run'[r].pc = label
        /\ run'[r].rolling = run[r].rolling
        /\ run'[r].installed = run[r].installed
        /\ run'[r].before = run[r].before
        /\ run'[r].stays = run[r].stays
    BY <2>1
  <2>3. label # "remove" => ~run[r].installed
    BY <1>15, <2>1 DEF Revive, Flags
  <2>4. pem' = pem
    BY <1>15 DEF Revive
  <2>5. Undone(run[r])'
    BY <2>2, <2>3, <2>4
  <2>6. \A q \in Run \ {r} : run'[q] = run[q]
    BY <2>1
  <2> QED
    BY <2>4, <2>5, <2>6
<1>16. CASE Remove(r)
  <2>1. PICK b \in BOOLEAN : /\ run' = [run EXCEPT ![r] = Removed(run[r], b)]
                             /\ ~b => pem' = NoPem
    BY <1>16 DEF Remove
  <2>2. run[r].pc = "remove" /\ run[r].before = NoPem
    BY <1>16 DEF Remove, Flags
  <2>3. /\ run'[r].pc \in {"exiting", "cleanup"}
        /\ ~run'[r].installed /\ run'[r].before = NoPem /\ run'[r].stays = b
    <3>1. run'[r] = Removed(run[r], b) /\ run[r] \in Row
      BY <2>1
    <3> HIDE DEF Row
    <3> QED
      BY <2>2, <3>1, RemovedRow
  <2>4. Undone(run[r])'
    BY <2>1, <2>3
  <2>5. \A q \in Run \ {r} : run'[q] = run[q] /\ ~run'[q].rolling /\ ~run'[q].installed
    BY <2>1, <2>2
  <2>6. \A q \in Run \ {r} : Undone(run[q])'
    BY <2>5
  <2> QED
    BY <2>4, <2>6
<1>17. CASE Trap(r)
  BY <1>17 DEF Trap, RollsBack
<1>18. CASE Cleanup(r)
  BY <1>18 DEF Cleanup, Idle
<1> QED
  BY <1>2, <1>3, <1>4, <1>5, <1>6, <1>7, <1>8, <1>9, <1>10, <1>11, <1>12, <1>13, <1>14,
     <1>15, <1>16, <1>17, <1>18 DEF Step

LEMMA RollbackOthers ==
  ASSUME IInv, RollbacksEnd, [Next]_vars,
         (\E r \in Run : Signal(r) \/ Kill(r)) \/ Renew \/ Relay \/ UNCHANGED vars
  PROVE  RollbacksEnd'
<1> USE DEF IInv, TypeOK, Row, RollbacksEnd, Undone
<1>1. ASSUME NEW r \in Run, Kill(r)
      PROVE  RollbacksEnd'
  BY <1>1 DEF Kill, Vanishes, Idle
<1>2. ASSUME NEW r \in Run, Signal(r)
      PROVE  RollbacksEnd'
  BY <1>2 DEF Signal, Vanishes, Idle
<1>3. CASE Renew \/ Relay \/ UNCHANGED vars
  BY <1>3 DEF Renew, Relay, vars, files
<1> QED
  BY <1>1, <1>2, <1>3

LEMMA RollbacksStart == ASSUME Init PROVE RollbacksEnd
<1>1. \A r \in Run : run[r] = Idle
  BY DEF Init
<1>2. Undone(Idle)
  BY DEF Undone, Idle
<1> QED
  BY <1>1, <1>2 DEF RollbacksEnd

\* The flags of a rollback and what is installed agree at every moment, whichever
\* runs are interrupted or killed, and wherever.
LEMMA RollbacksEndAlways == Spec => []RollbacksEnd
<1>1. IInv /\ RollbacksEnd /\ [Next]_vars => RollbacksEnd'
  BY RollbackStep, RollbackOthers DEF Next
<1> QED
  BY <1>1, RollbacksStart, Invariant, PTL DEF Spec

\* rollback_install and the exit trap: a run that installed and did not commit ends
\* with what it found, or has said that it could not restore it, or was broken off
\* by a signal in the middle of restoring, or found no PEM and could not remove its
\* own.
THEOREM RestoredOrSaid == Spec => RestoredUnlessCutOff
<1>1. IInv /\ RollbacksEnd /\ [Next]_vars =>
        \A r \in Run :
          run[r].pc = "cleanup" /\ run'[r].pc = "idle" /\ (run[r].installed \/ run[r].rolling)
            => \/ run[r].committed \/ run[r].failed \/ run[r].cut
               \/ run[r].stays /\ run[r].before = NoPem
               \/ pem = run[r].before
  BY DEF IInv, TypeOK, Row, RollbacksEnd, Undone
<1> QED
  BY <1>1, Invariant, RollbacksEndAlways, PTL DEF Spec, RestoredUnlessCutOff
=============================================================================
