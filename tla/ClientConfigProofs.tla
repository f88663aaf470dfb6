------------------------- MODULE ClientConfigProofs -------------------------
(***************************************************************************)
(* Safety of ClientConfig, for every number of processes and writes and    *)
(* every set of tokens offered.                                            *)
(***************************************************************************)
EXTENDS ClientConfig, TLAPS

(* The inductive invariant, in parts.                                      *)

\* A file that a loss of power may leave is no older than the last login that was
\* reported done; no file at all may be left of a login that went with its directory.
Recent(e, done, lost) == done <= e.number \/ (done <= lost /\ e.token = NoToken)

\* What the path may name after a loss of power is whole, recent, and no newer than
\* what the path names now.
DiskKnown ==
  /\ path \in disk
  /\ \A e \in disk : e.synced /\ e.token # Torn
  /\ \A e \in disk : e.number <= path.number /\ Recent(e, settled, gone)
  /\ path.number <= writes /\ settled <= writes

\* A process that is about to rename has a whole file; one that has renamed
\* finds the path where it left it or further on; one that has read the path
\* found it no older than what was reported done when it started.
RowOK(w, number, done) ==
  /\ w.pc \in {"sync", "rename"} => w.token \in Token
  /\ w.pc = "rename" => w.synced
  /\ w.pc = "syncdir" => w.number <= number
  /\ w.since <= done
  /\ w.pc \in {"parse", "run"} => w.number >= w.since
  /\ w.pc = "run" => Runnable(w.token)

RowsOK == \A p \in Process : RowOK(work[p], path.number, settled)

Types ==
  /\ path \in Entry
  /\ disk \in SUBSET Entry
  /\ writes \in Number
  /\ settled \in Number /\ gone \in Number
  /\ home \in {"none", "made", "kept"}
  /\ work \in [Process -> Work]

IInv == Types /\ DiskKnown /\ RowsOK

-----------------------------------------------------------------------------
(* Tokens.                                                                 *)

\* What NewToken issues a tunnel can run on: the client's parser refuses
\* nothing that the relay's validation lets through.
THEOREM IssuedTokensRun ==
  ASSUME NEW info \in Server, Issuable(info)
  PROVE  Runnable(NewToken(info)) /\ NewToken(info).server.addr = info.addr
<1>1. PICK d : d = Defaulted(info)
  OBVIOUS
<1>2. validateServerInfo(d)
  BY <1>1 DEF Issuable
<1>3. /\ d \in Server /\ d.addr = info.addr
      /\ info.tls = Empty => d.tls = info.addr
      /\ info.tls # Empty => d = info
  <2>1. CASE info.tls = Empty
    BY <1>1, <2>1 DEF Defaulted, Server
  <2>2. CASE info.tls # Empty
    BY <1>1, <2>2 DEF Defaulted
  <2> QED
    BY <2>1, <2>2
<1>4. NewToken(info) = [version |-> "kt2", server |-> d, secret |-> TRUE]
  BY <1>1 DEF NewToken
<1>5. d.tls # Empty
  <2>1. d.addr # Empty
    BY <1>2 DEF validateServerInfo
  <2> QED
    BY <1>3, <2>1
<1> QED
  BY <1>2, <1>3, <1>4, <1>5 DEF Runnable, Parses, Token

\* And the other way round: what runs can have been issued.
LEMMA RunnableIssued ==
  ASSUME NEW t, Runnable(t)
  PROVE  \E i \in Server : Issuable(i) /\ t = NewToken(i)
<1>1. t \in Token /\ t.version = "kt2" /\ t.secret /\ t.server.tls # Empty
  BY DEF Runnable, Parses, Token
<1>2. t.server \in Server /\ validateServerInfo(t.server)
  BY DEF Runnable, Parses, Token
<1>3. Defaulted(t.server) = t.server
  BY <1>1 DEF Defaulted
<1>4. t = [version |-> "kt2", server |-> t.server, secret |-> TRUE]
  BY <1>1 DEF Token
<1> QED
  BY <1>2, <1>3, <1>4 DEF Issuable, NewToken

-----------------------------------------------------------------------------
(* Rows.                                                                   *)

\* A blank row is a row, and agrees with everything.
LEMMA Blank ==
  /\ Idle \in Work /\ Idle.since = 0
  /\ \A number, done \in Nat : RowOK(Idle, number, done)
BY ConfigAssumption DEF Idle, Work, Number, RowOK

\* A row stays in order while the path and what is reported done move on.
LEMMA RowMovesOn ==
  ASSUME NEW w \in Work, NEW m \in Nat, NEW n \in Nat, NEW d \in Nat, NEW e \in Nat,
         m <= n, d <= e, RowOK(w, m, d)
  PROVE  RowOK(w, n, e)
BY ConfigAssumption DEF RowOK, Work, Number

\* A step of one process keeps the rows in order if its own new row is.
LEMMA RowSteps ==
  ASSUME IInv, NEW p \in Process, NEW w, Does(p, w), w \in Work,
         path'.number \in Nat, settled' \in Nat,
         path.number <= path'.number, settled <= settled',
         RowOK(w, path'.number, settled')
  PROVE  work' \in [Process -> Work] /\ RowsOK'
<1>1. work' \in [Process -> Work]
  BY DEF IInv, Types, Does
<1>2. path.number \in Nat /\ settled \in Nat
  BY ConfigAssumption DEF IInv, Types, Entry, Number
<1>3. ASSUME NEW q \in Process PROVE RowOK(work'[q], path'.number, settled')
  <2>1. CASE q = p
    BY <2>1 DEF Does, IInv, Types
  <2>2. CASE q # p
    <3>1. work'[q] = work[q] /\ work[q] \in Work
      BY <2>2 DEF Does, IInv, Types
    <3>2. RowOK(work[q], path.number, settled)
      BY DEF IInv, RowsOK
    <3> QED
      BY <1>2, <3>1, <3>2, RowMovesOn
  <2> QED
    BY <2>1, <2>2
<1> QED
  BY <1>1, <1>3 DEF RowsOK

\* The file stays as it is, if not its directory.
LEMMA FileStays ==
  ASSUME IInv, NEW p \in Process, NEW w, Does(p, w), w \in Work,
         UNCHANGED <<path, disk, writes, settled, gone>>,
         home' \in {"none", "made", "kept"}, RowOK(w, path.number, settled)
  PROVE  IInv'
<1>1. path.number \in Nat /\ settled \in Nat
  BY ConfigAssumption DEF IInv, Types, Entry, Number
<1>2. work' \in [Process -> Work] /\ RowsOK'
  BY <1>1, RowSteps
<1> QED
  BY <1>2 DEF IInv, Types, DiskKnown

\* The common case: only the process's own row changes.
LEMMA QuietSteps ==
  ASSUME IInv, NEW p \in Process, NEW w, Does(p, w), w \in Work,
         UNCHANGED files, RowOK(w, path.number, settled)
  PROVE  IInv'
<1>1. UNCHANGED <<path, disk, writes, settled, gone>> /\ home' \in {"none", "made", "kept"}
  BY DEF files, IInv, Types
<1> QED
  BY <1>1, FileStays

\* A new name of the path.
LEMMA NamesKeep ==
  ASSUME IInv, NEW token \in Token \cup {NoToken}, Names(token, TRUE), UNCHANGED <<home, settled, gone>>
  PROVE  /\ path' \in Entry /\ disk' \in SUBSET Entry /\ writes' \in Number
         /\ settled' \in Number
         /\ DiskKnown'
         /\ path'.number \in Nat /\ path.number <= path'.number
         /\ path'.number = writes + 1
<1>1. path.number \in Nat /\ settled \in Nat /\ writes \in Nat
  BY ConfigAssumption DEF IInv, Types, Entry, Number
<1>2. path' = [number |-> writes + 1, token |-> token, synced |-> TRUE] /\ writes' = writes + 1
  BY DEF Names
<1>3. writes + 1 \in Number
  BY <1>1, ConfigAssumption DEF Names, Number
<1>4. path' \in Entry
  BY <1>2, <1>3 DEF Entry
<1>5. disk' = disk \cup {path'}
  BY DEF Names
<1>6. path.number <= writes /\ settled <= writes
  BY <1>1 DEF IInv, DiskKnown
<1>7. \A e \in disk : e.number \in Nat
  BY ConfigAssumption DEF IInv, Types, Entry, Number
<1>8. token # Torn /\ (\A e \in disk : e.synced /\ e.token # Torn)
  <2>1. token \in Token => token # Torn
    BY ConfigAssumption
  <2>2. NoToken # Torn
    BY ConfigAssumption
  <2> QED
    BY <2>1, <2>2 DEF IInv, DiskKnown
<1>9. DiskKnown'
  <2>1. \A e \in disk' : e.synced /\ e.token # Torn
    BY <1>2, <1>5, <1>8
  <2>2. ASSUME NEW e \in disk' PROVE e.number <= path'.number /\ Recent(e, settled', gone')
    <3>1. CASE e = path'
      BY <1>1, <1>2, <1>6, <3>1 DEF Recent
    <3>2. CASE e \in disk
      <4>1. e.number \in Nat /\ e.number <= path.number /\ Recent(e, settled, gone)
        BY <1>7, <3>2 DEF IInv, DiskKnown
      <4>2. settled' = settled /\ gone' = gone /\ path'.number = writes + 1
        BY <1>2
      <4> QED
        BY <1>1, <1>6, <4>1, <4>2
    <3> QED
      BY <1>5, <3>1, <3>2
  <2>3. path' \in disk' /\ path'.number <= writes' /\ settled' <= writes'
    BY <1>1, <1>2, <1>5, <1>6
  <2> QED
    BY <2>1, <2>2, <2>3 DEF DiskKnown
<1>10. path' \in Entry /\ disk' \in SUBSET Entry /\ writes' \in Number /\ settled' \in Number
  BY <1>2, <1>3, <1>4, <1>5 DEF IInv, Types
<1>11. path'.number = writes + 1
  BY <1>2
<1>12. path'.number \in Nat /\ path.number <= path'.number
  BY <1>1, <1>6, <1>11
<1> QED
  BY <1>9, <1>10, <1>11, <1>12

-----------------------------------------------------------------------------
(* Each action preserves the invariant.                                    *)

LEMMA InitHolds == Init => IInv
<1> SUFFICES ASSUME Init PROVE IInv
  OBVIOUS
<1> USE ConfigAssumption DEF Init
<1>1. path \in Entry /\ disk \in SUBSET Entry /\ writes \in Number /\ settled \in Number
  BY DEF Nothing, Entry, Number
<1>2. work \in [Process -> Work] /\ RowsOK
  BY Blank DEF RowsOK, Nothing
<1>3. DiskKnown
  BY DEF DiskKnown, Nothing, Recent
<1>4. gone \in Number /\ home \in {"none", "made", "kept"}
  BY DEF Number
<1> QED
  BY <1>1, <1>2, <1>3, <1>4 DEF IInv, Types

LEMMA LoginKeeps ==
  ASSUME IInv, NEW p \in Process, NEW t \in Offered, Login(p, t) PROVE IInv'
<1> DEFINE w == [Idle EXCEPT !.pc = "sync", !.token = t]
<1>1. t \in Token
  BY ConfigAssumption
<1>2. settled \in Nat
  BY ConfigAssumption DEF IInv, Types, Number
<1>3. w \in Work /\ RowOK(w, path.number, settled)
  <2>1. w \in Work /\ w.pc = "sync" /\ w.token = t /\ w.since = 0
    BY <1>1, Blank DEF Work, Step
  <2> HIDE DEF w
  <2> QED
    BY <1>1, <1>2, <2>1 DEF RowOK
<1>4. Does(p, w) /\ UNCHANGED <<path, disk, writes, settled, gone>>
      /\ home' \in {"none", "made", "kept"}
  BY DEF Login, Home, IInv, Types
<1> HIDE DEF w
<1> QED
  BY <1>3, <1>4, FileStays

LEMMA SyncTempKeeps ==
  ASSUME IInv, NEW p \in Process, SyncTemp(p) PROVE IInv'
<1> DEFINE w == [work[p] EXCEPT !.pc = "rename", !.synced = TRUE]
<1>1. work[p] \in Work /\ RowOK(work[p], path.number, settled) /\ work[p].pc = "sync"
  BY DEF IInv, Types, RowsOK, SyncTemp
<1>2. w \in Work /\ RowOK(w, path.number, settled)
  BY <1>1 DEF Work, Step, RowOK
<1>3. Does(p, w) /\ UNCHANGED files
  BY DEF SyncTemp
<1> HIDE DEF w
<1> QED
  BY <1>2, <1>3, QuietSteps

LEMMA RenameKeeps ==
  ASSUME IInv, NEW p \in Process, Rename(p) PROVE IInv'
<1> DEFINE w == [work[p] EXCEPT !.pc = "syncdir", !.number = writes + 1]
<1>1. work[p] \in Work /\ RowOK(work[p], path.number, settled) /\ work[p].pc = "rename"
  BY DEF IInv, Types, RowsOK, Rename
<1>2. work[p].token \in Token /\ work[p].synced = TRUE
  BY <1>1 DEF RowOK, Work
<1>3. Names(work[p].token, TRUE) /\ UNCHANGED <<home, settled, gone>> /\ Does(p, w)
  BY <1>2 DEF Rename
<1>4. /\ path' \in Entry /\ disk' \in SUBSET Entry /\ writes' \in Number
      /\ settled' \in Number
      /\ DiskKnown'
      /\ path'.number \in Nat /\ path.number <= path'.number
      /\ path'.number = writes + 1
  BY <1>2, <1>3, NamesKeep
<1>5. writes + 1 \in Number /\ settled \in Nat /\ settled' = settled
  BY <1>3, <1>4, ConfigAssumption DEF Names, Number, IInv, Types
<1>6. w \in Work /\ RowOK(w, path'.number, settled')
  <2>1. w \in Work
    BY <1>1, <1>5 DEF Work, Step
  <2>2. w.pc = "syncdir" /\ w.number = path'.number /\ w.since = work[p].since
    BY <1>1, <1>4 DEF Work
  <2>3. w.since <= settled' /\ w.number <= path'.number
    BY <1>1, <1>4, <1>5, <2>2 DEF RowOK
  <2> HIDE DEF w
  <2> QED
    BY <2>1, <2>2, <2>3 DEF RowOK
<1> HIDE DEF w
<1>7. work' \in [Process -> Work] /\ RowsOK'
  BY <1>3, <1>4, <1>5, <1>6, RowSteps
<1> QED
  BY <1>3, <1>4, <1>7 DEF IInv, Types

LEMMA SyncDirKeeps ==
  ASSUME IInv, NEW p \in Process, SyncDir(p) PROVE IInv'
<1>1. work[p] \in Work /\ work[p].number <= path.number
  BY DEF IInv, Types, RowsOK, RowOK, SyncDir
<1>2. path.number \in Nat /\ settled \in Nat /\ work[p].number \in Nat /\ writes \in Nat
  BY <1>1, ConfigAssumption DEF IInv, Types, Entry, Work, Number
<1>3. path.number <= writes /\ settled <= writes /\ Recent(path, settled, gone)
  BY <1>2 DEF IInv, DiskKnown
<1>4. /\ settled' \in Number /\ settled' \in Nat
      /\ settled' = settled \/ (settled' <= path.number /\ settled <= settled')
  BY <1>1, <1>2, <1>3 DEF SyncDir, IInv, Types, Work, Number
<1>5. Does(p, Idle) /\ UNCHANGED <<path, home, writes, gone>> /\ disk' = {path}
  BY DEF SyncDir
<1>6. work' \in [Process -> Work] /\ RowsOK'
  BY <1>2, <1>4, <1>5, Blank, RowSteps
<1>7. DiskKnown'
  <2>1. Recent(path, settled', gone)
    BY <1>2, <1>3, <1>4 DEF Recent
  <2> QED
    BY <1>2, <1>3, <1>4, <1>5, <2>1 DEF DiskKnown, IInv
<1> QED
  BY <1>4, <1>5, <1>6, <1>7 DEF IInv, Types

LEMMA LogoutKeeps ==
  ASSUME IInv, NEW p \in Process, Logout(p) PROVE IInv'
<1>1. Names(NoToken, TRUE) /\ UNCHANGED <<home, settled, gone, work>>
  BY DEF Logout
<1>2. /\ path' \in Entry /\ disk' \in SUBSET Entry /\ writes' \in Number
      /\ settled' \in Number
      /\ DiskKnown'
      /\ path'.number \in Nat /\ path.number <= path'.number
  BY <1>1, NamesKeep
<1>3. path.number \in Nat /\ settled \in Nat /\ settled' = settled
  BY <1>1, ConfigAssumption DEF IInv, Types, Entry, Number
<1>4. RowsOK'
  <2> SUFFICES ASSUME NEW q \in Process PROVE RowOK(work[q], path'.number, settled')
    BY <1>1 DEF RowsOK
  <2>1. work[q] \in Work /\ RowOK(work[q], path.number, settled)
    BY DEF IInv, Types, RowsOK
  <2> QED
    BY <1>2, <1>3, <2>1, RowMovesOn
<1> QED
  BY <1>1, <1>2, <1>4 DEF IInv, Types

LEMMA LoadKeeps ==
  ASSUME IInv, NEW p \in Process, Load(p) PROVE IInv'
<1> DEFINE w == [Idle EXCEPT !.pc = "lstat", !.since = settled]
<1>1. settled \in Number
  BY DEF IInv, Types
<1>2. w \in Work /\ RowOK(w, path.number, settled)
  <2>1. w \in Work /\ w.pc = "lstat" /\ w.since = settled
    BY <1>1, Blank DEF Work, Step
  <2> HIDE DEF w
  <2> QED
    BY <1>1, <2>1, ConfigAssumption DEF RowOK, Number
<1>3. Does(p, w) /\ UNCHANGED files
  BY DEF Load
<1> HIDE DEF w
<1> QED
  BY <1>2, <1>3, QuietSteps

LEMMA LstatKeeps ==
  ASSUME IInv, NEW p \in Process, Lstat(p) PROVE IInv'
<1> DEFINE seen == [work[p] EXCEPT !.pc = "open", !.number = path.number]
           w == IF path.token = NoToken THEN Idle ELSE seen
<1>1. work[p] \in Work /\ RowOK(work[p], path.number, settled) /\ path \in Entry
  BY DEF IInv, Types, RowsOK
<1>2. path.number \in Nat /\ settled \in Nat
  BY ConfigAssumption DEF IInv, Types, Entry, Number
<1>3. seen \in Work /\ RowOK(seen, path.number, settled)
  BY <1>1 DEF Work, Step, Entry, RowOK
<1>4. Does(p, w) /\ UNCHANGED files
  BY DEF Lstat
<1> HIDE DEF seen
<1>5. w \in Work /\ RowOK(w, path.number, settled)
  BY <1>2, <1>3, Blank
<1> HIDE DEF w
<1> QED
  BY <1>4, <1>5, QuietSteps

LEMMA OpenKeeps ==
  ASSUME IInv, NEW p \in Process, Open(p) PROVE IInv'
<1> DEFINE seen == [work[p] EXCEPT !.pc = "parse", !.token = path.token,
                                   !.number = path.number]
<1>1. work[p] \in Work /\ RowOK(work[p], path.number, settled) /\ path \in Entry
  BY DEF IInv, Types, RowsOK
<1>2. /\ path.number \in Nat /\ settled \in Nat
      /\ path.token # NoToken => settled <= path.number
  BY ConfigAssumption DEF IInv, Types, Entry, Number, DiskKnown, Recent
<1>3. seen \in Work
  BY <1>1 DEF Work, Step, Entry
<1>4. work[p].since \in Nat
  BY <1>1, ConfigAssumption DEF Work, Number
<1>5. path.token # NoToken => RowOK(seen, path.number, settled)
  BY <1>1, <1>2, <1>4 DEF RowOK, Work
<1>6. /\ UNCHANGED files
      /\ Does(p, Idle) \/ (path.token # NoToken /\ Does(p, seen))
  BY DEF Open
<1> HIDE DEF seen
<1> QED
  BY <1>2, <1>3, <1>5, <1>6, Blank, QuietSteps

LEMMA ParseKeeps ==
  ASSUME IInv, NEW p \in Process, Parse(p) PROVE IInv'
<1> DEFINE w == [work[p] EXCEPT !.pc = "run"]
<1>1. work[p] \in Work /\ RowOK(work[p], path.number, settled) /\ work[p].pc = "parse"
  BY DEF IInv, Types, RowsOK, Parse
<1>2. path.number \in Nat /\ settled \in Nat
  BY ConfigAssumption DEF IInv, Types, Entry, Number
<1>3. UNCHANGED files
  BY DEF Parse
<1>4. CASE Runnable(work[p].token)
  <2>1. w \in Work /\ RowOK(w, path.number, settled)
    BY <1>1, <1>4 DEF Work, Step, RowOK
  <2>2. Does(p, w)
    BY <1>4 DEF Parse, Goes
  <2> HIDE DEF w
  <2> QED
    BY <1>3, <2>1, <2>2, QuietSteps
<1>5. CASE ~Runnable(work[p].token)
  BY <1>2, <1>3, <1>5, Blank, QuietSteps DEF Parse
<1> QED
  BY <1>4, <1>5

LEMMA EndKeeps ==
  ASSUME IInv, NEW p \in Process, End(p) PROVE IInv'
<1>1. path.number \in Nat /\ settled \in Nat
  BY ConfigAssumption DEF IInv, Types, Entry, Number
<1> QED
  BY <1>1, Blank, QuietSteps DEF End

LEMMA PowerLossKeeps == ASSUME IInv, PowerLoss PROVE IInv'
<1>1. path.number \in Nat /\ settled \in Nat /\ writes \in Nat
  BY ConfigAssumption DEF IInv, Types, Entry, Number
<1>2. UNCHANGED <<writes, settled>> /\ work' = [q \in Process |-> Idle]
  BY DEF PowerLoss
<1>3. ASSUME NEW f \in Entry, path' = f, disk' = {f}, gone' \in Number,
             home' \in {"none", "made", "kept"}, f.synced, f.token # Torn,
             f.number <= writes, Recent(f, settled, gone')
      PROVE  IInv'
  <2>1. f.number \in Nat
    BY <1>3, ConfigAssumption DEF Entry, Number
  <2>2. DiskKnown'
    BY <1>1, <1>2, <1>3, <2>1 DEF DiskKnown, IInv
  <2>3. work' \in [Process -> Work] /\ RowsOK'
    BY <1>1, <1>2, <1>3, <2>1, Blank DEF RowsOK
  <2> QED
    BY <1>2, <1>3, <2>2, <2>3 DEF IInv, Types
<1>4. ASSUME NEW e \in disk, NEW f \in Recovered(e), path' = f, disk' = {f},
             home' = (IF home = "made" THEN "kept" ELSE home), gone' = gone
      PROVE  IInv'
  <2>1. /\ e \in Entry /\ e.synced /\ e.token # Torn
        /\ e.number <= path.number /\ Recent(e, settled, gone)
    BY DEF IInv, Types, DiskKnown
  <2>2. f = e
    BY <2>1 DEF Recovered
  <2>3. e.number <= writes
    BY <1>1, <2>1, ConfigAssumption DEF IInv, DiskKnown, Entry, Number
  <2>4. gone' \in Number /\ home' \in {"none", "made", "kept"}
    BY <1>4 DEF IInv, Types
  <2> QED
    BY <1>3, <1>4, <2>1, <2>2, <2>3, <2>4
<1>5. ASSUME path' = Nothing, disk' = {Nothing}, home' = "none", gone' = writes PROVE IInv'
  <2>1. Nothing \in Entry /\ Nothing.synced /\ Nothing.number = 0 /\ Nothing.token = NoToken
    BY ConfigAssumption DEF Nothing, Entry, Number
  <2>2. Nothing.token # Torn
    BY <2>1, ConfigAssumption
  <2>3. gone' \in Number /\ settled <= gone'
    BY <1>5 DEF IInv, Types, DiskKnown
  <2>4. Recent(Nothing, settled, gone')
    BY <2>1, <2>3 DEF Recent
  <2> HIDE DEF Nothing
  <2> QED
    BY <1>1, <1>3, <1>5, <2>1, <2>2, <2>3, <2>4
<1> QED
  BY <1>4, <1>5 DEF PowerLoss

LEMMA NextKeeps == IInv /\ [Next]_vars => IInv'
<1> SUFFICES ASSUME IInv, [Next]_vars PROVE IInv'
  OBVIOUS
<1>1. CASE UNCHANGED vars
  BY <1>1 DEF vars, IInv, Types, DiskKnown, RowsOK
<1>2. ASSUME NEW p \in Process, NEW t \in Offered, Login(p, t) PROVE IInv'
  BY <1>2, LoginKeeps
<1>3. ASSUME NEW p \in Process, SyncTemp(p) \/ Rename(p) \/ SyncDir(p) \/ Logout(p) PROVE IInv'
  BY <1>3, SyncTempKeeps, RenameKeeps, SyncDirKeeps, LogoutKeeps
<1>4. ASSUME NEW p \in Process, Load(p) \/ Lstat(p) \/ Open(p) \/ Parse(p) \/ End(p) PROVE IInv'
  BY <1>4, LoadKeeps, LstatKeeps, OpenKeeps, ParseKeeps, EndKeeps
<1>5. CASE PowerLoss
  BY <1>5, PowerLossKeeps
<1> QED
  BY <1>1, <1>2, <1>3, <1>4, <1>5 DEF Next

-----------------------------------------------------------------------------
(* The theorems.                                                           *)

\* The inductive invariant holds throughout.
THEOREM Invariant == Spec => []IInv
BY InitHolds, NextKeeps, PTL DEF Spec

\* Every variable keeps its type; in particular only a current token that names
\* a relay is ever run on (cmdTunnel, Run).
THEOREM TypeCorrect == Spec => []TypeOK
<1>1. IInv => TypeOK
  BY DEF IInv, Types, TypeOK, RowsOK, RowOK
<1> QED
  BY <1>1, Invariant, PTL

\* The configuration is whole after any sequence of failures, kills and losses of
\* power (Save).
THEOREM AlwaysWhole == Spec => []NeverTorn
<1>1. IInv => NeverTorn
  BY DEF IInv, DiskKnown, NeverTorn
<1> QED
  BY <1>1, Invariant, PTL

\* No loss of power takes a reported login back, whatever other logins and
\* logouts do meanwhile, except together with the directory that Save has made
\* for it; and never does an older token come back (Save, syncConfigDir).
THEOREM LoginsSurvive == Spec => []LoginSurvives
<1>1. IInv => LoginSurvives
  <2> SUFFICES ASSUME IInv, NEW e \in disk
               PROVE  e.number >= settled \/ (settled <= gone /\ e.token = NoToken)
    BY DEF LoginSurvives
  <2>1. e.number \in Nat /\ settled \in Nat
    BY ConfigAssumption DEF IInv, Types, Entry, Number
  <2>2. Recent(e, settled, gone)
    BY DEF IInv, DiskKnown
  <2> QED
    BY <2>1, <2>2 DEF Recent
<1> QED
  BY <1>1, Invariant, PTL

\* What LoadConfig returns is no older than the last login reported done when it
\* was called.
THEOREM TokensFresh == Spec => []FreshToken
<1>1. IInv => FreshToken
  BY DEF IInv, RowsOK, RowOK, FreshToken
<1> QED
  BY <1>1, Invariant, PTL

\* ParseToken accepts, for a tunnel, only what NewToken can have issued.
THEOREM IssuedOnly == Spec => []GoesToIssuer
<1>1. IInv => GoesToIssuer
  BY RunnableIssued DEF IInv, RowsOK, RowOK, GoesToIssuer
<1> QED
  BY <1>1, Invariant, PTL
=============================================================================
