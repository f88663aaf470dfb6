---------------------------- MODULE ClientConfig ----------------------------
(***************************************************************************)
(* The configuration file of ktunnel (cmd/ktunnel/config.go): login saves  *)
(* a token in it, logout removes it, tunnels load it; any number of        *)
(* processes at a time, any of which may be killed or fail at any call,    *)
(* on a machine that may lose power.                                       *)
(*                                                                         *)
(* The file system is external: a name made, replaced or removed is        *)
(* certain to survive a loss of power once the directory it is in has been *)
(* synced; the content of a file, once the file has.  Save syncs the file  *)
(* and the directory of the configuration, but not what that directory is  *)
(* in.  Not here: file systems that cannot sync a directory, and Windows,  *)
(* where syncConfigDir succeeds without having synced anything.            *)
(***************************************************************************)
EXTENDS TokenFormat

CONSTANTS
  Process,     \* slots for ktunnel processes
  NoToken,     \* no token: there is no file
  Torn,        \* what is left of a file whose content did not reach the disk
  Offered,     \* the tokens users come with
  MaxWrites    \* bound: replacements and removals of the file

ASSUME ConfigAssumption ==
  /\ Offered \subseteq Token
  /\ NoToken \notin Token /\ Torn \notin Token \cup {NoToken}
  /\ MaxWrites \in Nat

VARIABLES
  path,      \* what the path config names
  disk,      \* what it may name after a loss of power, if its directory is there
  home,      \* that directory
  writes,    \* how often it has been replaced or removed
  settled,   \* history: the last of them that a login has reported done
  gone,      \* history: the last of them when the directory was lost
  work       \* what each process is doing

vars == <<path, disk, home, writes, settled, gone, work>>

\* All that a process leaves alone that only looks, or that ends.
files == <<path, disk, home, writes, settled, gone>>

Number == 0..MaxWrites

\* A file, or its absence; a file keeps the number of its rename.
Entry == [number : Number, token : Token \cup {NoToken, Torn}, synced : BOOLEAN]

\* Steps of Save: the temporary file written ("sync"), synced and closed
\* ("rename"), renamed ("syncdir").  Steps of LoadConfig: "lstat", "open",
\* "parse".  "run" is a tunnel at work.
Step == {"sync", "rename", "syncdir", "lstat", "open", "parse", "run"}

\* token and synced are those of the process's own file, number that of the
\* file it replaced or read, since is settled when the process started.
Work == [pc : {"idle"} \cup Step, token : Token \cup {NoToken, Torn},
         synced : BOOLEAN, number : Number, since : Number]

Idle == [pc |-> "idle", token |-> NoToken, synced |-> FALSE, number |-> 0, since |-> 0]

Nothing == [number |-> 0, token |-> NoToken, synced |-> TRUE]

\* A tunnel only runs on a current token that names a relay (cmdTunnel, Run).
Runnable(t) == t \in Token /\ Parses(t) /\ t.version = "kt2"

TypeOK ==
  /\ path \in Entry
  /\ disk \in SUBSET Entry
  /\ writes \in Number
  /\ settled \in Number /\ gone \in Number
  /\ home \in {"none", "made", "kept"}
  /\ work \in [Process -> Work]
  /\ \A p \in Process : work[p].pc = "run" => Runnable(work[p].token)

Init ==
  /\ path = Nothing
  /\ disk = {Nothing}
  /\ writes = 0
  /\ settled = 0 /\ gone = 0
  /\ home \in {"none", "kept"}
  /\ work = [p \in Process |-> Idle]

Does(p, w) == work' = [work EXCEPT ![p] = w]

Goes(p, pc) == Does(p, [work[p] EXCEPT !.pc = pc])

\* The path names something else from now on.
Names(token, synced) ==
  /\ writes < MaxWrites
  /\ writes' = writes + 1
  /\ path' = [number |-> writes + 1, token |-> token, synced |-> synced]
  /\ disk' = disk \cup {path'}

-----------------------------------------------------------------------------
(* login.                                                                  *)

\* MkdirAll: a directory it has made is itself a name that is not synced.
Home == IF home = "none" THEN "made" ELSE home

\* cmdLogin has read a token and parsed it; Save makes the directory and writes
\* the temporary file.
Login(p, t) ==
  /\ work[p].pc = "idle"
  /\ Parses(t)
  /\ home' = Home
  /\ Does(p, [Idle EXCEPT !.pc = "sync", !.token = t])
  /\ UNCHANGED <<path, disk, writes, settled, gone>>

\* A slip of Save: closed without Sync.
CloseTemp(p) ==
  /\ work[p].pc = "sync"
  /\ Goes(p, "rename")
  /\ UNCHANGED files

SyncTemp(p) ==
  /\ work[p].pc = "sync"
  /\ Does(p, [work[p] EXCEPT !.pc = "rename", !.synced = TRUE])
  /\ UNCHANGED files

\* A slip of Save: done with the rename.
RenameAndReturn(p) ==
  /\ work[p].pc = "rename"
  /\ Names(work[p].token, work[p].synced)
  /\ settled' = writes + 1
  /\ Does(p, Idle)
  /\ UNCHANGED <<home, gone>>

Rename(p) ==
  /\ work[p].pc = "rename"
  /\ Names(work[p].token, work[p].synced)
  /\ Does(p, [work[p] EXCEPT !.pc = "syncdir", !.number = writes + 1])
  /\ UNCHANGED <<home, settled, gone>>

\* A slip of syncConfigDir: an error counts as done.
SyncDirOrNot(p) ==
  /\ work[p].pc = "syncdir"
  /\ disk' \in {{path}, disk}
  /\ settled' = IF work[p].number > settled THEN work[p].number ELSE settled
  /\ Does(p, Idle)
  /\ UNCHANGED <<path, home, writes, gone>>

\* syncConfigDir, and login reports success.
SyncDir(p) ==
  /\ work[p].pc = "syncdir"
  /\ disk' = {path}
  /\ settled' = IF work[p].number > settled THEN work[p].number ELSE settled
  /\ Does(p, Idle)
  /\ UNCHANGED <<path, home, writes, gone>>

-----------------------------------------------------------------------------
(* logout.                                                                 *)

\* os.Remove; that there is nothing to remove is no error.
Logout(p) ==
  /\ work[p].pc = "idle"
  /\ path.token # NoToken
  /\ Names(NoToken, TRUE)
  /\ UNCHANGED <<home, settled, gone, work>>

-----------------------------------------------------------------------------
(* LoadConfig, for a tunnel.                                               *)

Load(p) ==
  /\ work[p].pc = "idle"
  /\ Does(p, [Idle EXCEPT !.pc = "lstat", !.since = settled])
  /\ UNCHANGED files

\* Lstat: not logged in, or remember which file.
Lstat(p) ==
  /\ work[p].pc = "lstat"
  /\ Does(p, IF path.token = NoToken THEN Idle
             ELSE [work[p] EXCEPT !.pc = "open", !.number = path.number])
  /\ UNCHANGED files

\* os.SameFile of what Lstat saw and what is open: the same file, or a later
\* one for which the file system used the number of the first again.
SameFile(p) == {path.number = work[p].number} \cup {path.number > work[p].number + 1}

\* Open, and the second look: refused when the file was changed meanwhile.
Open(p) ==
  /\ work[p].pc = "open"
  /\ \E same \in SameFile(p) :
       Does(p, IF path.token = NoToken \/ ~same THEN Idle
               ELSE [work[p] EXCEPT !.pc = "parse", !.token = path.token,
                                    !.number = path.number])
  /\ UNCHANGED files

\* The token decides: everything else in the file is derived from it again.
Parse(p) ==
  /\ work[p].pc = "parse"
  /\ IF Runnable(work[p].token) THEN Goes(p, "run") ELSE Does(p, Idle)
  /\ UNCHANGED files

-----------------------------------------------------------------------------
\* The process ends: by itself, killed, or with the error of any call, which
\* after the rename leaves the new file where it is.
End(p) ==
  /\ work[p].pc # "idle"
  /\ Does(p, Idle)
  /\ UNCHANGED files

\* What a file is after a loss of power.
Recovered(e) == {e} \cup (IF e.synced THEN {} ELSE {[e EXCEPT !.token = Torn]})

\* The machine starts again: with the directory and one of the names that may
\* have reached the disk, or without a directory whose own name has not.
PowerLoss ==
  /\ \/ /\ \E e \in disk : \E f \in Recovered(e) : path' = f /\ disk' = {f}
        /\ home' = IF home = "made" THEN "kept" ELSE home
        /\ gone' = gone
     \/ /\ home = "made"
        /\ path' = Nothing /\ disk' = {Nothing}
        /\ home' = "none"
        /\ gone' = writes
  /\ work' = [p \in Process |-> Idle]
  /\ UNCHANGED <<writes, settled>>

Next ==
  \/ \E p \in Process :
       \/ \E t \in Offered : Login(p, t)
       \/ SyncTemp(p) \/ Rename(p) \/ SyncDir(p)
       \/ Logout(p)
       \/ Load(p) \/ Lstat(p) \/ Open(p) \/ Parse(p)
       \/ End(p)
  \/ PowerLoss

Spec == Init /\ [][Next]_vars

-----------------------------------------------------------------------------
\* No loss of power, kill or error at any call leaves a file that is not
\* whole under the name of the configuration (Save: sync before rename).
NeverTorn == path.token # Torn

\* A login that has reported success survives: whatever the path may name after
\* a loss of power is at least as recent as it, however the logins, logouts and
\* directory syncs of other processes fall.  The one exception is a login that was
\* there when a directory that Save had made was lost: after it there is no file,
\* never an older token (Save, syncConfigDir).
LoginSurvives ==
  \A e \in disk : e.number >= settled \/ (settled <= gone /\ e.token = NoToken)

\* A tunnel that was started after a login reported success does not run on an
\* older token, although it looks at the path twice and power may have failed
\* in between (LoadConfig).
FreshToken ==
  \A p \in Process : work[p].pc \in {"parse", "run"} => work[p].number >= work[p].since

\* What a tunnel runs on is what a relay can have issued: the client accepts no
\* server part that encodeV2 would not have written, and so never runs without a
\* TLS name, whatever was logged in with (NewToken, ParseToken, cmdTunnel).
GoesToIssuer ==
  \A p \in Process : work[p].pc = "run" =>
    \E i \in Server : Issuable(i) /\ work[p].token = NewToken(i)
=============================================================================
