------------------------------ MODULE MCWebAuth ------------------------------
(* Model-checking instances of WebAuth.                                    *)
EXTENDS WebAuth, TLC

CONSTANTS alice, bob, old, new

BothHaveOld == [p \in Principal |-> old]

\* The slots are interchangeable.
Slots == Permutations(Request) \cup Permutations(Login)

\* Either one credential changes or one session expires.
OneCause ==
  \/ lapsed = 0 /\ \E p \in Principal : \A q \in Principal \ {p} : version[q] = 0
  \/ lapsed = 1 /\ \A p \in Principal : version[p] = 0

\* Requests are a matter of two sessions, the third is for logins and the limits
\* of the table; and while two requests overlap nobody logs in, and bob has not.
TwoOverlap ==
  /\ (\E r \in Request : request[r].pc # "idle") => created <= 2
  /\ (\A r \in Request : request[r].pc # "idle")
       => /\ \A l \in Login : login[l].pc = "idle"
          /\ \A s \in 1..created : OwnerOf(s) # bob

\* bob only logs in: he has a session in the table and nothing more.
BobStays ==
  /\ version[bob] = 0
  /\ \A r \in Request : request[r].session = 0 \/ OwnerOf(request[r].session) # bob
=============================================================================
