----------------------------- MODULE TargetLease -----------------------------
(***************************************************************************)
(* What ktunneld promises of a subdomain or a remote port: it is leased to *)
(* at most one session; a session of the same user may take it over;       *)
(* anyone else has to wait until it falls free; and a session that has     *)
(* been cut off for good never obtains a lease again.                      *)
(***************************************************************************)
EXTENDS Naturals

CONSTANTS Target, Id, User, None

VARIABLES
  lease,    \* per target, the session that holds it and the session's user
  barred    \* the sessions that are cut off for good

Free  == [id |-> 0, user |-> None]
Held  == [id : Id, user : User]

Init ==
  /\ lease = [x \in Target |-> Free]
  /\ barred = {}

\* A free target goes to a session of any user.
Grant(x, h) ==
  /\ lease[x] = Free
  /\ h.id \notin barred
  /\ lease' = [lease EXCEPT ![x] = h]
  /\ UNCHANGED barred

\* A held target passes to another session of the same user.
TakeOver(x, i) ==
  /\ lease[x] # Free
  /\ lease[x].id # i
  /\ i \notin barred
  /\ lease' = [lease EXCEPT ![x].id = i]
  /\ UNCHANGED barred

\* Some of the targets fall free.
Expire ==
  /\ \E X \in SUBSET Target :
       lease' = [x \in Target |-> IF x \in X THEN Free ELSE lease[x]]
  /\ UNCHANGED barred

\* Being cut off is for good.
Bar ==
  /\ barred' \in SUBSET Id
  /\ barred \subseteq barred'
  /\ UNCHANGED lease

Next ==
  \/ \E x \in Target : \/ \E h \in Held : Grant(x, h)
                       \/ \E i \in Id : TakeOver(x, i)
  \/ Expire
  \/ Bar

Spec == Init /\ [][Next]_<<lease, barred>>
=============================================================================
