-------------------------- MODULE ControlPlaneLease --------------------------
(***************************************************************************)
(* ControlPlane implements TargetLease, for every value of its constants.  *)
(***************************************************************************)
EXTENDS ControlPlaneProofs

\* The invariant the refinement rests on.
LeaseInv == TypeOK /\ OneHolderPerTarget /\ SessionsExist

LEMMA LeaseInvAlways == Spec => []LeaseInv
  BY TypeCorrect, OneHolder, SessionsExistAlways, PTL DEF LeaseInv

\* The lease of a held target is its one row.
LEMMA LeaseOfHeld ==
  ASSUME LeaseInv, NEW x \in Target, NEW p \in Holders(x)
  PROVE  LeaseOf(x) = [id |-> p.session, user |-> UserOf(p.session)]
  <1>1. Holders(x) = {p}
    BY DEF LeaseInv, OneHolderPerTarget, Holders
  <1>2. (CHOOSE q \in Holders(x) : TRUE) = p
    BY <1>1
  <1>3. QED
    BY <1>1, <1>2 DEF LeaseOf

\* A row's user is a user, and so not NoUser.
LEMMA RowUser ==
  ASSUME LeaseInv, NEW s \in SessionId
  PROVE  UserOf(s) \in User /\ UserOf(s) # NoUser
  <1>1. session[s].client \in Client
    BY DEF LeaseInv, TypeOK, RowsOK, SessionRow
  <1>2. QED
    BY <1>1, OwnershipAssumption, NamesAssumption DEF UserOf, TokenOf

\* A row's user and a row's token never change.
LEMMA OwnersStay ==
  ASSUME LeaseInv, [Next]_vars, NEW s \in SessionId, Opened(s)
  PROVE  /\ Opened(s)'
         /\ TokenOf(s)' = TokenOf(s)
         /\ UserOf(s)' = UserOf(s)
  BY SessionsStay DEF LeaseInv, UserOf, TokenOf

\* Marks of a session, and the revocation of a token, are never undone.
LEMMA MarksStay ==
  ASSUME LeaseInv, [Next]_vars, NEW s \in SessionId, Opened(s)
  PROVE  /\ session[s].killed => session'[s].killed
         /\ session[s].ended => session'[s].ended
         /\ \A t \in Token : revoked[t] => revoked'[t]
  <1>0. /\ session \in [SessionId -> SessionRow]
        /\ revoked \in [Token -> BOOLEAN]
        /\ issued \in Nat
        /\ s \in Nat
    BY BoundsAssumption DEF LeaseInv, TypeOK, RowsOK, AccountsOK, SessionId
  <1> DEFINE Kept == /\ session[s].killed => session'[s].killed
                     /\ session[s].ended => session'[s].ended
             Lasting == \A t \in Token : revoked[t] => revoked'[t]
  <1>1. UNCHANGED session => Kept
    OBVIOUS
  <1>2. UNCHANGED accounts => Lasting
    BY DEF accounts
  <1>3. ASSUME NEW c \in Client, Login(c) \/ LoginStep(c)
        PROVE  Kept /\ Lasting
    <2>1. CASE CreateSession(c)
      BY <1>0, <2>1 DEF CreateSession, Opened, accounts
    <2>2. CASE ~CreateSession(c)
      BY <1>3, <2>2 DEF LoginStep, Login, LoginKick, LoginUser, LoginReply, database
    <2>3. QED
      BY <2>1, <2>2
  <1>4. ASSUME NEW r \in SessionId, NEW k \in Op, CheckSession(r, k) \/ HookStep(r, k)
        PROVE  Kept /\ Lasting
    <2>1. CASE Touch(r, k)
      <3>1. /\ [session[r] EXCEPT !.idle = 0].killed = session[r].killed
            /\ [session[r] EXCEPT !.idle = 0].ended = session[r].ended
        BY <1>0 DEF SessionRow
      <3>2. QED
        BY <1>0, <2>1, <3>1 DEF Touch, accounts
    <2>2. CASE ~Touch(r, k)
      BY <1>4, <2>2 DEF HookStep, CheckSession, CheckToken, CheckUser, database
    <2>3. QED
      BY <2>1, <2>2
  <1>5. ASSUME NEW r \in SessionId, AdmitProxy(r) \/ DenyProxy(r) \/ Disconnect(r)
        PROVE  Kept /\ Lasting
    BY <1>5 DEF AdmitProxy, DenyProxy, Disconnect, database, accounts
  <1>6. ASSUME NEW p \in closing, EndProxy(p)
        PROVE  Kept /\ Lasting
    BY <1>6 DEF EndProxy, accounts
  <1>7. ASSUME Admin
        PROVE  Kept /\ Lasting
    <2>1. \A r \in SessionId : /\ [session[r] EXCEPT !.killed = TRUE].killed
                               /\ [session[r] EXCEPT !.killed = TRUE].ended = session[r].ended
      BY <1>0 DEF SessionRow
    <2>2. Kept
      BY <1>0, <1>7, <2>1
      DEF Admin, SetUserDisabled, SetUserMaxTunnels, Reserve, Release, RevokeToken,
          RevokeSessions, KillSession, KickToken
    <2>3. Lasting
      BY <1>0, <1>7
      DEF Admin, SetUserDisabled, SetUserMaxTunnels, Reserve, Release, RevokeToken,
          RevokeSessions, KillSession, KickToken, accounts
    <2>4. QED
      BY <2>2, <2>3
  <1>8. ASSUME SweepProxies \/ Restart \/ UNCHANGED vars
        PROVE  Kept /\ Lasting
    BY <1>8 DEF SweepProxies, Restart, vars, database, accounts
  <1>9. ASSUME SweepSessions \/ Tick
        PROVE  Kept /\ Lasting
    <2>1. /\ [session[s] EXCEPT !.ended = TRUE].ended
          /\ [session[s] EXCEPT !.ended = TRUE].killed = session[s].killed
          /\ [session[s] EXCEPT !.idle = Aged(@)].ended = session[s].ended
          /\ [session[s] EXCEPT !.idle = Aged(@)].killed = session[s].killed
      BY <1>0 DEF SessionRow
    <2>2. QED
      BY <1>0, <1>9, <2>1 DEF SweepSessions, Tick, accounts
  <1>10. QED
    BY <1>3, <1>4, <1>5, <1>6, <1>7, <1>8, <1>9 DEF Next

\* A cut-off session stays cut off.
LEMMA BarredGrows ==
  ASSUME LeaseInv, [Next]_vars
  PROVE  Barred \subseteq Barred' /\ Barred' \subseteq SessionId
  <1>1. ASSUME NEW s \in Barred
        PROVE  s \in Barred'
    <2>1. s \in SessionId /\ Opened(s)
      BY DEF Barred
    <2>2. session[s].client \in Client
      BY <2>1 DEF LeaseInv, TypeOK, RowsOK, SessionRow
    <2>3. TokenOf(s) \in Token
      BY <2>2, OwnershipAssumption DEF TokenOf
    <2>4. Opened(s)' /\ TokenOf(s)' = TokenOf(s)
      BY <2>1, OwnersStay
    <2>5. QED
      BY <2>1, <2>3, <2>4, MarksStay DEF Barred
  <1>2. QED
    BY <1>1 DEF Barred

\* The lease as a function, which is what the instance sees.
LeaseMap == [x \in Target |-> LeaseOf(x)]

\* While the rows stay, so do the leases.
LEMMA LeaseStays ==
  ASSUME LeaseInv, [Next]_vars, NEW x \in Target, Holders(x)' = Holders(x)
  PROVE  LeaseOf(x)' = LeaseOf(x)
  <1>1. \A p \in Holders(x) : p.session \in SessionId /\ Opened(p.session)
    BY DEF LeaseInv, TypeOK, RowsOK, ProxyRow, SessionsExist, Holders
  <1>2. \A p \in Holders(x) : UserOf(p.session)' = UserOf(p.session)
    BY <1>1, OwnersStay
  <1>3. CASE Holders(x) = {}
    BY <1>3 DEF LeaseOf
  <1>4. CASE Holders(x) # {}
    <2> DEFINE p == CHOOSE p \in Holders(x) : TRUE
    <2>1. p \in Holders(x)
      BY <1>4
    <2>2. UserOf(p.session)' = UserOf(p.session)
      BY <1>2, <2>1
    <2>3. LeaseOf(x) = [id |-> p.session, user |-> UserOf(p.session)]
      BY <1>4 DEF LeaseOf
    <2>4. LeaseOf(x)' = [id |-> p.session, user |-> UserOf(p.session)']
      BY <1>4 DEF LeaseOf
    <2>5. QED
      BY <2>2, <2>3, <2>4
  <1>5. QED
    BY <1>3, <1>4

\* Rows that end, however many, let their leases expire.
LEMMA RowsExpire ==
  ASSUME LeaseInv, [Next]_vars, proxies' \subseteq proxies, UNCHANGED <<accounts, session, issued>>
  PROVE  Lease!Expire
  <1> DEFINE X == {x \in Target : Holders(x)' = {}}
  <1>1. ASSUME NEW x \in Target
        PROVE  LeaseOf(x)' = IF x \in X THEN Lease!Free ELSE LeaseOf(x)
    <2>1. CASE x \in X
      BY <2>1 DEF LeaseOf, Lease!Free
    <2>2. CASE x \notin X
      <3>1. Holders(x)' # {} /\ Holders(x)' \subseteq Holders(x)
        BY <2>2 DEF Holders
      <3>2. \A p, q \in Holders(x) : p = q
        BY DEF LeaseInv, OneHolderPerTarget, Holders
      <3>3. Holders(x)' = Holders(x)
        BY <3>1, <3>2
      <3>4. QED
        BY <2>2, <3>3, LeaseStays
    <2>3. QED
      BY <2>1, <2>2
  <1>2. LeaseMap' = [x \in Target |-> IF x \in X THEN Lease!Free ELSE LeaseMap[x]]
    BY <1>1 DEF LeaseMap
  <1>3. Barred' = Barred
    BY DEF Barred, Opened, TokenOf, accounts
  <1>4. QED
    BY <1>2, <1>3 DEF Lease!Expire, LeaseMap

\* An admission grants a free lease, or takes over one of the same user.
LEMMA AdmissionLeases ==
  ASSUME LeaseInv, [Next]_vars, NEW s \in SessionId, NEW x \in Target,
         Admissible(s, x), proxies' = Admitted(s, x), UNCHANGED <<accounts, session, issued>>
  PROVE  Lease!Next
  <1> DEFINE new == [session |-> s, target |-> x]
  <1>1. Barred' = Barred /\ s \notin Barred
    BY DEF Barred, Opened, TokenOf, accounts, Admissible, MayOpen
  <1>2. Holders(x)' = {new}
    BY DEF Admitted, Holders
  <1>3. LeaseOf(x)' = [id |-> s, user |-> UserOf(s)]
    <2>1. UserOf(s)' = UserOf(s)
      BY DEF UserOf, TokenOf
    <2>2. (CHOOSE p \in Holders(x)' : TRUE) = new
      BY <1>2
    <2>3. LeaseOf(x)' = [id |-> new.session, user |-> UserOf(s)']
      BY <1>2, <2>2 DEF LeaseOf, UserOf, TokenOf
    <2>4. QED
      BY <2>1, <2>3
  <1>4. ASSUME NEW y \in Target, y # x
        PROVE  LeaseOf(y)' = LeaseOf(y)
    <2>1. Holders(y)' = Holders(y)
      BY <1>4 DEF Admitted, Holders
    <2>2. QED
      BY <2>1, LeaseStays
  <1>5. UserOf(s) \in User /\ UserOf(s) # NoUser
    BY RowUser
  <1>6. CASE Holders(x) = {}
    <2> DEFINE h == [id |-> s, user |-> UserOf(s)]
    <2>1. h \in Lease!Held
      BY <1>5 DEF Lease!Held
    <2>2. LeaseMap[x] = Lease!Free
      BY <1>6 DEF LeaseMap, LeaseOf, Lease!Free
    <2>3. LeaseMap' = [LeaseMap EXCEPT ![x] = h]
      BY <1>3, <1>4 DEF LeaseMap
    <2>4. Lease!Grant(x, h)
      BY <1>1, <2>2, <2>3 DEF Lease!Grant, LeaseMap
    <2>5. QED
      BY <2>1, <2>4 DEF Lease!Next
  <1>7. CASE Holders(x) # {}
    <2>1. PICK p \in Holders(x) : TRUE
      BY <1>7
    <2>2. LeaseOf(x) = [id |-> p.session, user |-> UserOf(p.session)]
      BY <2>1, LeaseOfHeld
    <2>3. p.session # s /\ UserOf(p.session) = UserOf(s)
      BY <2>1 DEF Admissible, Vacant
    <2>4. LeaseMap[x] # Lease!Free /\ LeaseMap[x].id # s
      BY <1>5, <2>2, <2>3 DEF LeaseMap, Lease!Free
    <2>5. LeaseMap' = [LeaseMap EXCEPT ![x].id = s]
      <3>1. [LeaseMap[x] EXCEPT !.id = s] = [id |-> s, user |-> UserOf(s)]
        BY <2>2, <2>3 DEF LeaseMap
      <3>2. QED
        BY <1>3, <1>4, <3>1 DEF LeaseMap
    <2>6. Lease!TakeOver(x, s)
      BY <1>1, <2>4, <2>5 DEF Lease!TakeOver, LeaseMap
    <2>7. QED
      BY <2>6 DEF Lease!Next
  <1>8. QED
    BY <1>6, <1>7

\* A lease passes from a user to another user only by falling free, to a session
\* that may still be admitted, and a killed or revoked session never regains one.
THEOREM LeaseRefinement == Spec => ImplementsLease
<1>1. Init => Lease!Init
  <2> SUFFICES ASSUME Init PROVE Lease!Init
    OBVIOUS
  <2>1. \A x \in Target : LeaseOf(x) = Lease!Free
    BY DEF Init, LeaseOf, Holders, Lease!Free
  <2>2. Barred = {}
    BY DEF Init, Barred, Opened, SessionId
  <2>3. QED
    BY <2>1, <2>2 DEF Lease!Init
<1>2. LeaseInv /\ [Next]_vars => [Lease!Next]_<<LeaseMap, Barred>>
  <2> SUFFICES ASSUME LeaseInv, [Next]_vars PROVE Lease!Next
    OBVIOUS
  <2>1. CASE proxies' = proxies
    <3>1. \A x \in Target : LeaseOf(x)' = LeaseOf(x)
      BY <2>1, LeaseStays DEF Holders
    <3>2. LeaseMap' = LeaseMap
      BY <3>1 DEF LeaseMap
    <3>3. Lease!Bar
      BY <3>2, BarredGrows DEF Lease!Bar, LeaseMap
    <3>4. QED
      BY <3>3 DEF Lease!Next
  <2>2. CASE proxies' \subseteq proxies /\ UNCHANGED <<accounts, session, issued>>
    BY <2>2, RowsExpire DEF Lease!Next
  <2>3. CASE \E s \in SessionId, x \in Target :
                Admissible(s, x) /\ proxies' = Admitted(s, x) /\ UNCHANGED <<accounts, session, issued>>
    BY <2>3, AdmissionLeases
  <2>4. QED
    BY <2>1, <2>2, <2>3, RowSteps DEF LeaseInv, Ended
<1>3. QED
  BY <1>1, <1>2, LeaseInvAlways, PTL DEF Spec, ImplementsLease, Lease!Spec, LeaseMap
=============================================================================
