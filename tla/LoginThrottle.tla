---------------------------- MODULE LoginThrottle ----------------------------
(***************************************************************************)
(* The brake on guessing passwords of the web portal                       *)
(* (internal/web/server.go): every attempt to log in is charged to a       *)
(* bucket of its address and to one of address and user name before the    *)
(* password is compared; a bucket that has its full number is locked for a *)
(* while.  Only a login that succeeds empties the second one, long after   *)
(* it was charged and with other attempts in between.                      *)
(*                                                                         *)
(* server/README.md says that five failed logins from one address lock it  *)
(* out.  In the code five is the number for an address and a name; an      *)
(* address that keeps changing the name has twenty.  The module follows    *)
(* the code and keeps the two limits apart.                                *)
(*                                                                         *)
(* Time passes in ticks.  A bucket holds what is left of its lockout and   *)
(* how long ago it was last charged, instead of two points in time.        *)
(***************************************************************************)
EXTENDS Naturals, FiniteSets, Functions

CONSTANTS
  Address, Name,
  Slot,         \* attempts whose password is being compared
  NameLimit,    \* maxLoginFails, 5: for an address and a name
  AddressLimit, \* maxIPLoginAttempts, 20: for an address, whatever the name
  Lockout,      \* loginLockout
  Retention,    \* loginFailRetention
  Entries       \* maxLoginFailEntries

ASSUME LimitAssumption ==
  /\ NameLimit \in Nat \ {0}
  /\ AddressLimit \in Nat \ {0}
  /\ Lockout \in Nat \ {0}
  /\ Retention \in Nat
  /\ Lockout <= Retention
  /\ Entries \in Nat \ {0}

Key == Address \X Name

VARIABLES
  fails,    \* the buckets of address and name that exist
  ipFails,  \* the buckets of addresses that exist
  trying,   \* the keys of the attempts in flight
  \* history: what is left of a window of time as long as a lockout, and the
  \* attempts charged in it, for a key since its last success
  window, ofKey, ofAddress

vars == <<fails, ipFails, trying, window, ofKey, ofAddress>>

Bucket(limit) == [count : 1..limit, lock : 0..Lockout, idle : 0..Retention + 1]

NoAttempt == <<>>
None(K)   == [k \in K |-> 0]

TypeOK ==
  /\ DOMAIN fails \subseteq Key
  /\ \A k \in DOMAIN fails : fails[k] \in Bucket(NameLimit)
  /\ DOMAIN ipFails \subseteq Address
  /\ \A i \in DOMAIN ipFails : ipFails[i] \in Bucket(AddressLimit)
  /\ trying \in [Slot -> Key \cup {NoAttempt}]
  /\ window \in 1..Lockout
  /\ ofKey \in [Key -> Nat]
  /\ ofAddress \in [Address -> Nat]

NoBuckets == [k \in {} |-> [count |-> 1, lock |-> 0, idle |-> 0]]

Init ==
  /\ fails = NoBuckets
  /\ ipFails = NoBuckets
  /\ trying = [s \in Slot |-> NoAttempt]
  /\ window = Lockout
  /\ ofKey = None(Key)
  /\ ofAddress = None(Address)

-----------------------------------------------------------------------------
\* A slip of pruneLoginFailures: whatever is not locked goes.
PrunedUnlocked(buckets) ==
  Restrict(buckets, {k \in DOMAIN buckets : buckets[k].lock > 0})

\* pruneLoginFailures: a bucket goes when it is not locked and long unused.
Pruned(buckets) ==
  Restrict(buckets, {k \in DOMAIN buckets : buckets[k].lock > 0 \/ buckets[k].idle <= Retention})

\* A slip of allowLoginAttempt: the table takes whoever comes.
OpenToAll(buckets, k, limit) ==
  k \in DOMAIN buckets => ~(buckets[k].count >= limit /\ buckets[k].lock > 0)

\* allowLoginAttempt: a bucket refuses while it is locked, and the table has to
\* have room for a new one.
Open(buckets, k, limit) ==
  IF k \in DOMAIN buckets THEN ~(buckets[k].count >= limit /\ buckets[k].lock > 0)
                          ELSE Cardinality(DOMAIN buckets) < Entries

\* A slip of allowLoginAttempt: every attempt sets the end of the lockout anew.
ChargedAnew(buckets, k, limit) ==
  LET n == IF k \in DOMAIN buckets /\ buckets[k].count < limit THEN buckets[k].count + 1 ELSE 1
      b == [count |-> n, lock |-> Lockout, idle |-> 0]
  IN  [j \in DOMAIN buckets \cup {k} |-> IF j = k THEN b ELSE buckets[j]]

\* allowLoginAttempt: one more, and the lockout begins with the last; after a
\* lockout the count starts anew.
Charged(buckets, k, limit) ==
  LET n == IF k \in DOMAIN buckets /\ buckets[k].count < limit THEN buckets[k].count + 1 ELSE 1
      b == [count |-> n, lock |-> IF n >= limit THEN Lockout ELSE 0, idle |-> 0]
  IN  [j \in DOMAIN buckets \cup {k} |-> IF j = k THEN b ELSE buckets[j]]

\* beginLoginAttempt, under the lock: the address pays first, also for a name
\* that is then refused.
Begin(s, address, name) ==
  LET key == <<address, name>>
      ips == Pruned(ipFails)
      ks  == Pruned(fails)
      through == Open(ips, address, AddressLimit) /\ Open(ks, key, NameLimit)
  IN  /\ trying[s] = NoAttempt
      /\ ipFails' = IF Open(ips, address, AddressLimit)
                    THEN Charged(ips, address, AddressLimit) ELSE ips
      /\ ofAddress' = IF Open(ips, address, AddressLimit)
                      THEN [ofAddress EXCEPT ![address] = @ + 1] ELSE ofAddress
      /\ IF through
         THEN /\ fails' = Charged(ks, key, NameLimit)
              /\ ofKey' = [ofKey EXCEPT ![key] = @ + 1]
              /\ trying' = [trying EXCEPT ![s] = key]
         ELSE fails' = ks /\ UNCHANGED <<ofKey, trying>>
      /\ UNCHANGED window

\* loginSubmit: a wrong password, a disabled user, or a credential that changed.
Fail(s) ==
  /\ trying[s] # NoAttempt
  /\ trying' = [trying EXCEPT ![s] = NoAttempt]
  /\ UNCHANGED <<fails, ipFails, window, ofKey, ofAddress>>

\* createSession empties the bucket of the key, whatever was charged to it since.
Succeed(s) ==
  LET key == trying[s]
  IN  /\ key # NoAttempt
      /\ fails' = Restrict(fails, DOMAIN fails \ {key})
      /\ ofKey' = [ofKey EXCEPT ![key] = 0]
      /\ trying' = [trying EXCEPT ![s] = NoAttempt]
      /\ UNCHANGED <<ipFails, window, ofAddress>>

Older(b) == [b EXCEPT !.lock = IF @ > 0 THEN @ - 1 ELSE 0,
                      !.idle = IF @ <= Retention THEN @ + 1 ELSE @]

\* The window that is counted in goes on, or another one begins.
Watched ==
  \/ window > 1 /\ window' = window - 1 /\ UNCHANGED <<ofKey, ofAddress>>
  \/ window' = Lockout /\ ofKey' = None(Key) /\ ofAddress' = None(Address)

Tick ==
  /\ fails' = [k \in DOMAIN fails |-> Older(fails[k])]
  /\ ipFails' = [i \in DOMAIN ipFails |-> Older(ipFails[i])]
  /\ Watched
  /\ UNCHANGED trying

Next ==
  \/ \E s \in Slot :
       \/ \E i \in Address, n \in Name : Begin(s, i, n)
       \/ Fail(s)
       \/ Succeed(s)
  \/ Tick

Spec == Init /\ [][Next]_vars

-----------------------------------------------------------------------------
\* In no window as long as a lockout are more attempts compared than a bucket
\* has room for: for an address ever, for a key since its last success, at
\* whichever tick the window begins and however the buckets were pruned meanwhile.
\* The bound of an address is maxIPLoginAttempts, so this is weaker than what
\* server/README.md says of one (lines 309-310): with NameLimit for AddressLimit
\* the second part is false, as soon as the attempts are for several names.
AttemptsBounded ==
  /\ \A k \in Key : ofKey[k] <= NameLimit
  /\ \A i \in Address : ofAddress[i] <= AddressLimit

\* The tables stay within maxLoginFailEntries.
TablesBounded ==
  /\ Cardinality(DOMAIN fails) <= Entries
  /\ Cardinality(DOMAIN ipFails) <= Entries

\* A lockout is neither cut short nor drawn out by further attempts, refused
\* ones or those of others: only time and a success that was already in flight
\* end it.
LockoutsKept ==
  [][/\ \A k \in DOMAIN fails : fails[k].lock > 0
          => \/ /\ k \in DOMAIN fails'
                /\ \/ fails'[k].lock = fails[k].lock
                   \/ fails'[k].lock = fails[k].lock - 1
             \/ \E s \in Slot : trying[s] = k /\ trying'[s] = NoAttempt
     /\ \A i \in DOMAIN ipFails : ipFails[i].lock > 0
          => /\ i \in DOMAIN ipFails'
             /\ \/ ipFails'[i].lock = ipFails[i].lock
                \/ ipFails'[i].lock = ipFails[i].lock - 1]_vars
=============================================================================
