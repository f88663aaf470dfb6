------------------------- MODULE LoginThrottleProofs -------------------------
(***************************************************************************)
(* Theorems about LoginThrottle for every value of its constants.  What a  *)
(* table of buckets keeps is said once, for both tables.                   *)
(***************************************************************************)
EXTENDS LoginThrottle, FiniteSetTheorems, TLAPS

\* A bucket is locked when it has its full number, from the charge that filled
\* it and for as long as a lockout: the strengthening for LockoutsKept and for
\* AttemptsBounded.
Lasts(b, limit) ==
  /\ b.count # limit => b.lock = 0
  /\ b.count = limit => \/ b.lock > 0 /\ b.lock + b.idle = Lockout
                        \/ b.lock = 0 /\ b.idle >= Lockout

\* A table of buckets for keys in K.
Table(buckets, K, limit) ==
  /\ DOMAIN buckets \subseteq K
  /\ buckets = [k \in DOMAIN buckets |-> buckets[k]]
  /\ IsFiniteSet(DOMAIN buckets) /\ Cardinality(DOMAIN buckets) <= Entries
  /\ \A k \in DOMAIN buckets : buckets[k] \in Bucket(limit) /\ Lasts(buckets[k], limit)

\* Locks of buckets only run out in new.
Kept(buckets, new) ==
  \A k \in DOMAIN buckets : buckets[k].lock > 0
    => k \in DOMAIN new /\ (new[k].lock = buckets[k].lock \/ new[k].lock = buckets[k].lock - 1)

\* Whoever was charged for in the last e ticks has a bucket that was charged then
\* and that counts at least as much.
Counted(buckets, seen, K, e) ==
  \A k \in K : seen[k] > 0
    => k \in DOMAIN buckets /\ buckets[k].idle <= e /\ seen[k] <= buckets[k].count

\* Pruning leaves a table, and all that is locked.
LEMMA PrunedTable ==
  ASSUME NEW buckets, NEW K, NEW limit \in Nat \ {0}, Table(buckets, K, limit)
  PROVE  Table(Pruned(buckets), K, limit) /\ Kept(buckets, Pruned(buckets))
<1> DEFINE D == {k \in DOMAIN buckets : buckets[k].lock > 0 \/ buckets[k].idle <= Retention}
<1>1. Pruned(buckets) = [k \in D |-> buckets[k]]
  BY DEF Pruned, Restrict
<1>2. DOMAIN Pruned(buckets) = D
  BY <1>1
<1>3. \A k \in D : Pruned(buckets)[k] = buckets[k] /\ k \in DOMAIN buckets
  BY <1>1
<1>4. /\ IsFiniteSet(D) /\ Cardinality(D) <= Cardinality(DOMAIN buckets)
      /\ Cardinality(D) \in Nat /\ Cardinality(DOMAIN buckets) \in Nat
  BY FS_Subset, FS_CardinalityType DEF Table
<1>5. Cardinality(D) <= Entries
  BY <1>4, LimitAssumption DEF Table
<1>6. Table(Pruned(buckets), K, limit)
  BY <1>1, <1>2, <1>3, <1>4, <1>5 DEF Table
<1>7. Kept(buckets, Pruned(buckets))
  BY <1>2, <1>3 DEF Kept
<1>8. QED
  BY <1>6, <1>7

\* Charging an open bucket leaves a table, and all that is locked: an open
\* bucket is none of these.
LEMMA ChargedTable ==
  ASSUME NEW buckets, NEW K, NEW limit \in Nat \ {0}, Table(buckets, K, limit),
         NEW k \in K, Open(buckets, k, limit)
  PROVE  Table(Charged(buckets, k, limit), K, limit) /\ Kept(buckets, Charged(buckets, k, limit))
<1> DEFINE n == IF k \in DOMAIN buckets /\ buckets[k].count < limit THEN buckets[k].count + 1 ELSE 1
           b == [count |-> n, lock |-> IF n >= limit THEN Lockout ELSE 0, idle |-> 0]
           new == Charged(buckets, k, limit)
<1>1. n \in 1..limit
  BY DEF Table, Bucket
<1>2. b \in Bucket(limit) /\ Lasts(b, limit)
  BY <1>1, LimitAssumption DEF Bucket, Lasts
<1>3. new = [j \in DOMAIN buckets \cup {k} |-> IF j = k THEN b ELSE buckets[j]]
  BY DEF Charged
<1>4. DOMAIN new = DOMAIN buckets \cup {k}
  BY <1>3
<1>5. \A j \in DOMAIN new : IF j = k THEN new[j] = b ELSE new[j] = buckets[j] /\ j \in DOMAIN buckets
  BY <1>3
<1>6. IsFiniteSet(DOMAIN new) /\ Cardinality(DOMAIN new) <= Entries
  <2>1. IsFiniteSet(DOMAIN buckets) /\ Cardinality(DOMAIN buckets) \in Nat
    BY FS_CardinalityType DEF Table
  <2>2. CASE k \in DOMAIN buckets
    <3>1. DOMAIN new = DOMAIN buckets
      BY <1>4, <2>2
    <3>2. QED
      BY <2>1, <3>1 DEF Table
  <2>3. CASE k \notin DOMAIN buckets
    <3>1. Cardinality(DOMAIN buckets) < Entries
      BY <2>3 DEF Open
    <3>2. IsFiniteSet(DOMAIN new) /\ Cardinality(DOMAIN new) = Cardinality(DOMAIN buckets) + 1
      BY <1>4, <2>1, <2>3, FS_AddElement
    <3>3. QED
      BY <2>1, <3>1, <3>2, LimitAssumption
  <2>4. QED
    BY <2>2, <2>3
<1>7. Table(new, K, limit)
  BY <1>2, <1>3, <1>4, <1>5, <1>6 DEF Table
<1>8. ASSUME NEW j \in DOMAIN buckets, buckets[j].lock > 0
      PROVE  j \in DOMAIN new /\ new[j].lock = buckets[j].lock
  <2>1. j # k
    BY <1>8 DEF Table, Lasts, Bucket, Open
  <2>2. QED
    BY <1>4, <1>5, <2>1
<1>9. Kept(buckets, new)
  BY <1>8 DEF Kept
<1>10. QED
  BY <1>7, <1>9

\* Time leaves a table, and no lock ends before its time.
LEMMA OlderTable ==
  ASSUME NEW buckets, NEW K, NEW limit \in Nat \ {0}, Table(buckets, K, limit)
  PROVE  LET new == [k \in DOMAIN buckets |-> Older(buckets[k])]
         IN  Table(new, K, limit) /\ Kept(buckets, new)
<1> DEFINE new == [k \in DOMAIN buckets |-> Older(buckets[k])]
<1>1. DOMAIN new = DOMAIN buckets
  OBVIOUS
<1>2. ASSUME NEW k \in DOMAIN buckets
      PROVE  /\ Older(buckets[k]) \in Bucket(limit)
             /\ Lasts(Older(buckets[k]), limit)
             /\ buckets[k].lock > 0 => Older(buckets[k]).lock = buckets[k].lock - 1
  <2>1. buckets[k] \in Bucket(limit) /\ Lasts(buckets[k], limit)
    BY DEF Table
  <2>2. /\ Older(buckets[k]).count = buckets[k].count
        /\ Older(buckets[k]).lock = IF buckets[k].lock > 0 THEN buckets[k].lock - 1 ELSE 0
        /\ Older(buckets[k]).idle
             = IF buckets[k].idle <= Retention THEN buckets[k].idle + 1 ELSE buckets[k].idle
    BY <2>1 DEF Older, Bucket
  <2>3. Older(buckets[k]) \in Bucket(limit)
    <3>1. /\ buckets[k].lock \in 0..Lockout /\ buckets[k].idle \in 0..Retention + 1
          /\ Lockout \in Nat /\ Retention \in Nat
      BY <2>1, LimitAssumption DEF Bucket
    <3>2. (IF buckets[k].lock > 0 THEN buckets[k].lock - 1 ELSE 0) \in 0..Lockout
      BY <3>1
    <3>3. (IF buckets[k].idle <= Retention THEN buckets[k].idle + 1 ELSE buckets[k].idle)
            \in 0..Retention + 1
      BY <3>1
    <3>4. \A l \in 0..Lockout, i \in 0..Retention + 1 :
            [buckets[k] EXCEPT !.lock = l, !.idle = i] \in Bucket(limit)
      BY <2>1 DEF Bucket
    <3>5. QED
      BY <3>2, <3>3, <3>4 DEF Older
  <2>4. buckets[k].lock \in Nat /\ buckets[k].idle \in Nat
    BY <2>1, LimitAssumption DEF Bucket
  <2>5. Lasts(Older(buckets[k]), limit)
    BY <2>1, <2>2, <2>4, LimitAssumption DEF Lasts
  <2>6. QED
    BY <2>2, <2>3, <2>4, <2>5
<1>3. Table(new, K, limit)
  BY <1>1, <1>2 DEF Table
<1>4. Kept(buckets, new)
  BY <1>1, <1>2 DEF Kept
<1>5. QED
  BY <1>3, <1>4

-----------------------------------------------------------------------------
(* What happens to a table and to the window at the same time.  The window is *)
(* shorter than a lockout as long as anything is counted in it.               *)

\* What is pruned was last charged before the window.
LEMMA PrunedCounted ==
  ASSUME NEW buckets, NEW K, NEW limit \in Nat \ {0}, NEW seen, NEW e \in 0..Lockout - 1,
         Table(buckets, K, limit), Counted(buckets, seen, K, e)
  PROVE  Counted(Pruned(buckets), seen, K, e)
<1> SUFFICES ASSUME NEW k \in K, seen[k] > 0
             PROVE  /\ k \in DOMAIN Pruned(buckets) /\ Pruned(buckets)[k].idle <= e
                    /\ seen[k] <= Pruned(buckets)[k].count
  BY DEF Counted
<1>1. k \in DOMAIN buckets /\ buckets[k].idle <= e /\ seen[k] <= buckets[k].count
  BY DEF Counted
<1>2. buckets[k].idle \in Nat
  BY <1>1, LimitAssumption DEF Table, Bucket
<1>3. buckets[k].idle <= Retention
  BY <1>1, <1>2, LimitAssumption
<1>4. QED
  BY <1>1, <1>3 DEF Pruned, Restrict

\* An open bucket either has room for one more, or was filled before the window,
\* and then nothing is counted against the 1 it begins anew with.
LEMMA ChargedCounted ==
  ASSUME NEW buckets, NEW K, NEW limit \in Nat \ {0}, NEW seen \in [K -> Nat],
         NEW e \in 0..Lockout - 1, NEW k \in K,
         Table(buckets, K, limit), Open(buckets, k, limit), Counted(buckets, seen, K, e)
  PROVE  Counted(Charged(buckets, k, limit), [seen EXCEPT ![k] = @ + 1], K, e)
<1> DEFINE new == Charged(buckets, k, limit)
           more == [seen EXCEPT ![k] = @ + 1]
<1>1. /\ DOMAIN new = DOMAIN buckets \cup {k}
      /\ \A j \in DOMAIN buckets : j # k => new[j] = buckets[j]
  BY DEF Charged
<1>2. /\ new[k].idle = 0
      /\ new[k].count = IF k \in DOMAIN buckets /\ buckets[k].count < limit
                        THEN buckets[k].count + 1 ELSE 1
  BY DEF Charged
<1>3. ASSUME NEW j \in K, j # k, more[j] > 0
      PROVE  j \in DOMAIN new /\ new[j].idle <= e /\ more[j] <= new[j].count
  <2>1. more[j] = seen[j]
    BY <1>3
  <2>2. j \in DOMAIN buckets /\ buckets[j].idle <= e /\ seen[j] <= buckets[j].count
    BY <1>3, <2>1 DEF Counted
  <2>3. QED
    BY <1>1, <1>3, <2>1, <2>2
<1>4. more[k] = seen[k] + 1 /\ seen[k] \in Nat
  OBVIOUS
<1>5. more[k] <= new[k].count
  <2>1. CASE seen[k] = 0
    <3>1. k \in DOMAIN buckets => buckets[k].count \in Nat
      BY DEF Table, Bucket
    <3>2. QED
      BY <1>2, <1>4, <2>1, <3>1
  <2>2. CASE seen[k] > 0
    <3>1. k \in DOMAIN buckets /\ buckets[k].idle <= e /\ seen[k] <= buckets[k].count
      BY <2>2 DEF Counted
    <3>2. /\ buckets[k].count \in 1..limit /\ buckets[k].lock \in Nat /\ buckets[k].idle \in Nat
          /\ Lasts(buckets[k], limit)
      BY <3>1, LimitAssumption DEF Table, Bucket
    <3>3. buckets[k].count < limit
      BY <3>1, <3>2, LimitAssumption DEF Lasts, Open
    <3>4. QED
      BY <1>2, <1>4, <3>1, <3>2, <3>3
  <2>3. QED
    BY <1>4, <2>1, <2>2
<1>6. QED
  BY <1>1, <1>2, <1>3, <1>5 DEF Counted

\* A tick makes the buckets and the window older alike.
LEMMA OlderCounted ==
  ASSUME NEW buckets, NEW K, NEW limit \in Nat \ {0}, NEW seen, NEW e \in 0..Lockout - 1,
         Table(buckets, K, limit), Counted(buckets, seen, K, e)
  PROVE  Counted([k \in DOMAIN buckets |-> Older(buckets[k])], seen, K, e + 1)
<1> DEFINE new == [k \in DOMAIN buckets |-> Older(buckets[k])]
<1> SUFFICES ASSUME NEW k \in K, seen[k] > 0
             PROVE  k \in DOMAIN new /\ new[k].idle <= e + 1 /\ seen[k] <= new[k].count
  BY DEF Counted
<1>1. k \in DOMAIN buckets /\ buckets[k].idle <= e /\ seen[k] <= buckets[k].count
  BY DEF Counted
<1>2. buckets[k] \in Bucket(limit) /\ buckets[k].idle \in Nat
  BY <1>1, LimitAssumption DEF Table, Bucket
<1>3. /\ Older(buckets[k]).count = buckets[k].count
      /\ Older(buckets[k]).idle \in {buckets[k].idle, buckets[k].idle + 1}
  BY <1>2 DEF Older, Bucket
<1>4. new[k] = Older(buckets[k]) /\ k \in DOMAIN new
  BY <1>1
<1>5. QED
  BY <1>1, <1>2, <1>3, <1>4

-----------------------------------------------------------------------------
Tables == Table(fails, Key, NameLimit) /\ Table(ipFails, Address, AddressLimit)

\* What every step does to the two tables.
LEMMA TablesStep ==
  ASSUME Tables, trying \in [Slot -> Key \cup {NoAttempt}], [Next]_vars
  PROVE  /\ Tables'
         /\ \A k \in DOMAIN fails : fails[k].lock > 0
              => \/ k \in DOMAIN fails'
                    /\ (fails'[k].lock = fails[k].lock \/ fails'[k].lock = fails[k].lock - 1)
                 \/ \E s \in Slot : trying[s] = k /\ trying'[s] = NoAttempt
         /\ Kept(ipFails, ipFails')
<1> DEFINE Goal == /\ Table(fails', Key, NameLimit) /\ Table(ipFails', Address, AddressLimit)
                   /\ \A k \in DOMAIN fails : fails[k].lock > 0
                        => \/ k \in DOMAIN fails'
                              /\ (fails'[k].lock = fails[k].lock \/ fails'[k].lock = fails[k].lock - 1)
                           \/ \E s \in Slot : trying[s] = k /\ trying'[s] = NoAttempt
                   /\ Kept(ipFails, ipFails')
<1>1. SUFFICES Goal
  BY DEF Tables, Table
<1>2. NameLimit \in Nat \ {0} /\ AddressLimit \in Nat \ {0}
  BY LimitAssumption
<1>3. CASE UNCHANGED <<fails, ipFails>>
  BY <1>3 DEF Tables, Kept
<1>4. ASSUME NEW s \in Slot, NEW i \in Address, NEW m \in Name, Begin(s, i, m)
      PROVE  Goal
  <2> DEFINE ips == Pruned(ipFails)
             ks  == Pruned(fails)
             key == <<i, m>>
  <2>1. /\ Table(ips, Address, AddressLimit) /\ Kept(ipFails, ips)
        /\ Table(ks, Key, NameLimit) /\ Kept(fails, ks)
    BY <1>2, PrunedTable DEF Tables
  <2>2. key \in Key
    BY DEF Key
  <2>3. \A k \in DOMAIN ips : ips[k] = ipFails[k] /\ k \in DOMAIN ipFails
    BY DEF Pruned, Restrict
  <2>4. \A k \in DOMAIN ks : ks[k] = fails[k] /\ k \in DOMAIN fails
    BY DEF Pruned, Restrict
  <2>5. Table(ipFails', Address, AddressLimit) /\ Kept(ipFails, ipFails')
    <3>1. CASE ~Open(ips, i, AddressLimit)
      BY <1>4, <2>1, <3>1 DEF Begin
    <3>2. CASE Open(ips, i, AddressLimit)
      <4>1. ipFails' = Charged(ips, i, AddressLimit)
        BY <1>4, <3>2 DEF Begin
      <4>2. Table(ipFails', Address, AddressLimit) /\ Kept(ips, ipFails')
        BY <1>2, <2>1, <3>2, <4>1, ChargedTable
      <4>3. QED
        BY <2>1, <2>3, <4>2 DEF Kept
    <3>3. QED
      BY <3>1, <3>2
  <2>6. Table(fails', Key, NameLimit) /\ Kept(fails, fails')
    <3>1. CASE fails' = ks
      BY <2>1, <3>1
    <3>2. CASE fails' = Charged(ks, key, NameLimit) /\ Open(ks, key, NameLimit)
      <4>1. Table(fails', Key, NameLimit) /\ Kept(ks, fails')
        BY <1>2, <2>1, <2>2, <3>2, ChargedTable
      <4>2. QED
        BY <2>1, <2>4, <4>1 DEF Kept
    <3>3. QED
      BY <1>4, <3>1, <3>2 DEF Begin
  <2>7. QED
    BY <2>5, <2>6 DEF Kept
<1>5. ASSUME NEW s \in Slot, Succeed(s)
      PROVE  Goal
  <2> DEFINE key == trying[s]
             D == DOMAIN fails \ {key}
  <2>1. fails' = [k \in D |-> fails[k]] /\ UNCHANGED ipFails
    BY <1>5 DEF Succeed, Restrict
  <2>2. DOMAIN fails' = D /\ \A k \in D : fails'[k] = fails[k]
    BY <2>1
  <2>3. IsFiniteSet(D) /\ Cardinality(D) <= Entries
    <3>1. IsFiniteSet(DOMAIN fails) /\ Cardinality(DOMAIN fails) <= Entries
      BY DEF Tables, Table
    <3>2. IsFiniteSet(D) /\ Cardinality(D) <= Cardinality(DOMAIN fails)
      BY <3>1, FS_Subset
    <3>3. Cardinality(D) \in Nat /\ Cardinality(DOMAIN fails) \in Nat
      BY <3>1, <3>2, FS_CardinalityType
    <3>4. QED
      BY <3>1, <3>2, <3>3, LimitAssumption
  <2>4. Table(fails', Key, NameLimit)
    BY <2>1, <2>2, <2>3 DEF Tables, Table
  <2>5. trying'[s] = NoAttempt
    BY <1>5 DEF Succeed
  <2>6. QED
    BY <2>1, <2>2, <2>4, <2>5 DEF Tables, Kept
<1>6. CASE Tick
  <2>1. /\ Table(fails', Key, NameLimit) /\ Kept(fails, fails')
        /\ Table(ipFails', Address, AddressLimit) /\ Kept(ipFails, ipFails')
    BY <1>2, <1>6, OlderTable DEF Tables, Tick
  <2>2. QED
    BY <2>1 DEF Kept
<1>7. QED
  BY <1>3, <1>4, <1>5, <1>6 DEF Next, Fail, vars

Windows ==
  /\ Counted(fails, ofKey, Key, Lockout - window)
  /\ Counted(ipFails, ofAddress, Address, Lockout - window)

\* The types of the history and of the attempts in flight.
HistoryOK ==
  /\ trying \in [Slot -> Key \cup {NoAttempt}]
  /\ window \in 1..Lockout
  /\ ofKey \in [Key -> Nat]
  /\ ofAddress \in [Address -> Nat]

\* A new window counts nothing.
LEMMA NothingCounted ==
  ASSUME NEW buckets, NEW K, NEW e
  PROVE  Counted(buckets, None(K), K, e)
BY DEF Counted, None

LEMMA HistoryStep == ASSUME HistoryOK, [Next]_vars PROVE HistoryOK'
<1>1. ASSUME NEW s \in Slot, NEW i \in Address, NEW m \in Name, Begin(s, i, m)
      PROVE  HistoryOK'
  <2> DEFINE key == <<i, m>>
  <2>1. key \in Key
    BY DEF Key
  <2>2. /\ UNCHANGED trying \/ trying' = [trying EXCEPT ![s] = key]
        /\ UNCHANGED ofKey \/ ofKey' = [ofKey EXCEPT ![key] = ofKey[key] + 1]
        /\ UNCHANGED ofAddress \/ ofAddress' = [ofAddress EXCEPT ![i] = ofAddress[i] + 1]
        /\ UNCHANGED window
    BY <1>1 DEF Begin
  <2>3. trying' \in [Slot -> Key \cup {NoAttempt}] /\ window' \in 1..Lockout
    BY <2>1, <2>2 DEF HistoryOK
  <2>4. ofKey' \in [Key -> Nat]
    BY <2>1, <2>2 DEF HistoryOK
  <2>5. ofAddress' \in [Address -> Nat]
    BY <2>2 DEF HistoryOK
  <2>6. QED
    BY <2>3, <2>4, <2>5 DEF HistoryOK
<1>2. ASSUME NEW s \in Slot, Fail(s) \/ Succeed(s)
      PROVE  HistoryOK'
  BY <1>2 DEF Fail, Succeed, HistoryOK
<1>3. ASSUME Tick
      PROVE  HistoryOK'
  BY <1>3, LimitAssumption DEF Tick, Watched, None, HistoryOK
<1>4. QED
  BY <1>1, <1>2, <1>3 DEF Next, vars, HistoryOK

\* What is counted in the window stays below the buckets.
LEMMA WindowsStep == ASSUME HistoryOK, Tables, Windows, [Next]_vars PROVE Windows'
<1> DEFINE e == Lockout - window
           Goal == /\ Counted(fails', ofKey', Key, Lockout - window')
                   /\ Counted(ipFails', ofAddress', Address, Lockout - window')
<1>1. SUFFICES Goal
  BY DEF Windows, Counted
<1>2. e \in 0..Lockout - 1 /\ NameLimit \in Nat \ {0} /\ AddressLimit \in Nat \ {0}
  BY LimitAssumption DEF HistoryOK
<1>3. /\ Table(fails, Key, NameLimit) /\ Counted(fails, ofKey, Key, e)
      /\ Table(ipFails, Address, AddressLimit) /\ Counted(ipFails, ofAddress, Address, e)
  BY DEF Tables, Windows
<1>4. ASSUME NEW s \in Slot, NEW i \in Address, NEW m \in Name, Begin(s, i, m)
      PROVE  Goal
  <2> DEFINE ips == Pruned(ipFails)
             ks  == Pruned(fails)
             key == <<i, m>>
  <2>1. key \in Key /\ window' = window
    BY <1>4 DEF Begin, Key
  <2>2. /\ Table(ks, Key, NameLimit) /\ Counted(ks, ofKey, Key, e)
        /\ Table(ips, Address, AddressLimit) /\ Counted(ips, ofAddress, Address, e)
    BY <1>2, <1>3, PrunedTable, PrunedCounted
  <2>3. Counted(ipFails', ofAddress', Address, e)
    <3>1. CASE ~Open(ips, i, AddressLimit)
      BY <1>4, <2>2, <3>1 DEF Begin
    <3>2. CASE Open(ips, i, AddressLimit)
      <4>1. /\ ipFails' = Charged(ips, i, AddressLimit)
            /\ ofAddress' = [ofAddress EXCEPT ![i] = @ + 1]
        BY <1>4, <3>2 DEF Begin
      <4>2. ofAddress \in [Address -> Nat]
        BY DEF HistoryOK
      <4>3. QED
        BY <1>2, <2>2, <3>2, <4>1, <4>2, ChargedCounted
    <3>3. QED
      BY <3>1, <3>2
  <2>4. Counted(fails', ofKey', Key, e)
    <3>1. CASE fails' = ks /\ ofKey' = ofKey
      BY <2>2, <3>1
    <3>2. CASE /\ Open(ks, key, NameLimit)
               /\ fails' = Charged(ks, key, NameLimit)
               /\ ofKey' = [ofKey EXCEPT ![key] = @ + 1]
      <4>1. ofKey \in [Key -> Nat]
        BY DEF HistoryOK
      <4>2. QED
        BY <1>2, <2>1, <2>2, <3>2, <4>1, ChargedCounted
    <3>3. QED
      BY <1>4, <3>1, <3>2 DEF Begin
  <2>5. QED
    BY <2>1, <2>3, <2>4
<1>5. ASSUME NEW s \in Slot, Succeed(s)
      PROVE  Goal
  <2> DEFINE key == trying[s]
  <2>1. /\ fails' = Restrict(fails, DOMAIN fails \ {key}) /\ UNCHANGED <<ipFails, window, ofAddress>>
        /\ ofKey' = [ofKey EXCEPT ![key] = 0] /\ ofKey \in [Key -> Nat]
    BY <1>5 DEF Succeed, HistoryOK
  <2>2. ASSUME NEW k \in Key, ofKey'[k] > 0
        PROVE  k \in DOMAIN fails' /\ fails'[k].idle <= e /\ ofKey'[k] <= fails'[k].count
    <3>1. k # key /\ ofKey'[k] = ofKey[k]
      BY <2>1, <2>2
    <3>2. k \in DOMAIN fails /\ fails[k].idle <= e /\ ofKey[k] <= fails[k].count
      BY <1>3, <2>2, <3>1 DEF Counted
    <3>3. QED
      BY <2>1, <3>1, <3>2 DEF Restrict
  <2>3. QED
    BY <1>3, <2>1, <2>2 DEF Counted
<1>6. CASE Tick
  <2>1. /\ Counted(fails', ofKey, Key, e + 1)
        /\ Counted(ipFails', ofAddress, Address, e + 1)
    BY <1>2, <1>3, <1>6, OlderCounted DEF Tick
  <2>2. CASE window' = window - 1 /\ UNCHANGED <<ofKey, ofAddress>>
    <3>1. Lockout - window' = e + 1
      BY <1>2, <2>2, LimitAssumption DEF HistoryOK
    <3>2. QED
      BY <2>1, <2>2, <3>1
  <2>3. CASE ofKey' = None(Key) /\ ofAddress' = None(Address)
    BY <2>3, NothingCounted
  <2>4. QED
    BY <1>6, <2>2, <2>3 DEF Tick, Watched
<1>7. CASE UNCHANGED <<fails, ipFails, window, ofKey, ofAddress>>
  BY <1>3, <1>7
<1>8. QED
  BY <1>4, <1>5, <1>6, <1>7 DEF Next, Fail, vars

IInv == HistoryOK /\ Tables /\ Windows

\* The conjunction of the parts is an invariant.
THEOREM Invariant == Spec => []IInv
<1>1. Init => IInv
  <2> SUFFICES ASSUME Init PROVE IInv
    OBVIOUS
  <2>1. DOMAIN NoBuckets = {} /\ NoBuckets = [k \in DOMAIN NoBuckets |-> NoBuckets[k]]
    BY DEF NoBuckets
  <2>2. \A K, limit : Table(NoBuckets, K, limit)
    BY <2>1, FS_EmptySet, LimitAssumption DEF Table
  <2>3. Windows
    BY NothingCounted DEF Init, Windows
  <2>4. HistoryOK
    BY LimitAssumption DEF Init, HistoryOK, None
  <2>5. QED
    BY <2>2, <2>3, <2>4 DEF Init, Tables, IInv
<1>2. IInv /\ [Next]_vars => IInv'
  BY TablesStep, HistoryStep, WindowsStep DEF IInv, HistoryOK
<1>3. QED
  BY <1>1, <1>2, PTL DEF Spec

LEMMA Typed == IInv => TypeOK
BY DEF IInv, HistoryOK, Tables, Table, TypeOK

\* Every variable keeps its type; a count never exceeds the limit of its bucket,
\* in particular it starts anew after a lockout.
THEOREM TypeCorrect == Spec => []TypeOK
  BY Typed, Invariant, PTL

\* The two tables never outgrow maxLoginFailEntries, whatever keys come.
THEOREM TablesStayBounded == Spec => []TablesBounded
<1>1. IInv => TablesBounded
  BY DEF IInv, Tables, Table, TablesBounded
<1>2. QED
  BY <1>1, Invariant, PTL

\* allowLoginAttempt and pruneLoginFailures keep their bound on attempts: for
\* every limit, lockout and retention no shorter than a lockout, in no window as
\* long as a lockout more attempts are charged to an address or to a key than its
\* limit, except that a success clears the key.
THEOREM AttemptsStayBounded == Spec => []AttemptsBounded
<1>1. IInv => AttemptsBounded
  <2> SUFFICES ASSUME IInv PROVE AttemptsBounded
    OBVIOUS
  <2>1. ASSUME NEW buckets, NEW K, NEW limit \in Nat \ {0}, NEW seen \in [K -> Nat], NEW e,
               Table(buckets, K, limit), Counted(buckets, seen, K, e), NEW k \in K
        PROVE  seen[k] <= limit
    <3>1. CASE seen[k] = 0
      BY <3>1
    <3>2. CASE seen[k] > 0
      <4>1. k \in DOMAIN buckets /\ seen[k] <= buckets[k].count
        BY <2>1, <3>2 DEF Counted
      <4>2. buckets[k].count \in 1..limit
        BY <2>1, <4>1 DEF Table, Bucket
      <4>3. QED
        BY <4>1, <4>2
    <3>3. QED
      BY <3>1, <3>2
  <2>2. \A k \in Key : ofKey[k] <= NameLimit
    BY <2>1, LimitAssumption DEF IInv, HistoryOK, Tables, Windows
  <2>3. \A i \in Address : ofAddress[i] <= AddressLimit
    BY <2>1, LimitAssumption DEF IInv, HistoryOK, Tables, Windows
  <2>4. QED
    BY <2>2, <2>3 DEF AttemptsBounded
<1>2. QED
  BY <1>1, Invariant, PTL

\* A lockout runs its time: neither attempts, refused or not, nor pruning, nor
\* other keys shorten it or draw it out.
THEOREM LockoutsRunOut == Spec => LockoutsKept
<1> DEFINE Step ==
  /\ \A k \in DOMAIN fails : fails[k].lock > 0
       => \/ /\ k \in DOMAIN fails'
             /\ \/ fails'[k].lock = fails[k].lock
                \/ fails'[k].lock = fails[k].lock - 1
          \/ \E s \in Slot : trying[s] = k /\ trying'[s] = NoAttempt
  /\ \A i \in DOMAIN ipFails : ipFails[i].lock > 0
       => /\ i \in DOMAIN ipFails'
          /\ \/ ipFails'[i].lock = ipFails[i].lock
             \/ ipFails'[i].lock = ipFails[i].lock - 1
<1>1. IInv /\ [Next]_vars => Step
  BY TablesStep DEF IInv, HistoryOK, Kept
<1>2. QED
  BY <1>1, Invariant, PTL DEF Spec, LockoutsKept
=============================================================================
