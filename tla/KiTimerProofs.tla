---------------------------- MODULE KiTimerProofs ---------------------------
(***************************************************************************)
(* What the helpers of the timer table do to a table in order; theorems    *)
(* about KiTimer: the inductive invariant behind its safety properties,    *)
(* that no timer expires early, and that KiTimerExpiration leaves nothing  *)
(* due behind.                                                             *)
(***************************************************************************)
EXTENDS KiTimer, ListLemmas

(* One bucket in order: no timer twice, each timer where its due time says, sorted, and *)
(* the bucket's time T no later than its first timer's.                                 *)
Bucket(s, T, due, h) ==
    /\ IsInjective(s)
    /\ \A i \in DOMAIN s : KiComputeTimerTableIndex(due[s[i]]) = h
    /\ \A i, j \in DOMAIN s : i < j => due[s[i]] <= due[s[j]]
    /\ IF s = <<>> THEN T = InfiniteTime ELSE T <= due[Head(s)]

Good(d) == d \in Tables /\ \A h \in Hands : Bucket(d.Entry[h], d.Time[h], d.DueTime, h)

(* Bucket by bucket is what the invariant says table by table. *)
LEMMA GoodIsConsistent ==
    ASSUME NEW d \in Tables
    PROVE  Good(d) <=> InOwnBucket(d) /\ Sorted(d) /\ TimeIsLowerBound(d)
BY DEF Good, Bucket, InOwnBucket, Sorted, TimeIsLowerBound

(* The types of a table's parts. *)
LEMMA TableParts ==
    ASSUME NEW d \in Tables
    PROVE  /\ d.Entry \in [Hands -> Seq(Timers)]
           /\ d.Time \in [Hands -> Times]
           /\ d.Inserted \in [Timers -> BOOLEAN]
           /\ d.SignalState \in [Timers -> BOOLEAN]
           /\ d.DueTime \in [Timers -> Times]
           /\ d.Absolute \in [Timers -> BOOLEAN]
           /\ d.Period \in [Timers -> Nat]
           /\ d.Dpc \in [Timers -> BOOLEAN]
BY DEF Tables

(* Times are reduced modulo the width, and every time names a bucket. *)
LEMMA Widths ==
    /\ \A x \in Int : x % TimeModulus \in Times
    /\ \A x \in Times : KiComputeTimerTableIndex(x) \in Hands
    /\ InfiniteTime \in Times /\ 0 \in Times
    /\ Times \subseteq Nat
<1>1. \A x \in Int : x % TimeModulus \in Times
  BY TableAssumption DEF Times
<1>2. \A x \in Times : x \div CLOCK_TIME_INCREMENT \in Int
  BY TableAssumption DEF Times
<1>3. \A y \in Int : y % TIMER_TABLE_SIZE \in Hands
  BY TableAssumption DEF Hands
<1>4. InfiniteTime \in Times /\ 0 \in Times /\ Times \subseteq Nat
  BY TableAssumption DEF Times, InfiniteTime
<1> QED
  BY <1>1, <1>2, <1>3, <1>4 DEF KiComputeTimerTableIndex

(* RemoveEntryList from a bucket, and the infinite time of one that becomes empty. *)
LEMMA BucketRemove ==
    ASSUME NEW s \in Seq(Timers), NEW T \in Times, NEW due \in [Timers -> Times],
           NEW h \in Hands, Bucket(s, T, due, h), NEW t
    PROVE  /\ RemoveFirst(s, t) \in Seq(Timers)
           /\ ToSet(RemoveFirst(s, t)) = ToSet(s) \ {t}
           /\ t \notin ToSet(s) => RemoveFirst(s, t) = s
           /\ Bucket(RemoveFirst(s, t),
                     IF RemoveFirst(s, t) = <<>> THEN InfiniteTime ELSE T, due, h)
<1> DEFINE r == RemoveFirst(s, t)
<1>1. IsInjective(s)
  BY DEF Bucket
<1>2. CASE t \notin ToSet(s)
  <2>1. r = s
    BY <1>1, <1>2, RemoveFirstIs DEF ToSet
  <2>2. ToSet(s) \ {t} = ToSet(s)
    BY <1>2
  <2> HIDE DEF r
  <2>3. Bucket(r, IF r = <<>> THEN InfiniteTime ELSE T, due, h)
    BY <2>1 DEF Bucket
  <2> QED
    BY <1>2, <2>1, <2>2, <2>3 DEF r
<1>3. CASE t \in ToSet(s)
  <2>1. PICK k \in 1..Len(s) : s[k] = t /\ r = RemoveAt(s, k)
    BY <1>1, <1>3, RemoveFirstIs DEF ToSet
  <2>2. /\ r \in Seq(Timers)
        /\ Len(r) = Len(s) - 1
        /\ \A i \in 1..Len(s) - 1 : r[i] = IF i < k THEN s[i] ELSE s[i + 1]
    BY <2>1, RemoveAtElements
  <2>3. IsInjective(r) /\ ToSet(r) = ToSet(s) \ {t}
    BY <1>1, <2>1, RemoveLinked
  <2> HIDE DEF r
  <2>4. DOMAIN r = 1..Len(s) - 1 /\ DOMAIN s = 1..Len(s) /\ Len(s) \in Nat
    BY <2>2
  <2>0. /\ \A i \in 1..Len(s) : KiComputeTimerTableIndex(due[s[i]]) = h
        /\ \A i, j \in 1..Len(s) : i < j => due[s[i]] <= due[s[j]]
    BY <2>4 DEF Bucket
  <2> DEFINE Old(i) == IF i < k THEN i ELSE i + 1
  <2>9. /\ \A i \in DOMAIN r : Old(i) \in 1..Len(s) /\ r[i] = s[Old(i)]
        /\ \A i, j \in DOMAIN r : i < j => Old(i) < Old(j)
    BY <2>2, <2>4
  <2> HIDE DEF Old
  <2>5. \A i \in DOMAIN r : KiComputeTimerTableIndex(due[r[i]]) = h
    BY <2>0, <2>9
  <2>6. \A i, j \in DOMAIN r : i < j => due[r[i]] <= due[r[j]]
    BY <2>0, <2>9
  <2>7. r # <<>> => T <= due[Head(r)]
    <3> HAVE r # <<>>
    <3>1. Head(r) = r[1] /\ Len(r) >= 1
      BY <2>2, EmptySeq
    <3>2. s # <<>> /\ Head(s) = s[1] /\ Len(s) >= 2
      BY <2>2, <3>1
    <3>3. T <= due[s[1]]
      BY <3>2 DEF Bucket
    <3>4. due[s[1]] <= due[s[2]]
      BY <2>0, <2>4, <3>2, 1 \in 1..Len(s), 2 \in 1..Len(s), 1 < 2
    <3>5. due[s[1]] \in Nat /\ due[s[2]] \in Nat /\ T \in Nat
      <4>1. s[1] \in Timers /\ s[2] \in Timers
        BY <3>2, <2>4
      <4> QED
        BY <4>1, Widths
    <3>6. r[1] = s[1] \/ r[1] = s[2]
      BY <2>2, <2>4, <3>1
    <3> QED
      BY <3>1, <3>3, <3>4, <3>5, <3>6
  <2>8. Bucket(r, IF r = <<>> THEN InfiniteTime ELSE T, due, h)
    BY <2>3, <2>5, <2>6, <2>7 DEF Bucket
  <2> QED
    BY <1>3, <2>2, <2>3, <2>8 DEF r
<1> QED
  BY <1>2, <1>3

(* Where the backward scan stops: everything up to there is due no later than t, and   *)
(* everything behind it later.                                                         *)
LEMMA ScanStopSplits ==
    ASSUME NEW d, Good(d), NEW t \in Timers, NEW h \in Hands
    PROVE  /\ ScanStop(d, t, h) \in 0..Len(d.Entry[h])
           /\ \A i \in 1..Len(d.Entry[h]) :
                 /\ d.DueTime[d.Entry[h][i]] \in Nat
                 /\ i <= ScanStop(d, t, h) <=> d.DueTime[d.Entry[h][i]] <= d.DueTime[t]
<1> DEFINE s == d.Entry[h]
           due == d.DueTime
           before == {i \in DOMAIN s : due[t] >= due[s[i]]}
           stop == ScanStop(d, t, h)
<1>1. d \in Tables /\ Bucket(s, d.Time[h], due, h)
  BY DEF Good
<1>2. s \in Seq(Timers) /\ due \in [Timers -> Nat] /\ DOMAIN s = 1..Len(s) /\ Len(s) \in Nat
  <2>1. s \in Seq(Timers) /\ due \in [Timers -> Times]
    BY <1>1, TableParts
  <2> HIDE DEF s, due
  <2>2. \A u \in Timers : due[u] \in Nat
    BY <2>1, Widths
  <2> QED
    BY <2>1, <2>2
<1>3. stop = IF before = {} THEN 0 ELSE CHOOSE i \in before : \A j \in before : j <= i
  BY DEF ScanStop
<1> HIDE DEF stop
<1>4. \A i, j \in 1..Len(s) : i < j => due[s[i]] <= due[s[j]]
  BY <1>1, <1>2 DEF Bucket
<1> HIDE DEF s, due
<1>5. \A i \in 1..Len(s) : s[i] \in Timers /\ due[s[i]] \in Nat
  BY <1>2
<1>6. CASE before = {}
  BY <1>2, <1>3, <1>5, <1>6 DEF s, due, stop
<1>7. CASE before # {}
  <2>1. before \in SUBSET (1..Len(s))
    BY <1>2
  <2>2. \E m \in before : \A j \in before : j <= m
    BY <1>2, <1>7, <2>1, LastPosition
  <2>3. stop \in before /\ \A j \in before : j <= stop
    BY <1>3, <1>7, <2>2
  <2>4. \A i \in 1..Len(s) : i <= stop => due[s[i]] <= due[t]
    BY <1>2, <1>4, <1>5, <2>3
  <2>5. \A i \in 1..Len(s) : due[s[i]] <= due[t] => i <= stop
    BY <1>2, <1>5, <2>3
  <2>6. stop \in 0..Len(s)
    BY <1>2, <2>1, <2>3
  <2> QED
    BY <1>5, <2>4, <2>5, <2>6 DEF s, due, stop
<1> QED
  BY <1>6, <1>7

(* The insertion keeps the bucket in order. *)
LEMMA BucketInsert ==
    ASSUME NEW d, Good(d), NEW t \in Timers, NEW h \in Hands, t \notin ToSet(d.Entry[h]),
           KiComputeTimerTableIndex(d.DueTime[t]) = h
    PROVE  LET stop == ScanStop(d, t, h)
               r    == InsertAt(d.Entry[h], stop + 1, t)
           IN  /\ r \in Seq(Timers)
               /\ ToSet(r) = ToSet(d.Entry[h]) \cup {t}
               /\ Bucket(r, IF stop = 0 THEN d.DueTime[t] ELSE d.Time[h], d.DueTime, h)
<1> DEFINE s == d.Entry[h]
           due == d.DueTime
           stop == ScanStop(d, t, h)
           k == stop + 1
           r == InsertAt(s, k, t)
           T == IF stop = 0 THEN due[t] ELSE d.Time[h]
<1>1. d \in Tables /\ Bucket(s, d.Time[h], due, h)
  BY DEF Good
<1>2. s \in Seq(Timers) /\ due \in [Timers -> Times] /\ DOMAIN s = 1..Len(s) /\ Len(s) \in Nat
  BY <1>1, TableParts
<1>3. /\ stop \in 0..Len(s)
      /\ \A i \in 1..Len(s) :
            due[s[i]] \in Nat /\ (i <= stop <=> due[s[i]] <= due[t])
  BY ScanStopSplits
<1>4. k \in 1..Len(s) + 1
  BY <1>2, <1>3
<1>5. IsInjective(s) /\ t \notin ToSet(s)
  BY <1>1 DEF Bucket
<1>6. due[t] \in Nat
  BY <1>2, Widths
<1>7. /\ \A i \in 1..Len(s) : KiComputeTimerTableIndex(due[s[i]]) = h
      /\ \A i, j \in 1..Len(s) : i < j => due[s[i]] <= due[s[j]]
      /\ s # <<>> => d.Time[h] <= due[s[1]]
  <2> USE DEF Bucket
  <2>1. \A i \in 1..Len(s) : KiComputeTimerTableIndex(due[s[i]]) = h
    BY <1>1, <1>2
  <2>2. \A i, j \in 1..Len(s) : i < j => due[s[i]] <= due[s[j]]
    BY <1>1, <1>2
  <2>3. s # <<>> => d.Time[h] <= due[s[1]]
    BY <1>1, <1>2
  <2> QED
    BY <2>1, <2>2, <2>3
<1>8. KiComputeTimerTableIndex(due[t]) = h
  OBVIOUS
<1> HIDE DEF stop, s, due
<1>9. /\ r \in Seq(Timers)
      /\ Len(r) = Len(s) + 1
      /\ \A i \in 1..Len(s) + 1 : r[i] = IF i < k THEN s[i] ELSE IF i = k THEN t ELSE s[i - 1]
  <2> HIDE DEF k
  <2>1. r \in Seq(Timers) /\ Len(r) = Len(s) + 1
    BY <1>2, <1>4, InsertAtElements
  <2>2. \A i \in 1..Len(s) + 1 : r[i] = IF i < k THEN s[i] ELSE IF i = k THEN t ELSE s[i - 1]
    BY <1>2, <1>4, InsertAtElements
  <2> QED
    BY <2>1, <2>2
<1>10. IsInjective(r) /\ ToSet(r) = ToSet(s) \cup {t}
  BY <1>2, <1>4, <1>5, InsertUnlinked
<1> HIDE DEF r
<1>11. DOMAIN r = 1..Len(s) + 1
  BY <1>9
<1>12. \A i \in DOMAIN r : KiComputeTimerTableIndex(due[r[i]]) = h
  <2> TAKE i \in DOMAIN r
  <2>1. CASE i < k
    BY <1>2, <1>4, <1>7, <1>9, <1>11, <2>1, i \in 1..Len(s)
  <2>2. CASE i = k
    BY <1>8, <1>9, <1>11, <2>2
  <2>3. CASE i > k
    BY <1>2, <1>4, <1>7, <1>9, <1>11, <2>3, i - 1 \in 1..Len(s)
  <2> QED
    BY <1>3, <1>11, <2>1, <2>2, <2>3
<1>13. \A i, j \in DOMAIN r : i < j => due[r[i]] <= due[r[j]]
  <2> SUFFICES ASSUME NEW i \in DOMAIN r, NEW j \in DOMAIN r, i < j
               PROVE  due[r[i]] <= due[r[j]]
    OBVIOUS
  <2>1. CASE j < k
    BY <1>3, <1>7, <1>9, <1>11, <2>1, i \in 1..Len(s), j \in 1..Len(s)
  <2>2. CASE j = k
    <3>1. i \in 1..Len(s) /\ i <= stop
      BY <1>3, <1>11, <2>2
    <3> QED
      BY <1>3, <1>9, <1>11, <2>2, <3>1
  <2>3. CASE j > k /\ i < k
    <3>1. i \in 1..Len(s) /\ j - 1 \in 1..Len(s) /\ i <= stop /\ ~(j - 1 <= stop)
      BY <1>2, <1>3, <1>11, <2>3
    <3>2. due[s[i]] \in Nat /\ due[s[j - 1]] \in Nat /\ due[s[i]] <= due[t]
          /\ ~(due[s[j - 1]] <= due[t])
      BY <1>3, <3>1
    <3>3. r[i] = s[i] /\ r[j] = s[j - 1]
      BY <1>3, <1>9, <1>11, <2>3
    <3> QED
      BY <1>6, <3>2, <3>3
  <2>4. CASE j > k /\ i = k
    <3>1. j - 1 \in 1..Len(s) /\ ~(j - 1 <= stop)
      BY <1>2, <1>3, <1>11, <2>4
    <3>2. due[s[j - 1]] \in Nat /\ ~(due[s[j - 1]] <= due[t])
      BY <1>3, <3>1
    <3>3. r[i] = t /\ r[j] = s[j - 1]
      BY <1>3, <1>9, <1>11, <2>4
    <3> QED
      BY <1>6, <3>2, <3>3
  <2>5. CASE i > k
    <3>1. i - 1 \in 1..Len(s) /\ j - 1 \in 1..Len(s) /\ i - 1 < j - 1
      BY <1>2, <1>3, <1>11, <2>5
    <3>2. r[i] = s[i - 1] /\ r[j] = s[j - 1]
      BY <1>3, <1>9, <1>11, <2>5
    <3> QED
      BY <1>7, <3>1, <3>2
  <2> QED
    BY <1>3, <1>11, <2>1, <2>2, <2>3, <2>4, <2>5
<1>14. r # <<>> /\ T <= due[Head(r)]
  <2>1. Len(r) >= 1 /\ Head(r) = r[1] /\ r # <<>>
    BY <1>2, <1>9
  <2>2. CASE stop = 0
    BY <1>2, <1>6, <1>9, <2>1, <2>2
  <2>3. CASE stop # 0
    <3>1. s # <<>> /\ r[1] = s[1]
      BY <1>2, <1>3, <1>9, <2>3
    <3> QED
      BY <1>7, <2>1, <2>3, <3>1
  <2> QED
    BY <2>2, <2>3
<1>15. Bucket(r, T, due, h)
  BY <1>10, <1>12, <1>13, <1>14 DEF Bucket
<1> QED
  BY <1>9, <1>10, <1>15 DEF r, s, due, stop

(* A linked timer is in the bucket of its due time, and only there. *)
LEMMA LinkedWhere ==
    ASSUME NEW d, Good(d), NEW t \in Timers
    PROVE  /\ KiComputeTimerTableIndex(d.DueTime[t]) \in Hands
           /\ t \in Linked(d) <=> t \in ToSet(d.Entry[KiComputeTimerTableIndex(d.DueTime[t])])
           /\ \A h \in Hands : t \in ToSet(d.Entry[h]) =>
                 t \in Linked(d) /\ h = KiComputeTimerTableIndex(d.DueTime[t])
<1>1. KiComputeTimerTableIndex(d.DueTime[t]) \in Hands
  BY TableParts, Widths DEF Good
<1>2. ASSUME NEW h \in Hands, t \in ToSet(d.Entry[h])
      PROVE  h = KiComputeTimerTableIndex(d.DueTime[t])
  <2>1. PICK i \in DOMAIN d.Entry[h] : t = d.Entry[h][i]
    BY <1>2 DEF ToSet
  <2> QED
    BY <2>1 DEF Good, Bucket
<1> QED
  BY <1>1, <1>2 DEF Linked

(* From d to r the table stays in order and nothing changes for the timers other than t. *)
Touches(d, r, t) ==
    /\ Good(r)
    /\ \A u \in Timers : u # t =>
          /\ r.Inserted[u] = d.Inserted[u]
          /\ r.DueTime[u] = d.DueTime[u]
          /\ r.Period[u] = d.Period[u]
          /\ \A h \in Hands : u \in ToSet(r.Entry[h]) <=> u \in ToSet(d.Entry[h])

(* One change to a timer after the other. *)
LEMMA TouchesTwice ==
    ASSUME NEW d, NEW r, NEW q, NEW t, Touches(d, r, t), Touches(r, q, t)
    PROVE  Touches(d, q, t)
BY DEF Touches

(* The other timers stay linked, or not, in the same bucket. *)
LEMMA TouchesLinked ==
    ASSUME NEW d, NEW r, NEW t, Touches(d, r, t), NEW u \in Timers, u # t
    PROVE  u \in Linked(r) <=> u \in Linked(d)
BY DEF Touches, Linked

(* Fields of a timer that is not linked may change. *)
LEMMA FieldsTouch ==
    ASSUME NEW d, Good(d), NEW t \in Timers, t \notin Linked(d),
           NEW r \in Tables, r.Entry = d.Entry, r.Time = d.Time,
           \A u \in Timers : u # t =>
              r.Inserted[u] = d.Inserted[u] /\ r.DueTime[u] = d.DueTime[u]
              /\ r.Period[u] = d.Period[u]
    PROVE  Touches(d, r, t) /\ t \notin Linked(r)
<1>1. ASSUME NEW h \in Hands
      PROVE  Bucket(r.Entry[h], r.Time[h], r.DueTime, h)
  <2> DEFINE s == d.Entry[h]
  <2>1. s \in Seq(Timers) /\ Bucket(s, d.Time[h], d.DueTime, h)
    BY TableParts DEF Good
  <2>2. r.Entry[h] = s /\ r.Time[h] = d.Time[h]
    OBVIOUS
  <2>3. \A i \in DOMAIN s : s[i] \in Timers /\ s[i] # t
    <3>1. \A i \in DOMAIN s : s[i] \in Timers /\ s[i] \in Linked(d)
      BY <2>1 DEF Linked, ToSet
    <3> QED
      BY <3>1
  <2>4. \A i \in DOMAIN s : r.DueTime[s[i]] = d.DueTime[s[i]]
    BY <2>3
  <2> HIDE DEF s
  <2>5. s # <<>> => Head(s) = s[1] /\ 1 \in DOMAIN s
    BY <2>1, EmptySeq
  <2> QED
    BY <2>1, <2>2, <2>4, <2>5 DEF Bucket
<1>2. Good(r)
  BY <1>1 DEF Good
<1> QED
  BY <1>2 DEF Touches, Linked

(* KiRemoveEntryTimer with the hand of the timer's due time. *)
LEMMA UnlinkTouches ==
    ASSUME NEW d, Good(d), NEW t \in Timers, NEW h \in Hands,
           t \in Linked(d) => h = KiComputeTimerTableIndex(d.DueTime[t])
    PROVE  LET r == KiRemoveEntryTimer(d, t, h)
           IN  /\ Touches(d, r, t)
               /\ t \notin Linked(r)
               /\ r.Inserted = d.Inserted
               /\ r.DueTime = d.DueTime
               /\ r.Period = d.Period
<1> DEFINE r == KiRemoveEntryTimer(d, t, h)
           entry == [g \in Hands |-> RemoveFirst(d.Entry[g], t)]
           time == [d.Time EXCEPT ![h] = IF entry[h] = <<>> THEN InfiniteTime ELSE @]
<1>1. d \in Tables /\ \A g \in Hands : Bucket(d.Entry[g], d.Time[g], d.DueTime, g)
  BY DEF Good
<1>2. /\ d.Entry \in [Hands -> Seq(Timers)]
      /\ d.Time \in [Hands -> Times]
      /\ d.DueTime \in [Timers -> Times]
  BY <1>1, TableParts
<1>3. r = [d EXCEPT !.Entry = entry, !.Time = time]
  BY <1>1, <1>2 DEF KiRemoveEntryTimer, Tables
<1>4. ASSUME NEW g \in Hands
      PROVE  /\ entry[g] \in Seq(Timers)
             /\ ToSet(entry[g]) = ToSet(d.Entry[g]) \ {t}
             /\ time[g] \in Times
             /\ Bucket(entry[g], time[g], d.DueTime, g)
  <2> DEFINE s == d.Entry[g]
             T == d.Time[g]
             q == RemoveFirst(s, t)
  <2>1. s \in Seq(Timers) /\ T \in Times /\ Bucket(s, T, d.DueTime, g)
    BY <1>1, <1>2
  <2>2. entry[g] = q
    OBVIOUS
  <2> HIDE DEF s, T
  <2>3. /\ q \in Seq(Timers)
        /\ ToSet(q) = ToSet(s) \ {t}
        /\ t \notin ToSet(s) => q = s
        /\ Bucket(q, IF q = <<>> THEN InfiniteTime ELSE T, d.DueTime, g)
    BY <1>2, <2>1, BucketRemove
  <2> HIDE DEF q, entry
  <2>4. CASE g = h
    <3>1. time[g] = IF q = <<>> THEN InfiniteTime ELSE T
      BY <1>2, <2>2, <2>4 DEF T
    <3> QED
      BY <2>1, <2>2, <2>3, <3>1, Widths DEF s
  <2>5. CASE g # h
    <3>1. time[g] = T
      BY <1>2, <2>5 DEF T
    <3>2. t \notin ToSet(s)
      BY <2>5, LinkedWhere DEF s
    <3> QED
      BY <2>1, <2>2, <2>3, <3>1, <3>2 DEF s
  <2> QED
    BY <2>4, <2>5
<1>5. entry \in [Hands -> Seq(Timers)] /\ time \in [Hands -> Times]
  <2>1. entry \in [Hands -> Seq(Timers)]
    BY <1>4
  <2>2. DOMAIN time = Hands /\ time = [g \in Hands |-> time[g]]
    BY <1>2
  <2> HIDE DEF time
  <2> QED
    BY <1>4, <2>1, <2>2
<1> HIDE DEF entry, time
<1>6. /\ r \in Tables
      /\ r.Entry = entry /\ r.Time = time
      /\ r.Inserted = d.Inserted /\ r.DueTime = d.DueTime /\ r.Period = d.Period
  BY <1>1, <1>3, <1>5 DEF Tables
<1> HIDE DEF r
<1>7. Good(r)
  BY <1>4, <1>6 DEF Good
<1>8. \A u \in Timers : \A g \in Hands :
         u \in ToSet(r.Entry[g]) <=> u \in ToSet(d.Entry[g]) /\ u # t
  BY <1>4, <1>6
<1>9. t \notin Linked(r)
  BY <1>8 DEF Linked
<1>10. Touches(d, r, t)
  BY <1>6, <1>7, <1>8 DEF Touches
<1> QED
  BY <1>6, <1>9, <1>10 DEF r

(* KiInsertTimerTable of a timer that is not linked, with the hand of its due time. *)
LEMMA LinkTouches ==
    ASSUME NEW d, Good(d), NEW t \in Timers, t \notin Linked(d),
           NEW h, h = KiComputeTimerTableIndex(d.DueTime[t])
    PROVE  LET r == KiInsertTimerTable(d, t, h)
           IN  /\ Touches(d, r, t)
               /\ t \in Linked(r)
               /\ r.Inserted = d.Inserted
               /\ r.DueTime = d.DueTime
               /\ r.Period = d.Period
<1> DEFINE r == KiInsertTimerTable(d, t, h)
           stop == ScanStop(d, t, h)
           s == InsertAt(d.Entry[h], stop + 1, t)
           T == IF stop = 0 THEN d.DueTime[t] ELSE d.Time[h]
           entry == [d.Entry EXCEPT ![h] = s]
           time == [d.Time EXCEPT ![h] = T]
           signal == [d.SignalState EXCEPT ![t] = IF d.Period[t] = 0 THEN FALSE ELSE @]
<1>1. d \in Tables /\ \A g \in Hands : Bucket(d.Entry[g], d.Time[g], d.DueTime, g)
  BY DEF Good
<1>2. /\ d.Entry \in [Hands -> Seq(Timers)]
      /\ d.Time \in [Hands -> Times]
      /\ d.DueTime \in [Timers -> Times]
      /\ d.SignalState \in [Timers -> BOOLEAN]
  BY <1>1, TableParts
<1>3. h \in Hands /\ t \notin ToSet(d.Entry[h])
  BY LinkedWhere
<1>4. r = [d EXCEPT !.Entry = entry, !.Time = time, !.SignalState = signal]
  BY <1>1, <1>2, <1>3 DEF KiInsertTimerTable, Tables
<1>5. s \in Seq(Timers) /\ ToSet(s) = ToSet(d.Entry[h]) \cup {t} /\ Bucket(s, T, d.DueTime, h)
  BY <1>3, BucketInsert
<1>6. T \in Times
  BY <1>2, <1>3
<1>7. signal \in [Timers -> BOOLEAN]
  BY <1>2
<1> HIDE DEF s, T, signal
<1>8. entry \in [Hands -> Seq(Timers)] /\ time \in [Hands -> Times]
  BY <1>2, <1>3, <1>5, <1>6
<1>9. \A g \in Hands : /\ entry[g] = IF g = h THEN s ELSE d.Entry[g]
                       /\ time[g] = IF g = h THEN T ELSE d.Time[g]
  BY <1>2, <1>3
<1> HIDE DEF entry, time
<1>10. /\ r \in Tables
       /\ r.Entry = entry /\ r.Time = time
       /\ r.Inserted = d.Inserted /\ r.DueTime = d.DueTime /\ r.Period = d.Period
  BY <1>1, <1>4, <1>7, <1>8 DEF Tables
<1> HIDE DEF r
<1>11. Good(r)
  BY <1>1, <1>5, <1>9, <1>10 DEF Good
<1>12. \A u \in Timers : u # t => \A g \in Hands :
         u \in ToSet(r.Entry[g]) <=> u \in ToSet(d.Entry[g])
  BY <1>5, <1>9, <1>10
<1>13. t \in Linked(r)
  BY <1>3, <1>5, <1>9, <1>10 DEF Linked
<1>14. Touches(d, r, t)
  BY <1>10, <1>11, <1>12 DEF Touches
<1> QED
  BY <1>10, <1>13, <1>14 DEF r

(* KxRemoveTreeTimer. *)
LEMMA KxRemoveTouches ==
    ASSUME NEW d, Good(d), NEW t \in Timers
    PROVE  LET r == KxRemoveTreeTimer(d, t)
           IN  /\ Touches(d, r, t)
               /\ t \notin Linked(r)
               /\ ~r.Inserted[t]
               /\ r.DueTime = d.DueTime
               /\ r.Period = d.Period
<1> DEFINE h == KiComputeTimerTableIndex(d.DueTime[t])
           q == KiRemoveEntryTimer(d, t, h)
           r == [q EXCEPT !.Inserted[t] = FALSE]
<1>1. h \in Hands
  BY LinkedWhere
<1>2. /\ Touches(d, q, t)
      /\ t \notin Linked(q)
      /\ q.DueTime = d.DueTime
      /\ q.Period = d.Period
  BY <1>1, UnlinkTouches
<1>3. r = KxRemoveTreeTimer(d, t)
  BY DEF KxRemoveTreeTimer
<1> HIDE DEF q
<1>4. q \in Tables /\ Good(q)
  BY <1>2 DEF Touches, Good
<1>5. /\ r \in Tables /\ r.Entry = q.Entry /\ r.Time = q.Time
      /\ r.Inserted = [q.Inserted EXCEPT ![t] = FALSE]
      /\ r.DueTime = q.DueTime /\ r.Period = q.Period
  BY <1>4 DEF Tables
<1>6. q.Inserted \in [Timers -> BOOLEAN]
  BY <1>4, TableParts
<1> HIDE DEF r
<1>7. ~r.Inserted[t] /\ \A u \in Timers : u # t => r.Inserted[u] = q.Inserted[u]
  BY <1>5, <1>6
<1>8. Touches(q, r, t) /\ t \notin Linked(r)
  BY <1>2, <1>4, <1>5, <1>7, FieldsTouch
<1>9. Touches(d, r, t)
  BY <1>2, <1>8, TouchesTwice
<1> QED
  BY <1>2, <1>3, <1>5, <1>7, <1>8, <1>9

(* KiComputeDueTime on a timer that is not linked. *)
LEMMA DueTimeTouches ==
    ASSUME NEW d, Good(d), NEW t \in Timers, t \notin Linked(d),
           NEW due \in Int, NEW sysTime \in Int, NEW now \in Int
    PROVE  LET r == KiComputeDueTime(d, t, due, sysTime, now)
           IN  /\ Touches(d, r, t)
               /\ t \notin Linked(r)
               /\ r.Inserted[t] <=> d.Inserted[t] \/ ~AlreadyPassed(due, sysTime)
               /\ r.Period = d.Period
               /\ r.DueTime[t] =
                     IF AlreadyPassed(due, sysTime) THEN 0
                     ELSE (now - (IF due >= 0 THEN sysTime - due ELSE due)) % TimeModulus
<1> DEFINE r == KiComputeDueTime(d, t, due, sysTime, now)
           interval == IF due >= 0 THEN sysTime - due ELSE due
           passed == AlreadyPassed(due, sysTime)
           at == IF passed THEN 0 ELSE (now - interval) % TimeModulus
           absolute == [d.Absolute EXCEPT ![t] = (due >= 0)]
           signal == [d.SignalState EXCEPT ![t] = @ \/ passed]
           dueTime == [d.DueTime EXCEPT ![t] = at]
           inserted == [d.Inserted EXCEPT ![t] = @ \/ ~passed]
<1>1. d \in Tables
  BY DEF Good
<1>2. r = [d EXCEPT !.Absolute = absolute, !.SignalState = signal, !.DueTime = dueTime,
                    !.Inserted = inserted]
  BY <1>1, TableParts DEF KiComputeDueTime, Tables
<1>3. passed \in BOOLEAN /\ (due >= 0) \in BOOLEAN
  BY DEF AlreadyPassed
<1>4. at \in Times
  BY Widths, interval \in Int, now - interval \in Int
<1> HIDE DEF passed, at
<1>5. /\ absolute \in [Timers -> BOOLEAN]
      /\ signal \in [Timers -> BOOLEAN]
  BY <1>1, <1>3, TableParts
<1>6. dueTime \in [Timers -> Times] /\ dueTime[t] = at
      /\ \A u \in Timers : u # t => dueTime[u] = d.DueTime[u]
  BY <1>1, <1>4, TableParts
<1>7. inserted \in [Timers -> BOOLEAN] /\ (inserted[t] <=> d.Inserted[t] \/ ~passed)
      /\ \A u \in Timers : u # t => inserted[u] = d.Inserted[u]
  BY <1>1, <1>3, TableParts
<1> HIDE DEF absolute, signal, dueTime, inserted
<1>8. /\ r \in Tables
      /\ r.Entry = d.Entry /\ r.Time = d.Time
      /\ r.Inserted = inserted /\ r.DueTime = dueTime /\ r.Period = d.Period
  BY <1>1, <1>2, <1>5, <1>6, <1>7 DEF Tables
<1> HIDE DEF r
<1>9. Touches(d, r, t) /\ t \notin Linked(r)
  BY <1>6, <1>7, <1>8, FieldsTouch
<1> QED
  BY <1>6, <1>7, <1>8, <1>9 DEF r, at, passed

(* A periodic timer's next due time. *)
NextDue(d, t, now) == (now + d.Period[t] * CLOCK_TIME_INCREMENT) % TimeModulus

(* A periodic timer that is not linked gets its next due time and is linked. *)
LEMMA RearmTouches ==
    ASSUME NEW d, Good(d), NEW t \in Timers, t \notin Linked(d), d.Period[t] # 0,
           NEW sysTime \in Int, NEW now \in Int
    PROVE  LET r == Rearm(d, t, sysTime, now)
           IN  /\ Touches(d, r, t)
               /\ t \in Linked(r)
               /\ r.Inserted[t]
               /\ r.Period = d.Period
               /\ r.DueTime[t] = NextDue(d, t, now)
<1> DEFINE span == d.Period[t] * CLOCK_TIME_INCREMENT
           q == KiComputeDueTime(d, t, -span, sysTime, now)
           r == KiInsertTimerTable(q, t, KiComputeTimerTableIndex(q.DueTime[t]))
<1>1. r = Rearm(d, t, sysTime, now)
  BY DEF Rearm
<1>2. span \in Nat /\ span > 0
  <2>1. d.Period[t] \in Nat \ {0} /\ CLOCK_TIME_INCREMENT \in Nat \ {0}
    BY TableParts, TableAssumption DEF Good
  <2>2. \A a, b \in Nat \ {0} : a * b \in Nat /\ a * b > 0
    OBVIOUS
  <2> QED
    BY <2>1, <2>2
<1>3. -span \in Int /\ ~(-span >= 0) /\ ~AlreadyPassed(-span, sysTime) /\ now - (-span) = now + span
  BY <1>2 DEF AlreadyPassed
<1>4. NextDue(d, t, now) = (now + span) % TimeModulus
  BY DEF NextDue
<1> HIDE DEF span
<1>5. /\ Touches(d, q, t)
      /\ t \notin Linked(q)
      /\ q.Inserted[t]
      /\ q.Period = d.Period
      /\ q.DueTime[t] = (now - (-span)) % TimeModulus
  BY <1>3, DueTimeTouches
<1> HIDE DEF q
<1>6. Good(q)
  BY <1>5 DEF Touches
<1>7. /\ Touches(q, r, t)
      /\ t \in Linked(r)
      /\ r.Inserted = q.Inserted
      /\ r.DueTime = q.DueTime
      /\ r.Period = q.Period
  BY <1>5, <1>6, LinkTouches
<1>8. Touches(d, r, t)
  BY <1>5, <1>7, TouchesTwice
<1> HIDE DEF r
<1> QED
  BY <1>1, <1>3, <1>4, <1>5, <1>7, <1>8

(* A timer that expires is either periodic, linked again and marked so, or neither. *)
LEMMA SignalTouches ==
    ASSUME NEW d, Good(d), NEW t \in Timers, t \notin Linked(d),
           NEW sysTime \in Int, NEW now \in Int
    PROVE  LET r == KiSignalTimer(d, t, sysTime, now)
           IN  /\ Touches(d, r, t)
               /\ r.Inserted[t] <=> t \in Linked(r)
               /\ r.Period = d.Period
               /\ r.Inserted[t] => r.Period[t] # 0 /\ r.DueTime[t] = NextDue(r, t, now)
<1> DEFINE q == [d EXCEPT !.Inserted[t] = FALSE, !.SignalState[t] = TRUE]
           inserted == [d.Inserted EXCEPT ![t] = FALSE]
           signal == [d.SignalState EXCEPT ![t] = TRUE]
           r == KiSignalTimer(d, t, sysTime, now)
<1>1. d \in Tables
  BY DEF Good
<1>2. q = [d EXCEPT !.Inserted = inserted, !.SignalState = signal]
  BY <1>1 DEF Tables
<1>3. /\ inserted \in [Timers -> BOOLEAN] /\ ~inserted[t]
      /\ signal \in [Timers -> BOOLEAN]
      /\ \A u \in Timers : u # t => inserted[u] = d.Inserted[u]
  BY <1>1, TableParts
<1>4. r = IF d.Period[t] = 0 THEN q ELSE Rearm(q, t, sysTime, now)
  BY DEF KiSignalTimer
<1> HIDE DEF inserted, signal
<1>5. /\ q \in Tables /\ q.Entry = d.Entry /\ q.Time = d.Time
      /\ q.Inserted = inserted /\ q.DueTime = d.DueTime /\ q.Period = d.Period
  BY <1>1, <1>2, <1>3 DEF Tables
<1> HIDE DEF q, r
<1>6. Touches(d, q, t) /\ t \notin Linked(q)
  BY <1>3, <1>5, FieldsTouch
<1>7. CASE d.Period[t] = 0
  BY <1>3, <1>4, <1>5, <1>6, <1>7 DEF r
<1>8. CASE d.Period[t] # 0
  <2>1. Good(q) /\ q.Period[t] # 0
    BY <1>5, <1>6, <1>8 DEF Touches
  <2>2. /\ Touches(q, r, t)
        /\ t \in Linked(r)
        /\ r.Inserted[t]
        /\ r.Period = q.Period
        /\ r.DueTime[t] = NextDue(q, t, now)
    BY <1>4, <1>6, <1>8, <2>1, RearmTouches
  <2>3. Touches(d, r, t)
    BY <1>6, <2>2, TouchesTwice
  <2>4. NextDue(q, t, now) = NextDue(r, t, now)
    BY <2>2 DEF NextDue
  <2> QED
    BY <1>5, <2>1, <2>2, <2>3, <2>4 DEF r
<1> QED
  BY <1>7, <1>8

(* KxInsertTimer of a timer that is marked but not linked: afterwards it is linked and   *)
(* marked, or, being due already, neither.                                              *)
LEMMA KxInsertTouches ==
    ASSUME NEW d, Good(d), NEW t \in Timers, t \notin Linked(d), d.Inserted[t],
           NEW sysTime \in Int, NEW now \in Int
    PROVE  LET r == KxInsertTimer(d, t, sysTime, now)
           IN  /\ Touches(d, r, t)
               /\ r.Inserted[t] <=> t \in Linked(r)
               /\ r.Period = d.Period
               /\ \/ r.DueTime[t] = d.DueTime[t]
                  \/ r.Inserted[t] => r.Period[t] # 0 /\ r.DueTime[t] = NextDue(r, t, now)
<1> DEFINE h == KiComputeTimerTableIndex(d.DueTime[t])
           l == KiInsertTimerTable(d, t, h)
           u == KiRemoveEntryTimer(l, t, h)
           s == KiSignalTimer(u, t, sysTime, now)
           r == KxInsertTimer(d, t, sysTime, now)
<1>1. r = IF InsertedExpired(d, t, h, now) THEN s ELSE l
  BY DEF KxInsertTimer
<1>2. /\ Touches(d, l, t)
      /\ t \in Linked(l)
      /\ l.Inserted = d.Inserted
      /\ l.DueTime = d.DueTime
      /\ l.Period = d.Period
  BY LinkTouches
<1>3. h \in Hands /\ h = KiComputeTimerTableIndex(l.DueTime[t])
  BY <1>2, LinkedWhere
<1> HIDE DEF r, l, h
<1>4. Good(l)
  BY <1>2 DEF Touches
<1>5. /\ Touches(l, u, t)
      /\ t \notin Linked(u)
      /\ u.Period = l.Period
  BY <1>3, <1>4, UnlinkTouches
<1> HIDE DEF u
<1>6. Good(u)
  BY <1>5 DEF Touches
<1>7. /\ Touches(u, s, t)
      /\ s.Inserted[t] <=> t \in Linked(s)
      /\ s.Period = u.Period
      /\ s.Inserted[t] => s.Period[t] # 0 /\ s.DueTime[t] = NextDue(s, t, now)
  BY <1>5, <1>6, SignalTouches
<1> HIDE DEF s
<1>8. Touches(d, s, t)
  BY <1>2, <1>5, <1>7, TouchesTwice
<1> QED
  BY <1>1, <1>2, <1>5, <1>7, <1>8 DEF r

(* Where a thread is while it owns KiTimerMtx. *)
Inside == {"insert", "collect", "reinsert", "scan", "dpcs", "routine", "routineInsert"}

LockOK == \A th \in Threads : pc[th] \in Inside <=> TimerLock = th

(* The owner is at one of these places. *)
OwnerAt(places) == TimerLock # NoThread /\ pc[TimerLock] \in places

(* Timers are outside the table only while the owner of the lock moves them, and the     *)
(* timers KeSetSystemTime has taken out for expiry are due.                              *)
TransitOK ==
    /\ setting # NoTimer => OwnerAt({"insert", "routineInsert"})
    /\ absolutes # <<>> => OwnerAt({"collect", "reinsert"})
    /\ expired # <<>> => OwnerAt({"reinsert"})
    /\ IsInjective(absolutes)
    /\ IsInjective(expired)
    /\ ToSet(absolutes) \cap ToSet(expired) = {}
    /\ \A t \in ToSet(expired) : db.DueTime[t] <= KeInterruptTime

(* KiTimerExpiration goes by a time that has been reached. *)
DueByOK == \A e \in Executors : dueBy[e] <= KeInterruptTime

(* A count is used up only while the noted DPC routines are called. *)
CountsOK ==
    activeLeft = 0 \/ scansLeft = 0 => OwnerAt({"dpcs", "routine", "routineInsert"})

IInv ==
    /\ TypeOK
    /\ LockOK
    /\ TransitOK
    /\ DueByOK
    /\ CountsOK
    /\ NoTimerLost
    /\ TableConsistent

-----------------------------------------------------------------------------
(* The lock *)

(* A thread that owns the lock is where pc says, and no other thread owns it. *)
LEMMA Owner ==
    ASSUME TypeOK, LockOK, NEW th \in Threads, pc[th] \in Inside
    PROVE  TimerLock = th /\ th # NoThread /\ \A P : OwnerAt(P) <=> pc[th] \in P
BY TimerAssumption DEF TypeOK, LockOK, OwnerAt, Threads

(* A thread moves: it takes the lock, releases it, or stays inside or outside. *)
LEMMA LockStep ==
    ASSUME TypeOK, LockOK, NEW th \in Threads, NEW l \in Locations, Goto(th, l),
           \/ TimerLock = NoThread /\ TimerLock' = th /\ l \in Inside
           \/ TimerLock = th /\ TimerLock' = NoThread /\ l \notin Inside
           \/ TimerLock' = TimerLock /\ (pc[th] \in Inside <=> l \in Inside)
    PROVE  /\ LockOK'
           /\ pc' \in [Threads -> Locations]
           /\ TimerLock' \in Threads \cup {NoThread}
           /\ pc'[th] = l
           /\ th # NoThread
<1>1. pc \in [Threads -> Locations] /\ TimerLock \in Threads \cup {NoThread}
  BY DEF TypeOK
<1>2. pc' \in [Threads -> Locations] /\ pc'[th] = l
      /\ \A u \in Threads : u # th => pc'[u] = pc[u]
  BY <1>1 DEF Goto
<1>3. NoThread \notin Threads
  BY TimerAssumption DEF Threads
<1>4. \A u \in Threads : pc[u] \in Inside <=> TimerLock = u
  BY DEF LockOK
<1>5. ASSUME NEW u \in Threads PROVE pc'[u] \in Inside <=> TimerLock' = u
  <2>1. pc[u] \in Inside <=> TimerLock = u
    BY <1>4
  <2>2. pc[th] \in Inside <=> TimerLock = th
    BY <1>4
  <2> QED
    BY <1>2, <1>3, <2>1, <2>2
<1> QED
  BY <1>1, <1>2, <1>3, <1>5 DEF LockOK

(* No timer is on its way. *)
NothingOut == setting = NoTimer /\ absolutes = <<>> /\ expired = <<>>

(* Unless the owner of the lock is moving timers, none is on its way. *)
LEMMA NothingOutUnless ==
    ASSUME TransitOK, ~OwnerAt({"insert", "routineInsert", "collect", "reinsert"})
    PROVE  NothingOut
BY DEF TransitOK, OwnerAt, NothingOut

(* The empty list. *)
LEMMA EmptyList == IsInjective(<<>>) /\ ToSet(<<>>) = {}
BY DEF IsInjective, ToSet

(* With no timer on its way there is nothing to say of those that are. *)
LEMMA NothingOutTransit ==
    /\ NothingOut => InTransit = {}
    /\ NothingOut' => TransitOK' /\ InTransit' = {}
BY EmptyList DEF NothingOut, TransitOK, InTransit

-----------------------------------------------------------------------------
(* The timers in and out of the table *)

(* The marked timers are those in d or in X, and none is in both. *)
Exact(d, X) ==
    /\ \A t \in Timers : d.Inserted[t] <=> t \in Linked(d) \cup X
    /\ Linked(d) \cap X = {}

(* Linked timers are timers. *)
LEMMA LinkedTimers ==
    ASSUME NEW d, Good(d)
    PROVE  Linked(d) \subseteq Timers
<1> SUFFICES ASSUME NEW h \in Hands, NEW t \in ToSet(d.Entry[h]) PROVE t \in Timers
  BY DEF Linked
<1>1. d.Entry[h] \in Seq(Timers)
  BY TableParts DEF Good
<1> QED
  BY <1>1 DEF ToSet

(* A change to one timer keeps the books when it does so for that timer. *)
LEMMA ExactStep ==
    ASSUME NEW d, NEW r, NEW t \in Timers, NEW X \in SUBSET Timers, NEW Y \in SUBSET Timers,
           Good(d), Exact(d, X), Touches(d, r, t),
           \A u \in Timers : u # t => (u \in X <=> u \in Y),
           r.Inserted[t] <=> t \in Linked(r) \cup Y,
           ~(t \in Linked(r) /\ t \in Y)
    PROVE  Exact(r, Y)
<1>1. ASSUME NEW u \in Timers, u # t
      PROVE  /\ r.Inserted[u] <=> u \in Linked(r) \cup Y
             /\ ~(u \in Linked(r) /\ u \in Y)
  <2>1. u \in Linked(r) <=> u \in Linked(d)
    BY <1>1, TouchesLinked
  <2>2. r.Inserted[u] = d.Inserted[u]
    BY <1>1 DEF Touches
  <2> QED
    BY <1>1, <2>1, <2>2 DEF Exact
<1>2. Linked(r) \subseteq Timers
  BY LinkedTimers DEF Touches
<1>3. Linked(r) \cap Y = {}
  BY <1>1, <1>2
<1> QED
  BY <1>1, <1>3 DEF Exact

(* What the invariant says of the table, in the terms of the lemmas. *)
LEMMA TableFacts ==
    ASSUME IInv
    PROVE  /\ Good(db)
           /\ Exact(db, InTransit)
           /\ InTransit \subseteq Timers
           /\ KeInterruptTime \in Nat
           /\ KeSystemTime \in Nat
<1>1. db \in Tables /\ KeInterruptTime \in Nat /\ KeSystemTime \in Nat
  BY DEF IInv, TypeOK
<1>2. Good(db)
  BY <1>1, GoodIsConsistent DEF IInv, TableConsistent
<1>3. InTransit \subseteq Timers
  <2>1. setting \in Timers \cup {NoTimer} /\ absolutes \in Seq(Timers) /\ expired \in Seq(Timers)
    BY DEF IInv, TypeOK
  <2> QED
    BY <2>1 DEF InTransit, ToSet
<1> QED
  BY <1>1, <1>2, <1>3 DEF IInv, NoTimerLost, Exact

(* ... and, after a step, back. *)
LEMMA TableFactsNext ==
    ASSUME TypeOK', Good(db'), Exact(db', InTransit')
    PROVE  NoTimerLost' /\ TableConsistent'
<1>1. db' \in Tables
  BY DEF TypeOK
<1>2. InOwnBucket(db') /\ Sorted(db') /\ TimeIsLowerBound(db')
  BY <1>1, GoodIsConsistent
<1> QED
  BY <1>2 DEF NoTimerLost, TableConsistent, Exact

-----------------------------------------------------------------------------
(* The first state *)

(* The empty table is in order and holds no timer. *)
LEMMA EmptyTableGood == Good(EmptyTable) /\ Linked(EmptyTable) = {}
<1>1. EmptyTable \in Tables
  BY Widths DEF EmptyTable, Tables
<1>2. \A h \in Hands : EmptyTable.Entry[h] = <<>> /\ EmptyTable.Time[h] = InfiniteTime
  BY DEF EmptyTable
<1>3. \A h \in Hands : Bucket(EmptyTable.Entry[h], EmptyTable.Time[h], EmptyTable.DueTime, h)
  BY <1>2, EmptyList DEF Bucket
<1> QED
  BY <1>1, <1>2, <1>3, EmptyList DEF Good, Linked

(* The inductive invariant holds when the kernel starts. *)
LEMMA InitIInv == Init => IInv
<1> SUFFICES ASSUME Init PROVE IInv
  OBVIOUS
<1> USE TimerAssumption
<1>1. db \in Tables /\ Good(db) /\ Linked(db) = {}
  BY EmptyTableGood DEF Init, Good
<1>2. KeTickCount \in 0..TickModulus - 1
  <2>1. InitInterruptTime \div CLOCK_TIME_INCREMENT \in Int
    BY TableAssumption
  <2> QED
    BY <2>1 DEF Init
<1>3. TypeOK
  <2>1. /\ pc \in [Threads -> Locations]
        /\ range \in [Executors -> Nat \X Nat]
        /\ dueBy \in [Executors -> Nat]
    BY DEF Init, Locations
  <2>2. /\ ExpireDpc \in Seq(Nat) /\ Len(ExpireDpc) \in {0, 2}
        /\ absolutes \in Seq(Timers) /\ expired \in Seq(Timers) /\ dpcCalls \in Seq(Timers)
    BY DEF Init
  <2>3. /\ KeInterruptTime \in Nat /\ KeSystemTime \in Nat /\ elapsed \in Nat /\ tick \in Nat
        /\ delta \in Int
        /\ activeLeft \in 0..MaxActiveTimers /\ scansLeft \in 0..MaxScans
    BY DEF Init
  <2>4. KeSystemTimeChanged \in BOOLEAN
    BY DEF Init
  <2>5. TimerLock \in Threads \cup {NoThread} /\ setting \in Timers \cup {NoTimer}
    BY DEF Init
  <2> QED
    BY <1>1, <1>2, <2>1, <2>2, <2>3, <2>4, <2>5 DEF TypeOK
<1>4. LockOK
  BY DEF Init, LockOK, Inside, Threads
<1>5. NothingOut /\ InTransit = {}
  BY NothingOutTransit DEF Init, NothingOut
<1>6. TransitOK
  BY <1>5, EmptyList DEF TransitOK, NothingOut
<1>7. DueByOK /\ CountsOK
  BY DEF Init, DueByOK, CountsOK
<1>8. NoTimerLost
  <2>1. \A t \in Timers : ~db.Inserted[t]
    BY DEF Init, EmptyTable
  <2> QED
    BY <1>1, <1>5, <2>1 DEF NoTimerLost
<1>9. TableConsistent
  BY <1>1, GoodIsConsistent DEF TableConsistent
<1> QED
  BY <1>3, <1>4, <1>6, <1>7, <1>8, <1>9 DEF IInv

-----------------------------------------------------------------------------
(* Steps that leave the table and the lock alone *)

(* A thread that is outside and stays there, while interrupt time does not go back. *)
LEMMA OutsideStep ==
    ASSUME IInv, TypeOK', LockOK', DueByOK',
           UNCHANGED <<db, TimerLock, setting, absolutes, expired, activeLeft, scansLeft>>,
           KeInterruptTime <= KeInterruptTime',
           TimerLock # NoThread => pc'[TimerLock] = pc[TimerLock]
    PROVE  IInv'
<1>1. \A P : OwnerAt(P)' <=> OwnerAt(P)
  BY DEF OwnerAt
<1>2. /\ setting' = setting /\ absolutes' = absolutes /\ expired' = expired /\ db' = db
      /\ TimerLock' = TimerLock /\ activeLeft' = activeLeft /\ scansLeft' = scansLeft
  OBVIOUS
<1>3. TransitOK'
  <2>1. \A t \in ToSet(expired) : db.DueTime[t] <= KeInterruptTime'
    <3>1. \A t \in ToSet(expired) : t \in Timers
      BY DEF IInv, TypeOK, ToSet
    <3>2. \A t \in ToSet(expired) : db.DueTime[t] \in Nat
      BY <3>1, TableFacts, TableParts, Widths DEF Good
    <3>3. KeInterruptTime \in Nat /\ KeInterruptTime' \in Nat
      BY DEF IInv, TypeOK
    <3> QED
      BY <3>2, <3>3 DEF IInv, TransitOK
  <2> QED
    BY <1>2, <2>1 DEF IInv, TransitOK, OwnerAt
<1>4. CountsOK'
  BY <1>2 DEF IInv, CountsOK, OwnerAt
<1>5. NoTimerLost'
  BY <1>2 DEF IInv, NoTimerLost, InTransit
<1>6. TableConsistent'
  BY <1>2 DEF IInv, TableConsistent
<1> QED
  BY <1>3, <1>4, <1>5, <1>6 DEF IInv

(* The host announces a change of its clock. *)
LEMMA HostTimeChangesIInv == IInv /\ HostTimeChanges => IInv'
<1> SUFFICES ASSUME IInv, HostTimeChanges PROVE IInv'
  OBVIOUS
<1> USE DEF HostTimeChanges, expiration, settingTime
<1>1. TypeOK'
  BY DEF IInv, TypeOK
<1>2. LockOK' /\ DueByOK'
  BY DEF IInv, LockOK, DueByOK
<1>3. KeInterruptTime <= KeInterruptTime'
  BY DEF IInv, TypeOK
<1> QED
  BY <1>1, <1>2, <1>3, OutsideStep

(* Interrupt time advances, whether or not the system time is the host's. *)
LEMMA ClockAdvancesIInv ==
    ASSUME NEW ticks \in ElapsedTicks, NEW host \in SystemTimes \cup {KeSystemTime},
           IInv, AdvanceClocks(ticks) \/ TakeHostTime(ticks, host)
    PROVE  IInv'
<1> USE DEF AdvanceClocks, TakeHostTime, expiration, settingTime
<1>1. PICK l \in {"check", "setTime"} : Goto(Clock, l) /\ pc[Clock] = "idle"
  OBVIOUS
<1>2. LockOK' /\ pc' \in [Threads -> Locations] /\ pc'[Clock] = l
  <2>1. Clock \in Threads /\ l \in Locations /\ TimerLock' = TimerLock
        /\ l \notin Inside /\ pc[Clock] \notin Inside
    BY <1>1 DEF Threads, Locations, Inside
  <2> QED
    BY <1>1, <2>1, LockStep DEF IInv
<1>3. ticks * CLOCK_TIME_INCREMENT \in Nat /\ ticks \in Nat /\ host \in Nat
  BY TimerAssumption, TableAssumption DEF IInv, TypeOK
<1>4. /\ KeInterruptTime' \in Nat /\ KeInterruptTime <= KeInterruptTime'
      /\ KeSystemTime' \in Nat
  BY <1>3, SMTT(30) DEF IInv, TypeOK
<1>5. TypeOK'
  BY <1>2, <1>3, <1>4 DEF IInv, TypeOK
<1>6. DueByOK'
  BY <1>4 DEF IInv, TypeOK, DueByOK
<1>7. TimerLock # NoThread => pc'[TimerLock] = pc[TimerLock]
  <2>1. TimerLock # Clock
    BY <1>1 DEF IInv, LockOK, Inside, Threads
  <2> QED
    BY <1>1, <2>1 DEF IInv, TypeOK, Goto
<1> QED
  BY <1>2, <1>4, <1>5, <1>6, <1>7, OutsideStep

(* The tick range is a pair of tick counts. *)
LEMMA TickRangeType ==
    ASSUME TypeOK
    PROVE  TickRange \in Seq(Nat) /\ Len(TickRange) = 2
<1>1. KeTickCount \in Nat /\ elapsed \in Nat /\ TickModulus \in Nat \ {0}
      /\ TIMER_TABLE_SIZE \in Nat \ {0}
  BY TimerAssumption, TableAssumption DEF TypeOK
<1>2. \A x \in Nat : x % TickModulus \in Nat
  BY <1>1
<1>3. (KeTickCount + elapsed) % TickModulus \in Nat
      /\ (KeTickCount + TIMER_TABLE_SIZE) % TickModulus \in Nat
  BY <1>1, <1>2
<1>4. \E x \in Nat, y \in Nat : TickRange = <<x, y>>
  BY <1>1, <1>3 DEF TickRange
<1> QED
  BY <1>4

(* The clock interrupt counts its ticks and looks at the buckets, or skips them. *)
LEMMA CheckTimersIInv ==
    ASSUME IInv, CheckTimers \/ SkipCheck
    PROVE  IInv'
<1> USE DEF CheckTimers, SkipCheck, expiration, settingTime
<1>1. Goto(Clock, "idle") /\ pc[Clock] = "check"
  OBVIOUS
<1>2. LockOK' /\ pc' \in [Threads -> Locations]
  <2>1. Clock \in Threads /\ "idle" \in Locations /\ TimerLock' = TimerLock
        /\ "idle" \notin Inside /\ pc[Clock] \notin Inside
    BY <1>1 DEF Threads, Locations, Inside
  <2> QED
    BY <1>1, <2>1, LockStep DEF IInv
<1>3. ExpireDpc' \in Seq(Nat) /\ Len(ExpireDpc') \in {0, 2}
  BY TickRangeType DEF IInv, TypeOK
<1>4. KeTickCount' \in 0..TickModulus - 1
  BY TimerAssumption DEF IInv, TypeOK
<1>5. TypeOK'
  BY <1>2, <1>3, <1>4, SMTT(30) DEF IInv, TypeOK
<1>6. DueByOK' /\ KeInterruptTime <= KeInterruptTime'
  BY DEF IInv, TypeOK, DueByOK
<1>7. TimerLock # NoThread => pc'[TimerLock] = pc[TimerLock]
  <2>1. TimerLock # Clock
    BY <1>1 DEF IInv, LockOK, Inside, Threads
  <2> QED
    BY <1>1, <2>1 DEF IInv, TypeOK, Goto
<1> QED
  BY <1>2, <1>5, <1>6, <1>7, OutsideStep

(* The expiration DPC is taken off the queue. *)
LEMMA StartExpirationIInv ==
    ASSUME NEW e \in Executors, IInv, StartExpiration(e)
    PROVE  IInv'
<1> USE DEF StartExpiration, clocks, settingTime
<1>1. e \in Threads /\ "expire" \in Locations /\ TimerLock' = TimerLock
      /\ "expire" \notin Inside /\ pc[e] \notin Inside
  BY DEF Threads, Locations, Inside
<1>2. LockOK' /\ pc' \in [Threads -> Locations]
  BY <1>1, LockStep DEF IInv
<1>3. ExpireDpc \in Nat \X Nat
  <2>1. ExpireDpc \in Seq(Nat) /\ Len(ExpireDpc) = 2
    BY EmptySeq DEF IInv, TypeOK
  <2>2. ExpireDpc[1] \in Nat /\ ExpireDpc[2] \in Nat
    BY <2>1, SMTT(30)
  <2> DEFINE p == <<ExpireDpc[1], ExpireDpc[2]>>
  <2>3. p \in Seq(Nat) /\ Len(p) = 2 /\ \A i \in 1..2 : p[i] = ExpireDpc[i]
    BY <2>2
  <2>4. ExpireDpc = p
    BY <2>1, <2>3, SeqEqual
  <2> QED
    BY <2>2, <2>4
<1>4. range' \in [Executors -> Nat \X Nat]
  BY <1>3 DEF IInv, TypeOK
<1>5. dueBy' \in [Executors -> Nat] /\ DueByOK'
  BY DEF IInv, TypeOK, DueByOK
<1>6. ExpireDpc' \in Seq(Nat) /\ Len(ExpireDpc') = 0
  OBVIOUS
<1>7. TypeOK'
  BY <1>2, <1>4, <1>5, <1>6 DEF IInv, TypeOK
<1>8. KeInterruptTime <= KeInterruptTime'
  BY DEF IInv, TypeOK
<1>9. TimerLock # NoThread => pc'[TimerLock] = pc[TimerLock]
  <2>1. TimerLock # e
    BY <1>1 DEF IInv, LockOK
  <2> QED
    BY <1>1, <2>1 DEF IInv, TypeOK, Goto
<1> QED
  BY <1>2, <1>5, <1>7, <1>8, <1>9, OutsideStep


-----------------------------------------------------------------------------
(* Steps that take, keep or release the lock and leave the table alone *)

(* The parts of the invariant put together again. *)
LEMMA Reassemble ==
    ASSUME TypeOK', LockOK', DueByOK', CountsOK', TransitOK', Good(db'), Exact(db', InTransit')
    PROVE  IInv'
BY TableFactsNext DEF IInv

(* ... when no timer is on its way after the step. *)
LEMMA ReassembleQuiet ==
    ASSUME TypeOK', LockOK', DueByOK', CountsOK', NothingOut', Good(db'), Exact(db', {})
    PROVE  IInv'
BY NothingOutTransit, Reassemble

(* ... and neither before it, in a table that is the same. *)
LEMMA ReassembleSame ==
    ASSUME IInv, TypeOK', LockOK', DueByOK', CountsOK', NothingOut, NothingOut', db' = db
    PROVE  IInv'
<1>1. Good(db') /\ Exact(db', {})
  BY TableFacts, NothingOutTransit
<1> QED
  BY <1>1, ReassembleQuiet

(* The owner of the lock is not moving timers: nothing is on its way; and outside the     *)
(* calls of DPC routines no count is used up.                                            *)
LEMMA OwnerFacts ==
    ASSUME IInv, NEW th \in Threads, pc[th] \in Inside
    PROVE  /\ TimerLock = th
           /\ pc[th] \in {"scan", "dpcs", "routine"} => NothingOut
           /\ pc[th] \notin {"dpcs", "routine", "routineInsert"} => activeLeft # 0 /\ scansLeft # 0
<1>1. TimerLock = th /\ \A P : OwnerAt(P) <=> pc[th] \in P
  BY Owner DEF IInv
<1>2. pc[th] \in {"scan", "dpcs", "routine"} =>
         ~OwnerAt({"insert", "routineInsert", "collect", "reinsert"})
  BY <1>1
<1> QED
  BY <1>1, <1>2, NothingOutUnless DEF IInv, CountsOK

(* The lock is free: nothing is on its way and no count is used up. *)
LEMMA FreeFacts ==
    ASSUME IInv, TimerLock = NoThread
    PROVE  NothingOut /\ activeLeft # 0 /\ scansLeft # 0
BY NothingOutUnless DEF IInv, CountsOK, OwnerAt

(* KeSetSystemTime takes the lock. *)
LEMMA KeSetSystemTimeIInv ==
    ASSUME NEW th \in Threads, NEW newTime \in Nat, IInv, pc[th] \in {"idle", "setTime"},
           KeSetSystemTime(th, newTime)
    PROVE  IInv'
<1> USE DEF KeSetSystemTime, Acquire, clocks, expiration
<1>1. NothingOut /\ activeLeft # 0 /\ scansLeft # 0
  BY FreeFacts
<1>2. /\ LockOK'
      /\ pc' \in [Threads -> Locations]
      /\ TimerLock' \in Threads \cup {NoThread}
  <2>1. "collect" \in Locations /\ "collect" \in Inside
    BY DEF Locations, Inside
  <2> QED
    BY <2>1, LockStep DEF IInv
<1>3. TypeOK'
  BY <1>2 DEF IInv, TypeOK
<1>4. DueByOK' /\ CountsOK' /\ NothingOut'
  BY <1>1 DEF IInv, DueByOK, CountsOK, NothingOut
<1> QED
  BY <1>1, <1>2, <1>3, <1>4, ReassembleSame

(* All absolute timers are collected. *)
LEMMA CollectDoneIInv ==
    ASSUME NEW th \in Threads, IInv, CollectDone(th)
    PROVE  IInv'
<1> USE DEF CollectDone, clocks, expiration, settingTime
<1>1. pc[th] \in Inside /\ "reinsert" \in Locations /\ "reinsert" \in Inside
  BY DEF Inside, Locations
<1>2. TimerLock = th /\ activeLeft # 0 /\ scansLeft # 0
  BY <1>1, OwnerFacts
<1>3. LockOK' /\ pc' \in [Threads -> Locations] /\ pc'[th] = "reinsert" /\ th # NoThread
  BY <1>1, LockStep DEF IInv
<1>4. TypeOK'
  BY <1>3 DEF IInv, TypeOK
<1>5. DueByOK' /\ CountsOK'
  BY <1>2 DEF IInv, DueByOK, CountsOK
<1>6. setting = NoTimer /\ expired = <<>>
  BY <1>2 DEF IInv, TransitOK, OwnerAt
<1>7. TransitOK'
  BY <1>2, <1>3, <1>6 DEF IInv, TransitOK, OwnerAt
<1>8. Good(db') /\ Exact(db', InTransit')
  <2>1. InTransit' = InTransit /\ db' = db
    BY DEF InTransit
  <2> QED
    BY <2>1, TableFacts
<1> QED
  BY <1>3, <1>4, <1>5, <1>7, <1>8, Reassemble

(* KeSetSystemTime releases the lock. *)
LEMMA SystemTimeSetIInv ==
    ASSUME NEW th \in Threads, IInv, SystemTimeSet(th)
    PROVE  IInv'
<1> USE DEF SystemTimeSet, Release, clocks, expiration
<1>1. PICK l \in {"check", "idle"} : Goto(th, l)
  OBVIOUS
<1>2. l \in Locations /\ l \notin Inside /\ pc[th] \in Inside
  BY <1>1 DEF Inside, Locations
<1>3. activeLeft # 0 /\ scansLeft # 0
  BY <1>2, OwnerFacts
<1>4. /\ LockOK'
      /\ pc' \in [Threads -> Locations]
      /\ TimerLock' \in Threads \cup {NoThread}
      /\ th # NoThread
  BY <1>1, <1>2, LockStep DEF IInv
<1>5. TypeOK'
  BY <1>4 DEF IInv, TypeOK
<1>6. DueByOK' /\ CountsOK'
  BY <1>3 DEF IInv, DueByOK, CountsOK
<1>7. NothingOut /\ NothingOut'
  BY <1>4 DEF IInv, TransitOK, OwnerAt, NothingOut
<1> QED
  BY <1>4, <1>5, <1>6, <1>7, ReassembleSame

(* KiTimerExpiration takes the lock. *)
LEMMA BeginScanIInv ==
    ASSUME NEW e \in Executors, IInv, BeginScan(e)
    PROVE  IInv'
<1> USE DEF BeginScan, Acquire, clocks, settingTime
<1>1. NothingOut /\ activeLeft # 0 /\ scansLeft # 0
  BY FreeFacts
<1>2. /\ LockOK'
      /\ pc' \in [Threads -> Locations]
      /\ TimerLock' \in Threads \cup {NoThread}
  <2>1. "scan" \in Locations /\ "scan" \in Inside /\ e \in Threads
    BY DEF Locations, Inside, Threads
  <2> QED
    BY <2>1, LockStep DEF IInv
<1>3. tick' \in Nat
  BY DEF IInv, TypeOK
<1>4. TypeOK'
  BY <1>2, <1>3 DEF IInv, TypeOK
<1>5. DueByOK' /\ CountsOK' /\ NothingOut'
  BY <1>1 DEF IInv, DueByOK, CountsOK, NothingOut
<1> QED
  BY <1>1, <1>2, <1>4, <1>5, ReassembleSame

(* Steps of KiTimerExpiration between buckets and DPC routines. *)
LEMMA ScanStepIInv ==
    ASSUME NEW e \in Executors, IInv,
           EmptyBucket(e) \/ CallTimerDpc(e) \/ TimerDpcReturns(e) \/ ResetAccounting(e)
    PROVE  IInv'
<1> USE DEF EmptyBucket, CallTimerDpc, TimerDpcReturns, ResetAccounting, clocks, expiration,
            settingTime
<1>1. PICK l \in {"scan", "dpcs", "routine"} : pc' = [pc EXCEPT ![e] = l]
  <2>1. CASE EmptyBucket(e)
    <3>1. pc' = [pc EXCEPT ![e] = "scan"]
      BY <2>1 DEF IInv, TypeOK
    <3> QED
      BY <3>1
  <2> QED
    BY <2>1 DEF Goto
<1>2. e \in Threads /\ pc[e] \in Inside /\ pc[e] \in {"scan", "dpcs", "routine"}
      /\ l \in Locations /\ l \in Inside
  BY DEF Threads, Inside, Locations
<1>3. TimerLock = e /\ NothingOut
  BY <1>2, OwnerFacts
<1>4. LockOK' /\ pc' \in [Threads -> Locations] /\ pc'[e] = l /\ e # NoThread
  BY <1>1, <1>2, LockStep DEF IInv, Goto
<1>5. dpcCalls' \in Seq(Timers) /\ tick' \in Nat
      /\ activeLeft' \in 0..MaxActiveTimers /\ scansLeft' \in 0..MaxScans
  <2>1. dpcCalls # <<>> => Tail(dpcCalls) \in Seq(Timers)
    BY HeadTailProperties DEF IInv, TypeOK
  <2>2. dpcCalls' = dpcCalls \/ (dpcCalls # <<>> /\ dpcCalls' = Tail(dpcCalls))
    OBVIOUS
  <2>3. tick' = tick \/ tick' = tick + 1
    OBVIOUS
  <2>4. \/ activeLeft' = activeLeft /\ scansLeft' = scansLeft
        \/ activeLeft' = MaxActiveTimers /\ scansLeft' = MaxScans
    OBVIOUS
  <2>5. dpcCalls' \in Seq(Timers)
    BY <2>1, <2>2 DEF IInv, TypeOK
  <2>6. tick' \in Nat /\ activeLeft' \in 0..MaxActiveTimers /\ scansLeft' \in 0..MaxScans
    <3>1. tick \in Nat /\ activeLeft \in 0..MaxActiveTimers /\ scansLeft \in 0..MaxScans
      BY DEF IInv, TypeOK
    <3>2. MaxActiveTimers \in Nat /\ MaxScans \in Nat
      BY TimerAssumption
    <3>3. tick' \in Nat
      BY <2>3, <3>1
    <3>4. activeLeft' \in 0..MaxActiveTimers /\ scansLeft' \in 0..MaxScans
      BY <2>4, <3>1, <3>2
    <3> QED
      BY <3>3, <3>4
  <2> QED
    BY <2>5, <2>6
<1>6. TypeOK'
  BY <1>4, <1>5 DEF IInv, TypeOK
<1>7. CountsOK'
  <2>1. CASE EmptyBucket(e)
    BY <2>1 DEF IInv, CountsOK, OwnerAt
  <2>2. CASE CallTimerDpc(e) \/ TimerDpcReturns(e)
    BY <1>3, <1>4, <2>2 DEF CountsOK, OwnerAt, Goto, IInv, TypeOK
  <2>3. CASE ResetAccounting(e)
    BY <2>3, TimerAssumption DEF CountsOK
  <2> QED
    BY <2>1, <2>2, <2>3
<1>8. DueByOK' /\ NothingOut' /\ db' = db
  BY <1>3 DEF IInv, DueByOK, NothingOut
<1> QED
  BY <1>3, <1>4, <1>6, <1>7, <1>8, ReassembleSame

(* KiTimerExpiration has reached the end of its range. *)
LEMMA EndScanIInv ==
    ASSUME NEW e \in Executors, IInv, EndScan(e)
    PROVE  IInv'
<1> USE DEF EndScan, clocks, expiration, settingTime
<1>1. e \in Threads /\ pc[e] \in Inside /\ pc[e] \in {"scan", "dpcs", "routine"}
  BY DEF Threads, Inside
<1>2. TimerLock = e /\ NothingOut
  BY <1>1, OwnerFacts
<1>3. NothingOut' /\ db' = db
  BY <1>2 DEF NothingOut
<1>4. CASE dpcCalls # <<>>
  <2>1. Goto(e, "dpcs") /\ UNCHANGED <<TimerLock, expiration>>
    BY <1>4
  <2>2. "dpcs" \in Locations /\ "dpcs" \in Inside
    BY DEF Locations, Inside
  <2>3. LockOK' /\ pc' \in [Threads -> Locations] /\ pc'[e] = "dpcs" /\ e # NoThread
    BY <1>1, <2>1, <2>2, LockStep DEF IInv
  <2>4. TypeOK'
    BY <2>1, <2>3 DEF IInv, TypeOK
  <2>5. DueByOK' /\ CountsOK'
    BY <1>2, <2>1, <2>3 DEF IInv, DueByOK, CountsOK, OwnerAt
  <2> QED
    BY <1>2, <1>3, <2>3, <2>4, <2>5, ReassembleSame
<1>5. CASE dpcCalls = <<>>
  <2>1. Goto(e, "idle") /\ TimerLock' = NoThread
    BY <1>5 DEF Release
  <2>2. "idle" \in Locations /\ "idle" \notin Inside
    BY DEF Locations, Inside
  <2>3. LockOK' /\ pc' \in [Threads -> Locations] /\ TimerLock' \in Threads \cup {NoThread}
    BY <1>1, <1>2, <2>1, <2>2, LockStep DEF IInv
  <2>4. /\ range' \in [Executors -> Nat \X Nat]
        /\ dueBy' \in [Executors -> Nat]
        /\ tick' \in Nat /\ dpcCalls' = dpcCalls
        /\ activeLeft' = MaxActiveTimers /\ scansLeft' = MaxScans
    <3>1. range \in [Executors -> Nat \X Nat] /\ dueBy \in [Executors -> Nat]
      BY DEF IInv, TypeOK
    <3>2. <<0, 0>> \in Nat \X Nat
      OBVIOUS
    <3>3. /\ range' = [range EXCEPT ![e] = <<0, 0>>]
          /\ dueBy' = [dueBy EXCEPT ![e] = 0]
          /\ tick' = 0 /\ dpcCalls' = dpcCalls
          /\ activeLeft' = MaxActiveTimers /\ scansLeft' = MaxScans
      BY <1>5
    <3> QED
      BY <3>1, <3>2, <3>3
  <2>5. TypeOK'
    BY <2>3, <2>4, TimerAssumption DEF IInv, TypeOK
  <2>6. CountsOK'
    BY <2>4, TimerAssumption DEF CountsOK
  <2>7. DueByOK'
    <3>1. dueBy' = [dueBy EXCEPT ![e] = 0] /\ KeInterruptTime' = KeInterruptTime
      BY <1>5
    <3> QED
      BY <3>1 DEF IInv, TypeOK, DueByOK
  <2> QED
    BY <1>2, <1>3, <2>3, <2>5, <2>6, <2>7, ReassembleSame
<1> QED
  BY <1>4, <1>5


-----------------------------------------------------------------------------
(* What the steps that change the table do to it *)

(* The due time KiComputeDueTime gives a timer whose time has not come. *)
DueAt(due) == (KeInterruptTime - (IF due >= 0 THEN KeSystemTime - due ELSE due)) % TimeModulus

(* KeSetTimerEx up to the insertion: the timer is out of the table and marked, or, its     *)
(* time having passed, has expired.                                                       *)
LEMMA PreparedTouches ==
    ASSUME IInv, NothingOut, NEW t \in Timers, NEW s \in Settings
    PROVE  LET r == Prepared(t, s.due, s.period, s.dpc)
               passed == AlreadyPassed(s.due, KeSystemTime)
           IN  /\ Touches(db, r, t)
               /\ r.Period[t] = s.period
               /\ passed =>
                     /\ r.Inserted[t] <=> t \in Linked(r)
                     /\ r.Inserted[t] =>
                           r.Period[t] # 0 /\ r.DueTime[t] = NextDue(r, t, KeInterruptTime)
               /\ ~passed =>
                     r.Inserted[t] /\ t \notin Linked(r) /\ r.DueTime[t] = DueAt(s.due)
<1> DEFINE passed == AlreadyPassed(s.due, KeSystemTime)
           rem == IF db.Inserted[t] THEN KxRemoveTreeTimer(db, t) ELSE db
           set == [rem EXCEPT !.Period[t] = s.period, !.Dpc[t] = s.dpc]
           com == KiComputeDueTime(set, t, s.due, KeSystemTime, KeInterruptTime)
           sig == KiSignalTimer(com, t, KeSystemTime, KeInterruptTime)
           cleared == [com EXCEPT !.SignalState[t] = FALSE]
           r == Prepared(t, s.due, s.period, s.dpc)
<1>1. r = IF passed THEN sig ELSE cleared
  BY DEF Prepared
<1>2. s.due \in Int /\ s.period \in Nat /\ s.dpc \in BOOLEAN
  BY TimerAssumption
<1>3. Good(db) /\ Exact(db, {}) /\ KeInterruptTime \in Int /\ KeSystemTime \in Int
  BY TableFacts, NothingOutTransit
<1> HIDE DEF r, passed
<1>4. Touches(db, rem, t) /\ t \notin Linked(rem) /\ ~rem.Inserted[t]
  <2>1. CASE db.Inserted[t]
    BY <1>3, <2>1, KxRemoveTouches
  <2>2. CASE ~db.Inserted[t]
    BY <1>3, <2>2 DEF Exact, Touches
  <2> QED
    BY <2>1, <2>2
<1> HIDE DEF rem
<1>5. rem \in Tables /\ Good(rem)
  BY <1>4 DEF Touches, Good
<1>6. /\ set \in Tables /\ set.Entry = rem.Entry /\ set.Time = rem.Time
      /\ set.Inserted = rem.Inserted /\ set.DueTime = rem.DueTime
      /\ set.Period = [rem.Period EXCEPT ![t] = s.period]
  <2> DEFINE period == [rem.Period EXCEPT ![t] = s.period]
             dpc == [rem.Dpc EXCEPT ![t] = s.dpc]
  <2>1. set = [rem EXCEPT !.Period = period, !.Dpc = dpc]
    BY <1>5 DEF Tables
  <2>2. period \in [Timers -> Nat] /\ dpc \in [Timers -> BOOLEAN]
    BY <1>2, <1>5, TableParts
  <2> HIDE DEF period, dpc
  <2>3. /\ set \in Tables /\ set.Entry = rem.Entry /\ set.Time = rem.Time
        /\ set.Inserted = rem.Inserted /\ set.DueTime = rem.DueTime
        /\ set.Period = period
    BY <1>5, <2>1, <2>2 DEF Tables
  <2> QED
    BY <2>3 DEF period
<1> HIDE DEF set
<1>7. set.Period[t] = s.period /\ \A u \in Timers : u # t => set.Period[u] = rem.Period[u]
  BY <1>5, <1>6, TableParts
<1>8. Touches(rem, set, t) /\ t \notin Linked(set) /\ Good(set)
  <2>1. Touches(rem, set, t) /\ t \notin Linked(set)
    BY <1>4, <1>5, <1>6, <1>7, FieldsTouch, ZenonT(60)
  <2> QED
    BY <2>1 DEF Touches
<1>9. /\ Touches(set, com, t)
      /\ t \notin Linked(com)
      /\ com.Inserted[t] <=> ~passed
      /\ com.Period = set.Period
      /\ com.DueTime[t] = IF passed THEN 0 ELSE DueAt(s.due)
  <2>1. com.Inserted[t] <=> set.Inserted[t] \/ ~passed
    BY <1>2, <1>3, <1>8, DueTimeTouches DEF passed
  <2>2. Touches(set, com, t) /\ t \notin Linked(com) /\ com.Period = set.Period
    BY <1>2, <1>3, <1>8, DueTimeTouches
  <2>3. com.DueTime[t] = IF passed THEN 0 ELSE DueAt(s.due)
    BY <1>2, <1>3, <1>8, DueTimeTouches DEF DueAt, passed
  <2> QED
    BY <1>4, <1>6, <2>1, <2>2, <2>3
<1> HIDE DEF com
<1>10. Touches(db, com, t) /\ Good(com) /\ com \in Tables
  BY <1>4, <1>8, <1>9, TouchesTwice DEF Touches, Good
<1>11. CASE passed
  <2>1. /\ Touches(com, sig, t)
        /\ sig.Inserted[t] <=> t \in Linked(sig)
        /\ sig.Period = com.Period
        /\ sig.Inserted[t] =>
              sig.Period[t] # 0 /\ sig.DueTime[t] = NextDue(sig, t, KeInterruptTime)
    <3>1. Good(com) /\ t \notin Linked(com) /\ KeInterruptTime \in Int /\ KeSystemTime \in Int
      BY <1>3, <1>9, <1>10
    <3> QED
      BY <3>1, SignalTouches
  <2>2. Touches(db, sig, t)
    BY <1>10, <2>1, TouchesTwice
  <2> HIDE DEF sig
  <2>3. r = sig
    BY <1>1, <1>11
  <2> QED
    BY <1>7, <1>9, <1>11, <2>1, <2>2, <2>3 DEF r, passed
<1>12. CASE ~passed
  <2>1. /\ cleared \in Tables /\ cleared.Entry = com.Entry /\ cleared.Time = com.Time
        /\ cleared.Inserted = com.Inserted /\ cleared.DueTime = com.DueTime
        /\ cleared.Period = com.Period
    BY <1>10 DEF Tables
  <2> HIDE DEF cleared
  <2>2. Touches(com, cleared, t) /\ t \notin Linked(cleared)
    BY <1>9, <1>10, <2>1, FieldsTouch
  <2>3. Touches(db, cleared, t)
    BY <1>10, <2>2, TouchesTwice
  <2>4. r = cleared
    BY <1>1, <1>12
  <2> QED
    BY <1>7, <1>9, <1>12, <2>1, <2>2, <2>3, <2>4 DEF r, passed
<1> QED
  BY <1>11, <1>12

(* KiTimerExpiration's bucket. *)
LEMMA HandIn == TypeOK => Hand \in Hands
BY TableAssumption DEF TypeOK, Hand, Hands

(* KiTimerExpiration expires the first timer of its bucket, which is due. *)
LEMMA ExpireHeadTouches ==
    ASSUME IInv, NEW e \in Executors, ExpireHead(e)
    PROVE  \E t \in Timers :
              /\ Touches(db, db', t)
              /\ db.DueTime[t] <= dueBy[e]
              /\ db'.Inserted[t] <=> t \in Linked(db')
              /\ db'.Period = db.Period
              /\ db'.Inserted[t] =>
                    db'.Period[t] # 0 /\ db'.DueTime[t] = NextDue(db', t, KeInterruptTime)
<1> DEFINE h == Hand
           t == Head(db.Entry[h])
           u == KiRemoveEntryTimer(db, t, h)
<1>1. h \in Hands /\ Good(db) /\ db \in Tables /\ KeInterruptTime \in Int /\ KeSystemTime \in Int
  BY HandIn, TableFacts DEF IInv, TypeOK
<1>2. db.Entry[h] \in Seq(Timers) /\ db.Entry[h] # <<>>
  BY <1>1, TableParts DEF ExpireHead
<1>3. t \in Timers /\ t \in ToSet(db.Entry[h])
  BY <1>2, EmptySeq DEF ToSet
<1>4. h = KiComputeTimerTableIndex(db.DueTime[t])
  BY <1>1, <1>3, LinkedWhere
<1>5. /\ db.DueTime[t] <= dueBy[e]
      /\ db' = KiSignalTimer(u, t, KeSystemTime, KeInterruptTime)
  BY DEF ExpireHead
<1> HIDE DEF t, h
<1>6. Touches(db, u, t) /\ t \notin Linked(u) /\ u.Period = db.Period
  BY <1>1, <1>3, <1>4, UnlinkTouches
<1> HIDE DEF u
<1>7. /\ Touches(u, db', t)
      /\ db'.Inserted[t] <=> t \in Linked(db')
      /\ db'.Period = u.Period
      /\ db'.Inserted[t] =>
            db'.Period[t] # 0 /\ db'.DueTime[t] = NextDue(db', t, KeInterruptTime)
  <2>1. Good(u)
    BY <1>6 DEF Touches
  <2> QED
    BY <1>1, <1>3, <1>5, <1>6, <2>1, SignalTouches
<1>8. Touches(db, db', t)
  BY <1>6, <1>7, TouchesTwice
<1> QED
  BY <1>3, <1>5, <1>6, <1>7, <1>8

(* KiTimerExpiration brings a bucket's time up to its first timer and changes nothing else. *)
LEMMA LeaveBucketTable ==
    ASSUME IInv, NEW e \in Executors, LeaveBucket(e)
    PROVE  /\ Good(db')
           /\ db'.Entry = db.Entry
           /\ db'.Inserted = db.Inserted
           /\ db'.DueTime = db.DueTime
           /\ db'.Period = db.Period
           /\ Linked(db') = Linked(db)
<1> DEFINE h == Hand
           t == Head(db.Entry[h])
           time == [db.Time EXCEPT ![h] = db.DueTime[t]]
<1>1. h \in Hands /\ Good(db) /\ db \in Tables
  BY HandIn, TableFacts DEF IInv, TypeOK
<1>2. db.Entry[h] \in Seq(Timers) /\ db.Entry[h] # <<>>
  BY <1>1, TableParts DEF LeaveBucket
<1>3. t \in Timers
  BY <1>2
<1>4. db' = [db EXCEPT !.Time = time]
  BY <1>1 DEF LeaveBucket, Tables
<1>5. db.DueTime[t] \in Times /\ db.DueTime[t] \in Nat
  BY <1>1, <1>3, TableParts, Widths
<1>6. time \in [Hands -> Times]
  BY <1>1, <1>5, TableParts
<1>7. \A g \in Hands : time[g] = IF g = h THEN db.DueTime[t] ELSE db.Time[g]
  BY <1>1, TableParts
<1> HIDE DEF time
<1>8. /\ db' \in Tables /\ db'.Entry = db.Entry /\ db'.Time = time
      /\ db'.Inserted = db.Inserted /\ db'.DueTime = db.DueTime /\ db'.Period = db.Period
  BY <1>1, <1>4, <1>6 DEF Tables
<1>9. \A g \in Hands : Bucket(db'.Entry[g], db'.Time[g], db'.DueTime, g)
  <2> TAKE g \in Hands
  <2>1. Bucket(db.Entry[g], db.Time[g], db.DueTime, g)
    BY <1>1 DEF Good
  <2>2. CASE g = h
    <3>1. time[g] = db.DueTime[Head(db.Entry[g])] /\ db.Entry[g] # <<>>
      BY <1>2, <1>7, <2>2
    <3>2. Bucket(db.Entry[g], time[g], db.DueTime, g)
      BY <1>5, <2>1, <2>2, <3>1 DEF Bucket
    <3> QED
      BY <1>8, <3>2
  <2>3. CASE g # h
    BY <1>7, <1>8, <2>1, <2>3
  <2> QED
    BY <2>2, <2>3
<1> QED
  BY <1>8, <1>9 DEF Good, Linked


(* KeSetSystemTime takes an absolute timer out of its bucket. *)
LEMMA CollectTouches ==
    ASSUME IInv, NEW h \in Hands, NEW i \in DOMAIN db.Entry[h],
           db' = KiRemoveEntryTimer(db, db.Entry[h][i], h)
    PROVE  LET t == db.Entry[h][i]
           IN  /\ t \in Timers /\ t \in Linked(db)
               /\ Touches(db, db', t)
               /\ t \notin Linked(db')
               /\ db'.Inserted = db.Inserted
               /\ db'.DueTime = db.DueTime
               /\ db'.Period = db.Period
<1> DEFINE t == db.Entry[h][i]
<1>1. Good(db) /\ db \in Tables
  BY TableFacts DEF IInv, TypeOK
<1>2. t \in Timers /\ t \in ToSet(db.Entry[h])
  BY <1>1, TableParts DEF ToSet
<1> HIDE DEF t
<1>3. t \in Linked(db) /\ h = KiComputeTimerTableIndex(db.DueTime[t])
  BY <1>1, <1>2, LinkedWhere
<1>4. db' = KiRemoveEntryTimer(db, t, h)
  BY DEF t
<1>5. /\ Touches(db, db', t)
      /\ t \notin Linked(db')
      /\ db'.Inserted = db.Inserted
      /\ db'.DueTime = db.DueTime
      /\ db'.Period = db.Period
  BY <1>1, <1>2, <1>3, <1>4, UnlinkTouches
<1> QED
  BY <1>2, <1>3, <1>5 DEF t

(* KeSetSystemTime gives the first timer of TempList its new due time: it is linked     *)
(* again, or due and on TempList2.                                                      *)
LEMMA ReinsertTouches ==
    ASSUME IInv, NEW th \in Threads, ReinsertAbsolute(th)
    PROVE  LET t == Head(absolutes)
           IN  /\ t \in Timers
               /\ Touches(db, db', t)
               /\ db'.Inserted = db.Inserted
               /\ db'.Period = db.Period
               /\ \/ t \in Linked(db') /\ expired' = expired
                  \/ /\ t \notin Linked(db')
                     /\ expired' = Append(expired, t)
                     /\ db'.DueTime[t] <= KeInterruptTime
<1> DEFINE t == Head(absolutes)
           moved == [db EXCEPT !.DueTime[t] = (@ - delta) % TimeModulus]
           h == KiComputeTimerTableIndex(moved.DueTime[t])
           again == KiInsertTimerTable(moved, t, h)
           gone == KiRemoveEntryTimer(again, t, h)
           due == (db.DueTime[t] - delta) % TimeModulus
           dueTime == [db.DueTime EXCEPT ![t] = due]
<1>1. Good(db) /\ db \in Tables /\ Exact(db, InTransit) /\ delta \in Int
  BY TableFacts DEF IInv, TypeOK
<1>2. t \in Timers /\ t \in ToSet(absolutes)
  BY TailLinked DEF IInv, TypeOK, TransitOK, ReinsertAbsolute
<1>3. t \notin Linked(db)
  BY <1>1, <1>2 DEF Exact, InTransit
<1>4. IF InsertedExpired(moved, t, h, KeInterruptTime)
      THEN db' = gone /\ expired' = Append(expired, t)
      ELSE db' = again /\ expired' = expired
  BY DEF ReinsertAbsolute
<1> HIDE DEF t
<1>5. due \in Times
  <2>1. db.DueTime[t] \in Int
    <3>1. db.DueTime[t] \in Times
      BY <1>1, <1>2, TableParts
    <3>2. Times \subseteq Int
      BY TableAssumption DEF Times
    <3> QED
      BY <3>1, <3>2
  <2> QED
    BY <1>1, <2>1, Widths
<1>6. moved = [db EXCEPT !.DueTime = dueTime]
  BY <1>1, <1>2 DEF Tables
<1> HIDE DEF due
<1>7. dueTime \in [Timers -> Times] /\ \A u \in Timers : u # t => dueTime[u] = db.DueTime[u]
  BY <1>1, <1>5, TableParts
<1> HIDE DEF dueTime
<1>8. /\ moved \in Tables /\ moved.Entry = db.Entry /\ moved.Time = db.Time
      /\ moved.Inserted = db.Inserted /\ moved.Period = db.Period /\ moved.DueTime = dueTime
  BY <1>1, <1>6, <1>7 DEF Tables
<1> HIDE DEF moved
<1>9. Touches(db, moved, t) /\ t \notin Linked(moved)
  BY <1>1, <1>2, <1>3, <1>7, <1>8, FieldsTouch
<1>10. Good(moved)
  BY <1>9 DEF Touches
<1>11. /\ Touches(moved, again, t)
       /\ t \in Linked(again)
       /\ again.Inserted = moved.Inserted
       /\ again.DueTime = moved.DueTime
       /\ again.Period = moved.Period
  BY <1>2, <1>9, <1>10, LinkTouches
<1>12. h \in Hands /\ Good(again) /\ h = KiComputeTimerTableIndex(again.DueTime[t])
  BY <1>2, <1>10, <1>11, LinkedWhere DEF Touches
<1> HIDE DEF again, h
<1>13. /\ Touches(again, gone, t)
       /\ t \notin Linked(gone)
       /\ gone.Inserted = again.Inserted
       /\ gone.DueTime = again.DueTime
       /\ gone.Period = again.Period
  BY <1>2, <1>12, UnlinkTouches
<1> HIDE DEF gone
<1>14. Touches(db, again, t) /\ Touches(db, gone, t)
  BY <1>9, <1>11, <1>13, TouchesTwice
<1>15. CASE InsertedExpired(moved, t, h, KeInterruptTime)
  <2>1. db' = gone /\ expired' = Append(expired, t)
    BY <1>4, <1>15
  <2>2. moved.DueTime[t] <= KeInterruptTime
    BY <1>15 DEF InsertedExpired
  <2> QED
    BY <1>2, <1>8, <1>11, <1>13, <1>14, <2>1, <2>2 DEF t
<1>16. CASE ~InsertedExpired(moved, t, h, KeInterruptTime)
  BY <1>2, <1>4, <1>8, <1>11, <1>14, <1>16 DEF t
<1> QED
  BY <1>15, <1>16

(* KiTimerListExpire expires the first timer of TempList2. *)
LEMMA ListExpireTouches ==
    ASSUME IInv, NEW th \in Threads, KiTimerListExpire(th)
    PROVE  LET t == Head(expired)
           IN  /\ t \in Timers /\ t \in ToSet(expired)
               /\ Touches(db, db', t)
               /\ db'.Inserted[t] <=> t \in Linked(db')
               /\ db'.Period = db.Period
<1> DEFINE t == Head(expired)
<1>1. Good(db) /\ Exact(db, InTransit) /\ KeInterruptTime \in Int /\ KeSystemTime \in Int
  BY TableFacts DEF IInv, TypeOK
<1>2. t \in Timers /\ t \in ToSet(expired)
  BY TailLinked DEF IInv, TypeOK, TransitOK, KiTimerListExpire
<1>3. t \notin Linked(db)
  BY <1>1, <1>2 DEF Exact, InTransit
<1>4. db' = KiSignalTimer(db, t, KeSystemTime, KeInterruptTime)
  BY DEF KiTimerListExpire
<1> HIDE DEF t
<1>5. Touches(db, db', t) /\ (db'.Inserted[t] <=> t \in Linked(db')) /\ db'.Period = db.Period
  BY <1>1, <1>2, <1>3, <1>4, SignalTouches
<1> QED
  BY <1>2, <1>5 DEF t


-----------------------------------------------------------------------------
(* The invariant across the steps that change the table *)

(* KeSetTimerEx from a guest or from a DPC routine: up to the insertion. *)
LEMMA KeSetTimerExIInv ==
    ASSUME NEW th \in Guests \cup Executors, NEW t \in Timers, NEW s \in Settings,
           IInv, KeSetTimerEx(th, t, s.due, s.period, s.dpc)
    PROVE  IInv'
<1> USE DEF KeSetTimerEx, clocks, expiration, settingTime
<1> DEFINE passed == AlreadyPassed(s.due, KeSystemTime)
<1>1. th \in Threads
  BY DEF Threads
<1>2. PICK l \in {"insert", "routineInsert"} :
         /\ Goto(th, l) /\ TimerLock' = th
         /\ l = "insert" => TimerLock = NoThread
         /\ l = "routineInsert" => pc[th] = "routine" /\ TimerLock' = TimerLock
  <2>1. CASE pc[th] = "idle"
    BY <2>1 DEF Acquire
  <2>2. CASE pc[th] = "routine"
    <3>1. TimerLock = th
      BY <1>1, <2>2, OwnerFacts DEF Inside
    <3> QED
      BY <2>2, <3>1
  <2> QED
    BY <2>1, <2>2
<1>3. NothingOut /\ (l = "insert" => activeLeft # 0 /\ scansLeft # 0)
  <2>1. CASE l = "insert"
    BY <1>2, <2>1, FreeFacts
  <2>2. CASE l = "routineInsert"
    BY <1>1, <1>2, <2>2, OwnerFacts DEF Inside
  <2> QED
    BY <2>1, <2>2
<1>4. /\ LockOK'
      /\ pc' \in [Threads -> Locations]
      /\ TimerLock' \in Threads \cup {NoThread}
      /\ pc'[th] = l /\ th # NoThread
  <2>1. l \in Locations /\ l \in Inside /\ "routine" \in Inside
    BY DEF Locations, Inside
  <2> QED
    BY <1>1, <1>2, <2>1, LockStep DEF IInv
<1> DEFINE r == Prepared(t, s.due, s.period, s.dpc)
<1>5. /\ Touches(db, r, t)
      /\ passed => (r.Inserted[t] <=> t \in Linked(r))
      /\ ~passed => r.Inserted[t] /\ t \notin Linked(r)
  BY <1>3, PreparedTouches
<1>6. db' = r /\ setting' = IF passed THEN NoTimer ELSE t
  OBVIOUS
<1> HIDE DEF r, passed
<1>7. Good(db') /\ db' \in Tables
  BY <1>5, <1>6 DEF Touches, Good
<1>8. absolutes' = <<>> /\ expired' = <<>> /\ setting' \in Timers \cup {NoTimer}
  BY <1>3, <1>6 DEF NothingOut
<1>9. TypeOK'
  BY <1>4, <1>7, <1>8 DEF IInv, TypeOK
<1>10. DueByOK' /\ CountsOK'
  BY <1>2, <1>3, <1>4 DEF IInv, DueByOK, CountsOK, OwnerAt
<1>11. TransitOK'
  BY <1>2, <1>4, <1>8, EmptyList DEF TransitOK, OwnerAt
<1>12. Exact(db', InTransit')
  <2>1. Good(db) /\ Exact(db, {})
    BY <1>3, TableFacts, NothingOutTransit
  <2>2. InTransit' = {setting'} \ {NoTimer}
    BY <1>8, EmptyList DEF InTransit
  <2>3. CASE passed
    <3>1. InTransit' = {}
      BY <1>6, <2>2, <2>3
    <3> QED
      BY <1>5, <1>6, <2>1, <2>3, <3>1, ExactStep
  <2>4. CASE ~passed
    <3>1. InTransit' = {t}
      BY <1>6, <2>2, <2>4, TimerAssumption
    <3>2. /\ \A u \in Timers : u # t => (u \in {} <=> u \in {t})
          /\ r.Inserted[t] <=> t \in Linked(r) \cup {t}
          /\ ~(t \in Linked(r) /\ t \in {t})
          /\ {t} \in SUBSET Timers
      BY <1>5, <2>4
    <3>3. Exact(r, {t})
      BY <1>5, <2>1, <3>2, ExactStep
    <3> QED
      BY <1>6, <3>1, <3>3
  <2> QED
    BY <2>3, <2>4
<1> QED
  BY <1>4, <1>7, <1>9, <1>10, <1>11, <1>12, Reassemble

(* The timer that is being set. *)
LEMMA SettingFacts ==
    ASSUME IInv, NEW th \in Threads, pc[th] \in {"insert", "routineInsert"}
    PROVE  /\ TimerLock = th
           /\ absolutes = <<>> /\ expired = <<>>
           /\ InTransit = {setting} \ {NoTimer}
           /\ setting # NoTimer =>
                 setting \in Timers /\ setting \notin Linked(db) /\ db.Inserted[setting]
<1>1. TimerLock = th /\ \A P : OwnerAt(P) <=> pc[th] \in P
  BY Owner DEF IInv, Inside
<1>2. ~OwnerAt({"collect", "reinsert"}) /\ ~OwnerAt({"reinsert"})
  BY <1>1
<1>3. absolutes = <<>> /\ expired = <<>>
  BY <1>2 DEF IInv, TransitOK
<1>4. InTransit = {setting} \ {NoTimer}
  BY <1>3, EmptyList DEF InTransit
<1>5. setting # NoTimer => setting \in Timers
  BY DEF IInv, TypeOK
<1>6. setting # NoTimer => setting \notin Linked(db) /\ db.Inserted[setting]
  BY <1>4, <1>5, TableFacts DEF Exact
<1> QED
  BY <1>1, <1>3, <1>4, <1>5, <1>6

(* KeSetTimerEx inserts the timer, which may be due by now, and releases the lock. *)
LEMMA InsertAndUnlockIInv ==
    ASSUME NEW th \in Guests \cup Executors, IInv, InsertAndUnlock(th)
    PROVE  IInv'
<1> USE DEF InsertAndUnlock, clocks, expiration, settingTime
<1>1. th \in Threads /\ pc[th] \in {"insert", "routineInsert"}
  BY DEF Threads
<1>2. /\ TimerLock = th
      /\ absolutes = <<>> /\ expired = <<>>
      /\ InTransit = {setting} \ {NoTimer}
      /\ setting # NoTimer =>
            setting \in Timers /\ setting \notin Linked(db) /\ db.Inserted[setting]
  BY <1>1, SettingFacts
<1>3. /\ LockOK'
      /\ pc' \in [Threads -> Locations]
      /\ TimerLock' \in Threads \cup {NoThread}
      /\ th # NoThread
  <2>1. /\ {"idle", "routine"} \subseteq Locations
        /\ "idle" \notin Inside /\ {"routine", "routineInsert"} \subseteq Inside
    BY DEF Locations, Inside
  <2>2. CASE pc[th] = "insert"
    <3>1. Goto(th, "idle") /\ TimerLock = th /\ TimerLock' = NoThread
      BY <2>2 DEF Release
    <3> QED
      BY <1>1, <2>1, <3>1, LockStep DEF IInv
  <2>3. CASE pc[th] = "routineInsert"
    <3>1. Goto(th, "routine") /\ TimerLock' = TimerLock
      BY <2>3
    <3> QED
      BY <1>1, <2>1, <2>3, <3>1, LockStep DEF IInv
  <2> QED
    BY <1>1, <2>2, <2>3
<1>4. NothingOut'
  BY <1>2 DEF NothingOut
<1>5. Good(db') /\ Exact(db', {})
  <2>1. Good(db) /\ Exact(db, InTransit) /\ KeInterruptTime \in Int /\ KeSystemTime \in Int
    BY TableFacts
  <2>2. CASE setting = NoTimer
    BY <1>2, <2>1, <2>2
  <2>3. CASE setting # NoTimer
    <3>1. db' = KxInsertTimer(db, setting, KeSystemTime, KeInterruptTime)
      BY <2>3
    <3>2. Touches(db, db', setting) /\ (db'.Inserted[setting] <=> setting \in Linked(db'))
      BY <1>2, <2>1, <2>3, <3>1, KxInsertTouches
    <3>3. \A u \in Timers : u # setting => (u \in InTransit <=> u \in {})
      BY <1>2
    <3>4. InTransit \in SUBSET Timers /\ setting \in Timers
      BY <1>2, <2>3, TableFacts
    <3>5. db'.Inserted[setting] <=> setting \in Linked(db') \cup {}
      BY <3>2
    <3>6. Exact(db', {})
      BY <2>1, <3>2, <3>3, <3>4, <3>5, ExactStep
    <3> QED
      BY <3>2, <3>6 DEF Touches
  <2> QED
    BY <2>2, <2>3
<1>6. setting' = NoTimer /\ db' \in Tables
  BY <1>5 DEF Good
<1>7. TypeOK'
  BY <1>3, <1>6 DEF IInv, TypeOK
<1>8. DueByOK'
  BY DEF IInv, DueByOK
<1>9. CountsOK'
  <2>1. CASE pc[th] = "insert"
    <3>1. activeLeft # 0 /\ scansLeft # 0
      BY <1>1, <2>1, OwnerFacts DEF Inside
    <3> QED
      BY <3>1 DEF CountsOK
  <2>2. CASE pc[th] = "routineInsert"
    <3>1. pc'[th] = "routine" /\ TimerLock' = th
      BY <1>1, <1>2, <2>2 DEF Goto, IInv, TypeOK
    <3> QED
      BY <1>3, <3>1 DEF CountsOK, OwnerAt
  <2> QED
    BY <1>1, <2>1, <2>2
<1> QED
  BY <1>3, <1>4, <1>5, <1>7, <1>8, <1>9, ReassembleQuiet

(* KeCancelTimer from a guest or from a DPC routine. *)
LEMMA KeCancelTimerIInv ==
    ASSUME NEW th \in Guests \cup Executors, NEW t \in Timers, IInv, KeCancelTimer(th, t)
    PROVE  IInv'
<1> USE DEF KeCancelTimer, clocks, expiration, settingTime
<1>1. NothingOut
  <2>1. CASE TimerLock = NoThread
    BY <2>1, FreeFacts
  <2>2. CASE pc[th] = "routine"
    BY <2>2, OwnerFacts DEF Inside, Threads
  <2> QED
    BY <2>1, <2>2
<1>2. Good(db) /\ Exact(db, {})
  BY <1>1, TableFacts, NothingOutTransit
<1>3. Touches(db, db', t) /\ t \notin Linked(db') /\ ~db'.Inserted[t]
  BY <1>2, KxRemoveTouches
<1>4. db'.Inserted[t] <=> t \in Linked(db') \cup {}
  BY <1>3
<1>5. Good(db') /\ Exact(db', {}) /\ db' \in Tables
  BY <1>2, <1>3, <1>4, ExactStep DEF Touches, Good
<1>6. TypeOK'
  BY <1>5 DEF IInv, TypeOK
<1>7. LockOK' /\ DueByOK' /\ CountsOK' /\ NothingOut'
  BY <1>1 DEF IInv, LockOK, DueByOK, CountsOK, OwnerAt, NothingOut
<1> QED
  BY <1>5, <1>6, <1>7, ReassembleQuiet


(* An absolute timer moves from its bucket to TempList. *)
LEMMA CollectAbsoluteIInv ==
    ASSUME NEW th \in Threads, NEW h \in Hands, NEW i \in DOMAIN db.Entry[h],
           IInv, CollectAbsolute(th, h, i)
    PROVE  IInv'
<1> USE DEF CollectAbsolute, clocks, expiration
<1> DEFINE t == db.Entry[h][i]
<1>1. /\ t \in Timers /\ t \in Linked(db)
      /\ Touches(db, db', t)
      /\ t \notin Linked(db')
      /\ db'.Inserted = db.Inserted
  BY CollectTouches
<1>2. absolutes' = Append(absolutes, t)
  OBVIOUS
<1> HIDE DEF t
<1>3. TimerLock = th /\ th # NoThread /\ \A P : OwnerAt(P) <=> pc[th] \in P
  BY Owner DEF IInv, Inside
<1>4. setting = NoTimer /\ expired = <<>>
  BY <1>3 DEF IInv, TransitOK
<1>5. Good(db) /\ Exact(db, InTransit) /\ InTransit \in SUBSET Timers
  BY TableFacts
<1>6. absolutes \in Seq(Timers) /\ IsInjective(absolutes) /\ InTransit = ToSet(absolutes)
  BY <1>4, EmptyList DEF IInv, TypeOK, TransitOK, InTransit
<1>7. t \notin ToSet(absolutes) /\ db.Inserted[t]
  BY <1>1, <1>5, <1>6 DEF Exact
<1>8. absolutes' \in Seq(Timers) /\ IsInjective(absolutes') /\ ToSet(absolutes') = ToSet(absolutes) \cup {t}
  BY <1>1, <1>2, <1>6, <1>7, AppendUnlinked
<1>9. setting' = NoTimer /\ expired' = <<>> /\ InTransit' = InTransit \cup {t}
  BY <1>4, <1>6, <1>8, EmptyList DEF InTransit
<1>10. Exact(db', InTransit')
  <2>1. /\ \A u \in Timers : u # t => (u \in InTransit <=> u \in InTransit')
        /\ db'.Inserted[t] <=> t \in Linked(db') \cup InTransit'
        /\ ~(t \in Linked(db') /\ t \in InTransit')
        /\ InTransit' \in SUBSET Timers
    BY <1>1, <1>5, <1>7, <1>9
  <2> QED
    BY <1>1, <1>5, <2>1, ExactStep
<1>11. Good(db') /\ db' \in Tables
  BY <1>1 DEF Touches, Good
<1>12. TypeOK'
  BY <1>8, <1>11 DEF IInv, TypeOK
<1>13. LockOK' /\ DueByOK' /\ CountsOK'
  BY DEF IInv, LockOK, DueByOK, CountsOK, OwnerAt
<1>14. TransitOK'
  BY <1>3, <1>8, <1>9, EmptyList DEF TransitOK, OwnerAt
<1> QED
  BY <1>10, <1>11, <1>12, <1>13, <1>14, Reassemble

(* TempList2 and the due times of the timers in it. *)
LEMMA ExpiredDue ==
    ASSUME IInv, NEW t, Touches(db, db', t), NEW u \in ToSet(expired), u # t
    PROVE  u \in Timers /\ db'.DueTime[u] <= KeInterruptTime
<1>1. u \in Timers
  BY DEF IInv, TypeOK, ToSet
<1> QED
  BY <1>1 DEF IInv, TransitOK, Touches

(* The first timer of TempList goes back into the table or to TempList2. *)
LEMMA ReinsertAbsoluteIInv ==
    ASSUME NEW th \in Threads, IInv, ReinsertAbsolute(th)
    PROVE  IInv'
<1> DEFINE t == Head(absolutes)
<1>1. /\ t \in Timers
      /\ Touches(db, db', t)
      /\ db'.Inserted = db.Inserted
      /\ \/ t \in Linked(db') /\ expired' = expired
         \/ /\ t \notin Linked(db')
            /\ expired' = Append(expired, t)
            /\ db'.DueTime[t] <= KeInterruptTime
  BY ReinsertTouches
<1>2. /\ pc[th] = "reinsert" /\ absolutes # <<>> /\ absolutes' = Tail(absolutes)
      /\ UNCHANGED <<clocks, expiration, delta, TimerLock, ExpireDpc, pc, setting>>
  BY DEF ReinsertAbsolute
<1> USE DEF clocks, expiration
<1>3. TimerLock = th /\ th # NoThread /\ \A P : OwnerAt(P) <=> pc[th] \in P
  BY <1>2, Owner DEF IInv, Inside
<1>4. setting = NoTimer /\ setting' = NoTimer
  BY <1>2, <1>3 DEF IInv, TransitOK
<1>5. Good(db) /\ Exact(db, InTransit) /\ InTransit \in SUBSET Timers
  BY TableFacts
<1>6. /\ absolutes \in Seq(Timers) /\ IsInjective(absolutes)
      /\ expired \in Seq(Timers) /\ IsInjective(expired)
      /\ ToSet(absolutes) \cap ToSet(expired) = {}
  BY DEF IInv, TypeOK, TransitOK
<1>7. InTransit = ToSet(absolutes) \cup ToSet(expired)
  BY <1>4 DEF InTransit
<1>8. /\ t \in ToSet(absolutes)
      /\ absolutes' \in Seq(Timers)
      /\ IsInjective(absolutes')
      /\ ToSet(absolutes') = ToSet(absolutes) \ {t}
  BY <1>2, <1>6, TailLinked
<1> HIDE DEF t
<1>9. t \notin ToSet(expired) /\ db.Inserted[t]
  BY <1>1, <1>5, <1>6, <1>7, <1>8 DEF Exact
<1>10. /\ expired' \in Seq(Timers)
       /\ IsInjective(expired')
       /\ ToSet(expired') = IF t \in Linked(db') THEN ToSet(expired) ELSE ToSet(expired) \cup {t}
  <2>1. CASE t \in Linked(db') /\ expired' = expired
    BY <1>6, <2>1
  <2>2. CASE t \notin Linked(db') /\ expired' = Append(expired, t)
    BY <1>1, <1>6, <1>9, <2>2, AppendUnlinked
  <2> QED
    BY <1>1, <2>1, <2>2
<1>11. InTransit' = ToSet(absolutes') \cup ToSet(expired')
  BY <1>4 DEF InTransit
<1>12. Exact(db', InTransit')
  <2>1. /\ \A u \in Timers : u # t => (u \in InTransit <=> u \in InTransit')
        /\ t \in InTransit' <=> t \notin Linked(db')
    BY <1>7, <1>8, <1>9, <1>10, <1>11
  <2>2. db'.Inserted[t] /\ InTransit' \in SUBSET Timers
    BY <1>1, <1>5, <1>7, <1>8, <1>9, <1>10, <1>11
  <2>3. (db'.Inserted[t] <=> t \in Linked(db') \cup InTransit')
        /\ ~(t \in Linked(db') /\ t \in InTransit')
    BY <2>1, <2>2
  <2> QED
    BY <1>1, <1>5, <2>1, <2>2, <2>3, ExactStep
<1>13. Good(db') /\ db' \in Tables
  BY <1>1 DEF Touches, Good
<1>14. TypeOK'
  BY <1>2, <1>8, <1>10, <1>13 DEF IInv, TypeOK
<1>15. LockOK' /\ DueByOK' /\ CountsOK'
  BY <1>2 DEF IInv, LockOK, DueByOK, CountsOK, OwnerAt
<1>16. \A u \in ToSet(expired') : db'.DueTime[u] <= KeInterruptTime
  <2> TAKE u \in ToSet(expired')
  <2>1. CASE u = t
    BY <1>1, <1>9, <1>10, <2>1
  <2>2. CASE u # t
    BY <1>1, <1>10, <2>2, ExpiredDue
  <2> QED
    BY <2>1, <2>2
<1>17. TransitOK'
  <2>1. KeInterruptTime' = KeInterruptTime /\ TimerLock' = th /\ pc'[th] = "reinsert"
    BY <1>2, <1>3
  <2>2. ToSet(absolutes') \cap ToSet(expired') = {}
    BY <1>6, <1>8, <1>10
  <2> QED
    BY <1>3, <1>4, <1>8, <1>10, <1>16, <2>1, <2>2 DEF TransitOK, OwnerAt
<1> QED
  BY <1>12, <1>13, <1>14, <1>15, <1>17, Reassemble

(* The first timer of TempList2 expires. *)
LEMMA KiTimerListExpireIInv ==
    ASSUME NEW th \in Threads, IInv, KiTimerListExpire(th)
    PROVE  IInv'
<1> DEFINE t == Head(expired)
<1>1. /\ t \in Timers /\ t \in ToSet(expired)
      /\ Touches(db, db', t)
      /\ db'.Inserted[t] <=> t \in Linked(db')
  BY ListExpireTouches
<1>2. /\ pc[th] = "reinsert" /\ absolutes = <<>> /\ expired # <<>> /\ expired' = Tail(expired)
      /\ UNCHANGED <<clocks, expiration, absolutes, delta, TimerLock, ExpireDpc, pc, setting>>
  BY DEF KiTimerListExpire
<1> USE DEF clocks, expiration
<1>3. TimerLock = th /\ th # NoThread /\ \A P : OwnerAt(P) <=> pc[th] \in P
  BY <1>2, Owner DEF IInv, Inside
<1>4. setting = NoTimer /\ setting' = NoTimer
  BY <1>2, <1>3 DEF IInv, TransitOK
<1>5. Good(db) /\ Exact(db, InTransit) /\ InTransit \in SUBSET Timers
  BY TableFacts
<1>6. expired \in Seq(Timers) /\ IsInjective(expired)
  BY DEF IInv, TypeOK, TransitOK
<1>7. InTransit = ToSet(expired) /\ InTransit' = ToSet(expired')
  BY <1>2, <1>4, EmptyList DEF InTransit
<1>8. /\ expired' \in Seq(Timers)
      /\ IsInjective(expired')
      /\ ToSet(expired') = ToSet(expired) \ {t}
  BY <1>2, <1>6, TailLinked
<1> HIDE DEF t
<1>9. Exact(db', InTransit')
  <2>1. /\ \A u \in Timers : u # t => (u \in InTransit <=> u \in InTransit')
        /\ t \notin InTransit'
        /\ InTransit' \in SUBSET Timers
    BY <1>5, <1>7, <1>8
  <2>2. db'.Inserted[t] <=> t \in Linked(db') \cup InTransit'
    BY <1>1, <2>1
  <2> QED
    BY <1>1, <1>5, <2>1, <2>2, ExactStep
<1>10. Good(db') /\ db' \in Tables
  BY <1>1 DEF Touches, Good
<1>11. TypeOK'
  BY <1>2, <1>8, <1>10 DEF IInv, TypeOK
<1>12. LockOK' /\ DueByOK' /\ CountsOK'
  BY <1>2 DEF IInv, LockOK, DueByOK, CountsOK, OwnerAt
<1>13. \A u \in ToSet(expired') : db'.DueTime[u] <= KeInterruptTime
  BY <1>1, <1>8, ExpiredDue
<1>14. TransitOK'
  <2>1. KeInterruptTime' = KeInterruptTime /\ TimerLock' = th /\ pc'[th] = "reinsert"
        /\ absolutes' = <<>>
    BY <1>2, <1>3
  <2> QED
    BY <1>3, <1>4, <1>8, <1>13, <2>1, EmptyList DEF TransitOK, OwnerAt
<1> QED
  BY <1>9, <1>10, <1>11, <1>12, <1>14, Reassemble


(* The scan examines the first timer of its bucket: the counts go down, and at zero the     *)
(* DPC routines are called.                                                                *)
LEMMA ExamineStep ==
    ASSUME NEW e \in Executors, IInv, ExpireHead(e) \/ LeaveBucket(e)
    PROVE  /\ LockOK' /\ DueByOK' /\ CountsOK' /\ NothingOut /\ NothingOut'
           /\ db' \in Tables => TypeOK'
<1> USE DEF clocks, settingTime
<1>1. /\ pc[e] = "scan" /\ e \in Threads
      /\ UNCHANGED <<clocks, settingTime, range, dueBy, TimerLock, ExpireDpc, setting>>
      /\ tick' \in {tick, tick + 1}
      /\ activeLeft' \in {activeLeft, activeLeft - 1} /\ scansLeft' = scansLeft - 1
  BY DEF ExpireHead, LeaveBucket, Threads
<1>2. PICK l \in {"scan", "dpcs"} :
         Goto(e, l) /\ (l = "scan" => scansLeft' # 0 /\ (activeLeft' = 0 => activeLeft = 0))
  BY <1>1 DEF ExpireHead, LeaveBucket
<1>3. TimerLock = e /\ NothingOut /\ activeLeft # 0 /\ scansLeft # 0
  BY <1>1, OwnerFacts DEF Inside
<1>4. LockOK' /\ pc' \in [Threads -> Locations] /\ pc'[e] = l /\ e # NoThread
  <2>1. l \in Locations /\ l \in Inside /\ pc[e] \in Inside
    BY <1>1 DEF Locations, Inside
  <2> QED
    BY <1>1, <1>2, <2>1, LockStep DEF IInv
<1>5. CountsOK'
  BY <1>1, <1>2, <1>3, <1>4 DEF CountsOK, OwnerAt
<1>6. DueByOK' /\ NothingOut'
  BY <1>1, <1>3 DEF IInv, DueByOK, NothingOut
<1>7. activeLeft' \in 0..MaxActiveTimers /\ scansLeft' \in 0..MaxScans /\ tick' \in Nat
  <2>1. activeLeft \in 0..MaxActiveTimers /\ scansLeft \in 0..MaxScans /\ tick \in Nat
    BY DEF IInv, TypeOK
  <2> QED
    BY <1>1, <1>3, <2>1, TimerAssumption
<1>8. dpcCalls' \in Seq(Timers)
  <2>1. dpcCalls \in Seq(Timers)
    BY DEF IInv, TypeOK
  <2>2. CASE LeaveBucket(e)
    BY <2>1, <2>2 DEF LeaveBucket
  <2>3. CASE ExpireHead(e)
    <3>1. Head(db.Entry[Hand]) \in Timers
      <4>1. db.Entry[Hand] \in Seq(Timers) /\ db.Entry[Hand] # <<>>
        BY <2>3, HandIn, TableParts DEF ExpireHead, IInv, TypeOK
      <4> QED
        BY <4>1
    <3>2. dpcCalls' = dpcCalls \/ dpcCalls' = Append(dpcCalls, Head(db.Entry[Hand]))
      BY <2>3 DEF ExpireHead
    <3> QED
      BY <2>1, <3>1, <3>2
  <2> QED
    BY <2>2, <2>3
<1>9. db' \in Tables => TypeOK'
  BY <1>1, <1>4, <1>7, <1>8 DEF IInv, TypeOK
<1> QED
  BY <1>3, <1>4, <1>5, <1>6, <1>9

(* KiTimerExpiration expires a timer. *)
LEMMA ExpireHeadIInv ==
    ASSUME NEW e \in Executors, IInv, ExpireHead(e)
    PROVE  IInv'
<1>1. PICK t \in Timers : Touches(db, db', t) /\ (db'.Inserted[t] <=> t \in Linked(db'))
  BY ExpireHeadTouches
<1>2. LockOK' /\ DueByOK' /\ CountsOK' /\ NothingOut /\ NothingOut'
  BY ExamineStep
<1>3. Good(db) /\ Exact(db, {})
  BY <1>2, TableFacts, NothingOutTransit
<1>4. Good(db') /\ db' \in Tables
  BY <1>1 DEF Touches, Good
<1>5. TypeOK'
  BY <1>4, ExamineStep
<1>6. Exact(db', {})
  <2>1. db'.Inserted[t] <=> t \in Linked(db') \cup {}
    BY <1>1
  <2> QED
    BY <1>1, <1>3, <2>1, ExactStep
<1> QED
  BY <1>2, <1>4, <1>5, <1>6, ReassembleQuiet

(* KiTimerExpiration leaves a bucket. *)
LEMMA LeaveBucketIInv ==
    ASSUME NEW e \in Executors, IInv, LeaveBucket(e)
    PROVE  IInv'
<1>1. Good(db') /\ db'.Inserted = db.Inserted /\ Linked(db') = Linked(db)
  BY LeaveBucketTable
<1>2. LockOK' /\ DueByOK' /\ CountsOK' /\ NothingOut /\ NothingOut'
  BY ExamineStep
<1>3. Good(db) /\ Exact(db, {})
  BY <1>2, TableFacts, NothingOutTransit
<1>4. TypeOK'
  BY <1>1, ExamineStep DEF Good
<1>5. Exact(db', {})
  BY <1>1, <1>3 DEF Exact
<1> QED
  BY <1>1, <1>2, <1>4, <1>5, ReassembleQuiet

-----------------------------------------------------------------------------
(* The invariant *)

(* Every step keeps the inductive invariant. *)
LEMMA NextIInv == IInv /\ [Next]_vars => IInv'
<1> SUFFICES ASSUME IInv, [Next]_vars PROVE IInv'
  OBVIOUS
<1>1. CASE UNCHANGED vars
  BY <1>1 DEF vars, clocks, expiration, settingTime, IInv, TypeOK, LockOK, TransitOK, DueByOK,
              CountsOK, NoTimerLost, TableConsistent, OwnerAt, InTransit
<1>2. CASE HostTimeChanges
  BY <1>2, HostTimeChangesIInv
<1>3. ASSUME NEW ticks \in ElapsedTicks, AdvanceClocks(ticks) PROVE IInv'
  <2>1. KeSystemTime \in SystemTimes \cup {KeSystemTime}
    OBVIOUS
  <2> QED
    BY <1>3, <2>1, ClockAdvancesIInv
<1>4. ASSUME NEW ticks \in ElapsedTicks, NEW host \in SystemTimes, TakeHostTime(ticks, host)
      PROVE  IInv'
  BY <1>4, ClockAdvancesIInv
<1>5. CASE ClockSetsSystemTime
  <2>1. Clock \in Threads /\ KeSystemTime \in Nat
    BY DEF Threads, IInv, TypeOK
  <2> QED
    BY <1>5, <2>1, KeSetSystemTimeIInv DEF ClockSetsSystemTime
<1>6. CASE CheckTimers \/ SkipCheck
  BY <1>6, CheckTimersIInv
<1>7. ASSUME NEW th \in Guests \cup Executors, GuestCall(th) PROVE IInv'
  <2>1. ASSUME NEW t \in Timers, NEW s \in Settings,
               KeSetTimerEx(th, t, s.due, s.period, s.dpc)
        PROVE  IInv'
    BY <2>1, KeSetTimerExIInv
  <2>2. CASE InsertAndUnlock(th)
    BY <2>2, InsertAndUnlockIInv
  <2>3. ASSUME NEW t \in Timers, KeCancelTimer(th, t) PROVE IInv'
    BY <2>3, KeCancelTimerIInv
  <2>4. ASSUME NEW newTime \in SystemTimes, NtSetSystemTime(th, newTime) PROVE IInv'
    <3>1. th \in Threads /\ newTime \in Nat
      BY TimerAssumption DEF Threads
    <3> QED
      BY <2>4, <3>1, KeSetSystemTimeIInv DEF NtSetSystemTime
  <2> QED
    BY <1>7, <2>1, <2>2, <2>3, <2>4 DEF GuestCall
<1>8. ASSUME NEW th \in Guests \cup {Clock}, SetTimeStep(th) PROVE IInv'
  <2>1. th \in Threads
    BY DEF Threads
  <2>2. ASSUME NEW h \in Hands, NEW i \in DOMAIN db.Entry[h], CollectAbsolute(th, h, i)
        PROVE  IInv'
    BY <2>1, <2>2, CollectAbsoluteIInv
  <2> QED
    BY <1>8, <2>1, <2>2, CollectDoneIInv, ReinsertAbsoluteIInv, KiTimerListExpireIInv,
       SystemTimeSetIInv DEF SetTimeStep
<1>9. ASSUME NEW e \in Executors, KiTimerExpiration(e) PROVE IInv'
  BY <1>9, StartExpirationIInv, BeginScanIInv, ExpireHeadIInv, LeaveBucketIInv, ScanStepIInv,
     EndScanIInv DEF KiTimerExpiration
<1> QED
  BY <1>1, <1>2, <1>3, <1>4, <1>5, <1>6, <1>7, <1>8, <1>9 DEF Next, ClockStep

(* The inductive invariant holds in every reachable state. *)
LEMMA IInvHolds == Spec => []IInv
BY InitIInv, NextIInv, PTL DEF Spec

(* The variables of the timers keep their types: in particular the two unsigned counts of *)
(* KiTimerExpiration never go below zero, and every time stays within its width.          *)
THEOREM TimerTypes == Spec => []TypeOK
<1>1. IInv => TypeOK
  BY DEF IInv
<1> QED
  BY <1>1, IInvHolds, PTL

(* For any number of threads, timers and buckets, Header.Inserted is set for exactly the  *)
(* timers in the table or in the hands of the owner of KiTimerMtx, so that KeSetTimerEx    *)
(* and KeCancelTimer never unlink a timer that is not linked nor leave one behind.         *)
THEOREM TimersKept == Spec => []NoTimerLost
<1>1. IInv => NoTimerLost
  BY DEF IInv
<1> QED
  BY <1>1, IInvHolds, PTL

(* Every timer is in the bucket of its due time, every bucket is sorted and its Time is no *)
(* later than its first timer's: what KiClockIsr and KiTimerExpiration go by (the latter    *)
(* asserts it), whatever KeSetTimerEx, KeSetSystemTime and the expirations did before.      *)
THEOREM TableInOrder == Spec => []TableConsistent
<1>1. IInv => TableConsistent
  BY DEF IInv
<1> QED
  BY <1>1, IInvHolds, PTL


-----------------------------------------------------------------------------
(* No timer expires early *)

(* A step that expires t leaves the others alone. *)
LEMMA TouchesDue ==
    ASSUME NEW t \in Timers, Touches(db, db', t), db.DueTime[t] <= KeInterruptTime
    PROVE  ExpiresOnlyDue
BY DEF ExpiresOnlyDue, Touches

(* While timers are signalled, only the owner of the lock changes the table, and it       *)
(* expires timers that are due.                                                          *)
LEMMA ExpiresOnlyDueStep == IInv /\ [Next]_vars => [ExpiresOnlyDue]_vars
<1> SUFFICES ASSUME IInv, Next PROVE ExpiresOnlyDue
  OBVIOUS
<1>1. CASE ~Signalling
  BY <1>1 DEF ExpiresOnlyDue
<1>2. CASE db'.Inserted = db.Inserted /\ db'.DueTime = db.DueTime
  BY <1>2 DEF ExpiresOnlyDue
<1>3. ASSUME NEW th \in Threads, pc[th] \in Inside, Signalling
      PROVE  /\ TimerLock = th
             /\ pc[th] = "scan" \/ (pc[th] = "reinsert" /\ absolutes = <<>>)
  BY <1>3, OwnerFacts DEF Signalling
<1>4. Guests \cup Executors \cup {Clock} = Threads
  BY DEF Threads
<1>5. CASE HostTimeChanges \/ ClockStep
  BY <1>2, <1>5 DEF HostTimeChanges, ClockStep, AdvanceClocks, TakeHostTime, ClockSetsSystemTime,
                    KeSetSystemTime, CheckTimers, SkipCheck
<1>6. ASSUME NEW th \in Guests \cup Executors, GuestCall(th), Signalling PROVE ExpiresOnlyDue
  <2>1. TimerLock # NoThread
    BY <1>6 DEF Signalling
  <2>2. pc[th] \notin {"insert", "routine", "routineInsert"}
    BY <1>3, <1>4, <1>6 DEF Inside
  <2> QED
    BY <1>6, <2>1, <2>2 DEF GuestCall, KeSetTimerEx, InsertAndUnlock, KeCancelTimer,
                            NtSetSystemTime, KeSetSystemTime, Acquire
<1>7. ASSUME NEW th \in Guests \cup {Clock}, SetTimeStep(th), Signalling PROVE ExpiresOnlyDue
  <2>1. ASSUME NEW h, NEW i, CollectAbsolute(th, h, i) PROVE FALSE
    BY <1>3, <1>4, <1>7, <2>1 DEF CollectAbsolute, Inside
  <2>2. CASE ReinsertAbsolute(th)
    BY <1>3, <1>4, <1>7, <2>2 DEF ReinsertAbsolute, Inside
  <2>3. CASE CollectDone(th) \/ SystemTimeSet(th)
    BY <1>2, <2>3 DEF CollectDone, SystemTimeSet
  <2>4. CASE KiTimerListExpire(th)
    <3>1. PICK t \in Timers : t \in ToSet(expired) /\ Touches(db, db', t)
      BY <1>4, <1>7, <2>4, ListExpireTouches
    <3>2. db.DueTime[t] <= KeInterruptTime
      BY <3>1 DEF IInv, TransitOK
    <3> QED
      BY <3>1, <3>2, TouchesDue
  <2> QED
    BY <1>7, <2>1, <2>2, <2>3, <2>4 DEF SetTimeStep
<1>8. ASSUME NEW e \in Executors, KiTimerExpiration(e) PROVE ExpiresOnlyDue
  <2>1. CASE ExpireHead(e)
    <3>1. PICK t \in Timers : Touches(db, db', t) /\ db.DueTime[t] <= dueBy[e]
      BY <2>1, ExpireHeadTouches
    <3>2. db.DueTime[t] \in Times
      BY TableParts DEF IInv, TypeOK
    <3>3. db.DueTime[t] \in Nat /\ dueBy[e] \in Nat /\ KeInterruptTime \in Nat
      BY <3>2, Widths DEF IInv, TypeOK
    <3>4. dueBy[e] <= KeInterruptTime
      BY DEF IInv, DueByOK
    <3>5. db.DueTime[t] <= KeInterruptTime
      BY <3>1, <3>3, <3>4
    <3> QED
      BY <3>1, <3>5, TouchesDue
  <2>2. CASE LeaveBucket(e)
    BY <1>2, <2>2, LeaveBucketTable
  <2>3. CASE StartExpiration(e) \/ BeginScan(e) \/ EmptyBucket(e) \/ CallTimerDpc(e)
             \/ TimerDpcReturns(e) \/ ResetAccounting(e) \/ EndScan(e)
    BY <1>2, <2>3 DEF StartExpiration, BeginScan, EmptyBucket, CallTimerDpc, TimerDpcReturns,
                      ResetAccounting, EndScan
  <2> QED
    BY <1>8, <2>1, <2>2, <2>3 DEF KiTimerExpiration
<1> QED
  BY <1>1, <1>5, <1>6, <1>7, <1>8 DEF Next

(* No timer expires before interrupt time has reached its due time, for any number of      *)
(* threads that execute KiTimerExpiration with times they read before they had the lock.   *)
THEOREM NoTimerEarly == Spec => NeverEarly
BY IInvHolds, ExpiresOnlyDueStep, PTL DEF Spec, NeverEarly


-----------------------------------------------------------------------------
(* KiTimerExpiration leaves nothing due behind *)

PeriodsSet == \A t \in Timers : db.Period[t] = 0 \/ \E s \in Settings : db.Period[t] = s.period

(* A timer that a DPC routine is setting is due later than the scan goes by. *)
SetLater ==
    \A e \in Executors :
        pc[e] = "routineInsert" /\ setting # NoTimer => db.DueTime[setting] > dueBy[e]

(* What ScannedBucketsDone needs besides: due times computed now are later than now. *)
ScanInv ==
    /\ KeInterruptTime <= MaxTime
    /\ PeriodsSet
    /\ SetLater
    /\ ScannedBucketsDone

(* The buckets of table d that e has passed hold nothing that was due. *)
Done(e, d) ==
    \A i \in range[e][1]..tick - 1 :
        \A t \in ToSet(d.Entry[i % TIMER_TABLE_SIZE]) : d.DueTime[t] > dueBy[e]

(* A time within the width is not changed by the reduction. *)
LEMMA NoWrap ==
    ASSUME NEW x \in Nat, x < TimeModulus
    PROVE  x % TimeModulus = x
BY TableAssumption

(* A periodic timer's next due time is later than now. *)
LEMMA NextDueLater ==
    ASSUME NEW r \in Tables, NEW t \in Timers, r.Period[t] # 0,
           KeInterruptTime \in Nat, KeInterruptTime <= MaxTime,
           \E s \in Settings : r.Period[t] = s.period
    PROVE  NextDue(r, t, KeInterruptTime) > KeInterruptTime
<1>1. PICK s \in Settings : r.Period[t] = s.period
  OBVIOUS
<1> DEFINE span == s.period * CLOCK_TIME_INCREMENT
<1>2. s.period \in Nat \ {0} /\ CLOCK_TIME_INCREMENT \in Nat \ {0} /\ MaxTime \in Nat
  BY <1>1, TimerAssumption, TableAssumption
<1>3. span \in Nat /\ span > 0
  <2>1. \A a, b \in Nat \ {0} : a * b \in Nat /\ a * b > 0
    OBVIOUS
  <2> QED
    BY <1>2, <2>1
<1>4. MaxTime + span < TimeModulus
  BY WidthAssumption
<1>5. NextDue(r, t, KeInterruptTime) = (KeInterruptTime + span) % TimeModulus
  BY <1>1 DEF NextDue
<1> HIDE DEF span
<1>6. KeInterruptTime + span \in Nat /\ KeInterruptTime + span < TimeModulus
  BY <1>2, <1>3, <1>4, TableAssumption
<1> QED
  BY <1>3, <1>5, <1>6, NoWrap

(* A due time that has not passed is later than now. *)
LEMMA DueAtLater ==
    ASSUME NEW s \in Settings, ~AlreadyPassed(s.due, KeSystemTime),
           KeInterruptTime \in Nat, KeInterruptTime <= MaxTime, KeSystemTime \in Nat
    PROVE  DueAt(s.due) > KeInterruptTime
<1> DEFINE interval == IF s.due >= 0 THEN KeSystemTime - s.due ELSE s.due
           x == KeInterruptTime - interval
<1>1. s.due \in Int /\ MaxTime \in Nat
  BY TimerAssumption
<1>2. MaxTime - s.due < TimeModulus /\ MaxTime + s.due < TimeModulus
  BY WidthAssumption
<1>3. x \in Nat /\ x > KeInterruptTime /\ x < TimeModulus
  <2>1. CASE s.due >= 0
    <3>1. s.due > KeSystemTime
      BY <1>1, <2>1 DEF AlreadyPassed
    <3> QED
      BY <1>1, <1>2, <2>1, <3>1, TableAssumption
  <2>2. CASE ~(s.due >= 0)
    BY <1>1, <1>2, <2>2, TableAssumption
  <2> QED
    BY <2>1, <2>2
<1>4. DueAt(s.due) = x % TimeModulus
  BY DEF DueAt
<1> HIDE DEF x
<1> QED
  BY <1>3, <1>4, NoWrap

(* Only the owner of the lock scans. *)
LEMMA OnlyOwnerScans ==
    /\ LockOK => \A e \in Executors : Scanning(e) => TimerLock = e
    /\ LockOK' => \A e \in Executors : Scanning(e)' => TimerLock' = e
BY DEF LockOK, Scanning, Inside, Threads

(* After a step of which nobody comes out scanning, nothing is to be shown of scans. *)
LEMMA NobodyScans ==
    ASSUME \A e \in Executors : ~Scanning(e)'
    PROVE  SetLater' /\ ScannedBucketsDone'
BY DEF SetLater, ScannedBucketsDone, Scanning

(* A step that leaves the table, and every scan that goes on, alone. *)
LEMMA ScansUndisturbed ==
    ASSUME SetLater, ScannedBucketsDone, db' = db, setting' = setting,
           \A e \in Executors : Scanning(e)' =>
              /\ Scanning(e) /\ tick' = tick
              /\ pc'[e] = "routineInsert" => pc[e] = "routineInsert"
              /\ range'[e] = range[e] /\ dueBy'[e] = dueBy[e]
    PROVE  SetLater' /\ ScannedBucketsDone'
<1>1. \A e \in Executors : pc'[e] = "routineInsert" => Scanning(e)'
  BY DEF Scanning
<1>2. SetLater'
  BY <1>1 DEF SetLater
<1>3. ScannedBucketsDone'
  BY DEF ScannedBucketsDone
<1> QED
  BY <1>2, <1>3

(* A change to one timer, which is later than the scan goes by if it is linked afterwards. *)
LEMMA DoneTouched ==
    ASSUME NEW e \in Executors, NEW d, NEW r, NEW t, Touches(d, r, t), Done(e, d),
           range[e][1] \in Nat, tick \in Nat,
           t \in Linked(r) => r.DueTime[t] > dueBy[e]
    PROVE  Done(e, r)
<1> SUFFICES ASSUME NEW i \in range[e][1]..tick - 1,
                    NEW u \in ToSet(r.Entry[i % TIMER_TABLE_SIZE])
             PROVE  r.DueTime[u] > dueBy[e]
  BY DEF Done
<1>1. i % TIMER_TABLE_SIZE \in Hands
  BY TableAssumption DEF Hands
<1>2. u \in Linked(r)
  BY <1>1 DEF Linked
<1>3. u \in Timers
  BY <1>2, LinkedTimers DEF Touches
<1>4. CASE u # t
  <2>1. u \in ToSet(d.Entry[i % TIMER_TABLE_SIZE]) /\ r.DueTime[u] = d.DueTime[u]
    BY <1>1, <1>3, <1>4 DEF Touches
  <2> QED
    BY <2>1 DEF Done
<1> QED
  BY <1>2, <1>4


(* The step of a thread that owns the lock afterwards: only its own scan matters. *)
LEMMA OwnerScans ==
    ASSUME LockOK', NEW th \in Threads, TimerLock' = th,
           th \in Executors /\ Scanning(th)' =>
              /\ Done(th, db)'
              /\ pc'[th] = "routineInsert" /\ setting' # NoTimer =>
                    db'.DueTime[setting'] > dueBy'[th]
    PROVE  SetLater' /\ ScannedBucketsDone'
<1>1. \A e \in Executors : Scanning(e)' => e = th
  BY OnlyOwnerScans
<1>2. \A e \in Executors : pc'[e] = "routineInsert" => Scanning(e)'
  BY DEF Scanning
<1>3. SetLater'
  BY <1>1, <1>2 DEF SetLater
<1>4. ScannedBucketsDone'
  BY <1>1 DEF ScannedBucketsDone, Done
<1> QED
  BY <1>3, <1>4

(* The parts of ScanInv put together again. *)
LEMMA ScanReassemble ==
    ASSUME ScanInv, KeInterruptTime' = KeInterruptTime, db'.Period = db.Period,
           SetLater', ScannedBucketsDone'
    PROVE  ScanInv'
BY DEF ScanInv, PeriodsSet

(* What is due after now is due after the time a scan goes by. *)
LEMMA LaterThanScan ==
    ASSUME IInv, NEW e \in Executors, NEW x \in Int, x > KeInterruptTime
    PROVE  x > dueBy[e]
BY DEF IInv, TypeOK, DueByOK

(* The due times of a table are numbers. *)
LEMMA DueTimeInt ==
    ASSUME NEW d, Good(d), NEW t \in Timers
    PROVE  d.DueTime[t] \in Int
<1>1. d.DueTime[t] \in Times
  BY TableParts DEF Good
<1>2. Times \subseteq Int
  BY TableAssumption DEF Times
<1> QED
  BY <1>1, <1>2

(* A scan before a step that changes neither its range nor its place. *)
LEMMA DoneSame ==
    ASSUME NEW e, UNCHANGED <<range, tick, dueBy>>
    PROVE  Done(e, db)' <=> Done(e, db')
BY DEF Done

(* KeSetTimerEx. *)
LEMMA KeSetTimerExScan ==
    ASSUME NEW th \in Guests \cup Executors, NEW t \in Timers, NEW s \in Settings,
           IInv, IInv', ScanInv, KeSetTimerEx(th, t, s.due, s.period, s.dpc)
    PROVE  ScanInv'
<1> DEFINE passed == AlreadyPassed(s.due, KeSystemTime)
<1>1. th \in Threads
  BY DEF Threads
<1>2. /\ db' = Prepared(t, s.due, s.period, s.dpc)
      /\ setting' = IF passed THEN NoTimer ELSE t
      /\ UNCHANGED <<KeInterruptTime, range, tick, dueBy>>
  BY DEF KeSetTimerEx, clocks, expiration
<1>3. \/ pc[th] = "idle" /\ TimerLock = NoThread /\ TimerLock' = th /\ pc'[th] = "insert"
      \/ pc[th] = "routine" /\ TimerLock' = TimerLock /\ pc'[th] = "routineInsert"
  BY <1>1 DEF KeSetTimerEx, Acquire, Goto, IInv, TypeOK
<1>4. (pc[th] = "routine" => TimerLock = th) /\ NothingOut
  <2>1. CASE pc[th] = "routine"
    BY <1>1, <2>1, OwnerFacts DEF Inside
  <2>2. CASE pc[th] = "idle" /\ TimerLock = NoThread
    BY <2>2, FreeFacts
  <2> QED
    BY <1>3, <2>1, <2>2
<1>5. /\ Touches(db, db', t)
      /\ db'.Period[t] = s.period
      /\ passed =>
            /\ db'.Inserted[t] <=> t \in Linked(db')
            /\ db'.Inserted[t] =>
                  db'.Period[t] # 0 /\ db'.DueTime[t] = NextDue(db', t, KeInterruptTime)
      /\ ~passed =>
            db'.Inserted[t] /\ t \notin Linked(db') /\ db'.DueTime[t] = DueAt(s.due)
  BY <1>2, <1>4, PreparedTouches
<1>6. db' \in Tables /\ db'.DueTime[t] \in Int
  BY <1>5, DueTimeInt DEF Touches, Good
<1>7. KeInterruptTime \in Nat /\ KeInterruptTime <= MaxTime /\ KeSystemTime \in Nat
  BY DEF IInv, TypeOK, ScanInv
<1>8. ~passed => db'.DueTime[t] > KeInterruptTime
  BY <1>5, <1>7, DueAtLater
<1>9. t \in Linked(db') => db'.DueTime[t] > KeInterruptTime
  <2>1. passed /\ t \in Linked(db') =>
           db'.Period[t] # 0 /\ db'.DueTime[t] = NextDue(db', t, KeInterruptTime)
    BY <1>5
  <2>2. \E q \in Settings : db'.Period[t] = q.period
    BY <1>5
  <2> QED
    BY <1>6, <1>7, <1>8, <2>1, <2>2, NextDueLater
<1>10. th \in Executors /\ Scanning(th)' =>
          /\ Done(th, db)'
          /\ pc'[th] = "routineInsert" /\ setting' # NoTimer => db'.DueTime[setting'] > dueBy'[th]
  <2> HAVE th \in Executors /\ Scanning(th)'
  <2>1. pc[th] = "routine" /\ Scanning(th)
    BY <1>3 DEF Scanning
  <2>2. Done(th, db)
    BY <2>1 DEF ScanInv, ScannedBucketsDone, Done
  <2>3. range[th][1] \in Nat /\ tick \in Nat
    BY DEF IInv, TypeOK
  <2>4. t \in Linked(db') => db'.DueTime[t] > dueBy[th]
    BY <1>6, <1>9, LaterThanScan
  <2>5. Done(th, db')
    BY <1>5, <2>2, <2>3, <2>4, DoneTouched
  <2>6. ~passed => db'.DueTime[t] > dueBy[th]
    BY <1>6, <1>8, LaterThanScan
  <2> HIDE DEF passed
  <2> QED
    BY <1>2, <2>5, <2>6, DoneSame
<1>11. TimerLock' = th
  BY <1>3, <1>4
<1>12. SetLater' /\ ScannedBucketsDone'
  BY <1>1, <1>10, <1>11, OwnerScans DEF IInv
<1>13. PeriodsSet'
  <2> SUFFICES ASSUME NEW u \in Timers
               PROVE  db'.Period[u] = 0 \/ \E q \in Settings : db'.Period[u] = q.period
    BY DEF PeriodsSet
  <2>1. CASE u = t
    BY <1>5, <2>1
  <2>2. CASE u # t
    BY <1>5, <2>2 DEF Touches, ScanInv, PeriodsSet
  <2> QED
    BY <2>1, <2>2
<1> QED
  BY <1>2, <1>7, <1>12, <1>13 DEF ScanInv

(* KeSetTimerEx inserts the timer. *)
LEMMA InsertAndUnlockScan ==
    ASSUME NEW th \in Guests \cup Executors, IInv, IInv', ScanInv, InsertAndUnlock(th)
    PROVE  ScanInv'
<1>1. th \in Threads /\ pc[th] \in {"insert", "routineInsert"}
  BY DEF Threads, InsertAndUnlock
<1>2. /\ db' = IF setting = NoTimer THEN db
               ELSE KxInsertTimer(db, setting, KeSystemTime, KeInterruptTime)
      /\ setting' = NoTimer
      /\ UNCHANGED <<KeInterruptTime, range, tick, dueBy>>
  BY DEF InsertAndUnlock, clocks, expiration
<1>3. /\ TimerLock = th
      /\ setting # NoTimer =>
            setting \in Timers /\ setting \notin Linked(db) /\ db.Inserted[setting]
  BY <1>1, SettingFacts
<1>4. Good(db) /\ KeInterruptTime \in Int /\ KeSystemTime \in Int
  BY TableFacts
<1>5. setting # NoTimer =>
         /\ Touches(db, db', setting)
         /\ db'.Inserted[setting] <=> setting \in Linked(db')
         /\ db'.Period = db.Period
         /\ \/ db'.DueTime[setting] = db.DueTime[setting]
            \/ db'.Inserted[setting] =>
                  /\ db'.Period[setting] # 0
                  /\ db'.DueTime[setting] = NextDue(db', setting, KeInterruptTime)
  BY <1>2, <1>3, <1>4, KxInsertTouches
<1>6. db'.Period = db.Period
  BY <1>2, <1>5
<1>7. CASE pc[th] = "insert"
  <2>1. TimerLock' = NoThread
    BY <1>7 DEF InsertAndUnlock, Release
  <2>2. \A e \in Executors : ~Scanning(e)'
    BY <2>1, OnlyOwnerScans, TimerAssumption DEF IInv
  <2> QED
    BY <1>2, <1>6, <2>2, NobodyScans, ScanReassemble
<1>8. CASE pc[th] = "routineInsert"
  <2>1. TimerLock' = th
    BY <1>3, <1>8 DEF InsertAndUnlock
  <2>2. ASSUME th \in Executors PROVE Done(th, db')
    <3>1. Done(th, db)
      BY <1>8, <2>2 DEF Scanning, ScanInv, ScannedBucketsDone, Done
    <3>2. CASE setting = NoTimer
      BY <1>2, <3>1, <3>2
    <3>3. CASE setting # NoTimer
      <4>1. setting \in Timers /\ Good(db') /\ db' \in Tables /\ db'.DueTime[setting] \in Int
        BY <1>3, <1>5, <3>3, DueTimeInt DEF Touches, Good
      <4>2. db.DueTime[setting] > dueBy[th]
        BY <1>8, <2>2, <3>3 DEF ScanInv, SetLater
      <4>3. ASSUME setting \in Linked(db'), db'.DueTime[setting] # db.DueTime[setting]
            PROVE  db'.DueTime[setting] > dueBy[th]
        <5>1. /\ db'.Period[setting] # 0
              /\ db'.DueTime[setting] = NextDue(db', setting, KeInterruptTime)
          BY <1>5, <3>3, <4>3
        <5>2. \E q \in Settings : db'.Period[setting] = q.period
          BY <1>6, <4>1, <5>1 DEF ScanInv, PeriodsSet
        <5>3. KeInterruptTime \in Nat /\ KeInterruptTime <= MaxTime
          BY DEF IInv, TypeOK, ScanInv
        <5>4. db'.DueTime[setting] > KeInterruptTime
          BY <4>1, <5>1, <5>2, <5>3, NextDueLater
        <5> QED
          BY <2>2, <4>1, <5>4, LaterThanScan
      <4>4. setting \in Linked(db') => db'.DueTime[setting] > dueBy[th]
        BY <4>2, <4>3
      <4>5. range[th][1] \in Nat /\ tick \in Nat
        BY <2>2 DEF IInv, TypeOK
      <4> QED
        BY <1>5, <2>2, <3>1, <3>3, <4>4, <4>5, DoneTouched
    <3> QED
      BY <3>2, <3>3
  <2>3. th \in Executors /\ Scanning(th)' =>
           /\ Done(th, db)'
           /\ pc'[th] = "routineInsert" /\ setting' # NoTimer =>
                 db'.DueTime[setting'] > dueBy'[th]
    BY <1>2, <2>2, DoneSame
  <2>4. SetLater' /\ ScannedBucketsDone'
    BY <1>1, <2>1, <2>3, OwnerScans DEF IInv
  <2> QED
    BY <1>2, <1>6, <2>4, ScanReassemble
<1> QED
  BY <1>1, <1>7, <1>8

(* KeCancelTimer. *)
LEMMA KeCancelTimerScan ==
    ASSUME NEW th \in Guests \cup Executors, NEW t \in Timers, IInv, IInv', ScanInv,
           KeCancelTimer(th, t)
    PROVE  ScanInv'
<1>1. /\ db' = KxRemoveTreeTimer(db, t)
      /\ UNCHANGED <<KeInterruptTime, range, tick, dueBy, TimerLock, pc, setting>>
  BY DEF KeCancelTimer, clocks, expiration
<1>2. Touches(db, db', t) /\ t \notin Linked(db') /\ db'.Period = db.Period
  BY <1>1, TableFacts, KxRemoveTouches
<1>3. CASE TimerLock = NoThread
  <2>1. \A e \in Executors : ~Scanning(e)'
    BY <1>1, <1>3, OnlyOwnerScans, TimerAssumption DEF IInv
  <2> QED
    BY <1>1, <1>2, <2>1, NobodyScans, ScanReassemble
<1>4. CASE pc[th] = "routine"
  <2>1. th \in Threads /\ TimerLock = th /\ NothingOut
    BY <1>4, OwnerFacts DEF Threads, Inside
  <2>2. ASSUME th \in Executors PROVE Done(th, db')
    <3>1. Done(th, db)
      BY <1>4, <2>2 DEF Scanning, ScanInv, ScannedBucketsDone, Done
    <3>2. range[th][1] \in Nat /\ tick \in Nat
      BY <2>2 DEF IInv, TypeOK
    <3> QED
      BY <1>2, <2>2, <3>1, <3>2, DoneTouched
  <2>3. th \in Executors /\ Scanning(th)' =>
           /\ Done(th, db)'
           /\ pc'[th] = "routineInsert" /\ setting' # NoTimer =>
                 db'.DueTime[setting'] > dueBy'[th]
    BY <1>1, <2>1, <2>2, DoneSame DEF NothingOut
  <2>4. SetLater' /\ ScannedBucketsDone'
    BY <1>1, <2>1, <2>3, OwnerScans DEF IInv
  <2> QED
    BY <1>1, <1>2, <2>4, ScanReassemble
<1> QED
  BY <1>3, <1>4 DEF KeCancelTimer


(* KeSetSystemTime takes timers out and puts them back: nobody scans meanwhile. *)
LEMMA SetTimeScan ==
    ASSUME NEW th \in Guests \cup {Clock}, IInv, IInv', ScanInv, SetTimeStep(th)
    PROVE  ScanInv'
<1>1. th \in Threads /\ pc[th] \in {"collect", "reinsert"} /\ UNCHANGED KeInterruptTime
  BY DEF Threads, SetTimeStep, CollectAbsolute, CollectDone, ReinsertAbsolute,
         KiTimerListExpire, SystemTimeSet, clocks
<1>2. TimerLock = th
  BY <1>1, OwnerFacts DEF Inside
<1>3. db'.Period = db.Period
  <2>1. ASSUME NEW h \in Hands, NEW i \in DOMAIN db.Entry[h], CollectAbsolute(th, h, i)
        PROVE  db'.Period = db.Period
    BY <2>1, CollectTouches DEF CollectAbsolute
  <2>2. CASE CollectDone(th) \/ SystemTimeSet(th)
    BY <2>2 DEF CollectDone, SystemTimeSet
  <2> QED
    BY <1>1, <2>1, <2>2, ReinsertTouches, ListExpireTouches DEF SetTimeStep
<1>4. \/ TimerLock' = NoThread
      \/ TimerLock' = th /\ pc'[th] \in {"collect", "reinsert"}
  BY <1>1, <1>2 DEF SetTimeStep, CollectAbsolute, CollectDone, ReinsertAbsolute,
         KiTimerListExpire, SystemTimeSet, Release, Goto, IInv, TypeOK
<1>5. \A e \in Executors : ~Scanning(e)'
  <2> SUFFICES ASSUME NEW e \in Executors, Scanning(e)' PROVE FALSE
    OBVIOUS
  <2>1. TimerLock' = e
    BY OnlyOwnerScans DEF IInv
  <2>2. e # NoThread
    BY TimerAssumption
  <2> QED
    BY <1>4, <2>1, <2>2 DEF Scanning
<1> QED
  BY <1>1, <1>3, <1>5, NobodyScans, ScanReassemble

(* The clock goes on while somebody scans. *)
LEMMA ClockScan ==
    ASSUME IInv, ScanInv, HostTimeChanges \/ ClockStep
    PROVE  ScanInv'
<1>1. KeInterruptTime' <= MaxTime
  BY DEF ScanInv, HostTimeChanges, ClockStep, AdvanceClocks, TakeHostTime, ClockSetsSystemTime,
         KeSetSystemTime, CheckTimers, SkipCheck, clocks
<1>2. UNCHANGED <<db, setting, tick, range, dueBy>>
  BY DEF HostTimeChanges, ClockStep, AdvanceClocks, TakeHostTime, ClockSetsSystemTime,
         KeSetSystemTime, CheckTimers, SkipCheck, expiration
<1>3. \A e \in Executors : pc'[e] = pc[e]
  <2>1. \A e \in Executors : e # Clock /\ e \in Threads
    BY TimerAssumption DEF Threads
  <2>2. pc' = pc \/ \E l : pc' = [pc EXCEPT ![Clock] = l]
    BY DEF HostTimeChanges, ClockStep, AdvanceClocks, TakeHostTime, ClockSetsSystemTime,
           KeSetSystemTime, CheckTimers, SkipCheck, Goto
  <2> QED
    BY <2>1, <2>2 DEF IInv, TypeOK
<1>4. SetLater' /\ ScannedBucketsDone'
  BY <1>2, <1>3, ScansUndisturbed DEF ScanInv, Scanning
<1> QED
  BY <1>1, <1>2, <1>4 DEF ScanInv, PeriodsSet

(* A guest thread takes the lock to set the system time. *)
LEMMA NtSetSystemTimeScan ==
    ASSUME NEW th \in Guests \cup Executors, NEW newTime \in SystemTimes,
           IInv, ScanInv, NtSetSystemTime(th, newTime)
    PROVE  ScanInv'
<1>1. UNCHANGED <<KeInterruptTime, db, setting, tick, range, dueBy>>
  BY DEF NtSetSystemTime, KeSetSystemTime, clocks, expiration
<1>2. \A e \in Executors : pc'[e] = pc[e] \/ pc'[e] = "collect"
  BY DEF NtSetSystemTime, KeSetSystemTime, Goto, IInv, TypeOK, Threads
<1>3. SetLater' /\ ScannedBucketsDone'
  BY <1>1, <1>2, ScansUndisturbed DEF ScanInv, Scanning
<1> QED
  BY <1>1, <1>3, ScanReassemble

(* The steps of KiTimerExpiration that neither change the table nor leave a bucket. *)
LEMMA ExpirationScan ==
    ASSUME NEW e \in Executors, IInv, IInv', ScanInv,
           \/ StartExpiration(e) \/ CallTimerDpc(e) \/ TimerDpcReturns(e)
           \/ ResetAccounting(e) \/ EndScan(e)
    PROVE  ScanInv'
<1>1. UNCHANGED <<KeInterruptTime, db, setting>>
  BY DEF StartExpiration, CallTimerDpc, TimerDpcReturns, ResetAccounting, EndScan, clocks
<1>2. e \in Threads /\ pc \in [Threads -> Locations]
      /\ range \in [Executors -> Nat \X Nat] /\ dueBy \in [Executors -> Nat]
  BY DEF Threads, IInv, TypeOK
<1>3. CASE StartExpiration(e)
  <2>1. tick' = tick /\ \A f \in Executors : f # e =>
           pc'[f] = pc[f] /\ range'[f] = range[f] /\ dueBy'[f] = dueBy[f]
    BY <1>2, <1>3 DEF StartExpiration, Goto, Threads
  <2>2. pc'[e] = "expire"
    BY <1>2, <1>3 DEF StartExpiration, Goto
  <2>3. SetLater' /\ ScannedBucketsDone'
    BY <1>1, <2>1, <2>2, ScansUndisturbed DEF ScanInv, Scanning
  <2> QED
    BY <1>1, <2>3, ScanReassemble
<1>4. CASE CallTimerDpc(e) \/ TimerDpcReturns(e) \/ ResetAccounting(e)
           \/ (EndScan(e) /\ dpcCalls # <<>>)
  <2>1. UNCHANGED <<tick, range, dueBy>>
    BY <1>4 DEF CallTimerDpc, TimerDpcReturns, ResetAccounting, EndScan, expiration
  <2>2. Scanning(e) /\ pc'[e] \in {"scan", "dpcs", "routine"}
        /\ \A f \in Executors : f # e => pc'[f] = pc[f]
    BY <1>2, <1>4 DEF CallTimerDpc, TimerDpcReturns, ResetAccounting, EndScan, Goto, Scanning,
                      Threads
  <2>3. SetLater' /\ ScannedBucketsDone'
    BY <1>1, <2>1, <2>2, ScansUndisturbed DEF ScanInv, Scanning
  <2> QED
    BY <1>1, <2>3, ScanReassemble
<1>5. CASE EndScan(e) /\ dpcCalls = <<>>
  <2>1. TimerLock' = NoThread
    BY <1>5 DEF EndScan, Release
  <2>2. \A f \in Executors : ~Scanning(f)'
    BY <2>1, OnlyOwnerScans, TimerAssumption DEF IInv
  <2> QED
    BY <1>1, <2>2, NobodyScans, ScanReassemble
<1> QED
  BY <1>3, <1>4, <1>5


(* A scan begins: it has passed no bucket. *)
LEMMA BeginScanScan ==
    ASSUME NEW e \in Executors, IInv, IInv', ScanInv, BeginScan(e)
    PROVE  ScanInv'
<1>1. /\ UNCHANGED <<KeInterruptTime, db, setting, range, dueBy>>
      /\ tick' = range[e][1] /\ TimerLock' = e /\ e \in Threads
  BY DEF BeginScan, Acquire, clocks, Threads
<1>2. pc'[e] = "scan"
  BY <1>1 DEF BeginScan, Goto, IInv, TypeOK
<1>3. range[e][1] \in Nat
  BY DEF IInv, TypeOK
<1>4. range'[e][1]..tick' - 1 = {}
  BY <1>1, <1>3
<1>5. Done(e, db)'
  BY <1>4 DEF Done
<1>6. SetLater' /\ ScannedBucketsDone'
  BY <1>1, <1>2, <1>5, OwnerScans DEF IInv
<1> QED
  BY <1>1, <1>6, ScanReassemble

(* A scan leaves a bucket: it is empty, or sorted with a first timer that is not due. *)
LEMMA NextBucketScan ==
    ASSUME NEW e \in Executors, IInv, IInv', ScanInv, EmptyBucket(e) \/ LeaveBucket(e)
    PROVE  ScanInv'
<1>1. /\ UNCHANGED <<KeInterruptTime, setting, range, dueBy, TimerLock>>
      /\ tick' = tick + 1 /\ pc[e] = "scan" /\ e \in Threads
  BY DEF EmptyBucket, LeaveBucket, clocks, Threads
<1>2. TimerLock' = e /\ NothingOut
  BY <1>1, OwnerFacts DEF Inside
<1>3. db'.Entry = db.Entry /\ db'.DueTime = db.DueTime /\ db'.Period = db.Period
  BY LeaveBucketTable DEF EmptyBucket
<1>4. Hand \in Hands /\ range[e][1] \in Nat /\ tick \in Nat /\ dueBy[e] \in Nat
  BY HandIn DEF IInv, TypeOK
<1>5. Good(db) /\ db.Entry[Hand] \in Seq(Timers)
  BY <1>4, TableFacts, TableParts DEF IInv, TypeOK
<1>6. ASSUME NEW t \in ToSet(db.Entry[Hand]) PROVE db.DueTime[t] > dueBy[e]
  <2> DEFINE q == db.Entry[Hand]
  <2>1. PICK i \in DOMAIN q : t = q[i]
    BY <1>6 DEF ToSet
  <2>2. q # <<>> /\ i \in 1..Len(q) /\ 1 \in 1..Len(q) /\ Head(q) = q[1]
    BY <1>5, <2>1
  <2>3. db.DueTime[q[1]] > dueBy[e]
    BY <2>2 DEF EmptyBucket, LeaveBucket
  <2>4. 1 < i => db.DueTime[q[1]] <= db.DueTime[q[i]]
    BY <1>4, <1>5, <2>1, <2>2 DEF Good, Bucket
  <2>5. db.DueTime[q[1]] \in Int /\ db.DueTime[q[i]] \in Int
    BY <1>5, <2>2, DueTimeInt
  <2> HIDE DEF q
  <2> QED
    BY <1>4, <2>1, <2>2, <2>3, <2>4, <2>5
<1>7. Done(e, db)
  BY <1>1 DEF Scanning, ScanInv, ScannedBucketsDone, Done
<1>8. Done(e, db)'
  <2> SUFFICES ASSUME NEW i \in range[e][1]..tick,
                      NEW t \in ToSet(db.Entry[i % TIMER_TABLE_SIZE])
               PROVE  db.DueTime[t] > dueBy[e]
    BY <1>1, <1>3, <1>4 DEF Done
  <2>1. CASE i = tick
    BY <1>6, <2>1 DEF Hand
  <2>2. CASE i # tick
    BY <1>4, <1>7, <2>2, i \in range[e][1]..tick - 1 DEF Done
  <2> QED
    BY <2>1, <2>2
<1>9. SetLater' /\ ScannedBucketsDone'
  BY <1>1, <1>2, <1>8, OwnerScans DEF IInv, NothingOut
<1> QED
  BY <1>1, <1>3, <1>9, ScanReassemble

(* A scan expires a timer: if the timer is linked again, it is due later. *)
LEMMA ExpireHeadScan ==
    ASSUME NEW e \in Executors, IInv, IInv', ScanInv, ExpireHead(e)
    PROVE  ScanInv'
<1>1. /\ UNCHANGED <<KeInterruptTime, setting, range, tick, dueBy, TimerLock>>
      /\ pc[e] = "scan" /\ e \in Threads
  BY DEF ExpireHead, clocks, Threads
<1>2. TimerLock' = e /\ NothingOut
  BY <1>1, OwnerFacts DEF Inside
<1>3. PICK t \in Timers :
         /\ Touches(db, db', t)
         /\ db'.Inserted[t] <=> t \in Linked(db')
         /\ db'.Period = db.Period
         /\ db'.Inserted[t] =>
               db'.Period[t] # 0 /\ db'.DueTime[t] = NextDue(db', t, KeInterruptTime)
  BY ExpireHeadTouches
<1>4. db' \in Tables /\ db'.DueTime[t] \in Int
  BY <1>3, DueTimeInt DEF Touches, Good
<1>5. ASSUME t \in Linked(db') PROVE db'.DueTime[t] > dueBy[e]
  <2>1. db'.Period[t] # 0 /\ db'.DueTime[t] = NextDue(db', t, KeInterruptTime)
    BY <1>3, <1>5
  <2>2. \E s \in Settings : db'.Period[t] = s.period
    BY <1>3, <2>1 DEF ScanInv, PeriodsSet
  <2>3. KeInterruptTime \in Nat /\ KeInterruptTime <= MaxTime
    BY DEF IInv, TypeOK, ScanInv
  <2>4. db'.DueTime[t] > KeInterruptTime
    BY <1>4, <2>1, <2>2, <2>3, NextDueLater
  <2> QED
    BY <1>4, <2>4, LaterThanScan
<1>6. Done(e, db)
  BY <1>1 DEF Scanning, ScanInv, ScannedBucketsDone, Done
<1>7. range[e][1] \in Nat /\ tick \in Nat
  BY DEF IInv, TypeOK
<1>8. Done(e, db')
  BY <1>3, <1>5, <1>6, <1>7, DoneTouched
<1>9. Done(e, db)'
  BY <1>1, <1>8, DoneSame
<1>10. SetLater' /\ ScannedBucketsDone'
  BY <1>1, <1>2, <1>9, OwnerScans DEF IInv, NothingOut
<1> QED
  BY <1>1, <1>3, <1>10, ScanReassemble

(* Every step keeps ScanInv. *)
LEMMA NextScanInv == IInv /\ IInv' /\ ScanInv /\ [Next]_vars => ScanInv'
<1> SUFFICES ASSUME IInv, IInv', ScanInv, [Next]_vars PROVE ScanInv'
  OBVIOUS
<1>1. CASE UNCHANGED vars
  BY <1>1 DEF vars, clocks, expiration, ScanInv, PeriodsSet, SetLater, ScannedBucketsDone,
              Scanning
<1>2. ASSUME NEW th \in Guests \cup Executors, GuestCall(th) PROVE ScanInv'
  BY <1>2, KeSetTimerExScan, InsertAndUnlockScan, KeCancelTimerScan, NtSetSystemTimeScan
     DEF GuestCall
<1>3. ASSUME NEW e \in Executors, KiTimerExpiration(e) PROVE ScanInv'
  BY <1>3, ExpirationScan, BeginScanScan, NextBucketScan, ExpireHeadScan DEF KiTimerExpiration
<1> QED
  BY <1>1, <1>2, <1>3, ClockScan, SetTimeScan DEF Next

(* KiTimerExpiration leaves no timer that was due when it started in a bucket it has      *)
(* passed, for any number of timers and whatever its DPC routines set and cancel, as long  *)
(* as due times do not wrap around.                                                       *)
THEOREM NothingLeftBehind == Spec => []ScannedBucketsDone
<1>1. Init => ScanInv
  <2> SUFFICES ASSUME Init PROVE ScanInv
    OBVIOUS
  <2>1. KeInterruptTime <= MaxTime
    BY WidthAssumption DEF Init
  <2>2. PeriodsSet
    BY DEF Init, EmptyTable, PeriodsSet
  <2>3. \A e \in Executors : pc[e] = "idle"
    BY DEF Init, Threads
  <2> QED
    BY <2>1, <2>2, <2>3 DEF ScanInv, SetLater, ScannedBucketsDone, Scanning
<1>2. ScanInv => ScannedBucketsDone
  BY DEF ScanInv
<1> QED
  BY <1>1, <1>2, IInvHolds, NextScanInv, PTL DEF Spec

=============================================================================
