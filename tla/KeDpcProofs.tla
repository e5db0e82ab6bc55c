---------------------------- MODULE KeDpcProofs ----------------------------
(***************************************************************************)
(* Proofs about the DPC queue for any number of threads and KDPC objects.  *)
(***************************************************************************)
EXTENDS KeDpc, ListLemmas

(* Every variable keeps its type and the owner of g_DpcData.Lock is the thread inside   *)
(* the loop of ExecuteDpcQueue: mutual exclusion on the queue.                          *)
THEOREM TypeCorrect == Spec => []TypeOK
<1>1. Init => TypeOK
  <2>1. <<>> \in Seq(Dpcs)
    OBVIOUS
  <2>2. \A t \in Threads : t # NoThread
    BY DpcAssumption DEF DpcAssumption
  <2> SUFFICES ASSUME Init PROVE TypeOK
    OBVIOUS
  <2>3. Flink \in [Nodes -> Nodes \cup {Null}] /\ Blink \in [Nodes -> Nodes \cup {Null, Junk}]
    BY DEF Init, Nodes
  <2>4. /\ Inserted \in [Dpcs -> BOOLEAN] /\ HasRoutine \in [Dpcs -> BOOLEAN]
        /\ pc \in [Threads -> Locations] /\ frames \in [Threads -> Seq(Dpcs)]
        /\ spoiled \in 0..MaxSpoiled
    BY <2>1, DpcAssumption DEF Init, Locations, DpcAssumption
  <2>5. /\ DpcLock \in Threads \cup {NoThread} /\ IsDpcPending \in BOOLEAN
        /\ IsDpcActive \in BOOLEAN
        /\ \A t \in Threads : DpcLock = t <=> pc[t] \in {"loop", "leave"}
    BY <2>2 DEF Init
  <2> QED
    BY <2>3, <2>4, <2>5 DEF TypeOK
<1>2. TypeOK /\ [Next]_vars => TypeOK'
  <2> SUFFICES ASSUME TypeOK, [Next]_vars PROVE TypeOK'
    OBVIOUS
  <2> USE DpcAssumption DEF DpcAssumption, TypeOK, Locations, Goto, Nodes
  <2>1. ASSUME NEW t \in Threads, NEW d \in Dpcs, KeInsertQueueDpc(t, d) PROVE TypeOK'
    BY <2>1 DEF KeInsertQueueDpc, InGuestCode, InsertTailList
  <2>2. ASSUME NEW t \in Threads, SetPending(t) PROVE TypeOK'
    BY <2>2 DEF SetPending
  <2>3. ASSUME NEW t \in Threads, HalRequestSoftwareInterrupt(t) PROVE TypeOK'
    BY <2>3 DEF HalRequestSoftwareInterrupt
  <2>4. ASSUME NEW t \in Threads, KfLowerIrql(t) PROVE TypeOK'
    BY <2>4 DEF KfLowerIrql, InGuestCode
  <2>5. ASSUME NEW t \in Threads, CallSoftwareInterrupt(t) PROVE TypeOK'
    BY <2>5 DEF CallSoftwareInterrupt
  <2>6. CASE KeWaitForDpc
    BY <2>6 DEF KeWaitForDpc
  <2>7. ASSUME NEW t \in Threads, EnterQueue(t) PROVE TypeOK'
    BY <2>7 DEF EnterQueue
  <2>8. ASSUME NEW t \in Threads, SkipEntry(t) PROVE TypeOK'
    BY <2>8 DEF SkipEntry
  <2>9. ASSUME NEW t \in Threads, CallRoutine(t) PROVE TypeOK'
    BY <2>9 DEF CallRoutine, RemoveHeadList, RemoveEntryList
  <2>10. ASSUME NEW t \in Threads, RoutineReturns(t) PROVE TypeOK'
    <3>1. Front(frames[t]) \in Seq(Dpcs)
      BY <2>10, SubSeqProperties,
         \A i \in 1..Len(frames[t]) - 1 : frames[t][i] \in Dpcs DEF RoutineReturns, Front
    <3> QED
      BY <2>10, <3>1 DEF RoutineReturns
  <2>11. ASSUME NEW t \in Threads, ClearPending(t) PROVE TypeOK'
    BY <2>11 DEF ClearPending
  <2>12. ASSUME NEW t \in Threads, LeaveQueue(t) PROVE TypeOK'
    BY <2>12 DEF LeaveQueue
  <2>13. ASSUME NEW t \in Threads, NEW d \in Dpcs, KeRemoveQueueDpc(t, d) PROVE TypeOK'
    BY <2>13 DEF KeRemoveQueueDpc, RemoveEntryList
  <2>14. ASSUME NEW t \in Threads, NEW d \in Dpcs, KeInitializeDpc(t, d) PROVE TypeOK'
    BY <2>14 DEF KeInitializeDpc
  <2>15. ASSUME NEW d \in Dpcs, GuestClobbersDpc(d) PROVE TypeOK'
    <3>1. spoiled' \in 0..MaxSpoiled
      BY <2>15 DEF GuestClobbersDpc
    <3>2. /\ Flink' \in [Nodes -> Nodes \cup {Null}]
          /\ Blink' \in [Nodes -> Nodes \cup {Null, Junk}]
      BY <2>15 DEF GuestClobbersDpc
    <3>3. Inserted' \in [Dpcs -> BOOLEAN] /\ HasRoutine' \in [Dpcs -> BOOLEAN]
      BY <2>15 DEF GuestClobbersDpc
    <3>4. UNCHANGED <<DpcLock, IsDpcPending, IsDpcActive, pc, frames>>
      BY <2>15 DEF GuestClobbersDpc
    <3> QED
      BY <3>1, <3>2, <3>3, <3>4
  <2>16. CASE UNCHANGED vars
    BY <2>16 DEF vars
  <2>17. ASSUME NEW t \in Threads, ResetQueue(t) PROVE TypeOK'
    BY <2>17 DEF ResetQueue, InitializeListHead
  <2>18. ASSUME NEW t \in Threads, DropEntry(t) PROVE TypeOK'
    BY <2>18 DEF DropEntry, RemoveHeadList, RemoveEntryList
  <2> QED
    BY <2>1, <2>2, <2>3, <2>4, <2>5, <2>6, <2>7, <2>8, <2>9, <2>10, <2>11, <2>12,
       <2>13, <2>14, <2>15, <2>16, <2>17, <2>18 DEF Next, KernelStep, GuestStep
<1>3. QED
  BY <1>1, <1>2, PTL DEF Spec

-----------------------------------------------------------------------------

(* The queue is q: InsertedIffQueued for one sequence, without the bound on its length.  *)
Queued(q) ==
    /\ q \in Seq(Dpcs)
    /\ IsInjective(q)
    /\ QueueIs(q)
    /\ ToSet(q) = {d \in Dpcs : Inserted[d]}

(* The strengthening that is inductive: some sequence is the queue. *)
LinksSound == \E q \in Seq(Dpcs) : Queued(q)

(* What EntryAt gives inside and outside the sequence, and that no entry comes twice.    *)
LEMMA EntriesDiffer ==
    ASSUME NEW q \in Seq(Dpcs), IsInjective(q)
    PROVE  /\ EntryAt(q, 0) = ListHead
           /\ EntryAt(q, Len(q) + 1) = ListHead
           /\ \A i \in 1..Len(q) : EntryAt(q, i) = q[i] /\ q[i] \in Dpcs /\ q[i] # ListHead
           /\ \A i, j \in 0..Len(q) : EntryAt(q, i) = EntryAt(q, j) => i = j
<1>1. DOMAIN q = 1..Len(q) /\ Len(q) \in Nat
  OBVIOUS
<1>2. \A i \in 1..Len(q) : EntryAt(q, i) = q[i] /\ q[i] \in Dpcs /\ q[i] # ListHead
  BY <1>1, DpcAssumption DEF EntryAt, DpcAssumption
<1>3. EntryAt(q, 0) = ListHead /\ EntryAt(q, Len(q) + 1) = ListHead
  BY <1>1 DEF EntryAt
<1>4. ASSUME NEW i \in 0..Len(q), NEW j \in 0..Len(q), EntryAt(q, i) = EntryAt(q, j)
      PROVE  i = j
  <2>1. CASE i = 0 \/ j = 0
    BY <1>2, <1>3, <1>4, <2>1
  <2>2. CASE i \in 1..Len(q) /\ j \in 1..Len(q)
    BY <1>1, <1>2, <1>4, <2>2 DEF IsInjective
  <2> QED
    BY <1>1, <2>1, <2>2
<1> QED
  BY <1>2, <1>3, <1>4

(* A sequence without repetition is no longer than there are objects. *)
LEMMA QueueLength ==
    ASSUME NEW q \in Seq(Dpcs), IsInjective(q)
    PROVE  q \in SeqOf(Dpcs, Cardinality(Dpcs))
<1>1. q \in Injection(1..Len(q), Dpcs)
  BY DEF Injection
<1>2. Cardinality(1..Len(q)) <= Cardinality(Dpcs)
  BY <1>1, FS_Injection, DpcAssumption DEF DpcAssumption
<1>3. Cardinality(1..Len(q)) = Len(q) /\ Len(q) \in Nat
  <2>1. Len(q) \in Nat
    OBVIOUS
  <2>2. Cardinality(1..Len(q)) = IF 1 > Len(q) THEN 0 ELSE Len(q) - 1 + 1
    BY <2>1, FS_Interval
  <2> QED
    BY <2>1, <2>2
<1>4. Cardinality(Dpcs) \in Nat
  BY FS_CardinalityType, DpcAssumption DEF DpcAssumption
<1>5. q \in [1..Len(q) -> Dpcs] /\ Len(q) \in 0..Cardinality(Dpcs)
  BY <1>2, <1>3, <1>4
<1> QED
  BY <1>5 DEF SeqOf

(* InsertTailList of an object that is not in the queue puts it at its end.              *)
LEMMA InsertTailLinks ==
    ASSUME TypeOK, NEW q, Queued(q), NEW d \in Dpcs, ~Inserted[d], InsertTailList(d)
    PROVE  QueueIs(Append(q, d))'
<1> DEFINE L == Len(q)
           r == Append(q, d)
<1>1. /\ q \in Seq(Dpcs) /\ IsInjective(q) /\ L \in Nat /\ DOMAIN q = 1..L
      /\ \A i \in 0..L : Flink[EntryAt(q, i)] = EntryAt(q, i + 1)
      /\ Blink[ListHead] = EntryAt(q, L)
      /\ \A i \in 1..L : Blink[q[i]] \in {EntryAt(q, i - 1), Junk}
  BY DEF Queued, QueueIs
<1>2. /\ EntryAt(q, 0) = ListHead /\ EntryAt(q, L + 1) = ListHead
      /\ \A i \in 1..L : EntryAt(q, i) = q[i] /\ q[i] \in Dpcs /\ q[i] # ListHead
      /\ \A i, j \in 0..L : EntryAt(q, i) = EntryAt(q, j) => i = j
  BY <1>1, EntriesDiffer
<1>3. d # ListHead /\ \A i \in 0..L : EntryAt(q, i) # d /\ EntryAt(q, i) \in Nodes
  <2>1. d # ListHead
    BY DpcAssumption DEF DpcAssumption
  <2>2. \A i \in 1..L : q[i] # d
    BY <1>1 DEF Queued, ToSet
  <2> QED
    BY <1>1, <1>2, <2>1, <2>2 DEF Nodes
<1>4. /\ Len(r) = L + 1
      /\ DOMAIN r = 1..L + 1
      /\ \A i \in 1..L : r[i] = q[i]
      /\ r[L + 1] = d
  BY <1>1
<1>5. /\ \A i \in 0..L : EntryAt(r, i) = EntryAt(q, i)
      /\ EntryAt(r, L + 1) = d
      /\ EntryAt(r, L + 2) = ListHead
  BY <1>1, <1>4 DEF EntryAt
<1>6. /\ \A x \in Nodes : Flink'[x] = IF x = EntryAt(q, L) THEN d
                                       ELSE IF x = d THEN ListHead ELSE Flink[x]
      /\ \A x \in Nodes : Blink'[x] = IF x = ListHead THEN d
                                       ELSE IF x = d THEN EntryAt(q, L) ELSE Blink[x]
  BY <1>1, <1>3 DEF InsertTailList, TypeOK, Nodes
<1> HIDE DEF r, L
<1>7. \A i \in 0..L + 1 : Flink'[EntryAt(r, i)] = EntryAt(r, i + 1)
  <2>1. ASSUME NEW i \in 0..L - 1 PROVE Flink'[EntryAt(r, i)] = EntryAt(r, i + 1)
    <3>1. i \in 0..L /\ i + 1 \in 0..L /\ L \in 0..L /\ i # L
      BY <1>1
    <3>2. EntryAt(r, i) = EntryAt(q, i) /\ EntryAt(r, i + 1) = EntryAt(q, i + 1)
      BY <1>5, <3>1
    <3>3. EntryAt(q, i) # EntryAt(q, L) /\ EntryAt(q, i) # d /\ EntryAt(q, i) \in Nodes
      BY <1>2, <1>3, <3>1
    <3> QED
      BY <1>1, <1>6, <3>1, <3>2, <3>3
  <2>2. Flink'[EntryAt(r, L)] = EntryAt(r, L + 1)
    BY <1>1, <1>3, <1>5, <1>6
  <2>3. Flink'[EntryAt(r, L + 1)] = EntryAt(r, L + 2)
    <3>1. EntryAt(q, L) # d /\ d \in Nodes
      BY <1>1, <1>3 DEF Nodes
    <3> QED
      BY <1>5, <1>6, <3>1
  <2> QED
    BY <1>1, <2>1, <2>2, <2>3
<1>8. Blink'[ListHead] = EntryAt(r, Len(r))
  BY <1>4, <1>5, <1>6 DEF Nodes
<1>9. ASSUME NEW i \in 1..L + 1 PROVE Blink'[r[i]] \in {EntryAt(r, i - 1), Junk}
  <2>1. CASE i \in 1..L
    <3>1. r[i] = q[i] /\ EntryAt(r, i - 1) = EntryAt(q, i - 1)
      BY <1>1, <1>4, <1>5, <2>1
    <3>2. q[i] # ListHead /\ q[i] # d /\ q[i] \in Nodes
      BY <1>1, <1>2, <1>3, <2>1
    <3> QED
      BY <1>1, <1>6, <2>1, <3>1, <3>2
  <2>2. CASE i = L + 1
    BY <1>1, <1>3, <1>4, <1>5, <1>6, <2>2 DEF Nodes
  <2> QED
    BY <1>1, <2>1, <2>2
<1> QED
  BY <1>4, <1>7, <1>8, <1>9 DEF QueueIs, r

(* Two neighbours of an entry linked to each other: the queue without the entry.         *)
LEMMA UnlinkLinks ==
    ASSUME TypeOK, NEW q, Queued(q), NEW k \in 1..Len(q),
           Flink' = [Flink EXCEPT ![EntryAt(q, k - 1)] = EntryAt(q, k + 1)],
           Blink' = [Blink EXCEPT ![EntryAt(q, k + 1)] = EntryAt(q, k - 1)]
    PROVE  QueueIs(RemoveAt(q, k))'
<1> DEFINE L == Len(q)
           r == RemoveAt(q, k)
           Old(i) == IF i < k THEN i ELSE i + 1
<1>1. /\ q \in Seq(Dpcs) /\ IsInjective(q) /\ L \in Nat /\ DOMAIN q = 1..L
      /\ \A i \in 0..L : Flink[EntryAt(q, i)] = EntryAt(q, i + 1)
      /\ Blink[ListHead] = EntryAt(q, L)
      /\ \A i \in 1..L : Blink[q[i]] \in {EntryAt(q, i - 1), Junk}
  BY DEF Queued, QueueIs
<1>2. /\ EntryAt(q, 0) = ListHead /\ EntryAt(q, L + 1) = ListHead
      /\ \A i \in 1..L : EntryAt(q, i) = q[i] /\ q[i] \in Dpcs /\ q[i] # ListHead
      /\ \A i, j \in 0..L : EntryAt(q, i) = EntryAt(q, j) => i = j
  BY <1>1, EntriesDiffer
<1>3. /\ r \in Seq(Dpcs)
      /\ Len(r) = L - 1
      /\ \A i \in 1..L - 1 : r[i] = q[Old(i)]
  BY <1>1, RemoveAtElements
<1>4. DOMAIN r = 1..L - 1
  BY <1>3
<1> HIDE DEF r
<1>5. \A i \in 0..L : EntryAt(r, i) = EntryAt(q, Old(i))
  BY <1>1, <1>3, <1>4 DEF EntryAt
<1>6. \A i \in 0..L : EntryAt(q, i) \in Nodes
  BY <1>1, <1>2 DEF Nodes
<1>7. /\ \A x \in Nodes : Flink'[x] = IF x = EntryAt(q, k - 1) THEN EntryAt(q, k + 1) ELSE Flink[x]
      /\ \A x \in Nodes : Blink'[x] = IF x = EntryAt(q, k + 1) THEN EntryAt(q, k - 1) ELSE Blink[x]
  BY DEF TypeOK
<1>0. k \in 1..L /\ L \in Nat
  BY <1>1
<1> HIDE DEF L
<1>8. ASSUME NEW i \in 0..L - 1 PROVE Flink'[EntryAt(r, i)] = EntryAt(r, i + 1)
  <2>1. Old(i) \in 0..L /\ k - 1 \in 0..L /\ Old(i + 1) \in 0..L + 1
    BY <1>0
  <2>2. EntryAt(r, i) = EntryAt(q, Old(i)) /\ EntryAt(r, i + 1) = EntryAt(q, Old(i + 1))
    BY <1>1, <1>5
  <2>3. CASE i = k - 1
    BY <1>1, <1>6, <1>7, <2>1, <2>2, <2>3
  <2>4. CASE i # k - 1
    <3>1. Old(i) # k - 1 /\ Old(i + 1) = Old(i) + 1
      BY <1>1, <2>4
    <3>2. EntryAt(q, Old(i)) # EntryAt(q, k - 1)
      BY <1>2, <2>1, <3>1
    <3> QED
      BY <1>1, <1>6, <1>7, <2>1, <2>2, <3>1, <3>2
  <2> QED
    BY <2>3, <2>4
<1>9. Blink'[ListHead] = EntryAt(r, L - 1)
  <2>1. ListHead \in Nodes /\ L - 1 \in 0..L
    BY <1>0 DEF Nodes
  <2>2. EntryAt(r, L - 1) = EntryAt(q, Old(L - 1))
    BY <1>5, <2>1
  <2>3. CASE k = L
    <3>1. Old(L - 1) = k - 1 /\ EntryAt(q, k + 1) = ListHead
      BY <1>0, <1>2, <2>3
    <3> QED
      BY <1>7, <2>1, <2>2, <3>1
  <2>4. CASE k # L
    <3>1. k + 1 \in 1..L /\ Old(L - 1) = L
      BY <1>0, <2>4
    <3>2. EntryAt(q, k + 1) # ListHead
      BY <1>2, <3>1
    <3> QED
      BY <1>1, <1>7, <2>1, <2>2, <3>1, <3>2
  <2> QED
    BY <2>3, <2>4
<1>10. ASSUME NEW i \in 1..L - 1 PROVE Blink'[r[i]] \in {EntryAt(r, i - 1), Junk}
  <2>1. /\ Old(i) \in 1..L /\ Old(i) \in 0..L /\ i - 1 \in 0..L /\ Old(i - 1) \in 0..L
        /\ r[i] = q[Old(i)]
        /\ EntryAt(r, i - 1) = EntryAt(q, Old(i - 1))
        /\ EntryAt(q, Old(i)) = q[Old(i)]
    BY <1>1, <1>2, <1>3, <1>5
  <2>2. CASE i = k
    BY <1>1, <1>6, <1>7, <2>1, <2>2
  <2>3. CASE i # k
    <3>1. Old(i) # k + 1 /\ Old(i - 1) = Old(i) - 1
      BY <1>1, <2>3
    <3>2. EntryAt(q, Old(i)) # EntryAt(q, k + 1)
      <4>1. CASE k = L
        BY <1>2, <2>1, <4>1
      <4>2. CASE k + 1 \in 0..L
        BY <1>2, <2>1, <3>1, <4>2
      <4> QED
        BY <1>0, <4>1, <4>2
    <3> QED
      BY <1>1, <1>6, <1>7, <2>1, <3>1, <3>2
  <2> QED
    BY <2>2, <2>3
<1> QED
  BY <1>3, <1>8, <1>9, <1>10 DEF QueueIs, r

(* The two ways an entry leaves the queue: by RemoveEntryList, or unlinked by hand.      *)
LEMMA RemoveStep ==
    ASSUME TypeOK, NEW q, Queued(q), NEW d \in Dpcs, d \in ToSet(q),
           Inserted' = [Inserted EXCEPT ![d] = FALSE],
           \/ RemoveEntryList(d)
           \/ /\ d = Flink[ListHead]
              /\ Flink' = [Flink EXCEPT ![ListHead] = Flink[d]]
              /\ Blink' = IF Flink[d] = Null THEN Blink
                          ELSE [Blink EXCEPT ![Flink[d]] = ListHead]
    PROVE  LinksSound'
<1>1. /\ q \in Seq(Dpcs) /\ IsInjective(q) /\ Len(q) \in Nat /\ DOMAIN q = 1..Len(q)
      /\ \A i \in 0..Len(q) : Flink[EntryAt(q, i)] = EntryAt(q, i + 1)
      /\ \A i \in 1..Len(q) : Blink[q[i]] \in {EntryAt(q, i - 1), Junk}
  BY DEF Queued, QueueIs
<1>2. /\ EntryAt(q, 0) = ListHead /\ EntryAt(q, Len(q) + 1) = ListHead
      /\ \A i \in 1..Len(q) : EntryAt(q, i) = q[i] /\ q[i] \in Dpcs /\ q[i] # ListHead
      /\ \A i, j \in 0..Len(q) : EntryAt(q, i) = EntryAt(q, j) => i = j
  BY <1>1, EntriesDiffer
<1>3. PICK k \in 1..Len(q) : q[k] = d
  BY <1>1 DEF ToSet
<1>4. Flink[d] = EntryAt(q, k + 1) /\ Blink[d] \in {EntryAt(q, k - 1), Junk}
  <2>1. k \in 0..Len(q) /\ EntryAt(q, k) = d
    BY <1>1, <1>2, <1>3
  <2> QED
    BY <1>1, <1>3, <2>1
<1>5. /\ EntryAt(q, k - 1) # Null /\ EntryAt(q, k - 1) # Junk
      /\ EntryAt(q, k + 1) # Null
  <2>1. k - 1 = 0 \/ k - 1 \in 1..Len(q)
    BY <1>1
  <2>2. k + 1 = Len(q) + 1 \/ k + 1 \in 1..Len(q)
    BY <1>1
  <2> QED
    BY <1>2, <2>1, <2>2, DpcAssumption DEF DpcAssumption
<1>6. /\ Flink' = [Flink EXCEPT ![EntryAt(q, k - 1)] = EntryAt(q, k + 1)]
      /\ Blink' = [Blink EXCEPT ![EntryAt(q, k + 1)] = EntryAt(q, k - 1)]
  <2>1. CASE RemoveEntryList(d)
    BY <1>4, <1>5, <2>1 DEF RemoveEntryList
  <2>2. CASE /\ d = Flink[ListHead]
             /\ Flink' = [Flink EXCEPT ![ListHead] = Flink[d]]
             /\ Blink' = IF Flink[d] = Null THEN Blink
                         ELSE [Blink EXCEPT ![Flink[d]] = ListHead]
    <3>1. EntryAt(q, 1) = d /\ EntryAt(q, k) = d /\ 1 \in 0..Len(q) /\ k \in 0..Len(q)
      BY <1>1, <1>2, <1>3, <2>2
    <3>2. k = 1
      BY <1>2, <3>1
    <3>3. EntryAt(q, k - 1) = ListHead
      BY <1>2, <3>2
    <3> QED
      BY <1>4, <1>5, <2>2, <3>3
  <2> QED
    BY <2>1, <2>2
<1> DEFINE r == RemoveAt(q, k)
<1>7. QueueIs(r)'
  BY <1>6, UnlinkLinks
<1>8. /\ r \in Seq(Dpcs)
      /\ IsInjective(r)
      /\ ToSet(r) = ToSet(q) \ {d}
  BY <1>1, <1>3, RemoveAtElements, RemoveLinked
<1>9. ToSet(r) = {c \in Dpcs : Inserted'[c]}
  BY <1>8 DEF Queued, TypeOK
<1> HIDE DEF r
<1>10. r' = r
  BY DEF r
<1> QED
  BY <1>7, <1>8, <1>9 DEF LinksSound, Queued

(* A step that writes none of the links, or only Junk over the Blink of a queued object. *)
LEMMA LinksKept ==
    ASSUME TypeOK, LinksSound, UNCHANGED <<Flink, Inserted>>,
           Blink' = Blink \/ \E d \in Dpcs : Blink' = [Blink EXCEPT ![d] = Junk]
    PROVE  LinksSound'
<1>1. PICK q \in Seq(Dpcs) : Queued(q)
  BY DEF LinksSound
<1>2. /\ Blink'[ListHead] = Blink[ListHead]
      /\ \A d \in Dpcs : Blink'[d] \in {Blink[d], Junk}
  BY DpcAssumption DEF DpcAssumption, TypeOK, Nodes
<1>3. QueueIs(q)'
  BY <1>1, <1>2 DEF Queued, QueueIs
<1> QED
  BY <1>1, <1>3 DEF LinksSound, Queued

(* While no nullptr has been written over links, every step keeps Inserted in agreement  *)
(* with the links.                                                                       *)
LEMMA QueueStep ==
    ASSUME TypeOK, LinksSound, [Next]_vars, spoiled' = 0
    PROVE  LinksSound'
<1>1. PICK q \in Seq(Dpcs) : Queued(q)
  BY DEF LinksSound
<1>2. Flink[ListHead] = EntryAt(q, 1) /\ (Flink[ListHead] \in Dpcs => Flink[ListHead] \in ToSet(q))
  <2>1. Len(q) \in Nat /\ DOMAIN q = 1..Len(q) /\ EntryAt(q, 0) = ListHead
    BY <1>1, EntriesDiffer DEF Queued
  <2>2. Flink[ListHead] = EntryAt(q, 1)
    BY <1>1, <2>1 DEF Queued, QueueIs
  <2>3. EntryAt(q, 1) = ListHead \/ EntryAt(q, 1) \in ToSet(q)
    BY <2>1 DEF EntryAt, ToSet
  <2> QED
    BY <2>2, <2>3, DpcAssumption DEF DpcAssumption
<1>3. ASSUME NEW t \in Threads, NEW d \in Dpcs, KeInsertQueueDpc(t, d)
      PROVE  LinksSound'
  <2> DEFINE r == Append(q, d)
  <2>1. ~Inserted[d] /\ Inserted' = [Inserted EXCEPT ![d] = TRUE] /\ InsertTailList(d)
    BY <1>3 DEF KeInsertQueueDpc
  <2>2. QueueIs(r)'
    BY <1>1, <2>1, InsertTailLinks
  <2>3. d \notin ToSet(q)
    BY <1>1, <2>1 DEF Queued
  <2>4. r \in Seq(Dpcs) /\ IsInjective(r) /\ ToSet(r) = ToSet(q) \cup {d}
    BY <1>1, <2>3, AppendUnlinked DEF Queued
  <2>5. ToSet(r) = {c \in Dpcs : Inserted'[c]}
    BY <1>1, <2>1, <2>4 DEF Queued, TypeOK
  <2> HIDE DEF r
  <2>6. r' = r
    BY DEF r
  <2> QED
    BY <2>2, <2>4, <2>5 DEF LinksSound, Queued
<1>4. ASSUME NEW t \in Threads, SkipEntry(t)
      PROVE  LinksSound'
  BY <1>1, <1>2, <1>4, RemoveStep DEF SkipEntry
<1>5. ASSUME NEW t \in Threads, DropEntry(t) \/ CallRoutine(t)
      PROVE  LinksSound'
  BY <1>1, <1>2, <1>5, RemoveStep DEF DropEntry, CallRoutine, RemoveHeadList
<1>6. ASSUME NEW t \in Threads, NEW d \in Dpcs, KeRemoveQueueDpc(t, d)
      PROVE  LinksSound'
  <2>1. d \in ToSet(q)
    BY <1>1, <1>6 DEF KeRemoveQueueDpc, Queued
  <2> QED
    BY <1>1, <1>6, <2>1, RemoveStep DEF KeRemoveQueueDpc
<1>7. ASSUME NEW t \in Threads, ResetQueue(t) PROVE LinksSound'
  <2>1. Flink[ListHead] \in Nodes
    BY <1>1, <1>2 DEF EntryAt, Nodes, Queued
  <2> QED
    BY <1>7, <2>1, DpcAssumption DEF ResetQueue, Nodes, DpcAssumption
<1>8. ASSUME NEW d \in Dpcs, GuestClobbersDpc(d) PROVE LinksSound'
  <2>1. spoiled' # spoiled + 1
    BY DEF TypeOK
  <2> QED
    BY <1>8, <2>1, LinksKept DEF GuestClobbersDpc
<1>9. CASE UNCHANGED <<Flink, Blink, Inserted>>
  BY <1>9, LinksKept
<1>10. QED
  BY <1>3, <1>4, <1>5, <1>6, <1>7, <1>8, <1>9
     DEF Next, KernelStep, GuestStep, vars, SetPending, HalRequestSoftwareInterrupt, KfLowerIrql,
         CallSoftwareInterrupt, KeWaitForDpc, EnterQueue, RoutineReturns, ClearPending,
         LeaveQueue, KeInitializeDpc

(* The strengthened invariant, from the empty queue on; spoiled never goes back to 0.    *)
LEMMA LinksAlwaysSound == Spec => [](spoiled = 0 => LinksSound)
<1>1. Init => LinksSound
  <2> SUFFICES ASSUME Init PROVE Queued(<<>>)
    BY <<>> \in Seq(Dpcs) DEF LinksSound
  <2>1. /\ <<>> \in Seq(Dpcs) /\ IsInjective(<<>>) /\ ToSet(<<>>) = {}
        /\ \A i \in 0..1 : EntryAt(<<>>, i) = ListHead
    BY DEF IsInjective, ToSet, EntryAt
  <2>2. QueueIs(<<>>)
    BY <2>1 DEF Init, QueueIs, Nodes
  <2> QED
    BY <2>1, <2>2 DEF Init, Queued
<1>2. TypeOK /\ (spoiled = 0 => LinksSound) /\ [Next]_vars => (spoiled = 0 => LinksSound)'
  <2> SUFFICES ASSUME TypeOK, spoiled = 0 => LinksSound, [Next]_vars, spoiled' = 0
               PROVE  LinksSound'
    OBVIOUS
  <2>1. spoiled = 0
    BY DEF TypeOK, Next, KernelStep, GuestStep, vars, SetPending, HalRequestSoftwareInterrupt,
           KfLowerIrql, CallSoftwareInterrupt, KeWaitForDpc, EnterQueue, ResetQueue, SkipEntry,
           DropEntry, CallRoutine, RoutineReturns, ClearPending, LeaveQueue, KeInsertQueueDpc,
           KeRemoveQueueDpc, KeInitializeDpc, GuestClobbersDpc
  <2> QED
    BY <2>1, QueueStep
<1> QED
  BY <1>1, <1>2, TypeCorrect, PTL DEF Spec

(* KDPC.Inserted is TRUE exactly for the objects linked in g_DpcData.DpcQueue, each      *)
(* linked once and both ways, however many threads queue, remove and run DPCs, while a   *)
(* title clears routines and writes small values over the Blink of queued objects, until *)
(* it first writes nullptr over the links of one.                                        *)
THEOREM InsertedIffQueuedThm == Spec => []InsertedIffQueued
<1>1. (spoiled = 0 => LinksSound) => InsertedIffQueued
  BY QueueLength DEF LinksSound, Queued, InsertedIffQueued
<1> QED
  BY <1>1, LinksAlwaysSound, PTL

-----------------------------------------------------------------------------

(* What is left of the links, whatever the title writes over them: an object marked      *)
(* inserted that leads back to the head is the one the head leads to, and a head that    *)
(* leads back to itself leads to no object.                                              *)
HeadOK ==
    /\ \A d \in Dpcs : Inserted[d] /\ Blink[d] = ListHead => Flink[ListHead] = d
    /\ Blink[ListHead] = ListHead => Flink[ListHead] \in {ListHead, Null}

(* RemoveEntryList of an object marked inserted, or of the one the head leads to.        *)
LEMMA RemoveKeepsHead ==
    ASSUME TypeOK, HeadOK, NEW d \in Dpcs, Inserted[d] \/ Flink[ListHead] = d, RemoveEntryList(d),
           Inserted' = [Inserted EXCEPT ![d] = FALSE]
    PROVE  HeadOK'
<1>1. /\ \A x \in Nodes : Flink'[x] = IF x = Blink[d] THEN Flink[d] ELSE Flink[x]
      /\ \A x \in Nodes : Blink'[x] = IF x = Flink[d] THEN Blink[d] ELSE Blink[x]
      /\ \A c \in Dpcs : Inserted'[c] <=> Inserted[c] /\ c # d
  BY DpcAssumption DEF RemoveEntryList, TypeOK, Nodes, DpcAssumption
<1>2. ListHead \in Nodes /\ Dpcs \subseteq Nodes /\ ListHead \notin Dpcs /\ Null \notin Dpcs
      /\ ListHead # Null
  BY DpcAssumption DEF Nodes, DpcAssumption
<1>3. ASSUME NEW c \in Dpcs, Inserted'[c], Blink'[c] = ListHead PROVE Flink'[ListHead] = c
  <2>1. CASE c = Flink[d]
    BY <1>1, <1>2, <1>3, <2>1
  <2>2. CASE c # Flink[d]
    <3>1. Flink[ListHead] = c /\ c # d
      BY <1>1, <1>2, <1>3, <2>2 DEF HeadOK
    <3> QED
      BY <1>1, <1>2, <3>1 DEF HeadOK
  <2> QED
    BY <2>1, <2>2
<1>4. ASSUME Blink'[ListHead] = ListHead PROVE Flink'[ListHead] \in {ListHead, Null}
  <2>1. CASE Flink[d] = ListHead
    BY <1>1, <1>2, <1>4, <2>1
  <2>2. CASE Flink[d] # ListHead
    BY <1>1, <1>2, <1>4, <2>2 DEF HeadOK
  <2> QED
    BY <2>1, <2>2
<1> QED
  BY <1>3, <1>4 DEF HeadOK

(* The head keeps this much under every step, the writes of nullptr included.            *)
LEMMA HeadStep ==
    ASSUME TypeOK, HeadOK, [Next]_vars
    PROVE  HeadOK'
<1>0. ListHead \in Nodes /\ Dpcs \subseteq Nodes /\ ListHead \notin Dpcs /\ Null \notin Dpcs
      /\ ListHead # Null /\ Junk # ListHead
  BY DpcAssumption DEF Nodes, DpcAssumption
<1>1. ASSUME NEW t \in Threads, NEW d \in Dpcs, KeInsertQueueDpc(t, d) PROVE HeadOK'
  <2>1. /\ Blink[ListHead] \in Nodes
        /\ \A x \in Nodes : Flink'[x] = IF x = Blink[ListHead] THEN d
                                        ELSE IF x = d THEN ListHead ELSE Flink[x]
        /\ \A x \in Nodes : Blink'[x] = IF x = ListHead THEN d
                                        ELSE IF x = d THEN Blink[ListHead] ELSE Blink[x]
        /\ \A c \in Dpcs : Inserted'[c] <=> Inserted[c] \/ c = d
    BY <1>0, <1>1 DEF KeInsertQueueDpc, InsertTailList, TypeOK
  <2>2. ASSUME NEW c \in Dpcs, Inserted'[c], Blink'[c] = ListHead PROVE Flink'[ListHead] = c
    <3>1. CASE c = d
      BY <1>0, <2>1, <2>2, <3>1
    <3>2. CASE c # d
      <4>1. Flink[ListHead] = c
        BY <1>0, <2>1, <2>2, <3>2 DEF HeadOK
      <4>2. Blink[ListHead] # ListHead
        BY <1>0, <4>1 DEF HeadOK
      <4> QED
        BY <1>0, <2>1, <4>1, <4>2
    <3> QED
      BY <3>1, <3>2
  <2>3. Blink'[ListHead] # ListHead
    BY <1>0, <2>1
  <2> QED
    BY <2>2, <2>3 DEF HeadOK
<1>2. ASSUME NEW t \in Threads, ResetQueue(t) PROVE HeadOK'
  BY <1>0, <1>2 DEF ResetQueue, InitializeListHead, HeadOK, TypeOK
<1>3. ASSUME NEW t \in Threads, SkipEntry(t) PROVE HeadOK'
  <2> DEFINE d == Flink[ListHead]
  <2>1. /\ d \in Dpcs
        /\ Flink'[ListHead] = Flink[d]
        /\ \A x \in Nodes : Blink'[x] = IF x = Flink[d] THEN ListHead ELSE Blink[x]
        /\ \A c \in Dpcs : Inserted'[c] <=> Inserted[c] /\ c # d
    BY <1>0, <1>3, DpcAssumption DEF SkipEntry, TypeOK, Nodes, DpcAssumption
  <2> QED
    BY <1>0, <2>1 DEF HeadOK
<1>4. ASSUME NEW t \in Threads, DropEntry(t) \/ CallRoutine(t) PROVE HeadOK'
  BY <1>4, RemoveKeepsHead DEF DropEntry, CallRoutine, RemoveHeadList
<1>5. ASSUME NEW t \in Threads, NEW d \in Dpcs, KeRemoveQueueDpc(t, d) PROVE HeadOK'
  BY <1>5, RemoveKeepsHead DEF KeRemoveQueueDpc
<1>6. ASSUME NEW d \in Dpcs, GuestClobbersDpc(d) PROVE HeadOK'
  <2>1. /\ Flink'[ListHead] = Flink[ListHead] /\ Blink'[ListHead] = Blink[ListHead]
        /\ \A c \in Dpcs : Inserted'[c] => Inserted[c]
        /\ \A c \in Dpcs : Blink'[c] \in {Blink[c], Null, Junk}
    BY <1>0, <1>6 DEF GuestClobbersDpc, TypeOK
  <2> QED
    BY <1>0, <2>1 DEF HeadOK
<1>7. CASE UNCHANGED <<Flink, Blink, Inserted>>
  BY <1>7 DEF HeadOK
<1>8. QED
  BY <1>1, <1>2, <1>3, <1>4, <1>5, <1>6, <1>7
     DEF Next, KernelStep, GuestStep, vars, SetPending, HalRequestSoftwareInterrupt, KfLowerIrql,
         CallSoftwareInterrupt, KeWaitForDpc, EnterQueue, RoutineReturns, ClearPending,
         LeaveQueue, KeInitializeDpc

(* The head keeps it from the empty queue on. *)
LEMMA HeadAlwaysOK == Spec => []HeadOK
<1>1. Init => HeadOK
  BY DpcAssumption DEF Init, HeadOK, Nodes, DpcAssumption
<1>2. TypeOK /\ HeadOK /\ [Next]_vars => HeadOK'
  BY HeadStep
<1> QED
  BY <1>1, <1>2, TypeCorrect, PTL DEF Spec

(* No wakeup of KeWaitForDpc is lost: while the head of the queue leads anywhere,        *)
(* IsDpcPending is set or about to be set by the thread that queued a DPC, whatever a    *)
(* title writes over queued objects.  Only KeInsertQueueDpc makes the queue non-empty:   *)
(* a removal from an empty one leaves it empty.                                          *)
THEOREM QueuedIsPendingThm == Spec => []QueuedIsPending
<1>1. Init => QueuedIsPending
  BY DEF Init, QueuedIsPending, IsListEmpty, Nodes
<1>2. TypeOK /\ HeadOK /\ QueuedIsPending /\ [Next]_vars => QueuedIsPending'
  <2> SUFFICES ASSUME TypeOK, HeadOK, QueuedIsPending, [Next]_vars PROVE QueuedIsPending'
    OBVIOUS
  <2> USE DEF TypeOK, QueuedIsPending, IsListEmpty, Goto
  <2>1. ASSUME NEW t \in Threads, NEW d \in Dpcs, KeInsertQueueDpc(t, d)
        PROVE  QueuedIsPending'
    BY <2>1 DEF KeInsertQueueDpc
  <2>2. ASSUME NEW t \in Threads, SetPending(t) PROVE QueuedIsPending'
    BY <2>2 DEF SetPending
  <2>3. ASSUME NEW t \in Threads,
               ResetQueue(t) \/ SkipEntry(t) \/ DropEntry(t) \/ CallRoutine(t)
        PROVE  QueuedIsPending'
    <3>1. Flink[ListHead] # ListHead
      BY <2>3, DpcAssumption
         DEF ResetQueue, SkipEntry, DropEntry, CallRoutine, RemoveHeadList, DpcAssumption
    <3>2. \A c \in Threads : pc[c] = "setPending" => pc'[c] = "setPending"
      BY <2>3 DEF ResetQueue, SkipEntry, DropEntry, CallRoutine
    <3>3. IsDpcPending' = IsDpcPending
      BY <2>3 DEF ResetQueue, SkipEntry, DropEntry, CallRoutine
    <3> QED
      BY <3>1, <3>2, <3>3
  <2>4. ASSUME NEW t \in Threads, NEW d \in Dpcs, KeRemoveQueueDpc(t, d)
        PROVE  QueuedIsPending'
    <3>1. Flink'[ListHead] # Flink[ListHead] => Flink[ListHead] = d
      BY <2>4 DEF KeRemoveQueueDpc, RemoveEntryList, HeadOK, Nodes
    <3>2. d # ListHead
      BY DpcAssumption DEF DpcAssumption
    <3> QED
      BY <2>4, <3>1, <3>2 DEF KeRemoveQueueDpc
  <2>5. ASSUME NEW t \in Threads, ClearPending(t) PROVE QueuedIsPending'
    BY <2>5 DEF ClearPending
  <2>6. ASSUME NEW d \in Dpcs, GuestClobbersDpc(d) PROVE QueuedIsPending'
    <3>1. Flink'[ListHead] = Flink[ListHead] /\ UNCHANGED <<IsDpcPending, pc>>
      BY <2>6, DpcAssumption DEF GuestClobbersDpc, DpcAssumption, Nodes
    <3> QED
      BY <3>1
  <2>7. CASE KeWaitForDpc
    BY <2>7, DpcAssumption DEF KeWaitForDpc, DpcAssumption
  <2>8. ASSUME NEW t \in Threads,
               \/ HalRequestSoftwareInterrupt(t) \/ KfLowerIrql(t) \/ CallSoftwareInterrupt(t)
               \/ EnterQueue(t) \/ RoutineReturns(t) \/ LeaveQueue(t)
        PROVE  QueuedIsPending'
    BY <2>8 DEF HalRequestSoftwareInterrupt, KfLowerIrql, InGuestCode, CallSoftwareInterrupt,
                EnterQueue, RoutineReturns, LeaveQueue
  <2>9. CASE UNCHANGED <<Flink, IsDpcPending, pc>>
    BY <2>9
  <2> QED
    BY <2>1, <2>2, <2>3, <2>4, <2>5, <2>6, <2>7, <2>8, <2>9
       DEF Next, KernelStep, GuestStep, vars, KeInitializeDpc
<1>3. QED
  BY <1>1, <1>2, TypeCorrect, HeadAlwaysOK, PTL DEF Spec

(* IsDpcActive is never left set with nobody inside a routine, so the threads that       *)
(* CallSoftwareInterrupt turns away leave the queue to one that will come back to it.    *)
THEOREM ActiveHasRunnerThm == Spec => []ActiveHasRunner
<1>1. Init => ActiveHasRunner
  BY DEF Init, ActiveHasRunner
<1>2. TypeOK /\ ActiveHasRunner /\ [Next]_vars => ActiveHasRunner'
  <2> SUFFICES ASSUME TypeOK, ActiveHasRunner, [Next]_vars PROVE ActiveHasRunner'
    OBVIOUS
  <2>1. ASSUME NEW t \in Threads, CallRoutine(t) PROVE ActiveHasRunner'
    <3>1. frames'[t] = Append(frames[t], Flink[ListHead]) /\ Flink[ListHead] \in Dpcs
      BY <2>1 DEF CallRoutine, RemoveHeadList, TypeOK
    <3>2. frames'[t] # <<>>
      BY <3>1, AppendProperties DEF TypeOK
    <3> QED
      BY <3>2 DEF ActiveHasRunner
  <2>2. ASSUME NEW t \in Threads, RoutineReturns(t) PROVE ActiveHasRunner'
    BY <2>2 DEF RoutineReturns, ActiveHasRunner
  <2>3. CASE UNCHANGED <<IsDpcActive, frames>>
    BY <2>3 DEF ActiveHasRunner
  <2> QED
    BY <2>1, <2>2, <2>3
       DEF Next, KernelStep, GuestStep, vars, SetPending, HalRequestSoftwareInterrupt, KfLowerIrql,
           CallSoftwareInterrupt, KeWaitForDpc, EnterQueue, ResetQueue, SkipEntry, DropEntry, ClearPending,
           LeaveQueue,
           KeInsertQueueDpc, KeRemoveQueueDpc, KeInitializeDpc, GuestClobbersDpc
<1>3. QED
  BY <1>1, <1>2, TypeCorrect, PTL DEF Spec
=============================================================================
