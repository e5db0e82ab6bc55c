---------------------------- MODULE KiWaitProofs ----------------------------
(***************************************************************************)
(* Proofs about waiting and signalling for any number of threads, events   *)
(* and semaphores.                                                         *)
(***************************************************************************)
EXTENDS KiWait, ListLemmas

(* What a thread inside a call knows: the kind of object it works on, that a count it is  *)
(* about to store is within the limit, that it is Waiting before it links its block, and,  *)
(* with the lock, which waiter it is about to unlink.                                    *)
CallOf(t) ==
    /\ pc[t] # "guest" => object[t] \in Objects
    /\ pc[t] \in {"setEvent", "setSignal", "pulse", "reset"} => object[t] \in Events
    /\ pc[t] \in {"satisfyStore", "recheckStore", "grantStore", "release", "releaseTest"} =>
          object[t] \in Semaphores
    /\ pc[t] \in {"satisfyStore", "recheckStore", "grantStore"} => seen[t] <= Limit
    /\ pc[t] = "release" => seen[t] + 1 <= Limit
    /\ pc[t] = "insert" => State[t] = "Waiting"
    /\ pc[t] \in {"recheck", "recheckStore"} =>
          WaitList[object[t]] # <<>> /\ WaitList[object[t]][Len(WaitList[object[t]])] = t
    /\ pc[t] \in {"grant", "grantStore"} => WaitList[object[t]] # <<>>
    /\ t \in pulsing => pc[t] \in {"test", "grant"} /\ object[t] \in Events

CallOK == \A t \in Threads : CallOf(t)

(* KiWaitListMtx is held by the thread between its two steps and by no other. *)
LockOK == \A t \in Threads : WaitListLock = t <=> pc[t] \in LockHeld

IInv == TypeOK /\ WaitListIntegrity /\ CallOK /\ LockOK

(* A thread whose wait block has to be linked. *)
InWait(t) == pc[t] \in {"recheck", "recheckStore", "blocked"} /\ State[t] = "Waiting"

(* A step that leaves t's wait alone. *)
SameWait(t) == /\ InWait(t)' <=> InWait(t)
               /\ InWait(t) => object'[t] = object[t]

(* A step by s that every other thread survives: it works on its own part of the state,   *)
(* and on wait lists only when nobody else has the lock.                                 *)
StepOf(s) ==
    /\ \A t \in Threads \ {s} :
          /\ pc'[t] = pc[t] /\ object'[t] = object[t] /\ seen'[t] = seen[t]
          /\ t \in pulsing' => t \in pulsing
          /\ pc[t] = "insert" => State'[t] = State[t]
    /\ \/ WaitList' = WaitList /\ WaitListLock' = WaitListLock
       \/ WaitListLock \in {NoThread, s} /\ WaitListLock' \in {NoThread, s}

(* Such a step keeps what the other threads know of their calls, and the lock. *)
LEMMA OtherCalls ==
    ASSUME IInv, NEW s \in Threads, StepOf(s), CallOf(s)',
           WaitListLock' = s <=> pc'[s] \in LockHeld
    PROVE  CallOK' /\ LockOK'
<1>1. NoThread \notin Threads
  BY WaitAssumption DEF WaitAssumption
<1>2. LockOK'
  BY <1>1 DEF IInv, LockOK, StepOf
<1>3. ASSUME NEW t \in Threads \ {s} PROVE CallOf(t)'
  <2>1. pc[t] \in LockHeld => WaitList' = WaitList
    BY <1>1 DEF IInv, LockOK, StepOf
  <2>2. CallOf(t)
    BY DEF IInv, CallOK
  <2> QED
    BY <2>1, <2>2 DEF CallOf, StepOf, LockHeld
<1> QED
  BY <1>2, <1>3 DEF CallOK

(* Lists that are not touched. *)
LEMMA ListsKept ==
    ASSUME IInv, WaitList' = WaitList, \A t \in Threads : SameWait(t)
    PROVE  WaitListIntegrity'
<1>1. ASSUME NEW o \in Objects, NEW t \in Threads
      PROVE  t \in ToSet(WaitList'[o]) <=> InWait(t)' /\ object'[t] = o
  <2>1. t \in ToSet(WaitList[o]) <=> InWait(t) /\ object[t] = o
    BY DEF IInv, WaitListIntegrity, InWait
  <2> QED
    BY <2>1 DEF SameWait
<1> QED
  BY <1>1 DEF IInv, WaitListIntegrity, InWait

(* InsertTailList by a thread that begins to wait. *)
LEMMA Link ==
    ASSUME IInv, NEW s \in Threads, NEW o \in Objects,
           WaitList' = [WaitList EXCEPT ![o] = Append(WaitList[o], s)],
           ~InWait(s), InWait(s)', object'[s] = o, \A t \in Threads \ {s} : SameWait(t)
    PROVE  WaitList' \in [Objects -> Seq(Threads)] /\ WaitListIntegrity'
<1> DEFINE new == Append(WaitList[o], s)
<1>1. WaitList[o] \in Seq(Threads) /\ IsInjective(WaitList[o])
  BY DEF IInv, TypeOK, WaitListIntegrity
<1>2. s \notin ToSet(WaitList[o])
  BY DEF IInv, WaitListIntegrity, InWait
<1>3. IsInjective(new) /\ ToSet(new) = ToSet(WaitList[o]) \cup {s} /\ new \in Seq(Threads)
  BY <1>1, <1>2, AppendUnlinked
<1> HIDE DEF new
<1>4. /\ WaitList' \in [Objects -> Seq(Threads)]
      /\ WaitList'[o] = new
      /\ \A p \in Objects \ {o} : WaitList'[p] = WaitList[p]
  BY <1>3 DEF IInv, TypeOK, new
<1>5. \A p \in Objects : IsInjective(WaitList'[p])
  <2>1. \A p \in Objects \ {o} : IsInjective(WaitList'[p])
    BY <1>4 DEF IInv, WaitListIntegrity
  <2> QED
    BY <1>3, <1>4, <2>1
<1>6. ASSUME NEW p \in Objects, NEW t \in Threads
      PROVE  t \in ToSet(WaitList'[p]) <=> InWait(t)' /\ object'[t] = p
  <2>1. t \in ToSet(WaitList[p]) <=> InWait(t) /\ object[t] = p
    BY DEF IInv, WaitListIntegrity, InWait
  <2>2. t \in ToSet(WaitList'[p]) <=> t \in ToSet(WaitList[p]) \/ (p = o /\ t = s)
    BY <1>3, <1>4
  <2> QED
    BY <2>1, <2>2 DEF SameWait
<1> QED
  BY <1>4, <1>5, <1>6 DEF WaitListIntegrity, InWait

(* RemoveEntryList of a thread that stops waiting. *)
LEMMA Unlink ==
    ASSUME IInv, NEW o \in Objects, NEW i \in 1..Len(WaitList[o]), NEW u, u = WaitList[o][i],
           WaitList' = [WaitList EXCEPT ![o] = RemoveAt(WaitList[o], i)],
           ~InWait(u)', \A t \in Threads \ {u} : SameWait(t)
    PROVE  WaitList' \in [Objects -> Seq(Threads)] /\ WaitListIntegrity'
<1> DEFINE new == RemoveAt(WaitList[o], i)
<1>1. WaitList[o] \in Seq(Threads) /\ IsInjective(WaitList[o])
  BY DEF IInv, TypeOK, WaitListIntegrity
<1>2. IsInjective(new) /\ ToSet(new) = ToSet(WaitList[o]) \ {u} /\ new \in Seq(Threads)
  BY <1>1, RemoveLinked, RemoveAtElements
<1>3. u \in Threads /\ InWait(u) /\ object[u] = o
  <2>1. i \in DOMAIN WaitList[o]
    BY <1>1
  <2>2. u \in Threads /\ u \in ToSet(WaitList[o])
    BY <1>1, <2>1 DEF ToSet
  <2> QED
    BY <2>2 DEF IInv, WaitListIntegrity, InWait
<1> HIDE DEF new
<1>4. /\ WaitList' \in [Objects -> Seq(Threads)]
      /\ WaitList'[o] = new
      /\ \A p \in Objects \ {o} : WaitList'[p] = WaitList[p]
  BY <1>2 DEF IInv, TypeOK, new
<1>5. \A p \in Objects : IsInjective(WaitList'[p])
  <2>1. \A p \in Objects \ {o} : IsInjective(WaitList'[p])
    BY <1>4 DEF IInv, WaitListIntegrity
  <2> QED
    BY <1>2, <1>4, <2>1
<1>6. ASSUME NEW p \in Objects, NEW t \in Threads
      PROVE  t \in ToSet(WaitList'[p]) <=> InWait(t)' /\ object'[t] = p
  <2>1. t \in ToSet(WaitList[p]) <=> InWait(t) /\ object[t] = p
    BY DEF IInv, WaitListIntegrity, InWait
  <2>2. t \in ToSet(WaitList'[p]) <=> t \in ToSet(WaitList[p]) /\ ~(p = o /\ t = u)
    BY <1>2, <1>4
  <2> QED
    BY <1>3, <2>1, <2>2 DEF SameWait
<1> QED
  BY <1>4, <1>5, <1>6 DEF WaitListIntegrity, InWait

(* KiUnwaitThread on the first waiter of o, by a thread that waits for nothing. *)
LEMMA Unwait ==
    ASSUME IInv, NEW s \in Threads, NEW o \in Objects, WaitList[o] # <<>>, KiUnwaitThread(o, 1),
           ~InWait(s), ~InWait(s)',
           \A t \in Threads \ {s} : pc'[t] = pc[t] /\ object'[t] = object[t]
    PROVE  /\ WaitList' \in [Objects -> Seq(Threads)]
           /\ State' \in [Threads -> {"Running", "Waiting", "Ready"}]
           /\ WaitListIntegrity'
           /\ \A t \in Threads : pc[t] = "insert" => State'[t] = State[t]
<1>0. PICK u : u = WaitList[o][1]
  OBVIOUS
<1>1. WaitList[o] \in Seq(Threads)
  BY DEF IInv, TypeOK
<1>2. 1 \in 1..Len(WaitList[o])
  BY <1>1, EmptySeq
<1>3. u \in Threads /\ InWait(u)
  <2>1. 1 \in DOMAIN WaitList[o]
    BY <1>1, <1>2
  <2>2. u \in Threads /\ u \in ToSet(WaitList[o])
    BY <1>0, <1>1, <2>1 DEF ToSet
  <2> QED
    BY <2>2 DEF IInv, WaitListIntegrity, InWait
<1>4. /\ WaitList' = [WaitList EXCEPT ![o] = RemoveAt(WaitList[o], 1)]
      /\ State' = [State EXCEPT ![u] = "Ready"]
  BY <1>0 DEF KiUnwaitThread
<1>5. /\ State' \in [Threads -> {"Running", "Waiting", "Ready"}]
      /\ State'[u] = "Ready"
      /\ \A t \in Threads \ {u} : State'[t] = State[t]
  BY <1>3, <1>4 DEF IInv, TypeOK
<1>6. ~InWait(u)'
  BY <1>5 DEF InWait
<1>7. ASSUME NEW t \in Threads \ {u} PROVE SameWait(t)
  <2>1. CASE t = s
    BY <2>1 DEF SameWait
  <2>2. CASE t # s
    BY <1>5, <2>2 DEF SameWait, InWait
  <2> QED
    BY <2>1, <2>2
<1>8. WaitList' \in [Objects -> Seq(Threads)] /\ WaitListIntegrity'
  BY <1>0, <1>2, <1>4, <1>6, <1>7, Unlink
<1>9. ASSUME NEW t \in Threads, pc[t] = "insert" PROVE State'[t] = State[t]
  BY <1>3, <1>5, <1>9 DEF InWait
<1> QED
  BY <1>5, <1>8, <1>9

(* A step that touches no list and no wait. *)
LEMMA QuietStep ==
    ASSUME IInv, NEW t \in Threads, WaitList' = WaitList, TypeOK', CallOf(t)', SameWait(t),
           \A u \in Threads \ {t} :
               /\ pc'[u] = pc[u] /\ object'[u] = object[u] /\ seen'[u] = seen[u]
               /\ u \in pulsing' => u \in pulsing
               /\ State'[u] = State[u],
           \/ WaitListLock' = WaitListLock
           \/ WaitListLock \in {NoThread, t} /\ WaitListLock' \in {NoThread, t},
           WaitListLock' = t <=> pc'[t] \in LockHeld
    PROVE  IInv'
<1>1. \A u \in Threads : SameWait(u)
  BY DEF SameWait, InWait
<1>2. WaitListIntegrity'
  BY <1>1, ListsKept
<1>3. StepOf(t)
  BY DEF StepOf
<1> QED
  BY <1>2, <1>3, OtherCalls DEF IInv

(* Where a thread is with and without the lock, before its step. *)
LEMMA Before ==
    ASSUME IInv, NEW t \in Threads
    PROVE  /\ TypeOK
           /\ CallOf(t)
           /\ WaitListLock = t <=> pc[t] \in LockHeld
           /\ NoThread \notin Threads
           /\ Limit \in Nat
           /\ Events \subseteq Objects /\ Semaphores \subseteq Objects
           /\ Events \cap Semaphores = {} /\ Synchronizations \subseteq Events
  BY WaitAssumption DEF IInv, CallOK, LockOK, WaitAssumption, Objects, Events

(* The beginning and the end of a call. *)
LEMMA EnterCall ==
    ASSUME IInv, NEW t \in Threads, NEW o \in Objects, NEW l \in Locations, Enter(t, o, l)
    PROVE  /\ pc' \in [Threads -> Locations]
           /\ object' \in [Threads -> Objects \cup {NoObject}]
           /\ pc[t] = "guest" /\ pc'[t] = l /\ object'[t] = o /\ t \notin pulsing
           /\ \A u \in Threads \ {t} : pc'[u] = pc[u] /\ object'[u] = object[u]
<1>1. CallOf(t) /\ TypeOK
  BY Before
<1> QED
  BY <1>1 DEF TypeOK, Enter, Goto, CallOf

LEMMA ReturnCall ==
    ASSUME IInv, NEW t \in Threads, Return(t)
    PROVE  /\ pc' \in [Threads -> Locations]
           /\ object' \in [Threads -> Objects \cup {NoObject}]
           /\ seen' \in [Threads -> Int]
           /\ pc'[t] = "guest" /\ ~InWait(t)'
           /\ t \notin pulsing' => CallOf(t)'
           /\ \A u \in Threads \ {t} : /\ pc'[u] = pc[u] /\ object'[u] = object[u]
                                      /\ seen'[u] = seen[u]
<1>1. /\ pc' \in [Threads -> Locations]
      /\ object' \in [Threads -> Objects \cup {NoObject}]
      /\ seen' \in [Threads -> Int]
      /\ pc'[t] = "guest"
      /\ \A u \in Threads \ {t} : pc'[u] = pc[u] /\ object'[u] = object[u] /\ seen'[u] = seen[u]
  BY DEF IInv, TypeOK, Return, Goto, Locations
<1> QED
  BY <1>1 DEF CallOf, InWait

(* Loading SignalState[o]. *)
LEMMA LoadSignal ==
    ASSUME IInv, NEW t \in Threads, NEW o \in Objects, Load(t, o)
    PROVE  /\ seen' \in [Threads -> Int]
           /\ seen'[t] = SignalState[o]
           /\ \A u \in Threads \ {t} : seen'[u] = seen[u]
  BY DEF IInv, TypeOK, Load

(* Steps that begin a call, and BecomeWaiting. *)
LEMMA BeginSteps ==
    ASSUME IInv, NEW t \in Threads,
           \/ \E o \in Objects : KeWaitForSingleObject(t, o)
           \/ \E e \in Events : KeSetEvent(t, e) \/ KePulseEvent(t, e) \/ KeResetEvent(t, e)
           \/ \E m \in Semaphores : KeReleaseSemaphore(t, m)
           \/ BecomeWaiting(t)
    PROVE  IInv'
<1>0. /\ TypeOK /\ CallOf(t) /\ (WaitListLock = t <=> pc[t] \in LockHeld)
      /\ Events \subseteq Objects /\ Semaphores \subseteq Objects /\ Events \cap Semaphores = {}
  BY Before
<1>1. ASSUME NEW o \in Objects,
             NEW l \in {"satisfy", "wait", "setEvent", "pulse", "reset", "release"},
             Enter(t, o, l), seen' = seen \/ Load(t, o),
             l \in {"setEvent", "pulse", "reset"} => o \in Events,
             l = "release" => o \in Semaphores /\ SignalState[o] + 1 <= Limit /\ Load(t, o),
             UNCHANGED <<SignalState, WaitList, State, WaitListLock, pulsing>>
      PROVE  IInv'
  <2>1. l \in Locations
    BY DEF Locations
  <2>2. /\ pc' \in [Threads -> Locations]
        /\ object' \in [Threads -> Objects \cup {NoObject}]
        /\ pc[t] = "guest" /\ pc'[t] = l /\ object'[t] = o /\ t \notin pulsing
        /\ \A u \in Threads \ {t} : pc'[u] = pc[u] /\ object'[u] = object[u]
    BY <1>1, <2>1, EnterCall
  <2>3. seen' \in [Threads -> Int] /\ \A u \in Threads \ {t} : seen'[u] = seen[u]
    BY <1>0, <1>1, LoadSignal DEF TypeOK
  <2>4. Load(t, o) => seen'[t] = SignalState[o]
    BY LoadSignal
  <2>5. TypeOK'
    BY <1>0, <1>1, <2>2, <2>3 DEF TypeOK
  <2>6. CallOf(t)'
    BY <1>1, <2>2, <2>4 DEF CallOf
  <2>7. SameWait(t) /\ (WaitListLock' = t <=> pc'[t] \in LockHeld)
    BY <1>0, <1>1, <2>2 DEF SameWait, InWait, LockHeld
  <2> QED
    BY <1>1, <2>2, <2>3, <2>5, <2>6, <2>7, QuietStep
<1>2. CASE \E o \in Objects : KeWaitForSingleObject(t, o)
  BY <1>1, <1>2 DEF KeWaitForSingleObject
<1>3. CASE \E e \in Events : KeSetEvent(t, e)
  BY <1>0, <1>1, <1>3 DEF KeSetEvent
<1>4. CASE \E e \in Events : KePulseEvent(t, e)
  BY <1>0, <1>1, <1>4 DEF KePulseEvent
<1>5. CASE \E e \in Events : KeResetEvent(t, e)
  BY <1>0, <1>1, <1>5 DEF KeResetEvent
<1>6. CASE \E m \in Semaphores : KeReleaseSemaphore(t, m)
  BY <1>0, <1>1, <1>6 DEF KeReleaseSemaphore
<1>7. CASE BecomeWaiting(t)
  <2>1. /\ pc[t] = "wait" /\ pc'[t] = "insert" /\ State'[t] = "Waiting"
        /\ pc' \in [Threads -> Locations]
        /\ State' \in [Threads -> {"Running", "Waiting", "Ready"}]
        /\ \A u \in Threads \ {t} : pc'[u] = pc[u] /\ State'[u] = State[u]
        /\ UNCHANGED <<SignalState, WaitList, WaitListLock, object, seen, pulsing>>
    BY <1>0, <1>7 DEF TypeOK, BecomeWaiting, Goto, Locations
  <2>2. TypeOK' /\ CallOf(t)'
    BY <1>0, <2>1 DEF TypeOK, CallOf
  <2>3. SameWait(t) /\ (WaitListLock' = t <=> pc'[t] \in LockHeld)
    BY <1>0, <2>1 DEF SameWait, InWait, LockHeld
  <2> QED
    BY <2>1, <2>2, <2>3, QuietStep
<1> QED
  BY <1>2, <1>3, <1>4, <1>5, <1>6, <1>7

(* Stores to SignalState outside the lock, and a load. *)
LEMMA StateSteps ==
    ASSUME IInv, NEW t \in Threads,
           SetEventSignal(t) \/ ResetSignal(t) \/ ReleaseStore(t) \/ SatisfyLoad(t)
    PROVE  IInv'
<1>0. /\ TypeOK /\ CallOf(t) /\ (WaitListLock = t <=> pc[t] \in LockHeld)
      /\ Limit \in Nat
      /\ Events \subseteq Objects /\ Semaphores \subseteq Objects /\ Events \cap Semaphores = {}
  BY Before
<1>1. CASE SetEventSignal(t) \/ ResetSignal(t)
  <2>1. PICK x \in {0, 1} :
          /\ pc[t] \in {"setSignal", "reset"}
          /\ SignalState' = [SignalState EXCEPT ![object[t]] = x]
          /\ Return(t)
          /\ UNCHANGED <<WaitList, State, WaitListLock, pulsing>>
    BY <1>1 DEF SetEventSignal, ResetSignal
  <2>2. object[t] \in Events /\ t \notin pulsing
    BY <1>0, <2>1 DEF CallOf
  <2>3. /\ SignalState' \in [Objects -> Int]
        /\ \A e \in Events : SignalState'[e] \in {0, 1}
        /\ \A m \in Semaphores : SignalState'[m] <= Limit
    BY <1>0, <2>1, <2>2 DEF TypeOK
  <2>4. TypeOK' /\ CallOf(t)'
    BY <1>0, <2>1, <2>2, <2>3, ReturnCall DEF TypeOK
  <2>5. SameWait(t) /\ (WaitListLock' = t <=> pc'[t] \in LockHeld)
    BY <1>0, <2>1, ReturnCall DEF SameWait, InWait, LockHeld
  <2> QED
    BY <2>1, <2>4, <2>5, ReturnCall, QuietStep
<1>2. CASE ReleaseStore(t)
  <2>1. /\ pc[t] = "release" /\ pc'[t] = "releaseTest" /\ pc' \in [Threads -> Locations]
        /\ SignalState' = [SignalState EXCEPT ![object[t]] = seen[t] + 1]
        /\ \A u \in Threads \ {t} : pc'[u] = pc[u]
        /\ UNCHANGED <<WaitList, State, WaitListLock, object, seen, pulsing>>
    BY <1>0, <1>2 DEF TypeOK, ReleaseStore, Goto, Locations
  <2>2. object[t] \in Semaphores /\ seen[t] + 1 <= Limit /\ seen[t] \in Int
    BY <1>0, <2>1 DEF CallOf, TypeOK
  <2>3. TypeOK' /\ CallOf(t)'
    BY <1>0, <2>1, <2>2 DEF TypeOK, CallOf
  <2>4. SameWait(t) /\ (WaitListLock' = t <=> pc'[t] \in LockHeld)
    BY <1>0, <2>1 DEF SameWait, InWait, LockHeld
  <2> QED
    BY <2>1, <2>3, <2>4, QuietStep
<1>3. CASE SatisfyLoad(t)
  <2>1. /\ object[t] \in Semaphores /\ Load(t, object[t])
        /\ pc' \in [Threads -> Locations]
        /\ \/ pc[t] = "satisfy" /\ pc'[t] = "satisfyStore"
           \/ pc[t] = "recheck" /\ pc'[t] = "recheckStore"
           \/ pc[t] = "grant" /\ pc'[t] = "grantStore"
        /\ \A u \in Threads \ {t} : pc'[u] = pc[u]
        /\ UNCHANGED <<SignalState, WaitList, State, WaitListLock, object, pulsing>>
    BY <1>0, <1>3 DEF TypeOK, SatisfyLoad, Store, Goto, Locations
  <2>2. /\ seen' \in [Threads -> Int]
        /\ seen'[t] <= Limit
        /\ \A u \in Threads \ {t} : seen'[u] = seen[u]
    BY <1>0, <2>1, LoadSignal DEF TypeOK
  <2>3. TypeOK'
    BY <1>0, <2>1, <2>2 DEF TypeOK
  <2>4. CallOf(t)'
    BY <1>0, <2>1, <2>2 DEF CallOf
  <2>5. SameWait(t) /\ (WaitListLock' = t <=> pc'[t] \in LockHeld)
    BY <1>0, <2>1 DEF SameWait, InWait, LockHeld
  <2> QED
    BY <2>1, <2>2, <2>3, <2>4, <2>5, QuietStep
<1> QED
  BY <1>1, <1>2, <1>3

(* Linking the block, with the second check. *)
LEMMA InsertStep ==
    ASSUME IInv, NEW t \in Threads, InsertAndRecheck(t)
    PROVE  IInv'
<1>0. /\ TypeOK /\ CallOf(t) /\ (WaitListLock = t <=> pc[t] \in LockHeld)
      /\ NoThread \notin Threads /\ Limit \in Nat
      /\ Events \subseteq Objects /\ Semaphores \subseteq Objects /\ Events \cap Semaphores = {}
  BY Before
<1> DEFINE l == IF SignalState[object[t]] > 0 THEN "recheck" ELSE "blocked"
<1>1. /\ object[t] \in Objects /\ pc[t] = "insert" /\ State[t] = "Waiting" /\ t \notin pulsing
      /\ WaitListLock = NoThread
  BY <1>0 DEF CallOf, InsertAndRecheck, Acquire
<1>2. /\ WaitList' = [WaitList EXCEPT ![object[t]] = Append(WaitList[object[t]], t)]
      /\ pc' = [pc EXCEPT ![t] = l]
      /\ WaitListLock' = IF l = "recheck" THEN t ELSE NoThread
      /\ UNCHANGED <<SignalState, State, object, seen, pulsing>>
  BY <1>0, <1>1 DEF InsertAndRecheck, Acquire, Goto, TypeOK
<1> l \in {"recheck", "blocked"}
  OBVIOUS
<1> HIDE DEF l
<1>3. /\ pc' \in [Threads -> Locations] /\ pc'[t] = l
      /\ \A u \in Threads \ {t} : pc'[u] = pc[u]
  BY <1>0, <1>2 DEF TypeOK, Locations
<1>4. PICK o \in Objects : o = object[t]
  BY <1>1
<1>5. /\ ~InWait(t) /\ InWait(t)' /\ object'[t] = o
      /\ \A u \in Threads \ {t} : SameWait(u)
  BY <1>1, <1>2, <1>3, <1>4 DEF InWait, SameWait
<1>6. WaitList' \in [Objects -> Seq(Threads)] /\ WaitListIntegrity'
  BY <1>2, <1>4, <1>5, Link
<1>7. TypeOK'
  BY <1>0, <1>2, <1>3, <1>6 DEF TypeOK
<1>8. WaitList'[o] # <<>> /\ WaitList'[o][Len(WaitList'[o])] = t
  <2>1. WaitList[o] \in Seq(Threads) /\ WaitList'[o] = Append(WaitList[o], t)
    BY <1>0, <1>2, <1>4 DEF TypeOK
  <2> QED
    BY <2>1
<1>9. CallOf(t)'
  BY <1>1, <1>2, <1>3, <1>4, <1>8 DEF CallOf
<1>10. StepOf(t) /\ (WaitListLock' = t <=> pc'[t] \in LockHeld)
  BY <1>0, <1>1, <1>2, <1>3 DEF StepOf, LockHeld
<1> QED
  BY <1>6, <1>7, <1>9, <1>10, OtherCalls DEF IInv

(* A readied thread leaves: no list links it any more. *)
LEMMA WaitApcStep ==
    ASSUME IInv, NEW t \in Threads, WaitApc(t)
    PROVE  IInv'
<1>0. /\ TypeOK /\ CallOf(t) /\ (WaitListLock = t <=> pc[t] \in LockHeld)
      /\ NoThread \notin Threads /\ Limit \in Nat
      /\ Events \subseteq Objects /\ Semaphores \subseteq Objects /\ Events \cap Semaphores = {}
  BY Before
<1>1. /\ pc[t] = "blocked" /\ State[t] = "Ready" /\ Return(t)
      /\ State' = [State EXCEPT ![t] = "Running"]
      /\ UNCHANGED <<SignalState, WaitList, WaitListLock, pulsing>>
  BY DEF WaitApc
<1>2. /\ State' \in [Threads -> {"Running", "Waiting", "Ready"}]
      /\ \A u \in Threads \ {t} : State'[u] = State[u]
  BY <1>0, <1>1 DEF TypeOK
<1>3. TypeOK'
  BY <1>0, <1>1, <1>2, ReturnCall DEF TypeOK
<1>4. CallOf(t)'
  BY <1>0, <1>1, ReturnCall DEF CallOf
<1>5. SameWait(t) /\ (WaitListLock' = t <=> pc'[t] \in LockHeld)
  BY <1>0, <1>1, ReturnCall DEF SameWait, InWait, LockHeld
<1> QED
  BY <1>1, <1>2, <1>3, <1>4, <1>5, ReturnCall, QuietStep

(* Steps under the lock that leave lists and states alone: SignalState of the object may   *)
(* become 1 if it is an event, and the thread goes on with or without the lock.           *)
LEMMA LockedQuiet ==
    ASSUME IInv, NEW t \in Threads,
           pc[t] \in {"setEvent", "pulse", "releaseTest", "test"},
           pc[t] = "test" \/ WaitListLock = NoThread,
           UNCHANGED <<WaitList, State>>,
           \/ SignalState' = SignalState
           \/ object[t] \in Events /\ SignalState' = [SignalState EXCEPT ![object[t]] = 1],
           \/ Return(t)
           \/ \E l \in {"setSignal", "reset", "test", "grant"} :
                 /\ Goto(t, l) /\ UNCHANGED <<object, seen>>
                 /\ l \in {"setSignal", "reset"} => object[t] \in Events
                 /\ l = "grant" => WaitList[object[t]] # <<>>,
           pulsing' \in SUBSET Threads, \A u \in Threads \ {t} : u \in pulsing' => u \in pulsing,
           t \in pulsing' => pc'[t] \in {"test", "grant"} /\ object[t] \in Events,
           WaitListLock' = IF pc'[t] \in {"test", "grant"} THEN t ELSE NoThread
    PROVE  IInv'
<1>0. /\ TypeOK /\ CallOf(t) /\ (WaitListLock = t <=> pc[t] \in LockHeld)
      /\ NoThread \notin Threads /\ Limit \in Nat
      /\ Events \subseteq Objects /\ Semaphores \subseteq Objects /\ Events \cap Semaphores = {}
  BY Before
<1>1. WaitListLock \in {NoThread, t} /\ WaitListLock' \in {NoThread, t}
  BY <1>0 DEF LockHeld
<1>2. /\ SignalState' \in [Objects -> Int]
      /\ \A e \in Events : SignalState'[e] \in {0, 1}
      /\ \A m \in Semaphores : SignalState'[m] <= Limit
  <2>1. CASE SignalState' = SignalState
    BY <1>0, <2>1 DEF TypeOK
  <2>2. CASE object[t] \in Events /\ SignalState' = [SignalState EXCEPT ![object[t]] = 1]
    BY <1>0, <2>2 DEF TypeOK
  <2> QED
    BY <2>1, <2>2
<1>3. object[t] \in Objects
  BY <1>0 DEF CallOf
<1>4. CASE Return(t)
  <2>1. /\ pc'[t] = "guest" /\ ~InWait(t)' /\ t \notin pulsing'
        /\ WaitListLock' = NoThread
    BY <1>4, ReturnCall
  <2>2. TypeOK'
    BY <1>0, <1>2, <1>4, <2>1, ReturnCall DEF TypeOK
  <2>3. CallOf(t)'
    BY <1>4, <2>1, ReturnCall
  <2>4. SameWait(t) /\ (WaitListLock' = t <=> pc'[t] \in LockHeld)
    BY <1>0, <2>1 DEF SameWait, InWait, LockHeld
  <2> QED
    BY <1>1, <1>4, <2>2, <2>3, <2>4, ReturnCall, QuietStep
<1>5. ASSUME NEW l \in {"setSignal", "reset", "test", "grant"},
             Goto(t, l), UNCHANGED <<object, seen>>,
             l \in {"setSignal", "reset"} => object[t] \in Events,
             l = "grant" => WaitList[object[t]] # <<>>
      PROVE  IInv'
  <2>1. /\ pc' \in [Threads -> Locations] /\ pc'[t] = l
        /\ \A u \in Threads \ {t} : pc'[u] = pc[u]
    BY <1>0, <1>5 DEF Goto, TypeOK, Locations
  <2>2. TypeOK'
    BY <1>0, <1>1, <1>2, <1>5, <2>1 DEF TypeOK
  <2>3. CallOf(t)'
    BY <1>3, <1>5, <2>1 DEF CallOf
  <2>4. SameWait(t) /\ (WaitListLock' = t <=> pc'[t] \in LockHeld)
    BY <1>0, <2>1 DEF SameWait, InWait, LockHeld
  <2> QED
    BY <1>1, <1>5, <2>1, <2>2, <2>3, <2>4, QuietStep
<1> QED
  BY <1>4, <1>5

(* Readying the first waiter of o, then back to KiWaitTest, or the end of the call. *)
LEMMA GrantFirst ==
    ASSUME IInv, NEW t \in Threads, NEW o \in Objects, WaitList[o] # <<>>, KiUnwaitThread(o, 1),
           pc[t] \in {"guest", "setEvent", "grant", "grantStore"},
           WaitListLock \in {NoThread, t},
           SignalState' \in [Objects -> Int],
           \A e \in Events : SignalState'[e] \in {0, 1},
           \A m \in Semaphores : SignalState'[m] <= Limit,
           pc' \in [Threads -> Locations],
           object' \in [Threads -> Objects \cup {NoObject}],
           seen' \in [Threads -> Int],
           pc'[t] \in {"guest", "test"},
           pc'[t] = "test" => object'[t] \in Objects,
           pulsing' = pulsing,
           t \in pulsing => pc'[t] = "test" /\ object'[t] \in Events,
           \A u \in Threads \ {t} : pc'[u] = pc[u] /\ object'[u] = object[u] /\ seen'[u] = seen[u],
           WaitListLock' = IF pc'[t] = "test" THEN t ELSE NoThread
    PROVE  IInv'
<1>0. /\ TypeOK /\ CallOf(t) /\ (WaitListLock = t <=> pc[t] \in LockHeld)
      /\ NoThread \notin Threads /\ Limit \in Nat
      /\ Events \subseteq Objects /\ Semaphores \subseteq Objects /\ Events \cap Semaphores = {}
  BY Before
<1>1. ~InWait(t) /\ ~InWait(t)'
  BY DEF InWait
<1>2. /\ WaitList' \in [Objects -> Seq(Threads)]
      /\ State' \in [Threads -> {"Running", "Waiting", "Ready"}]
      /\ WaitListIntegrity'
      /\ \A u \in Threads : pc[u] = "insert" => State'[u] = State[u]
  BY <1>1, Unwait
<1>3. TypeOK'
  BY <1>0, <1>2 DEF TypeOK
<1>4. CallOf(t)'
  BY DEF CallOf
<1>5. StepOf(t) /\ (WaitListLock' = t <=> pc'[t] \in LockHeld)
  BY <1>0, <1>2 DEF StepOf, LockHeld
<1> QED
  BY <1>2, <1>3, <1>4, <1>5, OtherCalls DEF IInv

(* The steps of signallers that look at a wait list. *)
LEMMA SignalSteps ==
    ASSUME IInv, NEW t \in Threads,
           \/ \E e \in Events : KeSetEventBoostPriority(t, e)
           \/ SetEventLocked(t) \/ PulseLocked(t) \/ ReleaseLocked(t) \/ KiWaitTest(t)
    PROVE  IInv'
<1>0. /\ TypeOK /\ CallOf(t) /\ (WaitListLock = t <=> pc[t] \in LockHeld)
      /\ NoThread \notin Threads /\ Limit \in Nat
      /\ Events \subseteq Objects /\ Semaphores \subseteq Objects /\ Events \cap Semaphores = {}
  BY Before
<1>1. ASSUME NEW e \in Events, KeSetEventBoostPriority(t, e) PROVE IInv'
  <2>1. CASE WaitList[e] = <<>>
    <3>1. /\ pc[t] = "guest" /\ SignalState' = [SignalState EXCEPT ![e] = 1]
          /\ UNCHANGED <<WaitList, State, WaitListLock, pc, object, seen, pulsing>>
      BY <1>1, <2>1 DEF KeSetEventBoostPriority
    <3>2. TypeOK'
      BY <1>0, <3>1 DEF TypeOK
    <3>3. CallOf(t)' /\ SameWait(t)
      BY <1>0, <3>1 DEF CallOf, SameWait, InWait
    <3> QED
      BY <1>0, <3>1, <3>2, <3>3, QuietStep
  <2>2. CASE WaitList[e] # <<>>
    <3>1. /\ pc[t] = "guest" /\ WaitListLock = NoThread /\ KiUnwaitThread(e, 1)
          /\ UNCHANGED <<SignalState, WaitListLock, pc, object, seen, pulsing>>
      BY <1>1, <2>2 DEF KeSetEventBoostPriority
    <3>2. t \notin pulsing
      BY <1>0, <3>1 DEF CallOf
    <3> QED
      BY <1>0, <2>2, <3>1, <3>2, GrantFirst DEF TypeOK
  <2> QED
    BY <2>1, <2>2
<1>2. CASE SetEventLocked(t)
  <2>1. /\ pc[t] = "setEvent" /\ WaitListLock = NoThread /\ pulsing' = pulsing
        /\ object[t] \in Events /\ t \notin pulsing
    BY <1>0, <1>2 DEF SetEventLocked, CallOf
  <2>2. CASE /\ Goto(t, "setSignal")
             /\ UNCHANGED <<SignalState, WaitList, State, WaitListLock, object, seen>>
    <3>1. pc'[t] = "setSignal"
      BY <1>0, <2>2 DEF TypeOK, Goto
    <3> QED
      BY <1>0, <2>1, <2>2, <3>1, LockedQuiet DEF TypeOK
  <2>3. CASE SignalAndTest(t, object[t])
    <3>1. pc'[t] = "test"
      BY <1>0, <2>3 DEF TypeOK, SignalAndTest, Goto
    <3> QED
      BY <1>0, <2>1, <2>3, <3>1, LockedQuiet DEF TypeOK, SignalAndTest
  <2>4. CASE Return(t) /\ UNCHANGED <<SignalState, WaitList, State, WaitListLock>>
    <3>1. pc'[t] = "guest"
      BY <2>4, ReturnCall
    <3> QED
      BY <1>0, <2>1, <2>4, <3>1, LockedQuiet DEF TypeOK
  <2>5. CASE /\ WaitList[object[t]] # <<>> /\ KiUnwaitThread(object[t], 1) /\ Return(t)
             /\ UNCHANGED <<SignalState, WaitListLock>>
    BY <1>0, <2>1, <2>5, ReturnCall, GrantFirst DEF TypeOK
  <2> QED
    BY <1>2, <2>2, <2>3, <2>4, <2>5 DEF SetEventLocked
<1>3. CASE PulseLocked(t)
  <2>1. pc[t] = "pulse" /\ WaitListLock = NoThread /\ object[t] \in Events /\ t \notin pulsing
    BY <1>0, <1>3 DEF PulseLocked, CallOf
  <2>2. CASE SignalAndTest(t, object[t]) /\ pulsing' = pulsing \cup {t}
    <3>1. pc'[t] = "test"
      BY <1>0, <2>2 DEF TypeOK, SignalAndTest, Goto
    <3> QED
      BY <1>0, <2>1, <2>2, <3>1, LockedQuiet DEF TypeOK, SignalAndTest
  <2>3. CASE /\ Goto(t, "reset")
             /\ UNCHANGED <<SignalState, WaitList, State, WaitListLock, object, seen, pulsing>>
    <3>1. pc'[t] = "reset"
      BY <1>0, <2>3 DEF TypeOK, Goto
    <3> QED
      BY <1>0, <2>1, <2>3, <3>1, LockedQuiet DEF TypeOK
  <2> QED
    BY <1>3, <2>2, <2>3 DEF PulseLocked
<1>4. CASE ReleaseLocked(t)
  <2>1. /\ pc[t] = "releaseTest" /\ WaitListLock = NoThread /\ t \notin pulsing
        /\ UNCHANGED <<SignalState, WaitList, State, pulsing>>
    BY <1>0, <1>4 DEF ReleaseLocked, CallOf
  <2>2. CASE WaitListLock' = t /\ Goto(t, "test") /\ UNCHANGED <<object, seen>>
    <3>1. pc'[t] = "test"
      BY <1>0, <2>2 DEF TypeOK, Goto
    <3> QED
      BY <1>0, <2>1, <2>2, <3>1, LockedQuiet DEF TypeOK
  <2>3. CASE Return(t) /\ UNCHANGED WaitListLock
    <3>1. pc'[t] = "guest"
      BY <2>3, ReturnCall
    <3> QED
      BY <1>0, <2>1, <2>3, <3>1, LockedQuiet DEF TypeOK
  <2> QED
    BY <1>4, <2>2, <2>3 DEF ReleaseLocked, Acquire
<1>5. CASE KiWaitTest(t)
  <2>1. /\ pc[t] = "test" /\ WaitListLock = t
        /\ UNCHANGED <<SignalState, WaitList, State>>
        /\ t \in pulsing => object[t] \in Events
    BY <1>0, <1>5 DEF KiWaitTest, CallOf, LockHeld
  <2>2. CASE /\ WaitList[object[t]] # <<>> /\ Goto(t, "grant")
             /\ UNCHANGED <<WaitListLock, object, seen, pulsing>>
    <3>1. pc'[t] = "grant"
      BY <1>0, <2>2 DEF TypeOK, Goto
    <3> QED
      BY <1>0, <2>1, <2>2, <3>1, LockedQuiet DEF TypeOK
  <2>3. CASE /\ WaitListLock' = NoThread /\ t \in pulsing /\ Goto(t, "reset")
             /\ UNCHANGED <<object, seen>> /\ pulsing' = pulsing \ {t}
    <3>1. pc'[t] = "reset"
      BY <1>0, <2>3 DEF TypeOK, Goto
    <3> QED
      BY <1>0, <2>1, <2>3, <3>1, LockedQuiet DEF TypeOK
  <2>4. CASE WaitListLock' = NoThread /\ Return(t) /\ pulsing' = pulsing \ {t}
    <3>1. pc'[t] = "guest"
      BY <2>4, ReturnCall
    <3> QED
      BY <1>0, <2>1, <2>4, <3>1, LockedQuiet DEF TypeOK
  <2> QED
    BY <1>5, <2>2, <2>3, <2>4 DEF KiWaitTest, Release
<1> QED
  BY <1>1, <1>2, <1>3, <1>4, <1>5

(* Satisfying a wait, at each of the three places. *)
LEMMA SatisfySteps ==
    ASSUME IInv, NEW t \in Threads, SatisfyEvent(t) \/ SatisfyStore(t)
    PROVE  IInv'
<1>0. /\ TypeOK /\ CallOf(t) /\ (WaitListLock = t <=> pc[t] \in LockHeld)
      /\ NoThread \notin Threads /\ Limit \in Nat
      /\ Events \subseteq Objects /\ Semaphores \subseteq Objects /\ Events \cap Semaphores = {}
  BY Before
<1>1. /\ Granted(t) /\ pulsing' = pulsing
      /\ pc[t] \in {"satisfy", "recheck", "grant", "satisfyStore", "recheckStore", "grantStore"}
      /\ object[t] \in Objects
  BY <1>0 DEF SatisfyEvent, SatisfyStore, Store, CallOf
<1>2. /\ SignalState' \in [Objects -> Int]
      /\ \A e \in Events : SignalState'[e] \in {0, 1}
      /\ \A m \in Semaphores : SignalState'[m] <= Limit
  <2>1. CASE SatisfyEvent(t)
    BY <1>0, <2>1 DEF TypeOK, SatisfyEvent
  <2>2. CASE SatisfyStore(t)
    <3>1. /\ object[t] \in Semaphores /\ seen[t] <= Limit /\ seen[t] \in Int
          /\ SignalState' = [SignalState EXCEPT ![object[t]] = seen[t] - 1]
      BY <1>0, <2>2 DEF SatisfyStore, CallOf, TypeOK
    <3> QED
      BY <1>0, <3>1 DEF TypeOK
  <2> QED
    BY <2>1, <2>2
<1>3. CASE pc[t] \in {"satisfy", "satisfyStore"}
  <2>1. Return(t) /\ UNCHANGED <<WaitList, State, WaitListLock>> /\ t \notin pulsing
    BY <1>0, <1>1, <1>3 DEF Granted, CallOf
  <2>2. TypeOK' /\ CallOf(t)'
    BY <1>0, <1>1, <1>2, <2>1, ReturnCall DEF TypeOK
  <2>3. SameWait(t) /\ (WaitListLock' = t <=> pc'[t] \in LockHeld)
    BY <1>0, <1>3, <2>1, ReturnCall DEF SameWait, InWait, LockHeld
  <2> QED
    BY <1>1, <2>1, <2>2, <2>3, ReturnCall, QuietStep
<1>4. CASE pc[t] \in {"recheck", "recheckStore"}
  <2>1. PICK o \in Objects : o = object[t]
    BY <1>1
  <2>2. /\ WaitList' = [WaitList EXCEPT ![o] = RemoveAt(WaitList[o], Len(WaitList[o]))]
        /\ State' = [State EXCEPT ![t] = "Running"]
        /\ Release(t) /\ Return(t) /\ t \notin pulsing
    BY <1>0, <1>1, <1>4, <2>1 DEF Granted, CallOf
  <2>3. WaitList[o] # <<>> /\ WaitList[o][Len(WaitList[o])] = t /\ WaitList[o] \in Seq(Threads)
    BY <1>0, <1>4, <2>1 DEF CallOf, TypeOK
  <2>4. Len(WaitList[o]) \in 1..Len(WaitList[o])
    BY <2>3, EmptySeq
  <2>5. /\ State' \in [Threads -> {"Running", "Waiting", "Ready"}]
        /\ \A u \in Threads \ {t} : State'[u] = State[u]
    BY <1>0, <2>2 DEF TypeOK
  <2>6. ~InWait(t)' /\ \A u \in Threads \ {t} : SameWait(u)
    BY <2>2, <2>5, ReturnCall DEF SameWait, InWait
  <2>7. WaitList' \in [Objects -> Seq(Threads)] /\ WaitListIntegrity'
    BY <2>2, <2>3, <2>4, <2>6, Unlink
  <2>8. TypeOK'
    BY <1>0, <1>1, <1>2, <2>2, <2>5, <2>7, ReturnCall DEF TypeOK, Release
  <2>9. CallOf(t)'
    BY <1>1, <2>2, ReturnCall
  <2>10. StepOf(t) /\ (WaitListLock' = t <=> pc'[t] \in LockHeld)
    BY <1>0, <1>1, <2>2, <2>5, ReturnCall DEF StepOf, Release, LockHeld
  <2> QED
    BY <2>7, <2>8, <2>9, <2>10, OtherCalls DEF IInv
<1>5. CASE pc[t] \in {"grant", "grantStore"}
  <2>1. /\ KiUnwaitThread(object[t], 1) /\ pc' = [pc EXCEPT ![t] = "test"]
        /\ UNCHANGED <<WaitListLock, object, seen>>
    BY <1>1, <1>5 DEF Granted, Goto
  <2>2. /\ WaitListLock = t /\ WaitList[object[t]] # <<>>
        /\ t \in pulsing => object[t] \in Events
    BY <1>0, <1>5 DEF CallOf, LockHeld
  <2>3. /\ pc' \in [Threads -> Locations] /\ pc'[t] = "test"
        /\ \A u \in Threads \ {t} : pc'[u] = pc[u]
    BY <1>0, <2>1 DEF TypeOK, Locations
  <2> QED
    BY <1>0, <1>1, <1>2, <1>5, <2>1, <2>2, <2>3, GrantFirst DEF TypeOK
<1> QED
  BY <1>1, <1>3, <1>4, <1>5

(* IInv is inductive. *)
LEMMA InitIInv == Init => IInv
<1> SUFFICES ASSUME Init PROVE IInv
  OBVIOUS
<1>1. \A o \in Objects : WaitList[o] = <<>>
  BY DEF Init
<1>2. IsInjective(<<>>) /\ ToSet(<<>>) = {}
  BY DEF IsInjective, ToSet
<1>3. TypeOK
  BY WaitAssumption DEF Init, TypeOK, Locations, WaitAssumption, Objects
<1>4. WaitListIntegrity
  BY <1>1, <1>2 DEF Init, WaitListIntegrity
<1>5. CallOK
  BY DEF Init, CallOK, CallOf
<1>6. LockOK
  BY WaitAssumption DEF Init, LockOK, LockHeld, WaitAssumption
<1> QED
  BY <1>3, <1>4, <1>5, <1>6 DEF IInv

LEMMA NextIInv == IInv /\ [Next]_vars => IInv'
<1> SUFFICES ASSUME IInv, [Next]_vars PROVE IInv'
  OBVIOUS
<1>1. ASSUME NEW t \in Threads, KernelStep(t) PROVE IInv'
  BY <1>1, BeginSteps, StateSteps, InsertStep, WaitApcStep, SignalSteps, SatisfySteps DEF KernelStep
<1>2. ASSUME NEW t \in Waiters, WaiterCall(t) PROVE IInv'
  BY <1>2, BeginSteps DEF WaiterCall, Threads
<1>3. ASSUME NEW t \in Signallers, SignallerCall(t) PROVE IInv'
  BY <1>3, BeginSteps, SignalSteps DEF SignallerCall, Threads
<1>4. CASE UNCHANGED vars
  BY <1>4 DEF vars, IInv, TypeOK, WaitListIntegrity, CallOK, CallOf, LockOK
<1> QED
  BY <1>1, <1>2, <1>3, <1>4 DEF Next

(* KeWaitForSingleObject and the calls that signal keep every variable in its type: no     *)
(* interleaving of their unlocked loads and stores takes a semaphore above its limit or   *)
(* gives an event a state other than 0 and 1.                                            *)
THEOREM TypeCorrect == Spec => []TypeOK
<1>1. IInv => TypeOK
  BY DEF IInv
<1> QED
  BY <1>1, InitIInv, NextIInv, PTL DEF Spec

(* However many threads wait, set, pulse, reset and release at the same time, the wait     *)
(* lists link exactly the threads that wait and are not yet readied, each once.           *)
THEOREM WaitListIntegrityThm == Spec => []WaitListIntegrity
<1>1. IInv => WaitListIntegrity
  BY DEF IInv
<1> QED
  BY <1>1, InitIInv, NextIInv, PTL DEF Spec
=============================================================================
