------------------------------- MODULE KiWait -------------------------------
(***************************************************************************)
(* Waiting on one event or semaphore and signalling it:                    *)
(* KeWaitForSingleObject, KeSetEvent, KeSetEventBoostPriority,             *)
(* KePulseEvent, KeResetEvent, KeReleaseSemaphore and, under them,         *)
(* KiWaitTest and KiUnwaitThread.                                          *)
(*                                                                         *)
(* KiLockDispatcherDatabase raises the IRQL and excludes nobody, and some  *)
(* accesses to SignalState are outside KiWaitListMtx, so every access to   *)
(* it is a step of its own, under the lock too.  Wait lists are touched    *)
(* under the lock only.  Waits are without timeout and not alertable, with *)
(* wait_list_toctou_recheck on, as it is by default.                       *)
(***************************************************************************)
EXTENDS Integers, SequencesExt

CONSTANTS
    Waiters,           \* threads that wait
    Signallers,        \* threads that signal and reset objects
    Notifications,     \* notification events
    Synchronizations,  \* synchronization events
    Semaphores,
    Limit,             \* KSEMAPHORE.Limit
    MaxDeficit,        \* bound: a semaphore further below zero is not released any more
    NoObject,
    NoThread           \* the owner of a free lock

Events == Notifications \cup Synchronizations
Objects == Events \cup Semaphores

Threads == Waiters \cup Signallers

ASSUME WaitAssumption ==
    /\ Notifications \cap Synchronizations = {}
    /\ Events \cap Semaphores = {}
    /\ Limit \in Nat \ {0}
    /\ MaxDeficit \in Nat
    /\ NoObject \notin Objects
    /\ NoThread \notin Threads

VARIABLES
    SignalState,  \* Header.SignalState
    WaitList,     \* the threads whose wait block is linked in Header.WaitListHead
    State,        \* KTHREAD.State
    WaitListLock, \* owner of KiWaitListMtx
    pc,           \* where each thread is
    object,       \* the object of the call a thread is in
    seen,         \* the SignalState the call has read
    pulsing       \* the threads whose KiWaitTest was called by KePulseEvent

vars == <<SignalState, WaitList, State, WaitListLock, pc, object, seen, pulsing>>

Init ==
    /\ SignalState = [o \in Objects |-> 0]
    /\ WaitList = [o \in Objects |-> <<>>]
    /\ State = [t \in Threads |-> "Running"]
    /\ pc = [t \in Threads |-> "guest"]
    /\ object = [t \in Threads |-> NoObject]
    /\ seen = [t \in Threads |-> 0]
    /\ WaitListLock = NoThread
    /\ pulsing = {}

Goto(t, l) == pc' = [pc EXCEPT ![t] = l]

Enter(t, o, l) ==
    /\ pc[t] = "guest"
    /\ Goto(t, l)
    /\ object' = [object EXCEPT ![t] = o]

Return(t) ==
    /\ Goto(t, "guest")
    /\ object' = [object EXCEPT ![t] = NoObject]
    /\ seen' = [seen EXCEPT ![t] = 0]

Load(t, o) == seen' = [seen EXCEPT ![t] = SignalState[o]]

Acquire(t) == WaitListLock = NoThread /\ WaitListLock' = t
Release(t) == WaitListLock = t /\ WaitListLock' = NoThread

(* KiUnwaitThread for the i-th thread of o's wait list.  A linked thread is Waiting     *)
(* (WaitListIntegrity), so the early return for other states is not taken.              *)
KiUnwaitThread(o, i) ==
    /\ WaitList' = [WaitList EXCEPT ![o] = RemoveAt(@, i)]
    /\ State' = [State EXCEPT ![WaitList[o][i]] = "Ready"]

-----------------------------------------------------------------------------
(* KeWaitForSingleObject *)

(* The check without the lock. *)
KeWaitForSingleObject(t, o) ==
    /\ Enter(t, o, IF SignalState[o] > 0 THEN "satisfy" ELSE "wait")
    /\ UNCHANGED <<SignalState, WaitList, State, WaitListLock, seen, pulsing>>

(* The wait block is filled in and the thread becomes Waiting. *)
BecomeWaiting(t) ==
    /\ pc[t] = "wait"
    /\ State' = [State EXCEPT ![t] = "Waiting"]
    /\ Goto(t, "insert")
    /\ UNCHANGED <<SignalState, WaitList, WaitListLock, object, seen, pulsing>>

(* Under KiWaitListMtx: InsertTailList and the second check, which keeps the lock when    *)
(* the object has been signalled meanwhile.                                             *)
InsertAndRecheck(t) ==
    /\ pc[t] = "insert"
    /\ WaitList' = [WaitList EXCEPT ![object[t]] = Append(@, t)]
    /\ \/ /\ SignalState[object[t]] > 0
          /\ Acquire(t)
          /\ Goto(t, "recheck")
       \/ /\ SignalState[object[t]] <= 0
          /\ WaitListLock = NoThread
          /\ Goto(t, "blocked")
          /\ UNCHANGED WaitListLock
    /\ UNCHANGED <<SignalState, State, object, seen, pulsing>>

(* WaitApc: polls until the thread is Ready. *)
WaitApc(t) ==
    /\ pc[t] = "blocked"
    /\ State[t] = "Ready"
    /\ State' = [State EXCEPT ![t] = "Running"]
    /\ Return(t)
    /\ UNCHANGED <<SignalState, WaitList, WaitListLock, pulsing>>

-----------------------------------------------------------------------------
(* KiWaitSatisfyOther and KiWaitSatisfyAny, at the three places that use them: the check  *)
(* without the lock ("satisfy"), the second check ("recheck") and KiWaitTest ("grant").   *)

Store == [satisfy |-> "satisfyStore", recheck |-> "recheckStore", grant |-> "grantStore"]

(* Fault: the second check satisfies the wait but leaves the block linked. *)
GrantedLinked(t) ==
    \/ /\ pc[t] \in {"satisfy", "satisfyStore"}
       /\ Return(t)
       /\ UNCHANGED <<WaitList, State, WaitListLock>>
    \/ /\ pc[t] \in {"recheck", "recheckStore"}
       /\ State' = [State EXCEPT ![t] = "Running"]
       /\ Release(t)
       /\ Return(t)
       /\ UNCHANGED WaitList
    \/ /\ pc[t] \in {"grant", "grantStore"}
       /\ KiUnwaitThread(object[t], 1)
       /\ Goto(t, "test")
       /\ UNCHANGED <<WaitListLock, object, seen>>

(* What follows: the wait returns at once; the thread unlinks itself and returns; the     *)
(* waiter is unlinked and readied, and KiWaitTest looks at the next.                     *)
Granted(t) ==
    \/ /\ pc[t] \in {"satisfy", "satisfyStore"}
       /\ Return(t)
       /\ UNCHANGED <<WaitList, State, WaitListLock>>
    \/ /\ pc[t] \in {"recheck", "recheckStore"}
       /\ WaitList' = [WaitList EXCEPT ![object[t]] = RemoveAt(@, Len(@))]
       /\ State' = [State EXCEPT ![t] = "Running"]
       /\ Release(t)
       /\ Return(t)
    \/ /\ pc[t] \in {"grant", "grantStore"}
       /\ KiUnwaitThread(object[t], 1)
       /\ Goto(t, "test")
       /\ UNCHANGED <<WaitListLock, object, seen>>

(* A notification event stays signalled, a synchronization event is reset ... *)
SatisfyEvent(t) ==
    /\ pc[t] \in DOMAIN Store
    /\ object[t] \in Events
    /\ SignalState' = IF object[t] \in Synchronizations
                      THEN [SignalState EXCEPT ![object[t]] = 0]
                      ELSE SignalState
    /\ Granted(t)
    /\ UNCHANGED pulsing

(* ... and a semaphore's SignalState -= 1 is a load and a store. *)
SatisfyLoad(t) ==
    /\ pc[t] \in DOMAIN Store
    /\ object[t] \in Semaphores
    /\ Load(t, object[t])
    /\ Goto(t, Store[pc[t]])
    /\ UNCHANGED <<SignalState, WaitList, State, WaitListLock, object, pulsing>>

SatisfyStore(t) ==
    /\ pc[t] \in {"satisfyStore", "recheckStore", "grantStore"}
    /\ SignalState' = [SignalState EXCEPT ![object[t]] = seen[t] - 1]
    /\ Granted(t)
    /\ UNCHANGED pulsing

(* KiWaitTest, entered with the lock and left without it: a waiter at a time while the    *)
(* object is signalled.  KeSetEvent and KeReleaseSemaphore return after it, KePulseEvent  *)
(* resets the event.                                                                    *)
KiWaitTest(t) ==
    /\ pc[t] = "test"
    /\ LET o == object[t]
       IN  \/ /\ SignalState[o] > 0
              /\ WaitList[o] # <<>>
              /\ Goto(t, "grant")
              /\ UNCHANGED <<WaitListLock, object, seen, pulsing>>
           \/ /\ SignalState[o] <= 0 \/ WaitList[o] = <<>>
              /\ Release(t)
              /\ \/ t \in pulsing /\ Goto(t, "reset") /\ UNCHANGED <<object, seen>>
                 \/ t \notin pulsing /\ Return(t)
              /\ pulsing' = pulsing \ {t}
    /\ UNCHANGED <<SignalState, WaitList, State>>

-----------------------------------------------------------------------------
(* Events *)

(* KeSetEvent reads OldState, then looks at the wait list under the lock. *)
KeSetEvent(t, e) ==
    /\ Enter(t, e, "setEvent")
    /\ Load(t, e)
    /\ UNCHANGED <<SignalState, WaitList, State, WaitListLock, pulsing>>

(* Signal e under the lock and go on to KiWaitTest. *)
SignalAndTest(t, e) ==
    /\ SignalState' = [SignalState EXCEPT ![e] = 1]
    /\ WaitListLock' = t
    /\ Goto(t, "test")
    /\ UNCHANGED <<WaitList, State, object, seen>>

(* Fault: OldState decides for synchronization events too. *)
SetEventLockedOldState(t) ==
    /\ pc[t] = "setEvent"
    /\ WaitListLock = NoThread
    /\ LET e == object[t]
       IN  \/ /\ WaitList[e] = <<>>
              /\ Goto(t, "setSignal")
              /\ UNCHANGED <<SignalState, WaitList, State, WaitListLock, object, seen>>
           \/ /\ WaitList[e] # <<>>
              /\ seen[t] = 0
              /\ SignalAndTest(t, e)
           \/ /\ WaitList[e] # <<>>
              /\ seen[t] # 0
              /\ Return(t)
              /\ UNCHANGED <<SignalState, WaitList, State, WaitListLock>>
    /\ UNCHANGED pulsing

(* Nobody waits: the signal follows after the unlock.  A notification event is signalled  *)
(* for KiWaitTest if OldState was 0.  A synchronization event's first waiter is readied.  *)
SetEventLocked(t) ==
    /\ pc[t] = "setEvent"
    /\ WaitListLock = NoThread
    /\ LET e == object[t]
       IN  \/ /\ WaitList[e] = <<>>
              /\ Goto(t, "setSignal")
              /\ UNCHANGED <<SignalState, WaitList, State, WaitListLock, object, seen>>
           \/ /\ WaitList[e] # <<>>
              /\ e \in Notifications
              /\ seen[t] = 0
              /\ SignalAndTest(t, e)
           \/ /\ WaitList[e] # <<>>
              /\ e \in Notifications
              /\ seen[t] # 0
              /\ Return(t)
              /\ UNCHANGED <<SignalState, WaitList, State, WaitListLock>>
           \/ /\ WaitList[e] # <<>>
              /\ e \in Synchronizations
              /\ KiUnwaitThread(e, 1)
              /\ Return(t)
              /\ UNCHANGED <<SignalState, WaitListLock>>
    /\ UNCHANGED pulsing

(* KeSetEvent: nobody waited; SignalState = 1 after KiWaitListUnlock. *)
SetEventSignal(t) ==
    /\ pc[t] = "setSignal"
    /\ SignalState' = [SignalState EXCEPT ![object[t]] = 1]
    /\ Return(t)
    /\ UNCHANGED <<WaitList, State, WaitListLock, pulsing>>

KeSetEventBoostPriority(t, e) ==
    /\ pc[t] = "guest"
    /\ WaitListLock = NoThread
    /\ \/ /\ WaitList[e] = <<>>
          /\ SignalState' = [SignalState EXCEPT ![e] = 1]
          /\ UNCHANGED <<WaitList, State>>
       \/ /\ WaitList[e] # <<>>
          /\ KiUnwaitThread(e, 1)
          /\ UNCHANGED SignalState
    /\ UNCHANGED <<WaitListLock, pc, object, seen, pulsing>>

KePulseEvent(t, e) ==
    /\ Enter(t, e, "pulse")
    /\ Load(t, e)
    /\ UNCHANGED <<SignalState, WaitList, State, WaitListLock, pulsing>>

PulseLocked(t) ==
    /\ pc[t] = "pulse"
    /\ WaitListLock = NoThread
    /\ \/ /\ seen[t] = 0
          /\ WaitList[object[t]] # <<>>
          /\ SignalAndTest(t, object[t])
          /\ pulsing' = pulsing \cup {t}
       \/ /\ seen[t] # 0 \/ WaitList[object[t]] = <<>>
          /\ Goto(t, "reset")
          /\ UNCHANGED <<SignalState, WaitList, State, WaitListLock, object, seen, pulsing>>

(* KePulseEvent and KeResetEvent: SignalState = 0 without the lock. *)
ResetSignal(t) ==
    /\ pc[t] = "reset"
    /\ SignalState' = [SignalState EXCEPT ![object[t]] = 0]
    /\ Return(t)
    /\ UNCHANGED <<WaitList, State, WaitListLock, pulsing>>

KeResetEvent(t, e) ==
    /\ Enter(t, e, "reset")
    /\ UNCHANGED <<SignalState, WaitList, State, WaitListLock, seen, pulsing>>

-----------------------------------------------------------------------------
(* Semaphores *)

(* KeReleaseSemaphore by one; beyond the limit it raises and changes nothing.  Its two   *)
(* adjacent reads of SignalState are one load, as an optimising build makes them.  The   *)
(* unlocked decrements of waiters can take the count below zero, without bound in a long *)
(* run.                                                                                 *)
KeReleaseSemaphore(t, s) ==
    /\ SignalState[s] >= -MaxDeficit
    /\ SignalState[s] + 1 <= Limit
    /\ Enter(t, s, "release")
    /\ Load(t, s)
    /\ UNCHANGED <<SignalState, WaitList, State, WaitListLock, pulsing>>

(* Fault: the new count is computed from the state at the time of the store. *)
ReleaseStoreReread(t) ==
    /\ pc[t] = "release"
    /\ SignalState' = [SignalState EXCEPT ![object[t]] = @ + 1]
    /\ Goto(t, "releaseTest")
    /\ UNCHANGED <<WaitList, State, WaitListLock, object, seen, pulsing>>

ReleaseStore(t) ==
    /\ pc[t] = "release"
    /\ SignalState' = [SignalState EXCEPT ![object[t]] = seen[t] + 1]
    /\ Goto(t, "releaseTest")
    /\ UNCHANGED <<WaitList, State, WaitListLock, object, seen, pulsing>>

ReleaseLocked(t) ==
    /\ pc[t] = "releaseTest"
    /\ WaitListLock = NoThread
    /\ \/ /\ seen[t] = 0
          /\ WaitList[object[t]] # <<>>
          /\ Acquire(t)
          /\ Goto(t, "test")
          /\ UNCHANGED <<object, seen>>
       \/ /\ seen[t] # 0 \/ WaitList[object[t]] = <<>>
          /\ Return(t)
          /\ UNCHANGED WaitListLock
    /\ UNCHANGED <<SignalState, WaitList, State, pulsing>>

-----------------------------------------------------------------------------

(* The rest of a call a thread has begun. *)
KernelStep(t) ==
    \/ SatisfyEvent(t)
    \/ SatisfyLoad(t)
    \/ SatisfyStore(t)
    \/ BecomeWaiting(t)
    \/ InsertAndRecheck(t)
    \/ WaitApc(t)
    \/ KiWaitTest(t)
    \/ SetEventLocked(t)
    \/ SetEventSignal(t)
    \/ PulseLocked(t)
    \/ ResetSignal(t)
    \/ ReleaseStore(t)
    \/ ReleaseLocked(t)

WaiterCall(t) == \E o \in Objects : KeWaitForSingleObject(t, o)

SignallerCall(t) ==
    \/ \E e \in Events :
          \/ KeSetEvent(t, e)
          \/ KeSetEventBoostPriority(t, e)
          \/ KePulseEvent(t, e)
          \/ KeResetEvent(t, e)
    \/ \E s \in Semaphores : KeReleaseSemaphore(t, s)

Next ==
    \/ \E t \in Threads : KernelStep(t)
    \/ \E t \in Waiters : WaiterCall(t)
    \/ \E t \in Signallers : SignallerCall(t)

Spec == Init /\ [][Next]_vars

(* The host scheduler runs every thread that is inside the kernel, and one that waits for *)
(* KiWaitListMtx, which others take and release meanwhile, gets it in the end: strong     *)
(* fairness.  Threads are free not to call the kernel.                                   *)
FairSpec == Spec /\ \A t \in Threads : SF_vars(KernelStep(t))

-----------------------------------------------------------------------------

Locations == {"guest", "satisfy", "satisfyStore", "wait", "insert", "recheck", "recheckStore",
              "blocked", "test", "grant", "grantStore", "setEvent", "setSignal", "pulse",
              "reset", "release", "releaseTest"}

LockHeld == {"recheck", "recheckStore", "test", "grant", "grantStore"}

(* Every variable keeps its type; in particular no order of unlocked loads and stores    *)
(* takes a semaphore above the limit KeReleaseSemaphore checks.                          *)
TypeOK ==
    /\ SignalState \in [Objects -> Int]
    /\ \A e \in Events : SignalState[e] \in {0, 1}
    /\ \A s \in Semaphores : SignalState[s] <= Limit
    /\ WaitList \in [Objects -> Seq(Threads)]
    /\ State \in [Threads -> {"Running", "Waiting", "Ready"}]
    /\ WaitListLock \in Threads \cup {NoThread}
    /\ pc \in [Threads -> Locations]
    /\ object \in [Threads -> Objects \cup {NoObject}]
    /\ seen \in [Threads -> Int]
    /\ pulsing \in SUBSET Threads

(* The wait blocks are on the stacks of KeWaitForSingleObject: a block is linked in an   *)
(* object's list exactly while its thread waits there and has not been readied, once,     *)
(* whichever of the setter, the second check and the waiter comes first.  So no list      *)
(* leads into a stack frame that is gone, and no blocked thread is out of reach of a      *)
(* signal.                                                                              *)
WaitListIntegrity ==
    /\ \A o \in Objects : IsInjective(WaitList[o])
    /\ \A o \in Objects, t \in Threads :
          t \in ToSet(WaitList[o]) <=>
              /\ pc[t] \in {"recheck", "recheckStore", "blocked"}
              /\ object[t] = o
              /\ State[t] = "Waiting"

Resetting(e) == \E t \in Threads : pc[t] = "reset" /\ object[t] = e

(* A waiter that heads the list of a synchronization event when KeSetEvent is called is   *)
(* released; so is one in the list of a notification event that KeSetEvent found reset,   *)
(* unless somebody resets the event while KiWaitTest goes through the list.               *)
SetReleasesWaiter ==
    /\ \A e \in Synchronizations, t \in Waiters :
          (\E s \in Signallers : /\ pc[s] = "setEvent" /\ object[s] = e
                                /\ WaitList[e] # <<>> /\ Head(WaitList[e]) = t)
          ~> t \notin ToSet(WaitList[e])
    /\ \A e \in Notifications, t \in Waiters :
          (\E s \in Signallers : /\ pc[s] = "setEvent" /\ object[s] = e /\ seen[s] = 0
                                /\ t \in ToSet(WaitList[e]))
          ~> (t \notin ToSet(WaitList[e]) \/ Resetting(e))

(* What the second check under the lock is for (else "we'd wait forever"): when every    *)
(* call has returned or is blocked, nobody is blocked on an event that is signalled.      *)
NoLostWakeup ==
    (\A t \in Threads : pc[t] \in {"guest", "blocked"}) =>
        \A e \in Events : SignalState[e] > 0 => WaitList[e] = <<>>
=============================================================================
