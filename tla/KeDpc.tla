------------------------------- MODULE KeDpc -------------------------------
(***************************************************************************)
(* The deferred procedure call queue of the emulated kernel: g_DpcData,    *)
(* KeInsertQueueDpc, KeRemoveQueueDpc, CallSoftwareInterrupt and           *)
(* ExecuteDpcQueue, with its two kinds of executor.  The main thread sits  *)
(* in KeWaitForDpc and drains the queue; every other thread drains it when *)
(* a software interrupt reaches it below DISPATCH_LEVEL.                   *)
(*                                                                         *)
(* Whether a request bit of HalInterruptRequestRegister is still set when  *)
(* a thread looks at it is left open: the register is shared by all host   *)
(* threads and updated without synchronisation.                            *)
(***************************************************************************)
EXTENDS Integers, FiniteSets, SequencesExt

CONSTANTS
    Threads,      \* host threads that run kernel code
    Main,         \* the thread of the KeWaitForDpc loop
    AtDispatch,   \* threads that stay at DISPATCH_LEVEL (Main, system_events)
    Dpcs,         \* KDPC objects
    NoThread,     \* the owner of a free lock
    ListHead,     \* &g_DpcData.DpcQueue
    Null,         \* nullptr
    Junk,         \* a small value that is no pointer (0x12A)
    MaxSpoiled,   \* bound: how often the title writes nullptr over links of queued objects
    MaxNesting    \* bound: ExecuteDpcQueue frames on one thread

ASSUME DpcAssumption ==
    /\ Main \in AtDispatch
    /\ AtDispatch \subseteq Threads
    /\ NoThread \notin Threads
    /\ IsFiniteSet(Dpcs)
    /\ ListHead # Null /\ ListHead # Junk /\ Null # Junk
    /\ {ListHead, Null, Junk} \cap Dpcs = {}
    /\ MaxSpoiled \in Nat
    /\ MaxNesting \in Nat \ {0}

VARIABLES
    Flink,         \* Flink of g_DpcData.DpcQueue and of each KDPC.DpcListEntry
    Blink,         \* Blink, likewise
    Inserted,      \* KDPC.Inserted
    HasRoutine,    \* KDPC.DeferredRoutine # nullptr
    DpcLock,       \* owner of g_DpcData.Lock
    IsDpcPending,  \* g_DpcData.IsDpcPending
    IsDpcActive,   \* g_DpcData.IsDpcActive
    pc,            \* where each thread is
    frames,        \* the DPC objects whose routine a thread is inside, outermost first
    spoiled        \* history: how often the title has written nullptr over links so far

vars == <<Flink, Blink, Inserted, HasRoutine, DpcLock, IsDpcPending, IsDpcActive, pc,
          frames, spoiled>>

Locations == {"code", "setPending", "request", "interrupt", "enter", "loop", "leave"}

Goto(t, l) == pc' = [pc EXCEPT ![t] = l]

Nodes == Dpcs \cup {ListHead}

IsListEmpty == Flink[ListHead] = ListHead

InitializeListHead ==
    /\ Flink' = [Flink EXCEPT ![ListHead] = ListHead]
    /\ Blink' = [Blink EXCEPT ![ListHead] = ListHead]

(* The last entry is found through the head's Blink, which nothing checks: the host      *)
(* process faults on nullptr, and the model does not go on from there.                  *)
InsertTailList(d) ==
    /\ Blink[ListHead] \in Nodes
    /\ Flink' = [Flink EXCEPT ![d] = ListHead, ![Blink[ListHead]] = d]
    /\ Blink' = [Blink EXCEPT ![d] = Blink[ListHead], ![ListHead] = d]

(* Either neighbour may be nullptr, and is then left out; on a small value that is no    *)
(* pointer the host process faults.                                                     *)
RemoveEntryList(d) ==
    /\ Blink[d] # Junk
    /\ Flink' = IF Blink[d] = Null THEN Flink ELSE [Flink EXCEPT ![Blink[d]] = Flink[d]]
    /\ Blink' = IF Flink[d] = Null THEN Blink ELSE [Blink EXCEPT ![Flink[d]] = Blink[d]]

(* InitDpcData: an empty queue; the KDPC objects have been through KeInitializeDpc. *)
Init ==
    /\ Flink = [n \in Nodes |-> IF n = ListHead THEN ListHead ELSE Null]
    /\ Blink = [n \in Nodes |-> IF n = ListHead THEN ListHead ELSE Null]
    /\ Inserted = [d \in Dpcs |-> FALSE]
    /\ HasRoutine = [d \in Dpcs |-> TRUE]
    /\ DpcLock = NoThread
    /\ IsDpcPending = FALSE
    /\ IsDpcActive = FALSE
    /\ pc = [t \in Threads |-> "code"]
    /\ frames = [t \in Threads |-> <<>>]
    /\ spoiled = 0

(***************************************************************************)
(* Guest code: a thread outside the kernel, or inside a DPC routine.  Main *)
(* runs guest code only inside a DPC routine.                              *)
(***************************************************************************)
InGuestCode(t) == pc[t] = "code" /\ (t = Main => frames[t] # <<>>)

(* KeInsertQueueDpc up to LeaveCriticalSection. *)
KeInsertQueueDpc(t, d) ==
    /\ InGuestCode(t)
    /\ DpcLock = NoThread
    /\ ~Inserted[d]
    /\ Inserted' = [Inserted EXCEPT ![d] = TRUE]
    /\ InsertTailList(d)
    /\ Goto(t, "setPending")
    /\ UNCHANGED <<HasRoutine, DpcLock, IsDpcPending, IsDpcActive, frames, spoiled>>

(* Faults: the wake-up is left to the thread that is active in a DPC routine; it is      *)
(* forgotten.                                                                           *)
SetPendingUnlessActive(t) ==
    /\ pc[t] = "setPending"
    /\ IsDpcPending' = (IsDpcPending \/ ~IsDpcActive)
    /\ Goto(t, "request")
    /\ UNCHANGED <<Flink, Blink, Inserted, HasRoutine, DpcLock, IsDpcActive, frames,
                   spoiled>>

SetPendingForgotten(t) ==
    /\ pc[t] = "setPending"
    /\ Goto(t, "request")
    /\ UNCHANGED <<Flink, Blink, Inserted, HasRoutine, DpcLock, IsDpcPending,
                   IsDpcActive, frames, spoiled>>

(* KeInsertQueueDpc after the lock: IsDpcPending.test_and_set, notify_one. *)
SetPending(t) ==
    /\ pc[t] = "setPending"
    /\ IsDpcPending' = TRUE
    /\ Goto(t, "request")
    /\ UNCHANGED <<Flink, Blink, Inserted, HasRoutine, DpcLock, IsDpcActive, frames,
                   spoiled>>

(* KeInsertQueueDpc: if (!IsDpcActive()) HalRequestSoftwareInterrupt(DISPATCH_LEVEL),   *)
(* which calls CallSoftwareInterrupt only below DISPATCH_LEVEL, and then depending on   *)
(* the request bits it reads.                                                           *)
HalRequestSoftwareInterrupt(t) ==
    /\ pc[t] = "request"
    /\ \/ Goto(t, "code")
       \/ /\ ~IsDpcActive
          /\ t \notin AtDispatch
          /\ Len(frames[t]) < MaxNesting
          /\ Goto(t, "interrupt")
    /\ UNCHANGED <<Flink, Blink, Inserted, HasRoutine, DpcLock, IsDpcPending,
                   IsDpcActive, frames, spoiled>>

(* KfLowerIrql and KiUnlockDispatcherDatabase, wherever guest code leads to them: a     *)
(* pending dispatch interrupt is taken by the thread that lowers its level.             *)
KfLowerIrql(t) ==
    /\ InGuestCode(t)
    /\ t \notin AtDispatch
    /\ Len(frames[t]) < MaxNesting
    /\ Goto(t, "interrupt")
    /\ UNCHANGED <<Flink, Blink, Inserted, HasRoutine, DpcLock, IsDpcPending,
                   IsDpcActive, frames, spoiled>>

(* CallSoftwareInterrupt(DISPATCH_LEVEL). *)
CallSoftwareInterrupt(t) ==
    /\ pc[t] = "interrupt"
    /\ Goto(t, IF IsDpcActive THEN "code" ELSE "enter")
    /\ UNCHANGED <<Flink, Blink, Inserted, HasRoutine, DpcLock, IsDpcPending,
                   IsDpcActive, frames, spoiled>>

(* KeWaitForDpc: IsDpcPending.wait(false). *)
KeWaitForDpc ==
    /\ pc[Main] = "code"
    /\ frames[Main] = <<>>
    /\ IsDpcPending
    /\ Goto(Main, "enter")
    /\ UNCHANGED <<Flink, Blink, Inserted, HasRoutine, DpcLock, IsDpcPending,
                   IsDpcActive, frames, spoiled>>

(* ExecuteDpcQueue: the first EnterCriticalSection. *)
EnterQueue(t) ==
    /\ pc[t] = "enter"
    /\ DpcLock = NoThread
    /\ DpcLock' = t
    /\ Goto(t, "loop")
    /\ UNCHANGED <<Flink, Blink, Inserted, HasRoutine, IsDpcPending, IsDpcActive, frames,
                   spoiled>>

(* ExecuteDpcQueue: the head leads nowhere; the head is reset, whatever was queued.       *)
ResetQueue(t) ==
    /\ pc[t] = "loop"
    /\ Flink[ListHead] = Null
    /\ InitializeListHead
    /\ UNCHANGED <<Inserted, HasRoutine, DpcLock, IsDpcPending, IsDpcActive, pc, frames,
                   spoiled>>

(* ExecuteDpcQueue: the Blink of the first entry is no pointer; the entry is unlinked by *)
(* hand.                                                                                *)
SkipEntry(t) ==
    LET d == Flink[ListHead] IN
    /\ pc[t] = "loop"
    /\ d \in Dpcs
    /\ Blink[d] \in {Null, Junk}
    /\ Flink' = [Flink EXCEPT ![ListHead] = Flink[d]]
    /\ Blink' = IF Flink[d] = Null THEN Blink ELSE [Blink EXCEPT ![Flink[d]] = ListHead]
    /\ Inserted' = [Inserted EXCEPT ![d] = FALSE]
    /\ UNCHANGED <<HasRoutine, DpcLock, IsDpcPending, IsDpcActive, pc, frames, spoiled>>

(* ExecuteDpcQueue: take the first entry off the list. *)
RemoveHeadList(d) ==
    /\ d = Flink[ListHead]
    /\ d \in Dpcs
    /\ Blink[d] \in Nodes
    /\ RemoveEntryList(d)
    /\ Inserted' = [Inserted EXCEPT ![d] = FALSE]

(* ExecuteDpcQueue: its routine was cleared; the loop goes on under the lock.            *)
DropEntry(t) ==
    /\ pc[t] = "loop"
    /\ RemoveHeadList(Flink[ListHead])
    /\ ~HasRoutine[Flink[ListHead]]
    /\ UNCHANGED <<HasRoutine, DpcLock, IsDpcPending, IsDpcActive, pc, frames, spoiled>>

(* ExecuteDpcQueue: mark it active, release the lock, call the routine.                  *)
CallRoutine(t) ==
    /\ pc[t] = "loop"
    /\ RemoveHeadList(Flink[ListHead])
    /\ HasRoutine[Flink[ListHead]]
    /\ IsDpcActive' = TRUE
    /\ DpcLock' = NoThread
    /\ frames' = [frames EXCEPT ![t] = Append(@, Flink[ListHead])]
    /\ Goto(t, "code")
    /\ UNCHANGED <<HasRoutine, IsDpcPending, spoiled>>

(* Faults: the loop goes on without the lock; IsDpcActive is not cleared. *)
RoutineReturnsUnlocked(t) ==
    /\ pc[t] = "code"
    /\ frames[t] # <<>>
    /\ IsDpcActive' = FALSE
    /\ frames' = [frames EXCEPT ![t] = Front(@)]
    /\ Goto(t, "loop")
    /\ UNCHANGED <<Flink, Blink, Inserted, HasRoutine, DpcLock, IsDpcPending, spoiled>>

RoutineReturnsActive(t) ==
    /\ pc[t] = "code"
    /\ frames[t] # <<>>
    /\ DpcLock = NoThread
    /\ DpcLock' = t
    /\ frames' = [frames EXCEPT ![t] = Front(@)]
    /\ Goto(t, "loop")
    /\ UNCHANGED <<Flink, Blink, Inserted, HasRoutine, IsDpcPending, IsDpcActive, spoiled>>

(* The routine returns; ExecuteDpcQueue re-enters the lock and clears IsDpcActive.      *)
RoutineReturns(t) ==
    /\ pc[t] = "code"
    /\ frames[t] # <<>>
    /\ DpcLock = NoThread
    /\ DpcLock' = t
    /\ IsDpcActive' = FALSE
    /\ frames' = [frames EXCEPT ![t] = Front(@)]
    /\ Goto(t, "loop")
    /\ UNCHANGED <<Flink, Blink, Inserted, HasRoutine, IsDpcPending, spoiled>>

(* ExecuteDpcQueue: the queue is empty, IsDpcPending.clear(), still under the lock.     *)
ClearPending(t) ==
    /\ pc[t] = "loop"
    /\ IsListEmpty
    /\ IsDpcPending' = FALSE
    /\ Goto(t, "leave")
    /\ UNCHANGED <<Flink, Blink, Inserted, HasRoutine, DpcLock, IsDpcActive, frames,
                   spoiled>>

(* ExecuteDpcQueue: the last LeaveCriticalSection, and the return to the interrupted    *)
(* code (for Main: back to KeWaitForDpc).                                               *)
LeaveQueue(t) ==
    /\ pc[t] = "leave"
    /\ DpcLock' = NoThread
    /\ Goto(t, "code")
    /\ UNCHANGED <<Flink, Blink, Inserted, HasRoutine, IsDpcPending, IsDpcActive, frames,
                   spoiled>>

(* Fault: the removed object keeps its Inserted flag. *)
KeRemoveQueueDpcKeepsFlag(t, d) ==
    /\ InGuestCode(t)
    /\ DpcLock = NoThread
    /\ Inserted[d]
    /\ RemoveEntryList(d)
    /\ UNCHANGED <<Inserted, HasRoutine, DpcLock, IsDpcPending, IsDpcActive, pc, frames,
                   spoiled>>

KeRemoveQueueDpc(t, d) ==
    /\ InGuestCode(t)
    /\ DpcLock = NoThread
    /\ Inserted[d]
    /\ RemoveEntryList(d)
    /\ Inserted' = [Inserted EXCEPT ![d] = FALSE]
    /\ UNCHANGED <<HasRoutine, DpcLock, IsDpcPending, IsDpcActive, pc, frames, spoiled>>

(* KeInitializeDpc of an object that is not queued, as far as its owner can see. *)
KeInitializeDpc(t, d) ==
    /\ InGuestCode(t)
    /\ ~Inserted[d]
    /\ ~HasRoutine[d]
    /\ HasRoutine' = [HasRoutine EXCEPT ![d] = TRUE]
    /\ UNCHANGED <<Flink, Blink, Inserted, DpcLock, IsDpcPending, IsDpcActive, pc,
                   frames, spoiled>>

(* What ExecuteDpcQueue guards against: the title clears DeferredRoutine of a queued    *)
(* object, writes a small value or nullptr over its Blink, or clears it as a whole.     *)
(* The write comes between the turns of the loop of ExecuteDpcQueue, not within one.    *)
GuestClobbersDpc(d) ==
    /\ Inserted[d]
    /\ \/ /\ HasRoutine' = [HasRoutine EXCEPT ![d] = FALSE]
          /\ UNCHANGED <<Flink, Blink, Inserted, spoiled>>
       \/ /\ Blink' = [Blink EXCEPT ![d] = Junk]
          /\ UNCHANGED <<Flink, Inserted, HasRoutine, spoiled>>
       \/ /\ spoiled < MaxSpoiled
          /\ spoiled' = spoiled + 1
          /\ Blink' = [Blink EXCEPT ![d] = Null]
          /\ UNCHANGED <<Flink, Inserted, HasRoutine>>
       \/ /\ spoiled < MaxSpoiled
          /\ spoiled' = spoiled + 1
          /\ Flink' = [Flink EXCEPT ![d] = Null]
          /\ Blink' = [Blink EXCEPT ![d] = Null]
          /\ Inserted' = [Inserted EXCEPT ![d] = FALSE]
          /\ HasRoutine' = [HasRoutine EXCEPT ![d] = FALSE]
    /\ UNCHANGED <<DpcLock, IsDpcPending, IsDpcActive, pc, frames>>

(* What a thread does without being asked: the rest of a kernel call it has begun. *)
KernelStep(t) ==
    \/ SetPending(t)
    \/ HalRequestSoftwareInterrupt(t)
    \/ CallSoftwareInterrupt(t)
    \/ EnterQueue(t)
    \/ ResetQueue(t)
    \/ SkipEntry(t)
    \/ DropEntry(t)
    \/ CallRoutine(t)
    \/ ClearPending(t)
    \/ LeaveQueue(t)

GuestStep(t) ==
    \/ KfLowerIrql(t)
    \/ \E d \in Dpcs :
        \/ KeInsertQueueDpc(t, d)
        \/ KeRemoveQueueDpc(t, d)
        \/ KeInitializeDpc(t, d)

Next ==
    \/ KeWaitForDpc
    \/ \E t \in Threads : KernelStep(t) \/ RoutineReturns(t) \/ GuestStep(t)
    \/ \E d \in Dpcs : GuestClobbersDpc(d)

Spec == Init /\ [][Next]_vars

(* The host scheduler runs every thread.  Every DPC routine returns, whatever kernel    *)
(* calls it makes on the way: strong fairness, as those calls disable the return.       *)
Fairness ==
    /\ WF_vars(KeWaitForDpc)
    /\ \A t \in Threads : WF_vars(KernelStep(t)) /\ SF_vars(RoutineReturns(t))

FairSpec == Spec /\ Fairness

-----------------------------------------------------------------------------

(* Every variable keeps its type; the lock's owner is the thread inside the queue loop. *)
TypeOK ==
    /\ Flink \in [Nodes -> Nodes \cup {Null}]
    /\ Blink \in [Nodes -> Nodes \cup {Null, Junk}]
    /\ Inserted \in [Dpcs -> BOOLEAN]
    /\ HasRoutine \in [Dpcs -> BOOLEAN]
    /\ DpcLock \in Threads \cup {NoThread}
    /\ IsDpcPending \in BOOLEAN
    /\ IsDpcActive \in BOOLEAN
    /\ pc \in [Threads -> Locations]
    /\ frames \in [Threads -> Seq(Dpcs)]
    /\ spoiled \in 0..MaxSpoiled
    /\ \A t \in Threads : DpcLock = t <=> pc[t] \in {"loop", "leave"}

(* The list g_DpcData.DpcQueue is q: the links lead through it from the head and back,   *)
(* but for a Blink that was overwritten.                                                *)
EntryAt(q, i) == IF i \in DOMAIN q THEN q[i] ELSE ListHead

QueueIs(q) ==
    /\ \A i \in 0..Len(q) : Flink[EntryAt(q, i)] = EntryAt(q, i + 1)
    /\ Blink[ListHead] = EntryAt(q, Len(q))
    /\ \A i \in 1..Len(q) : Blink[q[i]] \in {EntryAt(q, i - 1), Junk}

(* KDPC.Inserted is set for exactly the objects linked in g_DpcData.DpcQueue, and no     *)
(* object is linked twice: what KeInsertQueueDpc and KeRemoveQueueDpc rely on before    *)
(* they touch DpcListEntry.  It holds until a title writes nullptr over the links of a  *)
(* queued object: ExecuteDpcQueue then resets the head, and RemoveEntryList leaves an   *)
(* entry where it is, whatever the flags say.                                           *)
InsertedIffQueued ==
    spoiled = 0 =>
        \E q \in SeqOf(Dpcs, Cardinality(Dpcs)) :
            /\ IsInjective(q)
            /\ QueueIs(q)
            /\ ToSet(q) = {d \in Dpcs : Inserted[d]}

(* No lost wakeup: while a DPC is queued, IsDpcPending is set or the thread that queued *)
(* it is about to set it, although the flag is set after the lock has been released.    *)
QueuedIsPending ==
    ~IsListEmpty => IsDpcPending \/ \E t \in Threads : pc[t] = "setPending"

(* IsDpcActive, which makes CallSoftwareInterrupt decline to drain the queue, is only   *)
(* set while some thread is inside a DPC routine and will come back to the queue.       *)
ActiveHasRunner ==
    IsDpcActive => \E t \in Threads : frames[t] # <<>>

(* A queued DPC leaves the queue: it is run, dropped by the guards or removed, unless a *)
(* title has written nullptr over links.                                                *)
QueuedDpcRuns == \A d \in Dpcs : Inserted[d] ~> (~Inserted[d] \/ spoiled > 0)

(* CallSoftwareInterrupt: "avoid calling DPCs again if the current one has queued yet   *)
(* another one": no thread is inside two DPC routines at once.                          *)
NoNestedExecution == \A t \in Threads : Len(frames[t]) <= 1
=============================================================================
