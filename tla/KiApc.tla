------------------------------- MODULE KiApc -------------------------------
(***************************************************************************)
(* Asynchronous procedure calls: KeInsertQueueApc, NtQueueApcThread,       *)
(* KiInsertQueueApc, KiExecuteApc, the critical regions that hold kernel   *)
(* APCs back, the waits that let APCs run (KeWaitForSingleObject and the   *)
(* host waits through WaitApc and SatisfyWait) and KeEmptyQueueApc at the  *)
(* end of a thread.                                                        *)
(*                                                                         *)
(* A thread is a stack of frames: its own guest code at the bottom, the    *)
(* kernel functions it is in above, and the guest code of an APC routine   *)
(* on top of the KiExecuteApc that called it.  What is done under          *)
(* KiApcListMtx is one step, since every other user of the lists takes it  *)
(* too, except the reads without it, which are steps of their own.         *)
(*                                                                         *)
(* APC routines do not wait or enter a critical region, the software       *)
(* interrupt register is left out (KeLeaveCriticalRegion calls at passive  *)
(* level), and apc_try_lock is on, as it is by default: the blocking lock  *)
(* has a subset of its behaviours.                                         *)
(***************************************************************************)
EXTENDS Integers, SequencesExt

CONSTANTS
    Threads,
    Targets,       \* the threads APCs are queued to
    KernelApcs,    \* KAPCs of the title, initialised for kernel mode
    UserApcs,      \* pool blocks NtQueueApcThread takes its KAPCs from
    FlagModes,     \* the values of satisfy_wait_apc_flags
    MaxDepth,      \* bound: frames of a thread
    NoThread,
    NoApc

Apcs == KernelApcs \cup UserApcs
Modes == {"Kernel", "User"}

(* <<Alertable, WaitMode>> of a wait. *)
AlertableWait == <<TRUE, "User">>
PlainWait == <<FALSE, "User">>
WaitArgs == {AlertableWait, PlainWait}

ASSUME ApcAssumption ==
    /\ KernelApcs \cap UserApcs = {}
    /\ NoApc \notin Apcs
    /\ Targets \subseteq Threads
    /\ NoThread \notin Threads
    /\ FlagModes \subseteq BOOLEAN
    /\ MaxDepth \in Nat

VARIABLES
    ApcList,          \* ApcState.ApcListHead[mode] of each thread
    Inserted,         \* KAPC.Inserted
    ApcThread,        \* KAPC.Thread; NoThread for a pool block that is free
    Pending,          \* ApcState.KernelApcPending and UserApcPending
    KernelApcDisable,
    ApcQueueable,
    Alertable,        \* KTHREAD.Alertable and WaitMode, as the last KeWait left them
    State,            \* KTHREAD.State
    stack,
    flags             \* g_BetaConfig.satisfy_wait_apc_flags

lists == <<ApcList, Inserted, ApcThread>>
threads == <<KernelApcDisable, ApcQueueable, Alertable, State>>
vars == <<lists, Pending, threads, stack, flags>>

Labels ==
    {"guest", "insert", "mark", "clear", "drain", "routine", "test", "block",
     "poll", "pollUser", "unwait", "empty", "dead"}

Frames ==
    [at : Labels, apc : Apcs \cup {NoApc}, thread : Threads \cup {NoThread},
     mode : Modes, wait : WaitArgs]

Guest == [at |-> "guest", apc |-> NoApc, thread |-> NoThread, mode |-> "Kernel", wait |-> PlainWait]
InsertFrame(a, target) == [Guest EXCEPT !.at = "insert", !.apc = a, !.thread = target]
ExecuteFrame(m) == [Guest EXCEPT !.at = "clear", !.mode = m]
WaitFrame(at, w) == [Guest EXCEPT !.at = at, !.wait = w]

Top(t) == Last(stack[t])
At(t, l) == Top(t).at = l

Push(t, f) == stack' = [stack EXCEPT ![t] = Append(@, f)]
Pop(t) == stack' = [stack EXCEPT ![t] = Front(@)]
Become(t, f) == stack' = [stack EXCEPT ![t] = Append(Front(@), f)]
Goto(t, l) == Become(t, [Top(t) EXCEPT !.at = l])

(* Guest code runs at the bottom of the stack and in an APC's NormalRoutine. *)
InGuest(t) == Top(t).at \in {"guest", "routine"}
Calls(t) == InGuest(t) /\ Len(stack[t]) < MaxDepth

(* PCSTProxy runs the kernel APCs queued meanwhile before the thread's own code. *)
Init ==
    /\ ApcList = [t \in Threads |-> [m \in Modes |-> <<>>]]
    /\ Inserted = [a \in Apcs |-> FALSE]
    /\ ApcThread \in [Apcs -> Targets \cup {NoThread}]
    /\ \A a \in Apcs : ApcThread[a] = NoThread <=> a \in UserApcs
    /\ Pending = [t \in Threads |-> [m \in Modes |-> FALSE]]
    /\ KernelApcDisable = [t \in Threads |-> 0]
    /\ ApcQueueable = [t \in Threads |-> TRUE]
    /\ Alertable = [t \in Threads |-> FALSE]
    /\ State = [t \in Threads |-> "Running"]
    /\ stack = [t \in Threads |-> <<Guest, ExecuteFrame("Kernel")>>]
    /\ flags \in FlagModes

-----------------------------------------------------------------------------
(* Queueing *)

ModeOf(a) == IF a \in KernelApcs THEN "Kernel" ELSE "User"

(* KeInsertQueueApc up to the test of ApcQueueable. *)
KeInsertQueueApc(t, a) ==
    /\ Calls(t)
    /\ a \in KernelApcs
    /\ ApcQueueable[ApcThread[a]]
    /\ Push(t, InsertFrame(a, ApcThread[a]))
    /\ UNCHANGED <<lists, Pending, threads, flags>>

(* NtQueueApcThread: a KAPC from the pool, KeInitializeApc, KeInsertQueueApc.  A refused    *)
(* APC is freed at once, and the call has changed nothing.                                *)
NtQueueApcThread(t, a, target) ==
    /\ Calls(t)
    /\ a \in UserApcs
    /\ ApcThread[a] = NoThread
    /\ ApcQueueable[target]
    /\ ApcThread' = [ApcThread EXCEPT ![a] = target]
    /\ Inserted' = [Inserted EXCEPT ![a] = FALSE]
    /\ Push(t, InsertFrame(a, target))
    /\ UNCHANGED <<ApcList, Pending, threads, flags>>

(* Fault: Inserted is not tested. *)
AlreadyInsertedUntested(a) == FALSE
AlreadyInserted(a) == Inserted[a]

(* KiInsertQueueApc, under KiApcListMtx. *)
KiInsertQueueApc(t) ==
    LET f == Top(t)
    IN /\ f.at = "insert"
       /\ \/ /\ AlreadyInserted(f.apc)
             /\ Pop(t)
             /\ UNCHANGED <<ApcList, Inserted>>
          \/ /\ ~AlreadyInserted(f.apc)
             /\ ApcList' = [ApcList EXCEPT ![f.thread][ModeOf(f.apc)] = Append(@, f.apc)]
             /\ Inserted' = [Inserted EXCEPT ![f.apc] = TRUE]
             /\ Goto(t, "mark")
       /\ UNCHANGED <<ApcThread, Pending, threads, flags>>

(* Whether KiInsertQueueApc sets the pending flag. *)
SetsPending(target, m) == m = "Kernel" \/ Alertable[target]

(* KiInsertQueueApc, after the unlock: the flag, and the APC at once on its own thread. *)
MarkPending(t) ==
    LET f == Top(t)
        m == ModeOf(f.apc)
    IN /\ f.at = "mark"
       /\ \/ /\ SetsPending(f.thread, m)
             /\ Pending' = [Pending EXCEPT ![f.thread][m] = TRUE]
             /\ IF f.thread = t THEN Become(t, ExecuteFrame(m)) ELSE Pop(t)
          \/ /\ ~SetsPending(f.thread, m)
             /\ Pop(t)
             /\ UNCHANGED Pending
       /\ UNCHANGED <<lists, threads, flags>>

-----------------------------------------------------------------------------
(* KiExecuteApc *)

(* KiApcListMtx can be seen held when another thread is where it takes it. *)
TakesLock(u) ==
    \/ Top(u).at \in {"insert", "drain", "empty"}
    \/ Top(u).at \in {"poll", "pollUser"} /\ ~flags
Contended(t) == \E u \in Threads \ {t} : TakesLock(u)

ClearPending(t) ==
    /\ At(t, "clear")
    /\ Pending' = [Pending EXCEPT ![t][Top(t).mode] = FALSE]
    /\ Goto(t, "drain")
    /\ UNCHANGED <<lists, threads, flags>>

HeldBack(t, m) == m = "Kernel" /\ KernelApcDisable[t] # 0

(* KiFreeUserApc gives the block back; the KernelRoutine of a kernel APC leaves it alone. *)
AfterKernelRoutine(a) ==
    IF a \in UserApcs THEN [ApcThread EXCEPT ![a] = NoThread] ELSE ApcThread

(* One turn of the loop of KiExecuteApc: the head is taken out under the lock and its       *)
(* KernelRoutine is called; its NormalRoutine is next.                                    *)
ExecuteNext(t) ==
    LET m == Top(t).mode
        list == ApcList[t][m]
    IN /\ At(t, "drain")
       /\ \/ /\ list = <<>> \/ HeldBack(t, m)
             /\ Pop(t)
             /\ UNCHANGED lists
          \/ /\ list # <<>>
             /\ ~HeldBack(t, m)
             /\ ApcList' = [ApcList EXCEPT ![t][m] = Tail(@)]
             /\ Inserted' = [Inserted EXCEPT ![Head(list)] = FALSE]
             /\ ApcThread' = AfterKernelRoutine(Head(list))
             /\ Goto(t, "routine")
       /\ UNCHANGED <<Pending, threads, flags>>

(* The flag that makes KiExecuteApc come back for the APCs it leaves. *)
(* Fault: the flag is not set again. *)
LeftPendingUnmarked(t) == Pending
LeftPending(t) == [Pending EXCEPT ![t][Top(t).mode] = TRUE]

(* The NormalRoutine returns; KiExecuteApc goes on, or gives up when try_lock fails. *)
RoutineReturns(t) ==
    /\ At(t, "routine")
    /\ \/ Goto(t, "drain") /\ UNCHANGED Pending
       \/ /\ Contended(t)
          /\ Pending' = LeftPending(t)
          /\ Pop(t)
    /\ UNCHANGED <<lists, threads, flags>>

(* The end of every call that locks the dispatcher database. *)
KiUnlockDispatcherDatabase(t) ==
    /\ Calls(t)
    /\ Pending[t]["Kernel"]
    /\ Push(t, ExecuteFrame("Kernel"))
    /\ UNCHANGED <<lists, Pending, threads, flags>>

(* Fault: the count goes up. *)
KeEnterCriticalRegionUp(t) ==
    /\ At(t, "guest")
    /\ KernelApcDisable[t] = 0
    /\ KernelApcDisable' = [KernelApcDisable EXCEPT ![t] = @ + 1]
    /\ UNCHANGED <<lists, Pending, ApcQueueable, Alertable, State, stack, flags>>
KeEnterCriticalRegion(t) ==
    /\ At(t, "guest")
    /\ KernelApcDisable[t] = 0          \* bound: regions do not nest
    /\ KernelApcDisable' = [KernelApcDisable EXCEPT ![t] = @ - 1]
    /\ UNCHANGED <<lists, Pending, ApcQueueable, Alertable, State, stack, flags>>

(* Whether the region left is the outermost and kernel APCs were held back in it. *)
RunsDelayed(t) == KernelApcDisable[t] = -1 /\ ApcList[t]["Kernel"] # <<>>

KeLeaveCriticalRegion(t) ==
    /\ At(t, "guest")
    /\ KernelApcDisable[t] # 0
    /\ KernelApcDisable' = [KernelApcDisable EXCEPT ![t] = @ + 1]
    /\ IF RunsDelayed(t)
       THEN /\ Pending' = [Pending EXCEPT ![t]["Kernel"] = TRUE]
            /\ Push(t, ExecuteFrame("Kernel"))
       ELSE UNCHANGED <<Pending, stack>>
    /\ UNCHANGED <<lists, ApcQueueable, Alertable, State, flags>>

-----------------------------------------------------------------------------
(* Waiting *)

(* TestForAlertPending: the wait ends at once with X_STATUS_USER_APC.  (Nothing sets      *)
(* Thread->Alerted.)                                                                    *)
AlertPending(t, w) ==
    IF w = AlertableWait THEN ApcList[t]["User"] # <<>> ELSE Pending[t]["User"]

(* KeWaitForSingleObject on an object that is not signalled.  Kernel APCs that are pending  *)
(* run first (KiUnlockDispatcherDatabase).  A wait that TestForAlertPending ends leaves     *)
(* its user APCs queued: the call of KiExecuteUserApc after the loop is disabled.          *)
KeWaitForSingleObject(t, w) ==
    /\ At(t, "guest")
    /\ ~Pending[t]["Kernel"]
    /\ \/ /\ AlertPending(t, w)
          /\ Pending' = [Pending EXCEPT ![t]["User"] = TRUE]
          /\ UNCHANGED stack
       \/ /\ ~AlertPending(t, w)
          /\ Push(t, WaitFrame("block", w))
          /\ UNCHANGED Pending
    /\ UNCHANGED <<lists, threads, flags>>

(* Alertable, WaitMode and State are set. *)
BecomeWaiting(t) ==
    /\ At(t, "block")
    /\ Alertable' = [Alertable EXCEPT ![t] = Top(t).wait = AlertableWait]
    /\ State' = [State EXCEPT ![t] = "Waiting"]
    /\ Goto(t, "poll")
    /\ UNCHANGED <<lists, Pending, KernelApcDisable, ApcQueueable, flags>>

(* NtWaitForMultipleObjectsEx and KeDelayExecutionThread: AddWaitObject makes the thread    *)
(* Waiting and leaves Alertable and WaitMode as they were.                                *)
HostWait(t, w) ==
    /\ At(t, "guest")
    /\ State' = [State EXCEPT ![t] = "Waiting"]
    /\ Push(t, WaitFrame("poll", w))
    /\ UNCHANGED <<lists, Pending, KernelApcDisable, ApcQueueable, Alertable, flags>>

(* The object is signalled, or the time is over: KiUnwaitThread. *)
KiUnwaitThread(t) ==
    /\ State[t] = "Waiting"
    /\ State' = [State EXCEPT ![t] = "Ready"]
    /\ UNCHANGED <<lists, Pending, KernelApcDisable, ApcQueueable, Alertable, stack, flags>>

EndWait(t) ==
    /\ State' = [State EXCEPT ![t] = "Running"]
    /\ Pop(t)
    /\ UNCHANGED <<lists, Pending, KernelApcDisable, ApcQueueable, Alertable, flags>>

(* What SatisfyWait takes as the sign that APCs of a mode are to be run. *)
(* Fault: the list of user APCs is looked at for both modes. *)
SeesApcWrongList(t, m) == IF flags THEN Pending[t][m] ELSE ApcList[t]["User"] # <<>>
(* Fault: the flag is used in the other mode too. *)
SeesApcPending(t, m) == Pending[t][m]
SeesApc(t, m) == IF flags THEN Pending[t][m] ELSE ApcList[t][m] # <<>>

(* SatisfyWait up to the kernel APCs. *)
SatisfyWait(t) ==
    /\ At(t, "poll")
    /\ \/ State[t] = "Ready" /\ EndWait(t)
       \/ /\ State[t] # "Ready"
          /\ LET f == [Top(t) EXCEPT !.at = "pollUser"]
             IN stack' = [stack EXCEPT ![t] =
                             Front(@) \o IF SeesApc(t, "Kernel")
                                         THEN <<f, ExecuteFrame("Kernel")>>
                                         ELSE <<f>>]
          /\ UNCHANGED <<lists, Pending, threads, flags>>

(* The rest of SatisfyWait: the user APCs, which end the wait. *)
SatisfyWaitUser(t) ==
    /\ At(t, "pollUser")
    /\ \/ /\ Top(t).wait = AlertableWait
          /\ SeesApc(t, "User")
          /\ stack' = [stack EXCEPT ![t] =
                          Front(@) \o <<[Top(t) EXCEPT !.at = "unwait"], ExecuteFrame("User")>>]
       \/ /\ Top(t).wait # AlertableWait \/ ~SeesApc(t, "User")
          /\ Goto(t, "poll")
    /\ UNCHANGED <<lists, Pending, threads, flags>>

(* KiUnwaitThreadAndLock with X_STATUS_USER_APC, unless the object has been signalled. *)
UnwaitUserApc(t) ==
    /\ At(t, "unwait")
    /\ EndWait(t)

-----------------------------------------------------------------------------
(* The end of a thread *)

(* KeEmptyQueueApc up to the drain; leaving the critical region runs the kernel APCs. *)
KeEmptyQueueApc(t) ==
    /\ At(t, "guest")
    /\ KernelApcDisable[t] = 0
    /\ ApcQueueable' = [ApcQueueable EXCEPT ![t] = FALSE]
    /\ LET f == [Guest EXCEPT !.at = "empty"]
       IN IF ApcList[t]["Kernel"] # <<>>
          THEN /\ stack' = [stack EXCEPT ![t] = <<f, ExecuteFrame("Kernel")>>]
               /\ Pending' = [Pending EXCEPT ![t]["Kernel"] = TRUE]
          ELSE /\ stack' = [stack EXCEPT ![t] = <<f>>]
               /\ UNCHANGED Pending
    /\ UNCHANGED <<lists, KernelApcDisable, Alertable, State, flags>>

(* Every APC left is freed under the lock.  Inserted stays as it was. *)
FreeQueuedApcs(t) ==
    /\ At(t, "empty")
    /\ ApcList' = [ApcList EXCEPT ![t] = [m \in Modes |-> <<>>]]
    /\ ApcThread' = [a \in Apcs |->
                       IF a \in ToSet(ApcList[t]["User"]) THEN NoThread ELSE ApcThread[a]]
    /\ Goto(t, "dead")
    /\ UNCHANGED <<Inserted, Pending, threads, flags>>

-----------------------------------------------------------------------------
(* The steps a thread goes on with by itself once it is in the kernel. *)
KernelStep(t) ==
    \/ KiInsertQueueApc(t)
    \/ MarkPending(t)
    \/ ClearPending(t)
    \/ ExecuteNext(t)
    \/ BecomeWaiting(t)
    \/ SatisfyWait(t)
    \/ SatisfyWaitUser(t)
    \/ UnwaitUserApc(t)
    \/ FreeQueuedApcs(t)

GuestStep(t) ==
    \/ \E a \in KernelApcs : KeInsertQueueApc(t, a)
    \/ \E a \in UserApcs, target \in Targets : NtQueueApcThread(t, a, target)
    \/ KiUnlockDispatcherDatabase(t)
    \/ /\ t \in Targets        \* bound: for the others nothing is ever queued
       /\ \/ KeEnterCriticalRegion(t)
          \/ KeLeaveCriticalRegion(t)
          \/ \E w \in WaitArgs : KeWaitForSingleObject(t, w)
          \/ \E w \in WaitArgs : HostWait(t, w)
          \/ KeEmptyQueueApc(t)

Next ==
    \E t \in Threads :
        \/ KernelStep(t)
        \/ GuestStep(t)
        \/ RoutineReturns(t)
        \/ KiUnwaitThread(t)

(* The host schedules every thread, and a routine of a title returns. *)
Fairness ==
    \A t \in Threads : WF_vars(KernelStep(t)) /\ SF_vars(RoutineReturns(t))

Spec == Init /\ [][Next]_vars /\ Fairness

-----------------------------------------------------------------------------
(* Every variable holds a value of its C++ type; the bottom frame is never popped. *)
TypeOK ==
    /\ ApcList \in [Threads -> [Modes -> Seq(Apcs)]]
    /\ Inserted \in [Apcs -> BOOLEAN]
    /\ ApcThread \in [Apcs -> Targets \cup {NoThread}]
    /\ Pending \in [Threads -> [Modes -> BOOLEAN]]
    /\ KernelApcDisable \in [Threads -> {-1, 0}]
    /\ ApcQueueable \in [Threads -> BOOLEAN]
    /\ Alertable \in [Threads -> BOOLEAN]
    /\ State \in [Threads -> {"Running", "Waiting", "Ready"}]
    /\ stack \in [Threads -> Seq(Frames) \ {<<>>}]
    /\ flags \in BOOLEAN

Alive(t) == ApcQueueable[t]

(* An APC is queued at most once, on its own thread and in the list of its mode, and while  *)
(* that thread lives Inserted says exactly whether it is queued: two threads that insert    *)
(* the same KAPC, or insert it while it is being run, never link its list entry twice.      *)
QueuesExact ==
    \A t \in Threads, m \in Modes :
        LET list == ApcList[t][m]
        IN /\ IsInjective(list)
           /\ \A a \in ToSet(list) : ModeOf(a) = m /\ ApcThread[a] = t /\ Inserted[a]
           /\ Alive(t) => \A a \in Apcs :
                  ModeOf(a) = m /\ ApcThread[a] = t /\ Inserted[a] => a \in ToSet(list)

(* A kernel APC runs in thread t, or its KiExecuteApc is about to look at the list. *)
Executing(t, m) ==
    \E i \in DOMAIN stack[t] :
        stack[t][i].at \in {"clear", "drain", "routine"} /\ stack[t][i].mode = m

(* A thread has linked an APC to t and has not yet set the flag. *)
AboutToMark(t, m) ==
    \E u \in Threads : At(u, "mark") /\ Top(u).thread = t /\ ModeOf(Top(u).apc) = m

(* A kernel APC that is queued is not forgotten: the pending flag is set, or about to be,   *)
(* or KiExecuteApc has yet to look, or a critical region will look when it ends.            *)
KernelApcNotForgotten ==
    \A t \in Threads :
        /\ Alive(t)
        /\ ApcList[t]["Kernel"] # <<>>
        => \/ Pending[t]["Kernel"]
           \/ AboutToMark(t, "Kernel")
           \/ Executing(t, "Kernel")
           \/ KernelApcDisable[t] # 0

Waits(t, w) ==
    \E i \in DOMAIN stack[t] :
        stack[t][i].at \in {"poll", "pollUser", "unwait"} /\ stack[t][i].wait = w

InWait(t) == \E w \in WaitArgs : Waits(t, w)

Queued(t, a) == a \in ToSet(ApcList[t][ModeOf(a)])

(* The wait thread t is in runs APCs of mode m. *)
Admits(t, m) ==
    IF m = "Kernel" THEN InWait(t) /\ KernelApcDisable[t] = 0 ELSE Waits(t, AlertableWait)

(* An APC queued to a thread whose wait runs APCs of its mode leaves the queue, or the wait *)
(* ends, unless APCs of the other mode keep coming and KiExecuteApc stays with those.       *)
Delivered(t, a) ==
    LET m == ModeOf(a)
        other == IF m = "Kernel" THEN "User" ELSE "Kernel"
    IN Queued(t, a) /\ Admits(t, m)
       => \/ <>(~Queued(t, a) \/ ~Admits(t, m))
          \/ []<>(ApcList[t][other] # <<>>)

(* A thread that waits outside a critical region runs the kernel APCs queued to it, whether *)
(* SatisfyWait looks at the flags or at the lists.                                        *)
KernelApcRuns == \A t \in Targets, a \in KernelApcs : []Delivered(t, a)

(* "Because user APCs from NtQueueApcThread are now handled by the kernel, we need to wait  *)
(* for them ourselves": an alertable wait runs the user APCs queued to its thread.          *)
UserApcRuns == \A t \in Targets, a \in UserApcs : []Delivered(t, a)

(* The same when satisfy_wait_apc_flags is off and SatisfyWait looks at the lists. *)
UserApcRunsByList == flags \/ UserApcRuns
=============================================================================
