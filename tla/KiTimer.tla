------------------------------ MODULE KiTimer ------------------------------
(***************************************************************************)
(* Kernel timers: the clock interrupt (KiClockIsr, on the system_events    *)
(* thread), the expiration DPC (KiTimerExpiration, on the threads that     *)
(* execute DPCs) and guest threads that set and cancel timers or set the   *)
(* system time, all around the timer table and its lock KiTimerMtx.        *)
(*                                                                         *)
(* Timers have no waiters here; waiting is in module KiWait.               *)
(***************************************************************************)
EXTENDS KiTimerTable

CONSTANTS
    Guests,           \* threads that call KeSetTimerEx, KeCancelTimer, NtSetSystemTime
    Executors,        \* threads that execute the expiration DPC (KeDpc)
    Clock,            \* the system_events thread
    NoThread,         \* the owner of a free lock
    NoTimer,
    TickModulus,      \* number of values of KeTickCount
    TimerTryLock,     \* BetaConfig timer_try_lock
    MaxActiveTimers,  \* expired timers between two batches of DPC calls (4)
    MaxScans,         \* examined timers between two batches of DPC calls (24)
    InitInterruptTime,\* KeInterruptTime when the first timer is set
    InitSystemTime,   \* KeSystemTime then
    Settings,         \* what guests pass to KeSetTimerEx: a due time (negative ones are
                      \* relative), a period in ticks and whether there is a DPC
    SystemTimes,      \* system times a guest or the host sets
    ElapsedTicks,     \* ticks one call of KiClockIsr may account for
    MaxTime           \* bound: interrupt time

ASSUME TimerAssumption ==
    /\ Clock \notin Guests \cup Executors
    /\ NoThread \notin Guests \cup Executors \cup {Clock}
    /\ NoTimer \notin Timers
    /\ TickModulus \in Nat \ {0}
    /\ TimerTryLock \in BOOLEAN
    /\ MaxActiveTimers \in Nat \ {0}
    /\ MaxScans \in Nat \ {0}
    /\ InitInterruptTime \in Nat
    /\ InitSystemTime \in Nat
    /\ Settings \subseteq [due : Int, period : Nat, dpc : BOOLEAN]
    /\ SystemTimes \subseteq Nat
    /\ ElapsedTicks \subseteq Nat
    /\ MaxTime \in Nat

(* Interrupt time starts near zero and stays far below 2^63, due times are signed 64-bit   *)
(* numbers and periods 32-bit ones: no due time that is computed from them wraps around.  *)
ASSUME WidthAssumption ==
    /\ InitInterruptTime <= MaxTime
    /\ \A s \in Settings :
          /\ MaxTime - s.due < TimeModulus
          /\ MaxTime + s.due < TimeModulus
          /\ MaxTime + s.period * CLOCK_TIME_INCREMENT < TimeModulus

Threads == Guests \cup Executors \cup {Clock}

VARIABLES
    KeInterruptTime, KeSystemTime, KeTickCount,
    KeSystemTimeChanged,  \* the host announced a change of its clock
    db,                   \* the timer table
    TimerLock,            \* owner of KiTimerMtx
    ExpireDpc,            \* KiTimerExpireDpc: <<first, end>> while queued, else <<>>
    pc,                   \* where each thread is
    elapsed,              \* KiClockIsr's TotalMs, between its update and its check
    range,                \* KiTimerExpiration: <<OldKeTickCount, EndKeTickCount>>
    tick,                 \* KiTimerExpiration: i, while it holds the lock
    dueBy,                \* KiTimerExpiration: the interrupt time it read on entry
    setting,              \* KeSetTimerEx: the timer it is about to insert
    absolutes,            \* KeSetSystemTime: TempList
    expired,              \* KeSetSystemTime: TempList2
    delta,                \* KeSetSystemTime: DeltaTime
    dpcCalls,             \* timers whose DPC routine is still to be called
    activeLeft, scansLeft \* KiTimerExpiration: ActiveTimers, Timers

clocks == <<KeInterruptTime, KeSystemTime, KeTickCount, KeSystemTimeChanged, elapsed>>
expiration == <<range, tick, dueBy, dpcCalls, activeLeft, scansLeft>>
settingTime == <<absolutes, expired, delta>>
vars == <<clocks, expiration, settingTime, db, TimerLock, ExpireDpc, pc, setting>>

Goto(th, l) == pc' = [pc EXCEPT ![th] = l]

(* KiTimerLock and KiTimerUnlock around a step. *)
Acquire(th) == TimerLock = NoThread /\ TimerLock' = th
Release(th) == TimerLock = th /\ TimerLock' = NoThread

Init ==
    /\ KeInterruptTime = InitInterruptTime
    /\ KeSystemTime = InitSystemTime
    /\ KeTickCount = (InitInterruptTime \div CLOCK_TIME_INCREMENT) % TickModulus
    /\ KeSystemTimeChanged = FALSE
    /\ db = EmptyTable
    /\ TimerLock = NoThread
    /\ ExpireDpc = <<>>
    /\ pc = [th \in Threads |-> "idle"]
    /\ elapsed = 0
    /\ range = [th \in Executors |-> <<0, 0>>]
    /\ tick = 0
    /\ dueBy = [th \in Executors |-> 0]
    /\ setting = NoTimer
    /\ absolutes = <<>>
    /\ expired = <<>>
    /\ delta = 0
    /\ dpcCalls = <<>>
    /\ activeLeft = MaxActiveTimers
    /\ scansLeft = MaxScans

-----------------------------------------------------------------------------
(* KiClockIsr *)

(* The host's WM_TIMECHANGE. *)
HostTimeChanges ==
    /\ ~KeSystemTimeChanged
    /\ KeSystemTimeChanged' = TRUE
    /\ UNCHANGED <<KeInterruptTime, KeSystemTime, KeTickCount, elapsed, expiration, settingTime,
                   db, TimerLock, ExpireDpc, pc, setting>>

(* Interrupt time and system time advance together ... *)
AdvanceClocks(ticks) ==
    /\ pc[Clock] = "idle"
    /\ KeInterruptTime + ticks * CLOCK_TIME_INCREMENT <= MaxTime
    /\ ~KeSystemTimeChanged
    /\ KeInterruptTime' = KeInterruptTime + ticks * CLOCK_TIME_INCREMENT
    /\ KeSystemTime' = KeSystemTime + ticks * CLOCK_TIME_INCREMENT
    /\ elapsed' = ticks
    /\ Goto(Clock, "check")
    /\ UNCHANGED <<KeTickCount, KeSystemTimeChanged, expiration, settingTime, db, TimerLock,
                   ExpireDpc, setting>>

(* ... or the host's time is taken over first, and then passed to KeSetSystemTime. *)
TakeHostTime(ticks, host) ==
    /\ pc[Clock] = "idle"
    /\ KeInterruptTime + ticks * CLOCK_TIME_INCREMENT <= MaxTime
    /\ KeSystemTimeChanged
    /\ KeSystemTimeChanged' = FALSE
    /\ KeInterruptTime' = KeInterruptTime + ticks * CLOCK_TIME_INCREMENT
    /\ KeSystemTime' = host
    /\ elapsed' = ticks
    /\ Goto(Clock, "setTime")
    /\ UNCHANGED <<KeTickCount, expiration, settingTime, db, TimerLock, ExpireDpc, setting>>

(* The tick range whose buckets the interrupt looks at, and whether one of them is due. *)
TickRange ==
    LET end == (KeTickCount + elapsed) % TickModulus
    IN  <<KeTickCount,
          IF elapsed % TickModulus >= TIMER_TABLE_SIZE
          THEN (KeTickCount + TIMER_TABLE_SIZE) % TickModulus
          ELSE end>>

BucketDue(h) == db.Entry[h] # <<>> /\ KeInterruptTime >= db.Time[h]

SomeBucketDue ==
    \E i \in TickRange[1]..TickRange[2] - 1 : BucketDue(i % TIMER_TABLE_SIZE)

(* The tick count, then the check under KiTimerMtx: queue the expiration DPC unless it  *)
(* is queued already, in which case KeInsertQueueDpc keeps the old arguments.           *)
CheckTimers ==
    /\ pc[Clock] = "check"
    /\ TimerLock = NoThread
    /\ KeTickCount' = (KeTickCount + elapsed) % TickModulus
    /\ ExpireDpc' = IF SomeBucketDue /\ ExpireDpc = <<>> THEN TickRange ELSE ExpireDpc
    /\ elapsed' = 0
    /\ Goto(Clock, "idle")
    /\ UNCHANGED <<KeInterruptTime, KeSystemTime, KeSystemTimeChanged, expiration, settingTime,
                   db, TimerLock, setting>>

(* With timer_try_lock, a lock somebody else holds means no check in this cycle. *)
SkipCheck ==
    /\ pc[Clock] = "check"
    /\ TimerTryLock
    /\ TimerLock # NoThread
    /\ KeTickCount' = (KeTickCount + elapsed) % TickModulus
    /\ elapsed' = 0
    /\ Goto(Clock, "idle")
    /\ UNCHANGED <<KeInterruptTime, KeSystemTime, KeSystemTimeChanged, expiration, settingTime,
                   db, TimerLock, ExpireDpc, setting>>

-----------------------------------------------------------------------------
(* KeSetTimerEx and KeCancelTimer, from a guest thread or from a timer's DPC routine,   *)
(* which KiTimerExpiration calls while it holds the (recursive) KiTimerMtx.             *)

(* What KeSetTimerEx does before it inserts: cancel, new period and DPC, due time.  A   *)
(* due time that has passed signals the timer at once.                                  *)
Prepared(t, due, period, dpc) ==
    LET removed  == IF db.Inserted[t] THEN KxRemoveTreeTimer(db, t) ELSE db
        set      == [removed EXCEPT !.Period[t] = period, !.Dpc[t] = dpc]
        computed == KiComputeDueTime(set, t, due, KeSystemTime, KeInterruptTime)
    IN  IF AlreadyPassed(due, KeSystemTime)
        THEN KiSignalTimer(computed, t, KeSystemTime, KeInterruptTime)
        ELSE [computed EXCEPT !.SignalState[t] = FALSE]

(* The clock may advance between the due time's computation and the insertion. *)
KeSetTimerEx(th, t, due, period, dpc) ==
    /\ \/ pc[th] = "idle" /\ th \in Guests /\ Acquire(th) /\ Goto(th, "insert")
       \/ pc[th] = "routine" /\ UNCHANGED TimerLock /\ Goto(th, "routineInsert")
    /\ db' = Prepared(t, due, period, dpc)
    /\ setting' = IF AlreadyPassed(due, KeSystemTime) THEN NoTimer ELSE t
    /\ UNCHANGED <<clocks, expiration, settingTime, ExpireDpc>>

InsertAndUnlock(th) ==
    /\ \/ pc[th] = "insert" /\ Release(th) /\ Goto(th, "idle")
       \/ pc[th] = "routineInsert" /\ UNCHANGED TimerLock /\ Goto(th, "routine")
    /\ db' = IF setting = NoTimer
             THEN db
             ELSE KxInsertTimer(db, setting, KeSystemTime, KeInterruptTime)
    /\ setting' = NoTimer
    /\ UNCHANGED <<clocks, expiration, settingTime, ExpireDpc>>

KeCancelTimer(th, t) ==
    /\ \/ pc[th] = "idle" /\ th \in Guests /\ TimerLock = NoThread
       \/ pc[th] = "routine"
    /\ db.Inserted[t]
    /\ db' = KxRemoveTreeTimer(db, t)
    /\ UNCHANGED <<clocks, expiration, settingTime, TimerLock, ExpireDpc, pc, setting>>

-----------------------------------------------------------------------------
(* KeSetSystemTime, called by KiClockIsr and by NtSetSystemTime *)

(* The lock and DeltaTime = NewTime - KeSystemTime.  KiClockIsr has already assigned    *)
(* KeSystemTime, so that its NewTime is KeSystemTime.                                   *)
KeSetSystemTime(th, newTime) ==
    /\ Acquire(th)
    /\ delta' = newTime - KeSystemTime
    /\ Goto(th, "collect")
    /\ UNCHANGED <<clocks, expiration, absolutes, expired, db, ExpireDpc, setting>>

NtSetSystemTime(th, newTime) ==
    /\ pc[th] = "idle"
    /\ th \in Guests
    /\ KeSetSystemTime(th, newTime)

ClockSetsSystemTime ==
    /\ pc[Clock] = "setTime"
    /\ KeSetSystemTime(Clock, KeSystemTime)

AbsoluteAt(h, i) == db.Absolute[db.Entry[h][i]]

(* The next absolute timer, in table order, moves to TempList. *)
CollectAbsolute(th, h, i) ==
    /\ pc[th] = "collect"
    /\ AbsoluteAt(h, i)
    /\ \A j \in 1..i - 1 : ~AbsoluteAt(h, j)
    /\ \A g \in 0..h - 1 : \A j \in DOMAIN db.Entry[g] : ~AbsoluteAt(g, j)
    /\ absolutes' = Append(absolutes, db.Entry[h][i])
    /\ db' = KiRemoveEntryTimer(db, db.Entry[h][i], h)
    /\ UNCHANGED <<clocks, expiration, expired, delta, TimerLock, ExpireDpc, pc, setting>>

CollectDone(th) ==
    /\ pc[th] = "collect"
    /\ \A h \in Hands : \A i \in DOMAIN db.Entry[h] : ~AbsoluteAt(h, i)
    /\ Goto(th, "reinsert")
    /\ UNCHANGED <<clocks, expiration, settingTime, db, TimerLock, ExpireDpc, setting>>

(* Fault: the hand is computed before the due time is updated. *)
ReinsertAbsoluteOldHand(th) ==
    /\ pc[th] = "reinsert"
    /\ absolutes # <<>>
    /\ LET t     == Head(absolutes)
           h     == KiComputeTimerTableIndex(db.DueTime[t])
           moved == [db EXCEPT !.DueTime[t] = (@ - delta) % TimeModulus]
           again == KiInsertTimerTable(moved, t, h)
       IN  IF InsertedExpired(moved, t, h, KeInterruptTime)
           THEN /\ db' = KiRemoveEntryTimer(again, t, h)
                /\ expired' = Append(expired, t)
           ELSE /\ db' = again
                /\ UNCHANGED expired
    /\ absolutes' = Tail(absolutes)
    /\ UNCHANGED <<clocks, expiration, delta, TimerLock, ExpireDpc, pc, setting>>

(* The first timer of TempList gets its new due time and is linked again, or moves to   *)
(* TempList2 when it is due at the head of its bucket.                                  *)
ReinsertAbsolute(th) ==
    /\ pc[th] = "reinsert"
    /\ absolutes # <<>>
    /\ LET t     == Head(absolutes)
           moved == [db EXCEPT !.DueTime[t] = (@ - delta) % TimeModulus]
           h     == KiComputeTimerTableIndex(moved.DueTime[t])
           again == KiInsertTimerTable(moved, t, h)
       IN  IF InsertedExpired(moved, t, h, KeInterruptTime)
           THEN /\ db' = KiRemoveEntryTimer(again, t, h)
                /\ expired' = Append(expired, t)
           ELSE /\ db' = again
                /\ UNCHANGED expired
    /\ absolutes' = Tail(absolutes)
    /\ UNCHANGED <<clocks, expiration, delta, TimerLock, ExpireDpc, pc, setting>>

(* KiTimerListExpire: signal TempList2 and unlock.  The DPC routines it calls after     *)
(* that do nothing a guest thread cannot do.                                            *)
KiTimerListExpire(th) ==
    /\ pc[th] = "reinsert"
    /\ absolutes = <<>>
    /\ expired # <<>>
    /\ db' = KiSignalTimer(db, Head(expired), KeSystemTime, KeInterruptTime)
    /\ expired' = Tail(expired)
    /\ UNCHANGED <<clocks, expiration, absolutes, delta, TimerLock, ExpireDpc, pc, setting>>

SystemTimeSet(th) ==
    /\ pc[th] = "reinsert"
    /\ absolutes = <<>>
    /\ expired = <<>>
    /\ Release(th)
    /\ delta' = 0
    /\ Goto(th, IF th = Clock THEN "check" ELSE "idle")
    /\ UNCHANGED <<clocks, expiration, absolutes, expired, db, ExpireDpc, setting>>

-----------------------------------------------------------------------------
(* KiTimerExpiration, the routine of KiTimerExpireDpc *)

(* Fault: timers that will be due at the next tick are expired with the others. *)
StartExpirationNextTick(e) ==
    /\ pc[e] = "idle"
    /\ ExpireDpc # <<>>
    /\ range' = [range EXCEPT ![e] = ExpireDpc]
    /\ ExpireDpc' = <<>>
    /\ dueBy' = [dueBy EXCEPT ![e] = KeInterruptTime + CLOCK_TIME_INCREMENT]
    /\ Goto(e, "expire")
    /\ UNCHANGED <<clocks, settingTime, tick, dpcCalls, activeLeft, scansLeft, db, TimerLock,
                   setting>>

(* Off the DPC queue; the arguments and the interrupt time are read before the lock. *)
StartExpiration(e) ==
    /\ pc[e] = "idle"
    /\ ExpireDpc # <<>>
    /\ range' = [range EXCEPT ![e] = ExpireDpc]
    /\ ExpireDpc' = <<>>
    /\ dueBy' = [dueBy EXCEPT ![e] = KeInterruptTime]
    /\ Goto(e, "expire")
    /\ UNCHANGED <<clocks, settingTime, tick, dpcCalls, activeLeft, scansLeft, db, TimerLock,
                   setting>>

BeginScan(e) ==
    /\ pc[e] = "expire"
    /\ Acquire(e)
    /\ tick' = range[e][1]
    /\ Goto(e, "scan")
    /\ UNCHANGED <<clocks, settingTime, range, dueBy, dpcCalls, activeLeft, scansLeft, db,
                   ExpireDpc, setting>>

InRange(e) == tick < range[e][2]
Hand == tick % TIMER_TABLE_SIZE

(* The first timer of the bucket is due: remove and signal it, note its DPC.  With      *)
(* either count used up, the noted DPC routines are called before the scan goes on.     *)
ExpireHead(e) ==
    /\ pc[e] = "scan"
    /\ InRange(e)
    /\ db.Entry[Hand] # <<>>
    /\ LET t == Head(db.Entry[Hand])
       IN  /\ db.DueTime[t] <= dueBy[e]
           /\ db' = KiSignalTimer(KiRemoveEntryTimer(db, t, Hand), t,
                                  KeSystemTime, KeInterruptTime)
           /\ dpcCalls' = IF db.Dpc[t] THEN Append(dpcCalls, t) ELSE dpcCalls
    /\ activeLeft' = activeLeft - 1
    /\ scansLeft' = scansLeft - 1
    /\ Goto(e, IF activeLeft' = 0 \/ scansLeft' = 0 THEN "dpcs" ELSE "scan")
    /\ UNCHANGED <<clocks, settingTime, range, tick, dueBy, TimerLock, ExpireDpc, setting>>

(* Fault: a timer due exactly now is taken for one that is not due. *)
LeaveBucketDueNow(e) ==
    /\ pc[e] = "scan"
    /\ InRange(e)
    /\ db.Entry[Hand] # <<>>
    /\ LET t == Head(db.Entry[Hand])
       IN  /\ db.DueTime[t] >= dueBy[e]
           /\ db' = [db EXCEPT !.Time[Hand] = db.DueTime[t]]
    /\ tick' = tick + 1
    /\ scansLeft' = scansLeft - 1
    /\ Goto(e, IF scansLeft' = 0 THEN "dpcs" ELSE "scan")
    /\ UNCHANGED <<clocks, settingTime, range, dueBy, dpcCalls, activeLeft, TimerLock,
                   ExpireDpc, setting>>

(* The first timer of the bucket is not due: bring the bucket's time up to it. *)
LeaveBucket(e) ==
    /\ pc[e] = "scan"
    /\ InRange(e)
    /\ db.Entry[Hand] # <<>>
    /\ LET t == Head(db.Entry[Hand])
       IN  /\ db.DueTime[t] > dueBy[e]
           /\ db' = [db EXCEPT !.Time[Hand] = db.DueTime[t]]
    /\ tick' = tick + 1
    /\ scansLeft' = scansLeft - 1
    /\ Goto(e, IF scansLeft' = 0 THEN "dpcs" ELSE "scan")
    /\ UNCHANGED <<clocks, settingTime, range, dueBy, dpcCalls, activeLeft, TimerLock,
                   ExpireDpc, setting>>

EmptyBucket(e) ==
    /\ pc[e] = "scan"
    /\ InRange(e)
    /\ db.Entry[Hand] = <<>>
    /\ tick' = tick + 1
    /\ UNCHANGED <<clocks, settingTime, range, dueBy, dpcCalls, activeLeft, scansLeft, db, TimerLock,
                   ExpireDpc, pc, setting>>

CallTimerDpc(e) ==
    /\ pc[e] = "dpcs"
    /\ dpcCalls # <<>>
    /\ dpcCalls' = Tail(dpcCalls)
    /\ Goto(e, "routine")
    /\ UNCHANGED <<clocks, settingTime, range, tick, dueBy, activeLeft, scansLeft, db,
                   TimerLock, ExpireDpc, setting>>

TimerDpcReturns(e) ==
    /\ pc[e] = "routine"
    /\ Goto(e, "dpcs")
    /\ UNCHANGED <<clocks, expiration, settingTime, db, TimerLock, ExpireDpc, setting>>

(* Fault: the counts are not reset. *)
ResetAccountingForgotten(e) ==
    /\ pc[e] = "dpcs"
    /\ dpcCalls = <<>>
    /\ Goto(e, "scan")
    /\ UNCHANGED <<clocks, expiration, settingTime, db, TimerLock, ExpireDpc, setting>>

(* All noted DPC routines called: reset the counts. *)
ResetAccounting(e) ==
    /\ pc[e] = "dpcs"
    /\ dpcCalls = <<>>
    /\ activeLeft' = MaxActiveTimers
    /\ scansLeft' = MaxScans
    /\ Goto(e, "scan")
    /\ UNCHANGED <<clocks, settingTime, range, tick, dueBy, dpcCalls, db, TimerLock, ExpireDpc,
                   setting>>

(* The end of the range: the DPC routines that are left, then the lock. *)
EndScan(e) ==
    /\ pc[e] = "scan"
    /\ ~InRange(e)
    /\ \/ /\ dpcCalls # <<>>
          /\ Goto(e, "dpcs")
          /\ UNCHANGED <<TimerLock, expiration>>
       \/ /\ dpcCalls = <<>>
          /\ Release(e)
          /\ Goto(e, "idle")
          /\ range' = [range EXCEPT ![e] = <<0, 0>>]
          /\ tick' = 0
          /\ dueBy' = [dueBy EXCEPT ![e] = 0]
          /\ activeLeft' = MaxActiveTimers
          /\ scansLeft' = MaxScans
          /\ UNCHANGED dpcCalls
    /\ UNCHANGED <<clocks, settingTime, db, ExpireDpc, setting>>

-----------------------------------------------------------------------------

ClockStep ==
    \/ \E ticks \in ElapsedTicks :
          AdvanceClocks(ticks) \/ \E host \in SystemTimes : TakeHostTime(ticks, host)
    \/ ClockSetsSystemTime
    \/ CheckTimers
    \/ SkipCheck

SetTimeStep(th) ==
    \/ \E h \in Hands : \E i \in DOMAIN db.Entry[h] : CollectAbsolute(th, h, i)
    \/ CollectDone(th)
    \/ ReinsertAbsolute(th)
    \/ KiTimerListExpire(th)
    \/ SystemTimeSet(th)

GuestCall(th) ==
    \/ \E t \in Timers, s \in Settings : KeSetTimerEx(th, t, s.due, s.period, s.dpc)
    \/ InsertAndUnlock(th)
    \/ \E t \in Timers : KeCancelTimer(th, t)
    \/ \E newTime \in SystemTimes : NtSetSystemTime(th, newTime)

KiTimerExpiration(e) ==
    \/ StartExpiration(e)
    \/ BeginScan(e)
    \/ ExpireHead(e)
    \/ LeaveBucket(e)
    \/ EmptyBucket(e)
    \/ CallTimerDpc(e)
    \/ TimerDpcReturns(e)
    \/ ResetAccounting(e)
    \/ EndScan(e)

Next ==
    \/ HostTimeChanges
    \/ ClockStep
    \/ \E th \in Guests \cup Executors : GuestCall(th)
    \/ \E th \in Guests \cup {Clock} : SetTimeStep(th)
    \/ \E e \in Executors : KiTimerExpiration(e)

Spec == Init /\ [][Next]_vars

-----------------------------------------------------------------------------
(* Properties *)

Locations == {"idle", "check", "setTime", "insert", "collect", "reinsert", "expire", "scan",
              "dpcs", "routine", "routineInsert"}

(* Every variable keeps its type; the two counts of KiTimerExpiration never go below    *)
(* zero, where the unsigned counts of the code would wrap.                              *)
TypeOK ==
    /\ KeInterruptTime \in Nat
    /\ KeSystemTime \in Nat
    /\ KeTickCount \in 0..TickModulus - 1
    /\ KeSystemTimeChanged \in BOOLEAN
    /\ db \in Tables
    /\ TimerLock \in Threads \cup {NoThread}
    /\ ExpireDpc \in Seq(Nat)
    /\ Len(ExpireDpc) \in {0, 2}
    /\ pc \in [Threads -> Locations]
    /\ elapsed \in Nat
    /\ range \in [Executors -> Nat \X Nat]
    /\ tick \in Nat
    /\ dueBy \in [Executors -> Nat]
    /\ setting \in Timers \cup {NoTimer}
    /\ absolutes \in Seq(Timers)
    /\ expired \in Seq(Timers)
    /\ delta \in Int
    /\ dpcCalls \in Seq(Timers)
    /\ activeLeft \in 0..MaxActiveTimers
    /\ scansLeft \in 0..MaxScans

(* Timers the owner of KiTimerMtx holds outside the table. *)
InTransit == ({setting} \ {NoTimer}) \cup ToSet(absolutes) \cup ToSet(expired)

(* No timer is lost and none is linked behind its owner's back: Header.Inserted, on     *)
(* which KeSetTimerEx and KeCancelTimer decide whether to unlink, is set exactly for     *)
(* the timers in the table or on their way through KeSetTimerEx or KeSetSystemTime.     *)
NoTimerLost ==
    /\ \A t \in Timers : db.Inserted[t] <=> t \in Linked(db) \cup InTransit
    /\ Linked(db) \cap InTransit = {}

(* The table the clock interrupt and KiTimerExpiration rely on, also when KeSetSystemTime *)
(* has moved timers between buckets: every timer in the bucket of its due time, buckets  *)
(* sorted, and each bucket's Time no later than its first timer (the assert of           *)
(* KiTimerExpiration).                                                                   *)
TableConsistent == InOwnBucket(db) /\ Sorted(db) /\ TimeIsLowerBound(db)

Scanning(e) == pc[e] \in {"scan", "dpcs", "routine", "routineInsert"}

(* KiTimerExpiration leaves no timer that was due when it started in a bucket it has     *)
(* passed, whatever timers expired, were rearmed, or were set and cancelled by the DPC   *)
(* routines it called on the way.                                                       *)
ScannedBucketsDone ==
    \A e \in Executors : Scanning(e) =>
        \A i \in range[e][1]..tick - 1 :
            \A t \in ToSet(db.Entry[i % TIMER_TABLE_SIZE]) : db.DueTime[t] > dueBy[e]

(* The owner of the lock is signalling timers: KiTimerExpiration or KiTimerListExpire. *)
Signalling ==
    /\ TimerLock # NoThread
    /\ \/ pc[TimerLock] = "scan"
       \/ pc[TimerLock] = "reinsert" /\ absolutes = <<>>

(* The timers that a step takes out of the table, or moves to a later time, while it     *)
(* signals timers, are due.                                                              *)
ExpiresOnlyDue ==
    \A t \in Timers :
        /\ Signalling
        /\ db.Inserted[t]
        /\ ~db'.Inserted[t] \/ db'.DueTime[t] # db.DueTime[t]
        => db.DueTime[t] <= KeInterruptTime

(* No timer expires before interrupt time has reached its due time, although the         *)
(* expiration DPC runs on tick counts and times read before it had the lock and the      *)
(* timer may have been set again since.                                                 *)
NeverEarly == [][ExpiresOnlyDue]_vars

(* Nobody is working on timers and no expiration is queued. *)
Quiet ==
    /\ TimerLock = NoThread
    /\ ExpireDpc = <<>>
    /\ \A th \in Threads : pc[th] = "idle"

(* KiClockIsr examines every tick between two calls so as not to "miss timers that might *)
(* have expired already": once the expiration is done, no timer of an earlier tick is    *)
(* left in the table.                                                                   *)
NoMissedTimer ==
    Quiet => \A t \in Linked(db) : db.DueTime[t] \div CLOCK_TIME_INCREMENT >= KeTickCount
=============================================================================
