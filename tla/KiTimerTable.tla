---------------------------- MODULE KiTimerTable ----------------------------
(***************************************************************************)
(* The timer table of the emulated kernel as functions on its contents:    *)
(* what each Ki*/Kx* helper of EmuKrnlKi.cpp does to the data KiTimerMtx   *)
(* protects.  A table db is a record of                                    *)
(*   Entry[h]   the timers linked in bucket h, head first                  *)
(*   Time[h]    KiTimerTableListHead[h].Time, the bucket's next due time   *)
(*   Inserted, SignalState, DueTime, Absolute, Period, Dpc                 *)
(*              the fields of each KTIMER                                  *)
(* Interrupt time is unsigned with TimeModulus values (2^64 in the code).  *)
(***************************************************************************)
EXTENDS Integers, SequencesExt

CONSTANTS
    Timers,                \* KTIMER objects
    TIMER_TABLE_SIZE,      \* number of buckets
    CLOCK_TIME_INCREMENT,  \* time units of one clock tick
    TimeModulus            \* number of values of a ULARGE_INTEGER time

ASSUME TableAssumption ==
    /\ TIMER_TABLE_SIZE \in Nat \ {0}
    /\ CLOCK_TIME_INCREMENT \in Nat \ {0}
    /\ TimeModulus \in Nat
    /\ TimeModulus > 1

Hands == 0..TIMER_TABLE_SIZE - 1

Times == 0..TimeModulus - 1

Tables ==
    [Entry : [Hands -> Seq(Timers)], Time : [Hands -> Times],
     Inserted : [Timers -> BOOLEAN], SignalState : [Timers -> BOOLEAN],
     DueTime : [Timers -> Times], Absolute : [Timers -> BOOLEAN],
     Period : [Timers -> Nat], Dpc : [Timers -> BOOLEAN]]

(* HighPart = 0xFFFFFFFF: later than any time the clock reaches. *)
InfiniteTime == TimeModulus - 1

EmptyTable ==
    [Entry       |-> [h \in Hands |-> <<>>],
     Time        |-> [h \in Hands |-> InfiniteTime],
     Inserted    |-> [t \in Timers |-> FALSE],
     SignalState |-> [t \in Timers |-> FALSE],
     DueTime     |-> [t \in Timers |-> 0],
     Absolute    |-> [t \in Timers |-> FALSE],
     Period      |-> [t \in Timers |-> 0],
     Dpc         |-> [t \in Timers |-> FALSE]]

KiComputeTimerTableIndex(due) == (due \div CLOCK_TIME_INCREMENT) % TIMER_TABLE_SIZE

(* RemoveEntryList unlinks t from the list it is in; the bucket named by h gets an     *)
(* infinite time when nothing is left in it.                                           *)
KiRemoveEntryTimer(db, t, h) ==
    LET entry == [g \in Hands |-> RemoveFirst(db.Entry[g], t)]
    IN  [db EXCEPT !.Entry = entry,
                   !.Time[h] = IF entry[h] = <<>> THEN InfiniteTime ELSE @]

(* Fault: Header.Inserted is not cleared. *)
KxRemoveTreeTimerKeepsFlag(db, t) ==
    KiRemoveEntryTimer(db, t, KiComputeTimerTableIndex(db.DueTime[t]))

KxRemoveTreeTimer(db, t) ==
    [KiRemoveEntryTimer(db, t, KiComputeTimerTableIndex(db.DueTime[t]))
        EXCEPT !.Inserted[t] = FALSE]

(* The entry after which the backward scan of KiInsertTimerTable stops; 0 is the head. *)
ScanStop(db, t, h) ==
    LET before == {i \in DOMAIN db.Entry[h] : db.DueTime[t] >= db.DueTime[db.Entry[h][i]]}
    IN  IF before = {} THEN 0 ELSE CHOOSE i \in before : \A j \in before : j <= i

KiInsertTimerTable(db, t, h) ==
    LET stop == ScanStop(db, t, h)
    IN  [db EXCEPT !.Entry[h] = InsertAt(@, stop + 1, t),
                   !.Time[h] = IF stop = 0 THEN db.DueTime[t] ELSE @,
                   !.SignalState[t] = IF db.Period[t] = 0 THEN FALSE ELSE @]

(* The value KiInsertTimerTable returns: linked at the head and already due. *)
InsertedExpired(db, t, h, now) ==
    ScanStop(db, t, h) = 0 /\ db.DueTime[t] <= now

(* KiComputeDueTime: a due time >= 0 is a system time, a negative one an interval. *)
AlreadyPassed(due, sysTime) == due >= 0 /\ sysTime - due >= 0

KiComputeDueTime(db, t, due, sysTime, now) ==
    LET interval == IF due >= 0 THEN sysTime - due ELSE due
        passed   == AlreadyPassed(due, sysTime)
    IN  [db EXCEPT !.Absolute[t] = (due >= 0),
                   !.SignalState[t] = @ \/ passed,
                   !.DueTime[t] = IF passed THEN 0 ELSE (now - interval) % TimeModulus,
                   !.Inserted[t] = @ \/ ~passed]

(* KiInsertTreeTimer with an interval that has not run out, as a periodic timer's:     *)
(* KiSignalTimer, KiTimerExpiration and KiTimerListExpire repeat it until it succeeds.  *)
Rearm(db, t, sysTime, now) ==
    LET due == KiComputeDueTime(db, t, -(db.Period[t] * CLOCK_TIME_INCREMENT), sysTime, now)
    IN  KiInsertTimerTable(due, t, KiComputeTimerTableIndex(due.DueTime[t]))

(* The common part of KiSignalTimer, KiTimerExpiration and KiTimerListExpire for a     *)
(* timer that is linked nowhere and has no waiters.                                    *)
KiSignalTimer(db, t, sysTime, now) ==
    LET signalled == [db EXCEPT !.Inserted[t] = FALSE, !.SignalState[t] = TRUE]
    IN  IF db.Period[t] = 0 THEN signalled ELSE Rearm(signalled, t, sysTime, now)

(* KxInsertTimer: link the timer; if it is already due, KiCompleteTimer removes and     *)
(* signals it.                                                                         *)
KxInsertTimer(db, t, sysTime, now) ==
    LET h      == KiComputeTimerTableIndex(db.DueTime[t])
        linked == KiInsertTimerTable(db, t, h)
    IN  IF InsertedExpired(db, t, h, now)
        THEN KiSignalTimer(KiRemoveEntryTimer(linked, t, h), t, sysTime, now)
        ELSE linked

-----------------------------------------------------------------------------

Linked(db) == UNION {ToSet(db.Entry[h]) : h \in Hands}

(* A timer is linked at most once, and in the bucket its due time names: the bucket     *)
(* KxRemoveTreeTimer recomputes to keep Time in step.                                  *)
InOwnBucket(db) ==
    \A h \in Hands :
        /\ IsInjective(db.Entry[h])
        /\ \A i \in DOMAIN db.Entry[h] :
              KiComputeTimerTableIndex(db.DueTime[db.Entry[h][i]]) = h

(* KiTimerExpiration stops at the first timer of a bucket that is not due. *)
Sorted(db) ==
    \A h \in Hands : \A i, j \in DOMAIN db.Entry[h] :
        i < j => db.DueTime[db.Entry[h][i]] <= db.DueTime[db.Entry[h][j]]

(* What the clock interrupt goes by: no bucket promises a later time than its first     *)
(* timer's, and an empty one promises none.                                            *)
TimeIsLowerBound(db) ==
    \A h \in Hands :
        IF db.Entry[h] = <<>>
        THEN db.Time[h] = InfiniteTime
        ELSE db.Time[h] <= db.DueTime[Head(db.Entry[h])]
=============================================================================
