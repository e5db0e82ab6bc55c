----------------------------- MODULE MCKiTimer -----------------------------
(***************************************************************************)
(* Instances of KiTimer for TLC.                                           *)
(***************************************************************************)
EXTENDS KiTimer

CONSTANTS g1, main, events, t1, t2

MCTimers == {t1, t2}
MCGuests == {g1}
MCExecutors == {main, g1}
MCMain == {main}

(* In one tick and every tick from then on, with a DPC; once, in three ticks (the same    *)
(* bucket); once, at system time 4, with a DPC.                                         *)
Periodic == [due |-> -1, period |-> 1, dpc |-> TRUE]
OneShot == [due |-> -3, period |-> 0, dpc |-> FALSE]
Absolute == [due |-> 4, period |-> 0, dpc |-> TRUE]

MCSettings == {Periodic, OneShot, Absolute}
MCAbsolute == {Absolute}

TimerSymmetry == Permutations(MCTimers)
=============================================================================
