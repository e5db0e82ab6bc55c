----------------------------- MODULE ObLifetime -----------------------------
(***************************************************************************)
(* What the object manager promises about the life of an object, without   *)
(* counts, handles or names: an address carries an object from its         *)
(* creation until it has no user left, and an object without users gets    *)
(* none any more.                                                          *)
(***************************************************************************)
EXTENDS Naturals

CONSTANTS Objects

VARIABLES
    live,   \* addresses that carry an object
    users   \* how many users each address has

Init ==
    /\ live \in SUBSET Objects
    /\ users = [o \in Objects |-> IF o \in live THEN 1 ELSE 0]

Create(o) == o \notin live /\ o \in live' /\ users[o] = 0 /\ users'[o] > 0

Use(o) == o \in live /\ o \in live' /\ users[o] > 0 /\ users'[o] \in Nat

Destroy(o) == o \in live /\ o \notin live' /\ users[o] = 0 /\ users'[o] = 0

Rest(o) == (o \in live <=> o \in live') /\ users'[o] = users[o]

(* One call can hand several objects on at once. *)
Next ==
    /\ live' \in SUBSET Objects
    /\ DOMAIN users' = Objects
    /\ \A o \in Objects : Create(o) \/ Use(o) \/ Destroy(o) \/ Rest(o)

Spec == Init /\ [][Next]_<<live, users>>
=============================================================================
