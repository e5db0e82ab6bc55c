----------------------------- MODULE MCKiWait ------------------------------
(***************************************************************************)
(* Instances of KiWait for TLC.                                            *)
(***************************************************************************)
EXTENDS KiWait

CONSTANTS t1, t2, t3
=============================================================================
