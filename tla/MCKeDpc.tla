------------------------------ MODULE MCKeDpc ------------------------------
(* Instances of KeDpc for TLC: the main thread and a thread of the title.   *)
EXTENDS KeDpc, TLC

=============================================================================
