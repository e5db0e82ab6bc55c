---------------------------- MODULE MCVMManager -----------------------------
(***************************************************************************)
(* Instances of VMManager for TLC.                                         *)
(***************************************************************************)
EXTENDS VMManager

MCRanges == {<<0, HighestPage>>, <<2, 4>>}
=============================================================================
