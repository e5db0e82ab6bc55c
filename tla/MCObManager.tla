---------------------------- MODULE MCObManager -----------------------------
(***************************************************************************)
(* Instances of ObManager for TLC.                                         *)
(***************************************************************************)
EXTENDS ObManager

CONSTANTS t1, t2, D, n

MCPaths == {<<D>>, <<D, n>>}

(* One thread makes directories and keeps pointers, the other does the rest.  What a       *)
(* thread has left to do when the other comes in is then still of every kind.              *)
MCCalls ==
    t1 :> {"NtCreateDirectoryObject", "ObReferenceObjectByHandle"}
    @@ t2 :> {"NtCreateSymbolicLinkObject", "NtMakeTemporaryObject", "ObOpenObjectByName",
              "NtOpenFile", "NtClose", "NtDuplicateObject"}

MCSymmetry == Permutations(Slots)
=============================================================================
