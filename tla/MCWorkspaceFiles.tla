-------------------------- MODULE MCWorkspaceFiles --------------------------
(* Versions of different sizes, and an error message as long as the rest   *)
(* of a file, so that a transfer can end short or with the wrong bytes.    *)
EXTENDS WorkspaceFiles, TLC
MCSize == [v \in Versions |-> v]
Symmetric == Permutations(Sessions) \cup Permutations(Names)
=============================================================================
