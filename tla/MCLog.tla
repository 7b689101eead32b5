------------------------------- MODULE MCLog -------------------------------
(* Log for TLC: processes, blocks and contents are interchangeable. *)
EXTENDS Log, TLC

Symmetry == Permutations(Proc) \cup Permutations(Block) \cup Permutations(Data)
=============================================================================
