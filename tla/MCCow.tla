------------------------------- MODULE MCCow -------------------------------
(***************************************************************************)
(* Cow for TLC.  Neither the processes nor the pages are told apart by     *)
(* anything in Cow, so both sets may be permuted.                          *)
(***************************************************************************)
EXTENDS Cow, TLC

Symmetry == Permutations(Proc) \cup Permutations(Page)
=============================================================================
