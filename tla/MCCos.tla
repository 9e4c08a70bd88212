------------------------------- MODULE MCCos -------------------------------
(***************************************************************************)
(* Cos alone, against peers that may send anything, for TLC.               *)
(***************************************************************************)
EXTENDS Cos, TLC

Names == Permutations(VmNames)

=============================================================================
