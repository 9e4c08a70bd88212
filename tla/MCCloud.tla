------------------------------ MODULE MCCloud ------------------------------
(***************************************************************************)
(* The whole system, for TLC.                                              *)
(***************************************************************************)
EXTENDS Cloud, TLC

=============================================================================
