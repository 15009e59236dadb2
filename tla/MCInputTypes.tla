---------------------------- MODULE MCInputTypes ----------------------------
(***************************************************************************)
(* Instances of InputTypes for TLC.  The types are interchangeable: no     *)
(* definition tells one input from another.                                *)
(***************************************************************************)
EXTENDS InputTypes, TLC

Symmetry == Permutations(Input)
=============================================================================
