---------------------------- MODULE MCRegistrator ----------------------------
(* Instances of Registrator for TLC.                                       *)
EXTENDS Registrator, TLC

Symmetry == Permutations(Objects)
=============================================================================
