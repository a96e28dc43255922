----------------------------- MODULE MCEventAPI ------------------------------
(* Instances of EventAPI for TLC.                                          *)
EXTENDS EventAPI

Symmetry == Permutations(Names) \cup Permutations(Receivers)
=============================================================================
