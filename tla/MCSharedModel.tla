--------------------------- MODULE MCSharedModel ---------------------------
(* Processes are interchangeable.                                          *)
EXTENDS SharedModel, TLC
Symmetry == Permutations(Process)
=============================================================================
