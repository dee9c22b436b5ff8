--------------------------- MODULE MCDriftRevert ---------------------------
(* DriftRevert with interchangeable operators, paths and values.           *)
EXTENDS DriftRevert, TLC

Symmetry == Permutations(Operators) \cup Permutations(Paths) \cup Permutations(Values)
=============================================================================
