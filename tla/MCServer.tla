------------------------------ MODULE MCServer ------------------------------
(* Instances of Server for TLC.                                            *)
EXTENDS Server, TLC

CONSTANTS a, base, h1, h2, none

Symmetry == Permutations(Handlers)
=============================================================================
