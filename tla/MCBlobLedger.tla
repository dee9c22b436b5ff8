---------------------------- MODULE MCBlobLedger ----------------------------
(* Small instances of BlobLedger: processes and proposals are              *)
(* interchangeable.                                                        *)
EXTENDS BlobLedger, TLC

Symmetry == Permutations(Procs) \cup Permutations(Proposals)
=============================================================================
