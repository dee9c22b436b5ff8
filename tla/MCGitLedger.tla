---- MODULE MCGitLedger ----
(* GitLedger with interchangeable processes and proposals. *)
EXTENDS GitLedger, TLC

Symmetry == Permutations(Procs) \cup Permutations(Proposals)
====
