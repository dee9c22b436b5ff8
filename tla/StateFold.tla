------------------------------ MODULE StateFold ------------------------------
(***************************************************************************)
(* What the ledger says a resource is: the diff between two states, its    *)
(* substitution into a state, the fold of the proposal chain, and the two  *)
(* comparisons reconciliation makes (core/state.go, core/apply.go,         *)
(* core/executor/ship.go).                                                 *)
(*                                                                         *)
(* A state maps the dot-paths of its leaves to values, Absent standing for *)
(* a path it does not have.  A modification maps the paths that differ to  *)
(* their two values: the code's before has the paths whose from is there,  *)
(* its after those whose to is there.  Values are neither null nor zero,   *)
(* so FilterNormalizationNoise keeps them all.                             *)
(***************************************************************************)
EXTENDS Naturals, Sequences

CONSTANTS
  Paths,    \* the dot-paths of one resource
  Values,   \* what a path may hold
  Absent    \* a path the state does not have

ASSUME StateAssumption == Absent \notin Values

Slots == Values \cup {Absent}
States == [Paths -> Slots]
Changes == [from: Slots, to: Slots]
Modifications == UNION {[S -> Changes] : S \in SUBSET Paths}

NoModification == [p \in {} |-> [from |-> Absent, to |-> Absent]]

(* The paths on which two states differ, with both values.                 *)
DiffAttributes(before, after) ==
  [p \in {q \in Paths : before[q] # after[q]} |-> [from |-> before[p], to |-> after[p]]]

(* Mutated: a path that is only in before stays, as in the first ApplyAfter. *)
ApplyAfter_setsOnly(s, m) ==
  [p \in Paths |-> IF p \in DOMAIN m /\ m[p].to # Absent THEN m[p].to ELSE s[p]]

(* The after values are set; a path that is only in before is deleted.     *)
ApplyAfter(s, m) == [p \in Paths |-> IF p \in DOMAIN m THEN m[p].to ELSE s[p]]

(* The fold only ever sets: a path that is only in before stays.           *)
SetAfter(s, m) ==
  [p \in Paths |-> IF p \in DOMAIN m /\ m[p].to # Absent THEN m[p].to ELSE s[p]]

(* Mutated: only the after values are compared, as the first version did.  *)
MatchesRestoreTarget_afterOnly(s, m) ==
  \A p \in DOMAIN m : m[p].to # Absent => s[p] = m[p].to

(* Every after value is there, and every path only in before is gone.      *)
MatchesRestoreTarget(s, m) ==
  /\ DOMAIN m # {}
  /\ \A p \in DOMAIN m : s[p] = m[p].to

(* Every before value is still there and nothing after-only is; never when *)
(* before is empty.                                                        *)
MatchesOriginalDrift(s, m) ==
  /\ \E p \in DOMAIN m : m[p].from # Absent
  /\ \A p \in DOMAIN m : s[p] = m[p].from

(* The fold of the first n proposals of a chain.  An adoption seeds the    *)
(* state.  A drift record counts from its acceptance, and so does a revert *)
(* although it restores what the fold held; a change counts once shipped.  *)
FoldState(chain, shipped) ==
  LET fold[n \in 0 .. Len(chain)] ==
        IF n = 0 THEN [p \in Paths |-> Absent]
        ELSE CASE chain[n].kind = "adoption" -> chain[n].observed
               [] chain[n].kind = "change" /\ n \notin shipped -> fold[n - 1]
               [] OTHER -> SetAfter(fold[n - 1], chain[n].mod)
  IN fold[Len(chain)]
=============================================================================
