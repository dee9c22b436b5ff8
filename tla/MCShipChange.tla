---------------------------- MODULE MCShipChange ----------------------------
(* Small proposals for ShipChange.                                         *)
EXTENDS ShipChange, TLC

CONSTANTS c, m, d

(* A create, a modify that needs it, and an independent destroy.           *)
ChainKind == [n \in Nodes |-> IF n = c THEN "create" ELSE IF n = m THEN "modify" ELSE "destroy"]
ChainDeps == [n \in Nodes |-> IF n = m /\ c \in Nodes THEN {c} ELSE {}]

(* A create that needs a modify.                                           *)
MixedDeps == [n \in Nodes |-> IF n = c THEN Nodes \cap {m} ELSE {}]

(* Nothing tells one ship from another.                                    *)
Alike == Permutations(Ships)
=============================================================================
