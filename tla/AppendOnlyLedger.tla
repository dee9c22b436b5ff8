-------------------------- MODULE AppendOnlyLedger --------------------------
(***************************************************************************)
(* What a proposal ledger promises, whatever stores it: a proposal is      *)
(* drafted on the genesis or on an earlier one, and accepting it           *)
(* atomically makes it the head, provided the head is then the one it was  *)
(* drafted on.  Nothing else ever happens to the chain.                    *)
(***************************************************************************)
CONSTANTS Proposals, Genesis, None

VARIABLES
  parent,     \* the position each proposal was drafted on
  accepted,   \* the proposals on the chain
  head        \* the last of them, or Genesis

Init ==
  /\ parent = [p \in Proposals |-> None]
  /\ accepted = {}
  /\ head = Genesis

Draft(p) ==
  /\ parent[p] = None
  /\ \E n \in {Genesis} \cup {q \in Proposals : parent[q] # None} :
       parent' = [parent EXCEPT ![p] = n]
  /\ UNCHANGED <<accepted, head>>

Accept(p) ==
  /\ p \notin accepted
  /\ parent[p] = head
  /\ accepted' = accepted \cup {p}
  /\ head' = p
  /\ UNCHANGED parent

Next == \E p \in Proposals : Draft(p) \/ Accept(p)

Spec == Init /\ [][Next]_<<parent, accepted, head>>
=============================================================================
