------------------------------ MODULE Resolver ------------------------------
(***************************************************************************)
(* Resolving an intent file into a change proposal (core/resolver), and    *)
(* what the ledger then knows about dependencies.                          *)
(*                                                                         *)
(* An intent declares resources, data sources and destroys; every declared *)
(* entry uses other addresses, by a $ref in its configuration or by an     *)
(* explicit depends_on.  A use inside the batch becomes an edge of the     *)
(* proposal, a use of something the ledger already has leaves none.        *)
(* The edges recorded by accepted proposals are what protects a resource   *)
(* from being destroyed under the resources that still use it, so a later  *)
(* resolve reads what an earlier one recorded.                             *)
(*                                                                         *)
(* Configuration values, schemas and the reads of data sources are left    *)
(* out: they can only refuse an intent.  "unchanged" is the set of         *)
(* declared resources whose configuration a generated document does not    *)
(* change, which the resolver drops from the proposal.                     *)
(***************************************************************************)
EXTENDS FiniteSets, Naturals

CONSTANTS
  Resources,    \* addresses of managed resources
  DataSources,  \* addresses of data sources
  NoProposal,   \* nothing resolved
  MaxUses       \* bound on the references of one intent

Addresses == Resources \cup DataSources

Edges == [Addresses -> SUBSET Addresses]

Proposals ==
  [creates : SUBSET Resources, modifies : SUBSET Resources,
   destroys : SUBSET Resources, dependsOn : [Resources -> SUBSET Addresses]]

Drafts == [status : {"draft", "accepted"}, proposal : Proposals]

ASSUME ResolverAssumption ==
  /\ Resources \cap DataSources = {}
  /\ NoProposal \notin Drafts
  /\ MaxUses \in Nat

VARIABLES
  live,      \* resources FoldState finds
  recorded,  \* recorded[a]: the depends_on of the latest accepted change of a
  draft      \* the latest proposal resolved, until it is accepted
             \* and shipped or dropped

vars == <<live, recorded, draft>>

TypeOK ==
  /\ live \subseteq Resources
  /\ recorded \in Edges
  /\ draft \in Drafts \cup {NoProposal}

Init ==
  /\ live = {}
  /\ recorded = [a \in Addresses |-> {}]
  /\ draft = NoProposal

-----------------------------------------------------------------------------
(* topoSort orders the nodes unless their edges run in a circle: then some *)
(* of the nodes all lead to one another and none of them can come first.   *)
Cyclic(nodes, edges) ==
  \E S \in SUBSET nodes : S # {} /\ \A a \in S : edges[a] \cap S # {}

Batch(i) == i.resources \cup i.dataSources
Used(i, a) == {b \in Addresses : <<a, b>> \in i.uses}

(* parseDestroyBatch: what is destroyed exists and is not declared too.    *)
Destroyable(i) == i.destroys \subseteq live \ Batch(i)

(* resolveRef and unionDependsOn: a use is of an entry of the batch, or of *)
(* a resource the ledger has and this proposal does not destroy.           *)
Resolvable(i) ==
  \A a \in Batch(i) : Used(i, a) \subseteq Batch(i) \cup (live \ i.destroys)

(* Only uses inside the batch are edges.                                   *)
RawEdges(i) == [a \in Addresses |-> Used(i, a) \cap Batch(i)]

(* Mutated: a circle of references is not refused.                         *)
Ordered_unchecked(i) == TRUE

Ordered(i) == ~Cyclic(Batch(i), RawEdges(i))

(* planModifies drops the entries that change nothing, and                 *)
(* rewriteDroppedRefs drops the edges that lead to them.                   *)
Dropped(i) == i.resources \cap i.unchanged

(* Mutated: the edges to dropped entries stay.                             *)
KeptEdges_all(i) == [a \in Addresses |-> RawEdges(i)[a]]

KeptEdges(i) == [a \in Addresses |-> RawEdges(i)[a] \ Dropped(i)]

(* historicalReverseDependents: the addresses whose latest accepted change *)
(* recorded a use of a.                                                    *)
Dependers(a) == {b \in Addresses : a \in recorded[b]}

(* A recorded depender is destroyed too, or is declared anew without the   *)
(* reference, or no longer exists: otherwise it would be orphaned.         *)
Orphans(i) ==
  {a \in i.destroys : ~(Dependers(a) \cap live \subseteq i.destroys \cup Batch(i))}

(* A destroy waits for what uses the resource: the edges turn around.      *)
DestroyEdges(i) ==
  [a \in Addresses |-> Dependers(a) \cap (i.destroys \cup Batch(i))]

DestroysOrdered(i) == ~Cyclic(i.destroys, DestroyEdges(i))

Resolved(i) ==
  LET carried == i.resources \ Dropped(i)
  IN  [creates |-> carried \ live,
       modifies |-> carried \cap live,
       destroys |-> i.destroys,
       dependsOn |-> [a \in Resources |->
          IF a \in carried THEN KeptEdges(i)[a]
          ELSE IF a \in i.destroys THEN DestroyEdges(i)[a] ELSE {}]]

(* ubx resolve: an intent becomes a draft, or is refused and nothing       *)
(* happens.                                                                *)
Resolve(i) ==
  /\ draft = NoProposal
  /\ Destroyable(i) /\ Resolvable(i) /\ Ordered(i)
  /\ Orphans(i) = {} /\ DestroysOrdered(i)
  /\ draft' = [status |-> "draft", proposal |-> Resolved(i)]
  /\ UNCHANGED <<live, recorded>>

Carried(p) == p.creates \cup p.modifies \cup p.destroys

(* Mutated: every dependency ever recorded counts, not the latest.         *)
Record_ever(p) ==
  [a \in Addresses |->
     IF a \in p.creates \cup p.modifies THEN recorded[a] \cup p.dependsOn[a] ELSE recorded[a]]

(* Folding the proposal into what the chain says: each create and modify   *)
(* replaces what its address recorded before, even by nothing.             *)
Record(p) ==
  [a \in Addresses |->
     IF a \in p.creates \cup p.modifies THEN p.dependsOn[a] ELSE recorded[a]]

(* The draft joins the chain; from here on its edges count, shipped or not. *)
Accept ==
  /\ draft # NoProposal /\ draft.status = "draft"
  /\ recorded' = Record(draft.proposal)
  /\ draft' = [draft EXCEPT !.status = "accepted"]
  /\ UNCHANGED live

(* changeNodesOf: every edge names a node the proposal carries.            *)
Closed(p) == \A a \in Carried(p) : p.dependsOn[a] \subseteq Carried(p)

(* Ship applies some of the nodes, none before those it depends on.  What  *)
(* fails is not tried again here.                                          *)
Ship(done) ==
  /\ draft # NoProposal /\ draft.status = "accepted"
  /\ LET p == draft.proposal
     IN  /\ Closed(p) /\ ~Cyclic(Carried(p), p.dependsOn)
         /\ done \subseteq Carried(p)
         /\ \A a \in done : p.dependsOn[a] \subseteq done
         /\ live' = (live \cup (done \cap p.creates)) \ (done \cap p.destroys)
  /\ draft' = NoProposal
  /\ UNCHANGED recorded

(* A draft is thrown away, or an accepted proposal never ships.            *)
Discard ==
  /\ draft # NoProposal
  /\ draft' = NoProposal
  /\ UNCHANGED <<live, recorded>>

(* The intents there are: only a resource the ledger has can be unchanged, *)
(* and an entry using itself would be refused as a circle.                 *)
Uses(batch) ==
  {u \in SUBSET {ab \in batch \X Addresses : ab[1] # ab[2]} : Cardinality(u) <= MaxUses}

Next ==
  \/ \E r \in SUBSET Resources, d \in SUBSET DataSources :
       \E x \in SUBSET (live \ r), n \in SUBSET (r \cap live), u \in Uses(r \cup d) :
         Resolve([resources |-> r, dataSources |-> d, destroys |-> x,
                  unchanged |-> n, uses |-> u])
  \/ Accept
  \/ \E done \in SUBSET Resources : Ship(done)
  \/ Discard

Spec == Init /\ [][Next]_vars

-----------------------------------------------------------------------------
(* "Never a real resolver output": no proposal the resolver returns has a  *)
(* circle among its creates, modifies and destroys, although destroys      *)
(* point backwards along edges recorded by other proposals and were        *)
(* ordered apart from the rest.                                            *)
ShipsInOrder ==
  draft # NoProposal => ~Cyclic(Carried(draft.proposal), draft.proposal.dependsOn)

(* The recorded dependencies never run in a circle, whichever proposals    *)
(* recorded them: else no batch could destroy these resources, for the     *)
(* resolver would refuse it as cyclic, or as orphaning, for ever.          *)
RecordedAcyclic == ~Cyclic(Addresses, recorded)

(* What RecordedAcyclic rests on: a data source records nothing.           *)
IInv ==
  /\ \A d \in DataSources : recorded[d] = {}
  /\ RecordedAcyclic
  /\ draft # NoProposal =>
       LET p == draft.proposal
       IN  /\ ShipsInOrder
           /\ (p.creates \cup p.modifies) \cap p.destroys = {}
           /\ \A a \in p.creates \cup p.modifies :
                p.dependsOn[a] \cap Resources \subseteq p.creates \cup p.modifies

(* A dependency on something the proposal does not carry "is the dangling  *)
(* edge" the resolver removes, and a data source is referenced "identically *)
(* to a sibling resource": whatever resolves can be shipped.               *)
Shippable == draft # NoProposal => Closed(draft.proposal)
=============================================================================
