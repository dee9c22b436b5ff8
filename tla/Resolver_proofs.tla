-------------------------- MODULE Resolver_proofs --------------------------
(***************************************************************************)
(* The resolver never produces a proposal ship would find cyclic, and the  *)
(* dependencies accepted proposals have recorded never run in a circle.    *)
(*                                                                         *)
(* The second is the argument by age: an edge is only ever recorded to an  *)
(* entry of the same proposal, which is recorded anew with it.  So along a *)
(* circle every entry would be as young as the next, all of them recorded  *)
(* by one proposal, and one proposal's edges have been sorted.             *)
(***************************************************************************)
EXTENDS Resolver, TLAPS

(* Nodes that lead out of themselves nowhere cannot be part of a circle: a *)
(* circle in the union of two parts, of which the first leads only to      *)
(* itself, lies in the first or in the second.                             *)
LEMMA CircleInOnePart ==
  ASSUME NEW A, NEW B, NEW f,
         \A a \in A : f[a] \cap (B \ A) = {},
         Cyclic(A \cup B, f)
  PROVE  Cyclic(A, f) \/ Cyclic(B, f)
<1>1. PICK S \in SUBSET (A \cup B) : S # {} /\ \A a \in S : f[a] \cap S # {}
  BY DEF Cyclic
<1>2. CASE S \cap A = {}
  <2>1. S \in SUBSET B
    BY <1>1, <1>2
  <2> QED BY <1>1, <2>1 DEF Cyclic
<1>3. CASE S \cap A # {}
  <2>1. \A a \in S \cap A : f[a] \cap (S \cap A) # {}
    BY <1>1
  <2>2. S \cap A \in SUBSET A
    OBVIOUS
  <2> QED BY <1>3, <2>1, <2>2 DEF Cyclic
<1> QED BY <1>2, <1>3

(* A circle only depends on the edges of its own nodes, and on fewer nodes *)
(* or edges there are fewer circles.                                       *)
LEMMA CircleInMore ==
  ASSUME NEW A, NEW B, NEW f, NEW g,
         A \subseteq B,
         \A a \in A : f[a] \cap A \subseteq g[a],
         Cyclic(A, f)
  PROVE  Cyclic(B, g)
<1>1. PICK S \in SUBSET A : S # {} /\ \A a \in S : f[a] \cap S # {}
  BY DEF Cyclic
<1>2. S \in SUBSET B
  BY <1>1
<1>3. \A a \in S : g[a] \cap S # {}
  BY <1>1
<1> QED BY <1>1, <1>2, <1>3 DEF Cyclic

-----------------------------------------------------------------------------
(* What an intent is made of.                                              *)
IsIntent(i) ==
  /\ i.resources \subseteq Resources
  /\ i.dataSources \subseteq DataSources
  /\ i.destroys \subseteq live \ i.resources

(* The facts about a proposal that its acceptance relies on.               *)
Sound(p) ==
  /\ ~Cyclic(Carried(p), p.dependsOn)
  /\ (p.creates \cup p.modifies) \cap p.destroys = {}
  /\ \A a \in p.creates \cup p.modifies :
       p.dependsOn[a] \cap Resources \subseteq p.creates \cup p.modifies

LEMMA ResolvedType ==
  ASSUME TypeOK, NEW i, IsIntent(i)
  PROVE  Resolved(i) \in Proposals
<1> DEFINE carried == i.resources \ Dropped(i)
<1>1. carried \subseteq Resources /\ i.destroys \subseteq Resources
  BY DEF IsIntent, TypeOK
<1>2. KeptEdges(i) \in [Addresses -> SUBSET Addresses]
  BY DEF KeptEdges, RawEdges, Used
<1>3. DestroyEdges(i) \in [Addresses -> SUBSET Addresses]
  BY DEF DestroyEdges, Dependers
<1> DEFINE deps == [a \in Resources |->
              IF a \in carried THEN KeptEdges(i)[a]
              ELSE IF a \in i.destroys THEN DestroyEdges(i)[a] ELSE {}]
<1>4. deps \in [Resources -> SUBSET Addresses]
  BY <1>2, <1>3 DEF Addresses
<1>5. Resolved(i) = [creates |-> carried \ live, modifies |-> carried \cap live,
                     destroys |-> i.destroys, dependsOn |-> deps]
  BY DEF Resolved
<1> HIDE DEF carried, deps
<1> QED BY <1>1, <1>4, <1>5 DEF Proposals

(* Everything Resolve lets through is sound.                               *)
LEMMA ResolvedIsSound ==
  ASSUME TypeOK, NEW i, IsIntent(i),
         Destroyable(i), Ordered(i), DestroysOrdered(i)
  PROVE  Sound(Resolved(i))
<1> DEFINE p == Resolved(i)
           carried == i.resources \ Dropped(i)
<1>1. p.creates \cup p.modifies = carried
  BY DEF Resolved
<1>2. p.destroys = i.destroys
  BY DEF Resolved
<1>3. carried \cap i.destroys = {}
  BY DEF IsIntent
<1>4. carried \subseteq Resources /\ i.destroys \subseteq Resources
  BY DEF IsIntent, TypeOK
<1>5. \A a \in carried : p.dependsOn[a] = KeptEdges(i)[a]
  BY <1>4 DEF Resolved
<1>6. \A a \in i.destroys : p.dependsOn[a] = DestroyEdges(i)[a]
  BY <1>3, <1>4 DEF Resolved
<1> HIDE DEF p
<1>7. \A a \in carried : p.dependsOn[a] = RawEdges(i)[a] \ Dropped(i)
  BY <1>4, <1>5 DEF KeptEdges, Addresses
<1>8. \A a \in carried : RawEdges(i)[a] \subseteq Batch(i)
  BY <1>4 DEF RawEdges, Addresses
<1>9. carried \subseteq Batch(i) /\ Batch(i) \cap i.destroys = {}
  BY DEF Batch, Destroyable
<1>10. \A a \in carried : p.dependsOn[a] \cap Resources \subseteq carried
  <2> SUFFICES ASSUME NEW a \in carried, NEW b \in p.dependsOn[a] \cap Resources
               PROVE  b \in carried
    OBVIOUS
  <2>1. b \in Batch(i) /\ b \notin Dropped(i)
    BY <1>7, <1>8
  <2>2. b \in i.resources
    BY <2>1, ResolverAssumption DEF Batch, IsIntent
  <2> QED BY <2>1, <2>2
<1>11. ~Cyclic(carried, p.dependsOn)
  <2>1. \A a \in carried : p.dependsOn[a] \cap carried \subseteq RawEdges(i)[a]
    BY <1>7
  <2> QED BY <1>9, <2>1, CircleInMore DEF Ordered
<1>12. ~Cyclic(i.destroys, p.dependsOn)
  <2>1. \A a \in i.destroys : p.dependsOn[a] \cap i.destroys \subseteq DestroyEdges(i)[a]
    BY <1>6
  <2>2. i.destroys \subseteq i.destroys
    OBVIOUS
  <2> QED BY <2>1, <2>2, CircleInMore DEF DestroysOrdered
<1>13. \A a \in carried : p.dependsOn[a] \cap (i.destroys \ carried) = {}
  BY <1>7, <1>8, <1>9
<1>14. ~Cyclic(carried \cup i.destroys, p.dependsOn)
  BY <1>11, <1>12, <1>13, CircleInOnePart
<1>15. Carried(p) = carried \cup i.destroys
  BY <1>1, <1>2 DEF Carried
<1> QED BY <1>1, <1>2, <1>3, <1>10, <1>14, <1>15 DEF Sound, p

(* The argument by age: what a sound proposal records closes no circle.    *)
LEMMA RecordKeepsAcyclic ==
  ASSUME TypeOK, IInv, NEW p \in Proposals, Sound(p)
  PROVE  /\ ~Cyclic(Addresses, Record(p))
         /\ \A d \in DataSources : Record(p)[d] = {}
<1> DEFINE new == p.creates \cup p.modifies
<1>1. new \subseteq Resources
  BY DEF Proposals
<1>2. \A a \in new : Record(p)[a] = p.dependsOn[a]
  BY <1>1 DEF Record, Addresses
<1>3. \A a \in Addresses \ new : Record(p)[a] = recorded[a]
  BY DEF Record
<1> HIDE DEF new
<1>4. \A d \in DataSources : Record(p)[d] = {}
  BY <1>1, <1>3, ResolverAssumption DEF IInv, Addresses
<1>5. \A a \in new : p.dependsOn[a] \cap Resources \subseteq new
  BY DEF Sound, new
<1>6. ~Cyclic(new, Record(p))
  <2>1. \A a \in new : Record(p)[a] \cap new \subseteq p.dependsOn[a]
    BY <1>2
  <2>2. new \subseteq Carried(p)
    BY DEF Carried, new
  <2> QED BY <2>1, <2>2, CircleInMore DEF Sound
<1>7. ~Cyclic(Resources \ new, Record(p))
  <2>1. \A a \in Resources \ new : Record(p)[a] \cap (Resources \ new) \subseteq recorded[a]
    BY <1>3 DEF Addresses
  <2>2. Resources \ new \subseteq Addresses
    BY DEF Addresses
  <2> QED BY <2>1, <2>2, CircleInMore DEF IInv, RecordedAcyclic
<1>8. ~Cyclic(Resources, Record(p))
  <2>1. \A a \in new : Record(p)[a] \cap ((Resources \ new) \ new) = {}
    BY <1>2, <1>5
  <2>2. Resources = new \cup (Resources \ new)
    BY <1>1
  <2> QED BY <1>6, <1>7, <2>1, <2>2, CircleInOnePart
<1>9. ~Cyclic(DataSources, Record(p))
  BY <1>4 DEF Cyclic
<1>10. \A a \in DataSources : Record(p)[a] \cap (Resources \ DataSources) = {}
  BY <1>4
<1>11. Addresses = DataSources \cup Resources
  BY DEF Addresses
<1> QED BY <1>4, <1>8, <1>9, <1>10, <1>11, CircleInOnePart

-----------------------------------------------------------------------------
LEMMA InitInv == Init => TypeOK /\ IInv
<1> SUFFICES ASSUME Init PROVE TypeOK /\ IInv
  OBVIOUS
<1>1. TypeOK
  BY DEF Init, TypeOK, Edges
<1>2. RecordedAcyclic
  BY DEF Init, RecordedAcyclic, Cyclic
<1>3. \A d \in DataSources : recorded[d] = {}
  BY DEF Init, Addresses
<1> QED BY <1>1, <1>2, <1>3 DEF IInv, Init

(* The invariant, with the part about the draft in terms of Sound.         *)
LEMMA InvBySound ==
  IInv <=> /\ \A d \in DataSources : recorded[d] = {}
           /\ RecordedAcyclic
           /\ draft # NoProposal => Sound(draft.proposal)
BY DEF IInv, Sound, ShipsInOrder

LEMMA ResolveInv ==
  ASSUME TypeOK, IInv, NEW i, IsIntent(i), Resolve(i)
  PROVE  TypeOK' /\ IInv'
<1>1. Resolved(i) \in Proposals
  BY ResolvedType
<1>2. Sound(Resolved(i))
  BY ResolvedIsSound DEF Resolve
<1>3. draft' = [status |-> "draft", proposal |-> Resolved(i)] /\ UNCHANGED <<live, recorded>>
  BY DEF Resolve
<1>4. TypeOK'
  BY <1>1, <1>3 DEF TypeOK, Drafts
<1>5. draft'.proposal = Resolved(i)
  BY <1>3
<1>6. Sound(draft.proposal)'
  BY <1>2, <1>5 DEF Sound, Carried, Cyclic
<1>7. RecordedAcyclic' /\ \A d \in DataSources : recorded'[d] = {}
  BY <1>3 DEF IInv, RecordedAcyclic, Cyclic
<1> QED BY <1>4, <1>6, <1>7 DEF IInv, Sound, ShipsInOrder, Cyclic, Carried

LEMMA AcceptInv == TypeOK /\ IInv /\ Accept => TypeOK' /\ IInv'
<1> SUFFICES ASSUME TypeOK, IInv, Accept PROVE TypeOK' /\ IInv'
  OBVIOUS
<1> DEFINE p == draft.proposal
<1>1. draft \in Drafts
  BY DEF Accept, TypeOK
<1>2. p \in Proposals /\ Sound(p)
  BY <1>1, InvBySound DEF Accept, Drafts
<1>3. recorded' = Record(p) /\ live' = live /\ draft' = [draft EXCEPT !.status = "accepted"]
  BY DEF Accept
<1>4. draft' \in Drafts /\ draft'.proposal = p
  BY <1>1, <1>3 DEF Drafts
<1> HIDE DEF p
<1>5. Record(p) \in Edges
  BY <1>2 DEF Record, Edges, TypeOK, Proposals
<1>6. TypeOK'
  BY <1>3, <1>4, <1>5 DEF TypeOK
<1>7. RecordedAcyclic' /\ \A d \in DataSources : recorded'[d] = {}
  BY <1>2, <1>3, RecordKeepsAcyclic DEF RecordedAcyclic, Cyclic
<1>8. Sound(draft.proposal)'
  BY <1>2, <1>4 DEF Sound, Carried, Cyclic
<1> QED BY <1>6, <1>7, <1>8 DEF IInv, Sound, ShipsInOrder, Cyclic, Carried

LEMMA ShipInv ==
  ASSUME TypeOK, IInv, NEW done \in SUBSET Resources, Ship(done)
  PROVE  TypeOK' /\ IInv'
<1>1. draft' = NoProposal /\ recorded' = recorded
  BY DEF Ship
<1>2. live' \subseteq Resources
  BY DEF Ship, TypeOK
<1> QED BY <1>1, <1>2 DEF TypeOK, IInv, RecordedAcyclic, Cyclic, ShipsInOrder

LEMMA DiscardInv == TypeOK /\ IInv /\ Discard => TypeOK' /\ IInv'
BY DEF Discard, TypeOK, IInv, RecordedAcyclic, Cyclic, ShipsInOrder

LEMMA StutterInv == TypeOK /\ IInv /\ UNCHANGED vars => TypeOK' /\ IInv'
BY DEF vars, TypeOK, IInv, RecordedAcyclic, Cyclic, ShipsInOrder, Carried

LEMMA NextInv == TypeOK /\ IInv /\ [Next]_vars => TypeOK' /\ IInv'
<1> SUFFICES ASSUME TypeOK, IInv, [Next]_vars PROVE TypeOK' /\ IInv'
  OBVIOUS
<1>1. CASE \E r \in SUBSET Resources, d \in SUBSET DataSources :
             \E x \in SUBSET (live \ r), n \in SUBSET (r \cap live), u \in Uses(r \cup d) :
               Resolve([resources |-> r, dataSources |-> d, destroys |-> x,
                        unchanged |-> n, uses |-> u])
  <2>1. PICK r \in SUBSET Resources, d \in SUBSET DataSources :
             \E x \in SUBSET (live \ r), n \in SUBSET (r \cap live), u \in Uses(r \cup d) :
               Resolve([resources |-> r, dataSources |-> d, destroys |-> x,
                        unchanged |-> n, uses |-> u])
    BY <1>1
  <2>2. PICK x \in SUBSET (live \ r), n \in SUBSET (r \cap live), u \in Uses(r \cup d) :
               Resolve([resources |-> r, dataSources |-> d, destroys |-> x,
                        unchanged |-> n, uses |-> u])
    BY <2>1
  <2> DEFINE i == [resources |-> r, dataSources |-> d, destroys |-> x,
                   unchanged |-> n, uses |-> u]
  <2>3. IsIntent(i)
    BY DEF IsIntent
  <2>4. Resolve(i)
    BY <2>2
  <2> HIDE DEF i
  <2> QED BY <2>3, <2>4, ResolveInv
<1>2. CASE Accept
  BY <1>2, AcceptInv
<1>3. CASE \E done \in SUBSET Resources : Ship(done)
  BY <1>3, ShipInv
<1>4. CASE Discard
  BY <1>4, DiscardInv
<1>5. CASE UNCHANGED vars
  BY <1>5, StutterInv
<1> QED BY <1>1, <1>2, <1>3, <1>4, <1>5 DEF Next

(* Every state is well typed and satisfies the inductive invariant.        *)
THEOREM ResolverInvariant == Spec => [](TypeOK /\ IInv)
<1>1. Init => TypeOK /\ IInv
  BY InitInv
<1>2. TypeOK /\ IInv /\ [Next]_vars => (TypeOK /\ IInv)'
  BY NextInv
<1> QED BY <1>1, <1>2, PTL DEF Spec

(* ErrDependencyCycle is never met by a proposal the resolver returned     *)
(* (changeNodesOf in core/executor/ship.go).                               *)
THEOREM AlwaysShipsInOrder == Spec => []ShipsInOrder
<1>1. IInv => ShipsInOrder
  BY DEF IInv, ShipsInOrder
<1> QED BY <1>1, ResolverInvariant, PTL

(* What accepted proposals have recorded stays free of circles, so that    *)
(* resources can always be destroyed together (historicalReverseDependents *)
(* and resolveDestroys in core/resolver/destroys.go).                      *)
THEOREM AlwaysRecordedAcyclic == Spec => []RecordedAcyclic
<1>1. IInv => RecordedAcyclic
  BY DEF IInv
<1> QED BY <1>1, ResolverInvariant, PTL
=============================================================================
