------------------------- MODULE DriftRevert_proofs -------------------------
(* For any number of operators, paths, values, ships and drifts: every     *)
(* variable keeps its type; a proposal recorded applied has its targets on *)
(* the resource; an accepted proposal was drafted against the proposals    *)
(* before it; the newest proposal's ship leaves nothing for the next scan. *)
(* And what the diff, its substitution, the fold and the two comparisons   *)
(* of reconciliation do for any states and chains.                         *)
EXTENDS DriftRevert, WellFoundedInduction, TLAPS

(* Substituting a difference into the state it was taken from gives the    *)
(* other state, removed paths included (DiffAttributes, ApplyAfter).       *)
THEOREM DiffThenApply ==
  ASSUME NEW s \in States, NEW t \in States
  PROVE  ApplyAfter(s, DiffAttributes(s, t)) = t
BY DEF ApplyAfter, DiffAttributes, States

(* After it the comparison that calls a revert applied holds, if there was *)
(* a difference at all (matchesRestoreTarget).                             *)
THEOREM RestoreIsRecognised ==
  ASSUME NEW s \in States, NEW t \in States, s # t
  PROVE  MatchesRestoreTarget(ApplyAfter(s, DiffAttributes(s, t)), DiffAttributes(s, t))
<1>1. PICK p \in Paths : s[p] # t[p]
  BY DEF States
<1> QED
  BY <1>1, DiffThenApply DEF MatchesRestoreTarget, DiffAttributes

(* No read is both the restored and the original state of a difference, so *)
(* the order in which reconciliation compares does not matter              *)
(* (matchesRestoreTarget, matchesOriginalDrift).                           *)
THEOREM VerdictsExclude ==
  ASSUME NEW s, NEW t, NEW r
  PROVE  LET m == DiffAttributes(s, t)
         IN  ~(MatchesRestoreTarget(r, m) /\ MatchesOriginalDrift(r, m))
BY DEF MatchesRestoreTarget, MatchesOriginalDrift, DiffAttributes

-----------------------------------------------------------------------------
(* As much of the types as the argument needs; the values in a             *)
(* modification are those of a fold and do not matter to it.               *)
ShipTypes ==
  /\ Len(chain) <= MaxChain
  /\ DOMAIN draft = Operators
  /\ DOMAIN rec = Positions
  /\ \A i \in Positions : DOMAIN rec[i] = {"state", "flights"}
  /\ steady \in [Positions -> {"all", "targets", "none"}]
  /\ spc \in {"idle", "begun", "fresh", "apply", "ok", "err", "reconcile"}

ChainIsSequence == \E S : chain \in Seq(S)

(* Modifications speak of the resource's own paths.                        *)
PathsKnown ==
  /\ \A i \in 1 .. Len(chain) : DOMAIN chain[i].mod \subseteq Paths
  /\ \A o \in Operators : draft[o] # None => DOMAIN draft[o].mod \subseteq Paths

(* The proposal being shipped is on the chain and not applied yet.         *)
ShipInv ==
  /\ \A i \in Positions : rec[i].state = "applied" => i <= Len(chain)
  /\ spc # "idle" => cur \in 1 .. Len(chain) /\ rec[cur].state # "applied"

(* Between the provider's success and its record the resource holds the    *)
(* targets, unless somebody else changed it.                               *)
AnswerInv ==
  spc = "ok" /\ steady[cur] # "none" =>
    \A p \in DOMAIN chain[cur].mod : world[p] = chain[cur].mod[p].to

IInv ==
  /\ ShipTypes /\ ChainIsSequence
  /\ PathsKnown /\ ShipInv
  /\ AnswerInv /\ RestoredIsReal

LEMMA InitInv == Init => IInv
<1> SUFFICES ASSUME Init PROVE IInv
  OBVIOUS
<1>1. chain \in Seq({})
  BY DEF Init
<1>2. Len(chain) = 0
  BY DEF Init
<1> QED
  BY <1>1, <1>2, RevertAssumption DEF Init, IInv, ShipTypes, ChainIsSequence, PathsKnown, ShipInv,
     AnswerInv, RestoredIsReal, Shipped, Disturbed, NoRecord, Positions

(* What the steps before acceptance have in common.                        *)
LEMMA DraftingInv ==
  ASSUME IInv, NEW o \in Operators,
         \/ Scan(o) \/ Classify(o) \/ TakeHead(o) \/ Unchanged(o) \/ PlanModifies(o)
         \/ Adoption(o) \/ DriftAdopt(o) \/ Revert(o) \/ Resolve(o) \/ Discard(o)
  PROVE  IInv'
<1> USE DEF IInv, ShipTypes, PathsKnown, Hold, Drafting, Proposal
<1>1. /\ UNCHANGED <<world, chain, rec, spc, cur, steady>>
      /\ DOMAIN draft' = Operators
  BY DEF Scan, Classify, TakeHead, Unchanged, PlanModifies, Discard, Adoption, DriftAdopt, Revert,
     Resolve, shipVars
<1>2. ASSUME NEW q \in Operators, draft'[q] # None
      PROVE  DOMAIN draft'[q].mod \subseteq Paths
  <2>1. CASE Scan(o) \/ Classify(o) \/ TakeHead(o) \/ Unchanged(o) \/ PlanModifies(o) \/ Discard(o)
    BY <1>2, <2>1 DEF Scan, Classify, TakeHead, Unchanged, PlanModifies, Discard
  <2>2. CASE Adoption(o)
    BY <1>2, <2>2 DEF Adoption, NoModification
  <2>3. CASE DriftAdopt(o)
    BY <1>2, <2>3 DEF DriftAdopt, DiffAttributes
  <2>4. CASE Revert(o)
    BY <1>2, <2>4 DEF Revert, DiffAttributes
  <2>5. CASE Resolve(o)
    BY <1>2, <2>5 DEF Resolve, DiffAttributes
  <2> QED
    BY <2>1, <2>2, <2>3, <2>4, <2>5
<1> QED
  BY <1>1, <1>2 DEF ChainIsSequence, ShipInv, AnswerInv, RestoredIsReal, Shipped

(* Accepting leaves the proposals before it as they are.                   *)
LEMMA AcceptInv ==
  ASSUME IInv, NEW o \in Operators, Accept(o)
  PROVE  IInv'
<1>1. PICK S : chain \in Seq(S)
  BY DEF IInv, ChainIsSequence
<1> DEFINE T == S \cup {draft[o]}
<1>2. chain \in Seq(T) /\ draft[o] \in T
  BY <1>1
<1>3. /\ chain' \in Seq(T)
      /\ Len(chain') = Len(chain) + 1
      /\ \A i \in 1 .. Len(chain) : chain'[i] = chain[i]
      /\ chain'[Len(chain) + 1] = draft[o]
      /\ Len(chain) \in Nat
  BY <1>2 DEF Accept
<1>4. /\ UNCHANGED <<world, rec, spc, cur, steady>>
      /\ Len(chain) < MaxChain /\ draft[o] # None
      /\ DOMAIN draft' = Operators
      /\ \A q \in Operators : draft'[q] = IF q = o THEN None ELSE draft[q]
  BY DEF Accept, IInv, ShipTypes, shipVars
<1>5. ShipTypes' /\ ChainIsSequence'
  BY <1>3, <1>4, RevertAssumption DEF IInv, ShipTypes, ChainIsSequence
<1>6. PathsKnown'
  BY <1>3, <1>4 DEF IInv, PathsKnown
<1>7. ShipInv'
  BY <1>3, <1>4, RevertAssumption DEF IInv, ShipInv, Positions
<1>8. AnswerInv'
  BY <1>3, <1>4 DEF IInv, AnswerInv, ShipInv
<1>9. RestoredIsReal'
  <2> SUFFICES ASSUME NEW i \in Shipped', steady'[i] # "none"
               PROVE  \A p \in DOMAIN chain'[i].mod : world'[p] = chain'[i].mod[p].to
    BY DEF RestoredIsReal
  <2>1. i \in Positions /\ rec[i].state = "applied"
    BY <1>3, <1>4, RevertAssumption DEF Shipped, Positions
  <2>2. i \in 1 .. Len(chain)
    BY <1>3, <2>1 DEF IInv, ShipInv, Positions
  <2>3. i \in Shipped /\ chain'[i] = chain[i]
    BY <1>3, <2>1, <2>2 DEF Shipped
  <2> QED
    BY <1>4, <2>3 DEF IInv, RestoredIsReal
<1> QED
  BY <1>5, <1>6, <1>7, <1>8, <1>9 DEF IInv

LEMMA ShippingInv ==
  ASSUME IInv, ShipStep \/ Crash \/ Drift \/ \E i \in 1 .. Len(chain) : BeginApply(i)
  PROVE  IInv'
<1> USE RevertAssumption DEF IInv, ShipTypes, ChainIsSequence, PathsKnown, ShipInv, AnswerInv,
     RestoredIsReal, Shipped, Positions, ledgerVars, operatorVars, shipVars, Mod, Disturbed
<1>0. Len(chain) \in Nat
  BY DEF ChainIsSequence
<1>1. CASE Drift
  BY <1>0, <1>1 DEF Drift
<1>2. ASSUME NEW i \in 1 .. Len(chain), BeginApply(i)
      PROVE  IInv'
  BY <1>0, <1>2 DEF BeginApply
<1>3. CASE Halt
  BY <1>0, <1>3 DEF Halt, Verdict, Ends
<1>4. CASE VerifyFreshness
  BY <1>0, <1>4 DEF VerifyFreshness
<1>5. CASE Fly
  BY <1>0, <1>5 DEF Fly
<1>6. CASE ApplyResourceChange
  BY <1>0, <1>6 DEF ApplyResourceChange, ApplyAfter
<1>7. CASE Succeed
  BY <1>0, <1>7 DEF Succeed, Verdict, Ends
<1>8. CASE Suspect
  BY <1>0, <1>8 DEF Suspect
<1>9. CASE ConfirmApplied
  BY <1>0, <1>9 DEF ConfirmApplied, Verdict, Ends, MatchesRestoreTarget
<1>10. ASSUME NEW state \in {"failed", "still_unknown"}, spc = "reconcile", Verdict(state),
              UNCHANGED <<world, drifts, ledgerVars, steady>>
       PROVE  IInv'
  BY <1>0, <1>10 DEF Verdict, Ends
<1>12. CASE ConfirmFailed
  BY ONLY <1>10, <1>12 DEF ConfirmFailed
<1>13. CASE Exhaust
  BY ONLY <1>10, <1>13 DEF Exhaust
<1>11. CASE Crash
  BY <1>0, <1>11 DEF Crash, Ends
<1> QED
  BY <1>1, <1>2, <1>3, <1>4, <1>5, <1>6, <1>7, <1>8, <1>9, <1>11, <1>12, <1>13 DEF ShipStep

LEMMA NextInv == IInv /\ [Next]_vars => IInv'
<1> SUFFICES ASSUME IInv, [Next]_vars PROVE IInv'
  OBVIOUS
<1>1. CASE UNCHANGED vars
  BY <1>1 DEF vars, ledgerVars, operatorVars, shipVars, IInv, ShipTypes, ChainIsSequence, PathsKnown, ShipInv,
     AnswerInv, RestoredIsReal, Shipped
<1>2. CASE Next
  BY <1>2, DraftingInv, AcceptInv, ShippingInv DEF Next
<1> QED
  BY <1>1, <1>2

THEOREM RevertInvariant == Spec => []IInv
BY InitInv, NextInv, PTL DEF Spec

(* Whatever drifted, died or stayed unanswered in between, a proposal      *)
(* recorded applied has its targets on the resource, unless somebody else  *)
(* changed it after the read the ship relied on (shipDriftRevert).         *)
THEOREM RestoredStaysReal == Spec => []RestoredIsReal
BY RevertInvariant, PTL DEF IInv

-----------------------------------------------------------------------------
(* The fold of a chain (foldStateOverChain).  Its equations, its type, and *)
(* what it depends on, from the fact that a set of naturals with zero and  *)
(* with the successor of each of its members is all of them.               *)

LEMMA AllNaturals ==
  ASSUME NEW S \in SUBSET Nat, 0 \in S, \A n \in S : n + 1 \in S
  PROVE  S = Nat
<1> DEFINE R == OpToRel(<, Nat)
           T == Nat \ S
<1> SUFFICES ASSUME T # {} PROVE FALSE
  OBVIOUS
<1>1. PICK m \in T : \A k \in T : <<k, m>> \notin R
  <2>1. IsWellFoundedOn(R, Nat)
    BY NatLessThanWellFounded
  <2> HIDE DEF R
  <2> QED
    BY <2>1, WFMin
<1>2. ASSUME NEW k \in Nat, k < m
      PROVE  k \in S
  <2>1. <<k, m>> \in R
    BY <1>2 DEF OpToRel
  <2> HIDE DEF R
  <2> QED
    BY <1>1, <2>1
<1>3. m \in Nat /\ m \notin S
  OBVIOUS
<1> HIDE DEF R, T
<1>4. m # 0 /\ m - 1 \in Nat /\ m - 1 < m
  BY <1>3
<1>5. m - 1 \in S /\ (m - 1) + 1 = m
  BY <1>2, <1>3, <1>4
<1> QED
  BY <1>3, <1>5

(* One proposal more: the case distinction of the fold.                    *)
FoldStep(before, e, counted) ==
  CASE e.kind = "adoption" -> e.observed
    [] e.kind = "change" /\ ~counted -> before
    [] OTHER -> SetAfter(before, e.mod)

FoldBody(c, shipped, f, n) ==
  IF n = 0 THEN [p \in Paths |-> Absent] ELSE FoldStep(f[n - 1], c[n], n \in shipped)

IsFold(c, shipped, m, f) == f = [n \in 0 .. m |-> FoldBody(c, shipped, f, n)]

LEMMA FoldExists ==
  ASSUME NEW c, NEW shipped
  PROVE  \A m \in Nat : \E f : IsFold(c, shipped, m, f)
<1> DEFINE S == {m \in Nat : \E f : IsFold(c, shipped, m, f)}
<1>1. 0 \in S
  <2> DEFINE f == [n \in 0 .. 0 |-> [p \in Paths |-> Absent]]
  <2>1. f = [n \in 0 .. 0 |-> FoldBody(c, shipped, f, n)]
    BY DEF FoldBody
  <2> QED
    BY <2>1 DEF IsFold
<1>2. ASSUME NEW m \in S
      PROVE  m + 1 \in S
  <2>1. PICK f : f = [n \in 0 .. m |-> FoldBody(c, shipped, f, n)]
    BY <1>2 DEF IsFold
  <2> DEFINE g == [n \in 0 .. m + 1 |-> IF n <= m THEN f[n] ELSE FoldBody(c, shipped, f, m + 1)]
  <2>2. ASSUME NEW n \in 0 .. m + 1
        PROVE  g[n] = FoldBody(c, shipped, g, n)
    <3>1. n # 0 => n - 1 \in 0 .. m + 1 /\ n - 1 <= m
      OBVIOUS
    <3>2. n # 0 => g[n - 1] = f[n - 1]
      BY <3>1
    <3>3. FoldBody(c, shipped, g, n) = FoldBody(c, shipped, f, n)
      BY <3>2 DEF FoldBody
    <3>4. CASE n <= m
      <4>1. g[n] = f[n] /\ n \in 0 .. m
        BY <3>4
      <4>2. f[n] = FoldBody(c, shipped, f, n)
        BY <2>1, <4>1
      <4> QED
        BY <3>3, <4>1, <4>2
    <3>5. CASE ~(n <= m)
      <4>1. n = m + 1
        BY <3>5
      <4> QED
        BY <3>3, <3>5, <4>1
    <3> QED
      BY <3>4, <3>5
  <2>3. g = [n \in 0 .. m + 1 |-> FoldBody(c, shipped, g, n)]
    <3>1. g = [n \in 0 .. m + 1 |-> g[n]]
      OBVIOUS
    <3> HIDE DEF g
    <3> QED
      BY <2>2, <3>1
  <2> HIDE DEF g
  <2> QED
    BY <2>3 DEF IsFold
<1> HIDE DEF S
<1>3. S = Nat
  BY <1>1, <1>2, AllNaturals DEF S
<1> QED
  BY <1>3 DEF S

LEMMA FoldDefined ==
  ASSUME NEW c, NEW shipped, Len(c) \in Nat
  PROVE  \E f : IsFold(c, shipped, Len(c), f) /\ FoldState(c, shipped) = f[Len(c)]
<1> DEFINE f == CHOOSE g : g = [n \in 0 .. Len(c) |->
                  IF n = 0 THEN [p \in Paths |-> Absent]
                  ELSE CASE c[n].kind = "adoption" -> c[n].observed
                         [] c[n].kind = "change" /\ n \notin shipped -> g[n - 1]
                         [] OTHER -> SetAfter(g[n - 1], c[n].mod)]
<1>1. \E g : IsFold(c, shipped, Len(c), g)
  BY FoldExists
<1>2. IsFold(c, shipped, Len(c), f)
  BY <1>1 DEF IsFold, FoldBody, FoldStep
<1>3. FoldState(c, shipped) = f[Len(c)]
  BY DEF FoldState
<1> QED
  BY <1>2, <1>3

(* Two chains agree up to m on the proposals, and on which of the changes  *)
(* have shipped: then their folds agree.                                   *)
Agree(c, shipped, d, counted, m) ==
  \A n \in 1 .. m : c[n] = d[n] /\ (c[n].kind = "change" => (n \in shipped <=> n \in counted))

LEMMA FoldsAgree ==
  ASSUME NEW c, NEW shipped, NEW d, NEW counted, NEW k \in Nat, NEW l \in Nat, NEW m \in Nat,
         m <= k, m <= l, Agree(c, shipped, d, counted, m),
         NEW f, NEW g, IsFold(c, shipped, k, f), IsFold(d, counted, l, g)
  PROVE  f[m] = g[m]
<1> DEFINE S == {n \in Nat : n <= m => f[n] = g[n]}
<1>0. /\ \A n \in 0 .. k : f[n] = FoldBody(c, shipped, f, n)
      /\ \A n \in 0 .. l : g[n] = FoldBody(d, counted, g, n)
  BY DEF IsFold
<1>1. 0 \in S
  BY <1>0 DEF FoldBody
<1>2. ASSUME NEW n \in S
      PROVE  n + 1 \in S
  <2> SUFFICES ASSUME n + 1 <= m PROVE f[n + 1] = g[n + 1]
    OBVIOUS
  <2>1. n \in Nat /\ n <= m /\ (n + 1) - 1 = n /\ n + 1 # 0
    OBVIOUS
  <2>2. n + 1 \in 0 .. k /\ n + 1 \in 0 .. l /\ n + 1 \in 1 .. m
    BY <2>1
  <2>3. f[n] = g[n]
    BY <2>1
  <2>4. /\ c[n + 1] = d[n + 1]
        /\ c[n + 1].kind = "change" => (n + 1 \in shipped <=> n + 1 \in counted)
    BY <2>2 DEF Agree
  <2>5. FoldBody(c, shipped, f, n + 1) = FoldBody(d, counted, g, n + 1)
    BY <2>1, <2>3, <2>4 DEF FoldBody, FoldStep
  <2> QED
    BY <1>0, <2>2, <2>5
<1> HIDE DEF S
<1>3. S = Nat
  BY <1>1, <1>2, AllNaturals DEF S
<1> QED
  BY <1>3 DEF S

LEMMA SameFold ==
  ASSUME NEW c, NEW shipped, NEW d, NEW counted, Len(c) \in Nat, Len(d) = Len(c),
         Agree(c, shipped, d, counted, Len(c))
  PROVE  FoldState(c, shipped) = FoldState(d, counted)
<1>1. PICK f : IsFold(c, shipped, Len(c), f) /\ FoldState(c, shipped) = f[Len(c)]
  BY FoldDefined
<1>2. PICK g : IsFold(d, counted, Len(c), g) /\ FoldState(d, counted) = g[Len(c)]
  BY FoldDefined
<1> QED
  BY <1>1, <1>2, FoldsAgree

(* The last proposal of a chain, over the fold of those before it.         *)
LEMMA FoldLast ==
  ASSUME NEW c, NEW shipped, NEW d, NEW counted, Len(d) \in Nat, Len(c) = Len(d) + 1,
         Agree(c, shipped, d, counted, Len(d))
  PROVE  FoldState(c, shipped) = FoldStep(FoldState(d, counted), c[Len(c)], Len(c) \in shipped)
<1>1. PICK f : IsFold(c, shipped, Len(c), f) /\ FoldState(c, shipped) = f[Len(c)]
  BY FoldDefined
<1>2. PICK g : IsFold(d, counted, Len(d), g) /\ FoldState(d, counted) = g[Len(d)]
  BY FoldDefined
<1>3. f[Len(d)] = g[Len(d)]
  BY <1>1, <1>2, FoldsAgree
<1>4. Len(c) \in 0 .. Len(c) /\ Len(c) # 0 /\ Len(c) - 1 = Len(d)
  OBVIOUS
<1>5. f[Len(c)] = FoldBody(c, shipped, f, Len(c))
  BY <1>1, <1>4 DEF IsFold
<1>6. FoldBody(c, shipped, f, Len(c)) = FoldStep(f[Len(d)], c[Len(c)], Len(c) \in shipped)
  BY <1>4 DEF FoldBody
<1> QED
  BY <1>1, <1>2, <1>3, <1>5, <1>6

(* The fold of proposals is a state.                                       *)
LEMMA FoldType ==
  ASSUME NEW c \in Seq(Proposals), NEW shipped
  PROVE  FoldState(c, shipped) \in States
<1>1. Len(c) \in Nat
  OBVIOUS
<1>2. PICK f : IsFold(c, shipped, Len(c), f) /\ FoldState(c, shipped) = f[Len(c)]
  BY <1>1, FoldDefined
<1> DEFINE S == {n \in Nat : n <= Len(c) => f[n] \in States}
<1>3. \A n \in 0 .. Len(c) : f[n] = FoldBody(c, shipped, f, n)
  BY <1>2 DEF IsFold
<1>4. 0 \in S
  BY <1>1, <1>3 DEF FoldBody, States, Slots
<1>5. ASSUME NEW n \in S
      PROVE  n + 1 \in S
  <2> SUFFICES ASSUME n + 1 <= Len(c) PROVE f[n + 1] \in States
    BY <1>1
  <2>1. n \in Nat /\ n + 1 \in 1 .. Len(c) /\ n + 1 \in 0 .. Len(c) /\ (n + 1) - 1 = n /\ n + 1 # 0
    BY <1>1
  <2>2. f[n] \in States
    BY <1>1, <2>1
  <2>3. c[n + 1] \in Proposals
    BY <2>1
  <2>4. c[n + 1].observed \in States /\ c[n + 1].mod \in Modifications
    BY <2>3 DEF Proposals
  <2>5. SetAfter(f[n], c[n + 1].mod) \in States
    BY <2>2, <2>4 DEF SetAfter, States, Modifications, Changes
  <2>6. FoldStep(f[n], c[n + 1], n + 1 \in shipped) \in States
    BY <2>2, <2>4, <2>5 DEF FoldStep
  <2> QED
    BY <1>3, <2>1, <2>6 DEF FoldBody
<1> HIDE DEF S
<1>6. S = Nat
  BY <1>4, <1>5, AllNaturals DEF S
<1> QED
  BY <1>1, <1>2, <1>6 DEF S

-----------------------------------------------------------------------------
(* The types.  A flight belongs to an attempt, so the flights of a         *)
(* proposal are no more than the attempts.                                 *)
FlightInv ==
  /\ \A i \in Positions : rec[i].flights <= ships
  /\ spc \in {"begun", "fresh"} => rec[cur].flights < ships

RevertTypes ==
  /\ RevertTypeOK /\ FlightInv
  /\ chain \in Seq(Proposals) /\ DOMAIN draft = Operators

LEMMA DiffTypes ==
  ASSUME NEW s \in States, NEW t \in States
  PROVE  DiffAttributes(s, t) \in Modifications
<1> DEFINE S == {q \in Paths : s[q] # t[q]}
<1>1. DiffAttributes(s, t) \in [S -> Changes]
  BY DEF DiffAttributes, States, Changes
<1>2. S \in SUBSET Paths
  OBVIOUS
<1> QED
  BY <1>1, <1>2 DEF Modifications

LEMMA ApplyTypes ==
  ASSUME NEW s \in States, NEW m \in Modifications
  PROVE  ApplyAfter(s, m) \in States /\ DOMAIN m \subseteq Paths
BY DEF ApplyAfter, States, Modifications, Changes

LEMMA TypeInit == Init => RevertTypes
<1> SUFFICES ASSUME Init PROVE RevertTypes
  OBVIOUS
<1>1. Len(chain) = 0 /\ chain \in Seq(Proposals)
  BY DEF Init
<1>2. MaxChain \in Nat /\ MaxShips \in Nat /\ MaxDrifts \in Nat
  BY RevertAssumption
<1>3. NoRecord \in Records
  BY <1>2 DEF NoRecord, Records
<1>4. RevertTypeOK
  BY <1>1, <1>2, <1>3 DEF Init, RevertTypeOK, Disturbed
<1>5. FlightInv
  BY DEF Init, FlightInv, NoRecord
<1> QED
  BY <1>1, <1>4, <1>5 DEF RevertTypes, Init

(* An operator's next step, with or without a draft at its end.            *)
LEMMA OperatorTypes ==
  ASSUME RevertTypes, NEW o \in Operators, Drafting,
         step' \in [Operators -> {"idle", "read", "new", "drifted", "headed", "resolved"}],
         seen' \in [Operators -> States \cup {None}],
         head' \in [Operators -> 0 .. MaxChain],
         since' \in [Operators -> SUBSET Positions],
         \A q \in Operators : step'[q] # "idle" => seen'[q] # None,
         DOMAIN draft' = Operators,
         \A q \in Operators : draft'[q] \in {None, draft[q]} \cup Proposals
  PROVE  RevertTypes'
<1>1. UNCHANGED <<world, drifts, chain, rec, spc, cur, prior, ships, steady>>
  BY DEF Drafting, shipVars
<1>2. \A q \in Operators : draft'[q] = None \/ draft'[q] \in Proposals
  BY DEF RevertTypes, RevertTypeOK
<1> QED
  BY <1>1, <1>2 DEF RevertTypes, RevertTypeOK, FlightInv

LEMMA HoldTypes ==
  ASSUME RevertTypes, NEW o \in Operators, NEW from, NEW d \in Proposals, Hold(o, from, d)
  PROVE  RevertTypes'
<1>1. /\ step' \in [Operators -> {"idle", "read", "new", "drifted", "headed", "resolved"}]
      /\ seen' \in [Operators -> States \cup {None}]
      /\ \A q \in Operators : step'[q] # "idle" => seen'[q] # None
  BY DEF Hold, Goes, RevertTypes, RevertTypeOK
<1>2. /\ head' \in [Operators -> 0 .. MaxChain]
      /\ since' \in [Operators -> SUBSET Positions]
  BY RevertAssumption DEF Hold, RevertTypes, RevertTypeOK
<1>3. DOMAIN draft' = Operators /\ \A q \in Operators : draft'[q] = IF q = o THEN d ELSE draft[q]
  BY DEF Hold, RevertTypes
<1>4. Drafting
  BY DEF Hold
<1> QED
  BY <1>1, <1>2, <1>3, <1>4, OperatorTypes

LEMMA TypeStep ==
  ASSUME IInv, RevertTypes, [Next]_vars
  PROVE  RevertTypes'
<1> USE DEF RevertTypes
<1>0. /\ Fold \in States /\ chain \in Seq(Proposals)
      /\ MaxChain \in Nat /\ MaxShips \in Nat /\ MaxDrifts \in Nat
  BY FoldType, RevertAssumption DEF Fold
<1>01. Len(chain) \in 0 .. MaxChain /\ ShippedChanges \subseteq Positions
  BY <1>0 DEF RevertTypeOK, ShippedChanges, Shipped, Positions
<1>1. ASSUME NEW o \in Operators,
             \/ Scan(o) \/ Classify(o) \/ TakeHead(o) \/ Unchanged(o) \/ PlanModifies(o)
             \/ Discard(o)
      PROVE  RevertTypes'
  <2>1. Drafting
    BY <1>1 DEF Scan, Classify, TakeHead, Unchanged, PlanModifies, Discard
  <2>2. /\ step' \in [Operators -> {"idle", "read", "new", "drifted", "headed", "resolved"}]
        /\ seen' \in [Operators -> States \cup {None}]
        /\ \A q \in Operators : step'[q] # "idle" => seen'[q] # None
    <3>0. None \notin States /\ world \in States
      BY RevertAssumption DEF RevertTypeOK
    <3>1. CASE Scan(o)
      BY <3>0, <3>1 DEF Scan, Goes, RevertTypeOK
    <3>6. CASE PlanModifies(o)
      <4>1. /\ step' = [step EXCEPT ![o] = "resolved"]
            /\ seen' = [seen EXCEPT ![o] = Fold]
        BY <3>6 DEF PlanModifies, Goes
      <4> QED
        BY <1>0, <3>0, <4>1 DEF RevertTypeOK
    <3>2. CASE Classify(o)
      BY <3>0, <3>2 DEF Classify, Goes, RevertTypeOK
    <3>3. CASE TakeHead(o)
      BY <3>0, <3>3 DEF TakeHead, Goes, RevertTypeOK
    <3>4. CASE Unchanged(o)
      BY <3>0, <3>4 DEF Unchanged, Goes, RevertTypeOK
    <3>5. CASE Discard(o)
      BY <3>5 DEF Discard, RevertTypeOK
    <3> QED
      BY <1>1, <3>1, <3>2, <3>3, <3>4, <3>5, <3>6
  <2>3. head' \in [Operators -> 0 .. MaxChain] /\ since' \in [Operators -> SUBSET Positions]
    BY <1>0, <1>01, <1>1 DEF Scan, Classify, TakeHead, Unchanged, PlanModifies, Discard, RevertTypeOK
  <2>4. DOMAIN draft' = Operators /\ \A q \in Operators : draft'[q] \in {None, draft[q]}
    BY <1>1 DEF Scan, Classify, TakeHead, Unchanged, PlanModifies, Discard
  <2> QED
    BY <2>1, <2>2, <2>3, <2>4, OperatorTypes
<1>2. ASSUME NEW o \in Operators, NEW from, NEW kind \in Kinds, NEW mod \in Modifications,
             NEW basis \in SUBSET Positions, NEW parent \in 0 .. MaxChain, from # "idle",
             Hold(o, from, Proposal(kind, seen[o], mod, basis, parent))
      PROVE  RevertTypes'
  <2>1. seen[o] \in States
    BY <1>2 DEF Hold, Goes, RevertTypeOK
  <2>2. Proposal(kind, seen[o], mod, basis, parent) \in Proposals
    BY <2>1 DEF Proposal, Proposals
  <2> QED
    BY <1>2, <2>2, HoldTypes
<1>3. ASSUME NEW o \in Operators, Adoption(o) \/ DriftAdopt(o) \/ Revert(o) \/ Resolve(o)
      PROVE  RevertTypes'
  <2>1. seen[o] \in States /\ head[o] \in 0 .. MaxChain /\ since[o] \in SUBSET Positions
    BY <1>3 DEF Adoption, DriftAdopt, Revert, Resolve, Hold, Goes, RevertTypeOK
  <2>2. NoModification \in Modifications
    <3>1. NoModification \in [{} -> Changes]
      BY DEF NoModification
    <3> QED
      BY <3>1 DEF Modifications
  <2>3. CASE Adoption(o)
    BY <1>01, <1>2, <2>2, <2>3 DEF Adoption, Kinds
  <2>4. CASE DriftAdopt(o)
    BY <1>0, <1>01, <1>2, <2>1, <2>4, DiffTypes DEF DriftAdopt, Kinds
  <2>5. CASE Revert(o)
    BY <1>0, <1>01, <1>2, <2>1, <2>5, DiffTypes DEF Revert, Kinds
  <2>6. CASE Resolve(o)
    <3>1. PICK desired \in States :
            Hold(o, "resolved", Proposal("change", seen[o], DiffAttributes(seen[o], desired),
                                         since[o], Len(chain)))
      BY <2>6 DEF Resolve
    <3> QED
      BY <1>01, <1>2, <2>1, <3>1, DiffTypes DEF Kinds
  <2> QED
    BY <1>3, <2>3, <2>4, <2>5, <2>6
<1>4. ASSUME NEW o \in Operators, Accept(o)
      PROVE  RevertTypes'
  <2>1. draft[o] \in Proposals /\ draft[o].parent = Len(chain) /\ Len(chain) < MaxChain
    BY <1>4 DEF Accept, RevertTypeOK
  <2>2. /\ chain' \in Seq(Proposals) /\ Len(chain') = Len(chain) + 1 /\ Len(chain) \in Nat
        /\ \A i \in 1 .. Len(chain) : chain'[i] = chain[i]
        /\ chain'[Len(chain) + 1] = draft[o]
    BY <1>0, <1>4, <2>1 DEF Accept
  <2>3. ASSUME NEW i \in 1 .. Len(chain')
        PROVE  chain'[i] \in Proposals /\ chain'[i].parent = i - 1
    <3>1. CASE i \in 1 .. Len(chain)
      BY <2>2, <3>1 DEF RevertTypeOK
    <3>2. CASE i = Len(chain) + 1
      BY <2>1, <2>2, <3>2
    <3> QED
      BY <2>2, <3>1, <3>2
  <2>4. UNCHANGED <<world, drifts, step, seen, head, since, rec, spc, cur, prior, ships, steady>>
    BY <1>4 DEF Accept, shipVars
  <2>5. DOMAIN draft' = Operators /\ \A q \in Operators : draft'[q] = None \/ draft'[q] = draft[q]
    BY <1>4 DEF Accept
  <2>6. Len(chain') <= MaxChain
    BY <1>0, <2>1, <2>2
  <2> QED
    BY <2>2, <2>3, <2>4, <2>5, <2>6 DEF RevertTypeOK, FlightInv
(* Shipping leaves the ledger alone.                                       *)
<1>5. ASSUME UNCHANGED ledgerVars, world' \in States, drifts' \in 0 .. MaxDrifts,
             rec' \in [Positions -> Records],
             spc' \in {"idle", "begun", "fresh", "apply", "ok", "err", "reconcile"},
             cur' \in 0 .. MaxChain, ships' \in 0 .. MaxShips,
             prior' \in IF spc' \in {"apply", "ok", "err"} THEN States ELSE States \cup {None},
             steady' \in [Positions -> {"all", "targets", "none"}], FlightInv'
      PROVE  RevertTypes'
  BY <1>5 DEF RevertTypeOK, ledgerVars, operatorVars
<1>6. CASE Drift
  BY <1>0, <1>5, <1>6 DEF Drift, RevertTypeOK, FlightInv, Disturbed, shipVars
<1>7. ASSUME NEW i \in 1 .. Len(chain), BeginApply(i)
      PROVE  RevertTypes'
  <2>1. i \in Positions /\ i \in 0 .. MaxChain
    BY <1>0 DEF RevertTypeOK, Positions
  <2>2. ships' = ships + 1 /\ ships' \in 0 .. MaxShips /\ ships \in Nat
    BY <1>0, <1>7 DEF BeginApply, RevertTypeOK
  <2>3. \A j \in Positions : rec[j].flights \in Nat
    BY DEF RevertTypeOK, Records
  <2>4. FlightInv'
    BY <1>7, <2>1, <2>2, <2>3 DEF BeginApply, FlightInv
  <2>5. spc' \in {"begun", "reconcile"} /\ cur' = i
    BY <1>7 DEF BeginApply
  <2> QED
    BY <1>5, <1>7, <2>1, <2>2, <2>4, <2>5 DEF BeginApply, RevertTypeOK
<1>8. ASSUME spc # "idle"
      PROVE  cur \in Positions
  BY <1>0, <1>8 DEF IInv, ShipInv, Positions, RevertTypeOK
<1>9. ASSUME NEW state \in {"pending", "applied", "failed"} \cup Unresolved, spc # "idle",
             rec' = [rec EXCEPT ![cur].state = state]
      PROVE  /\ rec' \in [Positions -> Records]
             /\ \A j \in Positions : rec'[j].flights = rec[j].flights
  BY <1>8, <1>9 DEF RevertTypeOK, Records
<1>10. ASSUME NEW state \in {"pending", "applied", "failed", "still_unknown"},
              spc # "idle", Verdict(state), UNCHANGED <<world, drifts, ledgerVars>>,
              steady' \in [Positions -> {"all", "targets", "none"}]
       PROVE  RevertTypes'
  <2>1. /\ rec' \in [Positions -> Records]
        /\ \A j \in Positions : rec'[j].flights = rec[j].flights
    BY <1>9, <1>10 DEF Verdict, Unresolved
  <2>2. spc' = "idle" /\ cur' = 0 /\ prior' = None /\ ships' = ships
    BY <1>10 DEF Verdict, Ends
  <2>3. FlightInv'
    BY <2>1, <2>2 DEF FlightInv
  <2> QED
    BY <1>0, <1>5, <1>10, <2>1, <2>2, <2>3 DEF RevertTypeOK
<1>11. CASE Halt \/ Succeed \/ ConfirmFailed \/ Exhaust
  <2>1. PICK state \in {"pending", "applied", "failed", "still_unknown"} :
          spc # "idle" /\ Verdict(state)
    BY <1>11 DEF Halt, Succeed, ConfirmFailed, Exhaust
  <2> QED
    BY <1>10, <1>11, <2>1 DEF Halt, Succeed, ConfirmFailed, Exhaust, RevertTypeOK
<1>12. CASE ConfirmApplied
  <2>1. steady' \in [Positions -> {"all", "targets", "none"}]
    BY <1>12 DEF ConfirmApplied, RevertTypeOK
  <2> QED
    BY <1>10, <1>12, <2>1 DEF ConfirmApplied
<1>13. CASE VerifyFreshness
  BY <1>5, <1>13 DEF VerifyFreshness, RevertTypeOK, FlightInv
<1>14. CASE Fly
  <2>1. cur \in Positions
    BY <1>8, <1>14 DEF Fly
  <2>2. rec[cur].flights < ships /\ rec[cur] \in Records /\ ships \in 0 .. MaxShips
    BY <1>14, <2>1 DEF Fly, FlightInv, RevertTypeOK
  <2>3. \A j \in Positions :
          rec'[j] = IF j = cur THEN [state |-> "in_flight", flights |-> rec[cur].flights + 1]
                    ELSE rec[j]
    BY <1>14, <2>1, <2>2 DEF Fly, RevertTypeOK, Records
  <2>4. rec[cur].flights + 1 \in 0 .. MaxShips
    BY <1>0, <2>2 DEF Records
  <2>5. [state |-> "in_flight", flights |-> rec[cur].flights + 1] \in Records
    BY <2>4 DEF Records, Unresolved
  <2>6. rec' \in [Positions -> Records]
    <3>0. /\ rec \in [Positions -> Records]
          /\ \E g : rec' = [[rec EXCEPT ![cur].state = "in_flight"] EXCEPT ![cur].flights = g]
      BY <1>14 DEF Fly, RevertTypeOK
    <3>1. DOMAIN rec' = Positions /\ rec' = [j \in Positions |-> rec'[j]]
      BY <3>0
    <3> QED
      BY <2>3, <2>5, <3>1 DEF RevertTypeOK
  <2>7. FlightInv'
    <3>1. spc' = "apply" /\ ships' = ships
      BY <1>14 DEF Fly
    <3>2. rec[cur].flights + 1 <= ships
      BY <1>0, <2>2 DEF Records
    <3> QED
      BY <2>3, <3>1, <3>2 DEF FlightInv
  <2> QED
    BY <1>5, <1>14, <2>6, <2>7 DEF Fly, RevertTypeOK
<1>15. CASE ApplyResourceChange
  <2>1. Mod \in Modifications /\ prior \in States
    <3>1. cur \in 1 .. Len(chain)
      BY <1>15 DEF ApplyResourceChange, IInv, ShipInv
    <3>2. chain[cur] \in Proposals
      BY <3>1 DEF RevertTypeOK
    <3> QED
      BY <1>15, <3>2 DEF ApplyResourceChange, RevertTypeOK, Mod, Proposals
  <2>2. world' \in States
    BY <1>15, <2>1, ApplyTypes DEF ApplyResourceChange, RevertTypeOK
  <2>3. steady' \in [Positions -> {"all", "targets", "none"}]
    BY <1>8, <1>15 DEF ApplyResourceChange, RevertTypeOK, Disturbed
  <2>4. spc' \in {"ok", "err"} /\ UNCHANGED <<drifts, ledgerVars, rec, cur, prior, ships>>
    BY <1>15 DEF ApplyResourceChange
  <2> QED
    BY <1>5, <2>1, <2>2, <2>3, <2>4 DEF RevertTypeOK, FlightInv
<1>16. CASE Suspect
  <2>1. /\ rec' \in [Positions -> Records]
        /\ \A j \in Positions : rec'[j].flights = rec[j].flights
    BY <1>9, <1>16 DEF Suspect, Unresolved
  <2> QED
    BY <1>5, <1>16, <2>1 DEF Suspect, RevertTypeOK, FlightInv
<1>17. CASE Crash
  BY <1>0, <1>5, <1>17 DEF Crash, Ends, RevertTypeOK, FlightInv
<1>18. CASE UNCHANGED vars
  BY <1>18 DEF vars, ledgerVars, operatorVars, shipVars, RevertTypeOK, FlightInv
<1> QED
  BY <1>1, <1>2, <1>3, <1>4, <1>6, <1>7, <1>11, <1>12, <1>13, <1>14, <1>15, <1>16, <1>17, <1>18
     DEF Next, ShipStep

(* Every variable keeps its type: among them, the fold of the chain is a   *)
(* state of the resource, and a proposal flies no more often than it ships. *)
THEOREM RevertTypesCorrect == Spec => []RevertTypeOK
<1>1. IInv /\ RevertTypes /\ [Next]_vars => (IInv /\ RevertTypes)'
  BY NextInv, TypeStep
<1>2. RevertTypes => RevertTypeOK
  BY DEF RevertTypes
<1> QED
  BY <1>1, <1>2, InitInv, TypeInit, PTL DEF Spec

-----------------------------------------------------------------------------
(* What a proposal was drafted against, on the chain it is or will be on:  *)
(* the proposals before it and the changes shipped then, both of which no  *)
(* later step alters.                                                      *)
BeforeOf(c, d) == FoldState(SubSeq(c, 1, d.parent), d.basis)

Sound(d, before) ==
  /\ d.kind = "drift_adopt" => d.mod = DiffAttributes(before, d.observed)
  /\ d.kind = "drift_revert" => d.mod = DiffAttributes(d.observed, before)

Founded(c, counted, d) ==
  /\ d.parent <= Len(c)
  /\ d.basis \subseteq counted /\ d.basis \subseteq 1 .. d.parent
  /\ Sound(d, BeforeOf(c, d))

(* A draft that is not founded names a head the chain has gone beyond, and *)
(* is never accepted.                                                      *)
DraftInv ==
  /\ \A o \in Operators :
       /\ since[o] \subseteq ShippedChanges
       /\ step[o] = "headed" => head[o] <= Len(chain)
       /\ draft[o] # None =>
            Founded(chain, ShippedChanges, draft[o]) \/ draft[o].parent < Len(chain)
  /\ \A i \in 1 .. Len(chain) : Founded(chain, ShippedChanges, chain[i])

(* The chain only grows, and what is recorded applied stays so.            *)
LEMMA LedgerGrows ==
  ASSUME IInv, RevertTypes, [Next]_vars
  PROVE  /\ Len(chain) \in Nat /\ Len(chain') \in Nat /\ Len(chain) <= Len(chain')
         /\ \A i \in 1 .. Len(chain) : chain'[i] = chain[i]
         /\ \A i \in Positions : rec[i].state = "applied" => rec'[i].state = "applied"
         /\ ShippedChanges \subseteq ShippedChanges'
<1>0. chain \in Seq(Proposals) /\ Len(chain) \in Nat /\ Len(chain) <= MaxChain
  BY DEF RevertTypes, RevertTypeOK
<1>1. /\ Len(chain') \in Nat /\ Len(chain) <= Len(chain')
      /\ \A i \in 1 .. Len(chain) : chain'[i] = chain[i]
  <2>1. CASE UNCHANGED chain
    BY <1>0, <2>1
  <2>2. ASSUME NEW o \in Operators, Accept(o)
        PROVE  /\ Len(chain') \in Nat /\ Len(chain) <= Len(chain')
               /\ \A i \in 1 .. Len(chain) : chain'[i] = chain[i]
    <3>1. draft[o] \in Proposals
      BY <2>2 DEF Accept, RevertTypes, RevertTypeOK
    <3> QED
      BY <1>0, <2>2, <3>1 DEF Accept
  <2> QED
    BY <2>1, <2>2 DEF Next, Drift, Scan, Classify, TakeHead, Unchanged, Adoption, DriftAdopt, Revert,
       PlanModifies, Resolve, Hold, Drafting,
       Discard, BeginApply, ShipStep, Halt, VerifyFreshness, Fly, ApplyResourceChange, Succeed,
       Suspect, ConfirmApplied, ConfirmFailed, Exhaust, Crash, vars, ledgerVars
<1>2. UNCHANGED rec \/ \E r : rec' = [rec EXCEPT ![cur] = r] /\ spc # "idle"
  BY DEF Next, Drift, Scan, Classify, TakeHead, Unchanged, Adoption, DriftAdopt, Revert,
       PlanModifies, Resolve, Hold, Drafting,
     Accept, Discard, BeginApply, ShipStep, Halt, VerifyFreshness, Fly, ApplyResourceChange, Succeed,
     Suspect, ConfirmApplied, ConfirmFailed, Exhaust, Verdict, Crash, vars
<1>3. \A i \in Positions : rec[i].state = "applied" => rec'[i].state = "applied"
  <2>1. spc # "idle" => rec[cur].state # "applied"
    BY DEF IInv, ShipInv
  <2> QED
    BY <1>2, <2>1 DEF IInv, ShipTypes
<1>4. Positions \in SUBSET Nat /\ 1 .. Len(chain) \subseteq Positions
  BY <1>0, RevertAssumption DEF Positions
<1>5. ShippedChanges \subseteq ShippedChanges'
  <2> SUFFICES ASSUME NEW i \in 1 .. Len(chain), rec[i].state = "applied", chain[i].kind = "change"
               PROVE  i \in 1 .. Len(chain') /\ rec'[i].state = "applied" /\ chain'[i].kind = "change"
    BY DEF ShippedChanges, Shipped
  <2> QED
    BY <1>0, <1>1, <1>3, <1>4
<1> QED
  BY <1>0, <1>1, <1>3, <1>5

LEMMA PrefixFold ==
  ASSUME NEW S, NEW T, NEW c \in Seq(S), NEW d \in Seq(T), NEW k \in Nat,
         k <= Len(c), k <= Len(d), \A i \in 1 .. k : d[i] = c[i], NEW basis
  PROVE  FoldState(SubSeq(c, 1, k), basis) = FoldState(SubSeq(d, 1, k), basis)
<1> DEFINE x == SubSeq(c, 1, k)
           y == SubSeq(d, 1, k)
<1>1. /\ Len(x) = k /\ \A i \in 1 .. k : x[i] = c[i]
      /\ Len(y) = k /\ \A i \in 1 .. k : y[i] = d[i]
  OBVIOUS
<1> HIDE DEF x, y
<1>2. Agree(x, basis, y, basis, k)
  BY <1>1 DEF Agree
<1>3. FoldState(x, basis) = FoldState(y, basis)
  BY <1>1, <1>2, SameFold
<1> QED
  BY <1>3 DEF x, y

(* What was founded stays so as the chain grows and changes ship.          *)
LEMMA FoundedStays ==
  ASSUME NEW c \in Seq(Proposals), NEW e \in Seq(Proposals), Len(c) <= Len(e),
         \A i \in 1 .. Len(c) : e[i] = c[i],
         NEW counted, NEW more, counted \subseteq more,
         NEW d \in Proposals, Founded(c, counted, d)
  PROVE  Founded(e, more, d)
<1>1. d.parent \in Nat /\ d.parent <= Len(c) /\ Len(c) \in Nat /\ Len(e) \in Nat
  BY RevertAssumption DEF Proposals, Founded
<1>2. d.parent <= Len(e) /\ \A i \in 1 .. d.parent : e[i] = c[i]
  BY <1>1
<1>3. BeforeOf(e, d) = BeforeOf(c, d)
  BY <1>1, <1>2, PrefixFold DEF BeforeOf
<1> QED
  BY <1>2, <1>3 DEF Founded

(* A draft is computed from the fold of the whole chain, which is the one  *)
(* of the proposals before its place.                                      *)
LEMMA FoldIsBefore ==
  ASSUME RevertTypes
  PROVE  Fold = FoldState(SubSeq(chain, 1, Len(chain)), ShippedChanges)
<1> DEFINE x == SubSeq(chain, 1, Len(chain))
<1>1. chain \in Seq(Proposals) /\ Len(chain) \in Nat
  BY DEF RevertTypes
<1>2. Len(x) = Len(chain) /\ \A i \in 1 .. Len(chain) : x[i] = chain[i]
  BY <1>1
<1> HIDE DEF x
<1>3. Agree(chain, Shipped, x, ShippedChanges, Len(chain))
  BY <1>2 DEF Agree, ShippedChanges
<1>4. FoldState(chain, Shipped) = FoldState(x, ShippedChanges)
  BY <1>1, <1>2, <1>3, SameFold
<1> QED
  BY <1>4 DEF Fold, x

LEMMA HeldIsFounded ==
  ASSUME RevertTypes, NEW kind, NEW observed, NEW mod, NEW basis, NEW parent \in 0 .. Len(chain),
         basis \subseteq ShippedChanges,
         kind \in {"drift_adopt", "drift_revert"} => basis = ShippedChanges,
         kind = "drift_adopt" => mod = DiffAttributes(Fold, observed),
         kind = "drift_revert" => mod = DiffAttributes(observed, Fold)
  PROVE  LET d == Proposal(kind, observed, mod, basis, parent)
         IN Founded(chain, ShippedChanges, d) \/ d.parent < Len(chain)
<1> DEFINE d == Proposal(kind, observed, mod, basis, parent)
<1>1. /\ d.kind = kind /\ d.observed = observed /\ d.mod = mod
      /\ d.basis = basis /\ d.parent = parent
  BY DEF Proposal
<1>2. Len(chain) \in Nat
  BY DEF RevertTypes
<1> SUFFICES ASSUME parent = Len(chain)
             PROVE  Founded(chain, ShippedChanges, d)
  BY <1>1, <1>2
<1> HIDE DEF d
<1>3. kind \in {"drift_adopt", "drift_revert"} => BeforeOf(chain, d) = Fold
  BY <1>1, FoldIsBefore DEF BeforeOf
<1>4. ShippedChanges \subseteq 1 .. Len(chain)
  BY DEF ShippedChanges, Shipped
<1>5. Sound(d, BeforeOf(chain, d))
  BY <1>1, <1>3 DEF Sound
<1> QED
  BY <1>1, <1>2, <1>4, <1>5 DEF Founded

LEMMA DraftStep ==
  ASSUME IInv, RevertTypes, RevertTypes', DraftInv, [Next]_vars
  PROVE  DraftInv'
<1>0. /\ chain \in Seq(Proposals) /\ chain' \in Seq(Proposals)
      /\ Len(chain) \in Nat /\ Len(chain') \in Nat /\ Len(chain) <= Len(chain')
      /\ \A i \in 1 .. Len(chain) : chain'[i] = chain[i] /\ chain[i] \in Proposals
      /\ ShippedChanges \subseteq ShippedChanges'
      /\ \A o \in Operators : draft[o] # None => draft[o] \in Proposals
      /\ head \in [Operators -> 0 .. MaxChain] /\ MaxChain \in Nat
  BY LedgerGrows, RevertAssumption DEF RevertTypes, RevertTypeOK
<1>01. \A d \in Proposals : d.parent \in Nat
  BY RevertAssumption DEF Proposals
<1>1. ASSUME NEW d \in Proposals, Founded(chain, ShippedChanges, d)
      PROVE  Founded(chain', ShippedChanges', d)
  BY <1>0, <1>1, FoundedStays
<1>2. ASSUME NEW i \in 1 .. Len(chain)
      PROVE  Founded(chain', ShippedChanges', chain'[i])
  BY <1>0, <1>1 DEF DraftInv
<1>3. ASSUME NEW q \in Operators, draft[q] # None
      PROVE  Founded(chain', ShippedChanges', draft[q]) \/ draft[q].parent < Len(chain')
  BY <1>0, <1>01, <1>1, <1>3 DEF DraftInv
<1>4. ASSUME NEW q \in Operators
      PROVE  /\ since'[q] \subseteq ShippedChanges'
             /\ step'[q] = "headed" => head'[q] <= Len(chain')
  <2>1. /\ since[q] \subseteq ShippedChanges'
        /\ step[q] = "headed" => head[q] <= Len(chain')
    BY <1>0 DEF DraftInv
  <2>2. since'[q] \in {since[q], {}, ShippedChanges}
    BY DEF Next, Drift, Scan, Classify, TakeHead, Unchanged, Adoption, DriftAdopt, Revert,
       PlanModifies, Resolve, Hold, Drafting, Accept, Discard, BeginApply, ShipStep, Halt,
       VerifyFreshness, Fly, ApplyResourceChange, Succeed, Suspect, ConfirmApplied, ConfirmFailed,
       Exhaust, Crash, vars, ledgerVars, operatorVars, RevertTypes, RevertTypeOK
  <2>3. step'[q] = "headed" =>
          \/ step[q] = "headed" /\ head'[q] = head[q]
          \/ head'[q] = Len(chain)
    <3>0. step \in [Operators -> {"idle", "read", "new", "drifted", "headed", "resolved"}]
          /\ head \in [Operators -> 0 .. MaxChain]
      BY DEF RevertTypes, RevertTypeOK
    <3>1. CASE UNCHANGED <<step, head>>
      BY <3>1
    <3>2. ASSUME NEW o \in Operators, TakeHead(o)
          PROVE  step'[q] = "headed" =>
                   (step[q] = "headed" /\ head'[q] = head[q]) \/ head'[q] = Len(chain)
      BY <3>0, <3>2 DEF TakeHead, Goes
    <3>3. ASSUME NEW o \in Operators, UNCHANGED head,
                 \E t \in {"read", "new", "drifted", "resolved"} : step' = [step EXCEPT ![o] = t]
          PROVE  step'[q] = "headed" => step[q] = "headed" /\ head'[q] = head[q]
      BY <3>0, <3>3
    <3>4. ASSUME NEW o \in Operators, step' = [step EXCEPT ![o] = "idle"],
                 head' = [head EXCEPT ![o] = 0]
          PROVE  step'[q] = "headed" => step[q] = "headed" /\ head'[q] = head[q]
      BY <3>0, <3>4
    <3>5. ASSUME NEW o \in Operators, Scan(o) \/ Classify(o) \/ PlanModifies(o)
          PROVE  step'[q] = "headed" => step[q] = "headed" /\ head'[q] = head[q]
      BY <3>3, <3>5 DEF Scan, Classify, PlanModifies, Goes
    <3>6. ASSUME NEW o \in Operators,
                 Unchanged(o) \/ Adoption(o) \/ DriftAdopt(o) \/ Revert(o) \/ Resolve(o)
          PROVE  step'[q] = "headed" => step[q] = "headed" /\ head'[q] = head[q]
      BY <3>4, <3>6 DEF Unchanged, Adoption, DriftAdopt, Revert, Resolve, Hold, Goes
    <3>7. CASE ~ \E o \in Operators :
                   \/ TakeHead(o) \/ Scan(o) \/ Classify(o) \/ PlanModifies(o)
                   \/ Unchanged(o) \/ Adoption(o) \/ DriftAdopt(o) \/ Revert(o) \/ Resolve(o)
      BY <3>1, <3>7 DEF Next, Drift, Drafting, Accept, Discard, BeginApply, ShipStep, Halt,
         VerifyFreshness, Fly, ApplyResourceChange, Succeed, Suspect, ConfirmApplied, ConfirmFailed,
         Exhaust, Crash, vars, ledgerVars, operatorVars
    <3> QED
      BY <3>2, <3>5, <3>6, <3>7
  <2> QED
    BY <1>0, <2>1, <2>2, <2>3
<1>5. ASSUME UNCHANGED chain,
             \A q \in Operators :
               \/ draft'[q] \in {None, draft[q]}
               \/ Founded(chain', ShippedChanges', draft'[q])
               \/ draft'[q].parent < Len(chain')
      PROVE  DraftInv'
  BY <1>2, <1>3, <1>4, <1>5 DEF DraftInv
<1>6. ASSUME NEW o \in Operators, Accept(o)
      PROVE  DraftInv'
  <2>1. \A q \in Operators : draft'[q] \in {None, draft[q]}
    BY <1>6 DEF Accept, RevertTypes
  <2>2. /\ Len(chain') = Len(chain) + 1 /\ chain'[Len(chain) + 1] = draft[o]
        /\ draft[o] # None /\ draft[o].parent = Len(chain)
    BY <1>0, <1>6 DEF Accept
  <2>3. Founded(chain', ShippedChanges', draft[o])
    BY <1>0, <1>1, <2>2 DEF DraftInv
  <2>4. ASSUME NEW i \in 1 .. Len(chain')
        PROVE  Founded(chain', ShippedChanges', chain'[i])
    <3>1. CASE i \in 1 .. Len(chain)
      BY <1>2, <3>1
    <3>2. CASE i = Len(chain) + 1
      BY <2>2, <2>3, <3>2
    <3> QED
      BY <1>0, <2>2, <3>1, <3>2
  <2> QED
    BY <1>3, <1>4, <2>1, <2>4 DEF DraftInv
<1>7. ASSUME NEW o \in Operators, NEW from, NEW d, Hold(o, from, d),
             Founded(chain, ShippedChanges, d) \/ d.parent < Len(chain)
      PROVE  DraftInv'
  <2>1. UNCHANGED chain /\ ShippedChanges' = ShippedChanges
    BY <1>7 DEF Hold, Drafting, ShippedChanges, Shipped
  <2>2. Founded(chain', ShippedChanges', d) \/ d.parent < Len(chain')
    BY <1>7, <2>1
  <2>3. \A q \in Operators : draft'[q] = IF q = o THEN d ELSE draft[q]
    BY <1>7 DEF Hold, RevertTypes
  <2> QED
    BY <1>5, <2>1, <2>2, <2>3
<1>8. ASSUME NEW o \in Operators, Adoption(o) \/ DriftAdopt(o) \/ Revert(o) \/ Resolve(o)
      PROVE  DraftInv'
  <2>1. Len(chain) \in 0 .. Len(chain) /\ since[o] \subseteq ShippedChanges
    BY <1>0 DEF DraftInv
  <2>2. CASE Adoption(o)
    <3> DEFINE d == Proposal("adoption", seen[o], NoModification, ShippedChanges, Len(chain))
    <3>1. Hold(o, "new", d)
      BY <2>2 DEF Adoption
    <3>2. Founded(chain, ShippedChanges, d) \/ d.parent < Len(chain)
      BY <2>1, HeldIsFounded
    <3> HIDE DEF d
    <3> QED
      BY <1>7, <3>1, <3>2
  <2>3. CASE DriftAdopt(o)
    <3> DEFINE d == Proposal("drift_adopt", seen[o], DiffAttributes(Fold, seen[o]),
                             ShippedChanges, head[o])
    <3>1. Hold(o, "headed", d)
      BY <2>3 DEF DriftAdopt
    <3>2. head[o] \in 0 .. Len(chain)
      BY <1>0, <3>1 DEF Hold, Goes, DraftInv
    <3>3. Founded(chain, ShippedChanges, d) \/ d.parent < Len(chain)
      BY <3>2, HeldIsFounded
    <3> HIDE DEF d
    <3> QED
      BY <1>7, <3>1, <3>3
  <2>4. CASE Revert(o)
    <3> DEFINE d == Proposal("drift_revert", seen[o], DiffAttributes(seen[o], Fold),
                             ShippedChanges, head[o])
    <3>1. Hold(o, "headed", d)
      BY <2>4 DEF Revert
    <3>2. head[o] \in 0 .. Len(chain)
      BY <1>0, <3>1 DEF Hold, Goes, DraftInv
    <3>3. Founded(chain, ShippedChanges, d) \/ d.parent < Len(chain)
      BY <3>2, HeldIsFounded
    <3> HIDE DEF d
    <3> QED
      BY <1>7, <3>1, <3>3
  <2>5. CASE Resolve(o)
    <3>1. PICK desired \in States :
            Hold(o, "resolved", Proposal("change", seen[o], DiffAttributes(seen[o], desired),
                                         since[o], Len(chain)))
      BY <2>5 DEF Resolve
    <3> DEFINE d == Proposal("change", seen[o], DiffAttributes(seen[o], desired),
                             since[o], Len(chain))
    <3>2. Founded(chain, ShippedChanges, d) \/ d.parent < Len(chain)
      BY <2>1, HeldIsFounded
    <3>3. Hold(o, "resolved", d)
      BY <3>1
    <3> HIDE DEF d
    <3> QED
      BY <1>7, <3>2, <3>3
  <2> QED
    BY <1>8, <2>2, <2>3, <2>4, <2>5
<1>9. CASE ~ \E o \in Operators : Accept(o) \/ Adoption(o) \/ DriftAdopt(o) \/ Revert(o) \/ Resolve(o)
  <2>1. UNCHANGED chain /\ \A q \in Operators : draft'[q] \in {None, draft[q]}
    BY <1>9 DEF Next, Drift, Scan, Classify, TakeHead, Unchanged, PlanModifies, Drafting, Discard,
       BeginApply, ShipStep, Halt, VerifyFreshness, Fly, ApplyResourceChange, Succeed, Suspect,
       ConfirmApplied, ConfirmFailed, Exhaust, Crash, vars, ledgerVars, operatorVars, RevertTypes
  <2> QED
    BY <1>5, <2>1
<1> QED
  BY <1>6, <1>8, <1>9

RevertInv == IInv /\ RevertTypes /\ DraftInv

LEMMA RevertAlways == Spec => []RevertInv
<1>1. Init => RevertInv
  <2>1. Init => DraftInv
    BY DEF Init, DraftInv
  <2> QED
    BY <2>1, InitInv, TypeInit DEF RevertInv
<1>2. RevertInv /\ [Next]_vars => RevertInv'
  BY NextInv, TypeStep, DraftStep DEF RevertInv
<1> QED
  BY <1>1, <1>2, PTL DEF Spec

(* The changes a proposal was drafted on are those shipped: its fold is    *)
(* that of the proposals before it.                                        *)
LEMMA BeforeIsFold ==
  ASSUME RevertInv, NEW i \in 1 .. Len(chain),
         chain[i].basis = ShippedChanges \/ chain[i].basis = ShippedChanges \ {i}
  PROVE  BeforeOf(chain, chain[i]) = Before(i)
<1>0. chain \in Seq(Proposals) /\ Len(chain) \in Nat
  BY DEF RevertInv, RevertTypes
<1>1. chain[i].parent = i - 1 /\ i - 1 \in Nat /\ i - 1 <= Len(chain)
  BY <1>0 DEF RevertInv, RevertTypes, RevertTypeOK
<1> DEFINE c == SubSeq(chain, 1, i - 1)
<1>2. Len(c) = i - 1 /\ \A j \in 1 .. i - 1 : c[j] = chain[j] /\ j \in 1 .. Len(chain) /\ j # i
  BY <1>0, <1>1
<1>3. BeforeOf(chain, chain[i]) = FoldState(c, chain[i].basis)
  BY <1>1 DEF BeforeOf
<1> HIDE DEF c
<1>4. Agree(c, chain[i].basis, c, Shipped, Len(c))
  BY <1>2 DEF Agree, ShippedChanges
<1>5. FoldState(c, chain[i].basis) = FoldState(c, Shipped)
  BY <1>1, <1>2, <1>4, SameFold
<1> QED
  BY <1>3, <1>5 DEF Before, c

(* An accepted drift record's or revert's difference was taken against the *)
(* fold of exactly the proposals before it, unless a change has shipped    *)
(* since: its head was read before its fold, and the parent check lets     *)
(* nobody else's acceptance in between (Accept, GenerateProposal,          *)
(* GenerateRevertProposal).                                                *)
THEOREM DraftsAreFounded == Spec => []DraftedOnItsParent
<1>1. RevertInv => DraftedOnItsParent
  BY BeforeIsFold DEF DraftedOnItsParent, RevertInv, DraftInv, Founded, Sound
<1> QED
  BY <1>1, RevertAlways, PTL

-----------------------------------------------------------------------------
(* What the newest proposal's ship relies on: only reverts and changes     *)
(* ship, and while nobody else touches the resource it is what the         *)
(* proposal observed, what the ledger said before it, or what it makes.    *)
ShippableInv ==
  /\ \A i \in Positions : steady[i] # "none" => i \in 1 .. Len(chain)
  /\ \A i \in 1 .. Len(chain) :
       rec[i].state = "applied" \/ steady[i] # "none" => chain[i].kind \in Shippable
  /\ spc # "idle" => chain[cur].kind \in Shippable

PriorInv == spc = "apply" /\ steady[cur] = "all" => prior = world

(* No older change has shipped since the newest proposal was drafted, and  *)
(* if it is a change it was resolved on its parent.                        *)
Undisturbed ==
  LET i == Len(chain)
  IN  /\ i # 0 /\ steady[i] = "all" /\ chain[i].basis = ShippedChanges \ {i}
      /\ chain[i].kind = "change" => chain[i].observed = BeforeOf(chain, chain[i])

BaseInv ==
  LET last == chain[Len(chain)]
      before == BeforeOf(chain, last)
  IN  Undisturbed => world \in {last.observed, before, ApplyAfter(before, last.mod)}

CleanInv == ShippableInv /\ PriorInv /\ BaseInv

(* Applying a sound proposal's difference to what it observed, to what the *)
(* ledger said, or to its own result gives the same.                       *)
LEMMA SameResult ==
  ASSUME NEW before \in States, NEW d, d.observed \in States, d.mod \in Modifications,
         d.kind \in Shippable, Sound(d, before), d.kind = "change" => d.observed = before
  PROVE  /\ ApplyAfter(d.observed, d.mod) = ApplyAfter(before, d.mod)
         /\ ApplyAfter(ApplyAfter(before, d.mod), d.mod) = ApplyAfter(before, d.mod)
         /\ d.kind = "drift_revert" =>
              ApplyAfter(before, d.mod) = before /\ SetAfter(before, d.mod) = before
<1>1. CASE d.kind = "change"
  <2>1. d.observed = before
    BY <1>1
  <2> QED
    BY <1>1, <2>1 DEF ApplyAfter
<1>2. CASE d.kind = "drift_revert"
  <2>1. d.mod = DiffAttributes(d.observed, before)
    BY <1>2 DEF Sound
  <2>2. ApplyAfter(d.observed, d.mod) = before
    BY <2>1, DiffThenApply
  <2>3. \A p \in DOMAIN d.mod : d.mod[p].to = before[p]
    <3>1. \A p \in DOMAIN DiffAttributes(d.observed, before) :
            DiffAttributes(d.observed, before)[p].to = before[p]
      BY DEF DiffAttributes
    <3> QED
      BY <2>1, <3>1
  <2>4. ApplyAfter(before, d.mod) = [p \in Paths |-> before[p]]
    BY <2>3 DEF ApplyAfter
  <2>5. SetAfter(before, d.mod) = [p \in Paths |-> before[p]]
    BY <2>3 DEF SetAfter
  <2>6. before = [p \in Paths |-> before[p]]
    BY DEF States
  <2> QED
    BY <2>2, <2>4, <2>5, <2>6
<1> QED
  BY <1>1, <1>2 DEF Shippable

(* The fold of the whole chain, while no older change has shipped since    *)
(* its newest proposal was drafted.                                        *)
LEMMA FoldOfUndisturbed ==
  ASSUME RevertInv, NEW i, i = Len(chain), i # 0, chain[i].basis = ShippedChanges \ {i}
  PROVE  /\ Fold = FoldStep(BeforeOf(chain, chain[i]), chain[i], i \in Shipped)
         /\ BeforeOf(chain, chain[i]) \in States
         /\ Sound(chain[i], BeforeOf(chain, chain[i]))
         /\ chain[i] \in Proposals
<1> DEFINE x == SubSeq(chain, 1, i - 1)
<1>1. /\ chain \in Seq(Proposals) /\ Len(chain) \in Nat /\ i \in 1 .. Len(chain)
      /\ i - 1 \in Nat /\ i = (i - 1) + 1 /\ chain[i] \in Proposals
  BY DEF RevertInv, RevertTypes
<1>2. chain[i].parent = i - 1 /\ Sound(chain[i], BeforeOf(chain, chain[i]))
  BY <1>1 DEF RevertInv, RevertTypes, RevertTypeOK, DraftInv, Founded
<1>3. /\ Len(x) = i - 1 /\ x \in Seq(Proposals)
      /\ \A j \in 1 .. i - 1 : x[j] = chain[j] /\ j \in 1 .. Len(chain) /\ j # i
  BY <1>1
<1>4. BeforeOf(chain, chain[i]) = FoldState(x, chain[i].basis)
  BY <1>2 DEF BeforeOf
<1> HIDE DEF x
<1>5. Agree(chain, Shipped, x, chain[i].basis, Len(x))
  BY <1>1, <1>3 DEF Agree, ShippedChanges
<1>6. FoldState(chain, Shipped) = FoldStep(FoldState(x, chain[i].basis), chain[i], i \in Shipped)
  BY <1>1, <1>3, <1>5, FoldLast
<1>7. FoldState(x, chain[i].basis) \in States
  BY <1>3, FoldType
<1> QED
  BY <1>1, <1>2, <1>4, <1>6, <1>7 DEF Fold

LEMMA ShippableStep ==
  ASSUME RevertInv, RevertTypes', ShippableInv, [Next]_vars
  PROVE  ShippableInv'
<1>0. /\ Len(chain) \in Nat /\ Len(chain') \in Nat /\ Len(chain) <= Len(chain')
      /\ Len(chain) <= MaxChain /\ MaxChain \in Nat
      /\ \A i \in 1 .. Len(chain) : chain'[i] = chain[i] /\ i \in Positions
      /\ rec \in [Positions -> Records] /\ steady \in [Positions -> {"all", "targets", "none"}]
      /\ spc # "idle" => cur \in 1 .. Len(chain)
      /\ \A i \in Positions : rec[i].state = "applied" => i <= Len(chain)
  BY LedgerGrows, RevertAssumption
     DEF RevertInv, RevertTypes, RevertTypeOK, IInv, ShipInv, Positions
<1>1. ASSUME NEW o \in Operators, Accept(o)
      PROVE  ShippableInv'
  <2>1. UNCHANGED <<rec, spc, cur, steady>> /\ Len(chain') = Len(chain) + 1
    BY <1>0, <1>1 DEF Accept, shipVars, RevertInv, RevertTypes, RevertTypeOK
  <2>2. ASSUME NEW i \in 1 .. Len(chain'), rec[i].state = "applied" \/ steady[i] # "none"
        PROVE  chain'[i].kind \in Shippable
    <3>1. i \in Positions
      BY <1>0, <2>1 DEF Positions, RevertTypes, RevertTypeOK
    <3>2. i \in 1 .. Len(chain)
      BY <1>0, <2>2, <3>1 DEF ShippableInv, Positions
    <3> QED
      BY <1>0, <2>2, <3>2 DEF ShippableInv
  <2> QED
    BY <1>0, <2>1, <2>2 DEF ShippableInv
<1>2. ASSUME UNCHANGED chain,
             \A i \in Positions : rec'[i].state = "applied" =>
               rec[i].state = "applied" \/ (spc # "idle" /\ i = cur),
             \A i \in Positions : steady'[i] # "none" =>
               steady[i] # "none" \/ (spc # "idle" /\ i = cur),
             spc' # "idle" => cur' \in 1 .. Len(chain) /\ chain[cur'].kind \in Shippable
      PROVE  ShippableInv'
  BY <1>0, <1>2 DEF ShippableInv
<1>3. CASE ~ \E o \in Operators : Accept(o)
  <2>1. UNCHANGED chain
    BY <1>3 DEF Next, Drift, Scan, Classify, TakeHead, Unchanged, Adoption, DriftAdopt, Revert,
       PlanModifies, Resolve, Hold, Drafting,
       Discard, BeginApply, ShipStep, Halt, VerifyFreshness, Fly, ApplyResourceChange, Succeed,
       Suspect, ConfirmApplied, ConfirmFailed, Exhaust, Crash, vars, ledgerVars
  <2>2. UNCHANGED rec \/ \E r : rec' = [rec EXCEPT ![cur] = r] /\ spc # "idle"
    BY <1>3 DEF Next, Drift, Scan, Classify, TakeHead, Unchanged, Adoption, DriftAdopt, Revert,
       PlanModifies, Resolve, Hold, Drafting,
       Discard, BeginApply, ShipStep, Halt, VerifyFreshness, Fly, ApplyResourceChange, Succeed,
       Suspect, ConfirmApplied, ConfirmFailed, Exhaust, Verdict, Crash, vars
  <2>3. \/ UNCHANGED steady
        \/ steady' = Disturbed
        \/ \E x : steady' = [steady EXCEPT ![cur] = x] /\ spc # "idle"
        \/ \E x : steady' = [Disturbed EXCEPT ![cur] = x] /\ spc # "idle"
    BY <1>3 DEF Next, Drift, Scan, Classify, TakeHead, Unchanged, Adoption, DriftAdopt, Revert,
       PlanModifies, Resolve, Hold, Drafting,
       Discard, BeginApply, ShipStep, Halt, VerifyFreshness, Fly, ApplyResourceChange, Succeed,
       Suspect, ConfirmApplied, ConfirmFailed, Exhaust, Verdict, Crash, vars
  <2>4. \/ spc' = "idle"
        \/ spc # "idle" /\ UNCHANGED cur
        \/ cur' \in 1 .. Len(chain) /\ chain[cur'].kind \in Shippable
    BY <1>3 DEF Next, Drift, Scan, Classify, TakeHead, Unchanged, Adoption, DriftAdopt, Revert,
       PlanModifies, Resolve, Hold, Drafting,
       Discard, BeginApply, ShipStep, Halt, VerifyFreshness, Fly, ApplyResourceChange, Succeed,
       Suspect, ConfirmApplied, ConfirmFailed, Exhaust, Verdict, Ends, Crash, vars, shipVars
  <2>5. \A i \in Positions : rec'[i].state = "applied" =>
          rec[i].state = "applied" \/ (spc # "idle" /\ i = cur)
    BY <1>0, <2>2
  <2>6. \A i \in Positions : steady'[i] # "none" =>
          steady[i] # "none" \/ (spc # "idle" /\ i = cur)
    BY <1>0, <2>3 DEF Disturbed
  <2>7. spc' # "idle" => cur' \in 1 .. Len(chain) /\ chain[cur'].kind \in Shippable
    BY <1>0, <2>4 DEF ShippableInv
  <2> QED
    BY <1>2, <2>1, <2>5, <2>6, <2>7
<1> QED
  BY <1>1, <1>3

LEMMA PriorStep ==
  ASSUME RevertInv, PriorInv, [Next]_vars
  PROVE  PriorInv'
<1>1. CASE Drift
  <2>1. spc' # "idle" => cur' \in Positions
    BY <1>1, RevertAssumption
       DEF Drift, shipVars, RevertInv, RevertTypes, RevertTypeOK, IInv, ShipInv, Positions
  <2> QED
    BY <1>1, <2>1 DEF Drift, PriorInv, Disturbed
<1>2. CASE Fly
  BY <1>2 DEF Fly, PriorInv
<1>3. CASE ~Drift /\ ~Fly
  <2>1. spc' # "apply" \/ UNCHANGED <<spc, cur, prior, world, steady>>
    BY <1>3 DEF Next, Scan, Classify, TakeHead, Unchanged, Adoption, DriftAdopt, Revert,
       PlanModifies, Resolve, Hold, Drafting, Accept,
       Discard, BeginApply, ShipStep, Halt, VerifyFreshness, ApplyResourceChange, Succeed,
       Suspect, ConfirmApplied, ConfirmFailed, Exhaust, Verdict, Ends, Crash, vars, shipVars
  <2> QED
    BY <2>1 DEF PriorInv
<1> QED
  BY <1>1, <1>2, <1>3

LEMMA BaseStep ==
  ASSUME RevertInv, RevertTypes', CleanInv, [Next]_vars
  PROVE  BaseInv'
<1> DEFINE i == Len(chain)
           last == chain[i]
           before == BeforeOf(chain, last)
<1> SUFFICES ASSUME Undisturbed'
             PROVE  BaseInv'
  BY DEF BaseInv
<1>0. i \in Nat /\ i <= MaxChain /\ MaxChain \in Nat
  BY RevertAssumption DEF RevertInv, RevertTypes, RevertTypeOK
<1>1. UNCHANGED chain
  <2>1. ASSUME NEW o \in Operators, Accept(o)
        PROVE  FALSE
    <3>1. UNCHANGED steady /\ Len(chain') = i + 1 /\ i + 1 \in Positions
      BY <1>0, <2>1 DEF Accept, RevertInv, RevertTypes, RevertTypeOK, Positions
    <3>2. steady[i + 1] = "none"
      BY <1>0, <3>1 DEF CleanInv, ShippableInv
    <3> QED
      BY <3>1, <3>2 DEF Undisturbed
  <2> QED
    BY <2>1 DEF Next, Drift, Scan, Classify, TakeHead, Unchanged, Adoption, DriftAdopt, Revert,
       PlanModifies, Resolve, Hold, Drafting,
       Discard, BeginApply, ShipStep, Halt, VerifyFreshness, Fly, ApplyResourceChange, Succeed,
       Suspect, ConfirmApplied, ConfirmFailed, Exhaust, Crash, vars, ledgerVars
<1>2. /\ i # 0 /\ steady'[i] = "all" /\ last.basis = ShippedChanges' \ {i} /\ i \in Positions
      /\ last.kind = "change" => last.observed = before
  <2>1. /\ Len(chain') = i /\ chain'[i] = last
        /\ BeforeOf(chain', chain'[i]) = before
    BY <1>1 DEF BeforeOf
  <2>2. /\ Len(chain') # 0 /\ steady'[Len(chain')] = "all"
        /\ chain'[Len(chain')].basis = ShippedChanges' \ {Len(chain')}
        /\ chain'[Len(chain')].kind = "change" =>
             chain'[Len(chain')].observed = BeforeOf(chain', chain'[Len(chain')])
    BY DEF Undisturbed, BeforeOf
  <2> HIDE DEF before, last
  <2> QED
    BY <1>0, <2>1, <2>2 DEF Positions
<1>3. last.basis = ShippedChanges \ {i}
  <2>1. ShippedChanges \subseteq ShippedChanges'
    BY LedgerGrows DEF RevertInv
  <2>2. last.basis \subseteq ShippedChanges
    BY <1>0, <1>2 DEF RevertInv, DraftInv, Founded
  <2> QED
    BY <1>2, <2>1, <2>2
<1>4. /\ before \in States /\ Sound(last, before) /\ last \in Proposals
      /\ Fold = FoldStep(before, last, i \in Shipped)
  BY <1>2, <1>3, FoldOfUndisturbed
<1>5. last.observed \in States /\ last.mod \in Modifications
  BY <1>4 DEF Proposals
<1>6. last.kind \in Shippable
  <2>1. ShippableInv'
    BY ShippableStep DEF CleanInv
  <2> QED
    BY <1>0, <1>1, <1>2, <2>1 DEF ShippableInv
<1>7. /\ ApplyAfter(last.observed, last.mod) = ApplyAfter(before, last.mod)
      /\ ApplyAfter(ApplyAfter(before, last.mod), last.mod) = ApplyAfter(before, last.mod)
      /\ last.kind = "drift_revert" =>
           ApplyAfter(before, last.mod) = before /\ SetAfter(before, last.mod) = before
  BY <1>2, <1>4, <1>5, <1>6, SameResult
<1>8. steady[i] = "all" => world \in {last.observed, before, ApplyAfter(before, last.mod)}
  BY <1>2, <1>3 DEF CleanInv, BaseInv, Undisturbed
<1>9. ASSUME world' \in {last.observed, before, ApplyAfter(before, last.mod)}
      PROVE  BaseInv'
  <2> HIDE DEF i
  <2>1. world' \in {chain[i].observed, BeforeOf(chain, chain[i]), ApplyAfter(BeforeOf(chain, chain[i]), chain[i].mod)}
    BY <1>9
  <2>2. chain' = chain /\ Len(chain') = i
    BY <1>1 DEF i
  <2> QED
    BY <2>1, <2>2 DEF BaseInv
<1> HIDE DEF i, last, before
<1>10. CASE UNCHANGED world /\ steady[i] = "all"
  BY <1>8, <1>9, <1>10
<1>11. CASE VerifyFreshness /\ cur = i
  <2>1. world = last.observed \/ world = Fold
    BY <1>11 DEF VerifyFreshness, Fresh, last
  <2>2. i \notin Shipped
    BY <1>11 DEF VerifyFreshness, RevertInv, IInv, ShipInv, Shipped
  <2>3. Fold = before
    BY <1>4, <1>6, <1>7, <2>2 DEF FoldStep, Shippable
  <2>4. UNCHANGED world
    BY <1>11 DEF VerifyFreshness
  <2> QED
    BY <1>9, <2>1, <2>3, <2>4
<1>12. CASE ApplyResourceChange
  <2>1. CASE UNCHANGED <<world, steady>>
    BY <1>2, <1>10, <2>1
  <2>2. CASE world' = ApplyAfter(prior, Mod) /\ steady' = [Disturbed EXCEPT ![cur] = steady[cur]]
    <3>1. cur = i /\ steady[i] = "all"
      BY <1>2, <2>2 DEF Disturbed
    <3>2. prior = world /\ Mod = last.mod
      BY <1>12, <3>1 DEF ApplyResourceChange, CleanInv, PriorInv, Mod, last
    <3>3. world' = ApplyAfter(world, last.mod)
      BY <2>2, <3>2
    <3>4. CASE last.kind = "drift_revert"
      BY <1>7, <1>8, <1>9, <3>1, <3>3, <3>4
    <3>5. CASE last.kind # "drift_revert"
      BY <1>7, <1>8, <1>9, <3>1, <3>3, <3>5
    <3> QED
      BY <3>4, <3>5
  <2> QED
    BY <1>12, <2>1, <2>2 DEF ApplyResourceChange
<1>13. CASE Drift
  BY <1>2, <1>13 DEF Drift, Disturbed
<1>14. CASE ~Drift /\ ~ApplyResourceChange /\ ~(VerifyFreshness /\ cur = i)
  <2>1. UNCHANGED world
    BY <1>14 DEF Next, Scan, Classify, TakeHead, Unchanged, Adoption, DriftAdopt, Revert,
       PlanModifies, Resolve, Hold, Drafting, Accept,
       Discard, BeginApply, ShipStep, Halt, VerifyFreshness, Fly, Succeed,
       Suspect, ConfirmApplied, ConfirmFailed, Exhaust, Crash, vars
  <2>2. \/ UNCHANGED steady
        \/ steady' = [steady EXCEPT ![cur] = "all"] /\ cur # i
        \/ steady' = [steady EXCEPT ![cur] = IF @ = "none" THEN "targets" ELSE @]
    BY <1>14 DEF Next, Scan, Classify, TakeHead, Unchanged, Adoption, DriftAdopt, Revert,
       PlanModifies, Resolve, Hold, Drafting, Accept,
       Discard, BeginApply, ShipStep, Halt, VerifyFreshness, Fly, Succeed,
       Suspect, ConfirmApplied, ConfirmFailed, Exhaust, Crash, vars
  <2>3. steady[i] = "all"
    BY <1>2, <2>2 DEF RevertInv, RevertTypes, RevertTypeOK
  <2> QED
    BY <1>10, <2>1, <2>3
<1> QED
  BY <1>11, <1>12, <1>13, <1>14

LEMMA CleanAlways == Spec => [](RevertInv /\ CleanInv)
<1>1. Init => CleanInv
  <2> SUFFICES ASSUME Init PROVE CleanInv
    OBVIOUS
  <2>1. Len(chain) = 0 /\ spc = "idle" /\ steady = Disturbed
    BY DEF Init
  <2> QED
    BY <2>1 DEF CleanInv, ShippableInv, PriorInv, BaseInv, Undisturbed, Disturbed
<1>2. (RevertInv /\ CleanInv) /\ [Next]_vars /\ RevertInv' => CleanInv'
  BY ShippableStep, PriorStep, BaseStep DEF CleanInv, RevertInv
<1> QED
  BY <1>1, <1>2, RevertAlways, PTL DEF Spec

(* The newest proposal's ship leaves nothing for the next scan to find,    *)
(* when no older change has shipped since it was drafted and it is a       *)
(* revert, or a change that was resolved on its parent and removes no      *)
(* path, since the fold keeps those (GenerateRevertProposal,               *)
(* VerifyFreshness, foldStateOverChain).                                   *)
THEOREM ShipsLeaveNothing == Spec => []CleanAfterShip
<1>1. RevertInv /\ CleanInv => CleanAfterShip
  <2> DEFINE i == Len(chain)
             last == chain[i]
             before == BeforeOf(chain, last)
  <2> SUFFICES ASSUME RevertInv, CleanInv, i \in Shipped, steady[i] = "all",
                      last.basis = ShippedChanges \ {i},
                      last.kind = "change" =>
                        last.observed = Before(i) /\ \A p \in DOMAIN last.mod : last.mod[p].to # Absent
               PROVE  world = Fold
    BY DEF CleanAfterShip
  <2>0. i # 0 /\ i \in 1 .. Len(chain)
    BY DEF Shipped
  <2>1. /\ before \in States /\ Sound(last, before) /\ last \in Proposals
        /\ Fold = FoldStep(before, last, TRUE)
        /\ last.kind = "change" => last.observed = before
    BY <2>0, FoldOfUndisturbed, BeforeIsFold
  <2>2. last.kind \in Shippable /\ last.observed \in States /\ last.mod \in Modifications
    BY <2>0, <2>1 DEF CleanInv, ShippableInv, Proposals
  <2>3. /\ ApplyAfter(last.observed, last.mod) = ApplyAfter(before, last.mod)
        /\ ApplyAfter(ApplyAfter(before, last.mod), last.mod) = ApplyAfter(before, last.mod)
        /\ last.kind = "drift_revert" =>
             ApplyAfter(before, last.mod) = before /\ SetAfter(before, last.mod) = before
    BY <2>1, <2>2, SameResult
  <2>4. world \in {last.observed, before, ApplyAfter(before, last.mod)}
    BY <2>0, <2>1 DEF CleanInv, BaseInv, Undisturbed
  <2>5. \A p \in DOMAIN last.mod : world[p] = last.mod[p].to
    BY DEF RevertInv, IInv, RestoredIsReal
  <2> HIDE DEF i, last, before
  <2>6. world = ApplyAfter(world, last.mod)
    <3>1. world \in States
      BY DEF RevertInv, RevertTypes, RevertTypeOK
    <3>2. \A p \in Paths : ApplyAfter(world, last.mod)[p] = world[p]
      BY <2>5 DEF ApplyAfter
    <3> QED
      BY <3>1, <3>2 DEF ApplyAfter, States
  <2>7. world = ApplyAfter(before, last.mod)
    BY <2>3, <2>4, <2>6
  <2>8. SetAfter(before, last.mod) = ApplyAfter(before, last.mod)
    <3>1. CASE last.kind = "change"
      BY <3>1 DEF SetAfter, ApplyAfter
    <3>2. CASE last.kind = "drift_revert"
      BY <2>3, <3>2
    <3> QED
      BY <2>2, <3>1, <3>2 DEF Shippable
  <2>9. Fold = SetAfter(before, last.mod)
    BY <2>1, <2>2 DEF FoldStep, Shippable
  <2> QED
    BY <2>7, <2>8, <2>9
<1> QED
  BY <1>1, CleanAlways, PTL
=============================================================================
