---------------------------- MODULE DriftRevert ----------------------------
(***************************************************************************)
(* One managed resource from scan to ship: operators read it and draft     *)
(* adoptions, drift records, reverts and changes against the fold of the   *)
(* chain (core/scan.go, core/resolver), accept them (core/accept.go), and  *)
(* ship the reverts and changes (shipDriftRevert and shipModifyNode in     *)
(* core/executor/ship.go), while somebody changes the resource behind      *)
(* ubx's back.  Every read of the resource, of the fold and of the head is *)
(* a step of its own.                                                      *)
(*                                                                         *)
(* One ship runs at a time; overlapping ships, several resources and the   *)
(* records themselves are the subject of ShipChange and ApplyRecords.      *)
(***************************************************************************)
EXTENDS StateFold, FiniteSets

CONSTANTS
  Operators,          \* people or jobs that scan, resolve and accept
  None,               \* no observation, no draft
  MaxApplyAttempts,   \* maxApplyAttemptsPerResource
  MaxChain,           \* bound on the chain
  MaxShips,           \* bound on the attempts to ship
  MaxDrifts           \* bound on changes made behind ubx's back

ASSUME RevertAssumption ==
  /\ None \notin States
  /\ {MaxApplyAttempts, MaxChain, MaxShips} \subseteq Nat \ {0}
  /\ MaxDrifts \in Nat

VARIABLES
  world,    \* what a read of the resource shows
  drifts,   \* out-of-band changes so far
  chain,    \* the accepted proposals
  step,     \* step[o]: how far o's scan or resolve has come
  seen,     \* seen[o]: the state o has read, or resolves from
  head,     \* head[o]: the head o has read before it generates
  since,    \* history: the changes shipped when o read the fold it resolves from
  draft,    \* draft[o]: the proposal o holds, with the head it names
  rec,      \* rec[i]: the apply records of proposal i, folded
  spc,      \* where the running ship is
  cur,      \* the proposal it ships
  ships,    \* attempts so far
  prior,    \* the state it planned from
  steady    \* history: what of the resource nobody else has changed since i's
            \* last good read: "all", the "targets" of its own mod, or "none"

operatorVars == <<step, seen, head, since, draft>>
ledgerVars == <<chain, operatorVars>>
shipVars == <<spc, cur, prior, ships>>
vars == <<world, drifts, ledgerVars, rec, shipVars, steady>>

Positions == 1 .. MaxChain
Kinds == {"adoption", "drift_adopt", "drift_revert", "change"}
Shippable == {"drift_revert", "change"}
Unresolved == {"in_flight", "unknown_post_timeout", "still_unknown"}

(* basis is history: the changes that had shipped when it was drafted.     *)
Proposals == [kind: Kinds, observed: States, mod: Modifications,
              basis: SUBSET Positions, parent: 0 .. MaxChain]

(* state and flights: lastState and attemptsInFlight of the history.       *)
Records == [state: {"none", "pending", "applied", "failed"} \cup Unresolved,
            flights: 0 .. MaxShips]
NoRecord == [state |-> "none", flights |-> 0]

RevertTypeOK ==
  /\ world \in States
  /\ drifts \in 0 .. MaxDrifts
  /\ Len(chain) <= MaxChain
  /\ \A i \in 1 .. Len(chain) : chain[i] \in Proposals /\ chain[i].parent = i - 1
  /\ step \in [Operators -> {"idle", "read", "new", "drifted", "headed", "resolved"}]
  /\ seen \in [Operators -> States \cup {None}]
  /\ head \in [Operators -> 0 .. MaxChain]
  /\ since \in [Operators -> SUBSET Positions]
  /\ \A o \in Operators : step[o] # "idle" => seen[o] # None
  /\ \A o \in Operators : draft[o] = None \/ draft[o] \in Proposals
  /\ rec \in [Positions -> Records]
  /\ spc \in {"idle", "begun", "fresh", "apply", "ok", "err", "reconcile"}
  /\ cur \in 0 .. MaxChain
  /\ ships \in 0 .. MaxShips
  /\ prior \in IF spc \in {"apply", "ok", "err"} THEN States ELSE States \cup {None}
  /\ steady \in [Positions -> {"all", "targets", "none"}]

Disturbed == [i \in Positions |-> "none"]

Init ==
  /\ world \in States
  /\ drifts = 0
  /\ chain = <<>>
  /\ step = [o \in Operators |-> "idle"]
  /\ seen = [o \in Operators |-> None]
  /\ head = [o \in Operators |-> 0]
  /\ since = [o \in Operators |-> {}]
  /\ draft = [o \in Operators |-> None]
  /\ rec = [i \in Positions |-> NoRecord]
  /\ spc = "idle" /\ cur = 0 /\ prior = None /\ ships = 0
  /\ steady = Disturbed

Shipped == {i \in 1 .. Len(chain) : rec[i].state = "applied"}
ShippedChanges == {i \in Shipped : chain[i].kind = "change"}
Fold == FoldState(chain, Shipped)

-----------------------------------------------------------------------------
(* Somebody changes the resource.                                          *)
Drift ==
  /\ drifts < MaxDrifts
  /\ drifts' = drifts + 1
  /\ world' \in States \ {world}
  /\ steady' = Disturbed
  /\ UNCHANGED <<ledgerVars, rec, shipVars>>

(* What an operator does until there is a draft leaves all else alone.     *)
Drafting == UNCHANGED <<world, drifts, chain, rec, shipVars, steady>>

(* o goes from one step to the next, holding the state s.                  *)
Goes(o, from, to, s) ==
  /\ step[o] = from
  /\ step' = [step EXCEPT ![o] = to]
  /\ seen' = [seen EXCEPT ![o] = s]

Starts(o) == step[o] = "idle" /\ draft[o] = None /\ Len(chain) < MaxChain

(* RunScan's read of the resource.                                         *)
Scan(o) ==
  /\ Starts(o)
  /\ Goes(o, "idle", "read", world)
  /\ UNCHANGED <<head, since, draft>> /\ Drafting

(* Then its verdict, by the fold of this moment: not in the ledger yet, or *)
(* different from it.                                                      *)
Classify(o) ==
  /\ chain # <<>> => seen[o] # Fold
  /\ Goes(o, "read", IF chain = <<>> THEN "new" ELSE "drifted", seen[o])
  /\ UNCHANGED <<head, since, draft>> /\ Drafting

(* GenerateProposal and GenerateRevertProposal read the head of a drifted  *)
(* resource before they fold again.                                        *)
TakeHead(o) ==
  /\ Goes(o, "drifted", "headed", seen[o])
  /\ head' = [head EXCEPT ![o] = Len(chain)]
  /\ UNCHANGED <<since, draft>> /\ Drafting

(* RunScan, or the generation after it, finds no difference.               *)
Unchanged(o) ==
  /\ chain # <<>> /\ seen[o] = Fold
  /\ \E s \in {"read", "headed"} : Goes(o, s, "idle", None)
  /\ head' = [head EXCEPT ![o] = 0]
  /\ UNCHANGED <<since, draft>> /\ Drafting

Hold(o, from, d) ==
  /\ Goes(o, from, "idle", None)
  /\ head' = [head EXCEPT ![o] = 0]
  /\ since' = [since EXCEPT ![o] = {}]
  /\ draft' = [draft EXCEPT ![o] = d]
  /\ Drafting

Proposal(kind, observed, mod, basis, parent) ==
  [kind |-> kind, observed |-> observed, mod |-> mod, basis |-> basis, parent |-> parent]

(* GenerateProposal for a resource the scan found to be new, whatever the  *)
(* head is by now.                                                         *)
Adoption(o) ==
  Hold(o, "new", Proposal("adoption", seen[o], NoModification, ShippedChanges, Len(chain)))

(* GenerateProposal and GenerateRevertProposal for one that has drifted.   *)
DriftAdopt(o) ==
  /\ seen[o] # Fold
  /\ Hold(o, "headed", Proposal("drift_adopt", seen[o], DiffAttributes(Fold, seen[o]),
                                ShippedChanges, head[o]))

(* Mutated: the difference the wrong way round.                            *)
Revert_swapped(o) ==
  /\ seen[o] # Fold
  /\ Hold(o, "headed", Proposal("drift_revert", seen[o], DiffAttributes(Fold, seen[o]),
                                ShippedChanges, head[o]))

Revert(o) ==
  /\ seen[o] # Fold
  /\ Hold(o, "headed", Proposal("drift_revert", seen[o], DiffAttributes(seen[o], Fold),
                                ShippedChanges, head[o]))

(* planModifies folds the resource; the hash of that fold is the recorded  *)
(* observation.                                                            *)
PlanModifies(o) ==
  /\ Starts(o)
  /\ chain # <<>>
  /\ Goes(o, "idle", "resolved", Fold)
  /\ since' = [since EXCEPT ![o] = ShippedChanges]
  /\ UNCHANGED <<head, draft>> /\ Drafting

(* The resolver then reads the head: a modify towards a configuration, one *)
(* that asks for nothing new left out.                                     *)
Resolve(o) ==
  \E desired \in States \ {seen[o]} :
    Hold(o, "resolved", Proposal("change", seen[o], DiffAttributes(seen[o], desired),
                                 since[o], Len(chain)))

(* Mutated: the parent is not compared with the head.                      *)
Accept_anyParent(o) ==
  /\ draft[o] # None
  /\ Len(chain) < MaxChain
  /\ chain' = Append(chain, draft[o])
  /\ draft' = [draft EXCEPT ![o] = None]
  /\ UNCHANGED <<world, drifts, step, seen, head, since, rec, shipVars, steady>>

Accept(o) ==
  /\ draft[o] # None
  /\ draft[o].parent = Len(chain)
  /\ Len(chain) < MaxChain
  /\ chain' = Append(chain, draft[o])
  /\ draft' = [draft EXCEPT ![o] = None]
  /\ UNCHANGED <<world, drifts, step, seen, head, since, rec, shipVars, steady>>

(* ErrParentMismatch, a reverify that finds it stale, or nobody wants it.  *)
Discard(o) ==
  /\ draft[o] # None
  /\ draft' = [draft EXCEPT ![o] = None]
  /\ UNCHANGED <<step, seen, head, since>> /\ Drafting

-----------------------------------------------------------------------------
(* Ship.                                                                   *)
Mod == chain[cur].mod

Ends == spc' = "idle" /\ cur' = 0 /\ prior' = None /\ UNCHANGED ships

(* An attempt begins; what an earlier one left unresolved is reconciled    *)
(* first.                                                                  *)
BeginApply(i) ==
  /\ spc = "idle"
  /\ chain[i].kind \in Shippable
  /\ rec[i].state # "applied"
  /\ ships < MaxShips
  /\ ships' = ships + 1
  /\ spc' = IF rec[i].state \in Unresolved THEN "reconcile" ELSE "begun"
  /\ cur' = i
  /\ UNCHANGED <<world, drifts, ledgerVars, rec, prior, steady>>

(* The ship records how the resource ended, and seals the attempt.         *)
Verdict(state) ==
  /\ rec' = [rec EXCEPT ![cur].state = state]
  /\ Ends

(* The budget is exhausted, the observation stale, or a read fails.        *)
Halt ==
  /\ spc \in {"begun", "fresh"}
  /\ Verdict("pending")
  /\ UNCHANGED <<world, drifts, ledgerVars, steady>>

(* Mutated: whatever is read is good enough.                               *)
Fresh_unverified == TRUE

(* VerifyFreshness: the read shows what was recorded or, failing that,     *)
(* what the ledger says now.                                               *)
Fresh == world = chain[cur].observed \/ world = Fold

VerifyFreshness ==
  /\ spc = "begun"
  /\ rec[cur].flights < MaxApplyAttempts
  /\ Fresh
  /\ spc' = "fresh"
  /\ steady' = [steady EXCEPT ![cur] = "all"]
  /\ UNCHANGED <<world, drifts, ledgerVars, rec, cur, prior, ships>>

(* Read again, plan, and persist in_flight.                                *)
Fly ==
  /\ spc = "fresh"
  /\ prior' = world
  /\ rec' = [rec EXCEPT ![cur].state = "in_flight", ![cur].flights = @ + 1]
  /\ spc' = "apply"
  /\ UNCHANGED <<world, drifts, ledgerVars, cur, ships, steady>>

(* The whole planned state is asked for.  An error may have landed.        *)
ApplyResourceChange ==
  /\ spc = "apply"
  /\ \E answer \in {"ok", "err"}, performed \in BOOLEAN :
       /\ answer = "ok" => performed
       /\ spc' = answer
       /\ world' = IF performed THEN ApplyAfter(prior, Mod) ELSE world
       /\ steady' = IF performed THEN [Disturbed EXCEPT ![cur] = steady[cur]] ELSE steady
  /\ UNCHANGED <<drifts, ledgerVars, rec, cur, prior, ships>>

Succeed ==
  /\ spc = "ok"
  /\ Verdict("applied")
  /\ UNCHANGED <<world, drifts, ledgerVars, steady>>

Suspect ==
  /\ spc = "err"
  /\ rec' = [rec EXCEPT ![cur].state = "unknown_post_timeout"]
  /\ spc' = "reconcile"
  /\ UNCHANGED <<world, drifts, ledgerVars, cur, prior, ships, steady>>

(* reconcileLoop, by the read that decides it.                             *)
ConfirmApplied ==
  /\ spc = "reconcile"
  /\ MatchesRestoreTarget(world, Mod)
  /\ Verdict("applied")
  /\ steady' = [steady EXCEPT ![cur] = IF @ = "none" THEN "targets" ELSE @]
  /\ UNCHANGED <<world, drifts, ledgerVars>>

ConfirmFailed ==
  /\ spc = "reconcile"
  /\ ~MatchesRestoreTarget(world, Mod)
  /\ MatchesOriginalDrift(world, Mod)
  /\ Verdict("failed")
  /\ UNCHANGED <<world, drifts, ledgerVars, steady>>

(* No read was conclusive, or none succeeded.                              *)
Exhaust ==
  /\ spc = "reconcile"
  /\ Verdict("still_unknown")
  /\ UNCHANGED <<world, drifts, ledgerVars, steady>>

(* The process dies; what was persisted stays.                             *)
Crash ==
  /\ spc # "idle"
  /\ Ends
  /\ UNCHANGED <<world, drifts, ledgerVars, rec, steady>>

ShipStep ==
  \/ Halt \/ VerifyFreshness \/ Fly \/ ApplyResourceChange \/ Succeed
  \/ Suspect \/ ConfirmApplied \/ ConfirmFailed \/ Exhaust

Next ==
  \/ Drift
  \/ \E o \in Operators :
       \/ Scan(o) \/ Classify(o) \/ TakeHead(o) \/ Unchanged(o)
       \/ Adoption(o) \/ DriftAdopt(o) \/ Revert(o)
       \/ PlanModifies(o) \/ Resolve(o) \/ Accept(o) \/ Discard(o)
  \/ \E i \in 1 .. Len(chain) : BeginApply(i)
  \/ ShipStep
  \/ Crash

Spec == Init /\ [][Next]_vars

-----------------------------------------------------------------------------
(* A proposal the records call applied has its every target value on the   *)
(* resource, and nothing it was to remove, unless somebody else changed    *)
(* the resource after the read the ship relied on (shipDriftRevert,        *)
(* ApplyAfter, matchesRestoreTarget).                                      *)
RestoredIsReal ==
  \A i \in Shipped :
    steady[i] # "none" => \A p \in DOMAIN chain[i].mod : world[p] = chain[i].mod[p].to

(* The fold of the proposals before the i-th.                              *)
Before(i) == FoldState(SubSeq(chain, 1, i - 1), Shipped)

(* The newest proposal's ship leaves nothing for the next scan to find,    *)
(* when no older change has shipped since it was drafted and it is a       *)
(* revert, or a change that was resolved on its parent and removes no      *)
(* path, since the fold keeps those (GenerateRevertProposal,               *)
(* VerifyFreshness, foldStateOverChain).                                   *)
CleanAfterShip ==
  LET i == Len(chain)
      last == chain[i]
  IN (/\ i \in Shipped /\ steady[i] = "all"
      /\ last.basis = ShippedChanges \ {i}
      /\ last.kind = "change" =>
           last.observed = Before(i) /\ \A p \in DOMAIN last.mod : last.mod[p].to # Absent)
     => world = Fold

(* An accepted drift record's or revert's difference was taken against the *)
(* fold of exactly the proposals before it, unless a change has shipped    *)
(* since: its head was read before its fold, so the parent check lets      *)
(* nobody else's acceptance in between (Accept, GenerateProposal,          *)
(* GenerateRevertProposal).                                                *)
DraftedOnItsParent ==
  \A i \in 1 .. Len(chain) :
    chain[i].basis = ShippedChanges =>
      /\ chain[i].kind = "drift_adopt" =>
           chain[i].mod = DiffAttributes(Before(i), chain[i].observed)
      /\ chain[i].kind = "drift_revert" =>
           chain[i].mod = DiffAttributes(chain[i].observed, Before(i))

(* "[C]allers are expected to have read Head() themselves before           *)
(* resolving/authoring" (core/accept.go:28-29), which would make every     *)
(* accepted change one that was resolved against the fold of the proposals *)
(* before it, and every adoption one of a resource these did not know.     *)
ResolvedOnItsParent ==
  \A i \in 1 .. Len(chain) :
    /\ chain[i].kind = "adoption" => i = 1
    /\ chain[i].kind = "change" /\ chain[i].basis = ShippedChanges =>
         chain[i].observed = Before(i)

(* core/scan.go:711-714 says a freshness check still refuses a real        *)
(* difference as stale and never masks one.  A revert that passes although *)
(* the resource is not what it was drafted against must then have nothing  *)
(* left to undo.                                                           *)
NeverMasksStale ==
  [][(spc = "begun" /\ spc' = "fresh" /\ chain[cur].kind = "drift_revert"
        /\ world # chain[cur].observed)
      => ApplyAfter(world, Mod) = world]_vars
=============================================================================
