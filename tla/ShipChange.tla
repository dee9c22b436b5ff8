----------------------------- MODULE ShipChange -----------------------------
(***************************************************************************)
(* The executor of a change proposal (core/executor/ship.go, shipChange    *)
(* and what it calls; recorder.go).  One invocation of ship folds the      *)
(* history of the proposal's earlier attempts, begins an attempt, and runs *)
(* one goroutine per resource as soon as the resources it depends on have  *)
(* applied.  Every goroutine updates its entry of one shared record, and   *)
(* whoever persists writes the whole record.  An invocation may die        *)
(* anywhere; the next one sees only what was persisted.                    *)
(*                                                                         *)
(* The provider performs a change, now or later, or it does not, whatever  *)
(* it answers.                                                             *)
(* How attempts get their numbers is the subject of ApplyRecords.          *)
(***************************************************************************)
EXTENDS Naturals, FiniteSets

CONSTANTS
  Ships,              \* invocations that may run at one time
  Nodes,              \* the resources of the proposal
  Kind,               \* Kind[n]: "create", "modify" or "destroy"
  Deps,               \* Deps[n]: the resources n must wait for
  MaxApplyAttempts,   \* maxApplyAttemptsPerResource
  MaxParallel,        \* maxParallelShipNodes
  MaxRetries,         \* retries of a create whose dependency is not visible yet
  MaxAttempts,        \* bound on the attempts of the proposal
  MaxDrifts,          \* bound on changes made behind ubx's back
  MaxLate             \* bound on the resources a call takes effect on late

ASSUME ShipAssumption ==
  /\ IsFiniteSet(Nodes)
  /\ Kind \in [Nodes -> {"create", "modify", "destroy"}]
  /\ Deps \in [Nodes -> SUBSET Nodes]
  /\ {MaxApplyAttempts, MaxParallel, MaxAttempts} \subseteq Nat \ {0}
  /\ {MaxRetries, MaxDrifts, MaxLate} \subseteq Nat

VARIABLES
  disk,      \* disk[a][n]: the entry of n in the persisted record of attempt a
  outcome,   \* outcome[a]: how attempt a was sealed
  world,     \* world[n]: what a read of the resource would show
  adopted,   \* adopted[n]: what later proposals of the chain record of n
  landed,    \* landed[n]: how often the provider performed n's change
  drifts,    \* out-of-band changes so far
  slow,      \* the resources a call of which takes effect after its answer
  due,       \* those it has not taken effect on yet
  spc,       \* spc[s]: where invocation s is
  att,       \* att[s]: its attempt
  hist,      \* hist[s][n]: what it folded from the earlier attempts
  mem,       \* mem[s][n]: the entry of n in the record it builds
  npc,       \* npc[s][n]: where its goroutine for n is
  tries,     \* tries[s][n]: retries made by that goroutine
  tally      \* tally[s]: the recorder's outcome counters

durableVars == <<disk, outcome>>
realVars == <<world, adopted, landed, drifts, slow, due>>
vars == <<durableVars, realVars, spc, att, hist, mem, npc, tries, tally>>

Attempts == 1 .. MaxAttempts
Unresolved == {"in_flight", "unknown_post_timeout", "still_unknown"}
States == {"none", "pending", "applied", "failed"} \cup Unresolved

(* flew: did the attempt record in_flight; saw: the last reconciliation    *)
(* outcome of a destroy that flew, "present" standing for present_matches. *)
Entries == [state: States, flew: BOOLEAN, saw: {"none", "present", "other"}]
NoEntry == [state |-> "none", flew |-> FALSE, saw |-> "none"]
Histories == [state: States, flights: 0 .. MaxAttempts,
              saw: {"none", "present", "other"}]
NoHistory == [state |-> "none", flights |-> 0, saw |-> "none"]

Outcomes == {"applied", "partially_applied", "failed"}
Idle == {"waiting", "seeded", "sent", "done"}
Working == {"begun", "apply", "ok", "err", "reconcile"}
Tallies == {"applied", "failed", "unknown"}

ShipTypeOK ==
  /\ disk \in [Attempts -> [Nodes -> Entries]]
  /\ outcome \in [Attempts -> {"none", "open"} \cup Outcomes]
  /\ {world, adopted} \subseteq [Nodes -> {"before", "after", "other"}]
  /\ landed \in [Nodes -> Nat]
  /\ drifts \in 0 .. MaxDrifts
  /\ slow \subseteq Nodes
  /\ due \subseteq slow
  /\ spc \in [Ships -> {"idle", "begin", "pass", "walk"}]
  /\ att \in [Ships -> Attempts]
  /\ hist \in [Ships -> [Nodes -> Histories]]
  /\ mem \in [Ships -> [Nodes -> Entries]]
  /\ npc \in [Ships -> [Nodes -> Idle \cup Working \cup {"running"}]]
  /\ tries \in [Ships -> [Nodes -> 0 .. MaxRetries]]
  /\ tally \in [Ships -> [Tallies -> Nat]]

Init ==
  /\ disk = [a \in Attempts |-> [n \in Nodes |-> NoEntry]]
  /\ outcome = [a \in Attempts |-> "none"]
  /\ world = [n \in Nodes |-> "before"]
  /\ adopted = [n \in Nodes |-> "before"]
  /\ landed = [n \in Nodes |-> 0]
  /\ drifts = 0
  /\ slow = {} /\ due = {}
  /\ spc = [s \in Ships |-> "idle"]
  /\ att = [s \in Ships |-> 1]
  /\ hist = [s \in Ships |-> [n \in Nodes |-> NoHistory]]
  /\ mem = [s \in Ships |-> [n \in Nodes |-> NoEntry]]
  /\ npc = [s \in Ships |-> [n \in Nodes |-> "waiting"]]
  /\ tries = [s \in Ships |-> [n \in Nodes |-> 0]]
  /\ tally = [s \in Ships |-> [t \in Tallies |-> 0]]

-----------------------------------------------------------------------------
(* foldResourceHistory: the last value recorded over all the attempts,     *)
(* sealed or not, and the number of attempts that issued a provider call.  *)
LastOf(n, field) ==
  LET on == {a \in Attempts : disk[a][n][field] # "none"} IN
    IF on = {} THEN "none"
    ELSE disk[CHOOSE a \in on : \A b \in on : b <= a][n][field]

(* Mutated: the attempts that died do not count.                           *)
Flights_sealed(n) ==
  Cardinality({a \in Attempts : disk[a][n].flew /\ outcome[a] \in Outcomes})

Flights(n) == Cardinality({a \in Attempts : disk[a][n].flew})

History(n) ==
  [state |-> LastOf(n, "state"), flights |-> Flights(n), saw |-> LastOf(n, "saw")]

Applied(n) == LastOf(n, "state") = "applied"

(* Mutated: a destroy, which has no provider result, is not seeded.        *)
Seed_resultOnly(s) ==
  {n \in Nodes : hist[s][n].state = "applied" /\ Kind[n] # "destroy"}

(* The nodes this invocation found applied, and those whose result it has. *)
Seed(s) == {n \in Nodes : hist[s][n].state = "applied"}

(* Mutated: a dependency that finished is taken for applied.               *)
HasResult_finished(s, n) == n \in Seed(s) \/ npc[s][n] \in {"sent", "done"}

HasResult(s, n) ==
  n \in Seed(s) \/ (npc[s][n] \in {"sent", "done"} /\ mem[s][n].state = "applied")

(* Mutated: seeded dependencies are waited for too.                        *)
Launchable_countsSeeded(s, n) ==
  /\ spc[s] = "walk"
  /\ npc[s][n] = "waiting"
  /\ \A d \in Deps[n] : npc[s][d] = "done"

(* No dependency is pending: each was seeded or its completion processed.  *)
(* A seeded node is launched too if it had a dependency to wait for.       *)
Launchable(s, n) ==
  /\ spc[s] = "walk"
  /\ npc[s][n] = "waiting" \/ (npc[s][n] = "seeded" /\ ~ Deps[n] \subseteq Seed(s))
  /\ \A d \in Deps[n] : d \in Seed(s) \/ npc[s][d] = "done"

Processed(s) == {n \in Nodes : npc[s][n] = "done"}
ToProcess(s) == Nodes \ Seed(s)

Goto(s, n, phase) == npc' = [npc EXCEPT ![s][n] = phase]

(* recorder: a transition in memory, one of the counters, and the write of *)
(* the whole record, the entries of the other goroutines included.         *)
Transition(s, n, state) == mem' = [mem EXCEPT ![s][n].state = state]
Persist(s) == disk' = [disk EXCEPT ![att[s]] = mem'[s]]
Tally(s, t) == tally' = [tally EXCEPT ![s][t] = @ + 1]

(* A goroutine records how its node ended and reports to the main loop.    *)
Finish(s, n, state, t) ==
  /\ Transition(s, n, state)
  /\ Tally(s, t)
  /\ Persist(s)
  /\ Goto(s, n, "sent")

MainStep(s, from, to) == spc[s] = from /\ spc' = [spc EXCEPT ![s] = to]

(* The memory of an invocation is gone when it ends.                       *)
Forget(s) ==
  /\ att' = [att EXCEPT ![s] = 1]
  /\ hist' = [hist EXCEPT ![s] = [n \in Nodes |-> NoHistory]]
  /\ mem' = [mem EXCEPT ![s] = [n \in Nodes |-> NoEntry]]
  /\ npc' = [npc EXCEPT ![s] = [n \in Nodes |-> "waiting"]]
  /\ tries' = [tries EXCEPT ![s] = [n \in Nodes |-> 0]]
  /\ tally' = [tally EXCEPT ![s] = [t \in Tallies |-> 0]]

-----------------------------------------------------------------------------
(* The main goroutine.  ErrAlreadyApplied when there is nothing to do.     *)
ReadHistory(s) ==
  /\ MainStep(s, "idle", "begin")
  /\ \E n \in Nodes : ~Applied(n)
  /\ \E a \in Attempts : outcome[a] = "none"
  /\ hist' = [hist EXCEPT ![s] = [n \in Nodes |-> History(n)]]
  /\ UNCHANGED <<durableVars, realVars, att, mem, npc, tries, tally>>

(* Mutated: an attempt that was not sealed is taken up again.              *)
BeginApply_shared(s) ==
  /\ MainStep(s, "begin", "pass")
  /\ \E a \in Attempts :
       /\ \A b \in Attempts : outcome[b] \in {"none", "open"} <=> b >= a
       /\ att' = [att EXCEPT ![s] = a]
       /\ outcome' = [outcome EXCEPT ![a] = "open"]
  /\ UNCHANGED <<disk, realVars, hist, mem, npc, tries, tally>>

BeginApply(s) ==
  /\ MainStep(s, "begin", "pass")
  /\ \E a \in Attempts :
       /\ \A b \in Attempts : outcome[b] = "none" <=> b >= a
       /\ att' = [att EXCEPT ![s] = a]
       /\ outcome' = [outcome EXCEPT ![a] = "open"]
  /\ UNCHANGED <<disk, realVars, hist, mem, npc, tries, tally>>

(* Every node applied in an earlier attempt is confirmed in this one.      *)
PassThrough(s) ==
  /\ MainStep(s, "pass", "walk")
  /\ mem' = [mem EXCEPT ![s] =
       [n \in Nodes |-> IF n \in Seed(s) THEN [NoEntry EXCEPT !.state = "applied"]
                        ELSE NoEntry]]
  /\ npc' = [npc EXCEPT ![s] =
       [n \in Nodes |-> IF n \in Seed(s) THEN "seeded" ELSE "waiting"]]
  /\ tally' = [tally EXCEPT ![s].applied = Cardinality(Seed(s))]
  /\ Persist(s)
  /\ UNCHANGED <<outcome, realVars, att, hist, tries>>

Launch(s, n) ==
  /\ Launchable(s, n)
  /\ \A d \in Deps[n] : HasResult(s, d)
  /\ Goto(s, n, "running")
  /\ UNCHANGED <<durableVars, realVars, spc, att, hist, mem, tries, tally>>

Blocked(s, n) ==
  /\ Launchable(s, n)
  /\ \E d \in Deps[n] : ~HasResult(s, d)
  /\ Finish(s, n, "pending", "failed")
  /\ UNCHANGED <<outcome, realVars, spc, att, hist, tries>>

(* A completion is received: the dependents of n have one less to wait for. *)
Complete(s, n) ==
  /\ spc[s] = "walk"
  /\ npc[s][n] = "sent"
  /\ Cardinality(Processed(s)) < Cardinality(ToProcess(s))
  /\ Goto(s, n, "done")
  /\ UNCHANGED <<durableVars, realVars, spc, att, hist, mem, tries, tally>>

(* Mutated: what is still unknown does not count against the outcome.      *)
Outcome_failuresOnly(t) ==
  CASE t.applied = 0 /\ t.failed > 0 -> "failed"
    [] t.applied > 0 /\ t.failed > 0 -> "partially_applied"
    [] OTHER -> "applied"

(* sealOutcome                                                             *)
Outcome(t) ==
  CASE t.applied = 0 /\ t.failed + t.unknown > 0 -> "failed"
    [] t.applied > 0 /\ t.failed + t.unknown > 0 -> "partially_applied"
    [] OTHER -> "applied"

Seal(s) ==
  /\ MainStep(s, "walk", "idle")
  /\ Cardinality(Processed(s)) = Cardinality(ToProcess(s))
  /\ \A n \in Nodes : npc[s][n] \in Idle /\ ~Launchable(s, n)
  /\ disk' = [disk EXCEPT ![att[s]] = mem[s]]
  /\ outcome' = [outcome EXCEPT ![att[s]] = Outcome(tally[s])]
  /\ Forget(s)
  /\ UNCHANGED realVars

(* The process dies, or an I/O error of the ledger aborts the walk.        *)
Crash(s) ==
  /\ spc[s] # "idle"
  /\ spc' = [spc EXCEPT ![s] = "idle"]
  /\ Forget(s)
  /\ UNCHANGED <<durableVars, realVars>>

-----------------------------------------------------------------------------
(* The goroutine of a node works while it holds one of MaxParallel slots.  *)
HasSlot(s) == Cardinality({m \in Nodes : npc[s][m] \in Working}) < MaxParallel

(* pool.Get fails: the provider cannot be launched.                        *)
Unavailable(s, n) ==
  /\ npc[s][n] = "running"
  /\ HasSlot(s)
  /\ Finish(s, n, "pending", "failed")
  /\ UNCHANGED <<outcome, realVars, spc, att, hist, tries>>

(* shipCreate, shipModifyNode, shipDestroyNode: pending in memory; an      *)
(* unresolved modify or destroy is reconciled before anything else (what   *)
(* that needs was there when the resource first flew).                     *)
Begin(s, n) ==
  /\ npc[s][n] = "running"
  /\ HasSlot(s)
  /\ Transition(s, n, "pending")
  /\ Goto(s, n, IF Kind[n] # "create" /\ hist[s][n].state \in Unresolved
                THEN "reconcile" ELSE "begun")
  /\ UNCHANGED <<durableVars, realVars, spc, att, hist, tries, tally>>

WithinBudget(s, n) == hist[s][n].flights < MaxApplyAttempts

AlreadyAbsent(s, n) ==
  /\ npc[s][n] = "begun" /\ Kind[n] = "destroy"
  /\ WithinBudget(s, n)
  /\ world[n] = "after"
  /\ mem' = [mem EXCEPT ![s][n].state = "applied", ![s][n].saw = "other"]
  /\ Tally(s, "applied")
  /\ Persist(s)
  /\ Goto(s, n, "sent")
  /\ UNCHANGED <<outcome, realVars, spc, att, hist, tries>>

(* Mutated: the observation is not verified again.                         *)
Fresh_unverified(n) == TRUE

(* FoldState: a later proposal's record wins over this one's modify, which *)
(* counts once it has shipped.                                             *)
Folded(n) ==
  IF adopted[n] = "before" /\ Applied(n) THEN "after" ELSE adopted[n]

(* What was signed is still what a read shows.  A create reads nothing; a  *)
(* modify also accepts what the chain records by now (VerifyFreshness); a  *)
(* destroy accepts the effect on it of the dependents destroyed before it  *)
(* (sameBatchDependentsDestroyed).                                         *)
Fresh(n) ==
  CASE Kind[n] = "create"  -> TRUE
    [] Kind[n] = "modify"  -> world[n] \in {"before", Folded(n)}
    [] Kind[n] = "destroy" -> world[n] = "before" \/ (world[n] = "other" /\ Deps[n] # {})

(* What the destroy's own read was logged as, if it got that far.          *)
Precheck(n) ==
  {"none"} \cup {saw \in {"present", "other"} :
                  /\ Kind[n] = "destroy"
                  /\ saw = "present" => Fresh(n)
                  /\ saw = "other" => ~Fresh(n) /\ world[n] = "other"}

(* Anything that stops the node before the provider is asked to change it: *)
(* the exhausted budget, a redacted value, a stale or drifted observation, *)
(* a value that cannot be substituted, a failed read, schema, configure or *)
(* plan call.                                                              *)
Halt(s, n) ==
  /\ npc[s][n] = "begun"
  /\ \E saw \in Precheck(n) : mem' = [mem EXCEPT ![s][n].state = "pending", ![s][n].saw = saw]
  /\ Tally(s, "failed")
  /\ Persist(s)
  /\ Goto(s, n, "sent")
  /\ UNCHANGED <<outcome, realVars, spc, att, hist, tries>>

(* Mutated: in_flight is left for a later persist.                         *)
Fly_unpersisted(s, n) ==
  /\ npc[s][n] = "begun"
  /\ WithinBudget(s, n)
  /\ Fresh(n)
  /\ mem' = [mem EXCEPT ![s][n] =
       [state |-> "in_flight", flew |-> TRUE,
        saw |-> IF Kind[n] = "destroy" THEN "present" ELSE "none"]]
  /\ Goto(s, n, "apply")
  /\ UNCHANGED <<durableVars, realVars, spc, att, hist, tries, tally>>

(* in_flight, persisted before the provider is called.                     *)
Fly(s, n) ==
  /\ npc[s][n] = "begun"
  /\ WithinBudget(s, n)
  /\ Fresh(n)
  /\ mem' = [mem EXCEPT ![s][n] =
       [state |-> "in_flight", flew |-> TRUE,
        saw |-> IF Kind[n] = "destroy" THEN "present" ELSE "none"]]
  /\ Persist(s)
  /\ Goto(s, n, "apply")
  /\ UNCHANGED <<outcome, realVars, spc, att, hist, tries, tally>>

(* ApplyResourceChange.  An error says nothing about reality, and nor does *)
(* the success of a destroy: it may have been performed, or be performed   *)
(* yet.                                                                    *)
ApplyResourceChange(s, n) ==
  /\ npc[s][n] = "apply"
  /\ \E answer \in {"ok", "err"}, effect \in {"now", "later", "never"} :
       /\ answer = "ok" /\ Kind[n] # "destroy" => effect = "now"
       /\ effect = "later" => n \notin slow /\ Cardinality(slow) < MaxLate
       /\ Goto(s, n, answer)
       /\ landed' = [landed EXCEPT ![n] = IF effect = "now" THEN @ + 1 ELSE @]
       /\ world' = [world EXCEPT ![n] = IF effect = "now" THEN "after" ELSE @]
       /\ slow' = IF effect = "later" THEN slow \cup {n} ELSE slow
       /\ due' = IF effect = "later" THEN due \cup {n} ELSE due
  /\ UNCHANGED <<durableVars, adopted, drifts, spc, att, hist, mem, tries, tally>>

(* A call the ship has its answer of takes effect, whatever the ship has   *)
(* read, recorded or asked for since.                                      *)
LandLate(n) ==
  /\ n \in due
  /\ due' = due \ {n}
  /\ landed' = [landed EXCEPT ![n] = @ + 1]
  /\ world' = [world EXCEPT ![n] = "after"]
  /\ UNCHANGED <<durableVars, adopted, drifts, slow, spc, att, hist, mem, npc, tries, tally>>

(* A create that says its shipped dependency does not exist is called      *)
(* again.                                                                  *)
RetryCreate(s, n) ==
  /\ npc[s][n] = "err" /\ Kind[n] = "create"
  /\ Deps[n] # {}
  /\ tries[s][n] < MaxRetries
  /\ tries' = [tries EXCEPT ![s][n] = @ + 1]
  /\ Goto(s, n, "apply")
  /\ UNCHANGED <<durableVars, realVars, spc, att, hist, mem, tally>>

(* Mutated: the success of a destroy is trusted too.                       *)
Succeed_trusting(s, n) ==
  /\ npc[s][n] = "ok"
  /\ Finish(s, n, "applied", "applied")
  /\ UNCHANGED <<outcome, realVars, spc, att, hist, tries>>

Succeed(s, n) ==
  /\ npc[s][n] = "ok" /\ Kind[n] # "destroy"
  /\ Finish(s, n, "applied", "applied")
  /\ UNCHANGED <<outcome, realVars, spc, att, hist, tries>>

(* Mutated: a state no reader of the record knows.                         *)
LeaveUnknown_raw(s, n) ==
  /\ npc[s][n] = "err" /\ Kind[n] = "create"
  /\ Finish(s, n, "err", "unknown")
  /\ UNCHANGED <<outcome, realVars, spc, att, hist, tries>>

(* A create has nothing to be looked up by.                                *)
LeaveUnknown(s, n) ==
  /\ npc[s][n] = "err" /\ Kind[n] = "create"
  /\ Finish(s, n, "unknown_post_timeout", "unknown")
  /\ UNCHANGED <<outcome, realVars, spc, att, hist, tries>>

(* A failed modify and any answer to a destroy are verified by reading.    *)
Suspect(s, n) ==
  /\ \/ npc[s][n] = "err" /\ Kind[n] # "create"
     \/ npc[s][n] = "ok" /\ Kind[n] = "destroy"
  /\ Transition(s, n, "unknown_post_timeout")
  /\ Persist(s)
  /\ Goto(s, n, "reconcile")
  /\ UNCHANGED <<outcome, realVars, spc, att, hist, tries, tally>>

(* priorPresentMatches: this attempt's own check, or the last outcome of   *)
(* the attempts before it.                                                 *)
Attributable(s, n) == mem[s][n].flew \/ hist[s][n].saw = "present"

(* A read that settles nothing is logged in memory.                        *)
Inconclusive(s, n) ==
  /\ npc[s][n] = "reconcile" /\ Kind[n] = "destroy"
  /\ mem' = [mem EXCEPT ![s][n].saw = "other"]
  /\ UNCHANGED <<durableVars, realVars, spc, att, hist, npc, tries, tally>>

(* How reconcileLoop and reconcileDestroyLoop end.                         *)
Verdict(s, n, state, t) ==
  /\ npc[s][n] = "reconcile"
  /\ mem' = [mem EXCEPT ![s][n].state = state,
                        ![s][n].saw = IF Kind[n] = "destroy" THEN "other" ELSE @]
  /\ Tally(s, t)
  /\ Persist(s)
  /\ Goto(s, n, "sent")
  /\ UNCHANGED <<outcome, realVars, spc, att, hist, tries>>

ConfirmApplied(s, n) ==
  /\ world[n] = "after"
  /\ Kind[n] = "destroy" => Attributable(s, n)
  /\ Verdict(s, n, "applied", "applied")

ConfirmFailed(s, n) ==
  /\ world[n] = "before" \/ (world[n] = "other" /\ Kind[n] = "destroy")
  /\ Verdict(s, n, "failed", "failed")

Exhaust(s, n) == Verdict(s, n, "still_unknown", "unknown")

(* Somebody changes a resource behind ubx's back, perhaps the way the      *)
(* proposal would.  Undoing what the proposal did is left out: what is     *)
(* recorded then is history, and a later proposal's concern.               *)
Drift(n) ==
  /\ Kind[n] # "create" /\ world[n] = "before"
  /\ drifts < MaxDrifts
  /\ drifts' = drifts + 1
  /\ \E seen \in {"after", "other"} : world' = [world EXCEPT ![n] = seen]
  /\ UNCHANGED <<durableVars, adopted, landed, slow, due, spc, att, hist, mem, npc, tries, tally>>

(* A scan reports that the resource differs from the fold, and somebody    *)
(* accepts the drift record it drafts.                                     *)
Adopt(n) ==
  /\ Kind[n] = "modify" /\ world[n] # Folded(n)
  /\ adopted' = [adopted EXCEPT ![n] = world[n]]
  /\ UNCHANGED <<durableVars, world, landed, drifts, slow, due, spc, att, hist, mem, npc,
                 tries, tally>>

-----------------------------------------------------------------------------
NodeStep(s, n) ==
  \/ Launch(s, n) \/ Blocked(s, n) \/ Complete(s, n)
  \/ Unavailable(s, n) \/ Begin(s, n) \/ Halt(s, n) \/ AlreadyAbsent(s, n)
  \/ Fly(s, n) \/ ApplyResourceChange(s, n) \/ RetryCreate(s, n)
  \/ Succeed(s, n) \/ LeaveUnknown(s, n) \/ Suspect(s, n)
  \/ ConfirmApplied(s, n) \/ ConfirmFailed(s, n) \/ Exhaust(s, n)

Next ==
  \/ \E s \in Ships :
       \/ ReadHistory(s) \/ BeginApply(s) \/ PassThrough(s) \/ Seal(s) \/ Crash(s)
       \/ \E n \in Nodes : NodeStep(s, n) \/ Inconclusive(s, n)
  \/ \E n \in Nodes : Drift(n) \/ Adopt(n) \/ LandLate(n)

(* Every goroutine keeps running, and the reads of a reconciliation are    *)
(* finitely many, so it ends.                                              *)
ShipFairness ==
  \A s \in Ships :
    /\ WF_vars(BeginApply(s)) /\ WF_vars(PassThrough(s)) /\ WF_vars(Seal(s))
    /\ \A n \in Nodes : WF_vars(NodeStep(s, n))

Spec == Init /\ [][Next]_vars
FairSpec == Spec /\ ShipFairness

-----------------------------------------------------------------------------
(* THE invariant of docs/executor.md: from the moment the provider may be  *)
(* called until the answer is recorded, in_flight is on disk in this very  *)
(* attempt, whatever the other goroutines persist meanwhile.               *)
InFlightIsDurable ==
  \A s \in Ships, n \in Nodes :
    npc[s][n] \in {"apply", "ok", "err"} => disk[att[s]][n].state = "in_flight"

(* A resource recorded applied really is what the proposal wanted, however *)
(* the record came about: the provider's answer, a read-back, an absence   *)
(* found, or the confirmation of an earlier attempt.                       *)
AppliedIsReal == \A n \in Nodes : Applied(n) => world[n] = "after"

(* Nothing is asked of the provider for a resource before everything it    *)
(* depends on is durably applied, in this attempt or an earlier one.       *)
DependenciesFirst ==
  \A s \in Ships, n \in Nodes :
    npc[s][n] \in Working => \A d \in Deps[n] : Applied(d)

(* A modify or a destroy is performed once, and once more only if an       *)
(* answered call was still to take effect, however often ship dies and is  *)
(* run again, even when what it knew of the resource has been masked: the  *)
(* freshness check stands between an old answer and a new call.  A modify  *)
(* whose effect was accepted as drift meanwhile is excepted: it is fresh   *)
(* against the fold, and repeating it changes nothing.                     *)
LandsOnce ==
  \A n \in Nodes :
    Kind[n] # "create" /\ adopted[n] # "after" =>
      landed[n] + (IF n \in due THEN 1 ELSE 0) <= 1 + (IF n \in slow THEN 1 ELSE 0)

(* A create is performed at most once per unit of the retry budget and     *)
(* retry of a call.                                                        *)
CreatesAreBudgeted ==
  \A n \in Nodes :
    Kind[n] = "create" => landed[n] <= MaxApplyAttempts * (1 + MaxRetries)

(* A resource once recorded applied stays so: no crash, retry or later     *)
(* attempt of the proposal takes it back or ships it again.                *)
AppliedIsFinal ==
  [][\A n \in Nodes :
       Applied(n) => /\ Applied(n)'
                     /\ \A s \in Ships : npc'[s][n] \notin Working]_vars

(* Every invocation comes to an end: no goroutine waits for ever for a     *)
(* dependency, a slot or the main loop, whatever failed, was blocked or    *)
(* was already applied.                                                    *)
ShipReturns == \A s \in Ships : spc[s] = "walk" ~> spc[s] = "idle"

(* What holds of several ships of one proposal at once too.  A resource    *)
(* reaches the provider only after everything it depends on was recorded   *)
(* applied by some attempt and is as the proposal wanted it.               *)
DependenciesLanded ==
  \A s \in Ships, n \in Nodes :
    npc[s][n] \in Working =>
      \A d \in Deps[n] :
        world[d] = "after" /\ \E a \in Attempts : disk[a][d].state = "applied"

RecordedApplied(n) == \E a \in Attempts : disk[a][n].state = "applied"

(* That a resource was applied is never lost from the records, though a    *)
(* ship that read its history too early writes "pending" over it in its    *)
(* own attempt.                                                            *)
AppliedIsKept ==
  [][\A n \in Nodes : RecordedApplied(n) => RecordedApplied(n)']_vars

(* The provider performs nothing an attempt did not put on record first:   *)
(* no more changes land than the in_flight entries allow for.              *)
LandingsAreRecorded ==
  \A n \in Nodes :
    landed[n] + (IF n \in due THEN 1 ELSE 0)
      <= Flights(n) * (IF Kind[n] = "create" THEN 1 + MaxRetries ELSE 1)

(* The seal of an invocation agrees with the entries it writes: "failed"   *)
(* means none is applied, "applied" that none ended otherwise.  Every      *)
(* resource has an entry if the ones found applied had their dependencies  *)
(* among them; other ships may have taken these back, and then a node that *)
(* is launched again counts twice and the walk may end early.              *)
SealsAreSound ==
  [][\A s \in Ships :
       spc[s] = "walk" /\ outcome[att[s]] = "open" /\ outcome'[att[s]] \in Outcomes =>
         LET sealed == {disk'[att[s]][n].state : n \in Nodes} IN
         /\ outcome'[att[s]] = "failed" => "applied" \notin sealed
         /\ outcome'[att[s]] = "applied" => sealed \subseteq {"applied", "none"}
         /\ (\A n \in Seed(s) : Deps[n] \subseteq Seed(s)) => "none" \notin sealed]_vars

=============================================================================
