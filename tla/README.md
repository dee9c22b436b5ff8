# Ubiquex in TLA+

Ubiquex (`ubx`) manages infrastructure through an append-only ledger of
proposals. A proposal is resolved or scanned into a draft on the head of the
ledger, accepted (which appends it), and shipped (which asks providers to perform
it and records every step in apply records). A server does the same for pull
requests. This directory models the part of the program that keeps its promises
when processes race, die and lose answers, checks it with TLC on small instances,
and proves the central invariants with TLAPS for every instance.

## 1. The system

| Component | Code | State it keeps | Operations |
|---|---|---|---|
| Lock of the object-store ledger | `ledgerstore/store.go` `Lock` | one lock object with an expiry | acquire (create-only), inspect, reclaim, give up, release |
| Object-store ledger | `ledgerstore/store.go`, `core/ledger.go` `Append` | `proposals/<id>`, `heads/<parent>` edges, `head-hint` | `Head`, `ReadProposal`, `WriteProposalIfAbsent`, `AdvanceHead`, `Append` |
| Store garbage collection | `ledgerstore/gc.go`, `cli/storegc.go` | none | walk, list, re-list, delete |
| Git-directory ledger, salt | `core/gitledgerstore.go`, `core/salt.go` | files: objects, head, lock with a process id, salt | the same interface as the object store; `Salt` |
| Apply records | `core/apply.go`, `core/verify.go` | `applies/<proposal>/<attempt>` | `BeginApply`, `SaveApplyProgress`, `SealApply`, `verifyApplyChain` |
| Executor of changes | `core/executor/ship.go`, `recorder.go` | an apply record in memory, shared by goroutines | `shipChange`, `shipCreate`, `shipModifyNode`, `shipDestroyNode`, the reconcile loops |
| Executor of drift reverts | `ship.go` `shipDriftRevert` | one resource of such a record | verify freshness, read, revert, reconcile, seal |
| Scan, accept, state fold | `core/scan.go`, `accept.go`, `state.go` | none beyond the ledger | generate a proposal, verify freshness, fold the chain |
| Resolver | `core/resolver/` | none; reads the recorded `depends_on` | intent to delta: order, unchanged entries, destroys, orphan check |
| Server | `server/` | one clone per repository, comments on the platform | webhooks, drift watch loop, comments, approvals, `ubx` subprocesses |
| Provider client | `provider/` | plugin processes, schema cache | plugin protocol |
| Front ends, SDK, blueprints, writeback, discovery, audit, diagrams, conformance | their directories | none shared | transformation of data |

How they interact. The command line calls `core`; `core.Ledger` works on a
`LedgerStore`, of which there are two. `Append` and `BeginApply` run under the
store's lock, everything else without it: the saves and the seal of an apply
record, the drafting of proposals, the readers of the chain, and the whole of
`store gc`. The executor calls providers over a plugin protocol, one goroutine
per resource, and each goroutine persists the one record they share. Resolver and
scan read the chain and meet it again only when what they drafted is accepted.
The server runs `ubx` in a clone that all its goroutines share.

What is hard:

- a lock that is only a TTL: a holder may outlive it, a contender reclaims it by
  a read and an unconditional delete, a release deletes whatever is there;
- an append of two store writes (object, edge) with a crash in between, and a
  hint whose write may be lost;
- in a git directory, files that are truncated before they are filled, a lock
  file that gets its process id later, and readers that take no lock;
- a collector that deletes from a list made before;
- attempt numbers decided under a lock and used in unconditional overwrites;
- a provider call whose effect and whose answer are independent, which may take
  effect after it was reconciled, with a crash between any two steps, and a next
  attempt that knows only what was persisted;
- a dependency graph walked by goroutines, some of whose nodes were applied by
  an earlier attempt;
- a difference taken against one state of a resource and applied to another;
- destroys ordered along edges that other proposals recorded;
- webhook deliveries that come late, twice or out of order, and git commands of
  several handlers in one clone.

What makes each part correct:

- lock: nobody is inside with another until an acquisition outlives its TTL;
  every caller returns;
- ledger: the chain is sound at every moment and history never changes, whatever
  the lock does; an acknowledged append is on the chain;
- git directory: the same until a head write is torn, and no accepted object is
  ever unreadable; one salt;
- gc: only orphans that were shown, and found again, are deleted, and none that
  the chain held when they were computed again;
- apply records: a running attempt owns its record, sealed ones never change,
  parents are sealed earlier attempts;
- executor, however many ships of a proposal overlap: `in_flight` is durable
  before the provider is called; what is recorded applied is real and stays on
  record; dependencies were applied; a seal agrees with its entries; the provider
  performs no more than the `in_flight` entries allow for;
- executor, one ship at a time: what was applied is never taken up again;
  modifies and destroys land once and creates within their budget; the walk ends;
- scan to revert: the difference of a drift record or a revert was taken against
  the fold of exactly the chain it was accepted on; what a revert calls applied is
  there, and the next scan finds nothing;
- resolver: no circle in a proposal, nor in what proposals recorded;
- server: a command runs on the tree its event asked for, unless another
  handler's git command crossed its checkout; nothing accepted that was not
  reviewed.

## 2. The modules

### AppendOnlyLedger

The promise, without any store: a proposal is drafted on the genesis or on
another proposal (a batch chains its drafts on one another), and accepting it is
one atomic step that is possible only when its parent is the head. Both ledgers
are shown to implement it.

### BlobLock

`Store.Lock`. `lockObj` is the lock object. The code writes only an expiry into
it; the name of the process that created it is kept for the properties.
`ttl[w]` tells whether the expiry in the object `w` wrote has passed. The
actions are the branches of the loop: `Create` (the create-only write succeeds),
`Contend` (it does not), `InspectExpired` / `InspectLive` / `GiveUp` (what the
payload says, if it can be read), `Poll` and `GiveUp` (before and after the
deadline), `Reclaim` (the delete), `Release` (the deferred delete), `CreateFails`
(the write fails otherwise) and, from outside, `Abandon` (the process dies) and
`Expire`. Either delete may fail (`TryDeleteLock`): the code ignores its error. The
deadline is looked at in `wait` only, which the way through `reclaim` never meets.

### BlobLedger

`Ledger.Append` over the object store, one action per store operation, run by
several processes. A process is in one of the phases of `Append` (`pc`): `lock`,
`read`, `hint`, `walk`, then `write`, `advance`, `putHint`, and `unlock`. It
extends BlobLock, so its lock steps are those of that module. `StoreError` is a
failing store call of `Append`; at `putHint` it stands for an edge that was written
though the response was lost. `LockFails` is the one in `Lock`. `Crash` leaves the
lock object behind, and `Unlock` may. An id is a hash
over the parent too, so the parent of an id never changes, and a proposal can
only be drafted on what exists.

### StoreGC

`ubx store gc --yes` beside the appends of BlobLedger: the walk, the listing, the
same again, the deletes of what both lists hold. It takes no lock, and appends run
all the time. `settled` is history: the chain when the fresh walk ended.

### GitLedger

The same `Append` over `gitLedgerStore`, with `Ledger.Salt` and the lock-free
readers, one action per system call. Every write is two steps: `OpenProposal` and
`FillProposal`, `TruncateHead` and `RecordHead`, `CreateLock` and `WritePid`,
`CreateSalt` and `FillSalt`; a process may die (`Crash`) or fail (`WriteError`,
`TearHead`, `CloseFails`, `SaltError`) in between. A contender reads the pid and
probes it (`ReadPid`, `Stale`, `HolderRuns`, `LedgerLocked`), and never breaks the
lock itself; `OperatorRemovesLock` is the recovery the error text asks for, taken
when no process is in the lock. `Peek` and `ReadChain` are a reader's `ChainFrom`.
The mapping to AppendOnlyLedger takes the head to be what the writer read
while that writer has the file truncated (`ChainHead`).

### ApplyRecords

The attempts of one proposal. `BeginApply` takes the lock of BlobLock, lists the
attempts (`ListAttempts` decides number and parent) and creates the record; the
saves and the seal then overwrite it without a lock. The name of the writer in a
record is kept for the properties.

### ShipChange

`shipChange`. `disk` is what is persisted, `mem` the record in memory, `hist`
what was folded from earlier attempts, `world` what a read would show, `adopted`
what later proposals of the chain record of a resource, `landed` a count for the
properties. `spc` is the main goroutine, `npc` the goroutine of
each resource:

    waiting -> running -> begun -> apply -> ok | err -> (reconcile) -> sent -> done

`waiting` waits for dependencies; `running` for one of the slots; `begun` has
recorded pending and does the checks; `apply` has in_flight on disk and calls
the provider; `reconcile` reads back; `sent` has reported; `done` was received
by the main loop. `seeded` marks what an earlier attempt applied. Each persist
writes the entries of all goroutines, as recorder.go does.

A call is performed now, never, or later: after an error, or after the premature
success of a destroy, `due` holds the resource until `LandLate` performs the
change, which may be after the reconciliation read, after the seal, or during the
next attempt. `slow` remembers the resources this happened to, at most one
late effect each.

How attempts get numbers under races is the subject of ApplyRecords, so
`BeginApply` is one step here. Two simplifications stand for several branches:
`Halt` is every failure before the provider is called (with `Precheck`, what the
read of a destroy was logged as), and a resource whose `hist` is unresolved goes
to `reconcile` when its lookup data is there, which it is once it flew.
`Drift` is the world being changed by somebody else, and `Adopt` a drift record
accepted of it meanwhile: a modify's freshness check falls back to what the chain
says by now (`Folded`). Of `reconcileSameBatchEffects` and
`sameBatchDependentsDestroyed` only the latter is here, in `Fresh`. `Ships` are the
invocations that may run at one time; nothing in the code keeps two apart.

### StateFold and DriftRevert

StateFold has the pure functions: `DiffAttributes`, `ApplyAfter`, the fold of a
chain (`FoldState`, which sets and never deletes), and the two comparisons of
reconciliation, `MatchesRestoreTarget` and `MatchesOriginalDrift`. A state is a
function from dot-paths to values or `Absent`; values are neither null nor zero,
so normalization noise does not arise.

DriftRevert is one resource from scan to ship. Each read of the resource, of the
fold and of the head is a step of its own, in the order of the code. An operator
reads the resource (`Scan`) and compares it with the fold (`Classify`). A new one is
adopted on whatever the head is by then (`Adoption`); for one that has drifted the
head is read (`TakeHead`) and then the fold again, for a drift record or a revert
(`DriftAdopt`, `Revert`; `Unchanged` when nothing differs). `PlanModifies` folds the
resource and `Resolve` reads the head after it; a modify that asks for nothing is
left out. `Accept` appends a draft whose head is still the head; `Discard` is every
other way a draft ends. One ship at a time runs a revert or a change:
`BeginApply`, `VerifyFreshness`, `Fly` (which reads again), `ApplyResourceChange`,
and the verdicts of an answer or of `reconcileLoop`. `Drift` may happen between
any two of these. `steady`, `since` and `basis` are history, for the properties.

### Resolver

`live` is what `FoldState` finds, `recorded` the latest accepted `depends_on` of
each address, which is all `historicalReverseDependents` reads. `Resolve` takes
an intent (resources, data sources, destroys, which entries change nothing, and
who uses whom) through the checks of `resolveOnce` and `resolveDestroys` in their
order and drafts the proposal; `Accept` folds its edges into `recorded`; `Ship`
performs a part of it that contains what it depends on. A `$ref` and an explicit
`depends_on` are one use. Values, schemas, reads of data sources and cross-stack
pins can only refuse an intent, and an intent may be anything, so they are left
out. Data sources are taken to have addresses of their own.

### Server

Events of one repository on GitHub, GitLab or Bitbucket Server. `pending` are
deliveries on their way; `Deliver` acknowledges one and starts handler `h`, which
goes through `lookup`, `authorize`, `fetch`, `fetchRef`, `reset`, then `run` or
`accept`, then `find` and `write` (the comment). `tree` and `fetchHead` are the
clone, which all handlers share. `crossed` is history: the handlers between whose
fetch and command another handler's git command fell. `Refuse` is an approval
turned down, before the checkout or after it; `Fail` a failing call, which ends the
handler, but for one: on Bitbucket Server a failed listing of the comments counts
as no comment found (`ListingFails`). A `Crash` forgets the handlers and keeps the
clone. What `ubx plan`, `ship` and `scan` do is modelled elsewhere; here they are the
tree they ran on (`ran`), and whether the ledger takes an accepted proposal is the
ledger's business. Every push rewrites the proposal file, ShipOnMerge is on; who
may plan or ship, and which stack or proposal file is meant, are free choices.
Azure DevOps has GitLab's shape but for its comments, which fail as Bitbucket
Server's do; Bitbucket Cloud has GitLab's shape.

### MC modules and proofs

`MCBlobLedger`, `MCGitLedger`, `MCShipChange`, `MCDriftRevert`,
`MCResolver`, `MCServer` hold definitions for TLC: symmetry sets and small
dependency graphs. `*_proofs` are the subject of section 4.

## 3. The runs

Bounds are constants: `MaxExpiries` (acquisitions that outlive their TTL),
`MaxCrashes`, `MaxTorn`, `MaxAttempts`, `MaxSaves`, `MaxDrifts`, `MaxRetries`,
`MaxLate`, `MaxChain`, `MaxShips`, `MaxUses`, `MaxPushes`, `MaxEvents` (deliveries,
repeated ones included).

| Run | Question | Bounds |
|---|---|---|
| MCBlobLedger | the invariants of the object-store ledger, exclusion, refinement of AppendOnlyLedger | 2 processes, 2 proposals, 1 expiry, 1 crash |
| MCGitLedger | exclusion by a pid file, readable chain, readers, one salt, refinement until a torn head | 2 processes, 2 proposals, 1 crash, 1 torn head |
| ApplyRecords | ownership, sealed parents, own history, finality | 2 processes, 3 attempts, 1 expiry, 1 save |
| MCShipChange | one ship at a time: durability of in_flight, truth and finality of applied, dependency order | create, modify that needs it, destroy; 2 attempts, 1 drift and its adoption, 1 late effect |
| MCShipRetry | one ship at a time: budget, one landing, termination of the walk | modify and create that needs it; 3 attempts against a budget of 2, 1 drift and its adoption, 1 late effect |
| MCShipOverlap | two ships at any points of their walks: what was applied stays on record, dependencies had landed, seals agree, every landing has a flight on record | modify and create that needs it; 2 ships, 3 attempts |
| MCDriftRevert | is what a revert restored there, and does the next scan find nothing; was every accepted drift record and revert drafted on its parent | 2 operators, 2 paths, chain of 3, 2 ships, 1 drift |
| MCResolver | no circles, in a proposal and over all of them | 3 resources, 1 data source, 3 uses per intent, any number of proposals |
| MCServer | tree and approvals with late, reordered, repeated deliveries and a crash | 1 PR, 2 handlers, GitHub and Bitbucket Server, 2 pushes, 3 deliveries, 1 crash |

Two proposals compete for one position or build on one another; an interrupted
append needs one crash, an overtaken lock one expiry. Three attempts are the
least in which an attempt can be masked by a second and repeated by a third. The
nodes of MCShipChange include every kind of resource and one dependency;
MCShipRetry adds a create with a dependency, which alone is retried within an
attempt; two ships are the least that overlap, and a third attempt the least that
begins after both. A revert needs an adoption, a drift and itself, so a chain of three;
two paths are the least that tell one changed path from one that must stay.
A circle through two proposals needs three resources at most to show a longer
one. An approval, a push and the delivery that reports it are three events, and
two handlers are the least that cross one another's checkout.
Larger instances were also run without an error: MCServer with GitLab as the third
platform (an approval there names no commit, so two of its three properties say
nothing of it), `LandsOnce` and `AppliedIsReal` for two destroys, one
waiting for the other, over three attempts, MCResolver with four uses, and
StoreGC (types, `DeletesOnlyShownOrphans`, `Refines`) with two processes, two
proposals and a crash.

CHECK_DEADLOCK is off where the bounds let the system stop: attempts, events or
processes used up, and proposals that were accepted and never shipped.

Runs that end in a violation show where the code does something else than its
documentation or comments say:

| Run | What it shows |
|---|---|
| StoreGC | an append interrupted before its edge is resumed after gc has computed the orphans afresh: gc deletes the object of an accepted proposal. `cli/storegc.go:50-53` promises "never anything a chain still references"; `:58-60` that the set is "verified fresh immediately before each deletion", which happens once, before the first |
| MCShipOverlapFinal | two ships of one proposal: the second works from the history it read before it began its attempt, and takes up again what the first has applied. `docs/executor-adversarial.md:38` (row 8) says it skips what is applied. What holds all the same is the subject of MCShipOverlap |
| MCDriftRevertStale | a revert drafted against one drift passes the freshness check after the resource drifted again and that was adopted, and undoes what was adopted. `core/scan.go:711-713` says the fallback never masks a real difference |

### Known differences without a run

The models show more of the kind. Where a property is named it is defined in its
module, and a run of that module with the configuration described finds the
trace.

- `WinnerKeepsLock` (BlobLock, two processes, one expiry, LockSpec): of two
  callers that read one expired payload, the slower delete removes the lock the
  faster acquired. `ledgerstore/store.go:246-249` calls this safe. The ledger
  survives it (MCBlobLedger allows it), the apply records do not.
- `DuplicateIsAccepted` (MCBlobLedger, one process, two proposals): an
  append interrupted before the edge, and overtaken, is refused as a duplicate
  though never accepted. `core/ledger.go:155-158`.
- `AppendReturns` (MCBlobLedger, one proposal, FairSpec): the loop that reclaims an
  expired lock ignores a failing delete and meets neither the sleep nor the
  deadline, so while the store refuses deletes `Lock` never returns
  (`ledgerstore/store.go:273-276`), though the contract of the lock is to block "up to
  lockWaitTimeout" (`core/gitledgerstore.go:203-204`). It holds under
  FairStoreSpec, where such a delete succeeds in the end.
- `ChainVerifies` (ApplyRecords, two processes, no expiry): overlapping ships
  leave a parent link that `verify` reports as broken. `core/verify.go:177-183`.
- ShipChange: a create left unknown is called again without reconciliation, within
  its budget. `docs/executor.md:228,237`. A `still_unknown` destroy masked by a later
  `pending` is called again too, and then lands twice only if the freshness check
  lets it (`LandsOnce`).
- Two ships of one proposal also break `DependenciesFirst`, `LandsOnce`
  and `CreatesAreBudgeted` (MCShipOverlap with these): each of two ships counts and
  seeds from its own reading of the history.
- `ResolvedOnItsParent` (MCDriftRevert, two operators): the resolver folds first and
  reads the head it names last (`core/resolver/resolver.go:1598`, `1510`), and an
  adoption names a head read after the scan decided that the resource is new
  (`core/scan.go:238`, `549`); what is accepted in between passes the parent check.
  `core/accept.go:28-31` expects the head to have been read before.
- A sealed record can be overwritten after a lock expired under the process that
  was deciding an attempt number (`SealedIsFinal` therefore speaks of the time
  before any expiry). A lost compare-and-swap is returned as the store's own
  `ErrStoreHeadMoved`, which `core/ledgerstore.go:114` says Append translates.
- `SaltIsReal` (GitLedger): a reader of the salt between its creation and its
  filling gets an empty one, and so does everybody after a crash there.
  `core/salt.go:26-28`.
- `StaleWasLeft` (GitLedger): a lock is called stale by a contender that read the
  pid of a holder which then released it and exited, while the file is gone or
  another's. `core/gitledgerstore.go:181`.
- GitLedger besides: a head write torn after the truncation makes the ledger
  empty, and the next append starts a second chain; a reader at that moment sees
  an empty ledger; a crash before the pid is written leaves a lock that is
  `ErrLedgerLocked` for ever, not stale. Nothing is fsynced.
- `FoldState` never deletes a path that a modification only has in `before`,
  though `core/apply.go:598-600` calls `ApplyAfter` the same substitution; hence
  the exception in `CleanAfterShip`. `MatchesOriginalDrift` is never true of a
  modification that only adds paths, so such a failed call stays unknown.
- Resolver: `docs/resolver.md:685-693` speaks of "any depends_on entry in any
  accepted proposal", the code reads the latest: create A and B with B using A,
  modify B alone (still using A, which is outside the batch, so no edge), destroy
  A: nothing refuses it. An accepted modify that never ships erases the edge too.
- `Shippable` (MCResolver): a create that refers to a data source carries an edge to
  it, and ship refuses the proposal as dangling. `docs/schema.md:2170-2180` says such a
  reference works as one to a sibling resource. Without data sources it still
  fails: a destroy waits for a declared resource that was dropped as unchanged.
- `RunsOnOwnCheckout` (MCServer, two deliveries): of two events handled at once,
  one's command runs on the other's commit. `server/repo.go:216-219`; a goroutine per
  event at `server/webhook.go:51`, one clone, no lock. `UndisturbedCheckout` is what
  holds.
- `OneComment` (MCServer): two handlers both list the comments before either writes
  one; and with a single handler, on Bitbucket Server, a failed listing counts as no
  comment (`server/bitbucketserver_comment.go:40-43`; `azuredevops_comment.go:36-41`
  is alike). `server/comment.go:27-29` says exactly one of a kind is kept.
- Server besides: a delivery is acknowledged before it is handled, so
  one lost in a crash is not sent again as `server/webhook.go:43-48` expects. An
  acceptance
  written to a ledger tracked in git is undone by the next `reset --hard`. GitLab,
  Azure DevOps and Bitbucket Cloud approvals name no commit: the head accepted may
  be newer than the one reviewed (`ApprovedIsReviewed` excludes them).

### Fairness

ShipReturns is the one liveness property that is checked. ShipChange: weak fairness of
the main goroutine's steps and of each resource's
goroutine. `Inconclusive`, a reconciliation read that settles nothing, is not
fair: the reads of a loop are finitely many (`eventualConsistencyBackoffSchedule`),
so its end is; and a provider call is taken to return, with an answer or an error.
Nobody is obliged to call ship, to crash or to drift. BlobLedger defines a fairness
too, for the difference above: a running Append keeps executing, and a wait that
looks at its deadline again and again finds it passed (`store.go:279`); BlobLock's
`LockSpec` is the same for its callers. The other modules state safety only.

## 4. The proofs

For every number of processes, proposals, attempts, crashes, expiries, resources,
ships, intents, operators and handlers:

| Theorem | Says |
|---|---|
| ExclusionUntilExpiry, AppendExcludes | the lock alone, and under Append, excludes until an acquisition outlives its TTL |
| TypeCorrect | types of the ledger |
| ChainIsSound | every edge leads to a stored proposal drafted on its start |
| SingleHead, HintIsOnChain | one head; the hint is on the chain |
| AcknowledgedIsAccepted | an append that returned nil is on the chain |
| HistoryIsAppendOnly | no edge is ever rewritten |
| ImplementsLedger | BlobLedger implements AppendOnlyLedger |
| GCTypeCorrect, GCKeepsExclusion | types beside a collector; it leaves the lock's exclusion alone |
| GCDeletesShownOrphans | whatever overlaps what, a collector deletes only orphans it showed, and none the chain held when it computed them again |
| GCKeepsLedger, GCImplementsLedger | beside it and running appends, the links of the chain, its one head, its hint and every acknowledged append stay, and so does the refinement; what may be missing is an object |
| RecordTypesCorrect, AttemptsAreOwned, ParentsAreSealed, SealedRecordsAreFinal | types of the apply records; ownership, sealed parents and finality until an expiry |
| OwnAttemptsAreChained | until an expiry, one process' attempts follow one another in the parent chain |
| InFlightRecorded | in_flight is on disk in the attempt that may be calling the provider |
| AppliedIsWanted | what is recorded applied is as it was asked for |
| ShipTypesCorrect | types of the executor, the fold of the history among them |
| AppliedStaysOnRecord | what was recorded applied stays on record, though another ship writes over it in its own attempt |
| DependenciesWereApplied | nothing is worked on before what it depends on was recorded applied and is as wanted |
| SealsAgree | the outcome of a seal agrees with the entries it seals |
| LandingsStayRecorded | the provider performs no more than the in_flight entries on record allow for |
| AlwaysShipsInOrder | no proposal has a circle among its edges |
| AlwaysRecordedAcyclic | nor has what any sequence of accepted proposals recorded |
| GitTypesCorrect, PidFileExcludes | types of the git-directory ledger; whoever is inside `Lock` owns the file |
| AcceptedStaysReadable, ReadersAreSafe | what the head ever named is readable; a reader without the lock meets nothing half-written |
| AcknowledgedStaysAccepted, SaltsAgree | an append that returned nil is on the chain; one salt |
| GitImplementsLedger | GitLedger implements AppendOnlyLedger until a head write is torn |
| RestoredStaysReal | what is recorded applied is on the resource, unless somebody else changed it |
| RevertTypesCorrect | types of scan to ship, the fold among them |
| DraftsAreFounded | the difference of an accepted drift record or revert was taken against the fold of the proposals before it, unless a change has shipped since |
| ShipsLeaveNothing | the newest proposal's ship leaves nothing for the next scan, under the conditions of `CleanAfterShip` |
| DiffThenApply, RestoreIsRecognised, VerdictsExclude | substituting a difference gives the other state, reconciliation recognises it, and no read matches both states |
| ServerTypesCorrect | types of the server |
| OnlyReviewedIsAccepted | only approved proposals are accepted from reviews, with any number of handlers in the one clone |
| UncrossedRunsOnOwnCheckout | with any number of handlers, a command whose fetch and reset no other handler's git command crossed runs on a tree its event asked for |

Assumptions are those of the modules: the sentinels are not ids, processes,
events or commits, the bounds are naturals, and a proposal has finitely many
resources. No theorem assumes that processes, ships or handlers take turns; where a
property holds only until an expiry, a torn write or a crossed checkout, the
condition is part of it and refers to what happened. The invariants and their
strengthenings were checked with TLC before they were proved.

**Object-store ledger.** The inductive invariant is `IInv` of BlobLedger.
ChainSound alone is not inductive: a writer acts on a head it resolved several
steps before. What saves it is that nothing it read can become false, because
objects and edges are created once and never changed; `WriterInv` says so for
each phase of the writer: the position it holds is on the chain, the proposal's
parent is that position, the object exists. `EdgesLeaveChain` (only chain
positions have edges) is what makes the head unique. The lock appears nowhere in
the argument: it is an optimisation, as a TTL lock must be. Drafting leaves the
chain alone because no edge leads to an undrafted proposal (`DraftKeepsChain`).
The refinement maps `accepted` to the positions the edges reach and `head` to the
one without an edge; every step but the drafts and the successful `AdvanceHead`
is a stutter.

**Collector.** A delete removes objects, which the ledger's argument says never
happens. So `IInv` is in two parts: `ChainInv` needs no object to stay, and a
collector, which touches no edge, preserves it whatever it deletes; `ChainStored` and
`WriterStored` are about objects and hold without a collector only. The refinement
needs the first part alone. What a delete may hit follows from `settled`, the chain
when the fresh walk ended: it is what that walk met, so no doomed object is in it.
What is chained after that walk has no such protection, as the run StoreGC shows.

**Apply records.** Here it is the reverse: everything rests on the lock. `IInv` of
ApplyRecords_proofs says that a process between listing and creating holds the
lock, so that what it decided still holds when it acts (`NumberIsFree`), and that
a process after it owns its record (`RecordIsMine`), both until an expiry. For
OwnAttemptsAreChained, `OwnBehind` adds that what a process has sealed is behind
the attempt it is in and behind the parent it has chosen for it.

**Executor.** `in_flight` on disk is not inductive because every goroutine
writes the whole record: a persist for one resource rewrites the entries of all
the others. It holds because each resource that may be at the provider is
`in_flight` in memory too (`FlyingInMemory`), and because no two running
invocations share an attempt (`OwnAttempt`), which is what ApplyRecords proves of
BeginApply until an expiry. Every step of a goroutine is shown to be an instance
of one shape (`NodeEffect`), and that shape preserves the invariant. A late
effect touches neither record. `Vouched` carries AppliedIsWanted: whoever has
applied in a record, in memory, in its history or about to be written has seen it.

The other theorems about several ships start from what an attempt's record can
be. `BlankInv` says that an attempt not yet begun has a blank one, and `WalkInv`
what each goroutine's phase means for its entry in memory (`NodeInv`). `KeptInv`
adds, for AppliedStaysOnRecord, that whatever is applied in a record, in memory or
in a ship's history is applied in some attempt for good: `Firm(a, n)` says that
attempt `a` has it on record and that whoever still writes that record is done
with `n`. A ship begins a blank attempt of its own, so it overwrites nobody's.
DependenciesWereApplied joins this with AppliedIsWanted.
For SealsAgree, `CountInv` says that a counter is positive when some entry counts
for it; that no entry is missing when the main loop returns is a matter of
cardinality (`NothingMissing`). For LandingsStayRecorded, `GrantInv` gives every
running attempt that is at the provider the calls it may still make (`Tokens`): what
landed, is due, or may yet be called is at most flights times calls per flight,
and `Fly` puts the flight on record before it adds the tokens. The last of several
attempts is chosen by CHOOSE; that there is one follows from the least-number
principle of WellFoundedInduction, applied to a set and not to a predicate
(`Least`, `Latest`, `LastIsRecorded`).

DependenciesFirst, AppliedIsFinal, CreatesAreBudgeted and LandsOnce are about one
ship at a time; two overlapping ones break them (section 3). The code does nothing
to keep two apart, so these are model-checked for one ship and not proved.

**Resolver.** A set of nodes is circular when it contains a non-empty part
whose every node has an edge into it. `IInv` keeps that the recorded edges are
not circular and that the edges of a draft's creates and modifies stay among
them, but for data sources, which record nothing. Accepting replaces the edges of
the carried addresses by edges among them, so an old address may point to a new
one but never back: a circle would lie wholly among the new or wholly among the
old (`CircleInOnePart`). A proposal's destroys point to dependers, along recorded
edges turned around, and to creates and modifies, which never point to a destroy;
again a circle would be in one part (`ResolvedIsSound`).

**Git-directory ledger.** The lock matters again: `LockInv` of
GitLedger_proofs has the file owned by the process in the critical section, from
`CreateLock` on. Hence what the writer read of the head is still there when it
compares and when it writes (`WriterInv`), and the object it names was filled
before. `ChainInv` keeps that every accepted proposal's object is whole and
its parent accepted, which no torn head can undo, so readers are safe even when
the chain seems empty to them. The salt rests on the exclusive create alone.
The refinement needs that no accepted proposal was drafted on the head
(`HeadIsLast`), which holds until a head write is torn.

**Scan to ship.** RestoredStaysReal needs little: `AnswerInv` says that between the
answer and its record the targets are there unless the resource was changed,
`ShipInv` that the proposal being shipped is on the chain and not yet applied.

The others need the fold of a chain. `FoldDefined` gives its recursion equations
(the function StateFold chooses exists); `FoldType`, `SameFold` and `FoldLast`,
from them, its type, that it depends only on the proposals and on which changes
have shipped, and what the last proposal adds. The induction in each is over a
set of naturals (`AllNaturals`). `DraftInv` then keeps of every drift record and
revert, drafted or accepted, that its difference was taken against `BeforeOf`: the
proposals up to its parent, with the changes of its `basis`; or, while it is only a
draft, that its parent is no longer the head and it can never be accepted, for its
head was read before its fold. No later step alters
that fold, because the chain only grows and applied stays applied
(`LedgerGrows`). `BaseInv` says what the resource can be while nobody else
touches it and no older change ships: what the newest proposal observed, what the
ledger said before it, or what it makes of either, which is the same
(`SameResult`). When it is applied its targets are there, so it is the last.

**Server.** An event is genuine from its sending on (`Genuine`: heads only
grow, an approval precedes the event that reports it) and a handler's target is
what its event asks for (`Aimed`), whoever else is running. What is in the clone
is another matter: `Undisturbed` says that the tree and FETCH_HEAD are those of
a handler for as long as it is not in `crossed`, and every git command puts all
handlers it may disturb there (`Amid`).

Every invariant, action property and refinement of the passing runs is a theorem,
but for the four about one ship. Liveness, `ShipReturns`, is only model-checked: the
prover has neither it nor the ENABLED it speaks of. The violations of section 3 are
TLC's counterexamples and need no proof.

## 5. Not modelled, and the plan

The models abstract the content of proposals, resources and provider values, so
canonical encoding, hashing, redaction and rendering are outside. Front ends,
discovery, audit and reporting are outside because they share no state, and so
are the protocol client, generated code and the hosting API clients, which make
up much of the repository. Of the parts modelled, outside are: `VerifyChain`'s
walk over the proposals, lookups and observed hashes, the resolver's values,
schemas, data-source reads and cross-stack pins, the server's token caches,
allowlist and stack discovery, and the command line's own prompts.

Next, in this order:

1. Proofs: DependenciesFirst, AppliedIsFinal, LandsOnce and CreatesAreBudgeted as
   long as no two ships have overlapped, with the overlap as history.
2. reconcileSameBatchEffects in full; two resources in DriftRevert.
3. The retry of an unfinished ship in Resolver, whose destroys may by then be
   out of date.

The runs stay few: a new module brings one.
