----------------------------- MODULE BlobLedger -----------------------------
(***************************************************************************)
(* The proposal chain in an object store: Ledger.Append (core/ledger.go)   *)
(* over ledgerstore/store.go, run by several processes at once.            *)
(*                                                                         *)
(* The store keeps immutable proposal objects, one immutable edge object   *)
(* per chain position (heads/<parent> holds the child's id) and a          *)
(* best-effort head-hint.  Creating the edge is the compare-and-swap of    *)
(* the head.  Head() starts at the hint and follows edges until one is     *)
(* missing.  Append holds the TTL lock of BlobLock meanwhile, and every    *)
(* store operation below is a step of its own.                             *)
(*                                                                         *)
(* A proposal's id is the hash of content that includes its parent, so     *)
(* parent[p] never changes once p is drafted; p stands for the id.         *)
(***************************************************************************)
EXTENDS BlobLock

CONSTANTS
  Proposals,   \* proposal ids
  Genesis,     \* the empty head ""
  None,        \* no edge object; no parent yet
  MaxCrashes   \* bound on process crashes

ASSUME LedgerAssumption ==
  /\ Genesis \notin Proposals
  /\ None \notin Proposals \cup {Genesis}
  /\ MaxCrashes \in Nat

VARIABLES
  parent,    \* parent[p]: the position p was drafted on, None while undrafted
  objects,   \* proposals/: the ids whose object exists
  edge,      \* heads/: the child recorded after each position
  hint,      \* head-hint (Genesis while absent)
  pc,        \* pc[w]: where w is in Append
  prop,      \* prop[w]: the proposal w is appending
  found,     \* found[w]: ReadProposal found an object
  pos,       \* pos[w]: the head w resolved, or how far its walk got
  result,    \* result[w]: what w's last Append returned
  crashes    \* crashes so far

storeVars == <<objects, edge, hint>>
writerVars == <<pc, prop, found, pos, result>>
ledgerVars == <<parent, storeVars, writerVars, crashes>>
vars == <<lockVars, ledgerVars>>

Positions == Proposals \cup {Genesis}

Phases == {"idle", "lock", "read", "hint", "walk", "write", "advance",
           "putHint", "unlock"}
Results == {"none", "ok", "duplicate", "mismatch", "exists", "moved",
            "locked", "error"}

TypeOK ==
  /\ LockTypeOK
  /\ parent \in [Proposals -> Positions \cup {None}]
  /\ objects \subseteq Proposals
  /\ edge \in [Positions -> Proposals \cup {None}]
  /\ hint \in Positions
  /\ pc \in [Procs -> Phases]
  /\ prop \in [Procs -> Proposals \cup {None}]
  /\ found \in [Procs -> BOOLEAN]
  /\ pos \in [Procs -> Positions]
  /\ result \in [Procs -> Results]
  /\ crashes \in 0 .. MaxCrashes

Init ==
  /\ LockInit
  /\ parent = [p \in Proposals |-> None]
  /\ objects = {}
  /\ edge = [n \in Positions |-> None]
  /\ hint = Genesis
  /\ pc = [w \in Procs |-> "idle"]
  /\ prop = [w \in Procs |-> None]
  /\ found = [w \in Procs |-> FALSE]
  /\ pos = [w \in Procs |-> Genesis]
  /\ result = [w \in Procs |-> "none"]
  /\ crashes = 0

(* A position is on the chain when it is the genesis or its parent's edge  *)
(* leads to it.                                                            *)
OnChain(n) ==
  n = Genesis \/ (n \in Proposals /\ parent[n] \in Positions /\ edge[parent[n]] = n)

IsHead(n) == OnChain(n) /\ edge[n] = None

Head == CHOOSE n \in Positions : IsHead(n)

Accepted == {p \in Proposals : OnChain(p)}

Go(w, from, to) ==
  /\ pc[w] = from
  /\ pc' = [pc EXCEPT ![w] = to]

Return(w, from, r) ==
  /\ Go(w, from, "unlock")
  /\ result' = [result EXCEPT ![w] = r]

(* The locals of the call are gone when it ends.                           *)
Forget(w) ==
  /\ found' = [found EXCEPT ![w] = FALSE]
  /\ pos' = [pos EXCEPT ![w] = Genesis]

-----------------------------------------------------------------------------
(* A proposal is generated on a head read some time ago (scan, resolve,     *)
(* plan), or on the draft before it in a batch (scan --all), accepted or    *)
(* not.  Its own acceptance may come much later.                            *)
Drafted(n) == n = Genesis \/ (n \in Proposals /\ parent[n] # None)

Draft(p) ==
  /\ parent[p] = None
  /\ \E n \in Positions :
       /\ Drafted(n)
       /\ parent' = [parent EXCEPT ![p] = n]
  /\ UNCHANGED <<lockVars, storeVars, writerVars, crashes>>

(* Append(p) is called, for the first time or again.                       *)
Start(w, p) ==
  /\ Go(w, "idle", "lock")
  /\ parent[p] # None
  /\ Request(w)
  /\ prop' = [prop EXCEPT ![w] = p]
  /\ result' = [result EXCEPT ![w] = "none"]
  /\ UNCHANGED <<parent, storeVars, found, pos, crashes>>

(* Store.Lock at work, and what it returns.                                *)
Locking(w) ==
  /\ pc[w] = "lock"
  /\ Contend(w) \/ InspectExpired(w) \/ InspectLive(w) \/ Poll(w) \/ Reclaim(w)
  /\ UNCHANGED ledgerVars

Locked(w) ==
  /\ Go(w, "lock", "read")
  /\ Create(w)
  /\ UNCHANGED <<parent, storeVars, prop, found, pos, result, crashes>>

LedgerLocked(w) ==
  /\ Go(w, "lock", "idle")
  /\ GiveUp(w)
  /\ result' = [result EXCEPT ![w] = "locked"]
  /\ UNCHANGED <<parent, storeVars, prop, found, pos, crashes>>

(* Any other error of Lock: Append returns it, and has nothing to release. *)
LockFails(w) ==
  /\ Go(w, "lock", "idle")
  /\ CreateFails(w)
  /\ result' = [result EXCEPT ![w] = "error"]
  /\ UNCHANGED <<parent, storeVars, prop, found, pos, crashes>>

ReadProposal(w) ==
  /\ Go(w, "read", "hint")
  /\ found' = [found EXCEPT ![w] = prop[w] \in objects]
  /\ UNCHANGED <<lockVars, parent, storeVars, prop, pos, result, crashes>>

(* Head(): the hint, then one edge at a time.                              *)
ReadHint(w) ==
  /\ Go(w, "hint", "walk")
  /\ pos' = [pos EXCEPT ![w] = hint]
  /\ UNCHANGED <<lockVars, parent, storeVars, prop, found, result, crashes>>

(* Mutated: the walk goes one edge too far.                                *)
FollowEdge_past(w) ==
  /\ pc[w] = "walk"
  /\ pos' = [pos EXCEPT ![w] = edge[pos[w]]]
  /\ UNCHANGED <<lockVars, parent, storeVars, pc, prop, found, result, crashes>>

FollowEdge(w) ==
  /\ pc[w] = "walk"
  /\ edge[pos[w]] # None
  /\ pos' = [pos EXCEPT ![w] = edge[pos[w]]]
  /\ UNCHANGED <<lockVars, parent, storeVars, pc, prop, found, result, crashes>>

(* The next edge is missing, so pos[w] is the head Append decides with.    *)
Resolved(w) == pc[w] = "walk" /\ edge[pos[w]] = None

(* Mutated: the proposal's parent is not compared with the head.           *)
Expected_always(w) == TRUE

Expected(w) == parent[prop[w]] = pos[w]

Duplicate(w) ==
  /\ Resolved(w) /\ found[w] /\ ~Expected(w)
  /\ Return(w, "walk", "duplicate")
  /\ UNCHANGED <<lockVars, parent, storeVars, prop, found, pos, crashes>>

Resume(w) ==
  /\ Resolved(w) /\ found[w] /\ Expected(w)
  /\ Go(w, "walk", "advance")
  /\ UNCHANGED <<lockVars, parent, storeVars, prop, found, pos, result, crashes>>

Mismatch(w) ==
  /\ Resolved(w) /\ ~found[w] /\ ~Expected(w)
  /\ Return(w, "walk", "mismatch")
  /\ UNCHANGED <<lockVars, parent, storeVars, prop, found, pos, crashes>>

(* Mutated: the head is advanced before the object is written.             *)
Fresh_edgeFirst(w) ==
  /\ Resolved(w) /\ ~found[w] /\ Expected(w)
  /\ Go(w, "walk", "advance")
  /\ UNCHANGED <<lockVars, parent, storeVars, prop, found, pos, result, crashes>>

Fresh(w) ==
  /\ Resolved(w) /\ ~found[w] /\ Expected(w)
  /\ Go(w, "walk", "write")
  /\ UNCHANGED <<lockVars, parent, storeVars, prop, found, pos, result, crashes>>

(* The create-only write of the object, won or lost.                       *)
WriteProposalIfAbsent(w) ==
  /\ \/ /\ Go(w, "write", "advance")
        /\ prop[w] \notin objects
        /\ objects' = objects \cup {prop[w]}
        /\ UNCHANGED result
     \/ /\ Return(w, "write", "exists")
        /\ prop[w] \in objects
        /\ UNCHANGED objects
  /\ UNCHANGED <<lockVars, parent, edge, hint, prop, found, pos, crashes>>

(* Mutated: the edge is a plain overwrite.                                 *)
AdvanceHead_overwrite(w) ==
  /\ Go(w, "advance", "putHint")
  /\ edge' = [edge EXCEPT ![pos[w]] = prop[w]]
  /\ UNCHANGED <<lockVars, parent, objects, hint, prop, found, pos, result, crashes>>

(* Mutated: a lost compare-and-swap is taken for success.                  *)
AdvanceHead_ignoreLoss(w) ==
  /\ Go(w, "advance", "putHint")
  /\ edge' = IF edge[pos[w]] = None THEN [edge EXCEPT ![pos[w]] = prop[w]] ELSE edge
  /\ UNCHANGED <<lockVars, parent, objects, hint, prop, found, pos, result, crashes>>

(* The create-only write of the edge: the compare-and-swap.                *)
AdvanceHead(w) ==
  /\ \/ /\ edge[pos[w]] = None
        /\ edge' = [edge EXCEPT ![pos[w]] = prop[w]]
        /\ Go(w, "advance", "putHint")
        /\ UNCHANGED result
     \/ /\ edge[pos[w]] # None
        /\ Return(w, "advance", "moved")
        /\ UNCHANGED edge
  /\ UNCHANGED <<lockVars, parent, objects, hint, prop, found, pos, crashes>>

(* The hint is overwritten, or that write is lost: its error is ignored.   *)
WriteHint(w) ==
  /\ Return(w, "putHint", "ok")
  /\ hint' \in {prop[w], hint}
  /\ UNCHANGED <<lockVars, parent, objects, edge, prop, found, pos, crashes>>

(* The deferred release.                                                   *)
Unlock(w) ==
  /\ Go(w, "unlock", "idle")
  /\ Release(w)
  /\ Forget(w)
  /\ UNCHANGED <<parent, storeVars, prop, result, crashes>>

(* A store call of Append fails and is returned as an error.  At "putHint" *)
(* this is the edge write whose response was lost after it took effect, at *)
(* "advance" the same for the object.                                      *)
StoreError(w) ==
  /\ pc[w] \in {"read", "hint", "walk", "write", "advance", "putHint"}
  /\ Return(w, pc[w], "error")
  /\ UNCHANGED <<lockVars, parent, storeVars, prop, found, pos, crashes>>

(* The process dies; the lock object stays until its TTL.                  *)
Crash(w) ==
  /\ pc[w] # "idle"
  /\ crashes < MaxCrashes
  /\ crashes' = crashes + 1
  /\ pc' = [pc EXCEPT ![w] = "idle"]
  /\ result' = [result EXCEPT ![w] = "none"]
  /\ Abandon(w)
  /\ Forget(w)
  /\ UNCHANGED <<parent, storeVars, prop>>

ExpireLock(w) == Expire(w) /\ UNCHANGED ledgerVars

-----------------------------------------------------------------------------
AppendStep(w) ==
  \/ Locking(w) \/ Locked(w) \/ LedgerLocked(w)
  \/ ReadProposal(w) \/ ReadHint(w) \/ FollowEdge(w)
  \/ Duplicate(w) \/ Resume(w) \/ Mismatch(w) \/ Fresh(w)
  \/ WriteProposalIfAbsent(w) \/ AdvanceHead(w) \/ WriteHint(w)
  \/ Unlock(w)

Next ==
  \/ \E p \in Proposals : Draft(p)
  \/ \E w \in Procs, p \in Proposals : Start(w, p)
  \/ \E w \in Procs :
       \/ AppendStep(w) \/ LockFails(w) \/ StoreError(w)
       \/ Crash(w) \/ ExpireLock(w)

(* A running Append keeps executing, and a wait for the lock that looks at *)
(* its deadline again and again finds it passed.  Nothing obliges anyone   *)
(* to call it.                                                             *)
Fairness ==
  \A w \in Procs : WF_vars(AppendStep(w)) /\ SF_vars(LedgerLocked(w))

Spec == Init /\ [][Next]_vars
FairSpec == Spec /\ Fairness

(* Of the environment: the delete of an expired lock, tried over and over, *)
(* succeeds in the end.                                                    *)
StoreAnswers ==
  \A w \in Procs : SF_vars(Reclaim(w) /\ lockObj' = Free /\ UNCHANGED ledgerVars)

FairStoreSpec == FairSpec /\ StoreAnswers

-----------------------------------------------------------------------------
(* Every edge leads to a proposal drafted on the position it starts from,  *)
(* and to one whose object is in the store: a reader that follows edges    *)
(* never lands on a proposal resolved against another head, or on a        *)
(* missing object, whatever the lock did.                                  *)
ChainLinked == \A n \in Positions : edge[n] # None => parent[edge[n]] = n
ChainStored == \A n \in Positions : edge[n] # None => edge[n] \in objects
ChainSound == ChainLinked /\ ChainStored

(* There is one head and only one, and the hint is never off the chain, so *)
(* Head() finds it from wherever a lost or late hint write left it.        *)
OneHead == \E n \in Positions : IsHead(n) /\ \A m \in Positions : IsHead(m) => m = n
HintOnChain == OnChain(hint)

(* An Append that returned nil has put its proposal on the chain.          *)
AcknowledgedOnChain ==
  \A w \in Procs : result[w] = "ok" => prop[w] \in Accepted

(* What makes the above inductive: only chain positions have edges, and    *)
(* what a writer has read about the chain stays true of it, because edges  *)
(* are created once and never change.  The lock plays no part.             *)
EdgesLeaveChain == \A p \in Proposals : edge[p] # None => OnChain(p)

WriterInv ==
  \A w \in Procs :
    /\ pc[w] # "idle" => prop[w] \in Proposals /\ parent[prop[w]] \in Positions
    /\ pc[w] \in {"walk", "write", "advance", "putHint"} => OnChain(pos[w])
    /\ pc[w] \in {"write", "advance", "putHint"} => Expected(w)
    /\ pc[w] = "putHint" => edge[pos[w]] = prop[w]

(* This much needs no object to stay: gc may delete any of them.           *)
ChainInv ==
  /\ TypeOK
  /\ ChainLinked
  /\ OneHead
  /\ HintOnChain
  /\ AcknowledgedOnChain
  /\ EdgesLeaveChain
  /\ WriterInv

(* The rest does: objects, too, are created once, and Append deletes none. *)
WriterStored ==
  \A w \in Procs :
    /\ pc[w] \in {"hint", "walk"} /\ found[w] => prop[w] \in objects
    /\ pc[w] \in {"advance", "putHint"} => prop[w] \in objects

IInv == ChainInv /\ ChainStored /\ WriterStored

(* A chain position, once written, is never rewritten: history is          *)
(* append-only for every pair of states, not only for the current one.     *)
AppendOnly ==
  [][\A n \in Positions : edge[n] # None => edge'[n] = edge[n]]_vars

(* "A genuine, already-accepted duplicate": the comment on Ledger.Append   *)
(* says ErrDuplicateProposal is reported only for a proposal the head      *)
(* already reflects.                                                       *)
DuplicateIsAccepted ==
  \A w \in Procs : result[w] = "duplicate" => prop[w] \in Accepted

(* Every Append returns, with the lock it waited for or with               *)
(* ErrLedgerLocked: a holder that died keeps nobody for ever.  It takes a  *)
(* store that in the end deletes an expired lock (StoreAnswers): the loop  *)
(* that reclaims one has no deadline.                                      *)
AppendReturns == \A w \in Procs : pc[w] # "idle" ~> pc[w] = "idle"

-----------------------------------------------------------------------------
(* What it all promises: an append-only ledger with an atomic accept.      *)
Abstract == INSTANCE AppendOnlyLedger WITH accepted <- Accepted, head <- Head
Refines == Abstract!Spec
=============================================================================
