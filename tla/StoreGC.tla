------------------------------ MODULE StoreGC -------------------------------
(***************************************************************************)
(* `ubx store gc --yes` (cli/storegc.go) over ledgerstore/gc.go, beside    *)
(* the appends of BlobLedger.  An orphan is a listed object that the walk  *)
(* from the genesis, made just before the listing, did not meet.  The      *)
(* orphans are computed once and shown, then computed again, and those of  *)
(* both lists are deleted one by one.  gc never takes the ledger lock, and *)
(* appends run meanwhile.                                                  *)
(***************************************************************************)
EXTENDS BlobLedger

VARIABLES
  gpc,     \* where gc is
  reach,   \* the ids its last walk met
  shown,   \* the orphans of the first listing
  doomed,  \* what is left to delete
  settled  \* history: the chain when the fresh walk ended

gcVars == <<gpc, reach, shown, doomed, settled>>
allVars == <<vars, gcVars>>

GCTypeOK ==
  /\ TypeOK
  /\ gpc \in {"idle", "list", "rewalk", "relist", "delete"}
  /\ reach \subseteq Proposals
  /\ shown \subseteq Proposals
  /\ doomed \subseteq shown
  /\ settled \subseteq Proposals

GCInit ==
  /\ Init
  /\ gpc = "idle"
  /\ reach = {}
  /\ shown = {}
  /\ doomed = {}
  /\ settled = {}

GoGC(from, to) == gpc = from /\ gpc' = to

(* The walk reads one edge after the other; edges never change, so what it *)
(* met is the chain of the moment it found the last one missing.           *)
Walk == reach' = Accepted

(* proposals/ is listed after the walk.                                    *)
Orphans == objects \ reach

FirstWalk ==
  /\ GoGC("idle", "list")
  /\ Walk
  /\ UNCHANGED <<vars, shown, doomed, settled>>

FirstListing ==
  /\ GoGC("list", IF Orphans = {} THEN "idle" ELSE "rewalk")
  /\ shown' = Orphans
  /\ UNCHANGED <<vars, reach, doomed, settled>>

FreshWalk ==
  /\ GoGC("rewalk", "relist")
  /\ Walk
  /\ settled' = Accepted
  /\ UNCHANGED <<vars, shown, doomed>>

FreshListing ==
  /\ GoGC("relist", "delete")
  /\ doomed' = shown \cap Orphans
  /\ UNCHANGED <<vars, reach, shown, settled>>

(* DeleteProposal does not look at the chain again.                        *)
DeleteProposal(p) ==
  /\ gpc = "delete"
  /\ p \in doomed
  /\ objects' = objects \ {p}
  /\ doomed' = doomed \ {p}
  /\ UNCHANGED <<lockVars, parent, edge, hint, writerVars, crashes, gpc, reach, shown,
                 settled>>

(* Every id is handled, or gc fails or dies on the way.                    *)
EndGC ==
  /\ gpc # "idle"
  /\ gpc' = "idle"
  /\ reach' = {} /\ shown' = {} /\ doomed' = {} /\ settled' = {}
  /\ UNCHANGED vars

GCNext ==
  \/ FirstWalk \/ FirstListing \/ FreshWalk \/ FreshListing \/ EndGC
  \/ \E p \in Proposals : DeleteProposal(p)

AppendNext == Next /\ UNCHANGED gcVars

GCSpec == GCInit /\ [][AppendNext \/ GCNext]_allVars

-----------------------------------------------------------------------------
(* What gc promises and keeps: a delete hits only an orphan the operator   *)
(* was shown, and never a proposal that the chain held when the orphans    *)
(* were computed again, however its append was interrupted before.  What   *)
(* is chained later has no such protection (NeverDeletesReferenced).       *)
DeletesOnlyShownOrphans ==
  [][\A p \in objects \ objects' : p \in shown \ settled]_allVars

(* "Removes exactly those objects, never anything a chain still            *)
(* references, even transitively": no delete hits a proposal on the chain. *)
NeverDeletesReferenced == [][Accepted \cap objects \subseteq objects']_allVars
=============================================================================
