------------------------------ MODULE BlobLock ------------------------------
(***************************************************************************)
(* The distributed lock of the object-store ledger (ledgerstore/store.go,  *)
(* Store.Lock).  The lock is one object: creating it with IfNotExist is    *)
(* the acquisition, deleting it is the release.  Its payload holds only    *)
(* the moment the acquisition expires, so a contender can tell a stale     *)
(* lock from a live one but never whose it is.  Reclaiming an expired lock *)
(* is two store operations, a read and an unconditional delete; releasing  *)
(* is an unconditional delete too.  The error of either delete is ignored. *)
(*                                                                         *)
(* lockObj names the process whose acquisition wrote the current object;   *)
(* the code never reads that name, the properties do.                      *)
(***************************************************************************)
EXTENDS Naturals

CONSTANTS
  Procs,        \* processes that take the ledger lock
  Free,         \* no lock object
  MaxExpiries   \* bound on the acquisitions that outlive their TTL

ASSUME LockAssumption == Free \notin Procs /\ MaxExpiries \in Nat

VARIABLES
  lockObj,   \* the lock object: Free, or the process that created it
  ttl,       \* ttl[w]: has the latest acquisition of w expired
  lpc,       \* lpc[w]: where w is in Lock
  expiries   \* acquisitions that expired so far

lockVars == <<lockObj, ttl, lpc, expiries>>

LockPhases == {"out", "try", "inspect", "wait", "reclaim", "in"}

LockTypeOK ==
  /\ lockObj \in Procs \cup {Free}
  /\ ttl \in [Procs -> {"live", "expired"}]
  /\ lpc \in [Procs -> LockPhases]
  /\ expiries \in 0 .. MaxExpiries

LockInit ==
  /\ lockObj = Free
  /\ ttl = [w \in Procs |-> "expired"]
  /\ lpc = [w \in Procs |-> "out"]
  /\ expiries = 0

LockStep(w, from, to) ==
  /\ lpc[w] = from
  /\ lpc' = [lpc EXCEPT ![w] = to]

-----------------------------------------------------------------------------
(* Lock is called.                                                         *)
Request(w) ==
  /\ LockStep(w, "out", "try")
  /\ UNCHANGED <<lockObj, ttl, expiries>>

(* Mutated: a plain overwrite instead of IfNotExist.                       *)
Create_overwrite(w) ==
  /\ LockStep(w, "try", "in")
  /\ lockObj' = w
  /\ ttl' = [ttl EXCEPT ![w] = "live"]
  /\ UNCHANGED expiries

(* The create-only write succeeds: the TTL of this acquisition starts.     *)
Create(w) ==
  /\ LockStep(w, "try", "in")
  /\ lockObj = Free
  /\ lockObj' = w
  /\ ttl' = [ttl EXCEPT ![w] = "live"]
  /\ UNCHANGED expiries

(* The write fails for another reason than its precondition and Lock       *)
(* returns that error at once, though the object may have been created.    *)
CreateFails(w) ==
  /\ LockStep(w, "try", "out")
  /\ \/ UNCHANGED <<lockObj, ttl>>
     \/ /\ lockObj = Free
        /\ lockObj' = w
        /\ ttl' = [ttl EXCEPT ![w] = "live"]
  /\ UNCHANGED expiries

(* The create-only write fails its precondition.                           *)
Contend(w) ==
  /\ LockStep(w, "try", "inspect")
  /\ lockObj # Free
  /\ UNCHANGED <<lockObj, ttl, expiries>>

LockExpired == lockObj # Free /\ ttl[lockObj] = "expired"

(* The payload just read has expired: this call is going to delete the     *)
(* object, whatever it holds by then.                                      *)
InspectExpired(w) ==
  /\ LockStep(w, "inspect", "reclaim")
  /\ LockExpired
  /\ UNCHANGED <<lockObj, ttl, expiries>>

(* The payload is live, or the object is gone, or cannot be read or        *)
(* parsed.                                                                 *)
InspectLive(w) ==
  /\ LockStep(w, "inspect", "wait")
  /\ UNCHANGED <<lockObj, ttl, expiries>>

(* The deadline has not passed: sleep and try again.                       *)
Poll(w) ==
  /\ LockStep(w, "wait", "try")
  /\ UNCHANGED <<lockObj, ttl, expiries>>

(* The deadline has passed: ErrLedgerLocked.                               *)
GiveUp(w) ==
  /\ LockStep(w, "wait", "out")
  /\ UNCHANGED <<lockObj, ttl, expiries>>

(* An unconditional delete, or one that failed: both callers ignore the    *)
(* error.                                                                  *)
TryDeleteLock == lockObj' \in {Free, lockObj}

(* Tries again at once, with no look at the deadline.                      *)
Reclaim(w) ==
  /\ LockStep(w, "reclaim", "try")
  /\ TryDeleteLock
  /\ UNCHANGED <<ttl, expiries>>

(* The function Lock returned.                                             *)
Release(w) ==
  /\ LockStep(w, "in", "out")
  /\ TryDeleteLock
  /\ UNCHANGED <<ttl, expiries>>

(* The process dies, or its store stops answering, anywhere in between:    *)
(* the lock object stays.                                                  *)
Abandon(w) ==
  /\ lpc[w] # "out"
  /\ lpc' = [lpc EXCEPT ![w] = "out"]
  /\ UNCHANGED <<lockObj, ttl, expiries>>

(* Time passes the ExpiresAt of w's latest acquisition.                    *)
Expire(w) ==
  /\ ttl[w] = "live"
  /\ lockObj = w \/ lpc[w] = "in"
  /\ expiries < MaxExpiries
  /\ expiries' = expiries + 1
  /\ ttl' = [ttl EXCEPT ![w] = "expired"]
  /\ UNCHANGED <<lockObj, lpc>>

-----------------------------------------------------------------------------
LockCall(w) ==
  \/ Create(w)
  \/ Contend(w)
  \/ InspectExpired(w)
  \/ InspectLive(w)
  \/ Poll(w)
  \/ GiveUp(w)
  \/ Reclaim(w)

LockNext ==
  \E w \in Procs :
    \/ Request(w)
    \/ LockCall(w)
    \/ CreateFails(w)
    \/ Release(w)
    \/ Abandon(w)
    \/ Expire(w)

(* A call keeps executing, and one that looks at its deadline again and    *)
(* again finds it passed.                                                  *)
LockFairness ==
  \A w \in Procs : WF_lockVars(LockCall(w)) /\ SF_lockVars(GiveUp(w))

LockSpec == LockInit /\ [][LockNext]_lockVars /\ LockFairness

-----------------------------------------------------------------------------
Holds(w) == lpc[w] = "in" /\ ttl[w] = "live"

(* The caller whose create-only write won keeps the lock object until its  *)
(* acquisition expires, whoever else is reclaiming.  The comment above     *)
(* Store.Lock claims it: safe "even if two callers both attempt the        *)
(* reclaim, since the actual winner is still decided by the create-only    *)
(* write underneath, not by which caller's delete lands first".            *)
WinnerKeepsLock ==
  [][\A v, w \in Procs :
       Holds(w) /\ lockObj = w /\ lpc[v] = "reclaim" /\ lpc'[v] = "try"
         => lockObj' = w]_lockVars

(* Until some acquisition outlives its TTL, whoever is inside owns the     *)
(* lock object itself, so a release never deletes somebody else's lock and *)
(* nobody is about to reclaim a live one.  Crashes alone do not break it.  *)
ExclusiveUntilExpiry ==
  expiries = 0 => \A w \in Procs : /\ lpc[w] = "in" => lockObj = w
                                   /\ lpc[w] # "reclaim"

=============================================================================
