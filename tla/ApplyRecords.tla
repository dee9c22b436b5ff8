---------------------------- MODULE ApplyRecords ----------------------------
(***************************************************************************)
(* The apply records of one proposal (core/apply.go) in an object store:   *)
(* several `ubx ship` processes begin attempts under the ledger lock of    *)
(* BlobLock, then save and seal their record with no lock at all.          *)
(* WriteApply is a plain overwrite of the attempt's object, so two         *)
(* processes that picked one attempt number would overwrite each other.    *)
(*                                                                         *)
(* A sealed record's id, a hash of its content, is its attempt number; the *)
(* resources of a record are the number of times it was saved.             *)
(***************************************************************************)
EXTENDS BlobLock

CONSTANTS
  MaxAttempts,   \* bound on the attempts of the proposal
  MaxSaves       \* bound on the saves of one attempt

ASSUME ApplyAssumption == MaxAttempts \in Nat \ {0} /\ MaxSaves \in Nat

VARIABLES
  stored,   \* applies/: the record of each attempt
  apc,      \* apc[w]: where w is in ship
  mine,     \* mine[w]: the attempt number w decided on
  rec       \* rec[w]: the record in w's memory

recVars == <<stored, apc, mine, rec>>
vars == <<lockVars, recVars>>

Attempts == 1 .. MaxAttempts

(* by names the process that wrote the record, Free for an absent object.  *)
(* The code keeps no such name; parent is 0 for "no sealed attempt".       *)
Records == [by: Procs \cup {Free}, parent: 0 .. MaxAttempts,
            saves: 0 .. MaxSaves, sealed: BOOLEAN]
NoRecord == [by |-> Free, parent |-> 0, saves |-> 0, sealed |-> FALSE]

Exists(a) == stored[a].by # Free

RecordTypeOK ==
  /\ LockTypeOK
  /\ stored \in [Attempts -> Records]
  /\ apc \in [Procs -> {"idle", "lock", "list", "create", "unlock", "run"}]
  /\ mine \in [Procs -> Attempts]
  /\ rec \in [Procs -> Records]

Init ==
  /\ LockInit
  /\ stored = [a \in Attempts |-> NoRecord]
  /\ apc = [w \in Procs |-> "idle"]
  /\ mine = [w \in Procs |-> 1]
  /\ rec = [w \in Procs |-> NoRecord]

Go(w, from, to) ==
  /\ apc[w] = from
  /\ apc' = [apc EXCEPT ![w] = to]

-----------------------------------------------------------------------------
(* Mutated: only sealed attempts count, so an unsealed one is overwritten. *)
NextAttempt_sealed(a) ==
  /\ ~stored[a].sealed
  /\ \A b \in Attempts : b < a => stored[b].sealed

(* One more than the highest attempt recorded, sealed or not.              *)
NextAttempt(a) == \A b \in Attempts : Exists(b) <=> b < a

(* Mutated: the latest attempt is the parent, sealed or not.               *)
IsParent_latest(n) ==
  /\ n \in {0} \cup {b \in Attempts : Exists(b)}
  /\ \A b \in Attempts : Exists(b) => b <= n

(* Mutated: the first sealed attempt stays the parent for good.            *)
IsParent_first(n) ==
  LET done == {b \in Attempts : stored[b].sealed} IN
    /\ done = {} <=> n = 0
    /\ n # 0 => n \in done /\ \A b \in done : n <= b

(* The most recently sealed attempt.                                       *)
IsParent(n) ==
  /\ n # 0 => n \in Attempts /\ stored[n].sealed
  /\ \A b \in Attempts : stored[b].sealed => b <= n

(* Mutated: the object is left truncated.                                  *)
WriteApply_truncated(w, r) ==
  /\ rec' = [rec EXCEPT ![w] = r]
  /\ stored' = [stored EXCEPT ![mine[w]] = [by |-> w]]

(* The whole record in memory replaces the object.                         *)
WriteApply(w, r) ==
  /\ rec' = [rec EXCEPT ![w] = r]
  /\ stored' = [stored EXCEPT ![mine[w]] = r]

BeginApply(w) ==
  /\ Go(w, "idle", "lock")
  /\ Request(w)
  /\ UNCHANGED <<stored, mine, rec>>

Locking(w) ==
  /\ apc[w] = "lock"
  /\ Contend(w) \/ InspectExpired(w) \/ InspectLive(w) \/ Poll(w) \/ Reclaim(w)
  /\ UNCHANGED recVars

Locked(w) ==
  /\ Go(w, "lock", "list")
  /\ Create(w)
  /\ UNCHANGED <<stored, mine, rec>>

LedgerLocked(w) ==
  /\ Go(w, "lock", "idle")
  /\ GiveUp(w) \/ CreateFails(w)
  /\ UNCHANGED <<stored, mine, rec>>

(* ApplyAttempts: the number and the parent are decided on what it lists.  *)
ListAttempts(w) ==
  /\ Go(w, "list", "create")
  /\ \E a \in Attempts, n \in 0 .. MaxAttempts :
       /\ NextAttempt(a) /\ IsParent(n)
       /\ mine' = [mine EXCEPT ![w] = a]
       /\ rec' = [rec EXCEPT ![w] = [NoRecord EXCEPT !.by = w, !.parent = n]]
  /\ UNCHANGED <<lockVars, stored>>

CreateRecord(w) ==
  /\ Go(w, "create", "unlock")
  /\ WriteApply(w, rec[w])
  /\ UNCHANGED <<lockVars, mine>>

Unlock(w) ==
  /\ Go(w, "unlock", "run")
  /\ Release(w)
  /\ UNCHANGED <<stored, mine, rec>>

SaveApplyProgress(w) ==
  /\ apc[w] = "run"
  /\ ~rec[w].sealed
  /\ rec[w].saves < MaxSaves
  /\ WriteApply(w, [rec[w] EXCEPT !.saves = @ + 1])
  /\ UNCHANGED <<lockVars, apc, mine>>

(* Mutated: the process keeps running, with its memory unsealed.           *)
SealApply_again(w) ==
  /\ apc[w] = "run"
  /\ stored' = [stored EXCEPT ![mine[w]] = [rec[w] EXCEPT !.sealed = TRUE]]
  /\ UNCHANGED <<lockVars, apc, mine, rec>>

SealApply(w) ==
  /\ Go(w, "run", "idle")
  /\ ~rec[w].sealed
  /\ WriteApply(w, [rec[w] EXCEPT !.sealed = TRUE])
  /\ UNCHANGED <<lockVars, mine>>

(* An error return or the death of the process: the record stays unsealed, *)
(* and a lock object stays until its TTL.                                  *)
Stop(w) ==
  /\ apc[w] # "idle"
  /\ apc' = [apc EXCEPT ![w] = "idle"]
  /\ Abandon(w) \/ (apc[w] = "run" /\ UNCHANGED lockVars)
  /\ UNCHANGED <<stored, mine, rec>>

ExpireLock(w) == Expire(w) /\ UNCHANGED recVars

Next ==
  \E w \in Procs :
    \/ BeginApply(w) \/ Locking(w) \/ Locked(w) \/ LedgerLocked(w)
    \/ ListAttempts(w) \/ CreateRecord(w) \/ Unlock(w)
    \/ SaveApplyProgress(w) \/ SealApply(w) \/ Stop(w) \/ ExpireLock(w)

Spec == Init /\ [][Next]_vars

-----------------------------------------------------------------------------
(* Until an acquisition of the lock outlives its TTL, a running attempt's  *)
(* object holds exactly what its process last wrote: no other process      *)
(* picked the number, so no transition durably recorded is ever lost.      *)
OwnRecord ==
  expiries = 0 =>
    \A w \in Procs : apc[w] = "run" => rec[w].by = w /\ stored[mine[w]] = rec[w]

(* Until then, too, the parent a record names is an earlier attempt that   *)
(* was and stays sealed.                                                   *)
ParentIsSealed ==
  expiries = 0 =>
    \A a \in Attempts :
      LET n == stored[a].parent IN
        Exists(a) /\ n # 0 => n < a /\ stored[n].sealed

(* And a sealed record is final.                                           *)
SealedIsFinal ==
  [][\A a \in Attempts :
       expiries = 0 /\ stored[a].sealed => stored'[a] = stored[a]]_vars

(* A ship sees every attempt its own process sealed before, whatever the   *)
(* others do meanwhile: with ParentIsSealed, the attempts of ships that    *)
(* follow one another form the chain verify expects.                       *)
OwnAttemptsChained ==
  expiries = 0 =>
    \A a, b \in Attempts :
      b < a /\ stored[a].sealed /\ stored[b].sealed /\ stored[a].by = stored[b].by
        => b <= stored[a].parent

(* `ubx verify` (verifyApplyChain) accepts the attempts: the parent of     *)
(* each sealed record is the most recently sealed attempt before it, as    *)
(* its comment says, "BeginApply's own exact linkage rule".                *)
ChainVerifies ==
  \A a \in Attempts :
    LET earlier == {b \in Attempts : b < a /\ stored[b].sealed} IN
      stored[a].sealed =>
        /\ earlier = {} => stored[a].parent = 0
        /\ earlier # {} => /\ stored[a].parent \in earlier
                           /\ \A b \in earlier : b <= stored[a].parent

=============================================================================
