-------------------------- MODULE ShipChange_proofs --------------------------
(* The executor, for any resources, dependencies, attempts, crashes and    *)
(* late effects, and for any number of invocations of ship at a time:      *)
(* in_flight is on disk while the provider may be working; what is         *)
(* recorded applied is there, stays on record, and was there before        *)
(* anything that depends on it was begun; a seal says what its entries     *)
(* say; and no more is performed than was put on record.                   *)
EXTENDS ShipChange, FiniteSetTheorems, WellFoundedInduction, TLAPS

Flying == {"apply", "ok", "err"}
Running(s) == spc[s] \in {"pass", "walk"}

(* As much of the types as the argument needs.                             *)
RecordTypes ==
  /\ disk \in [Attempts -> [Nodes -> Entries]]
  /\ outcome \in [Attempts -> {"none", "open"} \cup Outcomes]
  /\ spc \in [Ships -> {"idle", "begin", "pass", "walk"}]
  /\ att \in [Ships -> Attempts]
  /\ mem \in [Ships -> [Nodes -> Entries]]
  /\ npc \in [Ships -> [Nodes -> Idle \cup Working \cup {"running"}]]

(* An invocation has its attempt for itself, so nobody else writes its     *)
(* record; that BeginApply gives out a number once is what the lock is for. *)
OwnAttempt ==
  /\ \A s \in Ships : Running(s) => outcome[att[s]] = "open"
  /\ \A s, t \in Ships : Running(s) /\ Running(t) /\ s # t => att[s] # att[t]

(* Goroutines exist only in the walk, and a resource whose call may be     *)
(* under way is in_flight in memory, so that every persist of the record,  *)
(* by whatever goroutine, writes in_flight for it again.                   *)
OnlyInWalk == \A s \in Ships, n \in Nodes : npc[s][n] # "waiting" => spc[s] = "walk"

FlyingInMemory ==
  \A s \in Ships, n \in Nodes : npc[s][n] \in Flying => mem[s][n].state = "in_flight"

IInv ==
  /\ RecordTypes
  /\ OwnAttempt
  /\ OnlyInWalk
  /\ FlyingInMemory
  /\ InFlightIsDurable

-----------------------------------------------------------------------------
LEMMA EntryTypes ==
  /\ NoEntry \in Entries
  /\ [NoEntry EXCEPT !.state = "applied"] \in Entries
  BY DEF NoEntry, Entries, States, Unresolved

LEMMA InitInv == Init => IInv
<1> SUFFICES ASSUME Init PROVE IInv
  OBVIOUS
<1> USE ShipAssumption, EntryTypes
<1>1. RecordTypes
  BY DEF Init, RecordTypes, Idle, Attempts
<1> QED
  BY <1>1 DEF Init, IInv, OwnAttempt, Running, OnlyInWalk, FlyingInMemory,
     InFlightIsDurable, Flying

-----------------------------------------------------------------------------
(* What a step for n in s may do: n moves between phases, its entry in     *)
(* memory changes, and the record is persisted or the disk left alone; the *)
(* other resources and invocations stay.  Who gets to fly persists.        *)
NodeEffect(s, n, entry, phase) ==
  /\ spc[s] = "walk"
  /\ mem' = [mem EXCEPT ![s] = [mem[s] EXCEPT ![n] = entry]]
  /\ npc' = [npc EXCEPT ![s] = [npc[s] EXCEPT ![n] = phase]]
  /\ disk' = disk \/ disk' = [disk EXCEPT ![att[s]] = mem'[s]]
  /\ phase \in Flying =>
       /\ entry.state = "in_flight"
       /\ npc[s][n] \in Flying \/ disk' = [disk EXCEPT ![att[s]] = mem'[s]]
  /\ UNCHANGED <<outcome, spc, att>>

LEMMA NodeEffectInv ==
  ASSUME IInv, NEW s \in Ships, NEW n \in Nodes, NEW entry \in Entries,
         NEW phase \in Idle \cup Working \cup {"running"},
         NodeEffect(s, n, entry, phase)
  PROVE  IInv'
<1> USE DEF IInv, NodeEffect, RecordTypes
<1>1. RecordTypes'
  <2>1. [mem[s] EXCEPT ![n] = entry] \in [Nodes -> Entries]
    OBVIOUS
  <2>2. [npc[s] EXCEPT ![n] = phase] \in [Nodes -> Idle \cup Working \cup {"running"}]
    OBVIOUS
  <2>3. mem' \in [Ships -> [Nodes -> Entries]]
    BY <2>1
  <2>4. npc' \in [Ships -> [Nodes -> Idle \cup Working \cup {"running"}]]
    BY <2>2
  <2>5. disk' \in [Attempts -> [Nodes -> Entries]]
    BY <2>3
  <2> QED
    BY <2>3, <2>4, <2>5
<1>2. OwnAttempt'
  BY DEF OwnAttempt, Running
<1>3. OnlyInWalk'
  BY DEF OnlyInWalk
<1>4. FlyingInMemory'
  BY DEF FlyingInMemory
<1>5. InFlightIsDurable'
  <2> SUFFICES ASSUME NEW t \in Ships, NEW k \in Nodes, npc'[t][k] \in Flying
               PROVE  disk'[att[t]][k].state = "in_flight"
    BY DEF InFlightIsDurable, Flying
  <2>1. CASE t # s
    <3>1. npc[t][k] \in Flying /\ disk[att[t]][k].state = "in_flight"
      BY <2>1 DEF InFlightIsDurable, Flying
    <3>2. spc[t] = "walk" /\ att[t] # att[s]
      BY <2>1, <3>1 DEF OnlyInWalk, OwnAttempt, Running, Flying
    <3> QED
      BY <3>1, <3>2
  <2>2. CASE t = s /\ disk' = [disk EXCEPT ![att[s]] = mem'[s]]
    <3>1. disk'[att[t]][k] = mem'[s][k]
      BY <2>2
    <3> QED
      BY <2>2, <3>1, <1>4 DEF FlyingInMemory
  <2>3. CASE t = s /\ disk' = disk
    <3>1. CASE disk' # [disk EXCEPT ![att[s]] = mem'[s]]
      BY <2>3, <3>1 DEF InFlightIsDurable, Flying
    <3> QED
      BY <2>2, <2>3, <3>1
  <2> QED
    BY <2>1, <2>2, <2>3
<1> QED
  BY <1>1, <1>2, <1>3, <1>4, <1>5

(* The shapes of entries the steps write.                                  *)
LEMMA EntrySteps ==
  ASSUME NEW e \in Entries, NEW state \in States, NEW saw \in {"none", "present", "other"}
  PROVE  /\ [e EXCEPT !.state = state] \in Entries
         /\ [e EXCEPT !.saw = saw] \in Entries
         /\ [e EXCEPT !.state = state, !.saw = saw] \in Entries
         /\ [e EXCEPT !.state = state].state = state
         /\ [state |-> state, flew |-> TRUE, saw |-> saw] \in Entries
  BY DEF Entries

(* Every step of a goroutine, and the reads it makes, is such a step.      *)
LEMMA NodeStepEffect ==
  ASSUME IInv, NEW s \in Ships, NEW n \in Nodes, NodeStep(s, n) \/ Inconclusive(s, n)
  PROVE  \E entry \in Entries, phase \in Idle \cup Working \cup {"running"} :
           NodeEffect(s, n, entry, phase)
<1> DEFINE e == mem[s][n]
           Effect == \E entry \in Entries, phase \in Idle \cup Working \cup {"running"} :
                       NodeEffect(s, n, entry, phase)
<1>0. /\ RecordTypes
      /\ e \in Entries
      /\ mem \in [Ships -> [Nodes -> Entries]]
      /\ npc \in [Ships -> [Nodes -> Idle \cup Working \cup {"running"}]]
      /\ npc[s][n] # "waiting" => spc[s] = "walk"
  BY DEF IInv, RecordTypes, OnlyInWalk
<1>1. mem[s] = [mem[s] EXCEPT ![n] = e] /\ mem = [mem EXCEPT ![s] = mem[s]]
  BY <1>0
<1> USE DEF Goto, NodeEffect, Idle, Working, Flying, States, Unresolved
(* Steps that leave the record alone.                                      *)
<1>2. CASE Launch(s, n) \/ Complete(s, n)
  <2>1. PICK phase \in {"running", "done"} : npc' = [npc EXCEPT ![s][n] = phase]
    BY <1>2 DEF Launch, Complete
  <2>2. NodeEffect(s, n, e, phase)
    BY <1>0, <1>1, <1>2, <2>1 DEF Launch, Launchable, Complete, durableVars
  <2> QED
    BY <1>0, <2>2
<1>3. CASE ApplyResourceChange(s, n) \/ RetryCreate(s, n)
  <2>1. PICK phase \in {"ok", "err", "apply"} : npc' = [npc EXCEPT ![s][n] = phase]
    BY <1>3 DEF ApplyResourceChange, RetryCreate
  <2>2. e.state = "in_flight" /\ npc[s][n] \in Flying
    BY <1>3 DEF ApplyResourceChange, RetryCreate, IInv, FlyingInMemory
  <2>3. NodeEffect(s, n, e, phase)
    BY <1>0, <1>1, <1>3, <2>1, <2>2 DEF ApplyResourceChange, RetryCreate, durableVars
  <2> QED
    BY <1>0, <2>3
(* Steps that record how the node ended.                                   *)
<1>4. ASSUME NEW state \in States, NEW t \in Tallies, Finish(s, n, state, t),
             spc[s] = "walk", UNCHANGED <<outcome, spc, att>>
      PROVE  Effect
  <2>1. NodeEffect(s, n, [e EXCEPT !.state = state], "sent")
    BY <1>0, <1>4 DEF Finish, Transition, Persist
  <2> QED
    BY <1>0, <2>1, EntrySteps
<1>5. CASE Blocked(s, n)
  BY <1>4, <1>5 DEF Blocked, Launchable, Tallies
<1>6. CASE Unavailable(s, n) \/ Succeed(s, n) \/ LeaveUnknown(s, n)
  BY <1>0, <1>4, <1>6 DEF Unavailable, Succeed, LeaveUnknown, Tallies
<1>7. ASSUME NEW state \in States, NEW saw \in {"none", "present", "other"},
             mem' = [mem EXCEPT ![s][n].state = state, ![s][n].saw = saw],
             npc' = [npc EXCEPT ![s][n] = "sent"],
             Persist(s), spc[s] = "walk", UNCHANGED <<outcome, spc, att>>
      PROVE  Effect
  <2>1. NodeEffect(s, n, [e EXCEPT !.state = state, !.saw = saw], "sent")
    BY <1>0, <1>7 DEF Persist
  <2> QED
    BY <1>0, <2>1, EntrySteps
<1>8. CASE Halt(s, n)
  <2>1. PICK saw \in {"none", "present", "other"} :
          mem' = [mem EXCEPT ![s][n].state = "pending", ![s][n].saw = saw]
    BY <1>8 DEF Halt, Precheck
  <2> QED
    BY <1>0, <1>7, <1>8, <2>1 DEF Halt
<1>14. CASE AlreadyAbsent(s, n)
  <2>1. mem' = [mem EXCEPT ![s][n].state = "applied", ![s][n].saw = "other"]
    BY <1>14 DEF AlreadyAbsent
  <2> QED
    BY <1>0, <1>7, <1>14, <2>1 DEF AlreadyAbsent
<1>9. CASE ConfirmApplied(s, n) \/ ConfirmFailed(s, n) \/ Exhaust(s, n)
  <2>1. PICK state \in {"applied", "failed", "still_unknown"}, t \in Tallies : Verdict(s, n, state, t)
    BY <1>9 DEF ConfirmApplied, ConfirmFailed, Exhaust, Tallies
  <2>2. PICK saw \in {"none", "present", "other"} :
          mem' = [mem EXCEPT ![s][n].state = state, ![s][n].saw = saw]
    <3> e.saw \in {"none", "present", "other"}
      BY <1>0 DEF Entries
    <3> QED
      BY <1>0, <2>1 DEF Verdict
  <2> QED
    BY <1>0, <1>7, <2>1, <2>2 DEF Verdict
(* Steps within the node's work.                                           *)
<1>10. CASE Begin(s, n)
  <2>1. PICK phase \in {"reconcile", "begun"} : npc' = [npc EXCEPT ![s][n] = phase]
    BY <1>10 DEF Begin
  <2>2. NodeEffect(s, n, [e EXCEPT !.state = "pending"], phase)
    BY <1>0, <1>10, <2>1 DEF Begin, Transition, durableVars
  <2> QED
    BY <1>0, <2>2, EntrySteps
<1>11. CASE Fly(s, n)
  <2>1. PICK saw \in {"none", "present"} :
          mem' = [mem EXCEPT ![s][n] = [state |-> "in_flight", flew |-> TRUE, saw |-> saw]]
    BY <1>11 DEF Fly
  <2>2. NodeEffect(s, n, [state |-> "in_flight", flew |-> TRUE, saw |-> saw], "apply")
    BY <1>0, <1>11, <2>1 DEF Fly, Persist
  <2> QED
    BY <2>2, EntrySteps, <1>0
<1>12. CASE Suspect(s, n)
  <2>1. NodeEffect(s, n, [e EXCEPT !.state = "unknown_post_timeout"], "reconcile")
    BY <1>0, <1>12 DEF Suspect, Transition, Persist
  <2> QED
    BY <1>0, <2>1, EntrySteps
<1>13. CASE Inconclusive(s, n)
  <2>1. npc = [npc EXCEPT ![s] = [npc[s] EXCEPT ![n] = "reconcile"]]
    BY <1>0, <1>13 DEF Inconclusive
  <2>2. NodeEffect(s, n, [e EXCEPT !.saw = "other"], "reconcile")
    BY <1>0, <1>13, <2>1 DEF Inconclusive, durableVars
  <2> QED
    BY <1>0, <2>2, EntrySteps
<1> QED
  BY <1>2, <1>3, <1>5, <1>6, <1>8, <1>9, <1>10, <1>11, <1>12, <1>13, <1>14
     DEF NodeStep

-----------------------------------------------------------------------------
(* The steps of the main goroutine.                                        *)

(* An invocation that is not in the walk has no goroutine.                 *)
LEMMA NobodyWorks ==
  ASSUME IInv, NEW s \in Ships, spc[s] # "walk", NEW n \in Nodes
  PROVE  npc[s][n] = "waiting"
  BY DEF IInv, OnlyInWalk

LEMMA ReadHistoryInv ==
  ASSUME IInv, NEW s \in Ships, ReadHistory(s)
  PROVE  IInv'
<1> USE DEF IInv, ReadHistory, MainStep, durableVars
<1>1. RecordTypes'
  BY DEF RecordTypes
<1>2. OwnAttempt'
  BY DEF OwnAttempt, Running, RecordTypes
<1>3. OnlyInWalk' /\ FlyingInMemory' /\ InFlightIsDurable'
  BY NobodyWorks DEF OnlyInWalk, FlyingInMemory, InFlightIsDurable, Flying, RecordTypes
<1> QED
  BY <1>1, <1>2, <1>3

LEMMA BeginApplyInv ==
  ASSUME IInv, NEW s \in Ships, BeginApply(s)
  PROVE  IInv'
<1> USE DEF MainStep
<1>1. PICK a \in Attempts : /\ outcome[a] = "none"
                            /\ att' = [att EXCEPT ![s] = a]
                            /\ outcome' = [outcome EXCEPT ![a] = "open"]
  <2>1. PICK a \in Attempts : /\ \A b \in Attempts : outcome[b] = "none" <=> b >= a
                              /\ att' = [att EXCEPT ![s] = a]
                              /\ outcome' = [outcome EXCEPT ![a] = "open"]
    BY DEF BeginApply
  <2>2. a >= a
    BY ShipAssumption DEF Attempts
  <2> QED
    BY <2>1, <2>2
<1>2. RecordTypes'
  BY <1>1 DEF IInv, RecordTypes, BeginApply
<1>3. \A t \in Ships : Running(t) => att[t] # a
  BY <1>1 DEF IInv, OwnAttempt
<1>4. OwnAttempt'
  BY <1>1, <1>3 DEF IInv, OwnAttempt, Running, RecordTypes, BeginApply
<1>5. OnlyInWalk' /\ FlyingInMemory'
  BY NobodyWorks DEF IInv, OnlyInWalk, FlyingInMemory, RecordTypes, BeginApply, Flying
<1>6. InFlightIsDurable'
  <2> SUFFICES ASSUME NEW t \in Ships, NEW n \in Nodes, npc'[t][n] \in {"apply", "ok", "err"}
               PROVE  disk'[att'[t]][n].state = "in_flight"
    BY DEF InFlightIsDurable
  <2>1. UNCHANGED <<npc, disk>> /\ spc[s] = "begin"
    BY DEF BeginApply
  <2>2. t # s
    BY <2>1, NobodyWorks
  <2>3. att'[t] = att[t]
    BY <1>1, <2>2 DEF IInv, RecordTypes
  <2> QED
    BY <2>1, <2>3 DEF IInv, InFlightIsDurable
<1> QED
  BY <1>2, <1>4, <1>5, <1>6 DEF IInv

LEMMA PassThroughInv ==
  ASSUME IInv, NEW s \in Ships, PassThrough(s)
  PROVE  IInv'
<1> USE DEF MainStep
<1>1. RecordTypes'
  <2>1. mem' \in [Ships -> [Nodes -> Entries]]
    <3>1. mem'[s] \in [Nodes -> Entries]
      BY EntryTypes DEF IInv, RecordTypes, PassThrough
    <3> QED
      BY <3>1, EntryTypes DEF IInv, RecordTypes, PassThrough
  <2>2. npc' \in [Ships -> [Nodes -> Idle \cup Working \cup {"running"}]]
    BY DEF IInv, RecordTypes, PassThrough, Idle
  <2>3. disk' \in [Attempts -> [Nodes -> Entries]]
    BY <2>1 DEF IInv, RecordTypes, PassThrough, Persist
  <2> QED
    BY <2>1, <2>2, <2>3 DEF IInv, RecordTypes, PassThrough
<1>2. OwnAttempt'
  BY DEF IInv, OwnAttempt, Running, RecordTypes, PassThrough
<1>3. \A n \in Nodes : npc'[s][n] \notin Flying
  BY DEF IInv, RecordTypes, PassThrough, Flying
<1>4. \A t \in Ships : t # s => npc'[t] = npc[t] /\ mem'[t] = mem[t] /\ spc'[t] = spc[t]
  BY DEF IInv, RecordTypes, PassThrough
<1>5. OnlyInWalk'
  BY <1>4 DEF IInv, OnlyInWalk, RecordTypes, PassThrough
<1>6. FlyingInMemory'
  BY <1>3, <1>4 DEF IInv, FlyingInMemory
<1>7. InFlightIsDurable'
  <2> SUFFICES ASSUME NEW t \in Ships, NEW n \in Nodes, npc'[t][n] \in Flying
               PROVE  disk'[att'[t]][n].state = "in_flight"
    BY DEF InFlightIsDurable, Flying
  <2>1. t # s /\ npc[t][n] \in Flying
    BY <1>3, <1>4
  <2>2. att[t] # att[s] /\ att' = att
    BY <2>1 DEF IInv, OnlyInWalk, OwnAttempt, Running, PassThrough, Flying
  <2>3. disk'[att[t]] = disk[att[t]]
    BY <2>2 DEF IInv, RecordTypes, PassThrough, Persist
  <2> QED
    BY <2>1, <2>2, <2>3 DEF IInv, InFlightIsDurable, Flying
<1> QED
  BY <1>1, <1>2, <1>5, <1>6, <1>7 DEF IInv

(* The end of an invocation: its goroutines are gone and its attempt is    *)
(* nobody's, so what it writes last disturbs no other.                     *)
LEMMA EndInv ==
  ASSUME IInv, NEW s \in Ships, Seal(s) \/ Crash(s)
  PROVE  IInv'
<1>1. /\ spc' = [spc EXCEPT ![s] = "idle"]
      /\ att' = [att EXCEPT ![s] = 1]
      /\ mem' = [mem EXCEPT ![s] = [n \in Nodes |-> NoEntry]]
      /\ npc' = [npc EXCEPT ![s] = [n \in Nodes |-> "waiting"]]
  BY DEF Seal, Crash, MainStep, Forget
<1>2. \/ UNCHANGED <<disk, outcome>>
      \/ /\ Running(s)
         /\ disk' = [disk EXCEPT ![att[s]] = mem[s]]
         /\ \E o \in Outcomes : outcome' = [outcome EXCEPT ![att[s]] = o]
  BY DEF Seal, Crash, MainStep, Running, Outcome, Outcomes, durableVars
<1>3. RecordTypes'
  <2>1. [n \in Nodes |-> NoEntry] \in [Nodes -> Entries] /\ 1 \in Attempts
    BY EntryTypes, ShipAssumption DEF Attempts
  <2>2. [n \in Nodes |-> "waiting"] \in [Nodes -> Idle \cup Working \cup {"running"}]
    BY DEF Idle
  <2>3. /\ spc' \in [Ships -> {"idle", "begin", "pass", "walk"}]
        /\ att' \in [Ships -> Attempts]
        /\ mem' \in [Ships -> [Nodes -> Entries]]
    BY <1>1, <2>1 DEF IInv, RecordTypes
  <2>4. npc' \in [Ships -> [Nodes -> Idle \cup Working \cup {"running"}]]
    BY <1>1, <2>2 DEF IInv, RecordTypes
  <2>5. /\ disk' \in [Attempts -> [Nodes -> Entries]]
        /\ outcome' \in [Attempts -> {"none", "open"} \cup Outcomes]
    <3>1. CASE UNCHANGED <<disk, outcome>>
      BY <3>1 DEF IInv, RecordTypes
    <3>2. ASSUME disk' = [disk EXCEPT ![att[s]] = mem[s]]
          PROVE  disk' \in [Attempts -> [Nodes -> Entries]]
      <4>1. mem[s] \in [Nodes -> Entries] /\ disk \in [Attempts -> [Nodes -> Entries]]
        BY DEF IInv, RecordTypes
      <4> QED
        BY <3>2, <4>1
    <3>3. ASSUME NEW o \in Outcomes, outcome' = [outcome EXCEPT ![att[s]] = o]
          PROVE  outcome' \in [Attempts -> {"none", "open"} \cup Outcomes]
      BY <3>3 DEF IInv, RecordTypes
    <3> QED
      BY <1>2, <3>1, <3>2, <3>3
  <2> QED
    BY <2>3, <2>4, <2>5 DEF RecordTypes
<1>4. \A t \in Ships : t # s => /\ npc'[t] = npc[t] /\ mem'[t] = mem[t]
                                /\ spc'[t] = spc[t] /\ att'[t] = att[t]
  BY <1>1 DEF IInv, RecordTypes
<1>5. \A t \in Ships : t # s /\ Running(t) => /\ disk'[att[t]] = disk[att[t]]
                                             /\ outcome'[att[t]] = outcome[att[t]]
  BY <1>2 DEF IInv, OwnAttempt, RecordTypes
<1>6. spc'[s] = "idle" /\ \A n \in Nodes : npc'[s][n] = "waiting"
  BY <1>1 DEF IInv, RecordTypes
<1>7. OwnAttempt'
  BY <1>4, <1>5, <1>6 DEF IInv, OwnAttempt, Running
<1>8. OnlyInWalk' /\ FlyingInMemory'
  BY <1>4, <1>6 DEF IInv, OnlyInWalk, FlyingInMemory, Flying
<1>9. InFlightIsDurable'
  BY <1>4, <1>5, <1>6 DEF IInv, InFlightIsDurable, OnlyInWalk, Running
<1> QED
  BY <1>3, <1>7, <1>8, <1>9 DEF IInv

LEMMA NextInv == IInv /\ [Next]_vars => IInv'
<1> SUFFICES ASSUME IInv, [Next]_vars PROVE IInv'
  OBVIOUS
<1>1. ASSUME NEW s \in Ships, NEW n \in Nodes, NodeStep(s, n) \/ Inconclusive(s, n)
      PROVE  IInv'
  BY <1>1, NodeStepEffect, NodeEffectInv
<1>2. CASE (\E n \in Nodes : Drift(n) \/ Adopt(n) \/ LandLate(n)) \/ UNCHANGED vars
  <2>1. UNCHANGED <<disk, outcome, spc, att, mem, npc>>
    BY <1>2 DEF Drift, Adopt, LandLate, vars, durableVars
  <2> QED
    BY <2>1 DEF IInv, RecordTypes, OwnAttempt, Running, OnlyInWalk, FlyingInMemory,
       InFlightIsDurable
<1> QED
  BY <1>1, <1>2, ReadHistoryInv, BeginApplyInv, PassThroughInv, EndInv DEF Next

(* Whatever the invocations, goroutines, errors and crashes of a ship do,  *)
(* in_flight is on disk in the attempt that may be calling the provider.   *)
THEOREM InFlightRecorded == Spec => []InFlightIsDurable
<1>1. IInv => InFlightIsDurable
  BY DEF IInv
<1> QED
  BY <1>1, InitInv, NextInv, PTL DEF Spec

-----------------------------------------------------------------------------
(* The fold of the history.  LastOf chooses the latest of the attempts     *)
(* that recorded something, and there is a latest.                         *)

LEMMA Least ==
  ASSUME NEW S \in SUBSET Nat, S # {}
  PROVE  \E m \in S : \A k \in S : m <= k
<1> DEFINE R == OpToRel(<, Nat)
<1>1. PICK m \in S : \A k \in S : <<k, m>> \notin R
  <2>1. IsWellFoundedOn(R, Nat)
    BY NatLessThanWellFounded
  <2> HIDE DEF R
  <2> QED
    BY <2>1, WFMin
<1>2. ASSUME NEW k \in S PROVE m <= k
  <2>1. <<k, m>> \in Nat \X Nat /\ <<k, m>> \notin R
    BY <1>1
  <2>2. ~(k < m)
    BY <2>1 DEF OpToRel
  <2> QED
    BY <2>2
<1> QED
  BY <1>2

LEMMA Latest ==
  ASSUME NEW S \in SUBSET Attempts, S # {}
  PROVE  \E m \in S : \A k \in S : k <= m
<1> USE ShipAssumption DEF Attempts
<1> DEFINE T == {u \in Nat : \A k \in S : k <= u}
<1>1. MaxAttempts \in T
  OBVIOUS
<1>2. PICK m \in T : \A u \in T : m <= u
  BY <1>1, Least
<1>3. m \in S
  <2> SUFFICES ASSUME m \notin S PROVE FALSE
    OBVIOUS
  <2>1. PICK k \in S : TRUE
    OBVIOUS
  <2>2. m - 1 \in Nat
    BY <2>1
  <2>3. \A j \in S : j <= m - 1
    OBVIOUS
  <2>4. m - 1 \in T
    BY <2>2, <2>3
  <2> QED
    BY <1>2, <2>4
<1> QED
  BY <1>3

LEMMA LastIsRecorded ==
  ASSUME NEW n, NEW field
  PROVE  LastOf(n, field) = "none" \/ \E a \in Attempts : disk[a][n][field] = LastOf(n, field)
<1> DEFINE on == {a \in Attempts : disk[a][n][field] # "none"}
           c == CHOOSE a \in on : \A b \in on : b <= a
<1>1. CASE on = {}
  BY <1>1 DEF LastOf
<1>2. CASE on # {}
  <2>1. \E m \in on : \A k \in on : k <= m
    BY <1>2, Latest
  <2>2. c \in on
    BY <2>1
  <2>3. LastOf(n, field) = disk[c][n][field]
    BY <1>2 DEF LastOf
  <2> QED
    BY <2>2, <2>3
<1> QED
  BY <1>1, <1>2

-----------------------------------------------------------------------------
(* The types of what the first invariant does not speak of.                *)
BookTypes ==
  /\ {world, adopted} \subseteq [Nodes -> {"before", "after", "other"}]
  /\ landed \in [Nodes -> Nat]
  /\ drifts \in 0 .. MaxDrifts
  /\ slow \subseteq Nodes
  /\ due \subseteq slow
  /\ hist \in [Ships -> [Nodes -> Histories]]
  /\ tries \in [Ships -> [Nodes -> 0 .. MaxRetries]]
  /\ tally \in [Ships -> [Tallies -> Nat]]

LEMMA FiniteFacts ==
  /\ IsFiniteSet(Nodes) /\ Cardinality(Nodes) \in Nat
  /\ \A S \in SUBSET Nodes : /\ IsFiniteSet(S) /\ Cardinality(S) \in Nat
                             /\ Cardinality(S) <= Cardinality(Nodes)
  /\ \A S \in SUBSET Attempts : /\ IsFiniteSet(S) /\ Cardinality(S) \in Nat
                                /\ Cardinality(S) <= MaxAttempts
<1>1. IsFiniteSet(Nodes) /\ Cardinality(Nodes) \in Nat
  BY ShipAssumption, FS_CardinalityType
<1>2. ASSUME NEW S \in SUBSET Nodes
      PROVE  IsFiniteSet(S) /\ Cardinality(S) \in Nat /\ Cardinality(S) <= Cardinality(Nodes)
  BY <1>1, FS_Subset, FS_CardinalityType
<1>3. IsFiniteSet(Attempts) /\ Cardinality(Attempts) = MaxAttempts
  BY FS_Interval, ShipAssumption DEF Attempts
<1>4. ASSUME NEW S \in SUBSET Attempts
      PROVE  IsFiniteSet(S) /\ Cardinality(S) \in Nat /\ Cardinality(S) <= MaxAttempts
  BY <1>3, FS_Subset, FS_CardinalityType
<1> QED
  BY <1>1, <1>2, <1>4

LEMMA HistoryType ==
  ASSUME RecordTypes, NEW n \in Nodes
  PROVE  History(n) \in Histories
<1>1. \A a \in Attempts : disk[a][n] \in Entries
  BY DEF RecordTypes
<1>2. LastOf(n, "state") \in States
  BY <1>1, LastIsRecorded DEF Entries, States
<1>3. LastOf(n, "saw") \in {"none", "present", "other"}
  BY <1>1, LastIsRecorded DEF Entries
<1>4. Flights(n) \in 0 .. MaxAttempts
  <2>1. {a \in Attempts : disk[a][n].flew} \in SUBSET Attempts
    OBVIOUS
  <2> QED
    BY <2>1, FiniteFacts DEF Flights
<1> QED
  BY <1>2, <1>3, <1>4 DEF History, Histories

LEMMA BookInit == Init => BookTypes
<1>1. NoHistory \in Histories /\ 0 \in 0 .. MaxRetries /\ 0 \in 0 .. MaxDrifts
  BY ShipAssumption DEF NoHistory, Histories, States
<1> QED
  BY <1>1 DEF Init, BookTypes

LEMMA BookStep ==
  ASSUME IInv, BookTypes, [Next]_vars
  PROVE  BookTypes'
<1> USE DEF BookTypes
<1>0. NoHistory \in Histories /\ 0 \in 0 .. MaxRetries
  BY ShipAssumption DEF NoHistory, Histories, States
<1>1. CASE UNCHANGED vars
  BY <1>1 DEF vars, realVars
<1>2. ASSUME NEW s \in Ships, ReadHistory(s)
      PROVE  BookTypes'
  <2>1. [n \in Nodes |-> History(n)] \in [Nodes -> Histories]
    BY HistoryType DEF IInv
  <2>2. hist' \in [Ships -> [Nodes -> Histories]]
    BY <1>2, <2>1 DEF ReadHistory
  <2> QED
    BY <1>2, <2>2 DEF ReadHistory, realVars
<1>3. ASSUME NEW s \in Ships, BeginApply(s)
      PROVE  BookTypes'
  BY <1>3 DEF BeginApply, realVars
<1>4. ASSUME NEW s \in Ships, PassThrough(s)
      PROVE  BookTypes'
  <2>1. Cardinality(Seed(s)) \in Nat
    BY FiniteFacts DEF Seed
  <2>2. tally' \in [Ships -> [Tallies -> Nat]]
    BY <1>4, <2>1 DEF PassThrough
  <2> QED
    BY <1>4, <2>2 DEF PassThrough, realVars
<1>5. ASSUME NEW s \in Ships, Seal(s) \/ Crash(s)
      PROVE  BookTypes'
  <2>1. /\ hist' = [hist EXCEPT ![s] = [n \in Nodes |-> NoHistory]]
        /\ tries' = [tries EXCEPT ![s] = [n \in Nodes |-> 0]]
        /\ tally' = [tally EXCEPT ![s] = [t \in Tallies |-> 0]]
        /\ UNCHANGED realVars
    BY <1>5 DEF Seal, Crash, Forget
  <2>2. /\ [n \in Nodes |-> NoHistory] \in [Nodes -> Histories]
        /\ [n \in Nodes |-> 0] \in [Nodes -> 0 .. MaxRetries]
        /\ [t \in Tallies |-> 0] \in [Tallies -> Nat]
    BY <1>0
  <2>3. hist' \in [Ships -> [Nodes -> Histories]] /\ tries' \in [Ships -> [Nodes -> 0 .. MaxRetries]]
    BY <2>1, <2>2
  <2>4. tally' \in [Ships -> [Tallies -> Nat]]
    BY <2>1, <2>2
  <2> QED
    BY <2>1, <2>3, <2>4 DEF realVars
<1>6. ASSUME NEW s \in Ships, NEW t \in Tallies, Tally(s, t)
      PROVE  tally' \in [Ships -> [Tallies -> Nat]]
  BY <1>6 DEF Tally
<1>7. ASSUME NEW s \in Ships, NEW n \in Nodes,
             \/ Launch(s, n) \/ Complete(s, n) \/ Begin(s, n) \/ Fly(s, n) \/ Suspect(s, n)
             \/ Inconclusive(s, n)
      PROVE  BookTypes'
  BY <1>7 DEF Launch, Complete, Begin, Fly, Suspect, Inconclusive, realVars
<1>8. ASSUME NEW s \in Ships, NEW n \in Nodes,
             \/ Blocked(s, n) \/ Unavailable(s, n) \/ Halt(s, n) \/ AlreadyAbsent(s, n)
             \/ Succeed(s, n) \/ LeaveUnknown(s, n)
             \/ ConfirmApplied(s, n) \/ ConfirmFailed(s, n) \/ Exhaust(s, n)
      PROVE  BookTypes'
  <2>1. UNCHANGED <<realVars, hist, tries>> /\ \E t \in Tallies : Tally(s, t)
    BY <1>8 DEF Blocked, Unavailable, Halt, AlreadyAbsent, Succeed, LeaveUnknown,
       ConfirmApplied, ConfirmFailed, Exhaust, Verdict, Finish, Tallies
  <2> QED
    BY <1>6, <2>1 DEF realVars
<1>9. ASSUME NEW s \in Ships, NEW n \in Nodes, ApplyResourceChange(s, n)
      PROVE  BookTypes'
  BY <1>9 DEF ApplyResourceChange
<1>10. ASSUME NEW s \in Ships, NEW n \in Nodes, RetryCreate(s, n)
       PROVE  BookTypes'
  <2>1. tries[s][n] + 1 \in 0 .. MaxRetries
    BY <1>10, ShipAssumption DEF RetryCreate
  <2>2. tries' \in [Ships -> [Nodes -> 0 .. MaxRetries]]
    BY <1>10, <2>1 DEF RetryCreate
  <2> QED
    BY <1>10, <2>2 DEF RetryCreate, realVars
<1>11. ASSUME NEW n \in Nodes, Drift(n) \/ Adopt(n) \/ LandLate(n)
       PROVE  BookTypes'
  <2>0. CASE Drift(n)
    <3>1. world' \in [Nodes -> {"before", "after", "other"}]
      BY <2>0 DEF Drift
    <3> QED
      BY <2>0, <3>1, ShipAssumption DEF Drift
  <2>1. CASE LandLate(n)
    <3>1. world' \in [Nodes -> {"before", "after", "other"}]
      BY <2>1 DEF LandLate
    <3> QED
      BY <2>1, <3>1 DEF LandLate
  <2>2. CASE Adopt(n)
    <3>1. adopted' \in [Nodes -> {"before", "after", "other"}]
      BY <2>2 DEF Adopt
    <3> QED
      BY <2>2, <3>1 DEF Adopt
  <2> QED
    BY <1>11, <2>0, <2>1, <2>2
<1> QED
  BY <1>1, <1>2, <1>3, <1>4, <1>5, <1>7, <1>8, <1>9, <1>10, <1>11 DEF Next, NodeStep

-----------------------------------------------------------------------------
(* The steps of a goroutine, by what they do to the record: the entry and  *)
(* the phase of its own node change, and no other's.                       *)
Moves(s, n, entry, phase) ==
  /\ spc[s] = "walk"
  /\ UNCHANGED <<outcome, spc, att, hist>>
  /\ \A t \in Ships, k \in Nodes :
       /\ mem'[t][k] = IF t = s /\ k = n THEN entry ELSE mem[t][k]
       /\ npc'[t][k] = IF t = s /\ k = n THEN phase ELSE npc[t][k]

Saves(s) ==
  \A a \in Attempts, k \in Nodes :
    disk'[a][k] = IF a = att[s] THEN mem'[s][k] ELSE disk[a][k]

Counts(s, t) ==
  \A r \in Ships, u \in Tallies :
    tally'[r][u] = IF r = s /\ u = t THEN tally[r][u] + 1 ELSE tally[r][u]

EndStates == {"pending", "applied", "failed", "unknown_post_timeout", "still_unknown"}
TallyOf(state) == IF state = "applied" THEN "applied"
                  ELSE IF state \in {"pending", "failed"} THEN "failed" ELSE "unknown"

(* A seeded node is launched again only if a dependency was not seeded.    *)
Startable(s, n) ==
  npc[s][n] = "waiting" \/ (npc[s][n] = "seeded" /\ ~ Deps[n] \subseteq Seed(s))

Launched(s, n) ==
  /\ Startable(s, n) /\ \A d \in Deps[n] : HasResult(s, d)
  /\ Moves(s, n, mem[s][n], "running")
  /\ UNCHANGED <<disk, realVars, tries, tally>>

Received(s, n) ==
  /\ npc[s][n] = "sent"
  /\ Moves(s, n, mem[s][n], "done")
  /\ UNCHANGED <<disk, realVars, tries, tally>>

Ended(s, n, entry) ==
  /\ Startable(s, n) \/ npc[s][n] \in {"running", "begun", "ok", "err", "reconcile"}
  /\ entry.state \in EndStates /\ entry.flew = mem[s][n].flew
  /\ entry.state = "applied" =>
       /\ npc[s][n] \in Working
       /\ world[n] = "after" \/ (npc[s][n] = "ok" /\ Kind[n] # "destroy")
  /\ Moves(s, n, entry, "sent") /\ Saves(s) /\ Counts(s, TallyOf(entry.state))
  /\ UNCHANGED <<realVars, tries>>

(* Between pending and the verdict; what is unsettled may be saved or not. *)
Worked(s, n, entry, phase) ==
  /\ \/ npc[s][n] = "running" /\ phase \in {"begun", "reconcile"}
     \/ npc[s][n] \in {"ok", "err", "reconcile"} /\ phase = "reconcile"
  /\ entry.flew = mem[s][n].flew
  /\ \/ entry.state \in {"pending", "unknown_post_timeout"}
     \/ npc[s][n] = "reconcile" /\ entry.state = mem[s][n].state
  /\ Moves(s, n, entry, phase) /\ (UNCHANGED disk \/ Saves(s))
  /\ UNCHANGED <<realVars, tries, tally>>

Flown(s, n, entry) ==
  /\ npc[s][n] = "begun" /\ WithinBudget(s, n) /\ Fresh(n)
  /\ entry.state = "in_flight" /\ entry.flew
  /\ Moves(s, n, entry, "apply") /\ Saves(s)
  /\ UNCHANGED <<realVars, tries, tally>>

Called(s, n, phase) ==
  /\ ApplyResourceChange(s, n)
  /\ phase \in {"ok", "err"}
  /\ Moves(s, n, mem[s][n], phase)

Retried(s, n) ==
  /\ RetryCreate(s, n)
  /\ Moves(s, n, mem[s][n], "apply")

StepClass(s, n) ==
  \/ Launched(s, n) \/ Received(s, n)
  \/ \E entry \in Entries : Ended(s, n, entry) \/ Flown(s, n, entry)
  \/ \E entry \in Entries, phase \in Working : Worked(s, n, entry, phase)
  \/ \E phase \in {"ok", "err"} : Called(s, n, phase)
  \/ Retried(s, n)

(* What the actions write, entry by entry.                                 *)
LEMMA MovesPointwise ==
  ASSUME RecordTypes, NEW s \in Ships, NEW n \in Nodes, NEW entry, NEW phase, spc[s] = "walk",
         mem' = [mem EXCEPT ![s] = [mem[s] EXCEPT ![n] = entry]],
         npc' = [npc EXCEPT ![s] = [npc[s] EXCEPT ![n] = phase]],
         UNCHANGED <<outcome, spc, att, hist>>
  PROVE  Moves(s, n, entry, phase)
BY DEF RecordTypes, Moves

LEMMA SavesPointwise ==
  ASSUME RecordTypes, NEW s \in Ships, Persist(s)
  PROVE  Saves(s)
BY DEF RecordTypes, Persist, Saves

LEMMA CountsPointwise ==
  ASSUME BookTypes, NEW s \in Ships, NEW t \in Tallies, Tally(s, t)
  PROVE  Counts(s, t)
BY DEF BookTypes, Tally, Counts

LEMMA StepClasses ==
  ASSUME IInv, BookTypes, NEW s \in Ships, NEW n \in Nodes, NodeStep(s, n) \/ Inconclusive(s, n)
  PROVE  StepClass(s, n)
<1> DEFINE e == mem[s][n]
<1>0. /\ RecordTypes
      /\ e \in Entries
      /\ mem \in [Ships -> [Nodes -> Entries]]
      /\ npc \in [Ships -> [Nodes -> Idle \cup Working \cup {"running"}]]
      /\ npc[s][n] # "waiting" => spc[s] = "walk"
  BY DEF IInv, RecordTypes, OnlyInWalk
<1>1. mem = [mem EXCEPT ![s] = [mem[s] EXCEPT ![n] = e]]
  BY <1>0
<1> USE DEF Goto
<1>2. CASE Launch(s, n)
  <2>1. Moves(s, n, e, "running")
    BY <1>0, <1>1, <1>2, MovesPointwise DEF Launch, Launchable, durableVars
  <2> QED
    BY <1>2, <2>1 DEF StepClass, Launched, Launch, Launchable, Startable, durableVars
<1>3. CASE Complete(s, n)
  <2>1. Moves(s, n, e, "done")
    BY <1>0, <1>1, <1>3, MovesPointwise DEF Complete, durableVars
  <2> QED
    BY <1>3, <2>1 DEF StepClass, Received, Complete, durableVars
(* The ways a node ends.                                                   *)
<1>4. ASSUME NEW entry \in Entries,
             mem' = [mem EXCEPT ![s] = [mem[s] EXCEPT ![n] = entry]],
             npc' = [npc EXCEPT ![s][n] = "sent"],
             Startable(s, n) \/ npc[s][n] \in {"running", "begun", "ok", "err", "reconcile"},
             entry.state \in EndStates, entry.flew = e.flew,
             entry.state = "applied" =>
               /\ npc[s][n] \in Working
               /\ world[n] = "after" \/ (npc[s][n] = "ok" /\ Kind[n] # "destroy"),
             spc[s] = "walk", Persist(s), Tally(s, TallyOf(entry.state)),
             UNCHANGED <<outcome, spc, att, hist, realVars, tries>>
      PROVE  StepClass(s, n)
  <2>1. Moves(s, n, entry, "sent")
    BY <1>0, <1>4, MovesPointwise
  <2>2. Saves(s)
    BY <1>0, <1>4, SavesPointwise
  <2>3. Counts(s, TallyOf(entry.state))
    BY <1>4, CountsPointwise DEF TallyOf, Tallies
  <2> QED
    BY <1>4, <2>1, <2>2, <2>3 DEF StepClass, Ended
<1>5. ASSUME NEW state \in EndStates, state # "applied" \/ (npc[s][n] = "ok" /\ Kind[n] # "destroy"),
             Finish(s, n, state, TallyOf(state)),
             Startable(s, n) \/ npc[s][n] \in {"running", "begun", "ok", "err", "reconcile"},
             spc[s] = "walk", UNCHANGED <<outcome, spc, att, hist, realVars, tries>>
      PROVE  StepClass(s, n)
  <2> DEFINE x == [e EXCEPT !.state = state]
  <2>1. x \in Entries /\ x.state = state /\ x.flew = e.flew
    BY <1>0, <1>5 DEF Entries, EndStates, States, Unresolved
  <2>2. mem' = [mem EXCEPT ![s] = [mem[s] EXCEPT ![n] = x]]
    BY <1>0, <1>5 DEF Finish, Transition
  <2> HIDE DEF x
  <2> QED
    BY <1>4, <1>5, <2>1, <2>2 DEF Finish, Working
<1>6. CASE Blocked(s, n)
  BY <1>5, <1>6 DEF Blocked, Launchable, Startable, EndStates, TallyOf
<1>7. CASE Unavailable(s, n)
  BY <1>0, <1>5, <1>7 DEF Unavailable, EndStates, TallyOf
<1>8. CASE Succeed(s, n)
  BY <1>0, <1>5, <1>8 DEF Succeed, EndStates, TallyOf
<1>9. CASE LeaveUnknown(s, n)
  BY <1>0, <1>5, <1>9 DEF LeaveUnknown, EndStates, TallyOf
<1>10. ASSUME NEW state \in EndStates, NEW saw \in {"none", "present", "other"},
              state = "applied" => world[n] = "after",
              mem' = [mem EXCEPT ![s][n].state = state, ![s][n].saw = saw],
              npc' = [npc EXCEPT ![s][n] = "sent"],
              npc[s][n] \in {"begun", "reconcile"},
              Persist(s), Tally(s, TallyOf(state)),
              UNCHANGED <<outcome, spc, att, hist, realVars, tries>>
      PROVE  StepClass(s, n)
  <2> DEFINE x == [e EXCEPT !.state = state, !.saw = saw]
  <2>1. x \in Entries /\ x.state = state /\ x.flew = e.flew
    BY <1>0, <1>10 DEF Entries, EndStates, States, Unresolved
  <2>2. mem' = [mem EXCEPT ![s] = [mem[s] EXCEPT ![n] = x]]
    BY <1>0, <1>10
  <2> HIDE DEF x
  <2> QED
    BY <1>0, <1>4, <1>10, <2>1, <2>2 DEF Working
<1>11. CASE Halt(s, n)
  <2>1. PICK saw \in {"none", "present", "other"} :
          mem' = [mem EXCEPT ![s][n].state = "pending", ![s][n].saw = saw]
    BY <1>11 DEF Halt, Precheck
  <2> QED
    BY <1>10, <1>11, <2>1 DEF Halt, EndStates, TallyOf
<1>12. CASE AlreadyAbsent(s, n)
  <2>1. mem' = [mem EXCEPT ![s][n].state = "applied", ![s][n].saw = "other"]
    BY <1>12 DEF AlreadyAbsent
  <2> QED
    BY <1>10, <1>12, <2>1 DEF AlreadyAbsent, EndStates, TallyOf
<1>13. CASE ConfirmApplied(s, n) \/ ConfirmFailed(s, n) \/ Exhaust(s, n)
  <2>1. PICK state \in {"applied", "failed", "still_unknown"} :
          Verdict(s, n, state, TallyOf(state)) /\ (state = "applied" => world[n] = "after")
    BY <1>13 DEF ConfirmApplied, ConfirmFailed, Exhaust, TallyOf
  <2>2. PICK saw \in {"none", "present", "other"} :
          mem' = [mem EXCEPT ![s][n].state = state, ![s][n].saw = saw]
    <3> e.saw \in {"none", "present", "other"}
      BY <1>0 DEF Entries
    <3> QED
      BY <1>0, <2>1 DEF Verdict
  <2> QED
    BY <1>10, <2>1, <2>2 DEF Verdict, EndStates
(* Steps within the node's work.                                           *)
<1>14. CASE Begin(s, n)
  <2> DEFINE x == [e EXCEPT !.state = "pending"]
  <2>1. PICK phase \in {"reconcile", "begun"} : npc' = [npc EXCEPT ![s][n] = phase]
    BY <1>14 DEF Begin
  <2>2. x \in Entries /\ x.state = "pending" /\ x.flew = e.flew
    BY <1>0, EntrySteps DEF Entries, States
  <2>3. mem' = [mem EXCEPT ![s] = [mem[s] EXCEPT ![n] = x]]
    BY <1>0, <1>14 DEF Begin, Transition
  <2> HIDE DEF x
  <2>4. Moves(s, n, x, phase)
    BY <1>0, <1>14, <2>1, <2>3, MovesPointwise DEF Begin, durableVars
  <2>5. Worked(s, n, x, phase)
    BY <1>14, <2>2, <2>4 DEF Begin, Worked, durableVars
  <2> QED
    BY <2>2, <2>5 DEF StepClass, Working
<1>15. CASE Fly(s, n)
  <2>1. PICK saw \in {"none", "present"} :
          mem' = [mem EXCEPT ![s][n] = [state |-> "in_flight", flew |-> TRUE, saw |-> saw]]
    BY <1>15 DEF Fly
  <2> DEFINE x == [state |-> "in_flight", flew |-> TRUE, saw |-> saw]
  <2>2. x \in Entries /\ x.state = "in_flight" /\ x.flew
    BY EntrySteps DEF Entries, States, Unresolved
  <2>3. mem' = [mem EXCEPT ![s] = [mem[s] EXCEPT ![n] = x]]
    BY <1>0, <2>1
  <2> HIDE DEF x
  <2>4. Moves(s, n, x, "apply")
    BY <1>0, <1>15, <2>3, MovesPointwise DEF Fly
  <2>5. Flown(s, n, x)
    BY <1>0, <1>15, <2>2, <2>4, SavesPointwise DEF Fly, Flown
  <2> QED
    BY <2>2, <2>5 DEF StepClass
<1>16. CASE Suspect(s, n)
  <2> DEFINE x == [e EXCEPT !.state = "unknown_post_timeout"]
  <2>2. x \in Entries /\ x.state = "unknown_post_timeout" /\ x.flew = e.flew
    BY <1>0 DEF Entries, States, Unresolved
  <2>3. mem' = [mem EXCEPT ![s] = [mem[s] EXCEPT ![n] = x]]
    BY <1>0, <1>16 DEF Suspect, Transition
  <2> HIDE DEF x
  <2>4. Moves(s, n, x, "reconcile")
    BY <1>0, <1>16, <2>3, MovesPointwise DEF Suspect
  <2>5. Worked(s, n, x, "reconcile")
    BY <1>0, <1>16, <2>2, <2>4, SavesPointwise DEF Suspect, Worked
  <2> QED
    BY <2>2, <2>5 DEF StepClass, Working
<1>17. CASE Inconclusive(s, n)
  <2> DEFINE x == [e EXCEPT !.saw = "other"]
  <2>2. x \in Entries /\ x.state = e.state /\ x.flew = e.flew
    BY <1>0 DEF Entries
  <2>3. mem' = [mem EXCEPT ![s] = [mem[s] EXCEPT ![n] = x]]
    BY <1>0, <1>17 DEF Inconclusive
  <2>4. npc' = [npc EXCEPT ![s] = [npc[s] EXCEPT ![n] = "reconcile"]]
    BY <1>0, <1>17 DEF Inconclusive
  <2> HIDE DEF x
  <2>5. Moves(s, n, x, "reconcile")
    BY <1>0, <1>17, <2>3, <2>4, MovesPointwise DEF Inconclusive, durableVars
  <2>6. Worked(s, n, x, "reconcile")
    BY <1>17, <2>2, <2>5 DEF Inconclusive, Worked, durableVars
  <2> QED
    BY <2>2, <2>6 DEF StepClass, Working
(* The calls of the provider.                                              *)
<1>18. CASE ApplyResourceChange(s, n)
  <2>1. PICK phase \in {"ok", "err"} : npc' = [npc EXCEPT ![s][n] = phase]
    BY <1>18 DEF ApplyResourceChange
  <2>2. Moves(s, n, e, phase)
    BY <1>0, <1>1, <1>18, <2>1, MovesPointwise DEF ApplyResourceChange, durableVars
  <2> QED
    BY <1>18, <2>2 DEF StepClass, Called
<1>19. CASE RetryCreate(s, n)
  <2>1. Moves(s, n, e, "apply")
    BY <1>0, <1>1, <1>19, MovesPointwise DEF RetryCreate, durableVars
  <2> QED
    BY <1>19, <2>1 DEF StepClass, Retried
<1> QED
  BY <1>2, <1>3, <1>6, <1>7, <1>8, <1>9, <1>11, <1>12, <1>13, <1>14, <1>15, <1>16, <1>17,
     <1>18, <1>19 DEF NodeStep

-----------------------------------------------------------------------------
(* What is recorded applied, on disk, in memory or in a folded history, or *)
(* answered "ok" for anything but a destroy, is what the proposal wanted;  *)
(* and what once is stays so.                                              *)
Vouched(n) ==
  \/ \E a \in Attempts : disk[a][n].state = "applied"
  \/ \E s \in Ships : \/ mem[s][n].state = "applied" \/ hist[s][n].state = "applied"
                      \/ npc[s][n] = "ok" /\ Kind[n] # "destroy"

RealInv == \A n \in Nodes : Vouched(n) => world[n] = "after"

LEMMA AppliedSomewhere ==
  ASSUME NEW n \in Nodes, Applied(n)
  PROVE  \E a \in Attempts : disk[a][n].state = "applied"
BY LastIsRecorded DEF Applied

LEMMA AfterIsFinal ==
  ASSUME BookTypes, [Next]_vars, NEW n \in Nodes, world[n] = "after"
  PROVE  world'[n] = "after"
<1>1. ASSUME NEW s \in Ships, NEW k \in Nodes, NodeStep(s, k) \/ Inconclusive(s, k)
      PROVE  UNCHANGED world \/ world' = [world EXCEPT ![k] = "after"]
  <2>1. CASE ApplyResourceChange(s, k)
    BY <2>1 DEF ApplyResourceChange, BookTypes
  <2> QED
    BY <1>1, <2>1 DEF NodeStep, Launch, Blocked, Complete, Unavailable, Begin, Halt, AlreadyAbsent,
       Fly, RetryCreate, Succeed, LeaveUnknown, Suspect, ConfirmApplied, ConfirmFailed, Exhaust,
       Verdict, Inconclusive, realVars
<1>2. ASSUME NEW k \in Nodes, Drift(k) \/ Adopt(k) \/ LandLate(k)
      PROVE  world'[n] = "after"
  BY <1>2 DEF Drift, Adopt, LandLate, BookTypes
<1> QED
  BY <1>1, <1>2 DEF Next, ReadHistory, BeginApply, PassThrough, Seal, Crash, realVars, vars, BookTypes

LEMMA RealInit == Init => RealInv
BY ShipAssumption DEF Init, RealInv, Vouched, NoEntry, NoHistory

(* A goroutine vouches for a resource after the provider's answer, or      *)
(* after a read that showed it as wanted.                                  *)
LEMMA RealNode ==
  ASSUME IInv, BookTypes, RealInv, [Next]_vars,
         NEW s \in Ships, NEW n \in Nodes, StepClass(s, n)
  PROVE  RealInv'
<1> SUFFICES ASSUME NEW k \in Nodes, Vouched(k)' PROVE world'[k] = "after"
  BY DEF RealInv
<1>0. Vouched(k) => world'[k] = "after"
  BY AfterIsFinal DEF RealInv
<1>1. ASSUME NEW entry, NEW phase, Moves(s, n, entry, phase), UNCHANGED disk \/ Saves(s),
             k = n /\ entry.state = "applied" => Vouched(k),
             phase = "ok" /\ k = n /\ Kind[n] # "destroy" => world'[k] = "after"
      PROVE  world'[k] = "after"
  <2>1. CASE \E a \in Attempts : disk'[a][k].state = "applied"
    BY <1>0, <1>1, <2>1 DEF Moves, Saves, Vouched
  <2>2. CASE \E t \in Ships : mem'[t][k].state = "applied" \/ hist'[t][k].state = "applied"
    BY <1>0, <1>1, <2>2 DEF Moves, Vouched
  <2>3. CASE \E t \in Ships : npc'[t][k] = "ok" /\ Kind[k] # "destroy"
    BY <1>0, <1>1, <2>3 DEF Moves, Vouched
  <2> QED
    BY <2>1, <2>2, <2>3 DEF Vouched
<1>2. CASE Launched(s, n)
  BY <1>1, <1>2 DEF Launched, Vouched
<1>3. CASE Received(s, n)
  BY <1>1, <1>3 DEF Received, Vouched
<1>4. ASSUME NEW entry \in Entries, Ended(s, n, entry)
      PROVE  world'[k] = "after"
  <2>1. CASE k = n /\ entry.state = "applied" /\ ~Vouched(k)
    <3>1. world[n] = "after"
      BY <1>4, <2>1 DEF Ended, Vouched
    <3> QED
      BY <2>1, <3>1, AfterIsFinal
  <2>2. CASE ~(k = n /\ entry.state = "applied" /\ ~Vouched(k))
    BY <1>1, <1>4, <2>2 DEF Ended
  <2> QED
    BY <2>1, <2>2
<1>5. ASSUME NEW entry \in Entries, Flown(s, n, entry)
      PROVE  world'[k] = "after"
  BY <1>1, <1>5 DEF Flown
<1>6. ASSUME NEW entry \in Entries, NEW phase \in Working, Worked(s, n, entry, phase)
      PROVE  world'[k] = "after"
  BY <1>1, <1>6 DEF Worked, Vouched
<1>7. ASSUME NEW phase \in {"ok", "err"}, Called(s, n, phase)
      PROVE  world'[k] = "after"
  <2>1. phase = "ok" /\ Kind[n] # "destroy" => world'[n] = "after"
    <3>1. npc' = [npc EXCEPT ![s][n] = phase]
      <4>1. PICK answer \in {"ok", "err"} : npc' = [npc EXCEPT ![s][n] = answer]
        BY <1>7 DEF Called, ApplyResourceChange, Goto
      <4>2. answer = phase
        BY <1>7, <4>1 DEF Called, Moves, IInv, RecordTypes
      <4> QED
        BY <4>1, <4>2
    <3>2. PICK answer \in {"ok", "err"}, effect \in {"now", "later", "never"} :
            /\ answer = "ok" /\ Kind[n] # "destroy" => effect = "now"
            /\ npc' = [npc EXCEPT ![s][n] = answer]
            /\ world' = [world EXCEPT ![n] = IF effect = "now" THEN "after" ELSE @]
      BY <1>7 DEF Called, ApplyResourceChange, Goto
    <3> QED
      BY <3>1, <3>2 DEF IInv, RecordTypes, BookTypes
  <2>2. UNCHANGED disk
    BY <1>7 DEF Called, ApplyResourceChange, durableVars
  <2> QED
    BY <1>1, <1>7, <2>1, <2>2 DEF Called, Vouched
<1>8. CASE Retried(s, n)
  <2>1. UNCHANGED disk
    BY <1>8 DEF Retried, RetryCreate, durableVars
  <2> QED
    BY <1>1, <1>8, <2>1 DEF Retried, Vouched
<1> QED
  BY <1>2, <1>3, <1>4, <1>5, <1>6, <1>7, <1>8 DEF StepClass

LEMMA RealStep ==
  ASSUME IInv, BookTypes, RealInv, [Next]_vars
  PROVE  RealInv'
<1>0. ASSUME NEW k \in Nodes, Vouched(k)
      PROVE  world'[k] = "after"
  BY <1>0, AfterIsFinal DEF RealInv
<1>1. ASSUME NEW s \in Ships, NEW n \in Nodes, NodeStep(s, n) \/ Inconclusive(s, n)
      PROVE  RealInv'
  BY <1>1, StepClasses, RealNode
<1>2. CASE (\E n \in Nodes : Drift(n) \/ Adopt(n) \/ LandLate(n)) \/ UNCHANGED vars
  <2>1. UNCHANGED <<disk, mem, hist, npc>>
    BY <1>2 DEF Drift, Adopt, LandLate, vars, durableVars
  <2> QED
    BY <1>0, <2>1 DEF RealInv, Vouched
(* What was folded was on disk.                                            *)
<1>3. ASSUME NEW s \in Ships, ReadHistory(s)
      PROVE  RealInv'
  <2> SUFFICES ASSUME NEW k \in Nodes, Vouched(k)' PROVE Vouched(k)
    BY <1>0 DEF RealInv
  <2>1. UNCHANGED <<disk, mem, npc>>
    BY <1>3 DEF ReadHistory, durableVars
  <2>2. \A t \in Ships : hist'[t][k] = IF t = s THEN History(k) ELSE hist[t][k]
    BY <1>3 DEF ReadHistory, BookTypes
  <2>3. History(k).state = "applied" => Applied(k)
    BY DEF History, Applied
  <2> QED
    BY <2>1, <2>2, <2>3, AppliedSomewhere DEF Vouched
<1>4. ASSUME NEW s \in Ships, BeginApply(s)
      PROVE  RealInv'
  BY <1>0, <1>4 DEF BeginApply, RealInv, Vouched
<1>5. ASSUME NEW s \in Ships, PassThrough(s)
      PROVE  RealInv'
  <2> SUFFICES ASSUME NEW k \in Nodes, Vouched(k)' PROVE Vouched(k)
    BY <1>0 DEF RealInv
  <2>1. UNCHANGED hist
    BY <1>5 DEF PassThrough
  <2>2. \A t \in Ships : mem'[t][k].state = "applied" =>
                           mem[t][k].state = "applied" \/ hist[t][k].state = "applied"
    BY <1>5 DEF PassThrough, IInv, RecordTypes, Seed, NoEntry
  <2>3. \A t \in Ships : npc'[t][k] = "ok" => npc[t][k] = "ok"
    BY <1>5 DEF PassThrough, IInv, RecordTypes
  <2>4. \A a \in Attempts : disk'[a][k] = disk[a][k] \/ disk'[a][k] = mem'[s][k]
    BY <1>5 DEF PassThrough, Persist, IInv, RecordTypes
  <2> QED
    BY <2>1, <2>2, <2>3, <2>4 DEF Vouched
<1>6. ASSUME NEW s \in Ships, Seal(s) \/ Crash(s)
      PROVE  RealInv'
  <2> SUFFICES ASSUME NEW k \in Nodes, Vouched(k)' PROVE Vouched(k)
    BY <1>0 DEF RealInv
  <2>1. \A t \in Ships : /\ mem'[t][k].state = "applied" => mem[t][k].state = "applied"
                         /\ hist'[t][k].state = "applied" => hist[t][k].state = "applied"
                         /\ npc'[t][k] = "ok" => npc[t][k] = "ok"
    <3>1. Forget(s)
      BY <1>6 DEF Seal, Crash
    <3>2. \A t \in Ships : mem'[t][k] = IF t = s THEN NoEntry ELSE mem[t][k]
      BY <3>1 DEF Forget, IInv, RecordTypes
    <3>3. \A t \in Ships : hist'[t][k] = IF t = s THEN NoHistory ELSE hist[t][k]
      BY <3>1 DEF Forget, BookTypes
    <3>4. \A t \in Ships : npc'[t][k] = IF t = s THEN "waiting" ELSE npc[t][k]
      BY <3>1 DEF Forget, IInv, RecordTypes
    <3> QED
      BY <3>2, <3>3, <3>4 DEF NoEntry, NoHistory
  <2>2. \A a \in Attempts : disk'[a][k] = disk[a][k] \/ disk'[a][k] = mem[s][k]
    BY <1>6 DEF Seal, Crash, durableVars, IInv, RecordTypes
  <2> QED
    BY <2>1, <2>2 DEF Vouched
<1> QED
  BY <1>1, <1>2, <1>3, <1>4, <1>5, <1>6 DEF Next

(* Whatever is recorded applied is what the proposal wanted, for any       *)
(* number of invocations at a time: nobody records it before the provider  *)
(* answered or a read showed it, and crashes and late effects do not undo  *)
(* it.                                                                     *)
THEOREM AppliedIsWanted == Spec => []AppliedIsReal
<1>1. IInv /\ BookTypes /\ RealInv => AppliedIsReal
  BY AppliedSomewhere DEF AppliedIsReal, RealInv, Vouched
<1>2. Init => IInv /\ BookTypes /\ RealInv
  BY InitInv, BookInit, RealInit
<1>3. IInv /\ BookTypes /\ RealInv /\ [Next]_vars => (IInv /\ BookTypes /\ RealInv)'
  BY NextInv, BookStep, RealStep
<1> QED
  BY <1>1, <1>2, <1>3, PTL DEF Spec

-----------------------------------------------------------------------------
(* Every variable keeps its type, the recorder's counters included.        *)
THEOREM ShipTypesCorrect == Spec => []ShipTypeOK
<1>1. IInv /\ BookTypes => ShipTypeOK
  BY DEF ShipTypeOK, IInv, RecordTypes, BookTypes
<1>2. Init => IInv /\ BookTypes
  BY InitInv, BookInit
<1>3. IInv /\ BookTypes /\ [Next]_vars => (IInv /\ BookTypes)'
  BY NextInv, BookStep
<1> QED
  BY <1>1, <1>2, <1>3, PTL DEF Spec

-----------------------------------------------------------------------------
(* What nobody has begun is blank, and so is an attempt just begun.        *)
BlankInv ==
  /\ \A a \in Attempts, n \in Nodes : outcome[a] = "none" => disk[a][n] = NoEntry
  /\ \A s \in Ships, n \in Nodes : spc[s] = "pass" => disk[att[s]][n] = NoEntry

(* A write of one's own attempt reaches no other.                          *)
LEMMA BlankWrite ==
  ASSUME IInv, BlankInv, NEW s \in Ships, Running(s),
         \A a \in Attempts, k \in Nodes : a # att[s] => disk'[a][k] = disk[a][k],
         spc'[s] # "pass", \A t \in Ships : t # s => spc'[t] = spc[t] /\ att'[t] = att[t],
         \A a \in Attempts : outcome'[a] = "none" => outcome[a] = "none"
  PROVE  BlankInv'
<1>1. \A t \in Ships : t # s /\ spc[t] = "pass" => att[t] # att[s] /\ att[t] \in Attempts
  BY DEF IInv, OwnAttempt, Running, RecordTypes
<1>2. outcome[att[s]] # "none"
  BY DEF IInv, OwnAttempt
<1> QED
  BY <1>1, <1>2 DEF BlankInv

LEMMA BlankStep ==
  ASSUME IInv, BookTypes, BlankInv, [Next]_vars
  PROVE  BlankInv'
<1>1. ASSUME NEW s \in Ships, NEW n \in Nodes, NodeStep(s, n) \/ Inconclusive(s, n)
      PROVE  BlankInv'
  <2>1. PICK entry \in Entries, phase \in Idle \cup Working \cup {"running"} :
          NodeEffect(s, n, entry, phase)
    BY <1>1, NodeStepEffect
  <2>2. \A a \in Attempts, k \in Nodes : a # att[s] => disk'[a][k] = disk[a][k]
    BY <2>1 DEF NodeEffect, IInv, RecordTypes
  <2> QED
    BY <2>1, <2>2, BlankWrite DEF NodeEffect, Running
<1>2. ASSUME NEW s \in Ships, PassThrough(s)
      PROVE  BlankInv'
  <2>1. \A a \in Attempts, k \in Nodes : a # att[s] => disk'[a][k] = disk[a][k]
    BY <1>2 DEF PassThrough, Persist, IInv, RecordTypes
  <2> QED
    BY <1>2, <2>1, BlankWrite DEF PassThrough, MainStep, Running, IInv, RecordTypes
<1>3. CASE (\E n \in Nodes : Drift(n) \/ Adopt(n) \/ LandLate(n)) \/ UNCHANGED vars
  BY <1>3 DEF Drift, Adopt, LandLate, vars, durableVars, BlankInv
<1>4. ASSUME NEW s \in Ships, ReadHistory(s)
      PROVE  BlankInv'
  BY <1>4 DEF ReadHistory, MainStep, durableVars, IInv, RecordTypes, BlankInv
<1>5. ASSUME NEW s \in Ships, BeginApply(s)
      PROVE  BlankInv'
  <2>1. PICK a \in Attempts : /\ outcome[a] = "none"
                              /\ att' = [att EXCEPT ![s] = a]
                              /\ outcome' = [outcome EXCEPT ![a] = "open"]
    <3>1. PICK a \in Attempts : /\ \A b \in Attempts : outcome[b] = "none" <=> b >= a
                                /\ att' = [att EXCEPT ![s] = a]
                                /\ outcome' = [outcome EXCEPT ![a] = "open"]
      BY <1>5 DEF BeginApply
    <3>2. a >= a
      BY DEF Attempts
    <3> QED
      BY <3>1, <3>2
  <2>2. /\ UNCHANGED disk /\ spc' = [spc EXCEPT ![s] = "pass"]
    BY <1>5 DEF BeginApply, MainStep
  <2> QED
    BY <2>1, <2>2 DEF BlankInv, IInv, RecordTypes
<1>6. ASSUME NEW s \in Ships, Crash(s)
      PROVE  BlankInv'
  BY <1>6 DEF Crash, Forget, durableVars, IInv, RecordTypes, BlankInv
<1>7. ASSUME NEW s \in Ships, Seal(s)
      PROVE  BlankInv'
  <2>1. \A a \in Attempts : a # att[s] => disk'[a] = disk[a] /\ outcome'[a] = outcome[a]
    BY <1>7 DEF Seal, IInv, RecordTypes
  <2>2. outcome'[att[s]] # "none"
    <3>1. outcome' = [outcome EXCEPT ![att[s]] = Outcome(tally[s])]
      BY <1>7 DEF Seal
    <3>2. Outcome(tally[s]) # "none"
      BY DEF Outcome
    <3> QED
      BY <3>1, <3>2 DEF IInv, RecordTypes
  <2>3. /\ Running(s) /\ spc'[s] # "pass"
        /\ \A t \in Ships : t # s => spc'[t] = spc[t] /\ att'[t] = att[t]
    BY <1>7 DEF Seal, MainStep, Forget, Running, IInv, RecordTypes
  <2> QED
    BY <2>1, <2>2, <2>3, BlankWrite
<1> QED
  BY <1>1, <1>2, <1>3, <1>4, <1>5, <1>6, <1>7 DEF Next

-----------------------------------------------------------------------------
(* What an invocation in the walk has of a resource, in memory and on      *)
(* disk, against where its goroutine is.                                   *)
NodeInv(s, n) ==
  /\ npc[s][n] = "waiting" => mem[s][n].state = "none"
  /\ npc[s][n] = "seeded" => mem[s][n].state = "applied"
  /\ npc[s][n] \in {"seeded", "running"} /\ mem[s][n].state = "applied" => n \in Seed(s)
  /\ npc[s][n] = "running" => mem[s][n].state \in {"none", "applied"}
  /\ npc[s][n] \in Working => mem[s][n].state \notin {"none", "applied"}
  /\ npc[s][n] \in {"sent", "done"} => mem[s][n].state \in EndStates /\ disk[att[s]][n] = mem[s][n]
  /\ mem[s][n].flew = disk[att[s]][n].flew
  /\ npc[s][n] \in {"waiting", "seeded", "running", "begun"} => ~mem[s][n].flew
  /\ n \in Seed(s) /\ Deps[n] \subseteq Seed(s) => npc[s][n] = "seeded"
  /\ npc[s][n] \in Working \cup {"running"} => \A d \in Deps[n] : HasResult(s, d)

WalkInv == \A s \in Ships, n \in Nodes : spc[s] = "walk" => NodeInv(s, n)

LEMMA NodeWalk ==
  ASSUME IInv, WalkInv, NEW s \in Ships, NEW n \in Nodes, NEW entry \in Entries, NEW phase,
         Moves(s, n, entry, phase), UNCHANGED disk \/ Saves(s),
         phase \notin {"waiting", "seeded"},
         npc[s][n] \in {"sent", "done"} => phase = "done" /\ entry = mem[s][n],
         phase = "running" => entry.state = mem[s][n].state /\ npc[s][n] \in {"waiting", "seeded"},
         phase \in Working => entry.state \notin {"none", "applied"},
         phase \in {"sent", "done"} =>
           entry.state \in EndStates /\ (Saves(s) \/ disk[att[s]][n] = entry),
         Saves(s) \/ entry.flew = mem[s][n].flew,
         phase \in {"running", "begun"} => ~entry.flew,
         ~(n \in Seed(s) /\ Deps[n] \subseteq Seed(s)),
         phase \in Working \cup {"running"} => \A d \in Deps[n] : HasResult(s, d)
  PROVE  WalkInv'
<1> SUFFICES ASSUME NEW t \in Ships, NEW k \in Nodes, spc[t] = "walk" PROVE NodeInv(t, k)'
  BY DEF WalkInv, Moves
<1>0. /\ spc[s] = "walk" /\ NodeInv(s, n) /\ NodeInv(t, k)
      /\ Deps[k] \subseteq Nodes /\ att[s] \in Attempts /\ att[t] \in Attempts /\ att' = att
      /\ \A r \in Ships : Seed(r)' = Seed(r)
      /\ t # s => att[t] # att[s]
  BY ShipAssumption DEF Moves, WalkInv, IInv, RecordTypes, OwnAttempt, Running, Seed
<1>1. ASSUME NEW r \in Ships, NEW d \in Nodes, HasResult(r, d)
      PROVE  HasResult(r, d)'
  <2>1. CASE r = s /\ d = n
    BY <1>0, <1>1, <2>1 DEF HasResult, Moves
  <2>2. CASE ~(r = s /\ d = n)
    BY <1>0, <1>1, <2>2 DEF HasResult, Moves
  <2> QED
    BY <2>1, <2>2
<1>2. CASE t # s
  <2>1. mem'[t][k] = mem[t][k] /\ npc'[t][k] = npc[t][k] /\ disk'[att[t]][k] = disk[att[t]][k]
    BY <1>0, <1>2 DEF Moves, Saves
  <2> QED
    BY <1>0, <1>1, <2>1 DEF NodeInv
<1>3. CASE t = s /\ k # n
  <2>1. mem'[s][k] = mem[s][k] /\ npc'[s][k] = npc[s][k]
    BY <1>3 DEF Moves
  <2>2. disk'[att[s]][k] = disk[att[s]][k] \/ disk'[att[s]][k] = mem[s][k]
    BY <1>0, <2>1 DEF Saves
  <2> QED
    BY <1>0, <1>1, <1>3, <2>1, <2>2 DEF NodeInv
<1>4. CASE t = s /\ k = n
  <2>1. mem'[s][n] = entry /\ npc'[s][n] = phase
    BY DEF Moves
  <2>2. (Saves(s) /\ disk'[att[s]][n] = entry) \/ disk'[att[s]][n] = disk[att[s]][n]
    BY <1>0, <2>1 DEF Saves
  <2>3. Saves(s) => disk'[att[s]][n] = entry
    BY <1>0, <2>1 DEF Saves
  <2>4. /\ entry.flew = disk'[att[s]][n].flew
        /\ phase \in {"sent", "done"} => disk'[att[s]][n] = entry
    BY <1>0, <2>2, <2>3 DEF NodeInv
  <2>5. phase = "running" /\ entry.state = "applied" => n \in Seed(s)
    BY <1>0 DEF NodeInv
  <2>6. phase = "running" => entry.state \in {"none", "applied"}
    BY <1>0 DEF NodeInv
  <2>7. phase \in Working \cup {"running"} => \A d \in Deps[n] : HasResult(s, d)'
    BY <1>0, <1>1, <1>4
  <2> QED
    BY <1>0, <1>4, <2>1, <2>4, <2>5, <2>6, <2>7 DEF NodeInv
<1> QED
  BY <1>2, <1>3, <1>4

LEMMA ClassWalk ==
  ASSUME IInv, WalkInv, NEW s \in Ships, NEW n \in Nodes, StepClass(s, n)
  PROVE  WalkInv'
<1>0. /\ spc[s] = "walk" /\ NodeInv(s, n) /\ mem[s][n] \in Entries
      /\ npc[s][n] # "seeded" => ~(n \in Seed(s) /\ Deps[n] \subseteq Seed(s))
  BY DEF StepClass, Launched, Received, Ended, Worked, Flown, Called, Retried, Moves,
     WalkInv, NodeInv, IInv, RecordTypes
<1>1. Startable(s, n) => /\ npc[s][n] \in {"waiting", "seeded"}
                         /\ ~(n \in Seed(s) /\ Deps[n] \subseteq Seed(s))
  BY <1>0 DEF Startable
<1> USE DEF Working, EndStates
<1>2. CASE Launched(s, n)
  <2>1. npc[s][n] \in {"waiting", "seeded"} /\ ~mem[s][n].flew
    BY <1>0, <1>1, <1>2 DEF Launched, NodeInv
  <2> QED
    BY <1>0, <1>1, <1>2, <2>1, NodeWalk DEF Launched
<1>3. CASE Received(s, n)
  <2>1. mem[s][n].state \in EndStates /\ disk[att[s]][n] = mem[s][n] /\ npc[s][n] = "sent"
    BY <1>0, <1>3 DEF Received, NodeInv
  <2> QED
    BY <1>0, <1>3, <2>1, NodeWalk DEF Received
<1>4. ASSUME NEW entry \in Entries, Ended(s, n, entry)
      PROVE  WalkInv'
  <2>1. /\ npc[s][n] \notin {"sent", "done"} /\ entry.state \in EndStates
        /\ ~(n \in Seed(s) /\ Deps[n] \subseteq Seed(s))
        /\ Saves(s) /\ Moves(s, n, entry, "sent")
    BY <1>0, <1>1, <1>4 DEF Ended
  <2> QED
    BY <2>1, NodeWalk
<1>5. ASSUME NEW entry \in Entries, Flown(s, n, entry)
      PROVE  WalkInv'
  <2>1. /\ npc[s][n] = "begun" /\ entry.state = "in_flight"
        /\ Saves(s) /\ Moves(s, n, entry, "apply")
        /\ \A d \in Deps[n] : HasResult(s, d)
    BY <1>0, <1>5 DEF Flown, NodeInv
  <2> QED
    BY <1>0, <2>1, NodeWalk
<1>6. ASSUME NEW entry \in Entries, NEW phase \in Working, Worked(s, n, entry, phase)
      PROVE  WalkInv'
  <2>1. /\ npc[s][n] \in {"running", "ok", "err", "reconcile"} /\ phase \in {"begun", "reconcile"}
        /\ Moves(s, n, entry, phase) /\ (UNCHANGED disk \/ Saves(s)) /\ entry.flew = mem[s][n].flew
        /\ \A d \in Deps[n] : HasResult(s, d)
    BY <1>0, <1>6 DEF Worked, NodeInv
  <2>2. phase = "begun" => ~entry.flew
    BY <1>0, <1>6 DEF Worked, NodeInv
  <2>3. entry.state \notin {"none", "applied"}
    BY <1>0, <1>6 DEF Worked, NodeInv
  <2> QED
    BY <1>0, <2>1, <2>2, <2>3, NodeWalk
<1>7. ASSUME NEW phase \in {"ok", "err"}, Called(s, n, phase)
      PROVE  WalkInv'
  <2>1. npc[s][n] = "apply" /\ UNCHANGED disk /\ Moves(s, n, mem[s][n], phase)
    BY <1>7 DEF Called, ApplyResourceChange, durableVars
  <2>2. mem[s][n].state \notin {"none", "applied"} /\ \A d \in Deps[n] : HasResult(s, d)
    BY <1>0, <2>1 DEF NodeInv
  <2> QED
    BY <1>0, <2>1, <2>2, NodeWalk
<1>8. CASE Retried(s, n)
  <2>1. npc[s][n] = "err" /\ UNCHANGED disk /\ Moves(s, n, mem[s][n], "apply")
    BY <1>8 DEF Retried, RetryCreate, durableVars
  <2>2. mem[s][n].state \notin {"none", "applied"} /\ \A d \in Deps[n] : HasResult(s, d)
    BY <1>0, <2>1 DEF NodeInv
  <2> QED
    BY <1>0, <2>1, <2>2, NodeWalk
<1> QED
  BY <1>2, <1>3, <1>4, <1>5, <1>6, <1>7, <1>8 DEF StepClass

(* The walk of an invocation is its own: what leaves its entries, phases,  *)
(* history and record alone leaves NodeInv alone.                          *)
LEMMA NodeInvLocal ==
  ASSUME WalkInv, NEW t \in Ships, spc[t] = "walk",
         npc'[t] = npc[t], mem'[t] = mem[t], hist'[t] = hist[t], att'[t] = att[t],
         \A k \in Nodes : disk'[att[t]][k] = disk[att[t]][k],
         NEW k \in Nodes
  PROVE  NodeInv(t, k)'
<1>1. NodeInv(t, k) /\ Deps[k] \subseteq Nodes
  BY ShipAssumption DEF WalkInv
<1>2. Seed(t)' = Seed(t)
  BY DEF Seed
<1>3. \A d \in Nodes : HasResult(t, d)' <=> HasResult(t, d)
  BY <1>2 DEF HasResult
<1> QED
  BY <1>1, <1>2, <1>3 DEF NodeInv

LEMMA WalkStep ==
  ASSUME IInv, BookTypes, WalkInv, [Next]_vars
  PROVE  WalkInv'
<1>1. ASSUME NEW s \in Ships, NEW n \in Nodes, NodeStep(s, n) \/ Inconclusive(s, n)
      PROVE  WalkInv'
  BY <1>1, StepClasses, ClassWalk
<1>2. CASE (\E n \in Nodes : Drift(n) \/ Adopt(n) \/ LandLate(n)) \/ UNCHANGED vars
  <2>1. UNCHANGED <<disk, spc, att, hist, mem, npc>>
    BY <1>2 DEF Drift, Adopt, LandLate, vars, durableVars
  <2> QED
    BY <2>1, NodeInvLocal DEF WalkInv
<1>3. ASSUME NEW s \in Ships,
             ReadHistory(s) \/ BeginApply(s) \/ PassThrough(s) \/ Seal(s) \/ Crash(s)
      PROVE  \A t \in Ships : t # s => /\ npc'[t] = npc[t] /\ mem'[t] = mem[t] /\ hist'[t] = hist[t]
                                       /\ att'[t] = att[t] /\ spc'[t] = spc[t]
  <2>1. CASE ReadHistory(s) \/ BeginApply(s)
    BY <2>1 DEF ReadHistory, BeginApply, MainStep, IInv, RecordTypes, BookTypes
  <2>2. CASE PassThrough(s)
    BY <2>2 DEF PassThrough, MainStep, IInv, RecordTypes, BookTypes
  <2>3. CASE Seal(s) \/ Crash(s)
    <3>1. Forget(s) /\ spc' = [spc EXCEPT ![s] = "idle"]
      BY <2>3 DEF Seal, Crash, MainStep
    <3> QED
      BY <3>1 DEF Forget, IInv, RecordTypes, BookTypes
  <2> QED
    BY <1>3, <2>1, <2>2, <2>3
<1>4. ASSUME NEW s \in Ships,
             ReadHistory(s) \/ BeginApply(s) \/ PassThrough(s) \/ Seal(s) \/ Crash(s),
             NEW t \in Ships, t # s, spc[t] = "walk", NEW k \in Nodes
      PROVE  disk'[att[t]][k] = disk[att[t]][k]
  <2>1. CASE UNCHANGED disk
    BY <2>1
  <2>2. CASE PassThrough(s) \/ Seal(s)
    <3>1. att[t] # att[s] /\ att[t] \in Attempts
      BY <1>4, <2>2 DEF PassThrough, Seal, MainStep, Running, IInv, OwnAttempt, RecordTypes
    <3>2. \A a \in Attempts : a # att[s] => disk'[a] = disk[a]
      BY <2>2 DEF PassThrough, Persist, Seal, IInv, RecordTypes
    <3> QED
      BY <3>1, <3>2
  <2> QED
    BY <1>4, <2>1, <2>2 DEF ReadHistory, BeginApply, Crash, durableVars
<1>5. ASSUME NEW s \in Ships, ReadHistory(s) \/ BeginApply(s) \/ Seal(s) \/ Crash(s)
      PROVE  WalkInv'
  <2>1. spc'[s] # "walk"
    BY <1>5 DEF ReadHistory, BeginApply, Seal, Crash, MainStep, IInv, RecordTypes
  <2> QED
    BY <1>3, <1>4, <1>5, <2>1, NodeInvLocal DEF WalkInv
<1>6. ASSUME NEW s \in Ships, PassThrough(s)
      PROVE  WalkInv'
  <2> SUFFICES ASSUME NEW k \in Nodes PROVE NodeInv(s, k)'
    BY <1>3, <1>4, <1>6, NodeInvLocal DEF WalkInv
  <2>1. /\ \A j \in Nodes : mem'[s][j] = IF j \in Seed(s) THEN [NoEntry EXCEPT !.state = "applied"]
                                         ELSE NoEntry
        /\ \A j \in Nodes : npc'[s][j] = IF j \in Seed(s) THEN "seeded" ELSE "waiting"
        /\ \A j \in Nodes : disk'[att[s]][j] = mem'[s][j]
        /\ UNCHANGED <<att, hist>>
    BY <1>6 DEF PassThrough, Persist, IInv, RecordTypes
  <2>2. Seed(s)' = Seed(s)
    BY <2>1 DEF Seed
  <2> QED
    BY <2>1, <2>2 DEF NodeInv, NoEntry, Working
<1> QED
  BY <1>1, <1>2, <1>5, <1>6 DEF Next

LEMMA WalkInit == Init => WalkInv /\ BlankInv
BY DEF Init, WalkInv, BlankInv

-----------------------------------------------------------------------------
(* An attempt keeps n as applied for good: it records it so, and whoever   *)
(* still writes it has done with n.                                        *)
Firm(a, n) ==
  /\ disk[a][n].state = "applied"
  /\ \A s \in Ships : Running(s) /\ att[s] = a => npc[s][n] \in {"sent", "done"}

(* What is recorded applied is so for good in some attempt, perhaps not    *)
(* the one that says it now; and what an invocation found applied is.      *)
KeptInv ==
  /\ \A n \in Nodes : RecordedApplied(n) => \E a \in Attempts : Firm(a, n)
  /\ \A s \in Ships, n \in Nodes : n \in Seed(s) => RecordedApplied(n)

ShipInv == IInv /\ BookTypes /\ BlankInv /\ WalkInv

LEMMA ShipInit == Init => ShipInv
BY InitInv, BookInit, WalkInit DEF ShipInv

LEMMA ShipStep == ShipInv /\ [Next]_vars => ShipInv'
BY NextInv, BookStep, BlankStep, WalkStep DEF ShipInv

LEMMA FirmInClass ==
  ASSUME ShipInv, NEW s \in Ships, NEW n \in Nodes, StepClass(s, n),
         NEW a \in Attempts, NEW k \in Nodes, Firm(a, k)
  PROVE  Firm(a, k)'
<1> USE DEF ShipInv
<1>0. /\ spc[s] = "walk" /\ UNCHANGED <<spc, att>> /\ NodeInv(s, k)
      /\ npc[s][n] \in {"sent", "done"} => Received(s, n)
      /\ UNCHANGED disk \/ Saves(s)
      /\ \A t \in Ships, j \in Nodes :
           t # s \/ j # n => npc'[t][j] = npc[t][j] /\ mem'[t][j] = mem[t][j]
  BY DEF StepClass, Launched, Received, Ended, Worked, Flown, Called, Retried, Moves, Startable,
     ApplyResourceChange, RetryCreate, durableVars, WalkInv
<1>1. att[s] = a => npc[s][k] \in {"sent", "done"} /\ mem[s][k].state = "applied"
  BY <1>0 DEF Firm, Running, NodeInv
<1>2. att[s] = a => npc'[s][k] \in {"sent", "done"} /\ mem'[s][k] = mem[s][k]
  BY <1>0, <1>1 DEF Received, Moves
<1>3. disk'[a][k].state = "applied"
  BY <1>0, <1>1, <1>2 DEF Firm, Saves
<1> QED
  BY <1>0, <1>2, <1>3 DEF Firm, Running

LEMMA FirmStays ==
  ASSUME ShipInv, [Next]_vars, NEW a \in Attempts, NEW k \in Nodes, Firm(a, k)
  PROVE  Firm(a, k)'
<1> USE DEF ShipInv
<1>1. ASSUME NEW s \in Ships, NEW n \in Nodes, NodeStep(s, n) \/ Inconclusive(s, n)
      PROVE  Firm(a, k)'
  BY <1>1, StepClasses, FirmInClass
<1>2. CASE (\E n \in Nodes : Drift(n) \/ Adopt(n) \/ LandLate(n)) \/ UNCHANGED vars
  BY <1>2 DEF Drift, Adopt, LandLate, vars, durableVars, Firm, Running
<1>3. ASSUME NEW s \in Ships, ReadHistory(s)
      PROVE  Firm(a, k)'
  BY <1>3 DEF ReadHistory, MainStep, durableVars, IInv, RecordTypes, Firm, Running
(* What is begun was blank.                                                *)
<1>4. ASSUME NEW s \in Ships, BeginApply(s)
      PROVE  Firm(a, k)'
  <2>1. PICK b \in Attempts : outcome[b] = "none" /\ att' = [att EXCEPT ![s] = b]
    <3>1. PICK b \in Attempts : /\ \A c \in Attempts : outcome[c] = "none" <=> c >= b
                                /\ att' = [att EXCEPT ![s] = b]
      BY <1>4 DEF BeginApply
    <3>2. b >= b
      BY DEF Attempts
    <3> QED
      BY <3>1, <3>2
  <2>2. a # b
    BY <2>1 DEF Firm, BlankInv, NoEntry
  <2>3. UNCHANGED <<disk, npc>> /\ spc' = [spc EXCEPT ![s] = "pass"]
    BY <1>4 DEF BeginApply, MainStep
  <2> QED
    BY <2>1, <2>2, <2>3 DEF Firm, Running, IInv, RecordTypes
<1>5. ASSUME NEW s \in Ships, PassThrough(s)
      PROVE  Firm(a, k)'
  <2>1. /\ spc[s] = "pass" /\ UNCHANGED att
        /\ \A t \in Ships : t # s => npc'[t] = npc[t] /\ spc'[t] = spc[t]
        /\ \A b \in Attempts : b # att[s] => disk'[b] = disk[b]
    BY <1>5 DEF PassThrough, Persist, MainStep, IInv, RecordTypes
  <2>2. att[s] # a
    BY <2>1 DEF BlankInv, Firm, NoEntry
  <2> QED
    BY <2>1, <2>2 DEF Firm, Running
(* An invocation that ends writes what it has once more.                   *)
<1>6. ASSUME NEW s \in Ships, Seal(s) \/ Crash(s)
      PROVE  Firm(a, k)'
  <2>1. /\ spc'[s] = "idle"
        /\ \A t \in Ships : t # s => npc'[t] = npc[t] /\ spc'[t] = spc[t] /\ att'[t] = att[t]
    <3>1. Forget(s) /\ spc' = [spc EXCEPT ![s] = "idle"]
      BY <1>6 DEF Seal, Crash, MainStep
    <3> QED
      BY <3>1 DEF Forget, IInv, RecordTypes
  <2>2. disk'[a][k].state = "applied"
    <3>1. CASE Crash(s)
      BY <3>1 DEF Crash, durableVars, Firm
    <3>2. CASE Seal(s)
      <4>1. spc[s] = "walk" /\ NodeInv(s, k)
        BY <3>2 DEF Seal, MainStep, WalkInv
      <4>2. att[s] = a => mem[s][k] = disk[a][k]
        BY <4>1 DEF Firm, Running, NodeInv
      <4>3. \A b \in Attempts : disk'[b] = IF b = att[s] THEN mem[s] ELSE disk[b]
        BY <3>2 DEF Seal, IInv, RecordTypes
      <4> QED
        BY <4>2, <4>3 DEF Firm
    <3> QED
      BY <1>6, <3>1, <3>2
  <2> QED
    BY <2>1, <2>2 DEF Firm, Running
<1> QED
  BY <1>1, <1>2, <1>3, <1>4, <1>5, <1>6 DEF Next

(* What is applied on disk after a step was before, or an invocation has   *)
(* just ended with it, or found it applied.                                *)
LEMMA NewlyApplied ==
  ASSUME ShipInv, ShipInv', KeptInv, [Next]_vars, NEW n \in Nodes, RecordedApplied(n)'
  PROVE  RecordedApplied(n) \/ \E a \in Attempts : Firm(a, n)'
<1> USE DEF ShipInv
<1>0. PICK a \in Attempts : disk'[a][n].state = "applied"
  BY DEF RecordedApplied
<1>1. CASE UNCHANGED disk
  BY <1>0, <1>1 DEF RecordedApplied
<1>2. ASSUME NEW s \in Ships, NEW k \in Nodes, NodeStep(s, k) \/ Inconclusive(s, k)
      PROVE  RecordedApplied(n) \/ Firm(a, n)'
  <2>1. /\ spc[s] = "walk" /\ UNCHANGED <<spc, att, hist>>
        /\ UNCHANGED disk \/ Saves(s)
    BY <1>2, StepClasses DEF StepClass, Launched, Received, Ended, Worked, Flown, Called, Retried,
       Moves, ApplyResourceChange, RetryCreate, durableVars
  <2>2. CASE Saves(s) /\ a = att[s]
    <3>1. mem'[s][n].state = "applied"
      BY <1>0, <2>2 DEF Saves
    <3>2. NodeInv(s, n)'
      BY <2>1 DEF WalkInv
    <3>3. CASE npc'[s][n] \in {"sent", "done"}
      <4>1. \A t \in Ships : Running(t)' /\ att'[t] = a => t = s
        BY <2>1, <2>2 DEF IInv, OwnAttempt, Running
      <4> QED
        BY <1>0, <3>3, <4>1 DEF Firm
    <3>4. CASE npc'[s][n] \notin {"sent", "done"}
      <4>1. npc'[s][n] \in {"seeded", "running"}
        BY <3>1, <3>2, <3>4 DEF NodeInv, IInv, RecordTypes, Idle
      <4>2. n \in Seed(s)'
        BY <3>1, <3>2, <4>1 DEF NodeInv
      <4> QED
        BY <2>1, <4>2 DEF Seed, KeptInv
    <3> QED
      BY <3>3, <3>4
  <2>3. CASE ~(Saves(s) /\ a = att[s])
    BY <1>0, <2>1, <2>3 DEF Saves, RecordedApplied
  <2> QED
    BY <2>2, <2>3
<1>3. ASSUME NEW s \in Ships, PassThrough(s)
      PROVE  RecordedApplied(n)
  <2>1. /\ disk'[a][n] = IF a = att[s] THEN mem'[s][n] ELSE disk[a][n]
        /\ mem'[s][n].state = "applied" => n \in Seed(s)
    BY <1>3 DEF PassThrough, Persist, NoEntry, IInv, RecordTypes
  <2> QED
    BY <1>0, <2>1 DEF RecordedApplied, KeptInv
<1>4. ASSUME NEW s \in Ships, Seal(s)
      PROVE  Firm(a, n)' \/ RecordedApplied(n)
  <2>1. /\ disk'[a][n] = IF a = att[s] THEN mem[s][n] ELSE disk[a][n]
        /\ spc[s] = "walk" /\ spc'[s] = "idle" /\ Running(s)
        /\ \A t \in Ships : t # s => spc'[t] = spc[t] /\ att'[t] = att[t]
    BY <1>4 DEF Seal, MainStep, Forget, Running, IInv, RecordTypes
  <2>2. CASE a = att[s]
    <3>1. \A t \in Ships : Running(t)' => att'[t] # a
      BY <2>1, <2>2 DEF IInv, OwnAttempt, Running
    <3> QED
      BY <1>0, <3>1 DEF Firm
  <2> QED
    BY <1>0, <2>1, <2>2 DEF RecordedApplied
<1> QED
  BY <1>1, <1>2, <1>3, <1>4 DEF Next, Drift, Adopt, LandLate, vars, ReadHistory, BeginApply, Crash,
     durableVars

LEMMA KeptStep ==
  ASSUME ShipInv, ShipInv', KeptInv, [Next]_vars
  PROVE  KeptInv'
<1>1. \A n \in Nodes : RecordedApplied(n) => \E a \in Attempts : Firm(a, n)'
  BY FirmStays DEF KeptInv
<1>2. \A n \in Nodes : RecordedApplied(n) => RecordedApplied(n)'
  BY <1>1 DEF RecordedApplied, Firm
<1>3. ASSUME NEW s \in Ships, NEW n \in Nodes, n \in Seed(s)'
      PROVE  RecordedApplied(n)
  <2>1. CASE n \in Seed(s)
    BY <2>1 DEF KeptInv
  <2>2. CASE n \notin Seed(s)
    <3>1. hist'[s][n] # hist[s][n] /\ hist'[s][n].state = "applied"
      BY <1>3, <2>2 DEF Seed
    <3>2. ASSUME NEW r \in Ships, NEW k \in Nodes, NodeStep(r, k) \/ Inconclusive(r, k)
          PROVE  UNCHANGED hist
      BY <3>2, StepClasses DEF ShipInv, StepClass, Launched, Received, Ended, Worked, Flown, Called,
         Retried, Moves
    <3>3. ASSUME NEW r \in Ships, Seal(r) \/ Crash(r)
          PROVE  hist'[s][n] = hist[s][n] \/ hist'[s][n] = NoHistory
      <4>1. hist' = [hist EXCEPT ![r] = [k \in Nodes |-> NoHistory]]
        BY <3>3 DEF Seal, Crash, Forget
      <4> QED
        BY <4>1 DEF ShipInv, BookTypes
    <3>4. PICK r \in Ships : ReadHistory(r)
      BY <3>1, <3>2, <3>3 DEF Next, Drift, Adopt, LandLate, vars, BeginApply, PassThrough, NoHistory
    <3>5. hist'[s][n] = History(n)
      BY <3>1, <3>4 DEF ReadHistory, ShipInv, BookTypes
    <3> QED
      BY <3>1, <3>5, AppliedSomewhere DEF History, Applied, RecordedApplied
  <2> QED
    BY <2>1, <2>2
<1>4. \A n \in Nodes : RecordedApplied(n)' => \E a \in Attempts : Firm(a, n)'
  BY <1>1, NewlyApplied
<1>5. \A s \in Ships, n \in Nodes : n \in Seed(s)' => RecordedApplied(n)'
  BY <1>2, <1>3
<1> QED
  BY <1>4, <1>5 DEF KeptInv

LEMMA KeptInit == Init => KeptInv
<1> SUFFICES ASSUME Init PROVE KeptInv
  OBVIOUS
<1>1. \A n \in Nodes : ~RecordedApplied(n)
  BY DEF Init, RecordedApplied, NoEntry
<1>2. \A s \in Ships, n \in Nodes : n \notin Seed(s)
  BY DEF Init, Seed, NoHistory
<1> QED
  BY <1>1, <1>2 DEF KeptInv

LEMMA KeptAlways == Spec => [](ShipInv /\ KeptInv)
<1>1. ShipInv /\ KeptInv /\ [Next]_vars => (ShipInv /\ KeptInv)'
  BY ShipStep, KeptStep
<1> QED
  BY <1>1, ShipInit, KeptInit, PTL DEF Spec

(* What was recorded applied stays on record, also where a ship that read  *)
(* the history too early begins the resource again: it writes its own      *)
(* attempt only, and a record of an attempt is not taken back once the     *)
(* goroutine has ended.                                                    *)
THEOREM AppliedStaysOnRecord == Spec => AppliedIsKept
<1>1. ShipInv /\ KeptInv /\ [Next]_vars => \A n \in Nodes : RecordedApplied(n) => RecordedApplied(n)'
  <2> SUFFICES ASSUME ShipInv, KeptInv, [Next]_vars, NEW n \in Nodes, RecordedApplied(n)
               PROVE  RecordedApplied(n)'
    OBVIOUS
  <2>1. PICK a \in Attempts : Firm(a, n)'
    BY FirmStays DEF KeptInv
  <2> QED
    BY <2>1 DEF Firm, RecordedApplied
<1> QED
  BY <1>1, KeptAlways, PTL DEF Spec, AppliedIsKept

(* Nothing is taken up before all it depends on was applied and recorded   *)
(* so, and it still is as the proposal wanted it: a goroutine starts on    *)
(* results found in the history or received in this walk.                  *)
THEOREM DependenciesWereApplied == Spec => []DependenciesLanded
<1>1. ShipInv /\ KeptInv /\ RealInv => DependenciesLanded
  <2> SUFFICES ASSUME ShipInv, KeptInv, RealInv, NEW s \in Ships, NEW n \in Nodes,
                      npc[s][n] \in Working, NEW d \in Deps[n]
               PROVE  world[d] = "after" /\ RecordedApplied(d)
    BY DEF DependenciesLanded, RecordedApplied
  <2>1. spc[s] = "walk" /\ d \in Nodes /\ att[s] \in Attempts
    BY ShipAssumption DEF ShipInv, IInv, RecordTypes, OnlyInWalk, Working
  <2>2. HasResult(s, d) /\ NodeInv(s, d)
    BY <2>1 DEF ShipInv, WalkInv, NodeInv
  <2>3. RecordedApplied(d)
    BY <2>1, <2>2 DEF HasResult, NodeInv, KeptInv, RecordedApplied
  <2> QED
    BY <2>1, <2>3 DEF RealInv, Vouched, RecordedApplied
<1>2. Init => RealInv
  BY RealInit
<1>3. ShipInv /\ RealInv /\ [Next]_vars => RealInv'
  BY RealStep DEF ShipInv
<1> QED
  BY <1>1, <1>2, <1>3, KeptAlways, PTL DEF Spec
-----------------------------------------------------------------------------
(* The counters of the recorder against the entries it counted: what is    *)
(* applied was counted when it was found so or ended so, and what ended    *)
(* otherwise was counted as a failure or as unknown.                       *)
SomeApplied(s) == \E n \in Nodes : mem[s][n].state = "applied"
SomeFailed(s) ==
  \E n \in Nodes : npc[s][n] \in {"sent", "done"} /\ mem[s][n].state # "applied"

Counted(s) ==
  /\ SomeApplied(s) => tally[s]["applied"] > 0
  /\ SomeFailed(s) => tally[s]["failed"] + tally[s]["unknown"] > 0

CountInv == \A s \in Ships : spc[s] = "walk" => Counted(s)

LEMMA CountLocal ==
  ASSUME NEW t \in Ships, Counted(t),
         UNCHANGED <<npc[t], mem[t], tally[t]>>
  PROVE  Counted(t)'
BY DEF Counted, SomeApplied, SomeFailed

(* A step that ends nothing adds nothing to count.                         *)
LEMMA CountMoves ==
  ASSUME ShipInv, NEW s \in Ships, Counted(s), NEW n \in Nodes, NEW entry, NEW phase,
         Moves(s, n, entry, phase), UNCHANGED tally,
         entry.state = "applied" => mem[s][n].state = "applied",
         phase \in {"sent", "done"} => npc[s][n] \in {"sent", "done"} /\ entry = mem[s][n]
  PROVE  Counted(s)'
<1>1. SomeApplied(s)' => SomeApplied(s)
  BY DEF SomeApplied, Moves
<1>2. SomeFailed(s)' => SomeFailed(s)
  BY DEF SomeFailed, Moves
<1> QED
  BY <1>1, <1>2 DEF Counted

LEMMA CountEnds ==
  ASSUME ShipInv, NEW s \in Ships, Counted(s), NEW n \in Nodes, NEW entry, Ended(s, n, entry)
  PROVE  Counted(s)'
<1>0. /\ \A t \in Tallies : tally[s][t] \in Nat
      /\ \A t \in Tallies : tally'[s][t] = IF t = TallyOf(entry.state) THEN tally[s][t] + 1
                                           ELSE tally[s][t]
      /\ {"applied", "failed", "unknown"} \subseteq Tallies
  BY DEF Ended, Counts, ShipInv, BookTypes, Tallies
<1>1. CASE entry.state = "applied"
  <2>1. SomeFailed(s)' => SomeFailed(s)
    BY <1>1 DEF SomeFailed, Ended, Moves
  <2>2. tally'[s]["applied"] > 0 /\ UNCHANGED <<tally[s]["failed"], tally[s]["unknown"]>>
    BY <1>0, <1>1 DEF TallyOf
  <2> QED
    BY <2>1, <2>2 DEF Counted
<1>2. CASE entry.state # "applied"
  <2>1. SomeApplied(s)' => SomeApplied(s)
    BY <1>2 DEF SomeApplied, Ended, Moves
  <2>2. UNCHANGED tally[s]["applied"] /\ tally'[s]["failed"] + tally'[s]["unknown"] > 0
    BY <1>0, <1>2 DEF TallyOf
  <2> QED
    BY <2>1, <2>2 DEF Counted
<1> QED
  BY <1>1, <1>2

LEMMA CountStep ==
  ASSUME ShipInv, CountInv, [Next]_vars
  PROVE  CountInv'
<1> USE DEF ShipInv
<1>1. ASSUME NEW s \in Ships, NEW n \in Nodes, NodeStep(s, n) \/ Inconclusive(s, n)
      PROVE  CountInv'
  <2>1. StepClass(s, n)
    BY <1>1, StepClasses
  <2>2. spc[s] = "walk" /\ Counted(s) /\ UNCHANGED spc /\ NodeInv(s, n)
    BY <2>1 DEF StepClass, Launched, Received, Ended, Worked, Flown, Called, Retried, Moves,
       CountInv, WalkInv
  <2>3. Counted(s)'
    <3>1. CASE Launched(s, n)
      BY <2>2, <3>1, CountMoves DEF Launched
    <3>2. CASE Received(s, n)
      BY <2>2, <3>2, CountMoves DEF Received
    <3>3. ASSUME NEW entry \in Entries, Ended(s, n, entry)
          PROVE  Counted(s)'
      BY <2>2, <3>3, CountEnds
    <3>4. ASSUME NEW entry \in Entries, Flown(s, n, entry)
          PROVE  Counted(s)'
      BY <2>2, <3>4, CountMoves DEF Flown
    <3>5. ASSUME NEW entry \in Entries, NEW phase \in Working, Worked(s, n, entry, phase)
          PROVE  Counted(s)'
      <4>1. phase \notin {"sent", "done"} /\ entry.state # "applied"
        BY <2>2, <3>5 DEF Worked, NodeInv, Working
      <4> QED
        BY <2>2, <3>5, <4>1, CountMoves DEF Worked
    <3>6. ASSUME NEW phase \in {"ok", "err"}, Called(s, n, phase)
          PROVE  Counted(s)'
      BY <2>2, <3>6, CountMoves DEF Called, ApplyResourceChange
    <3>7. CASE Retried(s, n)
      BY <2>2, <3>7, CountMoves DEF Retried, RetryCreate
    <3> QED
      BY <2>1, <3>1, <3>2, <3>3, <3>4, <3>5, <3>6, <3>7 DEF StepClass
  <2>4. ASSUME NEW t \in Ships, t # s, spc[t] = "walk"
        PROVE  Counted(t)'
    <3>1. \A k \in Nodes : npc'[t][k] = npc[t][k] /\ mem'[t][k] = mem[t][k]
      BY <2>1, <2>4 DEF StepClass, Launched, Received, Ended, Worked, Flown, Called, Retried, Moves
    <3>2. \A u \in Tallies : tally'[t][u] = tally[t][u]
      BY <2>1, <2>4 DEF StepClass, Launched, Received, Ended, Worked, Flown, Called, Retried,
         Counts, ApplyResourceChange, RetryCreate
    <3> QED
      BY <2>4, <3>1, <3>2 DEF CountInv, Counted, SomeApplied, SomeFailed, Tallies
  <2> QED
    BY <2>2, <2>3, <2>4 DEF CountInv
<1>2. CASE (\E n \in Nodes : Drift(n) \/ Adopt(n) \/ LandLate(n)) \/ UNCHANGED vars
  BY <1>2 DEF Drift, Adopt, LandLate, vars, CountInv, Counted, SomeApplied, SomeFailed
<1>3. ASSUME NEW s \in Ships, ReadHistory(s) \/ BeginApply(s)
      PROVE  CountInv'
  <2>1. UNCHANGED <<npc, mem, tally>> /\ \A t \in Ships : spc'[t] = "walk" => spc[t] = "walk"
    BY <1>3 DEF ReadHistory, BeginApply, MainStep, IInv, RecordTypes
  <2> QED
    BY <2>1 DEF CountInv, Counted, SomeApplied, SomeFailed
<1>4. ASSUME NEW s \in Ships, Seal(s) \/ Crash(s)
      PROVE  CountInv'
  <2>1. Forget(s) /\ spc' = [spc EXCEPT ![s] = "idle"]
    BY <1>4 DEF Seal, Crash, MainStep
  <2>2. /\ spc'[s] # "walk"
        /\ \A t \in Ships : t # s => UNCHANGED <<spc[t], npc[t], mem[t], tally[t]>>
    BY <2>1 DEF Forget, IInv, RecordTypes, BookTypes
  <2> QED
    BY <2>2, CountLocal DEF CountInv
<1>5. ASSUME NEW s \in Ships, PassThrough(s)
      PROVE  CountInv'
  <2>1. \A t \in Ships : t # s => UNCHANGED <<spc[t], npc[t], mem[t], tally[t]>>
    BY <1>5 DEF PassThrough, MainStep, IInv, RecordTypes, BookTypes
  <2>2. /\ \A n \in Nodes : npc'[s][n] \notin {"sent", "done"}
        /\ \A n \in Nodes : mem'[s][n].state = "applied" => n \in Seed(s)
        /\ tally'[s]["applied"] = Cardinality(Seed(s))
    BY <1>5 DEF PassThrough, NoEntry, IInv, RecordTypes, BookTypes, Tallies
  <2>3. \A n \in Nodes : n \in Seed(s) => Cardinality(Seed(s)) > 0
    BY FiniteFacts, FS_EmptySet DEF Seed
  <2>4. Counted(s)'
    BY <2>2, <2>3 DEF Counted, SomeApplied, SomeFailed
  <2> QED
    BY <2>1, <2>4, CountLocal DEF CountInv
<1> QED
  BY <1>1, <1>2, <1>3, <1>4, <1>5 DEF Next

(* When nobody is left to process and every resource found applied had its *)
(* dependencies among them, every resource has an entry.                   *)
LEMMA NothingMissing ==
  ASSUME ShipInv, NEW s \in Ships, spc[s] = "walk",
         Cardinality(Processed(s)) = Cardinality(ToProcess(s)),
         \A n \in Seed(s) : Deps[n] \subseteq Seed(s), NEW n \in Nodes
  PROVE  mem[s][n].state # "none"
<1>1. \A k \in Nodes : NodeInv(s, k)
  BY DEF ShipInv, WalkInv
<1>2. \A k \in Nodes : k \in Seed(s) => npc[s][k] = "seeded"
  BY <1>1 DEF NodeInv
<1>3. Processed(s) \subseteq ToProcess(s) /\ ToProcess(s) \subseteq Nodes
  BY <1>2 DEF Processed, ToProcess
<1>4. Processed(s) = ToProcess(s)
  BY <1>3, FiniteFacts, FS_Subset
<1>5. CASE n \in Seed(s)
  BY <1>1, <1>2, <1>5 DEF NodeInv
<1>6. CASE n \notin Seed(s)
  <2>1. npc[s][n] = "done"
    BY <1>4, <1>6 DEF Processed, ToProcess
  <2> QED
    BY <1>1, <2>1 DEF NodeInv, EndStates
<1> QED
  BY <1>5, <1>6

(* Whatever the order of completions, whoever died, and however many ships *)
(* there are, an invocation seals its record with what its entries say.    *)
THEOREM SealsAgree == Spec => SealsAreSound
<1>1. ShipInv /\ CountInv /\ [Next]_vars =>
        \A s \in Ships :
          spc[s] = "walk" /\ outcome[att[s]] = "open" /\ outcome'[att[s]] \in Outcomes =>
            LET sealed == {disk'[att[s]][n].state : n \in Nodes} IN
            /\ outcome'[att[s]] = "failed" => "applied" \notin sealed
            /\ outcome'[att[s]] = "applied" => sealed \subseteq {"applied", "none"}
            /\ (\A n \in Seed(s) : Deps[n] \subseteq Seed(s)) => "none" \notin sealed
  <2> SUFFICES ASSUME ShipInv, CountInv, [Next]_vars, NEW s \in Ships, spc[s] = "walk",
                      outcome[att[s]] = "open", outcome'[att[s]] \in Outcomes
               PROVE  LET sealed == {disk'[att[s]][n].state : n \in Nodes} IN
                      /\ outcome'[att[s]] = "failed" => "applied" \notin sealed
                      /\ outcome'[att[s]] = "applied" => sealed \subseteq {"applied", "none"}
                      /\ (\A n \in Seed(s) : Deps[n] \subseteq Seed(s)) => "none" \notin sealed
    OBVIOUS
  <2> USE DEF ShipInv
  (* Nobody but its own invocation seals an attempt.                       *)
  <2>1. Seal(s)
    <3>1. ASSUME NEW r \in Ships, NEW k \in Nodes, NodeStep(r, k) \/ Inconclusive(r, k)
          PROVE  UNCHANGED outcome
      BY <3>1, StepClasses DEF StepClass, Launched, Received, Ended, Worked, Flown, Called,
         Retried, Moves
    <3>2. ASSUME NEW r \in Ships, BeginApply(r)
          PROVE  FALSE
      <4>1. PICK a \in Attempts : outcome' = [outcome EXCEPT ![a] = "open"]
        BY <3>2 DEF BeginApply
      <4> QED
        BY <4>1 DEF IInv, RecordTypes, Outcomes
    <3>3. ASSUME NEW r \in Ships, Seal(r)
          PROVE  r = s
      <4>1. spc[r] = "walk" /\ outcome' = [outcome EXCEPT ![att[r]] = Outcome(tally[r])]
        BY <3>3 DEF Seal, MainStep
      <4>2. att[r] = att[s]
        BY <4>1 DEF IInv, RecordTypes, Outcomes
      <4> QED
        BY <4>1, <4>2 DEF IInv, OwnAttempt, Running
    <3>4. outcome' # outcome
      BY DEF Outcomes
    <3> QED
      BY <3>1, <3>2, <3>3, <3>4 DEF Next, Drift, Adopt, LandLate, vars, durableVars, ReadHistory,
         PassThrough, Crash
  <2>2. /\ outcome'[att[s]] = Outcome(tally[s])
        /\ \A n \in Nodes : disk'[att[s]][n] = mem[s][n]
        /\ Cardinality(Processed(s)) = Cardinality(ToProcess(s))
        /\ \A n \in Nodes : npc[s][n] \in Idle
    BY <2>1 DEF Seal, IInv, RecordTypes
  <2>3. /\ \A t \in Tallies : tally[s][t] \in Nat
        /\ {"applied", "failed", "unknown"} \subseteq Tallies
        /\ Counted(s) /\ \A n \in Nodes : NodeInv(s, n)
    BY DEF BookTypes, CountInv, WalkInv, Tallies
  <2>4. outcome'[att[s]] = "failed" => \A n \in Nodes : mem[s][n].state # "applied"
    BY <2>2, <2>3 DEF Outcome, Counted, SomeApplied
  <2>5. outcome'[att[s]] = "applied" => \A n \in Nodes : mem[s][n].state \in {"applied", "none"}
    <3>1. outcome'[att[s]] = "applied" => tally[s]["failed"] + tally[s]["unknown"] = 0
      BY <2>2, <2>3 DEF Outcome
    <3>2. outcome'[att[s]] = "applied" => ~SomeFailed(s)
      BY <2>3, <3>1 DEF Counted
    <3> QED
      BY <2>2, <2>3, <3>2 DEF SomeFailed, NodeInv, Idle
  <2>6. (\A n \in Seed(s) : Deps[n] \subseteq Seed(s)) => \A n \in Nodes : mem[s][n].state # "none"
    BY <2>2, NothingMissing
  <2> QED
    BY <2>2, <2>4, <2>5, <2>6
<1>2. Init => CountInv
  BY DEF Init, CountInv
<1>3. ShipInv /\ CountInv /\ [Next]_vars => (ShipInv /\ CountInv)'
  BY ShipStep, CountStep
<1> QED
  BY <1>1, <1>2, <1>3, ShipInit, PTL DEF Spec, SealsAreSound
-----------------------------------------------------------------------------
(* How often the provider performs a change, counting what it still owes,  *)
(* against the flights on record and the calls they still allow.           *)
Landings(n) == landed[n] + (IF n \in due THEN 1 ELSE 0)
PerFlight(n) == IF Kind[n] = "create" THEN 1 + MaxRetries ELSE 1

Left(s, n) ==
  CASE npc[s][n] = "apply" /\ Kind[n] = "create" -> 1 + MaxRetries - tries[s][n]
    [] npc[s][n] = "apply" /\ Kind[n] # "create" -> 1
    [] npc[s][n] = "err" /\ Kind[n] = "create" -> MaxRetries - tries[s][n]
    [] OTHER -> 0

(* One token for every call an attempt may still make under its flight.    *)
Tokens(n) ==
  {t \in Attempts \X (1 .. PerFlight(n)) :
     \E s \in Ships : spc[s] = "walk" /\ att[s] = t[1] /\ t[2] <= Left(s, n)}

Granted(n) == Landings(n) + Cardinality(Tokens(n)) <= Flights(n) * PerFlight(n)
GrantInv == \A n \in Nodes : Granted(n)

LEMMA GrantTypes ==
  ASSUME BookTypes, NEW n \in Nodes
  PROVE  /\ Landings(n) \in Nat /\ PerFlight(n) \in Nat \ {0}
         /\ Flights(n) \in Nat
         /\ \A S \in SUBSET (Attempts \X (1 .. PerFlight(n))) : IsFiniteSet(S) /\ Cardinality(S) \in Nat
         /\ Tokens(n) \in SUBSET (Attempts \X (1 .. PerFlight(n)))
<1>1. Landings(n) \in Nat /\ PerFlight(n) \in Nat \ {0}
  BY ShipAssumption DEF BookTypes, Landings, PerFlight
<1>2. Flights(n) \in Nat
  BY FiniteFacts DEF Flights
<1>3. IsFiniteSet(Attempts \X (1 .. PerFlight(n)))
  <2>1. IsFiniteSet(Attempts) /\ IsFiniteSet(1 .. PerFlight(n))
    BY <1>1, FiniteFacts, FS_Interval
  <2> QED
    BY <2>1, FS_Product
<1>4. \A S \in SUBSET (Attempts \X (1 .. PerFlight(n))) : IsFiniteSet(S) /\ Cardinality(S) \in Nat
  BY <1>3, FS_Subset, FS_CardinalityType
<1> QED
  BY <1>1, <1>2, <1>4 DEF Tokens

LEMMA SameFlights ==
  ASSUME NEW n \in Nodes, \A a \in Attempts : disk'[a][n].flew = disk[a][n].flew
  PROVE  Flights(n)' = Flights(n)
<1>1. {a \in Attempts : disk'[a][n].flew} = {a \in Attempts : disk[a][n].flew}
  OBVIOUS
<1> QED
  BY <1>1 DEF Flights

(* Nothing landed, nothing flew, and nobody may call more than before.     *)
LEMMA QuietGrant ==
  ASSUME BookTypes, BookTypes', NEW n \in Nodes, Granted(n),
         Landings(n)' = Landings(n), \A a \in Attempts : disk'[a][n].flew = disk[a][n].flew,
         \A s \in Ships : spc'[s] = "walk" /\ Left(s, n)' > 0 =>
           spc[s] = "walk" /\ att'[s] = att[s] /\ Left(s, n)' <= Left(s, n)
  PROVE  Granted(n)'
<1>0. \A s \in Ships : Left(s, n) \in Int /\ Left(s, n)' \in Int
  BY ShipAssumption DEF Left, PerFlight, BookTypes
<1>1. Tokens(n)' \subseteq Tokens(n)
  BY <1>0, GrantTypes DEF Tokens
<1>2. IsFiniteSet(Tokens(n)) /\ Cardinality(Tokens(n)) \in Nat
  BY GrantTypes
<1>3. Cardinality(Tokens(n)') <= Cardinality(Tokens(n)) /\ Cardinality(Tokens(n)') \in Nat
  BY <1>1, <1>2, FS_Subset, FS_CardinalityType
<1>4. Flights(n)' = Flights(n) /\ Cardinality(Tokens(n))' = Cardinality(Tokens(n)')
  BY SameFlights
<1>5. PerFlight(n)' = PerFlight(n) /\ Flights(n) * PerFlight(n) \in Nat
  BY GrantTypes DEF PerFlight
<1> QED
  BY <1>2, <1>3, <1>4, <1>5, GrantTypes DEF Granted

(* A new flight, on record, allows the calls it may make.                  *)
LEMMA FlownGrant ==
  ASSUME ShipInv, ShipInv', NEW s \in Ships, NEW n \in Nodes, NEW entry, Flown(s, n, entry),
         Granted(n)
  PROVE  Granted(n)'
<1> DEFINE a0 == att[s]
           F == {a \in Attempts : disk[a][n].flew}
           New == {a0} \X (1 .. PerFlight(n))
<1> USE DEF ShipInv
<1>1. a0 \in Attempts /\ spc[s] = "walk" /\ ~disk[a0][n].flew
  BY DEF Flown, Moves, WalkInv, NodeInv, IInv, RecordTypes
<1>2. \A a \in Attempts : disk'[a][n].flew = IF a = a0 THEN TRUE ELSE disk[a][n].flew
  <2>1. entry.flew = TRUE
    <3>1. disk'[a0][n] = entry
      BY <1>1 DEF Flown, Moves, Saves
    <3>2. disk'[a0][n] \in Entries
      BY <1>1 DEF IInv, RecordTypes
    <3> QED
      BY <3>1, <3>2 DEF Flown, Entries
  <2> QED
    BY <1>1, <2>1 DEF Flown, Moves, Saves
<1>3. Flights(n)' = Flights(n) + 1
  <2>1. {a \in Attempts : disk'[a][n].flew} = F \cup {a0} /\ a0 \notin F
    BY <1>1, <1>2
  <2>2. IsFiniteSet(F)
    BY FiniteFacts
  <2>3. Cardinality(F \cup {a0}) = Cardinality(F) + 1
    BY <2>1, <2>2, FS_AddElement
  <2> QED
    BY <2>1, <2>3 DEF Flights
<1>4. Tokens(n)' \subseteq Tokens(n) \cup New
  <2>1. \A r \in Ships : r # s => Left(r, n)' = Left(r, n) /\ UNCHANGED <<spc[r], att[r]>>
    BY DEF Flown, Moves, Left, PerFlight
  <2>2. UNCHANGED <<spc, att, PerFlight(n)>>
    BY DEF Flown, Moves, PerFlight
  <2> QED
    BY <2>1, <2>2 DEF Tokens
<1>5. IsFiniteSet(New) /\ Cardinality(New) = PerFlight(n)
  <2>1. IsFiniteSet({a0}) /\ Cardinality({a0}) = 1
    BY FS_Singleton
  <2>2. IsFiniteSet(1 .. PerFlight(n)) /\ Cardinality(1 .. PerFlight(n)) = PerFlight(n)
    BY GrantTypes, FS_Interval
  <2>3. IsFiniteSet(New) /\ Cardinality(New) = Cardinality({a0}) * Cardinality(1 .. PerFlight(n))
    BY <2>1, <2>2, FS_Product
  <2> QED
    BY <2>1, <2>2, <2>3, GrantTypes
<1>6. IsFiniteSet(Tokens(n)) /\ Cardinality(Tokens(n)) \in Nat
  BY GrantTypes
<1>7. /\ Cardinality(Tokens(n)') \in Nat
      /\ Cardinality(Tokens(n)') <= Cardinality(Tokens(n)) + PerFlight(n)
  <2>1. /\ IsFiniteSet(Tokens(n) \cup New) /\ IsFiniteSet(Tokens(n) \cap New)
        /\ Cardinality(Tokens(n) \cup New)
             = Cardinality(Tokens(n)) + Cardinality(New) - Cardinality(Tokens(n) \cap New)
    BY <1>5, <1>6, FS_Union, FS_Subset
  <2>2. Cardinality(Tokens(n) \cap New) \in Nat /\ Cardinality(Tokens(n) \cup New) \in Nat
    BY <2>1, FS_CardinalityType
  <2>3. /\ Cardinality(Tokens(n)') <= Cardinality(Tokens(n) \cup New)
        /\ Cardinality(Tokens(n)') \in Nat
    BY <1>4, <2>1, FS_Subset, FS_CardinalityType
  <2> QED
    BY <1>5, <1>6, <2>1, <2>2, <2>3, GrantTypes
<1>8. Landings(n)' = Landings(n) /\ PerFlight(n)' = PerFlight(n)
  BY DEF Flown, realVars, Landings, PerFlight
<1>9. (Flights(n) + 1) * PerFlight(n) = Flights(n) * PerFlight(n) + PerFlight(n)
  BY GrantTypes
<1>10. Flights(n) * PerFlight(n) \in Nat
  BY GrantTypes
<1> QED
  BY <1>3, <1>6, <1>7, <1>8, <1>9, <1>10, GrantTypes DEF Granted
(* A call uses up a token: at most one more landing, now or later.         *)
LEMMA CalledGrant ==
  ASSUME ShipInv, ShipInv', NEW s \in Ships, NEW n \in Nodes, NEW phase \in {"ok", "err"},
         Called(s, n, phase), Granted(n)
  PROVE  Granted(n)'
<1> DEFINE tok == <<att[s], Left(s, n)>>
<1> USE DEF ShipInv
<1>1. /\ spc[s] = "walk" /\ npc[s][n] = "apply" /\ npc'[s][n] = phase
      /\ UNCHANGED <<spc, att, disk, tries>>
      /\ att[s] \in Attempts /\ tries[s][n] \in 0 .. MaxRetries /\ MaxRetries \in Nat
  BY ShipAssumption DEF Called, Moves, ApplyResourceChange, durableVars, IInv, RecordTypes, BookTypes
<1>2. /\ Left(s, n) \in 1 .. PerFlight(n)
      /\ Left(s, n)' \in Nat /\ Left(s, n)' < Left(s, n)
  <2>1. CASE Kind[n] = "create"
    BY <1>1, <2>1 DEF Left, PerFlight
  <2>2. CASE Kind[n] # "create"
    BY <1>1, <2>2 DEF Left, PerFlight
  <2> QED
    BY <2>1, <2>2
<1>3. \A r \in Ships : r # s => Left(r, n)' = Left(r, n)
  BY <1>1 DEF Called, Moves, Left
<1>4. tok \in Tokens(n)
  BY <1>1, <1>2 DEF Tokens
<1>5. Tokens(n)' \subseteq Tokens(n) \ {tok}
  <2> SUFFICES ASSUME NEW t \in Tokens(n)' PROVE t \in Tokens(n) /\ t # tok
    OBVIOUS
  <2>1. PICK r \in Ships : spc[r] = "walk" /\ att[r] = t[1] /\ t[2] <= Left(r, n)'
    BY <1>1 DEF Tokens
  <2>2. t \in Attempts \X (1 .. PerFlight(n))
    BY DEF Tokens, PerFlight
  <2>3. t[2] \in Nat
    BY <2>2, GrantTypes
  <2>4. CASE r = s
    BY <1>1, <1>2, <2>1, <2>2, <2>3, <2>4, GrantTypes DEF Tokens
  <2>5. CASE r # s
    <3>1. t[1] # att[s]
      BY <1>1, <2>1, <2>5 DEF IInv, OwnAttempt, Running
    <3> QED
      BY <1>3, <2>1, <2>2, <2>5, <3>1 DEF Tokens
  <2> QED
    BY <2>4, <2>5
<1>6. /\ Cardinality(Tokens(n)) \in Nat /\ Cardinality(Tokens(n)') \in Nat
      /\ Cardinality(Tokens(n)') + 1 <= Cardinality(Tokens(n))
  <2>1. IsFiniteSet(Tokens(n)) /\ Cardinality(Tokens(n)) \in Nat
    BY GrantTypes
  <2>2. /\ IsFiniteSet(Tokens(n) \ {tok})
        /\ Cardinality(Tokens(n) \ {tok}) = Cardinality(Tokens(n)) - 1
    BY <1>4, <2>1, FS_RemoveElement
  <2>3. /\ Cardinality(Tokens(n)') <= Cardinality(Tokens(n) \ {tok})
        /\ Cardinality(Tokens(n)') \in Nat
    BY <1>5, <2>2, FS_Subset, FS_CardinalityType
  <2> QED
    BY <2>1, <2>2, <2>3
<1>7. Landings(n)' <= Landings(n) + 1
  <2>1. PICK effect \in {"now", "later", "never"} :
          /\ effect = "later" => n \notin slow
          /\ landed' = [landed EXCEPT ![n] = IF effect = "now" THEN @ + 1 ELSE @]
          /\ due' = IF effect = "later" THEN due \cup {n} ELSE due
    BY DEF Called, ApplyResourceChange
  <2> QED
    BY <2>1 DEF Landings, BookTypes
<1>8. /\ Flights(n)' = Flights(n) /\ PerFlight(n)' = PerFlight(n)
      /\ Flights(n) * PerFlight(n) \in Nat
  BY <1>1, GrantTypes DEF Flights, PerFlight
<1>9. Landings(n)' \in Nat
  BY DEF Landings, BookTypes
<1> QED
  BY <1>6, <1>7, <1>8, <1>9, GrantTypes DEF Granted

LEMMA GrantStep ==
  ASSUME ShipInv, ShipInv', GrantInv, [Next]_vars, NEW n \in Nodes
  PROVE  Granted(n)'
<1> USE DEF ShipInv
<1>0. Granted(n) /\ \A s \in Ships : MaxRetries \in Nat /\ tries[s][n] \in 0 .. MaxRetries
  BY ShipAssumption DEF GrantInv, BookTypes
<1>1. ASSUME NEW s \in Ships, NEW k \in Nodes, NodeStep(s, k) \/ Inconclusive(s, k)
      PROVE  Granted(n)'
  <2>1. StepClass(s, k)
    BY <1>1, StepClasses
  <2>2. /\ spc[s] = "walk" /\ UNCHANGED <<spc, att>> /\ att[s] \in Attempts
        /\ \A t \in Ships, j \in Nodes : t # s \/ j # k => npc'[t][j] = npc[t][j]
        /\ UNCHANGED disk \/ Saves(s)
        /\ \A j \in Nodes : NodeInv(s, j)
    BY <2>1 DEF StepClass, Launched, Received, Ended, Worked, Flown, Called, Retried, Moves,
       ApplyResourceChange, RetryCreate, durableVars, WalkInv, IInv, RecordTypes
  (* What flew before has flown after, unless this step flies it.          *)
  <2>3. ASSUME mem'[s][n].flew = mem[s][n].flew
        PROVE  \A a \in Attempts : disk'[a][n].flew = disk[a][n].flew
    BY <2>2, <2>3 DEF Saves, NodeInv
  <2>4. CASE k = n
    <3>1. ASSUME UNCHANGED <<landed, due, tries>>, npc'[s][n] \notin {"apply", "err"},
                 mem'[s][n].flew = mem[s][n].flew
          PROVE  Granted(n)'
      <4>1. Left(s, n)' = 0 /\ \A t \in Ships : t # s => Left(t, n)' = Left(t, n)
        BY <2>2, <3>1 DEF Left
      <4>2. \A t \in Ships : Left(t, n) \in Int
        BY <1>0 DEF Left
      <4> QED
        BY <1>0, <2>2, <2>3, <3>1, <4>1, <4>2, QuietGrant DEF Landings
    <3>2. CASE Launched(s, n) \/ Received(s, n)
      BY <3>1, <3>2 DEF Launched, Received, Moves, realVars
    <3>3. ASSUME NEW entry \in Entries, Ended(s, n, entry)
          PROVE  Granted(n)'
      BY <3>1, <3>3 DEF Ended, Moves, realVars
    <3>4. ASSUME NEW entry \in Entries, NEW phase \in Working, Worked(s, n, entry, phase)
          PROVE  Granted(n)'
      BY <3>1, <3>4 DEF Worked, Moves, realVars
    <3>5. ASSUME NEW entry \in Entries, Flown(s, n, entry)
          PROVE  Granted(n)'
      BY <1>0, <3>5, FlownGrant
    <3>6. ASSUME NEW phase \in {"ok", "err"}, Called(s, n, phase)
          PROVE  Granted(n)'
      BY <1>0, <3>6, CalledGrant
    <3>7. CASE Retried(s, n)
      <4>1. /\ npc[s][n] = "err" /\ Kind[n] = "create" /\ npc'[s][n] = "apply"
            /\ tries'[s][n] = tries[s][n] + 1
            /\ \A t \in Ships : t # s => tries'[t][n] = tries[t][n]
            /\ UNCHANGED realVars /\ mem'[s][n] = mem[s][n]
        BY <3>7 DEF Retried, RetryCreate, Moves, BookTypes
      <4>2. Left(s, n)' = Left(s, n) /\ Left(s, n) \in Int
        BY <1>0, <4>1 DEF Left
      <4>3. \A t \in Ships : t # s => Left(t, n)' = Left(t, n) /\ Left(t, n) \in Int
        <5>1. \A t \in Ships : t # s => npc'[t][n] = npc[t][n]
          BY <2>2
        <5> QED
          BY <1>0, <4>1, <5>1 DEF Left
      <4>4. \A t \in Ships : Left(t, n)' <= Left(t, n)
        BY <4>2, <4>3
      <4>5. \A a \in Attempts : disk'[a][n].flew = disk[a][n].flew
        BY <2>3, <4>1
      <4>6. Landings(n)' = Landings(n)
        BY <4>1 DEF Landings, realVars
      <4> QED
        BY <1>0, <2>2, <4>4, <4>5, <4>6, QuietGrant
    <3> QED
      BY <2>1, <2>4, <3>2, <3>3, <3>4, <3>5, <3>6, <3>7 DEF StepClass
  <2>5. CASE k # n
    <3>1. /\ mem'[s][n] = mem[s][n]
          /\ \A t \in Ships : tries'[t][n] = tries[t][n] /\ npc'[t][n] = npc[t][n]
      <4>1. mem'[s][n] = mem[s][n]
        BY <2>1, <2>5 DEF StepClass, Launched, Received, Ended, Worked, Flown, Called, Retried,
           Moves
      <4>2. UNCHANGED tries \/ tries' = [tries EXCEPT ![s][k] = @ + 1]
        BY <2>1 DEF StepClass, Launched, Received, Ended, Worked, Flown, Called, Retried,
           ApplyResourceChange, RetryCreate
      <4>3. \A t \in Ships : tries'[t][n] = tries[t][n]
        <5>1. \A t \in Ships : tries[t] \in [Nodes -> 0 .. MaxRetries]
          BY DEF BookTypes
        <5>2. CASE tries' = [tries EXCEPT ![s][k] = @ + 1]
          <6>1. tries' = [tries EXCEPT ![s] = [tries[s] EXCEPT ![k] = tries[s][k] + 1]]
            BY <5>2 DEF BookTypes
          <6>2. \A t \in Ships : t # s => tries'[t] = tries[t]
            BY <6>1 DEF BookTypes
          <6>3. tries'[s] = [tries[s] EXCEPT ![k] = tries[s][k] + 1]
            BY <6>1 DEF BookTypes
          <6> QED
            BY <2>5, <5>1, <6>2, <6>3
        <5> QED
          BY <4>2, <5>2
      <4> QED
        BY <2>2, <2>5, <4>1, <4>3
    <3>2. landed'[n] = landed[n] /\ (n \in due' <=> n \in due)
      BY <2>1, <2>5 DEF StepClass, Launched, Received, Ended, Worked, Flown, Called, Retried,
         ApplyResourceChange, RetryCreate, realVars, BookTypes
    <3>3. \A t \in Ships : Left(t, n)' = Left(t, n) /\ Left(t, n) \in Int
      BY <1>0, <3>1 DEF Left
    <3>4. \A t \in Ships : Left(t, n)' <= Left(t, n)
      BY <3>3
    <3>5. Landings(n)' = Landings(n)
      BY <3>2 DEF Landings
    <3>6. \A a \in Attempts : disk'[a][n].flew = disk[a][n].flew
      BY <2>3, <3>1
    <3> QED
      BY <1>0, <2>2, <3>4, <3>5, <3>6, QuietGrant
  <2> QED
    BY <2>4, <2>5
<1>2. ASSUME Landings(n)' = Landings(n), UNCHANGED <<disk, spc, att, npc, tries>>
      PROVE  Granted(n)'
  <2>1. \A t \in Ships : Left(t, n)' = Left(t, n) /\ Left(t, n) \in Int
    BY <1>0, <1>2 DEF Left
  <2>2. \A t \in Ships : Left(t, n)' <= Left(t, n)
    BY <2>1
  <2> QED
    BY <1>0, <1>2, <2>2, QuietGrant
<1>3. ASSUME NEW k \in Nodes, LandLate(k)
      PROVE  Granted(n)'
  <2>1. Landings(n)' = Landings(n)
    <3>1. CASE k = n
      BY <1>3, <3>1 DEF LandLate, Landings, BookTypes
    <3>2. CASE k # n
      BY <1>3, <3>2 DEF LandLate, Landings, BookTypes
    <3> QED
      BY <3>1, <3>2
  <2> QED
    BY <1>2, <1>3, <2>1 DEF LandLate, durableVars
<1>4. ASSUME NEW k \in Nodes, Drift(k) \/ Adopt(k)
      PROVE  Granted(n)'
  BY <1>2, <1>4 DEF Drift, Adopt, Landings, durableVars
<1>5. CASE UNCHANGED vars
  BY <1>2, <1>5 DEF vars, realVars, durableVars, Landings
(* The steps of the main goroutine: nobody calls who did not before.       *)
<1>6. ASSUME NEW s \in Ships, UNCHANGED <<landed, due>>,
             \A t \in Ships : t # s => UNCHANGED <<spc[t], att[t], npc[t], tries[t]>>,
             npc'[s][n] \notin {"apply", "err"},
             \A a \in Attempts : disk'[a][n].flew = disk[a][n].flew
      PROVE  Granted(n)'
  <2>1. Left(s, n)' = 0
    BY <1>6 DEF Left
  <2>2. \A t \in Ships : t # s => Left(t, n)' = Left(t, n) /\ Left(t, n) \in Int
    BY <1>0, <1>6 DEF Left
  <2>3. \A t \in Ships : Left(t, n)' > 0 =>
          spc'[t] = spc[t] /\ att'[t] = att[t] /\ Left(t, n)' <= Left(t, n)
    BY <1>6, <2>1, <2>2
  <2>4. Landings(n)' = Landings(n)
    BY <1>6 DEF Landings
  <2> QED
    BY <1>0, <1>6, <2>3, <2>4, QuietGrant
<1>7. ASSUME NEW s \in Ships, ReadHistory(s) \/ BeginApply(s)
      PROVE  Granted(n)'
  <2>1. /\ UNCHANGED <<disk, realVars, npc, tries>>
        /\ \A t \in Ships : t # s => UNCHANGED <<spc[t], att[t]>>
        /\ spc[s] # "walk"
    <3>1. CASE ReadHistory(s)
      BY <3>1 DEF ReadHistory, MainStep, durableVars, IInv, RecordTypes
    <3>2. CASE BeginApply(s)
      BY <3>2 DEF BeginApply, MainStep, IInv, RecordTypes
    <3> QED
      BY <1>7, <3>1, <3>2
  <2>2. npc[s][n] = "waiting"
    BY <2>1 DEF IInv, OnlyInWalk
  <2> QED
    BY <1>6, <2>1, <2>2 DEF realVars
<1>8. ASSUME NEW s \in Ships, PassThrough(s)
      PROVE  Granted(n)'
  <2>1. /\ UNCHANGED <<realVars, att, tries>>
        /\ \A t \in Ships : t # s => UNCHANGED <<spc[t], npc[t]>>
        /\ npc'[s][n] \in {"seeded", "waiting"}
        /\ mem'[s][n].flew = FALSE /\ spc[s] = "pass"
        /\ \A a \in Attempts : disk'[a][n] = IF a = att[s] THEN mem'[s][n] ELSE disk[a][n]
    BY <1>8 DEF PassThrough, Persist, MainStep, NoEntry, IInv, RecordTypes
  <2>2. \A a \in Attempts : disk'[a][n].flew = disk[a][n].flew
    <3>1. disk[att[s]][n].flew = FALSE
      BY <2>1 DEF BlankInv, NoEntry
    <3> QED
      BY <2>1, <3>1
  <2> QED
    BY <1>6, <2>1, <2>2 DEF realVars
<1>9. ASSUME NEW s \in Ships, Seal(s) \/ Crash(s)
      PROVE  Granted(n)'
  <2>1. Forget(s) /\ spc' = [spc EXCEPT ![s] = "idle"] /\ UNCHANGED realVars
    BY <1>9 DEF Seal, Crash, MainStep
  <2>2. /\ \A t \in Ships : t # s => UNCHANGED <<spc[t], att[t], npc[t], tries[t]>>
        /\ npc'[s][n] = "waiting"
    BY <2>1 DEF Forget, IInv, RecordTypes, BookTypes
  <2>3. \A a \in Attempts : disk'[a][n].flew = disk[a][n].flew
    <3>1. CASE Crash(s)
      BY <3>1 DEF Crash, durableVars
    <3>2. CASE Seal(s)
      <4>1. spc[s] = "walk" /\ NodeInv(s, n)
        BY <3>2 DEF Seal, MainStep, WalkInv
      <4>2. \A a \in Attempts : disk'[a][n] = IF a = att[s] THEN mem[s][n] ELSE disk[a][n]
        BY <3>2 DEF Seal, IInv, RecordTypes
      <4> QED
        BY <4>1, <4>2 DEF NodeInv
    <3> QED
      BY <1>9, <3>1, <3>2
  <2> QED
    BY <1>6, <2>1, <2>2, <2>3 DEF realVars
<1> QED
  BY <1>1, <1>3, <1>4, <1>5, <1>7, <1>8, <1>9 DEF Next

(* However many ships there are, wherever they die and whatever they make  *)
(* of an answer, no more is performed than the in_flight entries on record *)
(* allow for: an attempt flies a resource once and calls for it as often   *)
(* as the retries of a create allow.                                       *)
THEOREM LandingsStayRecorded == Spec => []LandingsAreRecorded
<1>1. ShipInv /\ GrantInv => LandingsAreRecorded
  <2> SUFFICES ASSUME ShipInv, GrantInv, NEW n \in Nodes
               PROVE  Landings(n) <= Flights(n) * PerFlight(n)
    BY DEF LandingsAreRecorded, Landings, PerFlight
  <2>1. Granted(n) /\ Cardinality(Tokens(n)) \in Nat
    BY GrantTypes DEF GrantInv, ShipInv
  <2>2. Flights(n) * PerFlight(n) \in Nat
    BY GrantTypes DEF ShipInv
  <2> QED
    BY <2>1, <2>2, GrantTypes DEF Granted, ShipInv
<1>2. Init => GrantInv
  <2> SUFFICES ASSUME Init, NEW n \in Nodes PROVE Granted(n)
    BY DEF GrantInv
  <2>1. Tokens(n) = {} /\ Landings(n) = 0
    BY DEF Init, Tokens, Landings
  <2>2. Cardinality(Tokens(n)) = 0
    BY <2>1, FS_EmptySet
  <2>3. Flights(n) * PerFlight(n) \in Nat
    BY BookInit, GrantTypes
  <2> QED
    BY <2>1, <2>2, <2>3 DEF Granted
<1>3. ShipInv /\ GrantInv /\ [Next]_vars => (ShipInv /\ GrantInv)'
  BY ShipStep, GrantStep DEF GrantInv
<1> QED
  BY <1>1, <1>2, <1>3, ShipInit, PTL DEF Spec
=============================================================================
