------------------------ MODULE ApplyRecords_proofs ------------------------
(* Until an acquisition of the ledger lock outlives its TTL, the attempts  *)
(* of a proposal have distinct numbers, so that the unlocked overwrites of *)
(* a running ship touch nobody else's record and no sealed one.            *)
EXTENDS ApplyRecords, BlobLock_proofs

(* Where a process is in ship says where it is in Lock.                    *)
Phases ==
  \A w \in Procs :
    /\ apc[w] = "lock" <=> lpc[w] \in {"try", "inspect", "wait", "reclaim"}
    /\ apc[w] \in {"list", "create", "unlock"} <=> lpc[w] = "in"

(* What has been decided under the lock is still so when it is acted on:   *)
(* the number is free until the record is created, and the record is the   *)
(* creator's, unsealed, until it stops.  The name in a record tells two    *)
(* running attempts apart.                                                 *)
NumberIsFree ==
  \A w \in Procs :
    apc[w] = "create" =>
      /\ NextAttempt(mine[w])
      /\ rec[w].by = w /\ ~rec[w].sealed
      /\ rec[w].parent # 0 => rec[w].parent < mine[w] /\ stored[rec[w].parent].sealed

RecordIsMine ==
  \A w \in Procs :
    apc[w] \in {"unlock", "run"} =>
      stored[mine[w]] = rec[w] /\ rec[w].by = w /\ ~rec[w].sealed

AbsentIsEmpty == \A a \in Attempts : ~Exists(a) => stored[a] = NoRecord

IInv ==
  /\ RecordTypeOK
  /\ LockInv
  /\ Phases
  /\ ParentIsSealed
  /\ expiries = 0 => NumberIsFree /\ RecordIsMine /\ AbsentIsEmpty

-----------------------------------------------------------------------------
LEMMA NoRecordType == NoRecord \in Records /\ NoRecord.by = Free
  BY ApplyAssumption DEF Records, NoRecord

LEMMA SavedRecordType ==
  ASSUME NEW r \in Records, r.saves < MaxSaves
  PROVE  [r EXCEPT !.saves = r.saves + 1] \in Records
<1>1. r.saves + 1 \in 0 .. MaxSaves
  BY ApplyAssumption DEF Records
<1> QED
  BY <1>1 DEF Records

LEMMA SealedRecordType ==
  ASSUME NEW r \in Records
  PROVE  [r EXCEPT !.sealed = TRUE] \in Records
BY DEF Records

(* Every step of ship is a step of the lock, or leaves it alone.           *)
LEMMA ShipStepsLock == [Next]_vars => [LockNext]_lockVars
<1> SUFFICES ASSUME [Next]_vars PROVE [LockNext]_lockVars
  OBVIOUS
<1>1. CASE UNCHANGED vars
  BY <1>1 DEF vars
<1>2. ASSUME NEW w \in Procs,
             \/ BeginApply(w) \/ Locking(w) \/ Locked(w) \/ LedgerLocked(w)
             \/ ListAttempts(w) \/ CreateRecord(w) \/ Unlock(w)
             \/ SaveApplyProgress(w) \/ SealApply(w) \/ Stop(w) \/ ExpireLock(w)
      PROVE  [LockNext]_lockVars
  BY <1>2 DEF LockNext, LockCall, BeginApply, Locking, Locked, LedgerLocked,
     ListAttempts, CreateRecord, Unlock, SaveApplyProgress, SealApply, Stop, ExpireLock
<1> QED
  BY <1>1, <1>2 DEF Next

LEMMA TypeStep == RecordTypeOK /\ LockTypeOK' /\ [Next]_vars => RecordTypeOK'
<1> SUFFICES ASSUME RecordTypeOK, LockTypeOK', [Next]_vars PROVE RecordTypeOK'
  OBVIOUS
<1> USE ApplyAssumption DEF RecordTypeOK, Attempts
<1>1. CASE UNCHANGED vars
  BY <1>1 DEF vars, recVars
<1>2. ASSUME NEW w \in Procs,
             BeginApply(w) \/ Locked(w) \/ LedgerLocked(w) \/ Unlock(w)
      PROVE  RecordTypeOK'
  BY <1>2 DEF BeginApply, Locked, LedgerLocked, Unlock, Go
<1>3. ASSUME NEW w \in Procs, Locking(w) \/ ExpireLock(w)
      PROVE  RecordTypeOK'
  BY <1>3 DEF Locking, ExpireLock, recVars
<1>4. ASSUME NEW w \in Procs, ListAttempts(w)
      PROVE  RecordTypeOK'
  <2>1. PICK a \in Attempts, n \in 0 .. MaxAttempts :
          /\ mine' = [mine EXCEPT ![w] = a]
          /\ rec' = [rec EXCEPT ![w] = [NoRecord EXCEPT !.by = w, !.parent = n]]
    BY <1>4 DEF ListAttempts
  <2>2. [NoRecord EXCEPT !.by = w, !.parent = n] \in Records
    BY NoRecordType DEF Records
  <2> QED
    BY <1>4, <2>1, <2>2 DEF ListAttempts, Go
<1>5. ASSUME NEW w \in Procs, CreateRecord(w)
      PROVE  RecordTypeOK'
  BY <1>5 DEF CreateRecord, WriteApply, Go
<1>6. ASSUME NEW w \in Procs, SaveApplyProgress(w)
      PROVE  RecordTypeOK'
  <2>1. [rec[w] EXCEPT !.saves = @ + 1] \in Records
    BY <1>6, SavedRecordType DEF SaveApplyProgress
  <2> QED
    BY <1>6, <2>1 DEF SaveApplyProgress, WriteApply
<1>7. ASSUME NEW w \in Procs, SealApply(w)
      PROVE  RecordTypeOK'
  <2>1. [rec[w] EXCEPT !.sealed = TRUE] \in Records
    BY SealedRecordType
  <2> QED
    BY <1>7, <2>1 DEF SealApply, WriteApply, Go
<1>8. ASSUME NEW w \in Procs, Stop(w)
      PROVE  RecordTypeOK'
  BY <1>8 DEF Stop
<1> QED
  BY <1>1, <1>2, <1>3, <1>4, <1>5, <1>6, <1>7, <1>8 DEF Next

LEMMA PhasesStep ==
  RecordTypeOK /\ Phases /\ [Next]_vars => Phases'
<1> SUFFICES ASSUME RecordTypeOK, Phases, [Next]_vars PROVE Phases'
  OBVIOUS
<1> USE DEF RecordTypeOK, LockTypeOK, LockPhases, Phases, Go, LockStep
<1>1. CASE UNCHANGED vars
  BY <1>1 DEF vars, lockVars, recVars
<1>2. ASSUME NEW w \in Procs,
             BeginApply(w) \/ Locked(w) \/ LedgerLocked(w) \/ Unlock(w)
      PROVE  Phases'
  BY <1>2 DEF BeginApply, Locked, LedgerLocked, Unlock, Request, Create, GiveUp,
     CreateFails, Release
<1>3. ASSUME NEW w \in Procs, Locking(w) \/ ExpireLock(w)
      PROVE  Phases'
  BY <1>3 DEF Locking, ExpireLock, recVars, Contend, InspectExpired, InspectLive,
     Poll, Reclaim, Expire
<1>4. ASSUME NEW w \in Procs, ListAttempts(w) \/ CreateRecord(w)
      PROVE  Phases'
  BY <1>4 DEF ListAttempts, CreateRecord, lockVars
<1>5. ASSUME NEW w \in Procs, SaveApplyProgress(w) \/ SealApply(w)
      PROVE  Phases'
  BY <1>5 DEF SaveApplyProgress, SealApply, lockVars
<1>6. ASSUME NEW w \in Procs, Stop(w)
      PROVE  Phases'
  BY <1>6 DEF Stop, Abandon, lockVars
<1> QED
  BY <1>1, <1>2, <1>3, <1>4, <1>5, <1>6 DEF Next

LEMMA ExpiriesGrow == LockTypeOK /\ [LockNext]_lockVars /\ expiries' = 0 => expiries = 0
BY LockAssumption DEF LockTypeOK, LockNext, LockCall, lockVars, Request, Create, Contend,
   InspectExpired, InspectLive, Poll, GiveUp, CreateFails, Reclaim, Release, Abandon, Expire

LEMMA ExpiryKeepsRecords ==
  LockTypeOK /\ [Next]_vars /\ expiries = 0 /\ expiries' # 0 => UNCHANGED stored
<1> SUFFICES ASSUME LockTypeOK, [Next]_vars, expiries' # expiries PROVE UNCHANGED stored
  OBVIOUS
<1>1. ASSUME NEW w \in Procs,
             ListAttempts(w) \/ CreateRecord(w) \/ SaveApplyProgress(w) \/ SealApply(w)
      PROVE  FALSE
  BY <1>1 DEF ListAttempts, CreateRecord, SaveApplyProgress, SealApply, lockVars
<1>2. ASSUME NEW w \in Procs,
             \/ BeginApply(w) \/ Locking(w) \/ Locked(w) \/ LedgerLocked(w)
             \/ Unlock(w) \/ Stop(w) \/ ExpireLock(w)
      PROVE  UNCHANGED stored
  BY <1>2 DEF BeginApply, Locking, Locked, LedgerLocked, Unlock, Stop, ExpireLock, recVars
<1> QED
  BY <1>1, <1>2 DEF Next, vars, recVars

(* No two processes are between listing the attempts and unlocking.        *)
LEMMA OneDecides ==
  ASSUME LockInv, Phases, expiries = 0,
         NEW v \in Procs, NEW w \in Procs,
         apc[v] \in {"list", "create", "unlock"}, apc[w] \in {"list", "create", "unlock"}
  PROVE  v = w
BY DEF LockInv, Phases, ExclusiveUntilExpiry

Decided == NumberIsFree /\ RecordIsMine /\ AbsentIsEmpty /\ ParentIsSealed

(* A write by a running ship replaces its own unsealed record by one with  *)
(* the same parent.                                                        *)
LEMMA OwnWriteStep ==
  ASSUME IInv, expiries = 0, expiries' = 0, Decided,
         NEW w \in Procs, apc[w] = "run",
         NEW r \in Records, r.by = w, r.parent = rec[w].parent,
         WriteApply(w, r), UNCHANGED mine,
         \/ ~r.sealed /\ UNCHANGED apc
         \/ apc' = [apc EXCEPT ![w] = "idle"]
  PROVE  Decided' /\ \A a \in Attempts : stored[a].sealed => stored'[a] = stored[a]
<1>1. RecordTypeOK
  BY DEF IInv
<1>2. /\ mine[w] \in Attempts /\ stored[mine[w]] = rec[w]
      /\ rec[w].by = w /\ ~rec[w].sealed /\ w # Free
  BY <1>1, LockAssumption DEF Decided, RecordIsMine, RecordTypeOK
<1>3. ASSUME NEW a \in Attempts
      PROVE  /\ stored'[a].by = stored[a].by
             /\ stored'[a].parent = stored[a].parent
             /\ stored[a].sealed => stored'[a] = stored[a]
  BY <1>1, <1>2 DEF Exists, RecordTypeOK, WriteApply
<1>4. \A v \in Procs \ {w} : apc[v] \in {"unlock", "run"} => mine[v] # mine[w]
  BY <1>2 DEF Decided, RecordIsMine
<1>5. \A v \in Procs \ {w} : apc'[v] = apc[v] /\ rec'[v] = rec[v]
  BY <1>1 DEF RecordTypeOK, WriteApply
<1>6. NumberIsFree'
  <2> SUFFICES ASSUME NEW v \in Procs, apc'[v] = "create"
      PROVE  (/\ NextAttempt(mine[v])
              /\ rec[v].by = v /\ ~rec[v].sealed
              /\ rec[v].parent # 0 =>
                    rec[v].parent < mine[v] /\ stored[rec[v].parent].sealed)'
    BY DEF NumberIsFree
  <2>1. v # w /\ apc[v] = "create"
    BY <1>1, <1>5 DEF RecordTypeOK
  <2>2. /\ NextAttempt(mine[v]) /\ rec[v].by = v /\ ~rec[v].sealed
        /\ rec[v].parent # 0 => rec[v].parent < mine[v] /\ stored[rec[v].parent].sealed
    BY <2>1 DEF Decided, NumberIsFree
  <2>3. rec[v] \in Records /\ (rec[v].parent # 0 => rec[v].parent \in Attempts)
    BY <1>1, ApplyAssumption DEF RecordTypeOK, Records, Attempts
  <2> QED
    BY <1>3, <1>5, <2>1, <2>2, <2>3 DEF NextAttempt, Exists
<1>7. RecordIsMine'
  <2> SUFFICES ASSUME NEW v \in Procs, apc'[v] \in {"unlock", "run"}
      PROVE  (stored[mine[v]] = rec[v] /\ rec[v].by = v /\ ~rec[v].sealed)'
    BY DEF RecordIsMine
  <2>1. CASE v = w
    BY <2>1, <1>1, <1>2 DEF RecordTypeOK, WriteApply
  <2>2. CASE v # w
    BY <2>2, <1>1, <1>4, <1>5 DEF RecordTypeOK, Decided, RecordIsMine, WriteApply
  <2> QED
    BY <2>1, <2>2
<1>8. AbsentIsEmpty'
  BY <1>1, <1>2, <1>3 DEF Decided, AbsentIsEmpty, RecordTypeOK, Exists, WriteApply
<1>9. ParentIsSealed'
  <2> SUFFICES ASSUME NEW a \in Attempts, stored'[a].by # Free, stored'[a].parent # 0
      PROVE  stored'[a].parent < a /\ stored'[stored'[a].parent].sealed
    BY DEF ParentIsSealed, Exists
  <2>1. stored'[a].parent = stored[a].parent /\ Exists(a)
    BY <1>3 DEF Exists
  <2>2. stored[a].parent < a /\ stored[stored[a].parent].sealed
    BY <2>1 DEF Decided, ParentIsSealed
  <2>3. stored[a].parent \in Attempts
    BY <1>1, <2>1, ApplyAssumption DEF RecordTypeOK, Records, Attempts
  <2> QED
    BY <1>3, <2>1, <2>2, <2>3
<1> QED
  BY <1>3, <1>6, <1>7, <1>8, <1>9 DEF Decided

LEMMA RecordsStep ==
  ASSUME IInv, [Next]_vars, LockInv', expiries' = 0
  PROVE  Decided' /\ \A a \in Attempts : stored[a].sealed => stored'[a] = stored[a]
<1>1. RecordTypeOK /\ LockInv /\ Phases
  BY DEF IInv
<1>2. expiries = 0
  BY <1>1, ShipStepsLock, ExpiriesGrow DEF RecordTypeOK
<1>3. Decided
  BY <1>2 DEF IInv, Decided
<1> USE DEF Decided, NumberIsFree, RecordIsMine, AbsentIsEmpty, ParentIsSealed, Exists
<1>4. ASSUME UNCHANGED <<stored, mine, rec>>,
             \A v \in Procs :
               /\ apc'[v] = "create" => apc[v] = "create"
               /\ apc'[v] \in {"unlock", "run"} => apc[v] \in {"unlock", "run"}
      PROVE  Decided' /\ \A a \in Attempts : stored[a].sealed => stored'[a] = stored[a]
  BY <1>2, <1>3, <1>4 DEF NextAttempt
<1>5. CASE UNCHANGED vars
  BY <1>4, <1>5 DEF vars, recVars
<1>6. ASSUME NEW w \in Procs,
             \/ BeginApply(w) \/ Locking(w) \/ Locked(w) \/ LedgerLocked(w)
             \/ Unlock(w) \/ Stop(w) \/ ExpireLock(w)
      PROVE  Decided' /\ \A a \in Attempts : stored[a].sealed => stored'[a] = stored[a]
  <2>1. UNCHANGED <<stored, mine, rec>>
    BY <1>6 DEF BeginApply, Locking, Locked, LedgerLocked, Unlock, Stop, ExpireLock, recVars
  <2>2. ASSUME NEW v \in Procs
        PROVE  /\ apc'[v] = "create" => apc[v] = "create"
               /\ apc'[v] \in {"unlock", "run"} => apc[v] \in {"unlock", "run"}
    BY <1>1, <1>6 DEF BeginApply, Locking, Locked, LedgerLocked, Unlock, Stop, ExpireLock,
       recVars, Go, RecordTypeOK
  <2> QED
    BY <1>4, <2>1, <2>2
<1>7. ASSUME NEW w \in Procs, ListAttempts(w)
      PROVE  Decided' /\ \A a \in Attempts : stored[a].sealed => stored'[a] = stored[a]
  <2>1. PICK a \in Attempts, n \in 0 .. MaxAttempts :
          /\ NextAttempt(a) /\ IsParent(n)
          /\ mine' = [mine EXCEPT ![w] = a]
          /\ rec' = [rec EXCEPT ![w] = [NoRecord EXCEPT !.by = w, !.parent = n]]
    BY <1>7 DEF ListAttempts
  <2>2. stored' = stored /\ apc' = [apc EXCEPT ![w] = "create"]
    BY <1>7 DEF ListAttempts, Go
  <2>3. mine'[w] = a /\ rec'[w].by = w /\ rec'[w].parent = n /\ ~rec'[w].sealed
    BY <1>1, <2>1 DEF RecordTypeOK, NoRecord
  <2>4. \A v \in Procs \ {w} :
          apc'[v] = apc[v] /\ mine'[v] = mine[v] /\ rec'[v] = rec[v]
    BY <1>1, <2>1, <2>2 DEF RecordTypeOK
  <2>5. apc'[w] = "create"
    BY <1>1, <2>2 DEF RecordTypeOK
  <2>6. n # 0 => n < a /\ stored[n].sealed
    <3> SUFFICES ASSUME n # 0 PROVE n < a /\ stored[n].sealed
      OBVIOUS
    <3>1. n \in Attempts /\ stored[n].sealed
      BY <2>1 DEF IsParent
    <3>2. stored[n].by # Free
      BY <1>3, <3>1 DEF NoRecord
    <3> QED
      BY <2>1, <3>1, <3>2 DEF NextAttempt
  <2> QED
    BY <1>2, <1>3, <2>1, <2>2, <2>3, <2>4, <2>5, <2>6 DEF NextAttempt
<1>8. ASSUME NEW w \in Procs, CreateRecord(w)
      PROVE  Decided' /\ \A a \in Attempts : stored[a].sealed => stored'[a] = stored[a]
  <2>1. /\ apc[w] = "create" /\ apc' = [apc EXCEPT ![w] = "unlock"]
        /\ stored' = [stored EXCEPT ![mine[w]] = rec[w]]
        /\ rec' = rec /\ mine' = mine
    BY <1>1, <1>8 DEF CreateRecord, WriteApply, Go, RecordTypeOK
  <2>2. /\ NextAttempt(mine[w]) /\ mine[w] \in Attempts
        /\ rec[w].by = w /\ ~rec[w].sealed /\ w # Free
        /\ rec[w].parent # 0 => rec[w].parent < mine[w] /\ stored[rec[w].parent].sealed
    BY <1>1, <1>3, <2>1, LockAssumption DEF RecordTypeOK
  <2>3. ~ Exists(mine[w]) /\ ~stored[mine[w]].sealed
    BY <1>3, <2>2 DEF NextAttempt, NoRecord, Attempts
  <2>4. /\ stored'[mine[w]] = rec[w]
        /\ \A a \in Attempts \ {mine[w]} : stored'[a] = stored[a]
    BY <1>1, <2>1, <2>2 DEF RecordTypeOK
  <2>5. \A a \in Attempts : stored[a].sealed => stored'[a] = stored[a]
    BY <2>3, <2>4
  <2>6. \A v \in Procs : apc'[v] = IF v = w THEN "unlock" ELSE apc[v]
    BY <1>1, <2>1 DEF RecordTypeOK
  <2>7. NumberIsFree'
    BY <1>1, <1>2, <2>1, <2>6, OneDecides
  <2>8. RecordIsMine'
    BY <1>1, <1>3, <2>1, <2>2, <2>3, <2>4, <2>6, LockAssumption DEF RecordTypeOK
  <2>9. AbsentIsEmpty'
    BY <1>3, <2>2, <2>4
  <2>10. ParentIsSealed'
    <3> SUFFICES ASSUME NEW a \in Attempts, stored'[a].by # Free, stored'[a].parent # 0
        PROVE  stored'[a].parent < a /\ stored'[stored'[a].parent].sealed
      OBVIOUS
    <3>1. stored'[a].parent < a /\ stored[stored'[a].parent].sealed
      BY <1>2, <1>3, <2>2, <2>4
    <3>2. stored'[a] \in Records
      BY <1>1, <2>4 DEF RecordTypeOK
    <3>3. stored'[a].parent \in Attempts
      BY <3>2, ApplyAssumption DEF Records, Attempts
    <3> QED
      BY <2>5, <3>1, <3>3
  <2> QED
    BY <2>5, <2>7, <2>8, <2>9, <2>10
<1>9. ASSUME NEW w \in Procs, SaveApplyProgress(w)
      PROVE  Decided' /\ \A a \in Attempts : stored[a].sealed => stored'[a] = stored[a]
  <2> DEFINE r == [rec[w] EXCEPT !.saves = @ + 1]
  <2>1. rec[w] \in Records /\ rec[w].by = w
    BY <1>1, <1>3, <1>9 DEF RecordTypeOK, SaveApplyProgress
  <2>2. r \in Records /\ r.by = w /\ r.parent = rec[w].parent /\ ~r.sealed
    BY <1>9, <2>1, SavedRecordType DEF SaveApplyProgress, Records
  <2>3. apc[w] = "run" /\ WriteApply(w, r) /\ UNCHANGED <<mine, apc>>
    BY <1>9 DEF SaveApplyProgress
  <2> HIDE DEF r
  <2> QED
    BY <1>2, <1>3, <2>2, <2>3, OwnWriteStep
<1>10. ASSUME NEW w \in Procs, SealApply(w)
       PROVE  Decided' /\ \A a \in Attempts : stored[a].sealed => stored'[a] = stored[a]
  <2> DEFINE r == [rec[w] EXCEPT !.sealed = TRUE]
  <2>1. rec[w] \in Records /\ rec[w].by = w
    BY <1>1, <1>3, <1>10 DEF RecordTypeOK, SealApply, Go
  <2>2. r \in Records /\ r.by = w /\ r.parent = rec[w].parent
    BY <2>1, SealedRecordType DEF Records
  <2>3. /\ apc[w] = "run" /\ WriteApply(w, r) /\ UNCHANGED mine
        /\ apc' = [apc EXCEPT ![w] = "idle"]
    BY <1>10 DEF SealApply, Go
  <2> HIDE DEF r
  <2> QED
    BY <1>2, <1>3, <2>2, <2>3, OwnWriteStep
<1> QED
  BY <1>5, <1>6, <1>7, <1>8, <1>9, <1>10 DEF Next

LEMMA InitInv == Init => IInv
<1> SUFFICES ASSUME Init PROVE IInv
  OBVIOUS
<1> USE DEF Init, LockInit
<1>1. LockInv
  BY LockInitInv
<1>2. RecordTypeOK
  BY <1>1, NoRecordType, ApplyAssumption DEF LockInv, RecordTypeOK, Attempts
<1>3. \A a \in Attempts : stored[a] = NoRecord /\ stored[a].by = Free
  BY NoRecordType
<1>4. Phases /\ NumberIsFree /\ RecordIsMine
  BY DEF Phases, NumberIsFree, RecordIsMine
<1>5. AbsentIsEmpty /\ ParentIsSealed
  BY <1>3 DEF AbsentIsEmpty, ParentIsSealed, Exists
<1> QED
  BY <1>1, <1>2, <1>4, <1>5 DEF IInv

LEMMA NextInv == IInv /\ [Next]_vars => IInv'
<1> SUFFICES ASSUME IInv, [Next]_vars PROVE IInv'
  OBVIOUS
<1>1. LockInv'
  BY ShipStepsLock, LockNextInv DEF IInv
<1>2. RecordTypeOK'
  BY <1>1, TypeStep DEF IInv, LockInv
<1>3. Phases'
  BY PhasesStep DEF IInv
<1>4. expiries' = 0 => Decided'
  BY <1>1, RecordsStep
<1>5. ParentIsSealed'
  BY <1>4 DEF Decided, ParentIsSealed
<1> QED
  BY <1>1, <1>2, <1>3, <1>4, <1>5 DEF IInv, Decided

LEMMA InvAlways == Spec => []IInv
  BY InitInv, NextInv, PTL DEF Spec

-----------------------------------------------------------------------------
(* A process knows all it sealed: what it sealed before an attempt of its  *)
(* own is no later than that attempt's parent, also while the attempt is   *)
(* decided but not created, and the attempt it runs is its latest.         *)
OwnBehind ==
  /\ \A a, b \in Attempts :
       b < a /\ Exists(a) /\ stored[b].sealed /\ stored[a].by = stored[b].by
         => b <= stored[a].parent
  /\ \A w \in Procs, b \in Attempts :
       apc[w] = "create" /\ stored[b].sealed /\ stored[b].by = w
         => b <= rec[w].parent
  /\ \A w \in Procs, a \in Attempts :
       apc[w] \in {"unlock", "run"} /\ stored[a].by = w => a <= mine[w]

ChainInv == IInv /\ (expiries = 0 => OwnBehind)

(* A step that rewrites no record but that of w, under its name and with   *)
(* its parent, and seals it only when w then stops.                        *)
LEMMA OwnWriteBehind ==
  ASSUME RecordTypeOK, Decided, OwnBehind,
         NEW w \in Procs, apc[w] = "run",
         NEW r \in Records, r.by = w, r.parent = rec[w].parent,
         WriteApply(w, r), UNCHANGED mine,
         \/ ~r.sealed /\ UNCHANGED apc
         \/ apc' = [apc EXCEPT ![w] = "idle"]
  PROVE  OwnBehind'
<1>1. /\ mine[w] \in Attempts /\ stored[mine[w]] = rec[w]
      /\ rec[w].by = w /\ ~rec[w].sealed /\ w # Free
  BY LockAssumption DEF Decided, RecordIsMine, RecordTypeOK
<1>2. \A a \in Attempts : /\ stored'[a].by = stored[a].by
                          /\ stored'[a].parent = stored[a].parent
                          /\ a # mine[w] => stored'[a] = stored[a]
  BY <1>1 DEF RecordTypeOK, WriteApply
<1>3. \A v \in Procs \ {w} : apc'[v] = apc[v] /\ rec'[v] = rec[v]
  BY DEF RecordTypeOK, WriteApply
<1>4. apc'[w] \in {"run", "idle"}
  BY DEF RecordTypeOK
<1>5. \A a \in Attempts : stored[a].by = w => a <= mine[w]
  BY DEF OwnBehind
<1>6. ASSUME NEW a \in Attempts, NEW b \in Attempts, b < a, stored'[a].by # Free,
             stored'[b].sealed, stored'[a].by = stored'[b].by
      PROVE  b <= stored'[a].parent
  <2>1. CASE b = mine[w]
    <3>1. stored[b].by = w /\ stored[a].by = w
      BY <1>1, <1>2, <1>6, <2>1
    <3>2. a <= b
      BY <1>5, <2>1, <3>1
    <3> QED
      BY <1>6, <3>2 DEF Attempts
  <2>2. CASE b # mine[w]
    <3>1. Exists(a) /\ stored[b].sealed /\ stored[a].by = stored[b].by
      BY <1>2, <1>6, <2>2 DEF Exists
    <3> QED
      BY <1>2, <1>6, <3>1 DEF OwnBehind
  <2> QED
    BY <2>1, <2>2
<1>7. ASSUME NEW v \in Procs, NEW b \in Attempts, apc'[v] = "create",
             stored'[b].sealed, stored'[b].by = v
      PROVE  b <= rec'[v].parent
  <2>1. v # w /\ apc[v] = "create"
    BY <1>3, <1>4, <1>7
  <2>2. b # mine[w]
    BY <1>1, <1>2, <1>7, <2>1
  <2> QED
    BY <1>2, <1>3, <1>7, <2>1, <2>2 DEF OwnBehind
<1>8. ASSUME NEW v \in Procs, NEW a \in Attempts, apc'[v] \in {"unlock", "run"},
             stored'[a].by = v
      PROVE  a <= mine'[v]
  <2>1. apc[v] \in {"unlock", "run"}
    BY <1>3, <1>4, <1>8
  <2> QED
    BY <1>2, <1>8, <2>1 DEF OwnBehind
<1> QED
  BY <1>6, <1>7, <1>8 DEF OwnBehind, Exists

LEMMA OwnBehindStep ==
  ASSUME IInv, expiries = 0, expiries' = 0, OwnBehind, [Next]_vars
  PROVE  OwnBehind'
<1>1. RecordTypeOK /\ Decided
  BY DEF IInv, Decided
<1>2. ASSUME UNCHANGED <<stored, mine, rec>>,
             \A v \in Procs :
               /\ apc'[v] = "create" => apc[v] = "create"
               /\ apc'[v] \in {"unlock", "run"} => apc[v] \in {"unlock", "run"}
      PROVE  OwnBehind'
  BY <1>2 DEF OwnBehind, Exists
<1>3. CASE UNCHANGED vars
  BY <1>2, <1>3 DEF vars, recVars
<1>4. ASSUME NEW w \in Procs,
             \/ BeginApply(w) \/ Locking(w) \/ Locked(w) \/ LedgerLocked(w)
             \/ Unlock(w) \/ Stop(w) \/ ExpireLock(w)
      PROVE  OwnBehind'
  <2>1. UNCHANGED <<stored, mine, rec>>
    BY <1>4 DEF BeginApply, Locking, Locked, LedgerLocked, Unlock, Stop, ExpireLock, recVars
  <2>2. ASSUME NEW v \in Procs
        PROVE  /\ apc'[v] = "create" => apc[v] = "create"
               /\ apc'[v] \in {"unlock", "run"} => apc[v] \in {"unlock", "run"}
    BY <1>1, <1>4 DEF BeginApply, Locking, Locked, LedgerLocked, Unlock, Stop, ExpireLock,
       recVars, Go, RecordTypeOK
  <2> QED
    BY <1>2, <2>1, <2>2
<1>5. ASSUME NEW w \in Procs, ListAttempts(w)
      PROVE  OwnBehind'
  <2>1. PICK a \in Attempts, n \in 0 .. MaxAttempts :
          /\ NextAttempt(a) /\ IsParent(n)
          /\ mine' = [mine EXCEPT ![w] = a]
          /\ rec' = [rec EXCEPT ![w] = [NoRecord EXCEPT !.by = w, !.parent = n]]
    BY <1>5 DEF ListAttempts
  <2>2. stored' = stored /\ apc' = [apc EXCEPT ![w] = "create"]
    BY <1>5 DEF ListAttempts, Go
  <2>3. rec'[w].parent = n
    BY <1>1, <2>1 DEF RecordTypeOK, NoRecord
  <2>4. \A v \in Procs \ {w} :
          apc'[v] = apc[v] /\ mine'[v] = mine[v] /\ rec'[v] = rec[v]
    BY <1>1, <2>1, <2>2 DEF RecordTypeOK
  <2>5. apc'[w] = "create"
    BY <1>1, <2>2 DEF RecordTypeOK
  <2>6. \A b \in Attempts : stored[b].sealed => b <= n
    BY <2>1 DEF IsParent
  <2> QED
    BY <2>2, <2>3, <2>4, <2>5, <2>6 DEF OwnBehind, Exists
<1>6. ASSUME NEW w \in Procs, CreateRecord(w)
      PROVE  OwnBehind'
  <2>1. /\ apc[w] = "create" /\ apc' = [apc EXCEPT ![w] = "unlock"]
        /\ stored' = [stored EXCEPT ![mine[w]] = rec[w]]
        /\ rec' = rec /\ mine' = mine
    BY <1>1, <1>6 DEF CreateRecord, WriteApply, Go, RecordTypeOK
  <2>2. /\ NextAttempt(mine[w]) /\ mine[w] \in Attempts
        /\ rec[w].by = w /\ ~rec[w].sealed /\ w # Free
    BY <1>1, <2>1, LockAssumption DEF RecordTypeOK, Decided, NumberIsFree
  <2>3. \A a \in Attempts : Exists(a) <=> a < mine[w]
    BY <2>2 DEF NextAttempt
  <2>4. /\ stored'[mine[w]] = rec[w]
        /\ \A a \in Attempts \ {mine[w]} : stored'[a] = stored[a]
    BY <1>1, <2>1, <2>2 DEF RecordTypeOK
  <2>5. \A v \in Procs : apc'[v] = IF v = w THEN "unlock" ELSE apc[v]
    BY <1>1, <2>1 DEF RecordTypeOK
  <2>6. ASSUME NEW a \in Attempts, NEW b \in Attempts, b < a, stored'[a].by # Free,
               stored'[b].sealed, stored'[a].by = stored'[b].by
        PROVE  b <= stored'[a].parent
    <3>1. b # mine[w] /\ stored'[b] = stored[b]
      BY <2>2, <2>4, <2>6
    <3>2. CASE a = mine[w]
      BY <2>1, <2>2, <2>4, <2>6, <3>1, <3>2 DEF OwnBehind
    <3>3. CASE a # mine[w]
      BY <2>4, <2>6, <3>1, <3>3 DEF OwnBehind, Exists
    <3> QED
      BY <3>2, <3>3
  <2>7. ASSUME NEW v \in Procs, NEW b \in Attempts, apc'[v] = "create",
               stored'[b].sealed, stored'[b].by = v
        PROVE  b <= rec'[v].parent
    BY <2>1, <2>2, <2>4, <2>5, <2>7 DEF OwnBehind
  <2>8. ASSUME NEW v \in Procs, NEW a \in Attempts, apc'[v] \in {"unlock", "run"},
               stored'[a].by = v
        PROVE  a <= mine'[v]
    <3>1. CASE v = w
      <4>1. a = mine[w] \/ Exists(a)
        BY <2>2, <2>4, <2>8, <3>1 DEF Exists
      <4> QED
        BY <2>1, <2>2, <2>3, <3>1, <4>1 DEF Attempts
    <3>2. CASE v # w
      BY <2>1, <2>2, <2>4, <2>5, <2>8, <3>2 DEF OwnBehind
    <3> QED
      BY <3>1, <3>2
  <2> QED
    BY <2>6, <2>7, <2>8 DEF OwnBehind, Exists
<1>7. ASSUME NEW w \in Procs, SaveApplyProgress(w)
      PROVE  OwnBehind'
  <2> DEFINE r == [rec[w] EXCEPT !.saves = @ + 1]
  <2>1. rec[w] \in Records /\ rec[w].by = w
    BY <1>1, <1>7 DEF RecordTypeOK, SaveApplyProgress, Decided, RecordIsMine
  <2>2. r \in Records /\ r.by = w /\ r.parent = rec[w].parent /\ ~r.sealed
    BY <1>7, <2>1, SavedRecordType DEF SaveApplyProgress, Records
  <2>3. apc[w] = "run" /\ WriteApply(w, r) /\ UNCHANGED <<mine, apc>>
    BY <1>7 DEF SaveApplyProgress
  <2> HIDE DEF r
  <2> QED
    BY <1>1, <2>2, <2>3, OwnWriteBehind
<1>8. ASSUME NEW w \in Procs, SealApply(w)
      PROVE  OwnBehind'
  <2> DEFINE r == [rec[w] EXCEPT !.sealed = TRUE]
  <2>1. rec[w] \in Records /\ rec[w].by = w
    BY <1>1, <1>8 DEF RecordTypeOK, SealApply, Go, Decided, RecordIsMine
  <2>2. r \in Records /\ r.by = w /\ r.parent = rec[w].parent
    BY <2>1, SealedRecordType DEF Records
  <2>3. /\ apc[w] = "run" /\ WriteApply(w, r) /\ UNCHANGED mine
        /\ apc' = [apc EXCEPT ![w] = "idle"]
    BY <1>8 DEF SealApply, Go
  <2> HIDE DEF r
  <2> QED
    BY <1>1, <2>2, <2>3, OwnWriteBehind
<1> QED
  BY <1>3, <1>4, <1>5, <1>6, <1>7, <1>8 DEF Next

LEMMA ChainInvAlways == Spec => []ChainInv
<1>1. Init => ChainInv
  <2> SUFFICES ASSUME Init PROVE ChainInv
    OBVIOUS
  <2>1. OwnBehind
    BY NoRecordType DEF Init, OwnBehind, Exists
  <2> QED
    BY <2>1, InitInv DEF ChainInv
<1>2. ChainInv /\ [Next]_vars => ChainInv'
  <2> SUFFICES ASSUME ChainInv, [Next]_vars PROVE ChainInv'
    OBVIOUS
  <2>1. IInv'
    BY NextInv DEF ChainInv
  <2>2. expiries' = 0 => expiries = 0
    BY ShipStepsLock, ExpiriesGrow DEF ChainInv, IInv, RecordTypeOK
  <2> QED
    BY <2>1, <2>2, OwnBehindStep DEF ChainInv
<1> QED
  BY <1>1, <1>2, PTL DEF Spec

-----------------------------------------------------------------------------
(* The state of ship, its lock included, is what the declarations say.     *)
THEOREM RecordTypesCorrect == Spec => []RecordTypeOK
<1>1. IInv => RecordTypeOK
  BY DEF IInv
<1> QED
  BY <1>1, InvAlways, PTL

(* BeginApply gives no attempt number twice before an acquisition of the   *)
(* lock outlives its TTL: what a running ship last persisted is what the   *)
(* store holds, for any number of ships, attempts and saves.               *)
THEOREM AttemptsAreOwned == Spec => []OwnRecord
<1>1. IInv => OwnRecord
  BY DEF IInv, RecordIsMine, OwnRecord
<1> QED
  BY <1>1, InvAlways, PTL

(* Until then every record's parent is an earlier, sealed attempt.         *)
THEOREM ParentsAreSealed == Spec => []ParentIsSealed
<1>1. IInv => ParentIsSealed
  BY DEF IInv
<1> QED
  BY <1>1, InvAlways, PTL

(* Until then no ship of a process starts from before what that process    *)
(* sealed, whatever other ships begin and seal meanwhile: the attempts of  *)
(* ships that follow one another form one chain of parents.                *)
THEOREM OwnAttemptsAreChained == Spec => []OwnAttemptsChained
<1>1. ChainInv => OwnAttemptsChained
  BY NoRecordType DEF ChainInv, IInv, AbsentIsEmpty, OwnBehind, OwnAttemptsChained, Exists, NoRecord
<1> QED
  BY <1>1, ChainInvAlways, PTL

(* Until then no step changes a sealed record, although every write of a   *)
(* record is an unconditional overwrite made without the lock.             *)
THEOREM SealedRecordsAreFinal == Spec => SealedIsFinal
<1>1. IInv /\ IInv' /\ [Next]_vars =>
        [\A a \in Attempts :
           expiries = 0 /\ stored[a].sealed => stored'[a] = stored[a]]_vars
  <2> SUFFICES ASSUME IInv, IInv', [Next]_vars, expiries = 0
      PROVE  [\A a \in Attempts : stored[a].sealed => stored'[a] = stored[a]]_vars
    OBVIOUS
  <2>1. CASE expiries' = 0
    BY <2>1, RecordsStep DEF IInv
  <2>2. CASE expiries' # 0
    BY <2>2, ExpiryKeepsRecords DEF IInv, RecordTypeOK
  <2> QED
    BY <2>1, <2>2
<1> QED
  BY <1>1, InvAlways, PTL DEF Spec, SealedIsFinal
=============================================================================
