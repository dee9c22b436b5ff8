------------------------- MODULE BlobLedger_proofs -------------------------
(***************************************************************************)
(* Proofs about BlobLedger for any number of processes, proposals, crashes *)
(* and expired locks: the chain invariant, the append-only history, and    *)
(* that the object store implements AppendOnlyLedger.  And about StoreGC,  *)
(* which deletes objects of the same store while appends run: what of this *)
(* survives it.                                                            *)
(***************************************************************************)
EXTENDS StoreGC, BlobLock_proofs

-----------------------------------------------------------------------------
(* Facts about one state.                                                  *)

(* The head the abstract ledger speaks of exists and is a head.            *)
LEMMA HeadExists ==
  ASSUME OneHead
  PROVE  /\ Head \in Positions
         /\ IsHead(Head)
         /\ \A m \in Positions : IsHead(m) => m = Head
<1>1. PICK n \in Positions : IsHead(n) /\ \A m \in Positions : IsHead(m) => m = n
  BY DEF OneHead
<1>2. Head \in Positions /\ IsHead(Head)
  BY <1>1 DEF Head
<1> QED
  BY <1>1, <1>2

(* The same after a step: whatever then is a head is the one Head names.   *)
LEMMA NextHead ==
  ASSUME OneHead', NEW n \in Positions, IsHead(n)'
  PROVE  Head' = n
<1>1. PICK h \in Positions : IsHead(h)' /\ \A m \in Positions : IsHead(m)' => m = h
  BY DEF OneHead, Positions
<1>2. Head' \in Positions /\ IsHead(n)' /\ n = h
  BY <1>1 DEF Head, Positions
<1>3. Head' = CHOOSE m \in Positions : IsHead(m)'
  BY DEF Head, Positions
<1> QED
  BY <1>1, <1>2, <1>3

(* A step that leaves the store and the drafts alone preserves everything  *)
(* said about the chain.                                                   *)
LEMMA SameStore ==
  ASSUME UNCHANGED <<parent, edge, hint>>
  PROVE  /\ \A n \in Positions : OnChain(n)' <=> OnChain(n)
         /\ ChainLinked => ChainLinked'
         /\ OneHead => OneHead'
         /\ HintOnChain => HintOnChain'
         /\ EdgesLeaveChain => EdgesLeaveChain'
  BY DEF OnChain, ChainLinked, OneHead, IsHead, HintOnChain,
         EdgesLeaveChain, Positions

-----------------------------------------------------------------------------
LEMMA InitInv == Init => ChainInv
<1> SUFFICES ASSUME Init PROVE ChainInv
  OBVIOUS
<1> USE LockAssumption, LedgerAssumption
<1>1. TypeOK
  BY DEF Init, LockInit, TypeOK, LockTypeOK, Positions, Phases, Results, LockPhases
<1>2. ChainLinked /\ EdgesLeaveChain
  BY DEF Init, ChainLinked, EdgesLeaveChain, Positions
<1>3. OneHead
  BY DEF Init, OneHead, IsHead, OnChain, Positions
<1>4. HintOnChain /\ AcknowledgedOnChain /\ WriterInv
  BY DEF Init, HintOnChain, AcknowledgedOnChain, WriterInv, OnChain
<1> QED
  BY <1>1, <1>2, <1>3, <1>4 DEF ChainInv

(* The lock's own variables keep their types.                              *)
LEMMA LockTypeStep ==
  ASSUME LockTypeOK, NEW w \in Procs,
         \/ Request(w) \/ LockCall(w) \/ CreateFails(w) \/ Release(w)
         \/ Abandon(w) \/ Expire(w)
         \/ UNCHANGED lockVars
  PROVE  LockTypeOK'
  BY LockAssumption DEF LockTypeOK, LockPhases, Request, LockCall, Create, Contend,
     CreateFails, InspectExpired, InspectLive, Poll, GiveUp, Reclaim, Release,
     Abandon, Expire, LockStep, TryDeleteLock, lockVars

-----------------------------------------------------------------------------
(* Drafting moves nothing onto the chain: no edge leads to an undrafted    *)
(* proposal.                                                               *)
LEMMA DraftKeepsChain ==
  ASSUME ChainInv, NEW p \in Proposals, Draft(p), UNCHANGED edge
  PROVE  \A n \in Positions : OnChain(n)' <=> OnChain(n)
<1> USE LedgerAssumption
<1>1. PICK q \in Positions : parent' = [parent EXCEPT ![p] = q]
  BY DEF Draft
<1>2. parent[p] = None /\ \A n \in Positions : edge[n] # p
  BY DEF ChainInv, ChainLinked, Draft, Positions
<1>3. ~OnChain(p) /\ ~OnChain(p)'
  BY <1>1, <1>2 DEF OnChain, ChainInv, TypeOK, Positions
<1>4. ASSUME NEW n \in Positions, n # p
      PROVE  OnChain(n)' <=> OnChain(n)
  BY <1>1, <1>4 DEF OnChain, ChainInv, TypeOK, Positions
<1> QED
  BY <1>3, <1>4

(* Drafting is the one step that writes parent.                            *)
LEMMA DraftInv ==
  ASSUME ChainInv, NEW p \in Proposals, Draft(p)
  PROVE  ChainInv'
<1> USE LedgerAssumption
<1>1. /\ TypeOK
      /\ parent[p] = None
      /\ UNCHANGED <<lockVars, storeVars, writerVars, crashes>>
  BY DEF ChainInv, Draft
<1>2. PICK q \in Positions : parent' = [parent EXCEPT ![p] = q]
  BY DEF Draft
<1>3. \A n \in Positions : OnChain(n)' <=> OnChain(n)
  BY <1>1, DraftKeepsChain DEF storeVars
<1>4. TypeOK'
  BY <1>1, <1>2, LockTypeStep DEF TypeOK, storeVars, writerVars, lockVars, LockTypeOK, Positions
<1>5. ChainLinked'
  BY <1>1, <1>2 DEF ChainInv, ChainLinked, TypeOK, storeVars, Positions
<1>6. OneHead' /\ HintOnChain' /\ EdgesLeaveChain'
  BY <1>1, <1>3 DEF ChainInv, OneHead, HintOnChain, EdgesLeaveChain, IsHead, TypeOK,
     storeVars, Positions
<1>7. AcknowledgedOnChain'
  BY <1>1, <1>3 DEF ChainInv, AcknowledgedOnChain, Accepted, storeVars, writerVars, Positions
<1>8. WriterInv'
  BY <1>1, <1>2, <1>3 DEF ChainInv, WriterInv, Expected, TypeOK, storeVars, writerVars, Positions
<1> QED
  BY <1>4, <1>5, <1>6, <1>7, <1>8 DEF ChainInv

(* The steps of a writer that only read the store.                         *)
ReadStep(w) ==
  \/ \E p \in Proposals : Start(w, p)
  \/ Locking(w) \/ Locked(w) \/ LedgerLocked(w) \/ LockFails(w)
  \/ ReadProposal(w) \/ ReadHint(w) \/ FollowEdge(w)
  \/ Duplicate(w) \/ Resume(w) \/ Mismatch(w) \/ Fresh(w)
  \/ Unlock(w) \/ StoreError(w) \/ Crash(w) \/ ExpireLock(w)

LEMMA ReadStepType ==
  ASSUME TypeOK, NEW w \in Procs, ReadStep(w)
  PROVE  TypeOK' /\ UNCHANGED <<parent, storeVars>>
<1> USE LedgerAssumption DEF TypeOK, Go, Return, Forget, storeVars, writerVars,
    ledgerVars, Phases, Results
<1>1. TypeOK
  OBVIOUS
<1>2. CASE \E p \in Proposals : Start(w, p)
  BY <1>1, <1>2, LockTypeStep DEF Start
<1>3. CASE Locking(w)
  BY <1>1, <1>3, LockTypeStep DEF Locking, LockCall
<1>4. CASE Locked(w)
  BY <1>1, <1>4, LockTypeStep DEF Locked, LockCall
<1>5. CASE LedgerLocked(w)
  BY <1>1, <1>5, LockTypeStep DEF LedgerLocked, LockCall
<1>14. CASE LockFails(w)
  BY <1>1, <1>14, LockTypeStep DEF LockFails
<1>6. CASE ReadProposal(w)
  <2>1. found' \in [Procs -> BOOLEAN]
    <3> (prop[w] \in objects) \in BOOLEAN
      OBVIOUS
    <3> QED
      BY <1>1, <1>6, Zenon DEF ReadProposal
  <2> QED
    BY <1>1, <1>6, <2>1, LockTypeStep DEF ReadProposal
<1>13. CASE ReadHint(w)
  BY <1>1, <1>13, LockTypeStep DEF ReadHint
<1>7. CASE FollowEdge(w)
  BY <1>1, <1>7, LockTypeStep DEF FollowEdge, Positions
<1>8. CASE Duplicate(w) \/ Resume(w) \/ Mismatch(w) \/ Fresh(w)
  BY <1>1, <1>8, LockTypeStep DEF Duplicate, Resume, Mismatch, Fresh
<1>9. CASE Unlock(w)
  BY <1>1, <1>9, LockTypeStep DEF Unlock, Positions
<1>10. CASE StoreError(w)
  BY <1>1, <1>10, LockTypeStep DEF StoreError
<1>11. CASE Crash(w)
  BY <1>1, <1>11, LockTypeStep DEF Crash, Positions
<1>12. CASE ExpireLock(w)
  BY <1>1, <1>12, LockTypeStep DEF ExpireLock
<1> QED
  BY <1>2, <1>3, <1>4, <1>5, <1>6, <1>7, <1>8, <1>9, <1>10, <1>11, <1>12, <1>13, <1>14
     DEF ReadStep

(* Such a step keeps the chain as it is; what the writer knows about it    *)
(* changes only where the walk moves or resolves.                          *)
LEMMA ReadStepInv ==
  ASSUME ChainInv, NEW w \in Procs, ReadStep(w)
  PROVE  ChainInv'
<1> USE LedgerAssumption
<1>1. TypeOK /\ TypeOK' /\ UNCHANGED <<parent, storeVars>>
  BY ReadStepType DEF ChainInv
<1>2. /\ \A n \in Positions : OnChain(n)' <=> OnChain(n)
      /\ ChainLinked' /\ OneHead' /\ HintOnChain' /\ EdgesLeaveChain'
  BY <1>1, SameStore DEF ChainInv, storeVars
<1>3. AcknowledgedOnChain'
  BY <1>1, <1>2 DEF ChainInv, AcknowledgedOnChain, Accepted, TypeOK, ReadStep, Start,
     Locking, Locked, LedgerLocked, LockFails, ReadProposal, ReadHint, FollowEdge, Duplicate,
     Resume, Mismatch, Fresh, Unlock, StoreError, Crash, ExpireLock, Go, Return,
     Forget, ledgerVars, writerVars, Positions
<1>4. ASSUME NEW v \in Procs, v # w
      PROVE  /\ pc'[v] = pc[v] /\ prop'[v] = prop[v] /\ found'[v] = found[v]
             /\ pos'[v] = pos[v]
  BY <1>1, <1>4 DEF TypeOK, ReadStep, Start,
     Locking, Locked, LedgerLocked, LockFails, ReadProposal, ReadHint, FollowEdge, Duplicate,
     Resume, Mismatch, Fresh, Unlock, StoreError, Crash, ExpireLock, Go, Return,
     Forget, ledgerVars, writerVars
<1>5. WriterInv'
  <2> SUFFICES ASSUME NEW v \in Procs
               PROVE  /\ pc'[v] # "idle" => prop'[v] \in Proposals /\ parent[prop'[v]] \in Positions
                      /\ pc'[v] \in {"walk", "write", "advance", "putHint"} => OnChain(pos'[v])
                      /\ pc'[v] \in {"write", "advance", "putHint"} => parent[prop'[v]] = pos'[v]
                      /\ pc'[v] = "putHint" => edge[pos'[v]] = prop'[v]
    BY <1>1, <1>2 DEF WriterInv, Expected, TypeOK, storeVars, OnChain
  <2>1. WriterInv
    BY DEF ChainInv
  <2>2. CASE v # w
    BY <1>4, <2>1, <2>2 DEF WriterInv, Expected
  <2>3. CASE v = w
    <3>1. CASE \E p \in Proposals : Start(w, p)
      BY <1>1, <2>3, <3>1 DEF Start, Go, TypeOK
    <3>2. CASE Locking(w) \/ Locked(w) \/ LedgerLocked(w) \/ LockFails(w) \/ ExpireLock(w)
      BY <1>1, <2>1, <2>3, <3>2 DEF Locking, Locked, LedgerLocked, LockFails, ExpireLock, Go,
         TypeOK, ledgerVars, writerVars, WriterInv, Expected
    <3>3. CASE ReadProposal(w)
      BY <1>1, <2>1, <2>3, <3>3 DEF ReadProposal, Go, TypeOK, WriterInv
    <3>4. CASE ReadHint(w)
      BY <1>1, <2>1, <2>3, <3>4 DEF ReadHint, Go, TypeOK, WriterInv, ChainInv, HintOnChain
    <3>5. CASE FollowEdge(w)
      <4>1. OnChain(edge[pos[w]])
        BY <1>1, <2>1, <3>5 DEF FollowEdge, ChainInv, ChainLinked, TypeOK, OnChain, Positions
      <4> QED
        BY <1>1, <2>1, <2>3, <3>5, <4>1 DEF FollowEdge, TypeOK, WriterInv
    <3>6. CASE Duplicate(w) \/ Resume(w) \/ Mismatch(w) \/ Fresh(w)
      BY <1>1, <2>1, <2>3, <3>6 DEF Duplicate, Resume, Mismatch, Fresh, Go, Return,
         Resolved, Expected, TypeOK, WriterInv
    <3>7. CASE Unlock(w) \/ Crash(w) \/ StoreError(w)
      BY <1>1, <2>1, <2>3, <3>7 DEF Unlock, Crash, StoreError, Go, Return, TypeOK,
         WriterInv
    <3> QED
      BY <3>1, <3>2, <3>3, <3>4, <3>5, <3>6, <3>7 DEF ReadStep
  <2> QED
    BY <2>2, <2>3
<1> QED
  BY <1>1, <1>2, <1>3, <1>5 DEF ChainInv

-----------------------------------------------------------------------------
(* The three writes.                                                       *)
LEMMA WriteProposalInv ==
  ASSUME ChainInv, NEW w \in Procs, WriteProposalIfAbsent(w)
  PROVE  ChainInv'
<1> USE LedgerAssumption
<1>1. /\ TypeOK
      /\ prop[w] \in Proposals /\ pc[w] = "write"
      /\ objects' \subseteq objects \cup {prop[w]}
      /\ UNCHANGED <<lockVars, parent, edge, hint, prop, found, pos, crashes>>
      /\ \/ pc' = [pc EXCEPT ![w] = "advance"] /\ result' = result
         \/ pc' = [pc EXCEPT ![w] = "unlock"] /\ result' = [result EXCEPT ![w] = "exists"]
  BY DEF ChainInv, WriteProposalIfAbsent, Go, Return, WriterInv
<1>2. TypeOK'
  BY <1>1, LockTypeStep DEF TypeOK, Phases, Results
<1>3. \A n \in Positions : OnChain(n)' <=> OnChain(n)
  BY <1>1 DEF OnChain
<1>4. ChainLinked' /\ OneHead' /\ HintOnChain' /\ EdgesLeaveChain'
  BY <1>1, <1>3 DEF ChainInv, ChainLinked, OneHead, IsHead, HintOnChain, EdgesLeaveChain,
     TypeOK, Positions
<1>5. AcknowledgedOnChain'
  BY <1>1, <1>3 DEF ChainInv, AcknowledgedOnChain, Accepted, TypeOK, Positions
<1>6. WriterInv'
  BY <1>1, <1>3 DEF ChainInv, WriterInv, Expected, TypeOK
<1> QED
  BY <1>2, <1>4, <1>5, <1>6 DEF ChainInv

(* The new edge starts at the old head and ends at the proposal drafted on *)
(* it, which becomes the head: everything else on the chain stays on it.   *)
LEMMA NewEdge ==
  ASSUME ChainInv, NEW w \in Procs, pc[w] = "advance", edge[pos[w]] = None,
         edge' = [edge EXCEPT ![pos[w]] = prop[w]],
         UNCHANGED parent
  PROVE  /\ prop[w] \in Proposals /\ pos[w] \in Positions
         /\ parent[prop[w]] = pos[w]
         /\ ~OnChain(prop[w])
         /\ \A n \in Positions : OnChain(n)' <=> OnChain(n) \/ n = prop[w]
         /\ \A n \in Positions : IsHead(n)' <=> n = prop[w]
         /\ pos[w] = Head
<1> USE LedgerAssumption
<1>1. /\ TypeOK /\ prop[w] \in Proposals /\ pos[w] \in Positions
      /\ OnChain(pos[w]) /\ parent[prop[w]] = pos[w]
  BY DEF ChainInv, WriterInv, TypeOK, Expected
<1>2. ~OnChain(prop[w])
  BY <1>1 DEF OnChain
<1>3. \A n \in Positions : OnChain(n)' <=> OnChain(n) \/ n = prop[w]
  BY <1>1 DEF OnChain, TypeOK, Positions
<1>4. pos[w] = Head
  BY <1>1, HeadExists DEF ChainInv, IsHead
<1>5. edge'[prop[w]] = None
  BY <1>1, <1>2 DEF ChainInv, EdgesLeaveChain, TypeOK, Positions
<1>6. \A n \in Positions : IsHead(n)' <=> n = prop[w]
  <2> SUFFICES ASSUME NEW n \in Positions
               PROVE  IsHead(n)' <=> n = prop[w]
    OBVIOUS
  <2>1. CASE n = prop[w]
    BY <1>1, <1>3, <1>5, <2>1 DEF IsHead
  <2>2. CASE n # prop[w] /\ n = pos[w]
    BY <1>1, <2>2 DEF IsHead, TypeOK
  <2>3. CASE n # prop[w] /\ n # pos[w]
    <3>1. IsHead(n)' => IsHead(n)
      BY <1>1, <1>3, <2>3 DEF IsHead, TypeOK
    <3> QED
      BY <1>4, <2>3, <3>1, HeadExists DEF ChainInv
  <2> QED
    BY <2>1, <2>2, <2>3
<1> QED
  BY <1>1, <1>2, <1>3, <1>4, <1>6

LEMMA AdvanceHeadInv ==
  ASSUME ChainInv, NEW w \in Procs, AdvanceHead(w)
  PROVE  ChainInv'
<1> USE LedgerAssumption
<1>0. /\ TypeOK /\ pc[w] = "advance"
      /\ UNCHANGED <<lockVars, parent, objects, hint, prop, found, pos, crashes>>
  BY DEF ChainInv, AdvanceHead, Go, Return
<1>1. CASE edge[pos[w]] # None
  <2>1. /\ UNCHANGED edge
        /\ pc' = [pc EXCEPT ![w] = "unlock"]
        /\ result' = [result EXCEPT ![w] = "moved"]
    BY <1>1 DEF AdvanceHead, Return, Go
  <2>2. TypeOK'
    BY <1>0, <2>1, LockTypeStep DEF TypeOK, Phases, Results
  <2>3. /\ \A n \in Positions : OnChain(n)' <=> OnChain(n)
        /\ ChainLinked' /\ OneHead' /\ HintOnChain' /\ EdgesLeaveChain'
    BY <1>0, <2>1, SameStore DEF ChainInv, storeVars
  <2>4. AcknowledgedOnChain' /\ WriterInv'
    BY <1>0, <2>1, <2>3 DEF ChainInv, AcknowledgedOnChain, Accepted, WriterInv, Expected,
       TypeOK, Positions
  <2> QED
    BY <2>2, <2>3, <2>4 DEF ChainInv
<1>2. CASE edge[pos[w]] = None
  <2>1. /\ edge' = [edge EXCEPT ![pos[w]] = prop[w]]
        /\ pc' = [pc EXCEPT ![w] = "putHint"]
        /\ UNCHANGED result
    BY <1>2 DEF AdvanceHead, Go
  <2>2. /\ prop[w] \in Proposals /\ pos[w] \in Positions
        /\ parent[prop[w]] = pos[w]
        /\ \A n \in Positions : OnChain(n)' <=> OnChain(n) \/ n = prop[w]
        /\ \A n \in Positions : IsHead(n)' <=> n = prop[w]
        /\ pos[w] = Head
    BY <1>0, <1>2, <2>1, NewEdge
  <2>3. TypeOK'
    BY <1>0, <2>1, <2>2, LockTypeStep DEF TypeOK, Phases
  <2>4. ChainLinked' /\ EdgesLeaveChain'
    BY <1>0, <2>1, <2>2, HeadExists DEF ChainInv, ChainLinked, EdgesLeaveChain, TypeOK,
       Positions, IsHead
  <2>5. OneHead' /\ HintOnChain'
    BY <1>0, <2>2 DEF ChainInv, OneHead, HintOnChain, TypeOK, Positions
  <2>6. AcknowledgedOnChain'
    BY <1>0, <2>1, <2>2 DEF ChainInv, AcknowledgedOnChain, Accepted, TypeOK, Positions
  <2>7. WriterInv'
    <3>1. \A v \in Procs : pc[v] = "putHint" => edge'[pos[v]] = prop[v]
      BY <1>0, <1>2, <2>1, <2>2 DEF ChainInv, WriterInv, TypeOK
    <3> QED
      BY <1>0, <2>1, <2>2, <3>1 DEF ChainInv, WriterInv, Expected, TypeOK
  <2> QED
    BY <2>3, <2>4, <2>5, <2>6, <2>7 DEF ChainInv
<1> QED
  BY <1>1, <1>2

LEMMA WriteHintInv ==
  ASSUME ChainInv, NEW w \in Procs, WriteHint(w)
  PROVE  ChainInv'
<1> USE LedgerAssumption
<1>1. /\ TypeOK /\ pc[w] = "putHint"
      /\ pc' = [pc EXCEPT ![w] = "unlock"] /\ result' = [result EXCEPT ![w] = "ok"]
      /\ hint' \in {prop[w], hint}
      /\ UNCHANGED <<lockVars, parent, objects, edge, prop, found, pos, crashes>>
  BY DEF ChainInv, WriteHint, Return, Go
<1>2. prop[w] \in Proposals /\ OnChain(prop[w])
  BY <1>1 DEF ChainInv, WriterInv, Expected, OnChain
<1>3. TypeOK'
  BY <1>1, <1>2, LockTypeStep DEF TypeOK, Phases, Results, Positions
<1>4. \A n \in Positions : OnChain(n)' <=> OnChain(n)
  BY <1>1 DEF OnChain
<1>5. ChainLinked' /\ OneHead' /\ HintOnChain' /\ EdgesLeaveChain'
  BY <1>1, <1>2, <1>4 DEF ChainInv, ChainLinked, OneHead, IsHead, HintOnChain,
     EdgesLeaveChain, TypeOK, Positions
<1>6. AcknowledgedOnChain'
  BY <1>1, <1>2, <1>4 DEF ChainInv, AcknowledgedOnChain, Accepted, TypeOK, Positions
<1>7. WriterInv'
  BY <1>1, <1>4 DEF ChainInv, WriterInv, Expected, TypeOK
<1> QED
  BY <1>3, <1>5, <1>6, <1>7 DEF ChainInv

-----------------------------------------------------------------------------
LEMMA NextCases ==
  ASSUME Next
  PROVE  \/ \E p \in Proposals : Draft(p)
         \/ \E w \in Procs : \/ ReadStep(w) \/ WriteProposalIfAbsent(w)
                             \/ AdvanceHead(w) \/ WriteHint(w)
  BY Zenon DEF Next, AppendStep, ReadStep

LEMMA StutterInv ==
  ASSUME ChainInv, UNCHANGED vars
  PROVE  ChainInv'
<1>1. /\ \A n \in Positions : OnChain(n)' <=> OnChain(n)
      /\ ChainLinked' /\ OneHead' /\ HintOnChain' /\ EdgesLeaveChain'
  BY SameStore DEF ChainInv, vars, ledgerVars, storeVars
<1>2. TypeOK'
  BY DEF ChainInv, vars, ledgerVars, storeVars, writerVars, lockVars, TypeOK, LockTypeOK
<1>3. AcknowledgedOnChain' /\ WriterInv'
  BY <1>1 DEF ChainInv, vars, ledgerVars, storeVars, writerVars, AcknowledgedOnChain,
     Accepted, WriterInv, Expected, TypeOK, Positions
<1> QED
  BY <1>1, <1>2, <1>3 DEF ChainInv

LEMMA NextInv == ChainInv /\ [Next]_vars => ChainInv'
<1> SUFFICES ASSUME ChainInv, [Next]_vars PROVE ChainInv'
  OBVIOUS
<1>1. CASE Next
  BY <1>1, NextCases, DraftInv, ReadStepInv, WriteProposalInv, AdvanceHeadInv, WriteHintInv
<1>2. CASE UNCHANGED vars
  BY <1>2, StutterInv
<1> QED
  BY <1>1, <1>2

(* Objects.  Only WriteProposalIfAbsent writes them, before the edge.      *)
LEMMA StoredNext ==
  ASSUME IInv, [Next]_vars
  PROVE  ChainStored' /\ WriterStored'
<1> USE DEF ChainStored, WriterStored
<1>0. TypeOK /\ ChainStored /\ WriterStored
  BY DEF IInv, ChainInv
<1>1. CASE UNCHANGED vars
  BY <1>0, <1>1 DEF vars, ledgerVars, storeVars, writerVars, Positions
<1>2. CASE \E p \in Proposals : Draft(p)
  BY <1>0, <1>2 DEF Draft, storeVars, writerVars, Positions
<1>3. ASSUME NEW w \in Procs, ReadStep(w)
      PROVE  ChainStored' /\ WriterStored'
  <2>1. UNCHANGED storeVars
    BY <1>0, <1>3, ReadStepType
  <2>2. WriterStored'
    BY <1>0, <1>3, <2>1 DEF TypeOK, storeVars, ReadStep, Start, Locking, Locked, LedgerLocked,
       LockFails, ReadProposal, ReadHint, FollowEdge, Duplicate, Resume, Mismatch, Fresh,
       Unlock, StoreError, Crash, ExpireLock, Go, Return, Forget, Resolved, ledgerVars,
       writerVars
  <2> QED
    BY <1>0, <2>1, <2>2 DEF storeVars, Positions
<1>4. ASSUME NEW w \in Procs, WriteProposalIfAbsent(w) \/ WriteHint(w)
      PROVE  ChainStored' /\ WriterStored'
  <2>1. objects \subseteq objects' /\ UNCHANGED <<edge, prop, found>>
    BY <1>4 DEF WriteProposalIfAbsent, WriteHint
  <2> QED
    BY <1>0, <1>4, <2>1 DEF TypeOK, WriteProposalIfAbsent, WriteHint, Go, Return, Positions
<1>5. ASSUME NEW w \in Procs, AdvanceHead(w)
      PROVE  ChainStored' /\ WriterStored'
  <2>1. pc[w] = "advance" /\ prop[w] \in objects /\ UNCHANGED <<objects, prop, found>>
    BY <1>0, <1>5 DEF AdvanceHead, Go, Return
  <2> QED
    BY <1>0, <1>5, <2>1 DEF TypeOK, AdvanceHead, Go, Return, Positions
<1> QED
  BY <1>1, <1>2, <1>3, <1>4, <1>5, NextCases

LEMMA Invariance == Spec => []ChainInv
  BY InitInv, NextInv, PTL DEF Spec

LEMMA StoredInvariance == Spec => []IInv
<1>1. Init => IInv
  BY InitInv DEF Init, IInv, ChainStored, WriterStored, Positions
<1>2. IInv /\ [Next]_vars => IInv'
  BY NextInv, StoredNext DEF IInv
<1> QED
  BY <1>1, <1>2, PTL DEF Spec

(* Type correctness of every variable of the blob ledger and its lock.     *)
THEOREM TypeCorrect == Spec => []TypeOK
<1>1. ChainInv => TypeOK
  BY DEF ChainInv
<1> QED
  BY <1>1, Invariance, PTL

(* Every edge AdvanceHead wrote leads to a stored proposal that names the  *)
(* edge's start as its parent, whatever the TTL lock let happen.           *)
THEOREM ChainIsSound == Spec => []ChainSound
<1>1. IInv => ChainSound
  BY DEF IInv, ChainInv, ChainSound
<1> QED
  BY <1>1, StoredInvariance, PTL

(* Head() has exactly one possible answer: one position of the chain, and  *)
(* only one, has no edge.                                                  *)
THEOREM SingleHead == Spec => []OneHead
<1>1. ChainInv => OneHead
  BY DEF ChainInv
<1> QED
  BY <1>1, Invariance, PTL

(* The head-hint never leaves the chain, however late, lost or reordered   *)
(* its writes are: Head() starts from a position that leads to the head.   *)
THEOREM HintIsOnChain == Spec => []HintOnChain
<1>1. ChainInv => HintOnChain
  BY DEF ChainInv
<1> QED
  BY <1>1, Invariance, PTL

(* A proposal whose Append returned nil is on the chain from then on.      *)
THEOREM AcknowledgedIsAccepted == Spec => []AcknowledgedOnChain
<1>1. ChainInv => AcknowledgedOnChain
  BY DEF ChainInv
<1> QED
  BY <1>1, Invariance, PTL

-----------------------------------------------------------------------------
(* Every step of Append is a step of the lock, or leaves it alone.         *)
LEMMA AppendStepsLock == [Next]_vars => [LockNext]_lockVars
<1> SUFFICES ASSUME [Next]_vars PROVE [LockNext]_lockVars
  OBVIOUS
<1>1. CASE UNCHANGED vars
  BY <1>1 DEF vars
<1>2. CASE \E p \in Proposals : Draft(p)
  BY <1>2 DEF Draft
<1>3. ASSUME NEW w \in Procs, ReadStep(w)
      PROVE  [LockNext]_lockVars
  BY <1>3 DEF ReadStep, LockNext, LockCall, Start, Locking, Locked, LedgerLocked,
     LockFails, ReadProposal, ReadHint, FollowEdge, Duplicate, Resume, Mismatch, Fresh,
     Unlock, StoreError, Crash, ExpireLock
<1>4. ASSUME NEW w \in Procs, WriteProposalIfAbsent(w) \/ AdvanceHead(w) \/ WriteHint(w)
      PROVE  [LockNext]_lockVars
  BY <1>4 DEF WriteProposalIfAbsent, AdvanceHead, WriteHint
<1> QED
  BY <1>1, <1>2, <1>3, <1>4, NextCases

(* Append holds the lock alone until an acquisition outlives its TTL: no   *)
(* order of crashes, waits and releases of its callers lets two in.        *)
THEOREM AppendExcludes == Spec => []ExclusiveUntilExpiry
<1>1. Init => LockInv
  BY LockInitInv DEF Init
<1>2. LockInv => ExclusiveUntilExpiry
  BY DEF LockInv
<1> QED
  BY <1>1, <1>2, AppendStepsLock, LockNextInv, PTL DEF Spec

-----------------------------------------------------------------------------
(* The steps that are not AdvanceHead or Draft, seen from the chain.       *)
LEMMA ChainStep ==
  ASSUME ChainInv, [Next]_vars
  PROVE  \/ UNCHANGED <<parent, edge>>
         \/ \E p \in Proposals : Draft(p) /\ UNCHANGED edge
         \/ \E w \in Procs : /\ pc[w] = "advance" /\ edge[pos[w]] = None
                             /\ edge' = [edge EXCEPT ![pos[w]] = prop[w]]
                             /\ UNCHANGED parent
<1>1. CASE UNCHANGED vars
  BY <1>1 DEF vars, ledgerVars, storeVars
<1>2. CASE \E p \in Proposals : Draft(p)
  BY <1>2 DEF Draft, storeVars
<1>3. CASE \E w \in Procs : ReadStep(w)
  BY <1>3, ReadStepType DEF ChainInv, storeVars
<1>4. CASE \E w \in Procs : WriteProposalIfAbsent(w) \/ WriteHint(w)
  BY <1>4 DEF WriteProposalIfAbsent, WriteHint
<1>5. CASE \E w \in Procs : AdvanceHead(w)
  BY <1>5 DEF AdvanceHead, Go
<1> QED
  BY <1>1, <1>2, <1>3, <1>4, <1>5, NextCases

(* History is append-only: no step rewrites a recorded chain position.     *)
THEOREM HistoryIsAppendOnly == Spec => AppendOnly
<1>1. ChainInv /\ [Next]_vars
        => [\A n \in Positions : edge[n] # None => edge'[n] = edge[n]]_vars
  <2> SUFFICES ASSUME ChainInv, [Next]_vars, NEW n \in Positions, edge[n] # None
               PROVE  edge'[n] = edge[n]
    OBVIOUS
  <2>1. TypeOK
    BY DEF ChainInv
  <2> QED
    BY <2>1, ChainStep DEF TypeOK, Draft, storeVars
<1> QED
  BY <1>1, Invariance, PTL DEF Spec, AppendOnly

-----------------------------------------------------------------------------
(* The accepted set and the head of the abstract ledger, before and after. *)
LEMMA InitRefines == Init => Abstract!Init
<1> SUFFICES ASSUME Init PROVE Abstract!Init
  OBVIOUS
<1> USE LedgerAssumption
<1>1. Accepted = {}
  BY DEF Init, Accepted, OnChain, Positions
<1>2. Head = Genesis
  <2>1. IsHead(Genesis)
    BY DEF Init, IsHead, OnChain, Positions
  <2> QED
    BY <2>1, InitInv, HeadExists DEF ChainInv, Positions
<1> QED
  BY <1>1, <1>2 DEF Abstract!Init, Init

LEMMA StepRefines ==
  ChainInv /\ ChainInv' /\ [Next]_vars => [Abstract!Next]_<<parent, Accepted, Head>>
<1> SUFFICES ASSUME ChainInv, ChainInv', [Next]_vars
             PROVE  [Abstract!Next]_<<parent, Accepted, Head>>
  OBVIOUS
<1> USE LedgerAssumption
<1>0. TypeOK /\ TypeOK'
  BY DEF ChainInv
<1>1. CASE UNCHANGED <<parent, edge>>
  <2>1. Accepted' = Accepted
    BY <1>1 DEF Accepted, OnChain
  <2>2. Head' = Head
    BY <1>1 DEF Head, IsHead, OnChain
  <2> QED
    BY <1>1, <2>1, <2>2
<1>2. ASSUME NEW p \in Proposals, Draft(p), UNCHANGED edge
      PROVE  Abstract!Next
  <2>1. PICK h \in Positions : h = Head /\ IsHead(h)
    BY HeadExists DEF ChainInv
  <2>2. \A n \in Positions : OnChain(n)' <=> OnChain(n)
    BY <1>2, DraftKeepsChain
  <2>3. Accepted' = Accepted
    BY <2>2 DEF Accepted, Positions
  <2>4. Head' = Head
    <3>1. IsHead(h)'
      BY <1>2, <2>1, <2>2 DEF IsHead
    <3> QED
      BY <2>1, <3>1, NextHead DEF ChainInv
  <2> QED
    BY <1>2, <2>3, <2>4 DEF Abstract!Next, Abstract!Draft, Draft, Drafted, Positions
<1>3. ASSUME NEW w \in Procs, pc[w] = "advance", edge[pos[w]] = None,
             edge' = [edge EXCEPT ![pos[w]] = prop[w]], UNCHANGED parent
      PROVE  Abstract!Next
  <2>1. /\ prop[w] \in Proposals /\ parent[prop[w]] = pos[w] /\ pos[w] = Head
        /\ ~OnChain(prop[w])
        /\ \A n \in Positions : OnChain(n)' <=> OnChain(n) \/ n = prop[w]
        /\ \A n \in Positions : IsHead(n)' <=> n = prop[w]
    BY <1>3, NewEdge
  <2>2. Accepted' = Accepted \cup {prop[w]} /\ prop[w] \notin Accepted
    BY <2>1 DEF Accepted, Positions
  <2>3. Head' = prop[w]
    BY <2>1, NextHead DEF ChainInv, Positions
  <2> QED
    BY <1>3, <2>1, <2>2, <2>3 DEF Abstract!Next, Abstract!Accept
<1> QED
  BY <1>1, <1>2, <1>3, ChainStep

(* The store implements the abstract ledger: whatever crashes, lost hints, *)
(* expired locks and racing writers do, what is accepted changes only by   *)
(* one atomic accept on the current head at a time.                        *)
THEOREM ImplementsLedger == Spec => Refines
  BY InitRefines, StepRefines, NextInv, Invariance, PTL DEF Spec, Refines, Abstract!Spec

-----------------------------------------------------------------------------
(* Garbage collection beside appends.  It deletes objects, and the chain   *)
(* is made of edges: ChainInv, which says nothing of objects, survives.    *)

(* gc writes nothing of Append's but the objects it deletes.               *)
LEMMA GCStep ==
  ASSUME GCNext
  PROVE  /\ UNCHANGED <<lockVars, parent, edge, hint, writerVars, crashes>>
         /\ UNCHANGED objects \/ \E p \in doomed : gpc = "delete" /\ objects' = objects \ {p}
BY DEF GCNext, FirstWalk, FirstListing, FreshWalk, FreshListing, EndGC, DeleteProposal, GoGC,
   vars, ledgerVars, storeVars

LEMMA GCKeepsChain ==
  ASSUME ChainInv, GCNext, objects' \subseteq objects
  PROVE  ChainInv'
<1> USE DEF ChainInv, writerVars
<1>1. UNCHANGED <<lockVars, parent, edge, hint, writerVars, crashes>>
  BY GCStep
<1>2. /\ \A n \in Positions : OnChain(n)' <=> OnChain(n)
      /\ ChainLinked' /\ OneHead' /\ HintOnChain' /\ EdgesLeaveChain'
  BY <1>1, SameStore
<1>3. TypeOK'
  BY <1>1 DEF TypeOK, lockVars, LockTypeOK
<1>4. AcknowledgedOnChain' /\ WriterInv'
  BY <1>1, <1>2 DEF AcknowledgedOnChain, Accepted, WriterInv, Expected, TypeOK, Positions
<1> QED
  BY <1>2, <1>3, <1>4

(* What gc still has to delete it has shown, its fresh walk did not meet,  *)
(* and it has nothing to delete before the fresh listing.                  *)
GCTypes ==
  /\ gpc \in {"idle", "list", "rewalk", "relist", "delete"}
  /\ reach \subseteq Proposals
  /\ shown \subseteq Proposals
  /\ doomed \subseteq shown \ settled
  /\ settled \subseteq Proposals
  /\ gpc \notin {"relist", "delete"} => settled = {}
  /\ gpc = "relist" => settled = reach
  /\ gpc # "delete" => doomed = {}

LEMMA GCTypesStep ==
  ASSUME TypeOK, GCTypes, [AppendNext \/ GCNext]_allVars
  PROVE  GCTypes'
<1> USE DEF GCTypes
<1>1. CASE AppendNext \/ UNCHANGED allVars
  BY <1>1 DEF AppendNext, allVars, gcVars
<1>2. CASE GCNext
  <2>1. CASE FirstWalk \/ FirstListing \/ FreshWalk \/ EndGC
    BY <2>1 DEF FirstWalk, FirstListing, FreshWalk, EndGC, GoGC, Walk, Accepted, Orphans, TypeOK
  <2>2. CASE FreshListing
    BY <2>2 DEF FreshListing, GoGC, Orphans
  <2>3. CASE \E p \in Proposals : DeleteProposal(p)
    BY <2>3 DEF DeleteProposal
  <2> QED
    BY <1>2, <2>1, <2>2, <2>3 DEF GCNext
<1> QED
  BY <1>1, <1>2

GCInv == ChainInv /\ GCTypes

LEMMA GCInitInv == GCInit => GCInv
  BY InitInv DEF GCInit, GCInv, GCTypes

LEMMA GCNextInv == GCInv /\ [AppendNext \/ GCNext]_allVars => GCInv'
<1> SUFFICES ASSUME GCInv, [AppendNext \/ GCNext]_allVars PROVE GCInv'
  OBVIOUS
<1> USE DEF GCInv
<1>0. GCTypes'
  BY GCTypesStep DEF ChainInv
<1>1. CASE AppendNext \/ UNCHANGED allVars
  BY <1>0, <1>1, NextInv DEF AppendNext, allVars
<1>2. CASE GCNext
  <2>1. objects' \subseteq objects
    BY <1>2, GCStep
  <2> QED
    BY <1>0, <1>2, <2>1, GCKeepsChain
<1> QED
  BY <1>1, <1>2

LEMMA GCInvariance == GCSpec => []GCInv
  BY GCInitInv, GCNextInv, PTL DEF GCSpec

(* The store, the lock, the appends and gc keep their types, also when an  *)
(* append runs while gc deletes.                                           *)
THEOREM GCTypeCorrect == GCSpec => []GCTypeOK
<1>1. GCInv => GCTypeOK
  BY DEF GCInv, ChainInv, GCTypes, GCTypeOK
<1> QED
  BY <1>1, GCInvariance, PTL

(* gc takes no part in the lock, so it cannot disturb it: until an         *)
(* acquisition outlives its TTL, Append still excludes Append.             *)
THEOREM GCKeepsExclusion == GCSpec => []ExclusiveUntilExpiry
<1>1. GCInit => LockInv
  BY LockInitInv DEF GCInit, Init
<1>2. [AppendNext \/ GCNext]_allVars => [LockNext]_lockVars
  BY AppendStepsLock, GCStep DEF AppendNext, allVars, vars
<1>3. LockInv => ExclusiveUntilExpiry
  BY DEF LockInv
<1> QED
  BY <1>1, <1>2, <1>3, LockNextInv, PTL DEF GCSpec

(* Every object ever deleted was shown to the operator as an orphan and    *)
(* was off the chain when gc computed the orphans again, whatever appends  *)
(* do meanwhile and however they were interrupted before.                  *)
THEOREM GCDeletesShownOrphans == GCSpec => DeletesOnlyShownOrphans
<1>1. GCInv /\ [AppendNext \/ GCNext]_allVars
        => [\A p \in objects \ objects' : p \in shown \ settled]_allVars
  <2> SUFFICES ASSUME GCInv, [AppendNext \/ GCNext]_allVars,
                      NEW p \in objects, p \notin objects'
               PROVE  p \in shown \ settled
    OBVIOUS
  <2>1. CASE AppendNext
    BY <2>1, NextCases, ReadStepType DEF GCInv, ChainInv, AppendNext, Draft, storeVars,
       WriteProposalIfAbsent, AdvanceHead, WriteHint
  <2>2. CASE UNCHANGED allVars
    BY <2>2 DEF allVars, vars, ledgerVars, storeVars
  <2>3. CASE GCNext
    BY <2>3, GCStep DEF GCInv, GCTypes
  <2> QED
    BY <2>1, <2>2, <2>3
<1> QED
  BY <1>1, GCInvariance, PTL DEF GCSpec, DeletesOnlyShownOrphans

(* Whatever gc deletes, and whenever, the chain itself is out of its       *)
(* reach: its edges keep leading to proposals drafted on their start, with *)
(* one head, a hint on the chain, and every acknowledged append on it.     *)
THEOREM GCKeepsLedger ==
  GCSpec => [](ChainLinked /\ OneHead /\ HintOnChain /\ AcknowledgedOnChain)
<1>1. GCInv => ChainLinked /\ OneHead /\ HintOnChain /\ AcknowledgedOnChain
  BY DEF GCInv, ChainInv
<1> QED
  BY <1>1, GCInvariance, PTL

(* So the store with gc still implements the abstract ledger: a delete is  *)
(* no step of what is accepted, though it may take away the content of     *)
(* what was.                                                               *)
THEOREM GCImplementsLedger == GCSpec => Refines
<1>1. GCInit => Abstract!Init
  BY InitRefines DEF GCInit
<1>2. GCInv /\ GCInv' /\ [AppendNext \/ GCNext]_allVars
        => [Abstract!Next]_<<parent, Accepted, Head>>
  <2> SUFFICES ASSUME GCInv, GCInv', [AppendNext \/ GCNext]_allVars
               PROVE  [Abstract!Next]_<<parent, Accepted, Head>>
    OBVIOUS
  <2>1. CASE AppendNext \/ UNCHANGED allVars
    BY <2>1, StepRefines DEF GCInv, AppendNext, allVars
  <2>2. CASE GCNext
    <3>1. UNCHANGED <<parent, edge>>
      BY <2>2, GCStep
    <3> QED
      BY <3>1 DEF Accepted, Head, IsHead, OnChain, Positions
  <2> QED
    BY <2>1, <2>2
<1> QED
  BY <1>1, <1>2, GCInvariance, PTL DEF GCSpec, Refines, Abstract!Spec

=============================================================================
