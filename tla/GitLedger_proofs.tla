-------------------------- MODULE GitLedger_proofs --------------------------
(* The git-directory ledger keeps its promises for any number of           *)
(* processes, proposals, crashes and torn writes: the pid-file lock        *)
(* excludes, nothing accepted becomes unreadable, and until a head write   *)
(* is torn the directory implements the append-only ledger.                *)
EXTENDS GitLedger, TLAPS

Waiting == {"create", "inspect", "probe"}
Writing == {"stat", "open", "fill", "advance", "truncate", "record"}

(* Only drafted proposals are appended or stored, and a call that is no    *)
(* append has none in hand.                                                *)
Drafted ==
  /\ \A p \in Proposals : object[p] # "absent" => parent[p] # None
  /\ \A w \in Procs :
       /\ prop[w] # None => parent[prop[w]] # None
       /\ pc[w] \in Waiting \cup Critical => prop[w] # None
       /\ pc[w] \in {"idle", "walk", "salt", "saltCreate", "saltFill", "saltReread"} => prop[w] = None

(* What a writer read is still so when it acts on it.                      *)
WriterInv ==
  \A w \in Procs :
    /\ pc[w] = "head" /\ seen[w] = "whole" => object[prop[w]] = "whole"
    /\ pc[w] \in Writing => pos[w] = parent[prop[w]] /\ pos[w] \in accepted \cup {Genesis}
    /\ pc[w] = "open" => object[prop[w]] = "absent"
    /\ pc[w] = "fill" => object[prop[w]] = "partial"
    /\ pc[w] \in {"advance", "truncate", "record"} => object[prop[w]] = "whole"
    /\ pc[w] = "truncate" => head = pos[w]

(* A reader stands on the chain.                                           *)
ReaderInv == \A w \in Procs : pc[w] = "walk" => pos[w] \in accepted \cup {Genesis}

(* Nothing has been returned while the call still runs.                    *)
NotYetOk ==
  \A w \in Procs :
    pc[w] \in Waiting \cup (Critical \ {"unlock"}) \cup {"idle"} => result[w] # "ok"

(* One process at most fills the salt file, and it is empty until then.    *)
SaltInv ==
  \A w \in Procs :
    pc[w] = "saltFill" =>
      saltFile = Empty /\ \A v \in Procs : pc[v] = "saltFill" => v = w

(* Until a head write is torn, nothing accepted was drafted on the head.   *)
HeadIsLast == torn = 0 => \A p \in accepted : parent[p] # ChainHead

LockInv == GitTypeOK /\ Drafted /\ HolderOwnsLock

ChainInv ==
  /\ ChainReadable /\ WriterInv
  /\ ReaderInv /\ ReadersNeverBroken

IInv ==
  /\ LockInv
  /\ ChainInv
  /\ NotYetOk /\ AcknowledgedIsAccepted
  /\ SaltInv /\ OneSalt
  /\ HeadIsLast

-----------------------------------------------------------------------------
LEMMA LockStepInv ==
  ASSUME LockInv, NEW w \in Procs, LockStep(w) \/ Unlock(w)
  PROVE  LockInv'
<1> USE GitAssumption DEF LockInv, GitTypeOK, Drafted, HolderOwnsLock, Go, Return, ForgetHolder,
     Positions, Phases, Results, Critical, Waiting, fileVars, lockVars, localVars, faultVars
<1>1. CASE CreateLock(w)
  BY <1>1 DEF CreateLock
<1>2. CASE WritePid(w)
  BY <1>2 DEF WritePid
<1>3. CASE CloseFails(w)
  BY <1>3 DEF CloseFails
<1>4. CASE Contend(w) \/ Unreadable(w)
  BY <1>4 DEF Contend, Unreadable
<1>5. CASE ReadPid(w)
  BY <1>5 DEF ReadPid
<1>6. CASE HolderRuns(w)
  BY <1>6 DEF HolderRuns
<1>7. CASE Stale(w)
  BY <1>7 DEF Stale
<1>8. CASE LedgerLocked(w)
  BY <1>8 DEF LedgerLocked
<1>9. CASE Unlock(w)
  BY <1>9 DEF Unlock
<1> QED
  BY <1>1, <1>2, <1>3, <1>4, <1>5, <1>6, <1>7, <1>8, <1>9 DEF LockStep, GiveUp

LEMMA AppendLockInv ==
  ASSUME LockInv, NEW w \in Procs, AppendStep(w), ~Unlock(w)
  PROVE  LockInv'
<1> USE GitAssumption DEF LockInv, GitTypeOK, Drafted, HolderOwnsLock, Go, Return, Decide, Expected,
     Positions, Phases, Results, Critical, Waiting, fileVars, lockVars, localVars, faultVars
<1>1. CASE ReadProposal(w)
  BY <1>1 DEF ReadProposal
<1>2. CASE CorruptHead(w)
  BY <1>2 DEF CorruptHead
<1>3. CASE Duplicate(w) \/ CorruptEntry(w)
  BY <1>3 DEF Duplicate, CorruptEntry
<1>4. CASE Resume(w)
  BY <1>4 DEF Resume
<1>5. CASE Mismatch(w)
  BY <1>5 DEF Mismatch
<1>6. CASE Fresh(w)
  BY <1>6 DEF Fresh
<1>7. CASE StatProposal(w)
  BY <1>7 DEF StatProposal
<1>8. CASE OpenProposal(w)
  BY <1>8 DEF OpenProposal
<1>9. CASE FillProposal(w)
  BY <1>9 DEF FillProposal
<1>10. CASE CompareHead(w)
  BY <1>10 DEF CompareHead
<1>11. CASE TruncateHead(w)
  BY <1>11 DEF TruncateHead
<1>12. CASE RecordHead(w)
  BY <1>12 DEF RecordHead
<1>13. CASE WriteError(w)
  BY <1>13 DEF WriteError
<1>14. CASE TearHead(w)
  BY <1>14 DEF TearHead
<1> QED
  BY <1>1, <1>2, <1>3, <1>4, <1>5, <1>6, <1>7, <1>8, <1>9, <1>10, <1>11, <1>12, <1>13, <1>14
  DEF AppendStep

LEMMA OtherLockInv ==
  ASSUME LockInv, NEW w \in Procs,
         \/ SaltStep(w) \/ ReadChain(w) \/ Finish(w)
         \/ \E p \in Proposals : Start(w, p)
         \/ Peek(w) \/ Salt(w) \/ Exit(w) \/ Crash(w)
  PROVE  LockInv'
<1> USE GitAssumption DEF LockInv, GitTypeOK, Drafted, HolderOwnsLock, Go, Return, ForgetHolder, Forget,
     Positions, Phases, Results, Critical, Waiting, fileVars, lockVars, localVars, faultVars
<1>1. CASE ReadSalt(w)
  BY <1>1 DEF ReadSalt
<1>2. CASE CreateSalt(w)
  BY <1>2 DEF CreateSalt
<1>3. CASE FillSalt(w)
  BY <1>3 DEF FillSalt
<1>4. CASE RereadSalt(w)
  BY <1>4 DEF RereadSalt
<1>5. CASE SaltError(w)
  BY <1>5 DEF SaltError
<1>6. CASE ReadChain(w)
  BY <1>6 DEF ReadChain
<1>7. CASE Finish(w)
  BY <1>7 DEF Finish
<1>8. ASSUME NEW p \in Proposals, Start(w, p)
      PROVE  LockInv'
  BY <1>8 DEF Start
<1>9. CASE Peek(w)
  BY <1>9 DEF Peek
<1>10. CASE Salt(w)
  BY <1>10 DEF Salt
<1>11. CASE Exit(w)
  BY <1>11 DEF Exit
<1>12. CASE Crash(w)
  BY <1>12 DEF Crash
<1> QED
  BY <1>1, <1>2, <1>3, <1>4, <1>5, <1>6, <1>7, <1>8, <1>9, <1>10, <1>11, <1>12 DEF SaltStep

LEMMA DraftLockInv ==
  ASSUME LockInv,
         (\E p \in Proposals : Draft(p)) \/ OperatorRemovesLock \/ UNCHANGED vars
  PROVE  LockInv'
<1> USE GitAssumption DEF LockInv, GitTypeOK, Drafted, HolderOwnsLock,
     Positions, Phases, Results, Critical, Waiting, fileVars, lockVars, localVars, faultVars
<1>1. ASSUME NEW p \in Proposals, Draft(p)
      PROVE  LockInv'
  BY <1>1 DEF Draft
<1>2. CASE OperatorRemovesLock
  BY <1>2 DEF OperatorRemovesLock
<1>3. CASE UNCHANGED vars
  BY <1>3 DEF vars
<1> QED
  BY <1>1, <1>2, <1>3

LEMMA LockInvStep == LockInv /\ [Next]_vars => LockInv'
BY LockStepInv, AppendLockInv, OtherLockInv, DraftLockInv DEF Next, CallStep, AppendStep

-----------------------------------------------------------------------------
(* The chain.                                                              *)

LEMMA WriterChainInv ==
  ASSUME LockInv, ChainInv, NEW w \in Procs, AppendStep(w)
  PROVE  ChainInv'
<1> USE GitAssumption DEF LockInv, GitTypeOK, Drafted, HolderOwnsLock, Go, Return, Decide, Expected,
     ChainInv, ChainReadable, WriterInv, ReaderInv, ReadersNeverBroken,
     Positions, Phases, Results, Critical, Waiting, Writing, fileVars, lockVars, localVars, faultVars
<1>1. CASE ReadProposal(w)
  BY <1>1 DEF ReadProposal
<1>2. CASE CorruptHead(w)
  BY <1>2 DEF CorruptHead
<1>3. CASE Duplicate(w) \/ CorruptEntry(w)
  BY <1>3 DEF Duplicate, CorruptEntry
<1>4. CASE Resume(w)
  BY <1>4 DEF Resume
<1>5. CASE Mismatch(w)
  BY <1>5 DEF Mismatch
<1>6. CASE Fresh(w)
  BY <1>6 DEF Fresh
<1>7. CASE StatProposal(w)
  BY <1>7 DEF StatProposal
<1>8. CASE OpenProposal(w)
  BY <1>8 DEF OpenProposal
<1>9. CASE FillProposal(w)
  BY <1>9 DEF FillProposal
<1>10. CASE CompareHead(w)
  BY <1>10 DEF CompareHead
<1>11. CASE TruncateHead(w)
  BY <1>11 DEF TruncateHead
<1>12. CASE RecordHead(w)
  BY <1>12 DEF RecordHead
<1>13. CASE WriteError(w)
  BY <1>13 DEF WriteError
<1>14. CASE TearHead(w)
  BY <1>14 DEF TearHead
<1>15. CASE Unlock(w)
  BY <1>15 DEF Unlock
<1> QED
  BY <1>1, <1>2, <1>3, <1>4, <1>5, <1>6, <1>7, <1>8, <1>9, <1>10, <1>11, <1>12, <1>13, <1>14, <1>15
  DEF AppendStep

LEMMA OtherChainInv ==
  ASSUME LockInv, ChainInv, NEW w \in Procs,
         \/ LockStep(w) \/ SaltStep(w) \/ ReadChain(w) \/ Finish(w)
         \/ \E p \in Proposals : Start(w, p)
         \/ Peek(w) \/ Salt(w) \/ Exit(w) \/ Crash(w)
  PROVE  ChainInv'
<1> USE GitAssumption DEF LockInv, GitTypeOK, Drafted, HolderOwnsLock, Go, Return, ForgetHolder, Forget,
     ChainInv, ChainReadable, WriterInv, ReaderInv, ReadersNeverBroken,
     Positions, Phases, Results, Critical, Waiting, Writing, fileVars, lockVars, localVars, faultVars
<1>1. CASE CreateLock(w) \/ WritePid(w) \/ CloseFails(w)
  BY <1>1 DEF CreateLock, WritePid, CloseFails
<1>2. CASE Contend(w) \/ Unreadable(w) \/ ReadPid(w) \/ HolderRuns(w)
  BY <1>2 DEF Contend, Unreadable, ReadPid, HolderRuns
<1>3. CASE Stale(w) \/ LedgerLocked(w)
  BY <1>3 DEF Stale, LedgerLocked
<1>4. CASE ReadSalt(w) \/ CreateSalt(w)
  BY <1>4 DEF ReadSalt, CreateSalt
<1>5. CASE FillSalt(w) \/ RereadSalt(w) \/ SaltError(w)
  BY <1>5 DEF FillSalt, RereadSalt, SaltError
<1>6. CASE ReadChain(w)
  BY <1>6 DEF ReadChain
<1>7. CASE Finish(w)
  BY <1>7 DEF Finish
<1>8. ASSUME NEW p \in Proposals, Start(w, p)
      PROVE  ChainInv'
  BY <1>8 DEF Start
<1>9. CASE Peek(w)
  BY <1>9 DEF Peek
<1>10. CASE Salt(w) \/ Exit(w)
  BY <1>10 DEF Salt, Exit
<1>11. CASE Crash(w)
  BY <1>11 DEF Crash
<1> QED
  BY <1>1, <1>2, <1>3, <1>4, <1>5, <1>6, <1>7, <1>8, <1>9, <1>10, <1>11
  DEF SaltStep, LockStep, GiveUp

LEMMA DraftChainInv ==
  ASSUME LockInv, ChainInv,
         (\E p \in Proposals : Draft(p)) \/ OperatorRemovesLock \/ UNCHANGED vars
  PROVE  ChainInv'
<1> USE GitAssumption DEF LockInv, GitTypeOK, Drafted,
     ChainInv, ChainReadable, WriterInv, ReaderInv, ReadersNeverBroken,
     Positions, Phases, Results, Critical, Waiting, Writing, fileVars, lockVars, localVars, faultVars
<1>1. ASSUME NEW p \in Proposals, Draft(p)
      PROVE  ChainInv'
  BY <1>1 DEF Draft
<1>2. CASE OperatorRemovesLock
  BY <1>2 DEF OperatorRemovesLock
<1>3. CASE UNCHANGED vars
  BY <1>3 DEF vars
<1> QED
  BY <1>1, <1>2, <1>3

LEMMA ChainInvStep == LockInv /\ ChainInv /\ [Next]_vars => ChainInv'
BY WriterChainInv, OtherChainInv, DraftChainInv DEF Next, CallStep

-----------------------------------------------------------------------------
(* What callers are told, and the salt.                                    *)

LEMMA AnswerInvStep ==
  LockInv /\ NotYetOk /\ AcknowledgedIsAccepted /\ [Next]_vars
    => NotYetOk' /\ AcknowledgedIsAccepted'
<1> SUFFICES ASSUME LockInv, NotYetOk, AcknowledgedIsAccepted, [Next]_vars
             PROVE  NotYetOk' /\ AcknowledgedIsAccepted'
  OBVIOUS
<1> USE GitAssumption DEF LockInv, GitTypeOK, Drafted, Go, Return, Decide, Expected, ForgetHolder, Forget,
     NotYetOk, AcknowledgedIsAccepted,
     Phases, Results, Critical, Waiting, fileVars, lockVars, localVars, faultVars
<1>1. ASSUME NEW w \in Procs, LockStep(w)
      PROVE  NotYetOk' /\ AcknowledgedIsAccepted'
  <2>1. CASE CreateLock(w) \/ WritePid(w) \/ CloseFails(w) \/ Contend(w)
    BY <2>1 DEF CreateLock, WritePid, CloseFails, Contend
  <2>2. CASE Unreadable(w) \/ ReadPid(w) \/ HolderRuns(w)
    BY <2>2 DEF Unreadable, ReadPid, HolderRuns
  <2>3. CASE Stale(w) \/ LedgerLocked(w)
    BY <2>3 DEF Stale, LedgerLocked
  <2> QED
    BY <1>1, <2>1, <2>2, <2>3 DEF LockStep, GiveUp
<1>2. ASSUME NEW w \in Procs, AppendStep(w)
      PROVE  NotYetOk' /\ AcknowledgedIsAccepted'
  <2>1. CASE ReadProposal(w) \/ CorruptHead(w) \/ Unlock(w)
    BY <2>1 DEF ReadProposal, CorruptHead, Unlock
  <2>2. CASE Duplicate(w) \/ CorruptEntry(w) \/ Resume(w) \/ Mismatch(w) \/ Fresh(w)
    BY <2>2 DEF Duplicate, CorruptEntry, Resume, Mismatch, Fresh
  <2>3. CASE StatProposal(w) \/ OpenProposal(w) \/ FillProposal(w) \/ CompareHead(w)
    BY <2>3 DEF StatProposal, OpenProposal, FillProposal, CompareHead
  <2>4. CASE TruncateHead(w) \/ RecordHead(w) \/ WriteError(w) \/ TearHead(w)
    BY <2>4 DEF TruncateHead, RecordHead, WriteError, TearHead
  <2> QED
    BY <1>2, <2>1, <2>2, <2>3, <2>4 DEF AppendStep
<1>3. ASSUME NEW w \in Procs, SaltStep(w) \/ Salt(w)
      PROVE  NotYetOk' /\ AcknowledgedIsAccepted'
  BY <1>3 DEF SaltStep, Salt, ReadSalt, CreateSalt, FillSalt, RereadSalt, SaltError
<1>4. ASSUME NEW w \in Procs, ReadChain(w) \/ Peek(w)
      PROVE  NotYetOk' /\ AcknowledgedIsAccepted'
  BY <1>4 DEF ReadChain, Peek
<1>5. ASSUME NEW w \in Procs, Finish(w) \/ Exit(w) \/ Crash(w)
      PROVE  NotYetOk' /\ AcknowledgedIsAccepted'
  BY <1>5 DEF Finish, Exit, Crash
<1>6. ASSUME NEW w \in Procs, NEW p \in Proposals, Start(w, p)
      PROVE  NotYetOk' /\ AcknowledgedIsAccepted'
  BY <1>6 DEF Start
<1>7. CASE (\E p \in Proposals : Draft(p)) \/ OperatorRemovesLock \/ UNCHANGED vars
  BY <1>7 DEF Draft, OperatorRemovesLock, vars
<1> QED
  BY <1>1, <1>2, <1>3, <1>4, <1>5, <1>6, <1>7 DEF Next, CallStep

LEMMA SaltInvStep ==
  LockInv /\ SaltInv /\ OneSalt /\ [Next]_vars => SaltInv' /\ OneSalt'
<1> SUFFICES ASSUME LockInv, SaltInv, OneSalt, [Next]_vars
             PROVE  SaltInv' /\ OneSalt'
  OBVIOUS
<1> USE GitAssumption DEF LockInv, GitTypeOK, Go, Return, Decide, ForgetHolder, Forget,
     SaltInv, OneSalt, Phases, Critical, fileVars, lockVars, localVars, faultVars
<1>1. ASSUME NEW w \in Procs, LockStep(w)
      PROVE  SaltInv' /\ OneSalt'
  <2>1. CASE CreateLock(w) \/ WritePid(w) \/ CloseFails(w) \/ Contend(w)
    BY <2>1 DEF CreateLock, WritePid, CloseFails, Contend
  <2>2. CASE Unreadable(w) \/ ReadPid(w) \/ HolderRuns(w) \/ Stale(w) \/ LedgerLocked(w)
    BY <2>2 DEF Unreadable, ReadPid, HolderRuns, Stale, LedgerLocked
  <2> QED
    BY <1>1, <2>1, <2>2 DEF LockStep, GiveUp
<1>2. ASSUME NEW w \in Procs, AppendStep(w)
      PROVE  SaltInv' /\ OneSalt'
  <2>1. CASE ReadProposal(w) \/ CorruptHead(w) \/ Unlock(w)
    BY <2>1 DEF ReadProposal, CorruptHead, Unlock
  <2>2. CASE Duplicate(w) \/ CorruptEntry(w) \/ Resume(w) \/ Mismatch(w) \/ Fresh(w)
    BY <2>2 DEF Duplicate, CorruptEntry, Resume, Mismatch, Fresh
  <2>3. CASE StatProposal(w) \/ OpenProposal(w) \/ FillProposal(w) \/ CompareHead(w)
    BY <2>3 DEF StatProposal, OpenProposal, FillProposal, CompareHead
  <2>4. CASE TruncateHead(w) \/ RecordHead(w) \/ WriteError(w) \/ TearHead(w)
    BY <2>4 DEF TruncateHead, RecordHead, WriteError, TearHead
  <2> QED
    BY <1>2, <2>1, <2>2, <2>3, <2>4 DEF AppendStep
<1>3. ASSUME NEW w \in Procs, SaltStep(w)
      PROVE  SaltInv' /\ OneSalt'
  <2>1. CASE ReadSalt(w) \/ RereadSalt(w)
    BY <2>1 DEF ReadSalt, RereadSalt
  <2>2. CASE CreateSalt(w)
    BY <2>2 DEF CreateSalt
  <2>3. CASE FillSalt(w)
    BY <2>3 DEF FillSalt
  <2>4. CASE SaltError(w)
    BY <2>4 DEF SaltError
  <2> QED
    BY <1>3, <2>1, <2>2, <2>3, <2>4 DEF SaltStep
<1>4. ASSUME NEW w \in Procs, ReadChain(w) \/ Peek(w) \/ Salt(w)
      PROVE  SaltInv' /\ OneSalt'
  BY <1>4 DEF ReadChain, Peek, Salt
<1>5. ASSUME NEW w \in Procs, Finish(w) \/ Exit(w) \/ Crash(w)
      PROVE  SaltInv' /\ OneSalt'
  BY <1>5 DEF Finish, Exit, Crash
<1>6. ASSUME NEW w \in Procs, NEW p \in Proposals, Start(w, p)
      PROVE  SaltInv' /\ OneSalt'
  BY <1>6 DEF Start
<1>7. CASE (\E p \in Proposals : Draft(p)) \/ OperatorRemovesLock \/ UNCHANGED vars
  BY <1>7 DEF Draft, OperatorRemovesLock, vars
<1> QED
  BY <1>1, <1>2, <1>3, <1>4, <1>5, <1>6, <1>7 DEF Next, CallStep

-----------------------------------------------------------------------------
(* The refinement.  The one process in the middle of a head write stands   *)
(* for the head it read.                                                   *)

LEMMA RecordersHead ==
  ASSUME HolderOwnsLock, NEW w \in Procs, pc[w] = "record"
  PROVE  ChainHead = pos[w]
<1>1. \A v \in Procs : pc[v] = "record" => v = w
  BY DEF HolderOwnsLock, Critical
<1> QED
  BY <1>1 DEF ChainHead

LEMMA RecordersNextHead ==
  ASSUME HolderOwnsLock', NEW w \in Procs, pc'[w] = "record"
  PROVE  ChainHead' = pos'[w]
<1>1. \A v \in Procs : pc'[v] = "record" => v = w
  BY DEF HolderOwnsLock, Critical
<1> QED
  BY <1>1 DEF ChainHead

(* A step that neither writes the head file nor moves the recorder.        *)
LEMMA HeadStays ==
  ASSUME HolderOwnsLock, HolderOwnsLock', head' = head,
         \A v \in Procs : pc'[v] = "record" <=> pc[v] = "record",
         \A v \in Procs : pc[v] = "record" => pos'[v] = pos[v]
  PROVE  ChainHead' = ChainHead
<1>1. CASE \E w \in Procs : pc[w] = "record"
  <2>1. PICK w \in Procs : pc[w] = "record"
    BY <1>1
  <2> QED
    BY <2>1, RecordersHead, RecordersNextHead
<1>2. CASE ~\E w \in Procs : pc[w] = "record"
  BY <1>2 DEF ChainHead
<1> QED
  BY <1>1, <1>2

Stutter == parent' = parent /\ accepted' = accepted /\ ChainHead' = ChainHead

LEMMA AppendStutters ==
  ASSUME LockInv, LockInv', WriterInv, NEW w \in Procs, AppendStep(w), ~RecordHead(w), torn' = 0
  PROVE  Stutter
<1> USE DEF LockInv, GitTypeOK, Go, Return, Decide, Phases, Critical, Stutter,
     fileVars, lockVars, localVars, faultVars
<1>1. CASE ReadProposal(w) \/ CorruptHead(w) \/ Unlock(w)
  BY <1>1, HeadStays DEF ReadProposal, CorruptHead, Unlock
<1>2. CASE Duplicate(w) \/ CorruptEntry(w) \/ Resume(w) \/ Mismatch(w) \/ Fresh(w)
  BY <1>2, HeadStays DEF Duplicate, CorruptEntry, Resume, Mismatch, Fresh
<1>3. CASE StatProposal(w) \/ OpenProposal(w) \/ FillProposal(w) \/ CompareHead(w)
  BY <1>3, HeadStays DEF StatProposal, OpenProposal, FillProposal, CompareHead
<1>4. CASE WriteError(w)
  BY <1>4, HeadStays DEF WriteError
<1>5. CASE TruncateHead(w)
  <2>1. pc[w] = "truncate" /\ pc'[w] = "record" /\ pos' = pos
    BY <1>5 DEF TruncateHead
  <2>2. ChainHead = head
    BY <2>1 DEF ChainHead, HolderOwnsLock
  <2>3. ChainHead' = pos[w]
    BY <2>1, RecordersNextHead
  <2> QED
    BY <1>5, <2>1, <2>2, <2>3 DEF TruncateHead, WriterInv
<1>6. CASE TearHead(w)
  BY <1>6 DEF TearHead
<1> QED
  BY <1>1, <1>2, <1>3, <1>4, <1>5, <1>6 DEF AppendStep

LEMMA OthersStutter ==
  ASSUME LockInv, LockInv', torn' = 0, NEW w \in Procs,
         \/ LockStep(w) \/ SaltStep(w) \/ ReadChain(w) \/ Finish(w)
         \/ \E p \in Proposals : Start(w, p)
         \/ Peek(w) \/ Salt(w) \/ Exit(w) \/ Crash(w)
  PROVE  Stutter
<1> USE DEF LockInv, GitTypeOK, Go, Return, ForgetHolder, Forget, Phases, Critical, Stutter,
     fileVars, lockVars, localVars, faultVars
<1>1. CASE LockStep(w)
  BY <1>1, HeadStays DEF LockStep, CreateLock, WritePid, CloseFails, Contend, Unreadable, ReadPid,
     HolderRuns, GiveUp, Stale, LedgerLocked
<1>2. CASE SaltStep(w)
  BY <1>2, HeadStays DEF SaltStep, ReadSalt, CreateSalt, FillSalt, RereadSalt, SaltError
<1>3. CASE ReadChain(w) \/ Peek(w)
  BY <1>3, HeadStays DEF ReadChain, Peek
<1>4. CASE Finish(w) \/ Salt(w) \/ Exit(w) \/ \E p \in Proposals : Start(w, p)
  BY <1>4, HeadStays DEF Finish, Salt, Exit, Start
<1>5. CASE Crash(w)
  BY <1>5, HeadStays DEF Crash
<1> QED
  BY <1>1, <1>2, <1>3, <1>4, <1>5

(* The one step that accepts.                                              *)
LEMMA RecordAccepts ==
  ASSUME LockInv, LockInv', ChainInv, HeadIsLast, torn = 0, NEW w \in Procs, RecordHead(w)
  PROVE  /\ prop[w] \in Proposals \ accepted
         /\ parent[prop[w]] = ChainHead
         /\ accepted' = accepted \cup {prop[w]}
         /\ ChainHead' = prop[w]
         /\ parent' = parent
<1> USE DEF LockInv, GitTypeOK, Go, Return, fileVars, lockVars, localVars, faultVars
<1>1. pc[w] = "record" /\ prop[w] \in Proposals /\ parent[prop[w]] = pos[w]
  BY DEF RecordHead, Drafted, Critical, ChainInv, WriterInv, Writing
<1>2. ChainHead = pos[w]
  BY <1>1, RecordersHead
<1>3. ~\E v \in Procs : pc'[v] = "record"
  BY <1>1 DEF RecordHead, HolderOwnsLock, Critical
<1> QED
  BY <1>1, <1>2, <1>3 DEF RecordHead, ChainHead, HeadIsLast

LEMMA DraftRefines ==
  ASSUME LockInv, LockInv', NEW p \in Proposals, Draft(p)
  PROVE  Ledger!Draft(p) /\ ChainHead' = ChainHead
<1>1. ChainHead' = ChainHead
  BY HeadStays DEF Draft, LockInv, fileVars, localVars
<1> QED
  BY <1>1 DEF Draft, Ledger!Draft

(* Torn writes are never untorn.                                           *)
LEMMA TornStays ==
  LockInv /\ [Next]_vars /\ torn' = 0 => torn = 0
<1> SUFFICES ASSUME LockInv, [Next]_vars, torn' = 0 PROVE torn = 0
  OBVIOUS
<1> USE GitAssumption DEF LockInv, GitTypeOK, faultVars, Decide
<1>1. ASSUME NEW w \in Procs, CallStep(w)
      PROVE  torn = 0
  BY <1>1 DEF CallStep, LockStep, CreateLock, WritePid, CloseFails, Contend, Unreadable, ReadPid,
     HolderRuns, GiveUp, Stale, LedgerLocked, AppendStep, ReadProposal, CorruptHead, Unlock,
     Duplicate, CorruptEntry, Resume, Mismatch, Fresh, StatProposal, OpenProposal, FillProposal,
     CompareHead, TruncateHead, RecordHead, WriteError, TearHead,
     SaltStep, ReadSalt, CreateSalt, FillSalt, RereadSalt, SaltError, ReadChain, Finish
<1>2. ASSUME NEW w \in Procs,
             Peek(w) \/ Salt(w) \/ Exit(w) \/ Crash(w) \/ \E p \in Proposals : Start(w, p)
      PROVE  torn = 0
  BY <1>2 DEF Peek, Salt, Exit, Crash, Start
<1>3. CASE (\E p \in Proposals : Draft(p)) \/ OperatorRemovesLock \/ UNCHANGED vars
  BY <1>3 DEF Draft, OperatorRemovesLock, vars
<1> QED
  BY <1>1, <1>2, <1>3 DEF Next

LEMMA VarsStutter == LockInv /\ (OperatorRemovesLock \/ UNCHANGED vars) => Stutter
BY DEF OperatorRemovesLock, vars, fileVars, localVars, faultVars, Stutter, ChainHead

(* Every step until then drafts, accepts or does nothing to the chain.     *)
LEMMA StepIsLedgerStep ==
  ASSUME LockInv, LockInv', ChainInv, HeadIsLast, [Next]_vars, torn' = 0
  PROVE  \/ \E p \in Proposals : Draft(p) /\ Ledger!Draft(p) /\ ChainHead' = ChainHead
         \/ \E w \in Procs : RecordHead(w)
         \/ Stutter
<1>1. ASSUME NEW w \in Procs, CallStep(w), ~RecordHead(w)
      PROVE  Stutter
  BY <1>1, AppendStutters, OthersStutter DEF CallStep, ChainInv
<1>2. ASSUME NEW w \in Procs,
             Peek(w) \/ Salt(w) \/ Exit(w) \/ Crash(w) \/ \E p \in Proposals : Start(w, p)
      PROVE  Stutter
  BY <1>2, OthersStutter
<1>3. CASE OperatorRemovesLock \/ UNCHANGED vars
  BY <1>3, VarsStutter
<1>4. ASSUME NEW p \in Proposals, Draft(p)
      PROVE  Ledger!Draft(p) /\ ChainHead' = ChainHead
  BY <1>4, DraftRefines
<1> QED
  BY <1>1, <1>2, <1>3, <1>4 DEF Next

(* The new head is a parent of nothing accepted: what is accepted was      *)
(* drafted on what was accepted before it.                                 *)
LEMMA HeadIsLastStep ==
  ASSUME LockInv, LockInv', ChainInv, HeadIsLast, [Next]_vars
  PROVE  HeadIsLast'
<1> SUFFICES ASSUME torn' = 0, NEW q \in accepted' PROVE parent'[q] # ChainHead'
  BY DEF HeadIsLast
<1>0. torn = 0
  BY TornStays
<1>1. CASE Stutter
  BY <1>0, <1>1 DEF Stutter, HeadIsLast
<1>2. ASSUME NEW p \in Proposals, Draft(p), ChainHead' = ChainHead
      PROVE  parent'[q] # ChainHead'
  <2>1. q \in accepted /\ parent[q] # None
    BY <1>2, GitAssumption DEF Draft, ChainInv, ChainReadable, LockInv, GitTypeOK
  <2> QED
    BY <1>0, <1>2, <2>1 DEF Draft, HeadIsLast, LockInv, GitTypeOK
<1>3. ASSUME NEW w \in Procs, RecordHead(w)
      PROVE  parent'[q] # ChainHead'
  <2>1. /\ prop[w] \in Proposals \ accepted
        /\ parent[prop[w]] = ChainHead
        /\ accepted' = accepted \cup {prop[w]}
        /\ ChainHead' = prop[w]
        /\ parent' = parent
    BY <1>0, <1>3, RecordAccepts
  <2>2. parent[prop[w]] \in accepted \cup {Genesis}
    BY <1>3 DEF RecordHead, Return, Go, ChainInv, WriterInv, Writing
  <2> QED
    BY <2>1, <2>2, GitAssumption DEF ChainInv, ChainReadable
<1> QED
  BY <1>1, <1>2, <1>3, StepIsLedgerStep

LEMMA StepRefines ==
  ASSUME LockInv, LockInv', ChainInv, HeadIsLast, [Next]_vars, torn' = 0
  PROVE  [Ledger!Next]_<<parent, accepted, ChainHead>>
<1>1. CASE Stutter
  BY <1>1 DEF Stutter
<1>2. ASSUME NEW p \in Proposals, Ledger!Draft(p)
      PROVE  Ledger!Next
  BY <1>2 DEF Ledger!Next
<1>3. ASSUME NEW w \in Procs, RecordHead(w)
      PROVE  Ledger!Next
  <2>1. Ledger!Accept(prop[w])
    BY <1>3, RecordAccepts, TornStays DEF Ledger!Accept
  <2> QED
    BY <1>3, <2>1, RecordAccepts, TornStays DEF Ledger!Next
<1> QED
  BY <1>1, <1>2, <1>3, StepIsLedgerStep

-----------------------------------------------------------------------------
LEMMA InitInv == Init => IInv
BY GitAssumption DEF Init, IInv, LockInv, GitTypeOK, Drafted, HolderOwnsLock, ChainInv, ChainReadable,
   WriterInv, ReaderInv, ReadersNeverBroken, NotYetOk, AcknowledgedIsAccepted, SaltInv, OneSalt,
   HeadIsLast, ChainHead, Positions, Phases, Results, Critical, Waiting, Writing

LEMMA NextInv == IInv /\ [Next]_vars => IInv'
BY LockInvStep, ChainInvStep, AnswerInvStep, SaltInvStep, HeadIsLastStep DEF IInv

(* The inductive invariant: what a writer read under the lock file is so   *)
(* when it acts on it, whatever died or failed before.                     *)
THEOREM GitInvariant == Spec => []IInv
BY InitInv, NextInv, PTL DEF Spec

(* The types of the files, the locals and the results (gitLedgerStore).    *)
THEOREM GitTypesCorrect == Spec => []GitTypeOK
BY GitInvariant, PTL DEF IInv, LockInv

(* Whoever is inside Lock owns the file, through crashes, failing closes,  *)
(* leaked files and their removal by hand (gitLedgerStore.Lock).           *)
THEOREM PidFileExcludes == Spec => []HolderOwnsLock
BY GitInvariant, PTL DEF IInv, LockInv

(* Nothing the head file has ever named becomes unreadable, even when head *)
(* writes are torn (WriteProposalIfAbsent before AdvanceHead).             *)
THEOREM AcceptedStaysReadable == Spec => []ChainReadable
BY GitInvariant, PTL DEF IInv, ChainInv

(* A reader without the lock never meets a missing or half-written         *)
(* proposal (ChainFrom).                                                   *)
THEOREM ReadersAreSafe == Spec => []ReadersNeverBroken
BY GitInvariant, PTL DEF IInv, ChainInv

(* An Append that returned nil put its proposal on the chain.              *)
THEOREM AcknowledgedStaysAccepted == Spec => []AcknowledgedIsAccepted
BY GitInvariant, PTL DEF IInv

(* The processes that obtained a salt obtained the same (Ledger.Salt).     *)
THEOREM SaltsAgree == Spec => []OneSalt
BY GitInvariant, PTL DEF IInv

(* Until a head write is torn, the git directory implements the            *)
(* append-only ledger with its atomic accept (Append, AdvanceHead).        *)
THEOREM GitImplementsLedger == Spec => ImplementsUntilTorn
<1>1. Init => Ledger!Init
  BY DEF Init, Ledger!Init, ChainHead
<1>2. IInv /\ IInv' /\ [Next]_vars
        => [torn' = 0 => [Ledger!Next]_<<parent, accepted, ChainHead>>]_vars
  BY StepRefines DEF IInv
<1> QED
  BY <1>1, <1>2, GitInvariant, PTL DEF Spec, ImplementsUntilTorn
=============================================================================
