----------------------------- MODULE GitLedger -----------------------------
(***************************************************************************)
(* The proposal chain in a git directory: Ledger.Append, Ledger.Salt and   *)
(* the lock-free readers (core/ledger.go, core/salt.go, core/state.go)     *)
(* over core/gitledgerstore.go, run by several processes at once.          *)
(*                                                                         *)
(* Every file is written in place: it is created or truncated first and    *)
(* filled by a later system call, and a process may die, or its disk may   *)
(* be full, in between.  The lock is a file created exclusively that then  *)
(* gets the holder's process id; a contender probes that process and never *)
(* breaks the lock itself.  A process is one pid and is not started again. *)
(***************************************************************************)
EXTENDS Naturals

CONSTANTS
  Procs,       \* process ids
  Free,        \* no lock file; no pid read
  Proposals,   \* proposal ids
  Genesis,     \* the empty head "": the file is missing or empty
  Corrupt,     \* a head file that holds part of a hash
  None,        \* no parent yet; no proposal
  Absent,      \* no salt file; no salt obtained
  Empty,       \* a salt file that has not been filled
  MaxCrashes,  \* bound on processes that die inside a call
  MaxTorn      \* bound on head writes that stop between truncating and filling

ASSUME GitAssumption ==
  /\ Free \notin Procs
  /\ Genesis \notin Proposals /\ Corrupt \notin Proposals \cup {Genesis}
  /\ None \notin Proposals \cup {Genesis, Corrupt}
  /\ Absent \notin Procs /\ Empty \notin Procs \cup {Absent}
  /\ MaxCrashes \in Nat /\ MaxTorn \in Nat

VARIABLES
  parent,     \* parent[p]: the position p was drafted on, None while undrafted
  object,     \* object[p]: ledger/proposals/<p>.prop.json
  head,       \* .ubx/ledger.lock
  lockFile,   \* .ubx/lock: Free, or the process that created it
  lockPid,    \* the pid in it, Free while it is empty
  saltFile,   \* .ubx/salt: Absent, Empty, or the process whose salt it holds
  pc,         \* pc[w]: where w is
  prop,       \* prop[w]: the proposal w is appending
  seen,       \* seen[w]: the object ReadProposal read
  pos,        \* pos[w]: the head w read
  holder,     \* holder[w]: the pid w read from the lock file
  salt,       \* salt[w]: what Salt() returned to w
  result,     \* result[w]: what w's last call returned
  accepted,   \* history: the proposals the head file has held
  torn,       \* head writes that were torn so far
  crashes     \* processes that died inside a call so far

fileVars == <<object, head, saltFile>>
lockVars == <<lockFile, lockPid, holder>>
localVars == <<prop, seen, pos, salt>>
faultVars == <<torn, crashes>>
vars == <<parent, fileVars, lockVars, pc, localVars, result, accepted, faultVars>>

Positions == Proposals \cup {Genesis}

Critical == {"pid", "read", "head", "stat", "open", "fill", "advance",
             "truncate", "record", "unlock"}
Phases == Critical \cup
  {"idle", "create", "inspect", "probe", "walk",
   "salt", "saltCreate", "saltFill", "saltReread", "done", "dead"}
Results == {"none", "ok", "duplicate", "mismatch", "exists", "moved",
            "locked", "stale", "corrupt", "broken", "error"}

GitTypeOK ==
  /\ parent \in [Proposals -> Positions \cup {None}]
  /\ object \in [Proposals -> {"absent", "partial", "whole"}]
  /\ head \in Positions \cup {Corrupt}
  /\ lockFile \in Procs \cup {Free}
  /\ lockPid \in Procs \cup {Free}
  /\ saltFile \in Procs \cup {Absent, Empty}
  /\ pc \in [Procs -> Phases]
  /\ prop \in [Procs -> Proposals \cup {None}]
  /\ seen \in [Procs -> {"absent", "partial", "whole"}]
  /\ pos \in [Procs -> Positions]
  /\ holder \in [Procs -> Procs \cup {Free}]
  /\ salt \in [Procs -> Procs \cup {Absent, Empty}]
  /\ result \in [Procs -> Results]
  /\ accepted \subseteq Proposals
  /\ torn \in 0 .. MaxTorn
  /\ crashes \in 0 .. MaxCrashes

Init ==
  /\ parent = [p \in Proposals |-> None]
  /\ object = [p \in Proposals |-> "absent"]
  /\ head = Genesis
  /\ lockFile = Free
  /\ lockPid = Free
  /\ saltFile = Absent
  /\ pc = [w \in Procs |-> "idle"]
  /\ prop = [w \in Procs |-> None]
  /\ seen = [w \in Procs |-> "absent"]
  /\ pos = [w \in Procs |-> Genesis]
  /\ holder = [w \in Procs |-> Free]
  /\ salt = [w \in Procs |-> Absent]
  /\ result = [w \in Procs |-> "none"]
  /\ accepted = {}
  /\ torn = 0
  /\ crashes = 0

Running(w) == pc[w] # "dead"

Go(w, from, to) ==
  /\ pc[w] = from
  /\ pc' = [pc EXCEPT ![w] = to]

Return(w, from, to, r) ==
  /\ Go(w, from, to)
  /\ result' = [result EXCEPT ![w] = r]

-----------------------------------------------------------------------------
(* A proposal is generated on a head read some time ago, or on the draft   *)
(* before it in a batch.                                                   *)
Draft(p) ==
  /\ parent[p] = None
  /\ \E n \in {Genesis} \cup {q \in Proposals : parent[q] # None} :
       parent' = [parent EXCEPT ![p] = n]
  /\ UNCHANGED <<fileVars, lockVars, pc, localVars, result, accepted, faultVars>>

(* Append(p) is called, for the first time or again.                       *)
Start(w, p) ==
  /\ parent[p] # None
  /\ Go(w, "idle", "create")
  /\ prop' = [prop EXCEPT ![w] = p]
  /\ UNCHANGED <<parent, fileVars, lockVars, seen, pos, salt, result, accepted, faultVars>>

-----------------------------------------------------------------------------
(* Lock.                                                                   *)

(* Mutated: without O_EXCL the file is taken over.                         *)
CreateLock_shared(w) ==
  /\ Go(w, "create", "pid")
  /\ lockFile' = w
  /\ lockPid' = Free
  /\ UNCHANGED <<parent, fileVars, holder, localVars, result, accepted, faultVars>>

(* The exclusive create wins: the file exists and is empty.                *)
CreateLock(w) ==
  /\ Go(w, "create", "pid")
  /\ lockFile = Free
  /\ lockFile' = w
  /\ lockPid' = Free
  /\ UNCHANGED <<parent, fileVars, holder, localVars, result, accepted, faultVars>>

(* The pid is written, or that write fails unnoticed, and the file closed. *)
WritePid(w) ==
  /\ Go(w, "pid", "read")
  /\ lockPid' \in {w, lockPid}
  /\ UNCHANGED <<parent, fileVars, lockFile, holder, localVars, result, accepted, faultVars>>

(* Closing it fails: Lock returns the error and leaves the file.           *)
CloseFails(w) ==
  /\ Return(w, "pid", "done", "error")
  /\ lockPid' \in {w, lockPid}
  /\ UNCHANGED <<parent, fileVars, lockFile, holder, localVars, accepted, faultVars>>

Contend(w) ==
  /\ lockFile # Free
  /\ Go(w, "create", "inspect")
  /\ UNCHANGED <<parent, fileVars, lockVars, localVars, result, accepted, faultVars>>

(* readLockPID fails: the file is gone or empty.  Sleep and try again.     *)
Unreadable(w) ==
  /\ lockFile = Free \/ lockPid = Free
  /\ Go(w, "inspect", "create")
  /\ UNCHANGED <<parent, fileVars, lockVars, localVars, result, accepted, faultVars>>

ReadPid(w) ==
  /\ lockFile # Free /\ lockPid # Free
  /\ Go(w, "inspect", "probe")
  /\ holder' = [holder EXCEPT ![w] = lockPid]
  /\ UNCHANGED <<parent, fileVars, lockFile, lockPid, localVars, result, accepted, faultVars>>

ForgetHolder(w) == holder' = [holder EXCEPT ![w] = Free]

(* processRunning says no: ErrStaleLedgerLock, at once.                    *)
Stale(w) ==
  /\ Return(w, "probe", "done", "stale")
  /\ ~Running(holder[w])
  /\ ForgetHolder(w)
  /\ UNCHANGED <<parent, fileVars, lockFile, lockPid, localVars, accepted, faultVars>>

(* It is running and the deadline has not passed.                          *)
HolderRuns(w) ==
  /\ Go(w, "probe", "create")
  /\ Running(holder[w])
  /\ ForgetHolder(w)
  /\ UNCHANGED <<parent, fileVars, lockFile, lockPid, localVars, result, accepted, faultVars>>

(* The deadline passed, with the pid read or not: ErrLedgerLocked.         *)
LedgerLocked(w) ==
  /\ \/ pc[w] = "inspect" /\ (lockFile = Free \/ lockPid = Free)
     \/ pc[w] = "probe" /\ Running(holder[w])
  /\ Return(w, pc[w], "done", "locked")
  /\ ForgetHolder(w)
  /\ UNCHANGED <<parent, fileVars, lockFile, lockPid, localVars, accepted, faultVars>>

(* The deferred release removes whatever file is there.                    *)
Unlock(w) ==
  /\ Go(w, "unlock", "done")
  /\ lockFile' = Free /\ lockPid' = Free
  /\ UNCHANGED <<parent, fileVars, holder, localVars, result, accepted, faultVars>>

(* The operator follows ErrStaleLedgerLock's text: having made sure that   *)
(* no running process holds the lock, remove the file.                     *)
OperatorRemovesLock ==
  /\ lockFile # Free
  /\ ~\E w \in Procs : pc[w] \in Critical
  /\ lockFile' = Free /\ lockPid' = Free
  /\ UNCHANGED <<parent, fileVars, holder, pc, localVars, result, accepted, faultVars>>

-----------------------------------------------------------------------------
(* Append, inside the lock.                                                *)

ReadProposal(w) ==
  /\ Go(w, "read", "head")
  /\ seen' = [seen EXCEPT ![w] = object[prop[w]]]
  /\ UNCHANGED <<parent, fileVars, lockVars, prop, pos, salt, result, accepted, faultVars>>

CorruptHead(w) ==
  /\ head = Corrupt
  /\ \E at \in {"head", "advance"} : Return(w, at, "unlock", "corrupt")
  /\ UNCHANGED <<parent, fileVars, lockVars, localVars, accepted, faultVars>>

(* Mutated: what the file holds is not checked to be a hash.               *)
Decide_anyHead(w, to, r) ==
  /\ Return(w, "head", to, r)
  /\ pos' = [pos EXCEPT ![w] = head]
  /\ UNCHANGED <<parent, fileVars, lockVars, prop, seen, salt, accepted, faultVars>>

(* Head(), and the decision Append takes on it at once.                    *)
Decide(w, to, r) ==
  /\ head # Corrupt
  /\ Return(w, "head", to, r)
  /\ pos' = [pos EXCEPT ![w] = head]
  /\ UNCHANGED <<parent, fileVars, lockVars, prop, seen, salt, accepted, faultVars>>

Expected(w) == parent[prop[w]] = head

(* Mutated: an object that exists is taken for an accepted proposal.       *)
Duplicate_isOk(w) == Decide(w, "unlock", "ok") /\ seen[w] # "absent" /\ ~Expected(w)

Duplicate(w) == Decide(w, "unlock", "duplicate") /\ seen[w] # "absent" /\ ~Expected(w)

(* The object an interrupted append left does not parse.                   *)
CorruptEntry(w) == Decide(w, "unlock", "corrupt") /\ seen[w] = "partial" /\ Expected(w)

(* Mutated: any object is good enough to resume.                           *)
Resume_unread(w) == Decide(w, "advance", "none") /\ seen[w] # "absent" /\ Expected(w)

Resume(w) == Decide(w, "advance", "none") /\ seen[w] = "whole" /\ Expected(w)

Mismatch(w) == Decide(w, "unlock", "mismatch") /\ seen[w] = "absent" /\ ~Expected(w)

(* Mutated: the head is advanced before the object is written.             *)
Fresh_headFirst(w) == Decide(w, "advance", "none") /\ seen[w] = "absent" /\ Expected(w)

(* Mutated: the parent is not compared with the head.                      *)
Fresh_unchecked(w) == Decide(w, "stat", "none") /\ seen[w] = "absent"

Fresh(w) == Decide(w, "stat", "none") /\ seen[w] = "absent" /\ Expected(w)

(* WriteProposalIfAbsent: stat, then os.WriteFile in place.                *)
StatProposal(w) ==
  /\ pc[w] = "stat"
  /\ IF object[prop[w]] = "absent"
     THEN Go(w, "stat", "open") /\ UNCHANGED result
     ELSE Return(w, "stat", "unlock", "exists")
  /\ UNCHANGED <<parent, fileVars, lockVars, localVars, accepted, faultVars>>

OpenProposal(w) ==
  /\ Go(w, "open", "fill")
  /\ object' = [object EXCEPT ![prop[w]] = "partial"]
  /\ UNCHANGED <<parent, head, saltFile, lockVars, localVars, result, accepted, faultVars>>

FillProposal(w) ==
  /\ Go(w, "fill", "advance")
  /\ object' = [object EXCEPT ![prop[w]] = "whole"]
  /\ UNCHANGED <<parent, head, saltFile, lockVars, localVars, result, accepted, faultVars>>

(* AdvanceHead: the head is read again and compared...                     *)
CompareHead(w) ==
  /\ head # Corrupt
  /\ IF head = pos[w]
     THEN Go(w, "advance", "truncate") /\ UNCHANGED result
     ELSE Return(w, "advance", "unlock", "moved")
  /\ UNCHANGED <<parent, fileVars, lockVars, localVars, accepted, faultVars>>

(* ... then os.WriteFile truncates it, and writes it.                      *)
TruncateHead(w) ==
  /\ Go(w, "truncate", "record")
  /\ head' = Genesis
  /\ UNCHANGED <<parent, object, saltFile, lockVars, localVars, result, accepted, faultVars>>

RecordHead(w) ==
  /\ Return(w, "record", "unlock", "ok")
  /\ head' = prop[w]
  /\ accepted' = accepted \cup {prop[w]}
  /\ UNCHANGED <<parent, object, saltFile, lockVars, localVars, faultVars>>

(* A file operation of Append fails and is returned as an error.           *)
WriteError(w) ==
  /\ \E at \in {"read", "head", "stat", "open", "fill", "advance", "truncate"} :
       Return(w, at, "unlock", "error")
  /\ UNCHANGED <<parent, fileVars, lockVars, localVars, accepted, faultVars>>

(* Writing the truncated head fails: nothing of the hash is written, or    *)
(* part of it.                                                             *)
TearHead(w) ==
  /\ torn < MaxTorn
  /\ Return(w, "record", "unlock", "error")
  /\ torn' = torn + 1
  /\ head' \in {Genesis, Corrupt}
  /\ UNCHANGED <<parent, object, saltFile, lockVars, localVars, accepted, crashes>>

-----------------------------------------------------------------------------
(* A reader walks the chain without the lock (ChainFrom): the head, then   *)
(* each proposal on it, which nothing changes once the head has named it.  *)
Peek(w) ==
  /\ IF head = Corrupt
     THEN Return(w, "idle", "done", "corrupt") /\ UNCHANGED pos
     ELSE Return(w, "idle", "walk", "none") /\ pos' = [pos EXCEPT ![w] = head]
  /\ UNCHANGED <<parent, fileVars, lockVars, prop, seen, salt, accepted, faultVars>>

ReadChain(w) ==
  /\ pc[w] = "walk"
  /\ CASE pos[w] = Genesis -> Return(w, "walk", "done", "ok") /\ UNCHANGED pos
       [] pos[w] # Genesis /\ object[pos[w]] = "whole" ->
            /\ Go(w, "walk", "walk")
            /\ pos' = [pos EXCEPT ![w] = parent[pos[w]]]
            /\ UNCHANGED result
       [] OTHER -> /\ Return(w, "walk", "done", "broken")
                   /\ pos' = [pos EXCEPT ![w] = Genesis]
  /\ UNCHANGED <<parent, fileVars, lockVars, prop, seen, salt, accepted, faultVars>>

-----------------------------------------------------------------------------
(* Salt.                                                                   *)

Salt(w) ==
  /\ salt[w] = Absent
  /\ Go(w, "idle", "salt")
  /\ UNCHANGED <<parent, fileVars, lockVars, localVars, result, accepted, faultVars>>

(* A salt file that exists is returned as it is; else one is generated.    *)
ReadSalt(w) ==
  /\ IF saltFile = Absent
     THEN Go(w, "salt", "saltCreate") /\ UNCHANGED salt
     ELSE Go(w, "salt", "done") /\ salt' = [salt EXCEPT ![w] = saltFile]
  /\ UNCHANGED <<parent, fileVars, lockVars, prop, seen, pos, result, accepted, faultVars>>

(* Mutated: a plain WriteFile, without O_EXCL.                             *)
CreateSalt_shared(w) ==
  /\ Go(w, "saltCreate", "saltFill") /\ saltFile' = Empty
  /\ UNCHANGED <<parent, object, head, lockVars, localVars, result, accepted, faultVars>>

CreateSalt(w) ==
  /\ IF saltFile = Absent
     THEN Go(w, "saltCreate", "saltFill") /\ saltFile' = Empty
     ELSE Go(w, "saltCreate", "saltReread") /\ UNCHANGED saltFile
  /\ UNCHANGED <<parent, object, head, lockVars, localVars, result, accepted, faultVars>>

FillSalt(w) ==
  /\ Go(w, "saltFill", "done")
  /\ saltFile' = w
  /\ salt' = [salt EXCEPT ![w] = w]
  /\ UNCHANGED <<parent, object, head, lockVars, prop, seen, pos, result, accepted, faultVars>>

(* The loser of the race returns what the winner stored.                   *)
RereadSalt(w) ==
  /\ Go(w, "saltReread", "done")
  /\ salt' = [salt EXCEPT ![w] = saltFile]
  /\ UNCHANGED <<parent, fileVars, lockVars, prop, seen, pos, result, accepted, faultVars>>

(* A file operation of Salt fails; the .gitignore entry that follows the   *)
(* write may fail with the salt in place.                                  *)
SaltError(w) ==
  /\ \E at \in {"salt", "saltCreate", "saltFill", "saltReread"} :
       Return(w, at, "done", "error")
  /\ saltFile' \in IF pc[w] = "saltFill" THEN {saltFile, w} ELSE {saltFile}
  /\ UNCHANGED <<parent, object, head, lockVars, localVars, accepted, faultVars>>

-----------------------------------------------------------------------------
(* The locals of a call are gone when it ends; a salt is kept.             *)
Forget(w) ==
  /\ prop' = [prop EXCEPT ![w] = None]
  /\ seen' = [seen EXCEPT ![w] = "absent"]
  /\ pos' = [pos EXCEPT ![w] = Genesis]
  /\ ForgetHolder(w)
  /\ result' = [result EXCEPT ![w] = "none"]

Finish(w) ==
  /\ Go(w, "done", "idle")
  /\ Forget(w)
  /\ UNCHANGED <<parent, fileVars, lockFile, lockPid, salt, accepted, faultVars>>

(* A process that is in no call ends.                                      *)
Exit(w) ==
  /\ Go(w, "idle", "dead")
  /\ UNCHANGED <<parent, fileVars, lockVars, localVars, result, accepted, faultVars>>

(* A process dies inside a call, the files as it left them.                *)
Crash(w) ==
  /\ crashes < MaxCrashes
  /\ pc[w] \notin {"idle", "dead"}
  /\ pc' = [pc EXCEPT ![w] = "dead"]
  /\ crashes' = crashes + 1
  /\ IF pc[w] = "record" THEN torn < MaxTorn /\ torn' = torn + 1 ELSE UNCHANGED torn
  /\ Forget(w)
  /\ UNCHANGED <<parent, fileVars, lockFile, lockPid, salt, accepted>>

GiveUp(w) == Stale(w) \/ LedgerLocked(w)

LockStep(w) ==
  \/ CreateLock(w) \/ WritePid(w) \/ CloseFails(w)
  \/ Contend(w) \/ Unreadable(w) \/ ReadPid(w) \/ HolderRuns(w)
  \/ GiveUp(w)

AppendStep(w) ==
  \/ ReadProposal(w) \/ CorruptHead(w)
  \/ Duplicate(w) \/ CorruptEntry(w) \/ Resume(w) \/ Mismatch(w) \/ Fresh(w)
  \/ StatProposal(w) \/ OpenProposal(w) \/ FillProposal(w)
  \/ CompareHead(w) \/ TruncateHead(w) \/ RecordHead(w)
  \/ WriteError(w) \/ TearHead(w) \/ Unlock(w)

SaltStep(w) ==
  \/ ReadSalt(w) \/ CreateSalt(w) \/ FillSalt(w) \/ RereadSalt(w) \/ SaltError(w)

CallStep(w) == LockStep(w) \/ AppendStep(w) \/ SaltStep(w) \/ ReadChain(w) \/ Finish(w)

Next ==
  \/ \E p \in Proposals : Draft(p)
  \/ OperatorRemovesLock
  \/ \E w \in Procs :
       \/ \E p \in Proposals : Start(w, p)
       \/ Peek(w)
       \/ Salt(w)
       \/ CallStep(w)
       \/ Exit(w)
       \/ Crash(w)

Spec == Init /\ [][Next]_vars

-----------------------------------------------------------------------------
(* Whoever is inside the lock owns the lock file: there is one of them,    *)
(* and its release removes its own file.  Crashes, leaked lock files and   *)
(* the operator's removals do not break it.                                *)
HolderOwnsLock == \A w \in Procs : pc[w] \in Critical => lockFile = w

(* Everything the head has named stays readable down to the genesis: whole *)
(* objects, each on an accepted parent, whatever died or failed where.     *)
ChainReadable ==
  /\ head \in accepted \cup {Genesis, Corrupt}
  /\ \A p \in accepted : /\ object[p] = "whole"
                         /\ parent[p] \in accepted \cup {Genesis}

(* A lock-free reader never meets a missing or half-written proposal.      *)
ReadersNeverBroken == \A w \in Procs : result[w] # "broken"

(* An Append that returned nil has its proposal on the chain.              *)
AcknowledgedIsAccepted ==
  \A w \in Procs : result[w] = "ok" /\ prop[w] # None => prop[w] \in accepted

(* Salts in use agree: two processes that obtained a filled salt obtained  *)
(* the same, the one in the file.                                          *)
OneSalt == \A w \in Procs : salt[w] \in Procs => saltFile = salt[w]

(* The same without the exception for a file not filled yet.  The comment  *)
(* above Ledger.Salt claims it: "every caller still returns a real,        *)
(* persisted, shared salt regardless of who actually wrote it".            *)
SaltIsReal == \A w \in Procs : salt[w] # Empty

(* A stale lock is reported only for a file that its holder left behind.   *)
(* The comment on ErrStaleLedgerLock says so: "the holder was killed or    *)
(* crashed without releasing it".                                          *)
StaleWasLeft ==
  [][\A w \in Procs : result'[w] = "stale" /\ result[w] # "stale"
       => lockPid = holder[w]]_vars

(* While a writer has the head file truncated, the chain still ends where  *)
(* that writer read it.                                                    *)
ChainHead ==
  IF \E w \in Procs : pc[w] = "record"
  THEN pos[CHOOSE w \in Procs : pc[w] = "record"]
  ELSE head

(* Until a head write is torn, the directory implements the append-only    *)
(* ledger: drafts, and accepts on the current head, atomically.            *)
Ledger == INSTANCE AppendOnlyLedger WITH head <- ChainHead

ImplementsUntilTorn ==
  Ledger!Init /\ [][torn' = 0 => [Ledger!Next]_<<parent, accepted, ChainHead>>]_vars

=============================================================================
