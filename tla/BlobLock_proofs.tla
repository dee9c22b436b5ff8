-------------------------- MODULE BlobLock_proofs --------------------------
(* The object-store lock excludes until some acquisition outlives its TTL. *)
EXTENDS BlobLock, TLAPS

(* Before the first expiry every lock object is live, so no contender can  *)
(* find one to reclaim.                                                    *)
Unexpired == expiries = 0 /\ lockObj # Free => ttl[lockObj] = "live"

LockInv == LockTypeOK /\ Unexpired /\ ExclusiveUntilExpiry

LEMMA LockInitInv == LockInit => LockInv
  BY LockAssumption DEF LockInit, LockInv, LockTypeOK, LockPhases, Unexpired,
     ExclusiveUntilExpiry

LEMMA LockNextInv == LockInv /\ [LockNext]_lockVars => LockInv'
<1> SUFFICES ASSUME LockInv, [LockNext]_lockVars PROVE LockInv'
  OBVIOUS
<1> USE LockAssumption DEF LockInv, LockTypeOK, LockPhases, Unexpired,
    ExclusiveUntilExpiry, LockStep, TryDeleteLock
<1>1. ASSUME NEW w \in Procs, Request(w) \/ Abandon(w)
      PROVE  LockInv'
  BY <1>1 DEF Request, Abandon
<1>2. ASSUME NEW w \in Procs, Create(w)
      PROVE  LockInv'
  BY <1>2 DEF Create
<1>3. ASSUME NEW w \in Procs, Contend(w) \/ InspectLive(w) \/ Poll(w) \/ GiveUp(w)
      PROVE  LockInv'
  BY <1>3 DEF Contend, InspectLive, Poll, GiveUp
<1>4. ASSUME NEW w \in Procs, InspectExpired(w)
      PROVE  LockInv'
  BY <1>4 DEF InspectExpired, LockExpired
<1>5. ASSUME NEW w \in Procs, Reclaim(w)
      PROVE  LockInv'
  BY <1>5 DEF Reclaim
<1>6. ASSUME NEW w \in Procs, Release(w)
      PROVE  LockInv'
  BY <1>6 DEF Release
<1>7. ASSUME NEW w \in Procs, Expire(w)
      PROVE  LockInv'
  BY <1>7 DEF Expire
<1>8. ASSUME NEW w \in Procs, CreateFails(w)
      PROVE  LockInv'
  BY <1>8 DEF CreateFails
<1>9. CASE UNCHANGED lockVars
  BY <1>9 DEF lockVars
<1> QED
  BY <1>1, <1>2, <1>3, <1>4, <1>5, <1>6, <1>7, <1>8, <1>9 DEF LockNext, LockCall

(* Store.Lock excludes, and nobody reclaims, as long as every critical     *)
(* section is shorter than the TTL: crashes alone never let two in.        *)
THEOREM ExclusionUntilExpiry == LockSpec => []ExclusiveUntilExpiry
<1>1. LockInv => ExclusiveUntilExpiry
  BY DEF LockInv
<1> QED
  BY <1>1, LockInitInv, LockNextInv, PTL DEF LockSpec
=============================================================================
