---------------------------- MODULE Server_proofs ----------------------------
(* Only reviewed proposals are accepted, and a command whose checkout no   *)
(* other git command crossed runs on a tree its event asked for: for any   *)
(* number of handlers, pull requests, events, redeliveries and crashes.    *)
EXTENDS Server, TLAPS

Labels == {"idle", "lookup", "authorize", "fetch", "fetchRef", "reset", "run",
           "accept", "find", "write", "done"}

ServerTypes ==
  /\ heads \in [Branches -> Nat] /\ trailer \in [PRs -> Nat]
  /\ comments \in [PRs -> [Kinds -> Nat]]
  /\ pc \in [Handlers -> Labels]
  /\ answer \in [Handlers -> Kinds]
  /\ found \in [Handlers -> BOOLEAN]
  /\ DOMAIN job = Handlers /\ DOMAIN target = Handlers /\ DOMAIN ran = Handlers

BranchOf(e) == IF e.kind \in {"merge", "tick"} THEN Base ELSE e.pr

(* What is true of an event from its sending on: heads only grow, and an   *)
(* approval was given before it is reported.                               *)
Genuine(e) ==
  /\ e \in Events
  /\ e.kind # "tick" => e.pr \in PRs
  /\ e.n <= heads[BranchOf(e)]
  /\ e.kind = "approve" => Commit(e.pr, e.n) \in reviewed

CheckingOut == {"fetch", "fetchRef", "reset", "run", "accept"}

(* What handler h holds is what its event asks for.                        *)
Aimed(h) ==
  /\ Genuine(job[h])
  /\ pc[h] = "lookup" => \/ job[h].kind \in {"plan", "ship"}
                         \/ job[h].kind = "approve" /\ platform = "gitlab"
  /\ pc[h] = "authorize" => job[h].kind \in {"plan", "ship"} /\ target[h] \in Wanted(job[h])
  /\ pc[h] \in CheckingOut => target[h] \in Wanted(job[h])
  /\ pc[h] \in CheckingOut /\ job[h].kind = "approve" /\ platform # "gitlab"
       => target[h] = Commit(job[h].pr, job[h].n)
  /\ pc[h] = "accept" => job[h].kind = "approve"
  /\ pc[h] \in {"find", "write"} => job[h].kind # "tick"

AimInv ==
  /\ \A e \in pending : Genuine(e)
  /\ \A h \in Handlers : Busy(h) => Aimed(h)

(* What h left in the clone is still there when it goes on, unless another *)
(* handler's git command came in between.                                  *)
Undisturbed(h) ==
  /\ pc[h] \in {"idle", "lookup", "authorize", "fetch", "fetchRef"} => ran[h] = None
  /\ h \notin crossed =>
       /\ ran[h] # None => ran[h] \in Wanted(job[h])
       /\ pc[h] = "reset" => fetchHead \in Wanted(job[h])
       /\ pc[h] = "run" => tree \in Wanted(job[h])

IInv ==
  /\ ServerTypes /\ AimInv /\ ApprovedIsReviewed
  /\ \A h \in Handlers : Undisturbed(h)

LEMMA InitInv == Init => IInv
BY ServerAssumption DEF Init, IInv, ServerTypes, AimInv, ApprovedIsReviewed, Undisturbed,
   Busy, Labels, Kinds, Branches

(* What is genuine stays so: heads grow and reviews are kept.              *)
LEMMA GenuineStays ==
  ASSUME heads \in [Branches -> Nat], heads' \in [Branches -> Nat],
         \A b \in Branches : heads[b] <= heads'[b],
         reviewed \subseteq reviewed',
         NEW e, Genuine(e)
  PROVE  Genuine(e)'
<1>1. BranchOf(e) \in Branches /\ e.n \in Nat
  BY DEF Genuine, BranchOf, Branches, Events
<1> QED
  BY <1>1 DEF Genuine, BranchOf, Events, Commit

(* The platform touches no handler, and what it sends is genuine.          *)
LEMMA EnvironmentInv ==
  ASSUME IInv, UNCHANGED <<platform, clone, locals, comments, accepted>>,
         heads' \in [Branches -> Nat], trailer' \in [PRs -> Nat],
         \A b \in Branches : heads[b] <= heads'[b],
         reviewed \subseteq reviewed',
         \A e \in pending' \ pending : Genuine(e)'
  PROVE  IInv'
<1>1. \A e : Genuine(e) => Genuine(e)'
  BY GenuineStays DEF IInv, ServerTypes
<1>2. ServerTypes' /\ ApprovedIsReviewed'
  BY DEF IInv, ServerTypes, ApprovedIsReviewed, clone, locals
<1>3. AimInv'
  BY <1>1 DEF IInv, AimInv, Aimed, Busy, CheckingOut, locals
<1>4. \A h \in Handlers : Undisturbed(h)'
  BY DEF IInv, Undisturbed, clone, locals
<1> QED
  BY <1>2, <1>3, <1>4 DEF IInv

LEMMA PlatformInv ==
  ASSUME IInv, PlatformStep
  PROVE  IInv'
<1> USE DEF Send, About, Genuine, BranchOf, Events, Commit
<1>0. /\ heads \in [Branches -> Nat] /\ trailer \in [PRs -> Nat] /\ Base \in Branches /\ \A p \in PRs : p \in Branches
      /\ Base \notin PRs
  BY ServerAssumption DEF IInv, ServerTypes, Branches
<1>1. CASE Tick
  <2>1. /\ UNCHANGED <<platform, clone, locals, comments, accepted, heads, trailer, reviewed>>
        /\ \A e \in pending' \ pending : Genuine(e)'
    BY <1>0, <1>1 DEF Tick
  <2> QED
    BY <1>0, <2>1, EnvironmentInv
<1>2. ASSUME NEW p \in PRs, Push(p) PROVE IInv'
  <2>1. /\ UNCHANGED <<platform, clone, locals, comments, accepted, trailer, reviewed>>
        /\ heads' \in [Branches -> Nat] /\ \A b \in Branches : heads[b] <= heads'[b]
        /\ \A e \in pending' \ pending : Genuine(e)'
    BY <1>0, <1>2 DEF Push
  <2> QED
    BY <1>0, <2>1, EnvironmentInv
<1>3. ASSUME NEW p \in PRs, EditBody(p) PROVE IInv'
  <2>1. /\ UNCHANGED <<platform, clone, locals, comments, accepted, reviewed, heads, pending>>
        /\ trailer' \in [PRs -> Nat]
    BY <1>0, <1>3 DEF EditBody
  <2> QED
    BY <1>0, <2>1, EnvironmentInv
<1>4. ASSUME NEW p \in PRs, Merge(p) PROVE IInv'
  <2>1. /\ UNCHANGED <<platform, clone, locals, comments, accepted, trailer, reviewed>>
        /\ heads' \in [Branches -> Nat] /\ \A b \in Branches : heads[b] <= heads'[b]
        /\ \A e \in pending' \ pending : Genuine(e)'
    BY <1>0, <1>4 DEF Merge
  <2> QED
    BY <1>0, <2>1, EnvironmentInv
<1>5. ASSUME NEW p \in PRs, NEW verb \in {"plan", "ship"}, CommentOn(p, verb) PROVE IInv'
  <2>1. /\ UNCHANGED <<platform, clone, locals, comments, accepted, trailer, reviewed, heads>>
        /\ \A e \in pending' \ pending : Genuine(e)'
    BY <1>0, <1>5 DEF CommentOn
  <2> QED
    BY <1>0, <2>1, EnvironmentInv
<1>6. ASSUME NEW p \in PRs, NEW n \in 1..heads[p], Approve(p, n) PROVE IInv'
  <2>1. /\ UNCHANGED <<platform, clone, locals, comments, accepted, heads, trailer>>
        /\ reviewed \subseteq reviewed'
        /\ \A e \in pending' \ pending : Genuine(e)'
    BY <1>0, <1>6 DEF Approve
  <2> QED
    BY <1>0, <2>1, EnvironmentInv
<1> QED
  BY <1>1, <1>2, <1>3, <1>4, <1>5, <1>6 DEF PlatformStep

(* A step of h alone is right when it is right for h.                      *)
LEMMA HandlerInv ==
  ASSUME IInv, NEW h \in Handlers, UNCHANGED environment, pending' \subseteq pending,
         ServerTypes', ApprovedIsReviewed',
         \A g \in Handlers \ {h} :
           /\ pc'[g] = pc[g] /\ job'[g] = job[g] /\ answer'[g] = answer[g]
           /\ target'[g] = target[g] /\ ran'[g] = ran[g] /\ found'[g] = found[g],
         Busy(h)' => Aimed(h)', Undisturbed(h)',
         crossed \ {h} \subseteq crossed',
         \/ UNCHANGED <<tree, fetchHead>>
         \/ Amid(h) \subseteq crossed'
  PROVE  IInv'
<1>1. AimInv'
  BY DEF IInv, AimInv, Aimed, Genuine, Busy, CheckingOut, environment
<1>2. \A g \in Handlers : Undisturbed(g)'
  BY DEF IInv, Undisturbed, Amid
<1> QED
  BY <1>1, <1>2 DEF IInv

(* An event is taken up.                                                   *)
LEMMA DeliverInv ==
  ASSUME IInv, NEW h \in Handlers, NEW e \in pending, Deliver(h, e)
  PROVE  IInv'
<1>1. /\ UNCHANGED <<environment, clone, ran, found, comments, accepted>>
      /\ pending' \subseteq pending /\ ServerTypes' /\ ApprovedIsReviewed'
  BY DEF Deliver, IInv, ServerTypes, ApprovedIsReviewed, Labels, Answer, Kinds, environment
<1>2. Genuine(e) /\ Genuine(e)'
  BY <1>1 DEF IInv, AimInv, Genuine, environment
<1>3. /\ job'[h] = e /\ target'[h] = Named(e)
      /\ pc'[h] = IF Outdated(e) THEN "find" ELSE IF Named(e) = None THEN "lookup" ELSE "fetch"
      /\ UNCHANGED <<platform, heads>>
  BY <1>1 DEF Deliver, IInv, ServerTypes, environment
<1>4. /\ e.kind \in {"push", "plan", "ship", "approve", "merge", "tick"}
      /\ Named(e) # None => Named(e) \in Wanted(e)
      /\ Named(e) = None => \/ e.kind \in {"plan", "ship"}
                            \/ e.kind = "approve" /\ platform = "gitlab"
      /\ e.kind = "approve" /\ platform # "gitlab" => Named(e) = Commit(e.pr, e.n)
  BY <1>2, ServerAssumption DEF Genuine, Named, Wanted, Events, Commits, Commit, Head, BranchOf,
     Branches, IInv, ServerTypes
<1>5. Aimed(h)'
  BY <1>2, <1>3, <1>4 DEF Aimed, CheckingOut, Outdated
<1>7. Undisturbed(h)'
  BY <1>1, <1>3 DEF Undisturbed, IInv, Deliver, Busy, clone
<1>8. \A g \in Handlers \ {h} :
        /\ pc'[g] = pc[g] /\ job'[g] = job[g] /\ answer'[g] = answer[g]
        /\ target'[g] = target[g] /\ ran'[g] = ran[g] /\ found'[g] = found[g]
  BY <1>1 DEF Deliver, IInv, ServerTypes
<1> QED
  BY <1>1, <1>5, <1>7, <1>8, HandlerInv DEF clone

(* The steps that only move h on.                                          *)
LEMMA StepInv ==
  ASSUME IInv, NEW h \in Handlers,
         \/ Lookup(h) \/ Authorize(h) \/ EnsureRepoCheckout(h) \/ FetchRef(h) \/ ResetHard(h)
         \/ RunUbx(h) \/ Scan(h) \/ AcceptFromReview(h) \/ Refuse(h)
         \/ FindLastBotComment(h) \/ ListingFails(h) \/ WriteComment(h)
         \/ Fail(h)
  PROVE  IInv'
<1> USE DEF Local
<1>1. UNCHANGED environment /\ pending' = pending /\ job' = job /\ Busy(h)
  BY DEF Lookup, Authorize, EnsureRepoCheckout, FetchRef, ResetHard, RunUbx, Scan, AcceptFromReview,
     Refuse, FindLastBotComment, ListingFails, WriteComment, Fail, Busy
<1>2. Undisturbed(h)
  BY DEF IInv
<1>3. Aimed(h)
  BY <1>1 DEF IInv, AimInv
<1>4. Genuine(job[h])'
  BY <1>1, <1>3 DEF Aimed, Genuine, environment
<1> DEFINE Others == \A g \in Handlers \ {h} :
              /\ pc'[g] = pc[g] /\ job'[g] = job[g] /\ answer'[g] = answer[g]
              /\ target'[g] = target[g] /\ ran'[g] = ran[g] /\ found'[g] = found[g]
           Right == /\ Others /\ ServerTypes' /\ ApprovedIsReviewed' /\ Aimed(h)'
                    /\ Undisturbed(h)' /\ crossed \ {h} \subseteq crossed'
                    /\ UNCHANGED <<tree, fetchHead>> \/ Amid(h) \subseteq crossed'
<1>5. SUFFICES Right
  BY <1>1, <1>2, HandlerInv
<1> HIDE DEF Others, Right
<1>6. /\ ServerTypes /\ ApprovedIsReviewed /\ UNCHANGED <<platform, heads, trailer, reviewed>>
      /\ job[h].pr \in Branches /\ (job[h].kind # "tick" => job[h].pr \in PRs)
      /\ job[h].kind \in {"push", "plan", "ship", "approve", "merge", "tick"}
      /\ job[h].n \in Nat /\ job[h].n <= heads[BranchOf(job[h])]
  BY <1>1, <1>3 DEF Aimed, Genuine, Events, IInv, environment
<1> USE DEF Right, Others, ServerTypes, Aimed, CheckingOut, Undisturbed, ApprovedIsReviewed,
        Labels, Amid, clone
<1>7. CASE Lookup(h)
  <2>1. /\ job[h].kind \in {"plan", "ship", "approve"}
        /\ job[h].kind = "approve" => platform = "gitlab"
    BY <1>3, <1>7 DEF Lookup
  <2>2. Head(job[h].pr) \in Wanted(job[h])
    BY <1>6, <2>1 DEF Head, Commit, Commits, Wanted, BranchOf
  <2> QED
    BY <1>1, <1>2, <1>3, <1>4, <1>6, <1>7, <2>1, <2>2 DEF Lookup
<1>8. CASE Authorize(h)
  <2>1. PICK next \in {"fetch", "find"} : Local(h, "authorize", next)
    BY <1>8 DEF Authorize
  <2> QED
    BY <1>1, <1>2, <1>3, <1>4, <1>6, <1>8, <2>1 DEF Authorize
<1>9. CASE EnsureRepoCheckout(h)
  BY <1>1, <1>2, <1>3, <1>4, <1>6, <1>9 DEF EnsureRepoCheckout
<1>10. CASE FetchRef(h)
  <2>1. fetchHead' \in Wanted(job[h])
    BY <1>1, <1>3, <1>6, <1>10, ServerAssumption
       DEF FetchRef, Head, Commit, Commits, Wanted, BranchOf, Branches
  <2>2. /\ UNCHANGED <<tree, job, answer, target, claim, ran, found, comments, accepted>>
        /\ pc' = [pc EXCEPT ![h] = "reset"] /\ pc[h] = "fetchRef"
        /\ crossed' = (crossed \cup Amid(h)) \ {h} /\ h \notin Amid(h)
    BY <1>10 DEF FetchRef
  <2>3. Others /\ ServerTypes' /\ ApprovedIsReviewed' /\ pc'[h] = "reset"
    BY <1>6, <2>2
  <2>4. Aimed(h)'
    BY <1>3, <1>4, <1>6, <2>2, <2>3
  <2>5. Undisturbed(h)'
    BY <1>1, <1>2, <1>6, <2>1, <2>2, <2>3 DEF Wanted
  <2> QED
    BY <2>2, <2>3, <2>4, <2>5
<1>11. CASE ResetHard(h)
  BY <1>1, <1>2, <1>3, <1>4, <1>6, <1>11 DEF ResetHard
<1>12. CASE RunUbx(h)
  <2>1. PICK a \in {answer[h], "plan"} : answer' = [answer EXCEPT ![h] = a]
    BY <1>12 DEF RunUbx
  <2>2. a \in Kinds
    BY <1>6, <2>1 DEF Kinds
  <2> QED
    BY <1>1, <1>2, <1>3, <1>4, <1>6, <1>12, <2>1, <2>2 DEF RunUbx
<1>13. CASE Scan(h)
  <2>1. PICK next \in {"run", "done"} : Local(h, "run", next)
    BY <1>13 DEF Scan
  <2>2. Others /\ ServerTypes' /\ ApprovedIsReviewed' /\ pc'[h] = next
    BY <1>1, <1>6, <1>13, <2>1 DEF Scan
  <2>3. Aimed(h)'
    BY <1>1, <1>3, <1>4, <1>6, <1>13, <2>1 DEF Scan
  <2>4. ran'[h] = tree /\ UNCHANGED <<tree, comments>>
    BY <1>6, <1>13 DEF Scan, clone
  <2>5. Undisturbed(h)' /\ UNCHANGED <<crossed, tree, fetchHead>>
    BY <1>1, <1>2, <1>6, <1>13, <2>1, <2>2, <2>4 DEF Scan
  <2> QED
    BY <2>2, <2>3, <2>5
<1>14. CASE AcceptFromReview(h)
  <2>1. platform # "gitlab" => target[h] \in reviewed
    BY <1>3, <1>14 DEF AcceptFromReview, Genuine
  <2> QED
    BY <1>1, <1>2, <1>3, <1>4, <1>6, <1>14, <2>1 DEF AcceptFromReview
<1>15. CASE Refuse(h)
  BY <1>1, <1>2, <1>3, <1>4, <1>6, <1>15 DEF Refuse
<1>16. CASE FindLastBotComment(h) \/ ListingFails(h)
  <2>1. CASE FindLastBotComment(h)
    BY <1>1, <1>2, <1>3, <1>4, <1>6, <2>1 DEF FindLastBotComment
  <2>2. CASE ListingFails(h)
    BY <1>1, <1>2, <1>3, <1>4, <1>6, <2>2 DEF ListingFails
  <2> QED
    BY <1>16, <2>1, <2>2
<1>17. CASE WriteComment(h)
  BY <1>1, <1>2, <1>3, <1>4, <1>6, <1>17 DEF WriteComment
<1>18. CASE Fail(h)
  BY <1>1, <1>2, <1>3, <1>4, <1>6, <1>18 DEF Fail
<1> QED
  BY <1>7, <1>8, <1>9, <1>10, <1>11, <1>12, <1>13, <1>14, <1>15, <1>16, <1>17, <1>18

(* A handler that is gone, by finishing or with the server, holds nothing. *)
LEMMA ForgetInv ==
  ASSUME IInv, NEW H \in SUBSET Handlers, Forget(H), pending' \subseteq pending
  PROVE  IInv'
<1>1. /\ UNCHANGED <<environment, tree, fetchHead, comments, accepted>>
      /\ crossed' = crossed \ H
      /\ \A h \in H : pc'[h] = "idle" /\ ran'[h] = None
      /\ \A h \in Handlers \ H :
           /\ pc'[h] = pc[h] /\ job'[h] = job[h] /\ answer'[h] = answer[h]
           /\ target'[h] = target[h] /\ ran'[h] = ran[h] /\ found'[h] = found[h]
  BY DEF Forget
<1>2. ServerTypes'
  BY <1>1 DEF Forget, IInv, ServerTypes, Labels, Kinds, environment
<1>3. AimInv' /\ ApprovedIsReviewed'
  BY <1>1 DEF IInv, AimInv, Aimed, Genuine, ApprovedIsReviewed, Busy, CheckingOut, environment
<1>4. \A h \in Handlers : Undisturbed(h)'
  BY <1>1 DEF IInv, Undisturbed
<1> QED
  BY <1>2, <1>3, <1>4 DEF IInv

LEMMA NextInv == IInv /\ [Next]_vars => IInv'
<1> SUFFICES ASSUME IInv, [Next]_vars PROVE IInv'
  OBVIOUS
<1>1. CASE UNCHANGED vars
  BY <1>1 DEF vars, environment, clone, locals, IInv, ServerTypes, AimInv, Aimed, Genuine,
     ApprovedIsReviewed, Undisturbed, Busy, CheckingOut
<1>2. CASE PlatformStep
  BY <1>2, PlatformInv
<1>3. CASE Crash
  BY <1>3, ForgetInv DEF Crash
<1>4. ASSUME NEW h \in Handlers, HandlerStep(h)
      PROVE  IInv'
  <2>1. CASE \E e \in pending : Deliver(h, e)
    BY <2>1, DeliverInv
  <2>2. CASE Finish(h)
    <3>1. {h} \in SUBSET Handlers /\ Forget({h}) /\ pending' \subseteq pending
      BY <2>2 DEF Finish
    <3> QED
      BY <3>1, ForgetInv
  <2> QED
    BY <1>4, <2>1, <2>2, StepInv DEF HandlerStep
<1> QED
  BY <1>1, <1>2, <1>3, <1>4 DEF Next

THEOREM ServerInvariant == Spec => []IInv
BY InitInv, NextInv, PTL DEF Spec

(* However many handlers share the clone, only a proposal some reviewer    *)
(* approved is accepted, where the platform's approvals name their commit  *)
(* (server/webhook.go, server/bitbucketserver_webhook.go).                 *)
THEOREM OnlyReviewedIsAccepted == Spec => []ApprovedIsReviewed
BY ServerInvariant, PTL DEF IInv

(* Whatever other handlers do before and after, and whatever trees crashes *)
(* and failing commands left, a command whose own fetch and reset no other *)
(* git command crossed runs on a tree its event asked for (server/repo.go, *)
(* checkoutRef).                                                           *)
THEOREM UncrossedRunsOnOwnCheckout == Spec => []UndisturbedCheckout
<1>1. IInv => UndisturbedCheckout
  BY DEF IInv, Undisturbed, UndisturbedCheckout
<1> QED
  BY <1>1, ServerInvariant, PTL

-----------------------------------------------------------------------------
(* What the type invariant says beyond IInv.                               *)
OtherTypes ==
  /\ platform \in Platforms
  /\ merged \subseteq PRs
  /\ reviewed \subseteq Commits /\ accepted \subseteq Commits
  /\ sent \in 0..MaxEvents
  /\ {tree, fetchHead} \subseteq Commits \cup {None}
  /\ crossed \subseteq Handlers
  /\ \A h \in Handlers :
       /\ ~Busy(h) => job[h] = None
       /\ {target[h], ran[h]} \subseteq Commits \cup {None}
       /\ pc[h] = "reset" => fetchHead # None
  /\ claim \in [Handlers -> Nat]
  /\ crashes \in 0..MaxCrashes

LEMMA TypesTogether == IInv /\ OtherTypes => ServerTypeOK
<1> SUFFICES ASSUME IInv, OtherTypes PROVE ServerTypeOK
  OBVIOUS
<1>1. pending \subseteq Events
  BY DEF IInv, AimInv, Genuine
<1>2. ASSUME NEW h \in Handlers
      PROVE  /\ job[h] \in Events \cup {None}
             /\ Busy(h) <=> job[h] # None
             /\ {target[h], ran[h]} \subseteq Commits \cup {None}
             /\ pc[h] \in {"fetch", "fetchRef", "reset", "run", "accept"} => target[h] # None
             /\ pc[h] = "reset" => fetchHead # None
             /\ pc[h] \in {"find", "write"} => job[h].pr \in PRs
  <2>1. CASE ~Busy(h)
    BY <2>1 DEF OtherTypes, Busy
  <2>2. CASE Busy(h)
    <3>1. Aimed(h)
      BY <2>2 DEF IInv, AimInv
    <3>2. job[h] \in Events /\ job[h] # None
      BY <3>1, EventAssumption DEF Aimed, Genuine
    <3>3. pc[h] \in CheckingOut => target[h] # None
      BY <3>1, ServerAssumption DEF Aimed, Wanted, Commits, Branches
    <3>4. pc[h] \in {"find", "write"} => job[h].pr \in PRs
      BY <3>1 DEF Aimed, Genuine
    <3> QED
      BY <2>2, <3>2, <3>3, <3>4 DEF OtherTypes, CheckingOut
  <2> QED
    BY <2>1, <2>2
<1> QED
  BY <1>1, <1>2 DEF ServerTypeOK, OtherTypes, IInv, ServerTypes

LEMMA PlatformTypes ==
  ASSUME IInv, OtherTypes, PlatformStep
  PROVE  OtherTypes'
<1> USE ServerAssumption DEF OtherTypes, Busy, Send, clone, locals
<1>1. heads \in [Branches -> Nat] /\ PRs \subseteq Branches
  BY DEF IInv, ServerTypes, Branches
<1>2. CASE Tick
  BY <1>2 DEF Tick
<1>3. ASSUME NEW p \in PRs,
             \/ Push(p) \/ EditBody(p) \/ Merge(p)
             \/ \E verb \in {"plan", "ship"} : CommentOn(p, verb)
      PROVE  OtherTypes'
  BY <1>3 DEF Push, EditBody, Merge, CommentOn
<1>4. ASSUME NEW p \in PRs, NEW n \in 1..heads[p], Approve(p, n)
      PROVE  OtherTypes'
  <2>1. Commit(p, n) \in Commits
    BY <1>1 DEF Commit, Commits
  <2> QED
    BY <1>4, <2>1 DEF Approve
<1> QED
  BY <1>2, <1>3, <1>4 DEF PlatformStep

LEMMA HandlerTypes ==
  ASSUME IInv, OtherTypes, NEW h \in Handlers, HandlerStep(h)
  PROVE  OtherTypes'
<1> USE DEF OtherTypes, Busy
<1>1. /\ heads \in [Branches -> Nat] /\ trailer \in [PRs -> Nat]
      /\ Base \in Branches /\ PRs \subseteq Branches
      /\ pc \in [Handlers -> Labels]
      /\ DOMAIN job = Handlers /\ DOMAIN target = Handlers /\ DOMAIN ran = Handlers
  BY DEF IInv, ServerTypes, Branches
<1>2. \A b \in Branches : Head(b) \in Commits
  BY <1>1 DEF Head, Commit, Commits
<1>3. pc[h] # "idle" => job[h] \in Events /\ job[h].pr \in Branches
                        /\ (job[h].kind # "tick" => job[h].pr \in PRs)
  BY DEF IInv, AimInv, Aimed, Genuine, Events
<1>4. pc[h] \in CheckingOut => target[h] \in Commits
  BY DEF IInv, AimInv, Aimed, CheckingOut, Wanted
<1>5. None \notin Commits
  BY ServerAssumption DEF Commits, Branches
<1>6. ASSUME NEW e \in pending, Deliver(h, e)
      PROVE  OtherTypes'
  <2>1. e \in Events /\ e.pr \in Branches /\ e.n \in Nat /\ e.body \in Nat
    BY DEF IInv, AimInv, Genuine, Events
  <2>2. Named(e) \in Commits \cup {None}
    BY <1>1, <1>2, <2>1 DEF Named, Commit, Commits
  <2>3. crashes' \in 0..MaxCrashes /\ sent' \in 0..MaxEvents
    BY <1>6, ServerAssumption DEF Deliver
  <2>4. pc'[h] # "idle" /\ pc'[h] # "reset"
    BY <1>1, <1>6 DEF Deliver
  <2>5. /\ UNCHANGED <<platform, merged, reviewed, accepted, tree, fetchHead, crossed, ran>>
        /\ job' = [job EXCEPT ![h] = e]
        /\ target' = [target EXCEPT ![h] = Named(e)]
        /\ claim' = [claim EXCEPT ![h] = e.body]
        /\ \A g \in Handlers \ {h} : pc'[g] = pc[g]
    BY <1>1, <1>6 DEF Deliver, environment, clone
  <2> QED
    BY <1>1, <2>1, <2>2, <2>3, <2>4, <2>5
<1> USE DEF Local, environment
<1>7. CASE Lookup(h)
  <2>1. job[h].kind # "tick"
    BY <1>7 DEF IInv, AimInv, Aimed, Lookup
  <2> QED
    BY <1>1, <1>2, <1>3, <1>7, <2>1 DEF Lookup, clone
<1>8. CASE Authorize(h) \/ Refuse(h) \/ FindLastBotComment(h) \/ ListingFails(h)
          \/ WriteComment(h)
  BY <1>1, <1>8 DEF Authorize, Refuse, FindLastBotComment, ListingFails, WriteComment, clone
<1>9. CASE EnsureRepoCheckout(h)
  BY <1>1, <1>2, <1>5, <1>9 DEF EnsureRepoCheckout, Amid
<1>10. CASE FetchRef(h)
  <2>1. target[h] \in Commits
    BY <1>4, <1>10 DEF FetchRef, CheckingOut
  <2>2. fetchHead' \in Commits
    BY <1>1, <1>2, <1>10, <2>1 DEF FetchRef
  <2> QED
    BY <1>1, <1>5, <1>10, <2>2 DEF FetchRef, Amid
<1>11. CASE ResetHard(h)
  BY <1>1, <1>11 DEF ResetHard, Amid
<1>12. CASE RunUbx(h) \/ Scan(h)
  <2>1. pc'[h] \notin {"idle", "reset"}
    BY <1>1, <1>12 DEF RunUbx, Scan
  <2>2. /\ UNCHANGED <<platform, merged, reviewed, accepted, sent, tree, fetchHead, crossed, job, target, claim, crashes>>
        /\ ran' = [ran EXCEPT ![h] = tree]
        /\ \A g \in Handlers \ {h} : pc'[g] = pc[g]
    BY <1>1, <1>12 DEF RunUbx, Scan, clone
  <2> QED
    BY <1>1, <2>1, <2>2
<1>13. CASE AcceptFromReview(h)
  <2>1. target[h] \in Commits
    BY <1>4, <1>13 DEF AcceptFromReview, CheckingOut
  <2> QED
    BY <1>1, <1>13, <2>1 DEF AcceptFromReview, clone
<1>14. CASE Fail(h)
  BY <1>1, <1>14 DEF Fail, clone
<1>15. CASE Finish(h)
  BY <1>1, <1>15 DEF Finish, Forget, clone
<1> QED
  BY <1>6, <1>7, <1>8, <1>9, <1>10, <1>11, <1>12, <1>13, <1>14, <1>15 DEF HandlerStep

LEMMA TypesStep == IInv /\ OtherTypes /\ [Next]_vars => OtherTypes'
<1> SUFFICES ASSUME IInv, OtherTypes, [Next]_vars PROVE OtherTypes'
  OBVIOUS
<1>1. CASE UNCHANGED vars
  BY <1>1 DEF vars, environment, clone, locals, OtherTypes, Busy
<1>2. CASE Crash
  BY <1>2, ServerAssumption DEF Crash, Forget, OtherTypes, Busy, environment, clone
<1> QED
  BY <1>1, <1>2, PlatformTypes, HandlerTypes DEF Next

(* Every variable of the server and the platform stays in its type, and a  *)
(* handler has what its place needs: an event while it works, a commit to  *)
(* check out, a pull request to comment on (server/repo.go, comment.go).   *)
THEOREM ServerTypesCorrect == Spec => []ServerTypeOK
<1>1. Init => OtherTypes
  BY ServerAssumption DEF Init, OtherTypes, Busy
<1> QED
  BY <1>1, TypesStep, TypesTogether, ServerInvariant, PTL DEF Spec
=============================================================================
