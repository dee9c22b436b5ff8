------------------------------- MODULE Server -------------------------------
(***************************************************************************)
(* `ubx server` (package server) working on one repository: deliveries of  *)
(* the platform's webhooks and the ticks of the drift loop, each handled   *)
(* by a goroutine of its own in the one clone the server keeps of the      *)
(* repository, with no lock between them.                                  *)
(*                                                                         *)
(* The platform (GitHub, GitLab, Bitbucket Server) is the environment: it  *)
(* moves branches and PR bodies and sends events, which arrive late, out   *)
(* of order or twice.  A delivery is acknowledged before it is handled, so *)
(* what a crash interrupts is gone.  The ubx commands the server starts    *)
(* are modelled elsewhere; here a command is the tree it ran on.           *)
(***************************************************************************)
EXTENDS Naturals, FiniteSets

CONSTANTS
  PRs,            \* pull requests of the repository
  Base,           \* its default branch
  Handlers,       \* goroutines that may be handling something at once
  None,           \* no event, no commit, no clone
  Platforms,      \* the platforms considered, of AllPlatforms
  MaxPushes,      \* bound on the commits of a pull request
  MaxEvents,      \* bound on the deliveries, repeated ones included
  MaxCrashes      \* bound on crashes of the server

AllPlatforms == {"github", "gitlab", "bitbucketserver"}

ASSUME ServerAssumption ==
  /\ Base \notin PRs
  /\ None \notin [branch : PRs \cup {Base}, n : Nat]
  /\ Platforms \subseteq AllPlatforms
  /\ {MaxPushes, MaxEvents, MaxCrashes} \subseteq Nat

VARIABLES
  platform,   \* the platform the repository is on
  heads,      \* heads[b]: the newest commit of branch b, by number; 0: not opened
  trailer,    \* trailer[p]: the commit whose proposal hash the PR body names
  merged,     \* the pull requests that were merged
  reviewed,   \* the commits a reviewer approved
  sent,       \* deliveries sent so far
  pending,    \* events on their way
  tree,       \* the commit in the clone's working tree, None: no clone
  fetchHead,  \* the clone's FETCH_HEAD
  pc, job,    \* where handler h is, and the event it handles
  answer,     \* answer[h]: the kind of comment h will write
  target,     \* target[h]: the commit or branch tip h was told to check out
  claim,      \* claim[h]: the PR body trailer h was handed with the event
  ran,        \* ran[h]: the tree h's command ran on, or h gave up on
  found,      \* found[h]: the listing h made held a comment to edit
  comments,   \* comments[p][k]: the bot's comments of kind k on p
  accepted,   \* history: commits whose proposal a review got accepted
  crossed,    \* history: handlers whose checkout another's git command crossed
  crashes     \* crashes so far

environment == <<platform, heads, trailer, merged, reviewed>>
clone == <<tree, fetchHead, crossed>>
locals == <<pc, job, answer, target, claim, ran, found>>
vars == <<environment, sent, pending, clone, locals, comments, accepted, crashes>>

Branches == PRs \cup {Base}
Commits == [branch : Branches, n : Nat]
Commit(b, n) == [branch |-> b, n |-> n]
Head(b) == Commit(b, heads[b])

Kinds == {"plan", "ship", "accept"}
Events == [kind : {"push", "plan", "ship", "approve", "merge", "tick"},
           pr : Branches, n : Nat, head : Nat, body : Nat]

ASSUME EventAssumption == None \notin Events

(* The comment that answers an event.                                      *)
Answer(e) == IF e.kind \in {"push", "plan"} THEN "plan"
             ELSE IF e.kind \in {"ship", "merge"} THEN "ship" ELSE "accept"

Init ==
  /\ platform \in Platforms
  /\ heads = [b \in Branches |-> IF b = Base THEN 1 ELSE 0]
  /\ trailer = [p \in PRs |-> 0]
  /\ merged = {} /\ reviewed = {} /\ sent = 0 /\ pending = {}
  /\ tree = None /\ fetchHead = None
  /\ pc = [h \in Handlers |-> "idle"]
  /\ job = [h \in Handlers |-> None]
  /\ answer = [h \in Handlers |-> "plan"]
  /\ target = [h \in Handlers |-> None]
  /\ claim = [h \in Handlers |-> 0]
  /\ ran = [h \in Handlers |-> None]
  /\ found = [h \in Handlers |-> FALSE]
  /\ comments = [p \in PRs |-> [k \in Kinds |-> 0]]
  /\ accepted = {} /\ crossed = {}
  /\ crashes = 0

-----------------------------------------------------------------------------
(* The platform and the clock.                                             *)

Send(e) ==
  /\ sent < MaxEvents
  /\ sent' = sent + 1
  /\ pending' = pending \cup {e}
  /\ UNCHANGED <<platform, clone, locals, comments, accepted, crashes>>

(* What the payload of an event about p says; n is the commit it is about. *)
About(kind, p, n) ==
  [kind |-> kind, pr |-> p, n |-> n, head |-> heads'[p], body |-> trailer[p]]

(* The first push opens the pull request.                                  *)
Push(p) ==
  /\ p \notin merged /\ heads[p] < MaxPushes
  /\ heads' = [heads EXCEPT ![p] = @ + 1]
  /\ Send(About("push", p, heads'[p]))
  /\ UNCHANGED <<trailer, merged, reviewed>>

(* The author puts the hash of the newest proposal into the PR body.       *)
EditBody(p) ==
  /\ trailer[p] # heads[p]
  /\ trailer' = [trailer EXCEPT ![p] = heads[p]]
  /\ UNCHANGED <<platform, heads, merged, reviewed, sent, pending, clone, locals,
                 comments, accepted, crashes>>

CommentOn(p, verb) ==
  /\ heads[p] > 0
  /\ UNCHANGED <<heads, trailer, merged, reviewed>>
  /\ Send(About(verb, p, heads[p]))

(* A reviewer approves the commit on the screen, which may be an old one.  *)
Approve(p, n) ==
  /\ n <= heads[p]
  /\ reviewed' = reviewed \cup {Commit(p, n)}
  /\ UNCHANGED <<heads, trailer, merged>>
  /\ Send(About("approve", p, n))

Merge(p) ==
  /\ p \notin merged /\ heads[p] > 0
  /\ merged' = merged \cup {p}
  /\ heads' = [heads EXCEPT ![Base] = @ + 1]
  /\ Send(About("merge", p, heads'[Base]))
  /\ UNCHANGED <<trailer, reviewed>>

(* runDriftWatchLoop's ticker.                                             *)
Tick ==
  /\ UNCHANGED <<heads, trailer, merged, reviewed>>
  /\ Send([kind |-> "tick", pr |-> Base, n |-> heads[Base], head |-> 0, body |-> 0])

-----------------------------------------------------------------------------
(* Handling one event.                                                     *)

Busy(h) == pc[h] # "idle"

(* h leaves l for m and changes no shared state.                           *)
Local(h, l, m) ==
  /\ pc[h] = l
  /\ pc' = [pc EXCEPT ![h] = m]
  /\ UNCHANGED <<environment, sent, pending, accepted, crashes>>

(* Mutant: every approval is looked up, and the head accepted.             *)
Named_head(e) ==
  CASE e.kind = "push" -> Commit(e.pr, e.n)
    [] e.kind \in {"merge", "tick"} -> Head(Base)
    [] OTHER -> None

(* What an event says to check out at once: its own commit, or the base    *)
(* branch.  A comment, and a GitLab approval, must ask for the head first. *)
Named(e) ==
  CASE e.kind = "push" -> Commit(e.pr, e.n)
    [] e.kind \in {"merge", "tick"} -> Head(Base)
    [] e.kind = "approve" /\ platform # "gitlab" -> Commit(e.pr, e.n)
    [] OTHER -> None

(* Bitbucket Server: the approval is for another commit than the head that *)
(* came with it.                                                           *)
Outdated(e) ==
  e.kind = "approve" /\ platform = "bitbucketserver" /\ e.n # e.head

(* The delivery is acknowledged and a goroutine takes the event, which may *)
(* be sent once more; there is one goroutine for all ticks.                *)
Deliver(h, e) ==
  /\ ~Busy(h) /\ e \in pending
  /\ e.kind = "tick" => \A g \in Handlers : Busy(g) => job[g].kind # "tick"
  /\ \/ pending' = pending \ {e} /\ UNCHANGED sent
     \/ /\ e.kind # "tick" /\ sent < MaxEvents
        /\ sent' = sent + 1
        /\ UNCHANGED pending
  /\ job' = [job EXCEPT ![h] = e]
  /\ answer' = [answer EXCEPT ![h] = Answer(e)]
  /\ target' = [target EXCEPT ![h] = Named(e)]
  /\ claim' = [claim EXCEPT ![h] = e.body]
  /\ pc' = [pc EXCEPT ![h] = IF Outdated(e) THEN "find"
                             ELSE IF Named(e) = None THEN "lookup" ELSE "fetch"]
  /\ UNCHANGED <<environment, clone, ran, found, comments, accepted, crashes>>

(* The PR is read from the platform: its head now and its body now.        *)
Lookup(h) ==
  /\ Local(h, "lookup", IF job[h].kind = "approve" THEN "fetch" ELSE "authorize")
  /\ target' = [target EXCEPT ![h] = Head(job[h].pr)]
  /\ claim' = [claim EXCEPT ![h] = trailer[job[h].pr]]
  /\ UNCHANGED <<clone, job, answer, ran, found, comments>>

(* Who may plan or ship is the platform's live answer.                     *)
Authorize(h) ==
  /\ \E next \in {"fetch", "find"} : Local(h, "authorize", next)
  /\ UNCHANGED <<clone, job, answer, target, claim, ran, found, comments>>

(* The other handlers that are between their fetch and their command.      *)
Amid(h) == {g \in Handlers \ {h} : pc[g] \in {"reset", "run"}}

(* ensureRepoCheckoutFromRemote: clone, or fetch every branch, after which *)
(* FETCH_HEAD is the default branch.                                       *)
EnsureRepoCheckout(h) ==
  /\ Local(h, "fetch", "fetchRef")
  /\ IF tree = None
       THEN tree' = Head(Base) /\ UNCHANGED fetchHead
       ELSE fetchHead' = Head(Base) /\ UNCHANGED tree
  /\ crossed' = crossed \cup Amid(h)
  /\ UNCHANGED <<job, answer, target, claim, ran, found, comments>>

(* Mutant: no fetch when the tree seems to be there already.               *)
FetchRef_skipped(h) ==
  /\ Local(h, "fetchRef", "reset")
  /\ fetchHead' = IF tree = target[h] THEN fetchHead ELSE target[h]
  /\ crossed' = (crossed \cup Amid(h)) \ {h}
  /\ UNCHANGED <<tree, job, answer, target, claim, ran, found, comments>>

(* Mutant: the branch is fetched, not the commit.                          *)
FetchRef_branch(h) ==
  /\ Local(h, "fetchRef", "reset")
  /\ fetchHead' = Head(target[h].branch)
  /\ crossed' = (crossed \cup Amid(h)) \ {h}
  /\ UNCHANGED <<tree, job, answer, target, claim, ran, found, comments>>

(* checkoutRef, first command: FETCH_HEAD becomes the commit asked for, or *)
(* the base branch's newest.                                               *)
FetchRef(h) ==
  /\ Local(h, "fetchRef", "reset")
  /\ fetchHead' = IF target[h].branch = Base THEN Head(Base) ELSE target[h]
  /\ crossed' = (crossed \cup Amid(h)) \ {h}
  /\ UNCHANGED <<tree, job, answer, target, claim, ran, found, comments>>

(* checkoutRef, second command: the tree becomes whatever FETCH_HEAD is by *)
(* now.                                                                    *)
ResetHard(h) ==
  /\ Local(h, "reset", IF job[h].kind = "approve" THEN "accept" ELSE "run")
  /\ tree' = fetchHead
  /\ crossed' = crossed \cup Amid(h)
  /\ UNCHANGED <<fetchHead, job, answer, target, claim, ran, found, comments>>

(* resolveStackIn over the tree and the live list of changed files, then   *)
(* the plan or the ship, whose output is the comment; a stack that cannot  *)
(* be told is refused in a "plan" comment.                                 *)
RunUbx(h) ==
  /\ Local(h, "run", "find")
  /\ job[h].kind # "tick"
  /\ ran' = [ran EXCEPT ![h] = tree]
  /\ \E a \in {answer[h], "plan"} : answer' = [answer EXCEPT ![h] = a]
  /\ UNCHANGED <<clone, job, target, claim, found, comments>>

(* driftWatchOnce: a scan for each stack of the tree; a scan posts its own *)
(* findings.                                                               *)
Scan(h) ==
  /\ \E next \in {"run", "done"} : Local(h, "run", next)
  /\ job[h].kind = "tick"
  /\ ran' = [ran EXCEPT ![h] = tree]
  /\ UNCHANGED <<clone, job, answer, target, claim, found, comments>>

(* The commit whose proposal hash the PR body names, as h knows it: GitHub *)
(* is asked after the checkout, the others told before.                    *)
Claimed(h) == IF platform = "github" THEN trailer[job[h].pr] ELSE claim[h]

(* FileAtCommit and AcceptFromReview: the proposal of the commit that was  *)
(* asked for, if the PR body names it.  Whether the ledger files the tree  *)
(* has by now take it is their business (GitLedger); here they may.        *)
AcceptFromReview(h) ==
  /\ pc[h] = "accept"
  /\ Claimed(h) = target[h].n
  /\ pc' = [pc EXCEPT ![h] = "find"]
  /\ accepted' = accepted \cup {target[h]}
  /\ UNCHANGED <<environment, sent, pending, clone, job, answer, target, claim, ran,
                 found, comments, crashes>>

(* Before the checkout: the GitLab project keeps approvals over a push, or *)
(* no single proposal file changed.  After it: the file does not parse or  *)
(* destroys something, the body does not name its hash, the ledger says no.*)
Refuse(h) ==
  /\ job[h] # None /\ job[h].kind = "approve"
  /\ \E l \in {"lookup", "fetch", "accept"} : Local(h, l, "find")
  /\ UNCHANGED <<clone, job, answer, target, claim, ran, found, comments>>

(* postOrEditComment: list the comments, then edit the bot's last one of   *)
(* that kind or create one.                                                *)
FindLastBotComment(h) ==
  /\ Local(h, "find", "write")
  /\ found' = [found EXCEPT ![h] = comments[job[h].pr][answer[h]] > 0]
  /\ UNCHANGED <<clone, job, answer, target, claim, ran, comments>>

(* Bitbucket Server: the listing failed, which counts as no comment found. *)
ListingFails(h) ==
  /\ Local(h, "find", "write")
  /\ platform = "bitbucketserver"
  /\ found' = [found EXCEPT ![h] = FALSE]
  /\ UNCHANGED <<clone, job, answer, target, claim, ran, comments>>

WriteComment(h) ==
  /\ Local(h, "write", "done")
  /\ comments' = IF found[h] THEN comments
                 ELSE [comments EXCEPT ![job[h].pr][answer[h]] = @ + 1]
  /\ UNCHANGED <<clone, job, answer, target, claim, ran, found>>

(* A call to git or to the platform failed: it is logged, nothing more.    *)
Fail(h) ==
  /\ \E l \in {"lookup", "authorize", "fetch", "fetchRef", "reset", "run", "accept",
              "find", "write"} :
       /\ Local(h, l, "done")
       /\ l = "find" => platform # "bitbucketserver"
  /\ UNCHANGED <<clone, job, answer, target, claim, ran, found, comments>>

(* The locals of handlers that are gone, and the others' as they were.     *)
Forget(H) ==
  LET Without(f, blank) == [h \in Handlers |-> IF h \in H THEN blank ELSE f[h]] IN
  /\ pc' = Without(pc, "idle")
  /\ job' = Without(job, None) /\ answer' = Without(answer, "plan")
  /\ target' = Without(target, None) /\ claim' = Without(claim, 0)
  /\ ran' = Without(ran, None) /\ found' = Without(found, FALSE)
  /\ crossed' = crossed \ H
  /\ UNCHANGED <<environment, sent, tree, fetchHead, comments, accepted>>

Finish(h) ==
  /\ pc[h] = "done"
  /\ Forget({h})
  /\ UNCHANGED <<pending, crashes>>

(* The server dies and starts again: what it was handling is forgotten,    *)
(* the clone stays as it is.                                               *)
Crash ==
  /\ crashes < MaxCrashes /\ \E h \in Handlers : Busy(h)
  /\ crashes' = crashes + 1
  /\ pending' = {e \in pending : e.kind # "tick"}
  /\ Forget(Handlers)

-----------------------------------------------------------------------------
PlatformStep ==
  \/ \E p \in PRs :
       \/ Push(p) \/ EditBody(p) \/ Merge(p)
       \/ \E verb \in {"plan", "ship"} : CommentOn(p, verb)
       \/ \E n \in 1..heads[p] : Approve(p, n)
  \/ Tick

HandlerStep(h) ==
  \/ \E e \in pending : Deliver(h, e)
  \/ Lookup(h) \/ Authorize(h)
  \/ EnsureRepoCheckout(h) \/ FetchRef(h) \/ ResetHard(h)
  \/ RunUbx(h) \/ Scan(h)
  \/ AcceptFromReview(h) \/ Refuse(h)
  \/ FindLastBotComment(h) \/ ListingFails(h) \/ WriteComment(h)
  \/ Fail(h) \/ Finish(h)

Next == PlatformStep \/ Crash \/ \E h \in Handlers : HandlerStep(h)

Spec == Init /\ [][Next]_vars

-----------------------------------------------------------------------------
ServerTypeOK ==
  /\ platform \in Platforms
  /\ heads \in [Branches -> Nat] /\ trailer \in [PRs -> Nat]
  /\ merged \subseteq PRs
  /\ reviewed \subseteq Commits /\ accepted \subseteq Commits
  /\ sent \in 0..MaxEvents
  /\ pending \subseteq Events
  /\ {tree, fetchHead} \subseteq Commits \cup {None}
  /\ crossed \subseteq Handlers
  /\ \A h \in Handlers :
       /\ job[h] \in Events \cup {None}
       /\ Busy(h) <=> job[h] # None
       /\ {target[h], ran[h]} \subseteq Commits \cup {None}
       /\ pc[h] \in {"fetch", "fetchRef", "reset", "run", "accept"} => target[h] # None
       /\ pc[h] = "reset" => fetchHead # None
       /\ pc[h] \in {"find", "write"} => job[h].pr \in PRs
  /\ answer \in [Handlers -> Kinds]
  /\ claim \in [Handlers -> Nat]
  /\ found \in [Handlers -> BOOLEAN]
  /\ comments \in [PRs -> [Kinds -> Nat]]
  /\ crashes \in 0..MaxCrashes

(* The commits an event may be carried out on: a push on the very commit   *)
(* pushed, a comment on a head the PR has had since, a merge or a tick on  *)
(* a base branch that has the merge, or is not older than the tick.        *)
Wanted(e) ==
  LET branch == IF e.kind \in {"merge", "tick"} THEN Base ELSE e.pr IN
  {c \in Commits : c.branch = branch /\ IF e.kind = "push" THEN c.n = e.n ELSE c.n >= e.n}

(* As long as no other handler's git command falls between a handler's     *)
(* fetch and its command, the command runs on a tree its own event asked   *)
(* for, although all share one clone and one FETCH_HEAD, events arrive     *)
(* late and out of order, and a crash or a failing git command leaves      *)
(* another event's tree behind.                                            *)
UndisturbedCheckout ==
  \A h \in Handlers \ crossed : ran[h] # None => ran[h] \in Wanted(job[h])

(* "[N]ever trusting whatever the working tree happened to have checked    *)
(* out from a previous event" (server/repo.go:216-219): every plan, ship   *)
(* and scan does.                                                          *)
RunsOnOwnCheckout ==
  \A h \in Handlers : ran[h] # None => ran[h] \in Wanted(job[h])

(* "This keeps exactly one, current comment of each kind visible per PR"   *)
(* (server/comment.go:27-29), whatever is handled at once or twice.        *)
OneComment == \A p \in PRs, k \in Kinds : comments[p][k] <= 1

(* Where an approval names the commit that was reviewed (GitHub, Bitbucket *)
(* Server), only a proposal some reviewer approved is ever accepted: not   *)
(* the one pushed between the review and the delivery that reports it      *)
(* (server/webhook.go handlePullRequestReviewEvent, bitbucketserver_       *)
(* webhook.go handlePullRequestApprovedBitbucketServer).                   *)
ApprovedIsReviewed ==
  platform # "gitlab" => accepted \subseteq reviewed
=============================================================================
