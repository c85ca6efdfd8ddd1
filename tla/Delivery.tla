------------------------------ MODULE Delivery ------------------------------
(***************************************************************************)
(* Apply and Cleanup of a completed Workflow: what happens after the       *)
(* execution stage.  Apply stages the delivery branch on top of the user's *)
(* Target Branch in an isolated worktree, verifies and reviews the result, *)
(* and on an explicit command fast-forwards the user's working tree.       *)
(* Cleanup removes the managed worktrees named by a confirmed manifest.    *)
(*                                                                         *)
(* One command runs at a time (the Project Writer lock); `op` is the       *)
(* effect its loop is executing, and `pending` the intents of commands     *)
(* that ended before their effect's result was recorded.  Between any two  *)
(* steps of CFlow the user works in the repository.                        *)
(*                                                                         *)
(* A commit is the set of changes its history contains, so a merge is a    *)
(* union and "descendant" is "superset".                                   *)
(***************************************************************************)
EXTENDS Naturals, Sequences, FiniteSets

CONSTANTS
    Commits,        \* the changes the user may commit on the Target Branch
    MaxApplies,     \* bound on Apply Attempts
    MaxStagings,    \* bound on staging runs, over all Attempts
    MaxCleanups,    \* bound on Cleanup Attempts
    Environment     \* what the user and the machine may do besides commands

ASSUME DeliveryAssumption ==
    /\ MaxApplies \in Nat /\ MaxStagings \in Nat /\ MaxCleanups \in Nat
    /\ Commits \cap {"base", "work", "stray", "none"} = {}

VARIABLES
    att,        \* the Apply Attempts, by number
    review,     \* the apply-verification Session and Process rows, in order
    repair,     \* a merge-resolution Process row is RUNNING
    clean,      \* the Cleanup Attempts, by number
    op,         \* the effect in flight
    pending,    \* intents whose result was never recorded
    tree,       \* the Apply Branch and Worktree of each Attempt
    workspace,  \* is the Workspace worktree registered
    manifest,   \* the Evidence Manifest of each Attempt
    target,     \* the head of the Target Branch
    dirty,      \* the user's working tree has uncommitted content
    moved,      \* the delivery branch left its recorded head
    policy,     \* the effective commit policy fingerprint
    passed,     \* history: [verified, reviewed], heads that ever passed each
    delivered   \* history: the heads a delivery moved the Target to

rows == <<att, review, repair, clean>>
git == <<tree, workspace, manifest>>
user == <<target, dirty, moved, policy>>
history == <<passed, delivered>>
vars == <<rows, op, pending, git, user, history>>

NoHead == {"none"}
BaseHead == {"base"}
DeliveryHead == {"base", "work"}
DeliveryBranch == IF moved THEN DeliveryHead \cup {"stray"} ELSE DeliveryHead
Heads == SUBSET (Commits \cup {"base", "work", "stray"}) \cup {NoHead}

Numbers == 1..MaxApplies
Workspace == 0   \* the Cleanup target that is not an Apply Worktree

ApplyStatuses == {"STAGING", "AWAITING_CONFIRMATION", "RUNNING", "SUCCEEDED", "BLOCKED"}
InFlight == {"STAGING", "AWAITING_CONFIRMATION", "RUNNING"}
ItemStatuses == {"PENDING", "REQUESTED", "COMPLETED", "FAILED"}

ApplyAttempts == [status : ApplyStatuses, target : Heads, fingerprint : {"approved", "changed"},
                  confirmed : BOOLEAN, staging : Heads]
Reviews == [session : {"STARTING", "ENDED"}, process : {"RUNNING", "STOPPED"}]
CleanupItems == [of : Numbers \cup {Workspace}, head : Heads, clean : BOOLEAN, status : ItemStatuses]
CleanupAttempts == [status : {"AWAITING_CONFIRMATION", "RUNNING", "SUCCEEDED", "BLOCKED"},
                    items : Seq(CleanupItems)]

(* The intents: the staging and the delivery of an Attempt, the run of a   *)
(* review Session and the stop of its Process, the removal of an item.     *)
Effect(kind, n, item, step) == [kind |-> kind, of |-> n, item |-> item, step |-> step]
Idle == Effect("idle", 0, 0, "none")
Effects == [kind : {"idle", "staging", "resolution", "review", "stop", "delivery", "removal"},
            of : Nat, item : Nat,
            step : {"none", "merge", "verify", "run", "pass", "fail", "crashed", "check",
                    "fast-forward", "passed", "succeeded", "failed"}]
Intent(e) == [e EXCEPT !.step = "none"]

Init ==
    /\ att = <<>> /\ review = <<>> /\ repair = FALSE /\ clean = <<>>
    /\ op = Idle /\ pending = {}
    /\ tree = [n \in Numbers |-> [present |-> FALSE, head |-> NoHead,
                                  conflict |-> FALSE, resolved |-> FALSE]]
    /\ workspace = TRUE
    /\ manifest = [n \in Numbers |-> [head |-> NoHead, passed |-> FALSE]]
    /\ target = BaseHead /\ dirty = FALSE /\ moved = FALSE /\ policy = "approved"
    /\ passed = [verified |-> {}, reviewed |-> {}] /\ delivered = {}

-----------------------------------------------------------------------------
(* What the decisions read.                                                *)

Last == Len(att)
SameAttempt == Last > 0 /\ att[Last].target = target

(* applyAttemptStaging: the FIRST Attempt still STAGING.                   *)
FirstStaging == CHOOSE n \in DOMAIN att :
    /\ att[n].status = "STAGING"
    /\ \A m \in 1..(n - 1) : att[m].status # "STAGING"

StartingReviews == {i \in DOMAIN review : review[i].session = "STARTING"}
RunningReviews == {i \in DOMAIN review : review[i].process = "RUNNING"}
Latest(S) == CHOOSE i \in S : \A j \in S : j <= i

HasRunningProcess == repair \/ RunningReviews # {}
HasActiveApply == \E n \in DOMAIN att : att[n].status \in InFlight

ItemTree(t) == IF t = Workspace
                 THEN [present |-> workspace, head |-> DeliveryBranch, clean |-> TRUE]
                 ELSE [present |-> tree[t].present, head |-> tree[t].head,
                       clean |-> ~tree[t].conflict]
ItemUnchanged(i) == /\ ItemTree(i.of).present
                    /\ ItemTree(i.of).head = i.head
                    /\ ItemTree(i.of).clean = i.clean

FirstItem(c, statuses) == CHOOSE i \in DOMAIN clean[c].items :
    /\ clean[c].items[i].status \in statuses
    /\ \A j \in 1..(i - 1) : clean[c].items[j].status \notin statuses

(* Recovery accepts the command when every pending intent is explained.    *)
(* Staging and review intents always are, and are not kept.                *)
Accepted(p) ==
    CASE p.kind = "delivery" -> att[p.of].status \notin {"STAGING", "AWAITING_CONFIRMATION"}
      [] p.kind = "stop" -> review[p.of].process # "RUNNING"
      [] p.kind = "removal" ->
            LET item == clean[p.of].items[p.item] IN
            \/ item.status \in {"COMPLETED", "FAILED"}
            \/ ~ItemTree(item.of).present
            \/ ItemTree(item.of).head = item.head
      [] OTHER -> TRUE

Command == op = Idle /\ \A p \in pending : Accepted(p)

-----------------------------------------------------------------------------
(* PrepareApply, ConfirmApplyPolicy: open an Attempt and stage it.         *)

(* applyResolutionNeeded looks at the last Attempt, whichever is opened.   *)
ResolutionNeeded == /\ Last > 0 /\ att[Last].status = "BLOCKED"
                    /\ tree[Last].present /\ tree[Last].conflict

StartStaging(n, a) ==
    /\ Len(review) < MaxStagings
    /\ att' = IF n > Last THEN Append(att, a) ELSE [att EXCEPT ![n] = a]
    /\ review' = Append(review, [session |-> "STARTING", process |-> "RUNNING"])
    /\ repair' = (repair \/ ResolutionNeeded)
    /\ op' = Effect(IF ResolutionNeeded THEN "resolution" ELSE "staging", n, 0, "merge")
    /\ UNCHANGED <<clean, pending, git, user, history>>

PolicyBlocksOnDrift(a) == a.fingerprint # policy /\ ~a.confirmed

PolicyBlocks(a) == a.fingerprint # "approved" /\ ~a.confirmed

OpenAttempt(n, a) ==
    \/ /\ PolicyBlocks(a)
       /\ att' = IF n > Last THEN Append(att, [a EXCEPT !.status = "BLOCKED"])
                             ELSE [att EXCEPT ![n] = [a EXCEPT !.status = "BLOCKED"]]
       /\ UNCHANGED <<review, repair, clean, op, pending, git, user, history>>
    \/ ~PolicyBlocks(a) /\ StartStaging(n, a)

(* applyAttemptFor: the last Attempt is reused while the Target has not    *)
(* moved; a request for an Attempt awaiting or running is a no-op.         *)
PrepareApply ==
    /\ Command /\ ~dirty /\ ~moved
    /\ \/ /\ SameAttempt /\ att[Last].status \in {"STAGING", "BLOCKED"}
          /\ OpenAttempt(Last, [att[Last] EXCEPT !.status = "STAGING"])
       \/ /\ ~(SameAttempt /\ att[Last].status \in InFlight \cup {"BLOCKED"})
          /\ Last < MaxApplies
          /\ OpenAttempt(Last + 1, [status |-> "STAGING", target |-> target,
                                    fingerprint |-> policy, confirmed |-> FALSE,
                                    staging |-> NoHead])

ConfirmApplyPolicy ==
    /\ Command /\ ~dirty /\ ~moved
    /\ SameAttempt /\ att[Last].status = "BLOCKED"
    /\ policy = att[Last].fingerprint
    /\ StartStaging(Last, [att[Last] EXCEPT !.status = "STAGING", !.confirmed = TRUE])

-----------------------------------------------------------------------------
(* The staging executor, step by step; its failures are typed results.     *)

Staging == op.kind \in {"staging", "resolution"}
Go(step) == op' = [op EXCEPT !.step = step]
Fails == Go("failed") /\ UNCHANGED <<rows, pending, git, user, history>>

(* The workspace gate and the worktree: reused, or created from the        *)
(* recorded Target head, which an existing Apply Branch forbids.           *)
CanStage(n) == /\ ~dirty /\ target = att[n].target
               /\ tree[n].present \/ tree[n].head = NoHead
Staged(n) == IF tree[n].present THEN tree[n]
             ELSE [tree[n] EXCEPT !.present = TRUE, !.head = att[n].target]

MergeInto(n, t) ==
    \/ (* a conflicted merge in progress: the ONE restricted resolution *)
       /\ t.conflict /\ op.kind = "resolution" /\ ~t.resolved
       /\ \/ /\ tree' = [tree EXCEPT ![n] = [t EXCEPT !.resolved = TRUE, !.conflict = FALSE,
                                             !.head = @ \cup DeliveryBranch]]
             /\ Go("verify")
          \/ /\ tree' = [tree EXCEPT ![n] = [t EXCEPT !.resolved = TRUE]]
             /\ Go("failed")
    \/ /\ t.conflict /\ (op.kind # "resolution" \/ t.resolved)
       /\ tree' = [tree EXCEPT ![n] = t] /\ Go("failed")
    \/ /\ ~t.conflict
       /\ tree' = [tree EXCEPT ![n] = [t EXCEPT !.head = @ \cup DeliveryBranch]]
       /\ Go("verify")
    \/ /\ ~t.conflict /\ ~(DeliveryBranch \subseteq t.head) /\ ~(t.head \subseteq DeliveryBranch)
       /\ tree' = [tree EXCEPT ![n] = [t EXCEPT !.conflict = TRUE]]
       /\ Go("failed")

StageMerge ==
    LET n == op.of IN
    /\ Staging /\ op.step = "merge"
    /\ \/ ~CanStage(n) /\ Fails
       \/ /\ CanStage(n) /\ policy # att[n].fingerprint
          /\ tree' = [tree EXCEPT ![n] = Staged(n)] /\ Go("failed")
          /\ UNCHANGED <<rows, pending, workspace, manifest, user, history>>
       \/ /\ CanStage(n) /\ policy = att[n].fingerprint
          /\ MergeInto(n, Staged(n))
          /\ UNCHANGED <<rows, pending, workspace, manifest, user, history>>

(* The commit identity or the catalog may refuse before the verification   *)
(* command runs; its manifest is written whether it passed or not.         *)
StageVerify ==
    LET n == op.of IN
    /\ Staging /\ op.step = "verify"
    /\ \/ Fails
       \/ \E ok \in BOOLEAN :
            /\ manifest' = [manifest EXCEPT ![n] = [head |-> tree[n].head, passed |-> ok]]
            /\ passed' = IF ok THEN [passed EXCEPT !.verified = @ \cup {tree[n].head}] ELSE passed
            /\ Go(IF ok THEN "passed" ELSE "failed")
            /\ UNCHANGED <<rows, pending, tree, workspace, user, delivered>>

(* decideApplyStagingResult                                                *)
StagingSettles ==
    LET n == op.of IN
    /\ Staging
    /\ \/ /\ op.step = "passed"
          /\ att' = [att EXCEPT ![n].staging = tree[n].head]
          /\ op' = Effect("review", Latest(StartingReviews), 0, "run")
          /\ UNCHANGED review
       \/ /\ op.step = "failed"
          /\ att' = [att EXCEPT ![n].status = "BLOCKED"]
          /\ review' = [i \in DOMAIN review |->
                [session |-> IF i = Latest(StartingReviews) THEN "ENDED" ELSE review[i].session,
                 process |-> IF i = Latest(RunningReviews) THEN "STOPPED" ELSE review[i].process]]
          /\ op' = Idle
    /\ UNCHANGED <<repair, clean, pending, git, user, history>>

-----------------------------------------------------------------------------
(* The independent review.  Executor and decision both take the FIRST      *)
(* Attempt that is STAGING, not the one whose staging asked for it.        *)

CanReview(n) == tree[n].present /\ manifest[n].head # NoHead

ReviewRuns ==
    LET n == FirstStaging IN
    /\ op.kind = "review" /\ op.step = "run"
    /\ CanReview(n)
    /\ \E verdict \in {"pass", "fail", "crashed"} :
         /\ Go(verdict)
         /\ passed' = IF verdict = "pass"
                        THEN [passed EXCEPT !.reviewed = @ \cup {tree[n].head}] ELSE passed
    /\ UNCHANGED <<rows, pending, git, user, delivered>>

VerdictUnread(step) == IF step # "crashed" THEN "AWAITING_CONFIRMATION" ELSE "BLOCKED"

Verdict(step) == IF step = "pass" THEN "AWAITING_CONFIRMATION" ELSE "BLOCKED"

(* decideApplyReviewRunEnded stops the Session's Process;                  *)
(* decideApplyReviewFailed does not.                                       *)
ReviewSettles ==
    LET n == FirstStaging IN
    /\ op.kind = "review" /\ op.step \in {"pass", "fail", "crashed"}
    /\ att' = [att EXCEPT ![n].status = Verdict(op.step)]
    /\ review' = [review EXCEPT ![op.of].session = "ENDED"]
    /\ op' = IF op.step # "crashed" /\ review[op.of].process = "RUNNING"
               THEN Effect("stop", op.of, 0, "none") ELSE Idle
    /\ UNCHANGED <<repair, clean, pending, git, user, history>>

ReviewStopped ==
    /\ op.kind = "stop"
    /\ review' = [review EXCEPT ![op.of].process = "STOPPED"]
    /\ op' = Idle
    /\ UNCHANGED <<att, repair, clean, pending, git, user, history>>

-----------------------------------------------------------------------------
(* ExecuteApply: the last Attempt, or one the user names with its facts.   *)

ExecuteApply(n) ==
    /\ Command /\ ~moved
    /\ \/ att[n].status = "AWAITING_CONFIRMATION" /\ target = att[n].target
       \/ att[n].status = "RUNNING" /\ (n = Last \/ target = att[n].target)
    /\ att' = [att EXCEPT ![n].status = "RUNNING"]
    /\ op' = Effect("delivery", n, 0, "check")
    /\ UNCHANGED <<review, repair, clean, pending, git, user, history>>

(* applyFastForward: a Target already at the staging head is delivered;    *)
(* otherwise every recorded fact is observed again.                        *)
Reviewed(n) == /\ tree[n].head # NoHead
               /\ att[n].staging = NoHead \/ tree[n].head = att[n].staging

AlreadyMoved(n) == Reviewed(n) /\ target # att[n].target

AlreadyDelivered(n) == Reviewed(n) /\ target = tree[n].head

Deliverable(n) == /\ Reviewed(n) /\ target = att[n].target /\ ~dirty /\ ~moved
                  /\ policy = att[n].fingerprint
                  /\ manifest[n].head # NoHead

DeliveryChecks ==
    LET n == op.of IN
    /\ op.kind = "delivery" /\ op.step = "check"
    /\ \/ Fails   \* the catalog or the evidence no longer validates
       \/ AlreadyDelivered(n) /\ Go("succeeded")
       \/ ~AlreadyDelivered(n) /\ Deliverable(n) /\ Go("fast-forward")
    /\ UNCHANGED <<rows, pending, git, user, history>>

(* fastForwardWorkingTree looks once more, then `git merge --ff-only`.  A  *)
(* refused merge, and a worktree that reads back at another head or unclean*)
(* after it, are untyped faults: the command ends without a result         *)
(* (Abandoned), before applyFastForward compares the head once more.       *)
CanForce(n) == ~dirty

CanFastForward(n) == ~dirty /\ target = att[n].target /\ target \subseteq tree[n].head

FastForward ==
    LET n == op.of IN
    /\ op.kind = "delivery" /\ op.step = "fast-forward"
    /\ \/ ~CanFastForward(n) /\ Fails
       \/ /\ CanFastForward(n)
          /\ target' = tree[n].head
          /\ delivered' = delivered \cup {tree[n].head}
          /\ Go("succeeded")
          /\ UNCHANGED <<rows, pending, git, dirty, moved, policy, passed>>

DeliverySettles ==
    /\ op.kind = "delivery" /\ op.step \in {"succeeded", "failed"}
    /\ att' = [att EXCEPT ![op.of] =
                 IF op.step = "failed" THEN [@ EXCEPT !.status = "BLOCKED"]
                 ELSE [@ EXCEPT !.status = "SUCCEEDED", !.staging = tree[op.of].head]]
    /\ op' = Idle
    /\ UNCHANGED <<review, repair, clean, pending, git, user, history>>

-----------------------------------------------------------------------------
(* Cleanup: a dry run fixes the manifest, a second command removes.        *)

RegisteredTrees == {t \in {Workspace} \cup Numbers : ItemTree(t).present}
ManifestOrder(S) == CHOOSE q \in [1..Cardinality(S) -> S] :
    \A i, j \in 1..Cardinality(S) : i < j => q[i] < q[j]

CleanupDryRun ==
    /\ Command /\ ~HasRunningProcess /\ Len(clean) < MaxCleanups
    /\ LET q == ManifestOrder(RegisteredTrees)
           item(t) == [of |-> t, head |-> ItemTree(t).head, clean |-> ItemTree(t).clean,
                       status |-> "PENDING"]
       IN clean' = Append(clean, [status |-> "AWAITING_CONFIRMATION",
                                  items |-> [i \in DOMAIN q |-> item(q[i])]])
    /\ UNCHANGED <<att, review, repair, op, pending, git, user, history>>

RequestItem(c, i) ==
    /\ clean' = [clean EXCEPT ![c].status = "RUNNING", ![c].items[i].status = "REQUESTED"]
    /\ op' = Effect("removal", c, i, "check")

CleanupAllowedBesideApply == ~HasRunningProcess

CleanupAllowed == ~HasRunningProcess /\ ~HasActiveApply

CleanupExecute ==
    LET c == Len(clean) IN
    /\ Command /\ c > 0 /\ CleanupAllowed
    /\ clean[c].items # <<>>
    /\ \/ /\ clean[c].status = "AWAITING_CONFIRMATION"
          /\ \A i \in DOMAIN clean[c].items :
                ItemUnchanged(clean[c].items[i]) /\ clean[c].items[i].clean
          /\ RequestItem(c, FirstItem(c, {"PENDING"}))
       \/ /\ clean[c].status = "RUNNING"
          /\ RequestItem(c, FirstItem(c, {"PENDING", "REQUESTED"}))
    /\ UNCHANGED <<att, review, repair, pending, git, user, history>>

(* cleanupWorktreeRemove: an absent worktree counts as removed, a drifted  *)
(* or unclean one is refused, and git itself may refuse.                   *)
RemoveItem ==
    LET item == clean[op.of].items[op.item] IN
    /\ op.kind = "removal" /\ op.step = "check"
    /\ \/ ~ItemTree(item.of).present /\ Go("succeeded") /\ UNCHANGED <<tree, workspace>>
       \/ ItemTree(item.of).present /\ Go("failed") /\ UNCHANGED <<tree, workspace>>
       \/ /\ ItemUnchanged(item) /\ item.clean
          /\ IF item.of = Workspace
               THEN workspace' = FALSE /\ UNCHANGED tree
               ELSE tree' = [tree EXCEPT ![item.of].present = FALSE] /\ UNCHANGED workspace
          /\ Go("succeeded")
    /\ UNCHANGED <<rows, pending, manifest, user, history>>

(* decideCleanupResult: the next pending item, or the end of the Attempt.  *)
ItemSettles ==
    LET c == op.of
        others == {i \in DOMAIN clean[c].items : clean[c].items[i].status = "PENDING"}
        settle(status, itemStatus) ==
            clean' = [clean EXCEPT ![c].status = status, ![c].items[op.item].status = itemStatus]
    IN
    /\ op.kind = "removal" /\ op.step \in {"succeeded", "failed"}
    /\ \/ op.step = "failed" /\ settle("BLOCKED", "FAILED") /\ op' = Idle
       \/ op.step = "succeeded" /\ others = {} /\ settle("SUCCEEDED", "COMPLETED") /\ op' = Idle
       \/ /\ op.step = "succeeded" /\ others # {}
          /\ LET i == FirstItem(c, {"PENDING"}) IN
             /\ clean' = [clean EXCEPT ![c].items[op.item].status = "COMPLETED",
                                       ![c].items[i].status = "REQUESTED"]
             /\ op' = Effect("removal", c, i, "check")
    /\ UNCHANGED <<att, review, repair, pending, git, user, history>>

-----------------------------------------------------------------------------
(* The command ends without the effect's result: a crash, Ctrl+C, or an    *)
(* effect error.  The intent stays in the ledger.                          *)
Abandoned ==
    /\ op # Idle
    /\ "crash" \in Environment
       \/ (op.kind = "review" /\ op.step = "run" /\ ~CanReview(FirstStaging))
    /\ op' = Idle
    /\ pending' = IF op.kind \in {"delivery", "stop", "removal"}
                     THEN pending \cup {Intent(op)} ELSE pending
    /\ UNCHANGED <<rows, git, user, history>>

UserCommits ==
    /\ "commit" \in Environment
    /\ \E c \in Commits \ target : target' = target \cup {c}
    /\ UNCHANGED <<rows, op, pending, git, dirty, moved, policy, history>>

UserEdits ==
    /\ "edit" \in Environment /\ dirty' = ~dirty
    /\ UNCHANGED <<rows, op, pending, git, target, moved, policy, history>>

PolicyChanges ==
    /\ "policy" \in Environment
    /\ policy' = IF policy = "approved" THEN "changed" ELSE "approved"
    /\ UNCHANGED <<rows, op, pending, git, target, dirty, moved, history>>

(* Somebody commits on the delivery branch; the commit stays there.        *)
BranchMoves ==
    /\ "move" \in Environment /\ ~moved /\ moved' = TRUE
    /\ UNCHANGED <<rows, op, pending, git, target, dirty, policy, history>>

Commands == PrepareApply \/ ConfirmApplyPolicy \/ CleanupDryRun \/ CleanupExecute
            \/ \E n \in DOMAIN att : ExecuteApply(n)

EffectStep == StageMerge \/ StageVerify \/ StagingSettles
              \/ ReviewRuns \/ ReviewSettles \/ ReviewStopped
              \/ DeliveryChecks \/ FastForward \/ DeliverySettles
              \/ RemoveItem \/ ItemSettles

UserStep == UserCommits \/ UserEdits \/ PolicyChanges \/ BranchMoves

Next == Commands \/ EffectStep \/ Abandoned \/ UserStep

Spec == Init /\ [][Next]_vars

-----------------------------------------------------------------------------
(* Every variable keeps the shape its rows, git facts and user facts have. *)
TypeOK ==
    /\ att \in Seq(ApplyAttempts) /\ review \in Seq(Reviews) /\ repair \in BOOLEAN
    /\ clean \in Seq(CleanupAttempts)
    /\ op \in Effects /\ pending \in SUBSET Effects
    /\ tree \in [Numbers -> [present : BOOLEAN, head : Heads, conflict : BOOLEAN,
                             resolved : BOOLEAN]]
    /\ workspace \in BOOLEAN
    /\ manifest \in [Numbers -> [head : Heads, passed : BOOLEAN]]
    /\ target \in Heads /\ dirty \in BOOLEAN /\ moved \in BOOLEAN
    /\ policy \in {"approved", "changed"}

(* "a failure leaves the Target exactly old or exactly the verified new    *)
(* head" (app/apply.go): while the user only adds commits, every head a    *)
(* delivery moves the Target to passed the deterministic verification and  *)
(* an independent review, across retries, drift, confirmations, crashes    *)
(* and superseded Attempts.                                                *)
DeliversVerified == delivered \subseteq passed.verified \cap passed.reviewed

(* A SUCCEEDED Attempt names a head that a delivery really put on the      *)
(* Target, also when the record was written by the retry after a crash;    *)
(* the exception is an Attempt whose Target already contained the work.    *)
SucceededWasDelivered ==
    \A n \in DOMAIN att :
        att[n].status = "SUCCEEDED" => att[n].staging \in delivered \cup {att[n].target}

(* No Attempt gets past its staging under a commit policy that differs     *)
(* from the approved one unless the user confirmed that very Attempt       *)
(* (the gate of applyRequest and the re-observations of both executors).   *)
PolicyConfirmed ==
    \A n \in DOMAIN att :
        att[n].status \in {"AWAITING_CONFIRMATION", "RUNNING", "SUCCEEDED"} =>
            att[n].fingerprint = "approved" \/ att[n].confirmed

(* Cleanup never removes the worktree of a staged Attempt that is still in *)
(* flight, whatever a crashed Cleanup and later Apply commands did before  *)
(* (cleanupExecute re-confirms that no Apply is active).                   *)
InFlightKeepsTree ==
    \A n \in DOMAIN att :
        att[n].status \in {"AWAITING_CONFIRMATION", "RUNNING"} => tree[n].present

(* The Target only ever gains history from CFlow, and only by a delivery   *)
(* of an Attempt that is RUNNING, that is, explicitly confirmed, from the  *)
(* head this Attempt recorded.                                             *)
TargetMovesExplicitly ==
    [][target' # target =>
         \/ UserCommits
         \/ /\ target \subseteq target'
            /\ \E n \in DOMAIN att : att[n].status = "RUNNING" /\ att[n].target = target]_vars

=============================================================================
